CONSTANTS
    Stages = {"V", "F", "T"}
    LogicallyEarlier <- Pipelines
    Primary = {p}
    Secondary = {s}
    UsedUsages <- SomeUsages
    BarrierSets <- SomeBarriers
    ExecuteLists <- OneByOne
    MaxCommands = 4
    MaxSecondary = 1
    GoOn = TRUE
SPECIFICATION Spec
INVARIANTS SecondariesChecked
CHECK_DEADLOCK FALSE
