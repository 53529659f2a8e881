CONSTANTS
    Stages = {"V", "F", "T"}
    LogicallyEarlier <- Pipelines
    Primary = {p}
    Secondary = {s}
    UsedUsages <- SomeUsages
    BarrierSets <- SomeBarriers
    ExecuteLists <- Lists
    MaxCommands = 5
    MaxSecondary = 2
    GoOn = FALSE
SPECIFICATION Spec
INVARIANTS TypeOK TagsInOrder NoMissedHazard NoFalseHazard
CHECK_DEADLOCK FALSE
