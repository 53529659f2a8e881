SPECIFICATION Spec
CONSTANTS
  p1 = p1
  p2 = p2
  Host = {h1}
  Primary = {p1}
  Secondary = {s1}
  Query = {q1}
  Event = {}
  Applications <- QueryApplications
  Batches <- SingleBatches
  Habits = {"shared"}
  MaxCmds = 2
  MaxSeq = 2
INVARIANTS NoOwnLock
CHECK_DEADLOCK FALSE
