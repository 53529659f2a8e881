SPECIFICATION Spec
CONSTANTS
  p1 = p1
  p2 = p2
  Host = {h1, h2}
  Primary = {p1, p2}
  Secondary = {s1}
  Query = {q1}
  Event = {e1}
  Applications <- EitherApplications
  Batches <- PairBatches
  Habits = {}
  MaxCmds = 2
  MaxSeq = 2
INVARIANTS TypeOK AvailableMeansResults QueriesSettled EventUseExact
SYMMETRY Hosts
CHECK_DEADLOCK FALSE
