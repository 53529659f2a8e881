SPECIFICATION FairSpec
CONSTANTS
  Host = {h1, h2}
  Image = {i1}
  View = {v1}
  Set = {d1}
  Slot = {1}
  Primary = {p1}
  Secondary = {s1}
  None = None
  Habits = {}
  MaxUses = 2
  MaxRunning = 1
INVARIANTS TypeOK LinksMatch LinkedAlive NeverSilentlyValid InvalidHasReason RunningIsInUse 
PROPERTIES CallsEnd
CHECK_DEADLOCK FALSE
