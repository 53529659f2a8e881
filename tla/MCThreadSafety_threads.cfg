SPECIFICATION Spec
CONSTANTS
  Thread = {t1, t2}
  NoThread = NoThread
  AnyThread = AnyThread
  Queue = {q1, q2}
  CommandPool = {p1, p2}
  CommandBuffer = {c1, c2}
  Secondary = {c2}
  DescriptorPool = {dp1}
  DescriptorSet = {d1, d2}
  Device = Device
  NoObject = NoObject
  Half = 64
  Families <- AllFamilies
  Habits = {"queues first"}
  SkipOn <- AllButSets
  MaxGen = 3
INVARIANTS TypeOK ReportMeansConflict IdleMeansUnused CollisionReported 
SYMMETRY Symmetry
CHECK_DEADLOCK FALSE
