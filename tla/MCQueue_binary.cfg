SPECIFICATION FairSpec
CONSTANTS
  NoQueue = NoQueue
  NoFence = NoFence
  q1 = q1
  q2 = q2
  f1 = f1
  f2 = f2
  s1 = s1
  s2 = s2
  t1 = t1
  c1 = c1
  c2 = c2
  Queue = {q1, q2}
  Host = {h1, h2}
  Fence = {f1, f2}
  BinarySem = {s1, s2}
  TimelineSem = {}
  Cb = {c1, c2}
  Payloads = {}
  ApiUsed = {"vkWaitForFences", "vkResetFences"}
  Calls <- BinaryCalls
  MaxSeq = 3
  MaxOps = 4
INVARIANTS TypeOK FenceRetiredLast FenceVerdictExact InUseExact PromiseOnce QueueInv
PROPERTIES RetiredInOrder HostWaitsEnd ImplementsRetirement
CHECK_DEADLOCK FALSE
