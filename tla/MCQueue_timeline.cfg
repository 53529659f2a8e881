SPECIFICATION FairSpec
CONSTANTS
  NoQueue = NoQueue
  NoFence = NoFence
  q1 = q1
  q2 = q2
  f1 = f1
  f2 = f2
  s1 = s1
  s2 = s2
  t1 = t1
  c1 = c1
  c2 = c2
  Queue = {q1}
  Host = {h1, h2}
  Fence = {}
  BinarySem = {}
  TimelineSem = {t1}
  Cb = {c1, c2}
  Payloads = {1, 2}
  ApiUsed = {"vkWaitSemaphores"}
  Calls <- CounterCalls
  MaxSeq = 3
  MaxOps = 0
INVARIANTS NeverAhead
PROPERTIES CompletedForward SemaphoreWaitMeansRetired HostWaitsEnd
CHECK_DEADLOCK FALSE
