SPECIFICATION FairSpec
CONSTANTS
  NoQueue = NoQueue
  NoFence = NoFence
  q1 = q1
  q2 = q2
  f1 = f1
  f2 = f2
  s1 = s1
  s2 = s2
  t1 = t1
  c1 = c1
  c2 = c2
  Queue = {q1}
  Host = {h1}
  Fence = {f1}
  BinarySem = {}
  TimelineSem = {}
  Cb = {c1}
  Payloads = {}
  ApiUsed = {"vkQueueWaitIdle"}
  Calls <- FencedCalls
  MaxSeq = 2
  MaxOps = 0
PROPERTIES IdleMeansRetired
CHECK_DEADLOCK FALSE
