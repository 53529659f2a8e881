SPECIFICATION FairSpec
CONSTANTS
  NoQueue = NoQueue
  NoFence = NoFence
  q1 = q1
  q2 = q2
  f1 = f1
  f2 = f2
  s1 = s1
  s2 = s2
  t1 = t1
  c1 = c1
  c2 = c2
  Queue = {q1}
  Host = {h1}
  Fence = {f1}
  BinarySem = {}
  TimelineSem = {t1}
  Cb = {c1}
  Payloads = {1, 2}
  ApiUsed = {"vkWaitForFences", "vkResetFences", "vkImportFenceFdKHR", "vkGetFenceFdKHR", "vkGetFenceFdKHR_SYNC_FD", "vkImportSemaphoreFdKHR", "vkGetSemaphoreFdKHR", "vkWaitSemaphores", "vkSignalSemaphore"}
  Calls <- HandshakeCalls
  MaxSeq = 2
  MaxOps = 0
INVARIANTS WaitInDeque NoLostWakeup
CHECK_DEADLOCK FALSE
