\* A host that sends a request before the answer to the one before.
CONSTANTS
  NumReq = 3
  Frags <- MCFullFrags
  SelfPosts <- MCNoPosts
  BufCap = 2
  QMax = 2
  Window = 2
  MaxRestarts = 0
  AllocMayFail = FALSE
  Producers = {p1}
  MaxEvents = 0
SPECIFICATION Spec
PROPERTY ReceivedCompleteBuffer
CHECK_DEADLOCK FALSE
