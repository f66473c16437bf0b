\* A request whose handler reports events, while other tasks report theirs.
CONSTANTS
  NumReq = 2
  Frags <- MCFullFrags
  SelfPosts <- MCPosts
  BufCap = 2
  QMax = 2
  Window = 1
  MaxRestarts = 0
  AllocMayFail = FALSE
  Producers = {p1}
  MaxEvents = 2
SPECIFICATION FairSpec
PROPERTY HandlerEventsAreSent
CHECK_DEADLOCK FALSE
