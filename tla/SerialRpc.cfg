\* A host that waits for each answer and may restart; memory never runs out.
CONSTANTS
  NumReq = 3
  Frags <- MCFrags
  SelfPosts <- MCNoPosts
  BufCap = 2
  QMax = 2
  Window = 1
  MaxRestarts = 1
  AllocMayFail = FALSE
  Producers = {p1, p2}
  MaxEvents = 3
SPECIFICATION FairSpec
PROPERTY ImplementsRpcService
PROPERTY EveryRequestAnswered
PROPERTY ProducersReturn
CHECK_DEADLOCK FALSE
