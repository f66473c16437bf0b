\* A host that does not wait for its answers, handlers that post events, a
\* restart, and a heap that may be exhausted.
CONSTANTS
  NumReq = 3
  Frags <- MCFullFrags
  SelfPosts <- MCPosts
  BufCap = 2
  QMax = 2
  Window = 2
  MaxRestarts = 1
  AllocMayFail = TRUE
  Producers = {p1}
  MaxEvents = 2
SPECIFICATION Spec
INVARIANT TypeOK
INVARIANT CopyStaysInBuffer
INVARIANT OneRequestInTransit
INVARIANT HandledInOrder
INVARIANT OnlyTwoWaysToHang
CHECK_DEADLOCK FALSE
