\* Two senders, the startup event, a driver and a heap that may fail, and a host
\* that comes and goes.
CONSTANTS
  Writers = {w1, w2}
  TxMax = 2
  SendMayFail = TRUE
  AllocMayFail = TRUE
  MaxPkts = 4
  MaxEvents = 4
SPECIFICATION FairSpec
INVARIANT TypeOK
INVARIANT SlotsConserved
INVARIANT DriverHasRoom
INVARIANT BuffersAccounted
PROPERTY HostIsGreeted
PROPERTY WritersReturn
CHECK_DEADLOCK FALSE
