\* Two writers, a host that sends and wakes up, and no memory for dummies.
CONSTANTS
  Writers = {w1, w2}
  Post = post
  Reset = reset
  TxSize = 1
  RxSize = 1
  DriverSize = 1
  TxKinds = {"serial", "others"}
  RxKinds = {"serial"}
  MaxPkts = 2
  MaxHostPkts = 2
  MaxWakes = 1
  AllocMayFail = TRUE
SPECIFICATION FairSpec
INVARIANT TypeOK
INVARIANT TakeFindsPacket
INVARIANT PacketsAnnounced
PROPERTY PacketsReachHost
CHECK_DEADLOCK FALSE
