CONSTANTS
  Chunks = 1
  ReqqSize = 1
  CmdqSize = 3
  MaxReqs = 6
  MaxTimers = 3
  MaxEvents = 2
SPECIFICATION Spec
INVARIANT TypeOK
INVARIANT UpdateIsWhole
INVARIANT HeartbeatAsAsked
PROPERTY RequestsReturn
PROPERTY UpdateRestarts
CHECK_DEADLOCK FALSE
