\* The throttling flag and what the host has been told.
CONSTANTS
  Bufs = {b1, b2, b3}
  Configs <- MCOneConfig
  MaxPkts = 5
  MaxCloses = 0
SPECIFICATION Spec
INVARIANT FlagTellsHost
CHECK_DEADLOCK FALSE
