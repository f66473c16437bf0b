CONSTANTS
  StaCfgs <- MCStaCfgs
  InitCfgs = {c1, c2}
  None = None
  Modes = {"STA", "APSTA"}
  ReqqSize = 1
  MaxReqs = 2
  MaxAir = 3
SPECIFICATION Spec
INVARIANT TypeOK
INVARIANT HostViewCorrect
INVARIANT DataPathCorrect
INVARIANT AcceptedConfigKept
PROPERTY RequestsReturn
PROPERTY LossReported
CHECK_DEADLOCK FALSE
