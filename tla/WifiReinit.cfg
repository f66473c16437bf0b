CONSTANTS
  StaCfgs <- MCOneStaCfg
  InitCfgs = {c1, c2}
  None = None
  Modes = {"STA"}
  ReqqSize = 2
  MaxReqs = 3
  MaxAir = 0
SPECIFICATION Spec
INVARIANT ReinitTakesEffect
CHECK_DEADLOCK FALSE
