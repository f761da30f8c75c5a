SPECIFICATION Spec
CONSTANTS
  c1 = c1
  Conn = {c1}
  max_clients = 1
  MaxStarts = 2
  WHIMP_OUT_ON_RELOAD = TRUE
  ConfigMayFail = FALSE
  StartMayFail = FALSE
  EndsWhileStarting = FALSE
INVARIANT ReloadSurvives
CHECK_DEADLOCK FALSE
