SPECIFICATION Spec
CONSTANTS
  c1 = c1
  c2 = c2
  c3 = c3
  Conn = {c1, c2, c3}
  max_clients = 3
  MaxStarts = 3
  WHIMP_OUT_ON_RELOAD = FALSE
  ConfigMayFail = FALSE
  StartMayFail = FALSE
  EndsWhileStarting = FALSE
INVARIANTS LoopReady ReloadSurvives ClosesOwn EndClosesClients
CHECK_DEADLOCK FALSE
