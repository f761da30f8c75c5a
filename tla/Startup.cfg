SPECIFICATION Spec
CONSTANTS
  c1 = c1
  c2 = c2
  Conn = {c1, c2}
  max_clients = 1
  MaxStarts = 3
  WHIMP_OUT_ON_RELOAD = TRUE
  ConfigMayFail = TRUE
  StartMayFail = TRUE
  EndsWhileStarting = TRUE
INVARIANTS TypeOK  
 
CHECK_DEADLOCK FALSE
