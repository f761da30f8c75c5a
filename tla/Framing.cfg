SPECIFICATION Spec
CONSTANTS
  c1 = c1
  c2 = c2
  f1 = f1
  f2 = f2
  Conn = {c1, c2}
  FD = {f1, f2}
  Listener = Listener
  NoFd = NoFd
  NoConn = NoConn
  NoByte = NoByte
  NUM_CLIENTS = 2
  MAX_LIFETIME = 1
  IRIS_EPOLL_MAXFD = 2
  PduSize = 2
  Bogus <- MCBogus
  HookResults <- MCHookResults
  ErrAlone = TRUE
  SetupMayFail = TRUE
  MaxPdus = 2
  MaxTime = 1
SYMMETRY MCSymmetry
INVARIANTS TypeOK TableOK Framing EofDrains ResultsDelivered NoClientForgotten
PROPERTIES Delivery StalledPruned
CHECK_DEADLOCK FALSE
