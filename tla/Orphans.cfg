SPECIFICATION Spec
CONSTANTS
  c1 = c1
  c2 = c2
  f1 = f1
  f2 = f2
  Conn = {c1, c2}
  FD = {f1, f2}
  Listener = Listener
  NoFd = NoFd
  NoConn = NoConn
  NoByte = NoByte
  NUM_CLIENTS = 1
  MAX_LIFETIME = 1
  IRIS_EPOLL_MAXFD = 3
  PduSize = 1
  Bogus <- MCNoneBogus
  HookResults = {0}
  ErrAlone = FALSE
  SetupMayFail = FALSE
  MaxPdus = 1
  MaxTime = 1
SYMMETRY MCSymmetry

PROPERTY StalledPruned
CHECK_DEADLOCK FALSE
