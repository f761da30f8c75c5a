SPECIFICATION Spec
CONSTANTS
  c1 = c1
  c2 = c2
  c3 = c3
  f1 = f1
  f2 = f2
  f3 = f3
  Conn = {c1, c2, c3}
  FD = {f1, f2, f3}
  Listener = Listener
  NoFd = NoFd
  NoConn = NoConn
  NoByte = NoByte
  NUM_CLIENTS = 2
  MAX_LIFETIME = 1
  IRIS_EPOLL_MAXFD = 2
  PduSize = 1
  Bogus <- MCNoneBogus
  HookResults = {0}
  ErrAlone = FALSE
  SetupMayFail = FALSE
  MaxPdus = 1
  MaxTime = 2
SYMMETRY MCSymmetry
INVARIANTS NoPendingForgotten CloseJustified
PROPERTY DeadlineKept
CHECK_DEADLOCK FALSE
