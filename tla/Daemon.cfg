SPECIFICATION Spec
CONSTANTS
  MaxBuf = 9
  Width = 4
  Files <- MCFiles
  Numbers <- MCNumbers
  OutOfRange <- MCOutOfRange
  FDs = 3
  MaxAddrs = 2
  Slots = 4
  Strangers = {"file", "stream"}
INVARIANTS TypeOK ConfigMeans TableAsConfigured OwnListener HarmOnlyIfNoneBound
CHECK_DEADLOCK FALSE
