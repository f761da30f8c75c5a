SPECIFICATION Spec
CONSTANTS
  MaxLine = 10
  HostLen = 3
  ServiceLen = 3
  OutputLen = 4
  Inputs <- MCInputs
  Clients = {"c", "perl"}
  Faults = {"none", "stream", "memory"}
  Parts = 2
  Room = 3
  Timeouts = {0, 10}
  Networks = {"up", "refused", "silent"}
  BrokerErrs = TRUE
INVARIANTS TypeOK RecordsRead SplitContained OverrunOnlyIfLong PerlAgrees SentMeansTaken
PROPERTIES TimeoutEnds ServedEnds
CHECK_DEADLOCK FALSE
