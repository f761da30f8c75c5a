SPECIFICATION Spec
CONSTANTS
  TsBytes = 1
  BodyLen = 2
  MaxAge = 9
  Body <- MCBody
  Code <- MCCode
  Version <- MCVersion
  Time <- MCTime
  Trip <- MCTrip
INVARIANTS TypeOK RoundTrip ClientsAgree ChecksumGuards AgeWindow
CHECK_DEADLOCK FALSE
