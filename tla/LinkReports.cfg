\* Two sessions of the receiver, reports lost, repeated and out of order,
\* answers of the console lost or late.
SPECIFICATION Spec
CONSTANTS
  StaleAfter = 0
  HoldLoops = 1
  Window = 1
  MaxWait = 1
  MaxSessions = 2
  MaxReports = 3
  MaxGap = 1
  MaxAccepted = 4
INVARIANTS
  TypeOK
  ReportsAccounted
  ChargedOnce
  SamplesWithinSession
  NewestHeard
PROPERTIES
  RaisedOnFreshReport
CHECK_DEADLOCK FALSE
