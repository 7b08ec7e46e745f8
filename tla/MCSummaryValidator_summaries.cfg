SPECIFICATION Spec
CONSTANTS
  Data <- MCData
  Reports <- MCReports
  MaxMishaps = 2
INVARIANTS TypeOK ReadAsDeclared AcceptedAsMeant CutOffRejected FormatsAgree AlwaysRoutable
CHECK_DEADLOCK FALSE
