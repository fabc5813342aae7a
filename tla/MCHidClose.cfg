SPECIFICATION Spec
CONSTANTS
  query = query
  erase = erase
  Nothing = Nothing
  Report <- MCReport
  Answered <- MCAnswered
  Requests <- MCRequests
  SizeOf <- MCSize
  Ep0Size = 2
  StatusStageTimeout = 1
  ReportHandler = TRUE
  MaxQueued = 0
  MaxFaults = 1
CHECK_DEADLOCK FALSE
INVARIANTS
  SafelyCleanedUp
