CONSTANT NRows <- MCNRows
SPECIFICATION ProtocolSpec
INVARIANT AppTypeOK
INVARIANT AggregateMatches
CHECK_DEADLOCK FALSE
