CONSTANT NRows <- MCNRows
CONSTANT SimSteps <- MCSimSteps
SPECIFICATION TSpec
INVARIANT FinalProgressFull
CHECK_DEADLOCK FALSE
