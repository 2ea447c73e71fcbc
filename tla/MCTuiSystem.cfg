CONSTANT NRows <- MCNRows
CONSTANT SimSteps <- MCSimSteps
SPECIFICATION TFairSpec
INVARIANT TuiTypeOK
INVARIANT AtMostOneInProgress
PROPERTY ProgressNeverDecreases
PROPERTY DashboardEndsAfterSuccess
PROPERTY QuitReturns
CHECK_DEADLOCK FALSE
