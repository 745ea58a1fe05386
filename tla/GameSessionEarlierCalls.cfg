CONSTANTS
    NoSession = NoSession
    Failed = Failed
    NumUsers = 2
    Workers = {"worker"}
    CountRange = 4
    StartMayFail = FALSE
    PatientTitle = TRUE
    MaxNumber = 2
    MaxResets = 2
    MaxResyncs = 1
    MaxGets = 1
    MaxRequests = 1
SPECIFICATION Spec
CHECK_DEADLOCK FALSE
INVARIANT ResetIgnoresEarlierCalls
