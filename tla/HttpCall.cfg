CONSTANTS
    c1 = c1
    c2 = c2
    u = u
    Calls <- MCCalls
    Users <- MCUsers
    UserOf <- MCUserOf
    RetryAllowed <- MCCalls
    XalWaits = TRUE
    RefreshMayFail = FALSE
SPECIFICATION FairSpec
CHECK_DEADLOCK FALSE
INVARIANTS
    TypeOK
    CallsAreSound
    RetryIsFresh
PROPERTY CallsComplete
