CONSTANTS
    friend = friend
    stranger = stranger
    online = online
    offline = offline
    list = list
    filter = filter
    NoProfile = NoProfile
    Users <- MCUsers
    Presences <- MCPresences
    Online <- MCOnline
    FollowedSets <- MCFollowedSets
    Lists <- MCLists
    Groups <- MCGroups
    ListGroups <- MCListGroups
    MaxUpdatesPerFrame = 1
    PatientTitle = TRUE
    EarlyResync = FALSE
    OthersSubscribe = FALSE
    StartMayFail = FALSE
    MaxRefreshes = 2
    MaxUpdates = 1
    MaxGroups = 1
    MaxNotices = 1
SPECIFICATION Spec
CHECK_DEADLOCK FALSE
INVARIANTS
    TypeOK
    ViewsAreCurrent
    CountsMatchLists
    NothingBlocks
