\* The user follows links, opens tabs, logs out and in, while checks, loads and timers end
\* in any order.
SPECIFICATION Spec
CONSTANTS
    g = g
    h = h
    Groups = {g, h}
    NoGroup = NoGroup
    Urls <- MCUrls
    MaxSteps = 5
INVARIANTS
    TypeOK
    UserArrives
PROPERTIES
    NoEntryLoggedOut
    LogoutReachesLogin
CHECK_DEADLOCK FALSE
