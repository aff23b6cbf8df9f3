CONSTANTS
    Light = {1, 2}
    Client = {c1, c2}
    MaxConnections = 1
    MaxPendingRequests = 2
    User = {anchor, auth}
    External = External
    NoChain = NoChain
SPECIFICATION ChainFairSpec
INVARIANTS
    OneLiveLight
    HandedOutSynced
    ShutdownClosesAll
PROPERTY DeadLinkReplaced
CHECK_DEADLOCK FALSE
