CONSTANTS
    MaxPayloadSize = 3
    MaxFragmentCount = 2
    Peer = {p1, p2}
    Reserved = {p1}
    MaxConnections = 2
    MaxEvents = 2
    MaxOutbox = 1
    RawConfig <- Config
    Seed = {s1, s2}
    NoSeed = NoSeed
SPECIFICATION GatewayFairSpec
INVARIANTS
    ReadinessTracksPeers
    StablePeerId
    AcceptedConfigStarts
PROPERTY EveryTaskEnds
CHECK_DEADLOCK FALSE
