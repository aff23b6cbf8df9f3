SPECIFICATION PipelineFairSpec
CONSTANTS
    Sensor = {"a", "b"}
    Envelope = {"a1", "b1", "f"}
    SensorOf <- MCSensorOf
    Authentic = {"a1", "b1"}
    CacheCapacity = 1
    MaxConcurrent = 1
    MaxPending = 2
    IngressBuffer = 2
    DedupCapacity = 1
    Sinks <- MCSinks
    Required = {"batch"}
    Node = {n1, n2, n3, root}
    Root = root
    Top = Top
    Gone = Gone
    MaxAncestorDepth = 2
    MaxArrivals = 3
INVARIANTS
    EveryMessageInOnePlace
    OneLookupPerSensor
    DecisionsFollowChain
    DuplicateWasStored
    StoredTwiceOnlyIfReleased
PROPERTY EveryMessageSettles
