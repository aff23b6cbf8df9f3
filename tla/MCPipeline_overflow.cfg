SPECIFICATION PipelineSpec
CONSTANTS
    Sensor = {"a", "b"}
    Envelope = {"a1", "a2", "b1"}
    SensorOf <- MCSensorOf
    Authentic = {"a1", "a2", "b1"}
    CacheCapacity = 1
    MaxConcurrent = 1
    MaxPending = 1
    IngressBuffer = 2
    DedupCapacity = 1
    Sinks <- MCSinks
    Required = {"batch"}
    Node = {n1, n2, n3, root}
    Root = root
    Top = Top
    Gone = Gone
    MaxAncestorDepth = 2
    MaxArrivals = 4
INVARIANT CachedNotDelayed
