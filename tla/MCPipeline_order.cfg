SPECIFICATION PipelineSpec
CONSTANTS
    Sensor = {"a"}
    Envelope = {"a1", "a2"}
    SensorOf <- MCSensorOf
    Authentic = {"a1", "a2"}
    CacheCapacity = 1
    MaxConcurrent = 1
    MaxPending = 2
    IngressBuffer = 2
    DedupCapacity = 1
    Sinks <- MCSinks
    Required = {"batch"}
    Node = {n1, n2, n3, root}
    Root = root
    Top = Top
    Gone = Gone
    MaxAncestorDepth = 2
    MaxArrivals = 3
INVARIANT SensorInArrivalOrder
