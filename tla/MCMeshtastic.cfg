SPECIFICATION MeshFairSpec
CONSTANTS
    Sender = {"a", "b"}
    MessageId = {"p", "q", "r"}
    Body = {"f", "t", "x"}
    Size <- MCSize
    MessageIdOf <- MCMessageIdOf
    MaxFragments = 4
    MaxFragmentBody = 2
    MaxFragmentCount = 5
    MaxReassembledBytes = 5
    MaxPending = 3
    MaxPendingPerSender = 2
    Air <- MCAir
    Single = {"t", "x"}
    Decodes <- MCDecodes
    MinBackoff = 2
    MaxBackoff = 5
INVARIANTS
    SlotsAccounted
    HandedOverWasHeard
PROPERTIES
    AssemblyEnds
    MeshEnds
CHECK_DEADLOCK FALSE
