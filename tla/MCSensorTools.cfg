CONSTANTS
    None = None
    NotAPoint = NotAPoint
    BadHex = BadHex
    Secret = {"alice", "bob"}
    MaxI32 = 7
    MaxU32 = 9
    WireLen <- MCWireLen
    Sender = {"sensor"}
    MessageId <- Positions
    Body <- MCBody
    Size <- MCSize
    MessageIdOf <- MCMessageIdOf
    MaxFragmentBody = 4
    MaxSingleBody = 5
    MaxFragmentCount = 4
    MaxFragments = 3
    MaxReassembledBytes = 11
    MaxPending = 2
    MaxPendingPerSender = 1
    MaxReplies = 4
    MaxTries = 2
    Script <- MCScript
SPECIFICATION Spec
INVARIANTS
    DeliveredMeansReceived
    AddresseesRead
    OutputReadsBack
CHECK_DEADLOCK FALSE
