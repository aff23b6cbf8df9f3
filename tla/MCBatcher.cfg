SPECIFICATION BatcherSpec
CONSTANTS
    Envelope = {"s", "x", "u", "r"}
    Compression = {"none", "zstd"}
    NoFormat = NoFormat
    EncodedSize <- MCEncodedSize
    Zstd <- MCZstd
    MaxPushed = 3
    MaxMessages = 3
    MaxBatchSize = 3
    Decodable = {"s", "x", "r"}
    EntrySize <- MCEntrySize
INVARIANTS
    CandidateStaysPending
    RejectsOnlyUnbatchable
    ReadyInIngressOrder
PROPERTY FlushAllEnds
CHECK_DEADLOCK FALSE
