SPECIFICATION FairSpec
CONSTANTS
    Envelope = {"s", "x"}
    Compression = {"none", "zstd"}
    NoFormat = NoFormat
    EncodedSize <- MCEncodedSize
    Zstd <- MCZstd
    MaxPushed = 2
    MaxMessages = 2
    MaxBatchSize = 3
    Decodable = {"s", "x"}
    EntrySize <- MCEntrySize
    ReadyPage = 2
    MaxPayload = 3
    MaxStarts = 3
INVARIANTS
    TypeOK
    IInv
    NothingLost
    BatchedOnce
    ConfirmedIsAnchored
    OnePayloadPerId
    FirstAnchoredInOrder
    FormatDescribesReady
PROPERTIES
    BatchesAreImmutable
    KeepsPromise
    EventuallyAnchored
