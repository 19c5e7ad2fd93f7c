SPECIFICATION Spec
CONSTANTS
    Segments <- MCSegments
    Scopes <- MCScopes
    Streams <- MCStreams
    TTL = 1
    MaxTime = 1
    MaxLeases = 3
    MaxCreds = 2
    MaxRecords = 2
    MaxPending = 1
INVARIANTS
    TypeOK
    OneLiveWriter
    NoStaleWriter
    NoOrphanCredential
    LineageIsChain
PROPERTY
    ImplementsWriterPromise
