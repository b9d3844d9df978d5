\* More chunks than the channels hold, and every kind of failure.  After a
\* failure of send_loop or encode_loop the threads may wait for each other.
CONSTANTS
    NumModulus = 32
    Contents = {c}
    NULL = NULL
    Corrupt = Corrupt
    InputChunks = 5
    LastChunkEmpty = TRUE
    InCap = 2
    NetCap = 2
    PktsPerChunk = 2
    HGAP_SALVE_LEN = 2
    keepalive = TRUE
    ReadMayFail = TRUE
    WirehairMayFail = TRUE
    NetworkMayFail = TRUE
SPECIFICATION FairSpec
INVARIANTS
    TypeOK
    SenderInv
    NoUseAfterFree
    SuccessMeansSent
    NoDeadlock
PROPERTIES
    PipelineSpec
    SendEnds
CHECK_DEADLOCK FALSE
