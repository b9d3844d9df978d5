\* Sending may fail, with more chunks than the channels hold.  The threads then
\* wait for each other, which is what the property is about.
CONSTANTS
    NumModulus = 32
    Contents = {c}
    NULL = NULL
    Corrupt = Corrupt
    InputChunks = 5
    LastChunkEmpty = FALSE
    InCap = 1
    NetCap = 1
    PktsPerChunk = 2
    HGAP_SALVE_LEN = 2
    keepalive = TRUE
    ReadMayFail = FALSE
    WirehairMayFail = FALSE
    NetworkMayFail = TRUE
SPECIFICATION FairSpec
PROPERTY SendReturns
CHECK_DEADLOCK FALSE
