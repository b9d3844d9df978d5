\* wirehair may run out of memory.
CONSTANTS
    NumModulus = 32
    Contents <- MCContents
    NULL = NULL
    Corrupt = Corrupt
    WirehairMayFail = TRUE
    WirehairOverhead = 0
    HGAP_MAX_CHUNK_SIZE = 64
    Stream <- MCStream
    NetCap = 2
    OutCap = 1
    NetworkMayFail = FALSE
    WriteMayFail = FALSE
SPECIFICATION Spec
INVARIANTS
    WirehairErrorReported
