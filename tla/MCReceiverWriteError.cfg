\* The file cannot be written while chunks are still coming.  The threads then
\* wait for each other, which is what the property is about.  NetCap leaves the
\* reader room for every packet, so that only dec2out can fill up.
CONSTANTS
    NumModulus = 32
    Contents <- MCContents
    NULL = NULL
    Corrupt = Corrupt
    WirehairMayFail = FALSE
    WirehairOverhead = 0
    HGAP_MAX_CHUNK_SIZE = 64
    Stream <- MCStream
    NetCap = 10
    OutCap = 1
    NetworkMayFail = FALSE
    WriteMayFail = TRUE
SPECIFICATION FairSpec
PROPERTY FailureReturns
CHECK_DEADLOCK FALSE
