\* Channels that fill up; losses, timeouts, errors of the network, of wirehair and
\* of the output file.  After a write error the threads may wait for each other.
CONSTANTS
    NumModulus = 32
    Contents <- MCContents
    NULL = NULL
    Corrupt = Corrupt
    WirehairMayFail = TRUE
    WirehairOverhead = 0
    HGAP_MAX_CHUNK_SIZE = 64
    Stream <- MCStream
    NetCap = 2
    OutCap = 1
    NetworkMayFail = TRUE
    WriteMayFail = TRUE
SPECIFICATION FairSpec
INVARIANTS
    TypeOK
    AllEmittedWritten
    SuccessNeedsEnd
    NoDeadlock
    ReceiverInv
PROPERTIES
    OutputSpec
    ReceiveReturns
CHECK_DEADLOCK FALSE
