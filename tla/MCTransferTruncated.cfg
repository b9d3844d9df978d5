\* The packets of the sender are one byte larger than the receiver's buffers.
CONSTANTS
    NumModulus = 32
    Contents <- MCContents
    NULL = NULL
    Corrupt = Corrupt
    WirehairMayFail = FALSE
    WirehairOverhead = 0
    HGAP_MAX_CHUNK_SIZE = 64
    HGAP_SALVE_LEN = 2
    Setups <- Reliable
    rcv_pkt_size = 24
    IdModulus = 5
SPECIFICATION Spec
INVARIANTS
    SuccessGenuine
