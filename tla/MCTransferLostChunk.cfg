\* All packets of a chunk may be lost; the erasure code is ideal.
CONSTANTS
    NumModulus = 32
    Contents <- MCContents
    NULL = NULL
    Corrupt = Corrupt
    WirehairMayFail = FALSE
    WirehairOverhead = 0
    HGAP_MAX_CHUNK_SIZE = 64
    HGAP_SALVE_LEN = 2
    Setups <- Lossy
    rcv_pkt_size = 25
    IdModulus = 5
SPECIFICATION Spec
INVARIANTS
    LostChunkReported
