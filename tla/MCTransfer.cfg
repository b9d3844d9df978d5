\* Three links: one within what the redundancy makes up for, one that loses
\* anything, one that reorders.
CONSTANTS
    NumModulus = 32
    Contents <- MCContents
    NULL = NULL
    Corrupt = Corrupt
    WirehairMayFail = FALSE
    WirehairOverhead = 1
    HGAP_MAX_CHUNK_SIZE = 64
    HGAP_SALVE_LEN = 2
    Setups <- MCSetups
    rcv_pkt_size = 25
    IdModulus = 5
SPECIFICATION FairSpec
INVARIANTS
    TypeOK
    CompleteOnSuccess
    RedundancyMet
    OutputInOrder
    NoPartialChunkSkipped
    ContentGenuine
    NoOutputWithoutBegin
    TransferInv
    CompleteInv
PROPERTY ReceptionEnds
