\* Ticks of half a second, and the rate looked at every second packet.
CONSTANTS
    NumModulus = 32
    Contents = {c}
    NULL = NULL
    Corrupt = Corrupt
    HGAP_MAX_PKT_SIZE = 1500
    HGAP_MAX_N_PKT = 64000
    Mega = 1048576
    Threads = {"send", "keepalive"}
    HLIM_CHK_PERIOD = 1
    TicksPerSec = 2
    PktCap = 2
    ByteCap = 168
    AgeCap = 4
    Commands <- MCCommands
    HGAP_SALVE_LEN = 2
    MaxLost = 1
    TimeCap = 9
    LevelCap = 700
SPECIFICATION FairSpec
INVARIANTS
    TypeOK
    RateRespected
    AcceptedConfigFits
    NoSuccessUnreachable
    PacingInv
    SilenceInv
PROPERTIES
    NoFalseTimeout
    LimiterReleases
    KillNoticed
