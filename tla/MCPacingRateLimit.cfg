\* A sender at a low rate, the default timeout, and nothing is lost.
CONSTANTS
    NumModulus = 32
    Contents = {c}
    NULL = NULL
    Corrupt = Corrupt
    HGAP_MAX_PKT_SIZE = 1500
    HGAP_MAX_N_PKT = 64000
    Mega = 1048576
    Threads = {"send", "keepalive"}
    HLIM_CHK_PERIOD = 2
    TicksPerSec = 10
    PktCap = 3
    ByteCap = 240
    AgeCap = 20
    Commands <- RateLimited
    HGAP_SALVE_LEN = 2
    MaxLost = 0
    TimeCap = 20
    LevelCap = 800
SPECIFICATION Spec
PROPERTY KeepaliveKeepsAlive
