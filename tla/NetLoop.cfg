SPECIFICATION FairSpec
CONSTANTS
    NumDevices = 2
    NoAddress = {2}
    Protocols = {"PING", "TFTPGET"}
    NetRetry = {"no", "2", "yes"}
    EthRotate = {TRUE, FALSE}
    ARP_TIMEOUT_COUNT = 2
    tftp_timeout_count_max = 1
    MaxTryCount = 3
INVARIANTS
    TypeOK
    OnlyCurrentStarted
    QuietAtPrompt
    NeverStuck
PROPERTY
    Returns
