SPECIFICATION Spec
CONSTANTS
    NumDevices = 1
    NoAddress = {}
    Protocols = {"PING", "TFTPGET"}
    NetRetry = {"no"}
    EthRotate = {TRUE, FALSE}
    ARP_TIMEOUT_COUNT = 2
    tftp_timeout_count_max = 1
    MaxTryCount = 3
INVARIANT
    LoadedMeansComplete
