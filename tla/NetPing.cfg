\* One known host, two echo requests.
SPECIFICATION Spec
CONSTANTS
    ARP_CACHE_SIZE = 2
    IPs = {"a"}
    MACs = {"m"}
    NoMac = "none"
    Broadcast = "all"
    PingCount = 2
    ArpWait = 1
    PingWait = 1
    MaxRx = 2
    MaxFrames = 3
PROPERTIES
    ReplyIsOwn
