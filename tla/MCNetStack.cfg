SPECIFICATION Spec
CONSTANTS
    ARP_CACHE_SIZE = 2
    IPs = {"a", "b", "c"}
    MACs = {"m", "n"}
    NoMac = "none"
    Broadcast = "all"
    PingCount = 2
    ArpWait = 1
    PingWait = 1
    MaxRx = 2
    MaxFrames = 3
INVARIANTS
    TypeOK
    ArpUnique
PROPERTIES
    LookupFollowsArp
    CommandEnds
