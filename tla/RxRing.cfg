CONSTANTS
    RingSize = 6
    MaxLen = 3
    Lens = {2, 3}
    RTL_TX_DESC_NUM = 3
    MaxFrames = 3
    MaxSends = 0
SPECIFICATION Spec
INVARIANTS ReadsTrackCard
