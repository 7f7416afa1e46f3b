CONSTANTS
    RingSize = 12
    MaxLen = 5
    Lens = {2, 4, 5}
    RTL_TX_DESC_NUM = 3
    MaxFrames = 4
    MaxSends = 4
SPECIFICATION Spec
INVARIANTS TypeOK FirstLapInOrder WaitingIntact SentInOrder
PROPERTIES CommandEnds
