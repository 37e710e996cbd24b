SPECIFICATION Spec
CONSTANTS
    Frames <- Jumbo
    MaxFrames = 2
    Threshold = 4
    Preamble = 3
    Addr = 1
    CntMod = 256
    Word = 2
    FifoDepth = 2
    BufWords = 1
    MaxDrops = 0
    MaxResets = 0
INVARIANTS
    NeverBlocked
CHECK_DEADLOCK FALSE
