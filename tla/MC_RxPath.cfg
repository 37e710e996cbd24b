SPECIFICATION FairSpec
CONSTANTS
    Frames <- Mixed
    MaxFrames = 3
    Threshold = 2
    Preamble = 3
    Addr = 1
    CntMod = 256
    Word = 2
    FifoDepth = 8
    BufWords = 1
    MaxDrops = 2
    MaxResets = 1
INVARIANTS
    TypeOK
    FifoAligned
    
PROPERTIES
    
    Resynchronises
CHECK_DEADLOCK FALSE
