SPECIFICATION Spec
CONSTANTS
    Datagrams <- MCDatagrams
    ScratchWords = 9
    UdpOffset = 10
    Depth = 22
    CsumBytes = 20
    MaxTicks = 1
INVARIANTS
    AnswersVerify
    ReplyReturnsMessage
    
PROPERTIES
    RegionsKept
