SPECIFICATION Spec
CONSTANTS
    Peers = {p1, p2}
    NoPeer = NoPeer
    Senders = {p1}
    MaxConn = 2
    SendBuf = 2
    Chunk = 1
    MaxSeg = 2
    Pipeline = 0
    MaxBytes = 2
    Rounds = 2
    Losses = 1
    Retries = 1
INVARIANTS
    TypeOK
    OneSlotPerPeer
    EchoIsPrefix
    EchoesDoNotCollide
CHECK_DEADLOCK FALSE
