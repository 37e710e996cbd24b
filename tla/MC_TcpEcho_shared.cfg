SPECIFICATION Spec
CONSTANTS
    Peers = {p1, p2}
    NoPeer = NoPeer
    Senders = {p1, p2}
    MaxConn = 2
    SendBuf = 2
    Chunk = 1
    MaxSeg = 2
    Pipeline = 2
    MaxBytes = 2
    Rounds = 2
    Losses = 0
    Retries = 0
INVARIANT
    EchoIsPrefix
CHECK_DEADLOCK FALSE
