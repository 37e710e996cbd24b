SPECIFICATION FairSpec
CONSTANTS
    Peers = {p1}
    NoPeer = NoPeer
    Senders = {p1}
    MaxConn = 2
    SendBuf = 3
    Chunk = 2
    MaxSeg = 3
    Pipeline = 3
    MaxBytes = 4
    Rounds = 2
    Losses = 0
    Retries = 0

    
PROPERTIES
    EchoArrives
    OpenOrCloseCompletes
CHECK_DEADLOCK FALSE
