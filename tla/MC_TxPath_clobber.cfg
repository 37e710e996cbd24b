SPECIFICATION Spec
CONSTANTS
    Clients = {c1}
    NoClient = NoClient
    Arrivals = {"none", "udp", "answered"}
    Retries = 0
    QueueMax = 0
INVARIANT
    FramesIntact
CHECK_DEADLOCK FALSE
