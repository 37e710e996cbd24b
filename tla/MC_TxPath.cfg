SPECIFICATION FairSpec
CONSTANTS
    Clients = {c1, c2}
    NoClient = NoClient
    Arrivals = {"none", "answered", "offer", "udp", "tcp data", "tcp control"}
    QueueMax = 2
    Retries = 1
INVARIANTS
    TypeOK
    EchoHasItsPayload
    GatedFrameDisturbedByInputOnly
    DiscoversEnd
    NeverConfigured
    HelloAsksInVain
PROPERTIES
    GatedRequestTaken
    RequestEchoed
CHECK_DEADLOCK FALSE
