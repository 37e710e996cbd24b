SPECIFICATION Spec
CONSTANTS
    Depth = 5
    Threshold = 4
    Gap = 2
    MaxFrame = 3
    DemoLen = 2
    Data = {d1}
PROPERTY
    TxenDropsBehindFrame
