SPECIFICATION Spec
CONSTANTS
    L1Size = 3
    L2Size = 2
    AgeMod = 3
    Ip = {a1, a2, a3, a4, a5}
    Mac = {m1, m2}
    NoIp = NoIp
    NoMac = NoMac
SYMMETRY Symmetry
INVARIANTS
    TypeOK
    AgesAreRanks
    NoneLostWhileRoom
    FreshUnlessPromoted
PROPERTIES
    ImplementsLruList
