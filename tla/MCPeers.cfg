SPECIFICATION Spec
CONSTANTS
    a = a
    b = b
    c = c
    d = d
    e = e
    Nodes = {a, b, c, d, e}
    NoNode = NoNode
    Settled = {b, c, e}
    Restless = {}
    MinPeers = 2
    MaxPeers = 2
    Threshold = 1
    Networks <- MCNetworks
    Tables <- MCTables
INVARIANTS
    TypeOK
    OverrunByOne
    KnownToEachOther
    IInv
CHECK_DEADLOCK FALSE
