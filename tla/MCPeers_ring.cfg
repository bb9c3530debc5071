SPECIFICATION FairSpec
CONSTANTS
    a = a
    b = b
    c = c
    d = d
    e = e
    Nodes = {a, b, c}
    NoNode = NoNode
    Settled = {c}
    Restless = {}
    MinPeers = 2
    MaxPeers = 2
    Threshold = 1
    Networks <- MCNetworks
    Tables <- MCTablesAll
PROPERTY
    HandshakeIsAnswered
CHECK_DEADLOCK FALSE
