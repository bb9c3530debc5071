SPECIFICATION FairSpec
CONSTANTS
    a = a
    b = b
    c = c
    d = d
    e = e
    Nodes = {a, b, c}
    NoNode = NoNode
    Settled = {c}
    Restless = {b}
    MinPeers = 2
    MaxPeers = 2
    Threshold = 1
    Networks <- MCNetworksOfSeed
    Tables <- MCTablesOfStarts
PROPERTY
    StartsUnlessRing
CHECK_DEADLOCK FALSE
