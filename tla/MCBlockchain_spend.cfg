SPECIFICATION Spec
CONSTANTS
    Procs = {p1, p2}
    MaxBranches = 2
    g = g
    a1 = a1
    a2 = a2
    b1 = b1
    b2 = b2
    b3 = b3
    c1 = c1
    Blocks = {g, a1, a2, b1, b2, b3, c1}
    Genesis = g
    NoBlock = NoBlock
    Prev <- MCPrev
    Height <- MCHeight
    TxOf <- MCTxOf
    TxPrev <- MCTxPrev
    TxHash <- MCTxHash
    TxType <- MCTxType
INVARIANT
    ChainSpendsOnce
CHECK_DEADLOCK FALSE
