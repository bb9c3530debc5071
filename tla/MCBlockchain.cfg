SPECIFICATION Spec
CONSTANTS
    Procs = {p1, p2, p3}
    MaxBranches = 2
    g = g
    a1 = a1
    a2 = a2
    b1 = b1
    b2 = b2
    b3 = b3
    c1 = c1
    Blocks = {g, a1, a2, b1, b2, b3, c1}
    Genesis = g
    NoBlock = NoBlock
    Prev <- MCPrev
    Height <- MCHeight
    TxOf <- MCTxOf
    TxPrev <- MCTxPrev
    TxHash <- MCTxHash
    TxType <- MCTxType
SYMMETRY Symmetry
INVARIANTS
    TypeOK
    BranchIsPath
    PrimaryIsTallest
    FirstChildContinues
    BranchRowIsTip
    MainBranchSpendsOnce
    RootSurvivesRelay
    IInv
PROPERTIES
    StoreSpec
    PrimaryChainSpec
    RaisesAreForeseen
CHECK_DEADLOCK FALSE
