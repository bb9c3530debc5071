SPECIFICATION Spec
CONSTANTS
    t1 = t1
    t2 = t2
    t3 = t3
    t4 = t4
    MaxHeight = 3
    Kinds <- RivalKinds
    Again = TRUE
    OnPeers = {}
    Workers = {w1}
    Server = server
    NoTx = NoTx
    Mint = "0"
    Builds = {{}}
    Stops = FALSE
    Span = 500
    ChunkSize = 1
    MaxEmpty = 2
    BranchNumbers = {0, 1, 2, 3, 4}
    Blocks <- MCBlocks
    Genesis = 0
    NoBlock = NoBlock
    Prev <- MCPrev
    Height <- MCHeight
    TxOf <- MCTxOf
    TxPrev <- MCTxPrev
    TxType <- MCTxType
    InCoin <- MCInCoin
    NoPrev <- MCNoPrev
    OwnBlocks <- MCOwn
    Payments <- MCPayments
    Signed <- MCSigned
    Fee <- MCFee
    Amount <- MCAmount
    Source <- MCSource
    Dest <- MCDest
    Reward <- MCReward
PROPERTY
    LeavesPoolForMainBranch
CHECK_DEADLOCK FALSE
