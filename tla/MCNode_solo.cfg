SPECIFICATION FairSpec
CONSTANTS
    t1 = t1
    t2 = t2
    t3 = t3
    t4 = t4
    MaxHeight = 5
    Kinds <- AllOwnKinds
    Again = FALSE
    OnPeers = {}
    Workers = {}
    Server = server
    NoTx = NoTx
    Mint = "0"
    Builds = {{}}
    Stops = FALSE
    Span = 500
    ChunkSize = 1
    MaxEmpty = 2
    BranchNumbers = {0, 1, 2, 3, 4}
    Blocks <- MCBlocks
    Genesis = 0
    NoBlock = NoBlock
    Prev <- MCPrev
    Height <- MCHeight
    TxOf <- MCTxOf
    TxPrev <- JamTxPrev
    TxType <- MCTxType
    InCoin <- MCInCoin
    NoPrev <- MCNoPrev
    OwnBlocks <- MCOwn
    Payments <- MCPayments
    Signed <- AllSigned
    Fee <- JamFee
    Amount <- MCAmount
    Source <- MCSource
    Dest <- MCDest
    Reward <- MCReward
INVARIANTS
    MinedLeavesPool
    MoneySupply
PROPERTY
    PooledIsMined
CHECK_DEADLOCK FALSE
