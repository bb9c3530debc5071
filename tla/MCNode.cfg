SPECIFICATION Spec
CONSTANTS
    t1 = t1
    t2 = t2
    t3 = t3
    t4 = t4
    MaxHeight = 3
    Kinds <- MixedKinds
    Again = TRUE
    OnPeers <- AfterPeers
    Workers = {w1}
    Server = server
    NoTx = NoTx
    Mint = "0"
    Builds = {{}, {"difficulty"}, {"columns", "seed"},
              {"merkle", "lookup", "history", "broadcast"},
              {"verify", "merkle", "difficulty", "lookup", "history", "columns",
               "broadcast", "seed"}}
    Stops = TRUE
    Span = 1
    ChunkSize = 1
    MaxEmpty = 2
    BranchNumbers = {0, 1, 2, 3, 4}
    Blocks <- MCBlocks
    Genesis = 0
    NoBlock = NoBlock
    Prev <- MCPrev
    Height <- MCHeight
    TxOf <- MCTxOf
    TxPrev <- MCTxPrev
    TxType <- OddTxType
    InCoin <- MCInCoin
    NoPrev <- MCNoPrev
    OwnBlocks <- MCOwn
    Payments <- MCPayments
    Signed <- MCSigned
    Fee <- MCFee
    Amount <- MCAmount
    Source <- MCSource
    Dest <- MCDest
    Reward <- MCReward
INVARIANTS
    StoredIsSigned
    MoneySupply
    NothingPassesDefects
    IInv
    StoreShape
PROPERTY
    LeavesPoolOnlyWhenMined
CHECK_DEADLOCK FALSE
