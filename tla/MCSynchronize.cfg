SPECIFICATION FairSpec
CONSTANTS
    Workers = {w1, w2}
    MaxPeerHeight = 7
    Fork = 2
    RivalHeight = 4
    RefusedBlocks = {4}
    Overlap = 1
    Stride = 3
    Limit = 3
    MaxDepth = 3
    Worlds = {{}, {"gone", "stops"}, {"refused"}, {"rivals"}, {"pair"}, {"route"},
              {"difficulty", "rivals"}, {"columns", "payments", "rivals"}}
    BranchNumbers = {0, 1, 2, 3}
    Blocks <- MCBlocks
    Genesis = 1
    NoBlock = 0
    Prev <- MCPrev
    Height <- MCHeight
    TxOf <- MCTxOf
    TxPrev <- MCTxPrev
    NoPrev <- MCNoPrev
    OwnBlocks <- MCOwnBlocks
    PeerBlock <- MCPeerBlock
    OtherBlocks <- Rivals
INVARIANTS
    RoundLeavesNoGap
    NestedOnlyOnRefusal
    IInv
PROPERTIES
    QuietDeath
    WorkerComesBack
CHECK_DEADLOCK FALSE
