SPECIFICATION FairSpec
CONSTANTS
    n1 = n1
    n2 = n2
    n3 = n3
    v1 = v1
    v2 = v2
    v3 = v3
    w3 = w3
    b1 = b1
    b2 = b2
    Nodes = {n1, n2}
    Workers = {v1, v2}
    NodeOf <- PairNodeOf
    PeersOf <- PairPeersOf
    Blocks = {b1, b2}
    MinedBy <- PairMinedBy
    Clashing = {b1}
    Worlds = {{}, {"header"}, {"clash"}, {"fails"}, {"stops"}}
INVARIANTS
    LossNeedsCompany
    IInv
PROPERTIES
    WorkersComeBack
    MessagesEnd
    NeighbourLearns
    DeathNeedsTwin
CHECK_DEADLOCK FALSE
