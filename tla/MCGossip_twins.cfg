SPECIFICATION Spec
CONSTANTS
    n1 = n1
    n2 = n2
    n3 = n3
    v1 = v1
    v2 = v2
    v3 = v3
    w3 = w3
    b1 = b1
    b2 = b2
    Nodes = {n1, n2, n3}
    Workers = {v1, v2, v3, w3}
    NodeOf <- TriangleNodeOf
    PeersOf <- TrianglePeersOf
    Blocks = {b1}
    MinedBy <- TriangleMinedBy
    Clashing = {b1}
    Worlds = {{}}
SYMMETRY WorkersOfN3
PROPERTIES
    DeliverySpec
    DeathNeedsTwin
CHECK_DEADLOCK FALSE
