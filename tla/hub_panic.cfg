CONSTANTS
    n1 = n1
    n2 = n2
    e1 = e1
    e2 = e2
    c1 = c1
    c2 = c2
    ann = ann
    bob = bob
    Nothing = Nothing
    Node = {n1, n2}
    Change = {e1, e2}
    Conn = {c1, c2}
    UserOf <- MCUserOf
    Connected = {c1}
    Capacity = 1
    Asks = 1
    Fits = TRUE
    Placements <- MCPlacements
SPECIFICATION Spec
SYMMETRY Symmetry
CHECK_DEADLOCK FALSE
INVARIANTS
    PublishIsNotAborted
