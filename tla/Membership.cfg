SPECIFICATION Spec
CONSTANTS
    p1 = p1
    p2 = p2
    u1 = u1
    u2 = u2
    Users = {u1, u2}
    Clients = {p1, p2}
    User <- UserOf
    MaxTries <- TwoTries
    MaxLives = 2
    None = None
SYMMETRY Symmetry
INVARIANTS
    OneSitePerId
    
CHECK_DEADLOCK FALSE
