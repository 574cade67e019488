SPECIFICATION Spec
CONSTANTS
    Nil = Nil
    l1 = l1
    l2 = l2
    s1 = s1
    s2 = s2
    u1 = u1
    u3 = u3
    n1 = n1
    LandId = {l1}
    User = {u1, u2, u3}
    Secret = {s1, s2}
    Commitment <- OneLand
    Price = {p1}
    Salt = {n1, n2}
    TREE_CAPACITY = 1
    Worker = {w1}
    MaxFaults = 1
    Groth16 = Groth16
CHECK_DEADLOCK FALSE
PROPERTY SoldByPresentOwner
