SPECIFICATION Spec
CONSTANTS
    Nil = Nil
    User = {a, b, c}
    FirstOwner = a
    Secret = {s1, s2}
    Price = {p1}
    Handler = {h1, h2}
    MaxChallenges = 2
    MaxProofs = 2
SYMMETRY Symmetry
INVARIANTS
    TypeOK
    SoldByItsOwner
    VerifiedIsBacked
