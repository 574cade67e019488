SPECIFICATION Spec
CONSTANTS
    Nil = Nil
    User = {a, b, c}
    FirstOwner = a
    Secret = {s1}
    Price = {p1, p2}
    Handler = {h1, h2}
    MaxChallenges = 1
    MaxProofs = 1
SYMMETRY Symmetry
INVARIANT SoldAtAgreedPrice
