SPECIFICATION Spec
CONSTANTS
    Nil = Nil
    Leaf = {0, 1}
    f1 = f1
    f2 = f2
    s1 = s1
    s2 = s2
    Field = {f1, f2}
    Secret = {s1, s2}
    Commitment <- MCCommitment
    ForeignRoot = {}
    LandHash = {h1, h2}
    Buyer = {b1}
    Salt = {n1, n2}
    Address = {groth16}
    Sound = {groth16}
    MaxEvents = 4
SYMMETRY Symmetry
CONSTRAINT EventBound
INVARIANT InsertionOrRemoval
