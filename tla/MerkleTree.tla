----------------------------- MODULE MerkleTree -----------------------------
(***************************************************************************)
(* The Merkle tree of apps/server/src/services/merkle.service.ts and the   *)
(* circuit component that checks its paths, MerkleTreeChecker.circom.      *)
(* Poseidon is an injective function on numbers: Cantor's pairing plus one *)
(* so that the circuit's multiplexer can be written as the arithmetic it   *)
(* is.  The values stay far below the field's prime.                       *)
(***************************************************************************)
EXTENDS Integers

CONSTANTS
    TREE_DEPTH,   \* 20 in the code
    Commitments,  \* values of occupied leaves; 0 is the empty leaf
    PathValues    \* what a prover may put in a path

ASSUME TreeAssumption ==
    TREE_DEPTH \in Nat \ {0} /\ Commitments \subseteq Nat \ {0} /\ PathValues \subseteq Nat

Level == 0..(TREE_DEPTH - 1)
TREE_CAPACITY == 2 ^ TREE_DEPTH
ZERO_LEAF == 0

poseidonHash2(left, right) == ((left + right) * (left + right + 1)) \div 2 + right + 1

(* zeros[i] = root of an empty subtree of height i *)
zeros[i \in 0..TREE_DEPTH] ==
    IF i = 0 THEN ZERO_LEAF ELSE poseidonHash2(zeros[i - 1], zeros[i - 1])

VARIABLE leaves   \* the occupied leaves: a function from their indices to commitments

(* current.get(index) ?? zs[level] *)
Get(layer, index, level) == IF index \in DOMAIN layer THEN layer[index] ELSE zeros[level]

(* Mutant: an absent sibling counts as an empty leaf on every level *)
NextLayer_ZeroLeaf(layer, level) ==
    LET get(index) == IF index \in DOMAIN layer THEN layer[index] ELSE ZERO_LEAF
    IN [parent \in {i \div 2 : i \in DOMAIN layer} |->
           poseidonHash2(get(2 * parent), get(2 * parent + 1))]

NextLayer(layer, level) ==
    [parent \in {i \div 2 : i \in DOMAIN layer} |->
        poseidonHash2(Get(layer, 2 * parent, level), Get(layer, 2 * parent + 1, level))]

(* buildTree's layers, and the root they end in *)
buildTree(map) ==
    LET layers[level \in 0..TREE_DEPTH] ==
            IF level = 0 THEN map ELSE NextLayer(layers[level - 1], level - 1)
    IN layers

Root(layers) == Get(layers[TREE_DEPTH], 0, TREE_DEPTH)

pathFor(layers, leafIndex) ==
    [level \in Level |->
        LET index == leafIndex \div 2 ^ level
            sibling == IF index % 2 = 0 THEN index + 1 ELSE index - 1
        IN [element |-> Get(layers[level], sibling, level), index |-> index % 2]]

(* Mutant: the sides of the pair are swapped *)
computeRootFromPath_Swapped(leaf, path) ==
    LET node[level \in 0..TREE_DEPTH] ==
            IF level = 0 THEN leaf
            ELSE IF path[level - 1].index = 1
                 THEN poseidonHash2(node[level - 1], path[level - 1].element)
                 ELSE poseidonHash2(path[level - 1].element, node[level - 1])
    IN node[TREE_DEPTH]

computeRootFromPath(leaf, path) ==
    LET node[level \in 0..TREE_DEPTH] ==
            IF level = 0 THEN leaf
            ELSE IF path[level - 1].index = 0
                 THEN poseidonHash2(node[level - 1], path[level - 1].element)
                 ELSE poseidonHash2(path[level - 1].element, node[level - 1])
    IN node[TREE_DEPTH]

(* Mutant: pathIndices[i] * (pathIndices[i] - 1) === 0 is missing *)
BitConstraint_Missing(path) == TRUE

BitConstraint(path) == \A level \in Level : path[level].index * (path[level].index - 1) = 0

(* MerkleTreeChecker: the root signal, and whether the constraints hold *)
CheckerRoot(leaf, path) ==
    LET hashes[level \in 0..TREE_DEPTH] ==
            IF level = 0 THEN leaf
            ELSE LET h == hashes[level - 1]
                     p == path[level - 1]
                 IN poseidonHash2(h * (1 - p.index) + p.element * p.index,
                                  p.element * (1 - p.index) + h * p.index)
    IN hashes[TREE_DEPTH]

MerkleTreeChecker(leaf, path, root) == BitConstraint(path) /\ CheckerRoot(leaf, path) = root

(* RootTransition: one path for both roots *)
RootTransition(path, leafBefore, leafAfter, oldRoot, newRoot) ==
    MerkleTreeChecker(leafBefore, path, oldRoot) /\ MerkleTreeChecker(leafAfter, path, newRoot)

(* proveRootTransition: a proof that is checked by the circuit when it is made *)
proveRootTransition(path, leafBefore, leafAfter, newRoot) ==
    /\ computeRootFromPath(leafAfter, path) = newRoot
    /\ RootTransition(path, leafBefore, leafAfter, computeRootFromPath(leafBefore, path), newRoot)

LeafAt(map, i) == IF i \in DOMAIN map THEN map[i] ELSE ZERO_LEAF

TreeInit == leaves = <<>>

(* An approval fills an empty leaf *)
Insert(i, c) ==
    /\ i \notin DOMAIN leaves
    /\ leaves' = [k \in DOMAIN leaves \cup {i} |-> IF k = i THEN c ELSE leaves[k]]

(* A sale removes its land's leaf *)
Vacate(i) == i \in DOMAIN leaves /\ leaves' = [k \in DOMAIN leaves \ {i} |-> leaves[k]]

TreeNext == \E i \in 0..(TREE_CAPACITY - 1) : Vacate(i) \/ \E c \in Commitments : Insert(i, c)

TreeSpec == TreeInit /\ [][TreeNext]_leaves

-----------------------------------------------------------------------------
(* The textbook tree: every node of the full tree is the hash of its children *)
FullRoot(map) ==
    LET layer[level \in 0..TREE_DEPTH] ==
            [i \in 0..(2 ^ (TREE_DEPTH - level) - 1) |->
                IF level = 0 THEN LeafAt(map, i)
                ELSE poseidonHash2(layer[level - 1][2 * i], layer[level - 1][2 * i + 1])]
    IN layer[TREE_DEPTH][0]

(* buildTree hashes only what lies above an occupied leaf, and still computes the *)
(* root of the full tree. *)
SparseIsFull == Root(buildTree(leaves)) = FullRoot(leaves)

(* The position that the bits of a path spell, its last bit first *)
Spelled(path) ==
    LET bits[n \in 0..TREE_DEPTH] ==
            IF n = 0 THEN 0 ELSE 2 * bits[n - 1] + path[TREE_DEPTH - n].index
    IN bits[TREE_DEPTH]

(* The checker accepts, at this root, the path the server hands out for each leaf, *)
(* an empty one too, with the leaf's value; and nothing else: whatever values the *)
(* prover chose for leaf, elements and indices, the leaf is the one of the tree at the *)
(* position the bits of the path spell.  Membership proofs are complete and sound. *)
CheckerExact ==
    LET layers == buildTree(leaves)
        Paths == [Level -> [element : PathValues, index : 0..2]]
    IN /\ \A i \in 0..(TREE_CAPACITY - 1) :
             MerkleTreeChecker(LeafAt(leaves, i), pathFor(layers, i), Root(layers))
       /\ \A path \in Paths, leaf \in PathValues :
             MerkleTreeChecker(leaf, path, Root(layers)) =>
                 Spelled(path) < TREE_CAPACITY /\ leaf = LeafAt(leaves, Spelled(path))

(* Each insertion and each removal can be proved to the contract: the path taken *)
(* from the rebuilt tree leads from the root before to the root after. *)
EveryStepProvable ==
    [][\A i \in 0..(TREE_CAPACITY - 1) :
          LeafAt(leaves, i) # LeafAt(leaves', i) =>
              LET layers == buildTree(leaves')
                  path == pathFor(layers, i)
              IN /\ proveRootTransition(path, LeafAt(leaves, i), LeafAt(leaves', i), Root(layers))
                 /\ computeRootFromPath(LeafAt(leaves, i), path) = Root(buildTree(leaves))]_leaves
=============================================================================
