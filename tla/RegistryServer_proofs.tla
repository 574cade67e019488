----------------------- MODULE RegistryServer_proofs -----------------------
(***************************************************************************)
(* The parts of the registry server that MCServer composes: the lock and   *)
(* the tree under it.                                                      *)
(***************************************************************************)
EXTENDS RegistryLock, MerkleTree, Facts_proofs, TLAPS

-----------------------------------------------------------------------------
(***************************************************************************)
(* RegistryLock.  The promise chain of lock.util.ts serializes its         *)
(* sections, for every number of calls.                                    *)
(***************************************************************************)
(* Each fresh server process starts with an empty chain. *)
LEMMA InitChainInv == Init => ChainInv
BY CallsAssumption, SMT DEF Init, ChainInv, TypeOK, Calls, Settled

(* Every step of the lock keeps the chain in order: the call that starts next is *)
(* the one whose predecessor, and hence everything before it, has been caught. *)
LEMMA NextChainInv == ChainInv /\ [Next]_vars => ChainInv'
<1> SUFFICES ASSUME ChainInv, [Next]_vars PROVE ChainInv'
    OBVIOUS
<1> USE CallsAssumption DEF Calls, Settled
<1>1. CASE withRegistryLock
  <2>1. calls + 1 \in Calls /\ calls \in Nat
        BY <1>1, SMT DEF withRegistryLock, ChainInv, TypeOK
  <2>2. TypeOK'
        BY <1>1, <2>1, SMT DEF withRegistryLock, ChainInv, TypeOK
  <2>3. ASSUME NEW k \in Calls
        PROVE  /\ run'[k] = "uncalled" <=> k > calls'
               /\ k <= calls' => after'[k] = k - 1
               /\ caught'[k] => run'[k] \in Settled
               /\ run'[k] \in {"running"} \cup Settled => \A j \in 1..(k - 1) : caught'[j]
    <3>1. CASE k = calls + 1
          BY <1>1, <2>1, <3>1, SMT DEF withRegistryLock, ChainInv, TypeOK
    <3>2. CASE k # calls + 1
          BY <1>1, <2>1, <3>2, SMT DEF withRegistryLock, ChainInv, TypeOK
    <3> QED BY <3>1, <3>2
  <2> QED BY <1>1, <2>2, <2>3, SMT DEF withRegistryLock, ChainInv
<1>2. ASSUME NEW k \in Calls, Start(k) PROVE ChainInv'
  <2>1. \A j \in 1..(k - 1) : caught[j]
    <3>1. k <= calls /\ after[k] = k - 1
          BY <1>2, SMT DEF Start, ChainInv, TypeOK
    <3>2. CASE k = 1
          BY <3>2, SMT
    <3>3. CASE k # 1
      <4>1. k - 1 \in Calls /\ caught[k - 1]
            BY <1>2, <3>1, <3>3, SMT DEF Start, ChainSettled
      <4>2. \A j \in 1..(k - 2) : caught[j]
            BY <4>1, SMT DEF ChainInv, TypeOK
      <4> QED BY <4>1, <4>2, SMT
    <3> QED BY <3>2, <3>3
  <2> QED BY <1>2, <2>1, SMT DEF Start, ChainInv, TypeOK
<1>3. ASSUME NEW k \in Calls, Settle(k) PROVE ChainInv'
      BY <1>3, SMT DEF Settle, ChainInv, TypeOK
<1>4. ASSUME NEW k \in Calls, Catch(k) PROVE ChainInv'
      BY <1>4, SMT DEF Catch, ChainInv, TypeOK
<1>5. CASE UNCHANGED vars
      BY <1>5, SMT DEF vars, ChainInv, TypeOK
<1> QED BY <1>1, <1>2, <1>3, <1>4, <1>5 DEF Next

(* lock.util.ts: the chain invariant holds in every reachable state. *)
THEOREM ChainInvariant == Safe => []ChainInv
BY InitChainInv, NextChainInv, PTL DEF Safe

(* lock.util.ts:4-8: two critical sections never run at the same time: of two *)
(* that run, the later would have found the earlier one caught, hence settled. *)
THEOREM Serialized == Safe => []MutualExclusion
<1>1. ChainInv => MutualExclusion
  <2> SUFFICES ASSUME ChainInv, NEW j \in Calls, NEW k \in Calls,
                      run[j] = "running", run[k] = "running", j < k
               PROVE FALSE
      BY SMT DEF MutualExclusion, Calls
  <2>1. caught[j]
        BY SMT DEF ChainInv, Calls
  <2> QED BY <2>1, SMT DEF ChainInv, Settled
<1> QED BY <1>1, ChainInvariant, PTL

(* Updating one promise updates one section of the abstract mutex. *)
LEMMA PhaseUpdate ==
    ASSUME NEW r, NEW k \in Calls, NEW s, r = [j \in Calls |-> r[j]]
    PROVE  [j \in Calls |-> Phase([r EXCEPT ![k] = s][j])]
              = [[j \in Calls |-> Phase(r[j])] EXCEPT ![k] = Phase(s)]
<1> DEFINE q == [r EXCEPT ![k] = s]
           lhs == [j \in Calls |-> Phase(q[j])]
           rhs == [[j \in Calls |-> Phase(r[j])] EXCEPT ![k] = Phase(s)]
<1>1. ASSUME NEW j \in Calls PROVE lhs[j] = rhs[j]
  <2>1. CASE j = k
        BY <2>1
  <2>2. CASE j # k
        BY <2>2
  <2> QED BY <2>1, <2>2
<1> QED BY <1>1

(* Safety half of the refinement: every step of the promise chain is a step of *)
(* the abstract mutex or leaves it as it is. *)
THEOREM ChainImplementsMutex == Safe => Mutex!Init /\ [][Mutex!Next]_(Mutex!vars)
<1> USE CallsAssumption DEF Calls, Settled
<1>1. Init => Mutex!Init
      BY SMT DEF Init, Mutex!Init, Phase
<1>2. ChainInv /\ [Next]_vars => [Mutex!Next]_(Mutex!vars)
  <2> SUFFICES ASSUME ChainInv, [Next]_vars PROVE [Mutex!Next]_(Mutex!vars)
      OBVIOUS
  <2>1. CASE withRegistryLock
    <3>1. /\ calls + 1 \in Calls
          /\ run' = [run EXCEPT ![calls + 1] = "waiting"]
          /\ run \in [Calls -> {"uncalled", "waiting", "running"} \cup Settled]
          BY <2>1, SMT DEF withRegistryLock, ChainInv, TypeOK
    <3>2. [k \in Calls |-> Phase(run'[k])]
            = [[k \in Calls |-> Phase(run[k])] EXCEPT ![calls + 1] = "waiting"]
      <4>1. Phase("waiting") = "waiting" /\ run = [j \in Calls |-> run[j]]
            BY <3>1, SMT DEF Phase
      <4> QED BY <3>1, <4>1, PhaseUpdate
    <3>3. Mutex!Call
          BY <2>1, <3>2, SMT DEF withRegistryLock, Mutex!Call
    <3> QED BY <3>3 DEF Mutex!Next
  <2>2. ASSUME NEW k \in Calls, Start(k) PROVE Mutex!Enter(k)
    <3>1. \A j \in 1..(k - 1) : run[j] \in Settled
      <4>1. k <= calls /\ after[k] = k - 1
            BY <2>2, SMT DEF Start, ChainInv, TypeOK
      <4>2. CASE k = 1
            BY <4>2, SMT
      <4>3. CASE k # 1
        <5>1. k - 1 \in Calls /\ caught[k - 1]
              BY <2>2, <4>1, <4>3, SMT DEF Start, ChainSettled
        <5>2. \A j \in 1..(k - 1) : caught[j]
              BY <5>1, SMT DEF ChainInv, TypeOK
        <5> QED BY <5>2, SMT DEF ChainInv, TypeOK
      <4> QED BY <4>2, <4>3
    <3>2. /\ run[k] = "waiting" /\ run' = [run EXCEPT ![k] = "running"] /\ calls' = calls
          /\ run = [j \in Calls |-> run[j]]
          BY <2>2, SMT DEF Start, ChainInv, TypeOK
    <3>3. Phase(run[k]) = "waiting" /\ Phase("running") = "inside"
          BY <3>2, SMT DEF Phase
    <3>4. \A j \in 1..(k - 1) : j \in Calls /\ Phase(run[j]) = "over"
          BY <3>1, SMT DEF Phase
    <3>5. [j \in Calls |-> Phase(run'[j])]
            = [[j \in Calls |-> Phase(run[j])] EXCEPT ![k] = "inside"]
          BY <3>2, <3>3, PhaseUpdate
    <3> QED BY <3>2, <3>3, <3>4, <3>5 DEF Mutex!Enter
  <2>3. ASSUME NEW k \in Calls, Settle(k) PROVE Mutex!Leave(k)
    <3>1. PICK outcome \in Settled : run' = [run EXCEPT ![k] = outcome]
          BY <2>3 DEF Settle
    <3>2. run[k] = "running" /\ calls' = calls /\ run = [j \in Calls |-> run[j]]
          BY <2>3, SMT DEF Settle, ChainInv, TypeOK
    <3>3. Phase(run[k]) = "inside" /\ Phase(outcome) = "over"
          BY <3>1, <3>2, SMT DEF Phase
    <3>4. [j \in Calls |-> Phase(run'[j])]
            = [[j \in Calls |-> Phase(run[j])] EXCEPT ![k] = "over"]
          BY <3>1, <3>2, <3>3, PhaseUpdate
    <3> QED BY <3>2, <3>3, <3>4 DEF Mutex!Leave
  <2>4. ASSUME NEW k \in Calls, Catch(k) PROVE UNCHANGED Mutex!vars
        BY <2>4, SMT DEF Catch, Mutex!vars
  <2>5. CASE UNCHANGED vars
        BY <2>5, SMT DEF vars, Mutex!vars
  <2> QED BY <2>1, <2>2, <2>3, <2>4, <2>5 DEF Next, Mutex!Next
<1> QED BY <1>1, <1>2, ChainInvariant, PTL DEF Safe

-----------------------------------------------------------------------------
(***************************************************************************)
(* MerkleTree.  The registry's tree, for any depth, any commitments and    *)
(* any values in a prover's path.                                          *)
(***************************************************************************)
(* Cantor's pairing enumerates the pairs of equal sums, which are the triangles *)
Triangle(s) == (s * (s + 1)) \div 2

LEMMA TriangleStep ==
    ASSUME NEW s \in Nat
    PROVE  Triangle(s) \in Nat /\ Triangle(s + 1) = Triangle(s) + s + 1
<1>1. (s + 1) * ((s + 1) + 1) = s * (s + 1) + 2 * (s + 1)
  OBVIOUS
<1>2. s * (s + 1) \in Nat
  OBVIOUS
<1>3. \A x \in Nat, y \in Nat : (x + 2 * y) \div 2 = x \div 2 + y
  OBVIOUS
<1>4. \A x \in Nat : x \div 2 \in Nat
  OBVIOUS
<1> QED BY <1>1, <1>2, <1>3, <1>4 DEF Triangle

LEMMA TriangleGap ==
    ASSUME NEW s \in Nat, NEW t \in Nat, s < t
    PROVE  Triangle(t) >= Triangle(s) + s + 1
<1> DEFINE T == {n \in Nat : Triangle((s + 1) + n) >= Triangle(s + 1)}
<1>1. Triangle(s + 1) = Triangle(s) + s + 1 /\ Triangle(s) \in Nat /\ Triangle(s + 1) \in Nat
  BY TriangleStep
<1>2. 0 \in T
  <2>1. (s + 1) + 0 = s + 1 /\ Triangle(s + 1) >= Triangle(s + 1)
    BY <1>1
  <2> QED BY <2>1
<1>3. ASSUME NEW n \in Nat, n \in T PROVE n + 1 \in T
  <2>1. PICK m \in Nat : m = (s + 1) + n
    OBVIOUS
  <2>2. Triangle(m) \in Nat /\ Triangle(m + 1) = Triangle(m) + m + 1 /\ (s + 1) + (n + 1) = m + 1
    BY <2>1, TriangleStep
  <2>3. Triangle(m) >= Triangle(s + 1)
    BY <1>3, <2>1
  <2>4. Triangle(m + 1) >= Triangle(s + 1)
    BY <1>1, <2>2, <2>3
  <2> QED BY <2>2, <2>4
<1>4. Nat \subseteq T
  <2> HIDE DEF T
  <2> QED BY <1>2, <1>3, SetInduction
<1>5. t - (s + 1) \in T /\ (s + 1) + (t - (s + 1)) = t
  <2>1. t - (s + 1) \in Nat /\ (s + 1) + (t - (s + 1)) = t
    OBVIOUS
  <2> HIDE DEF T
  <2> QED BY <1>4, <2>1
<1>6. Triangle(t) >= Triangle(s + 1)
  BY <1>5
<1> QED BY <1>1, <1>6

(* The hash has no collisions *)
LEMMA HashInjective ==
    ASSUME NEW l \in Nat, NEW r \in Nat, NEW k \in Nat, NEW q \in Nat,
           poseidonHash2(l, r) = poseidonHash2(k, q)
    PROVE  l = k /\ r = q
<1>1. PICK s \in Nat, t \in Nat : s = l + r /\ t = k + q
  OBVIOUS
<1>2. Triangle(s) + r + 1 = Triangle(t) + q + 1
  BY <1>1 DEF poseidonHash2, Triangle
<1>3. Triangle(s) \in Nat /\ Triangle(t) \in Nat
  BY TriangleStep
<1>4. s < t => Triangle(t) >= Triangle(s) + s + 1
  BY TriangleGap
<1>5. t < s => Triangle(s) >= Triangle(t) + t + 1
  BY TriangleGap
<1>6. s = t
  BY <1>1, <1>2, <1>3, <1>4, <1>5
<1>7. r = q
  BY <1>2, <1>3, <1>6
<1> QED BY <1>1, <1>6, <1>7

LEMMA HashType ==
    ASSUME NEW l \in Nat, NEW r \in Nat
    PROVE  poseidonHash2(l, r) \in Nat
<1>1. PICK s \in Nat : s = l + r
  OBVIOUS
<1>2. poseidonHash2(l, r) = Triangle(s) + r + 1
  BY <1>1 DEF poseidonHash2, Triangle
<1> QED BY <1>2, TriangleStep

(* The roots of the empty subtrees *)
LEMMA ZerosStep ==
    /\ zeros \in [0..TREE_DEPTH -> Nat] /\ zeros[0] = ZERO_LEAF
    /\ \A k \in Level : zeros[k + 1] = poseidonHash2(zeros[k], zeros[k])
<1> DEFINE Zeros(f) == f = [i \in 0..TREE_DEPTH |->
                               IF i = 0 THEN ZERO_LEAF ELSE poseidonHash2(f[i - 1], f[i - 1])]
           G == [p \in Nat \X Level |-> poseidonHash2(p[1], p[1])]
<1>1. TREE_DEPTH \in Nat /\ ZERO_LEAF \in Nat
  BY TreeAssumption DEF ZERO_LEAF
<1>2. G \in [Nat \X Level -> Nat] /\ 0..(TREE_DEPTH - 1) \subseteq Level
  BY HashType DEF Level
<1>3. PICK f \in [0..TREE_DEPTH -> Nat] :
         f[0] = ZERO_LEAF /\ \A i \in 1..TREE_DEPTH : f[i] = G[<<f[i - 1], i - 1>>]
  <2> HIDE DEF G
  <2>1. Recursive(TREE_DEPTH, Nat, ZERO_LEAF, G)
    BY <1>1, <1>2, Recursion
  <2> QED BY <2>1 DEF Recursive
<1>4. \A i \in 1..TREE_DEPTH : f[i] = poseidonHash2(f[i - 1], f[i - 1])
  <2> SUFFICES ASSUME NEW i \in 1..TREE_DEPTH PROVE f[i] = poseidonHash2(f[i - 1], f[i - 1])
    OBVIOUS
  <2>1. <<f[i - 1], i - 1>> \in Nat \X Level
    BY <1>1 DEF Level
  <2> QED BY <1>3, <2>1
<1>5. Zeros(f)
  <2>1. \A i \in 0..TREE_DEPTH : f[i] = IF i = 0 THEN ZERO_LEAF ELSE poseidonHash2(f[i - 1], f[i - 1])
    <3>1. \A i \in 0..TREE_DEPTH : i = 0 \/ i \in 1..TREE_DEPTH
      BY <1>1
    <3>2. \A i \in 1..TREE_DEPTH : i # 0
      BY <1>1
    <3> QED BY <1>3, <1>4, <3>1, <3>2
  <2>2. f = [i \in 0..TREE_DEPTH |-> f[i]]
    BY <1>3
  <2> QED BY <2>1, <2>2
<1>6. Zeros(zeros)
  BY <1>5 DEF zeros
<1>7. zeros[0] = ZERO_LEAF /\ \A k \in Level : zeros[k + 1] = poseidonHash2(zeros[k], zeros[k])
  <2>1. \A i \in 0..TREE_DEPTH :
           zeros[i] = IF i = 0 THEN ZERO_LEAF ELSE poseidonHash2(zeros[i - 1], zeros[i - 1])
    BY <1>6
  <2> QED BY <1>1, <2>1 DEF Level
<1>8. \A k \in 0..TREE_DEPTH : zeros[k] \in Nat
  <2> DEFINE T == {k \in 0..TREE_DEPTH : zeros[k] \in Nat}
  <2>1. 0 \in T
    BY <1>1, <1>7
  <2>2. ASSUME NEW k \in 0..(TREE_DEPTH - 1), k \in T PROVE k + 1 \in T
    <3>1. zeros[k + 1] \in Nat
      BY <1>7, <2>2, HashType DEF Level
    <3> QED BY <1>1, <3>1
  <2> HIDE DEF T
  <2>3. 0..TREE_DEPTH \subseteq T
    BY <1>1, <2>1, <2>2, UpTo
  <2> QED BY <2>3 DEF T
<1> QED BY <1>6, <1>7, <1>8

-----------------------------------------------------------------------------
(* A layer holds the nodes above an occupied leaf *)
Layer == UNION {[A -> Nat] : A \in SUBSET Nat}

LEMMA LayerIs ==
    ASSUME NEW layer
    PROVE  layer \in Layer <=> /\ DOMAIN layer \subseteq Nat
                              /\ layer = [i \in DOMAIN layer |-> layer[i]]
                              /\ \A i \in DOMAIN layer : layer[i] \in Nat
<1>1. ASSUME layer \in Layer
      PROVE  /\ DOMAIN layer \subseteq Nat /\ layer = [i \in DOMAIN layer |-> layer[i]]
             /\ \A i \in DOMAIN layer : layer[i] \in Nat
  <2>1. PICK A \in SUBSET Nat : layer \in [A -> Nat]
    BY <1>1 DEF Layer
  <2> QED BY <2>1
<1>2. ASSUME DOMAIN layer \subseteq Nat, layer = [i \in DOMAIN layer |-> layer[i]],
             \A i \in DOMAIN layer : layer[i] \in Nat
      PROVE  layer \in Layer
  <2>1. layer \in [DOMAIN layer -> Nat]
    BY <1>2
  <2> QED BY <1>2, <2>1 DEF Layer
<1> QED BY <1>1, <1>2

LEMMA GetType ==
    ASSUME NEW layer \in Layer, NEW k \in 0..TREE_DEPTH, NEW i
    PROVE  Get(layer, i, k) \in Nat
BY ZerosStep, LayerIs DEF Get

LEMMA NextLayerType ==
    ASSUME NEW layer \in Layer, NEW k \in Level
    PROVE  NextLayer(layer, k) \in Layer
<1>1. DOMAIN layer \subseteq Nat
  BY LayerIs
<1>2. k \in 0..TREE_DEPTH
  BY TreeAssumption DEF Level
<1> DEFINE next == NextLayer(layer, k)
<1>3. DOMAIN next \subseteq Nat /\ next = [p \in DOMAIN next |-> next[p]]
  BY <1>1 DEF NextLayer
<1>4. \A p \in DOMAIN next : next[p] \in Nat
  BY <1>2, GetType, HashType DEF NextLayer
<1> HIDE DEF next
<1>5. next \in Layer
  BY <1>3, <1>4, LayerIs
<1> QED BY <1>5 DEF next

(* A node is the hash of its children, whether it is in the layer or not *)
LEMMA NodeStep ==
    ASSUME NEW layer \in Layer, NEW k \in Level, NEW p \in Nat
    PROVE  Get(NextLayer(layer, k), p, k + 1)
              = poseidonHash2(Get(layer, 2 * p, k), Get(layer, 2 * p + 1, k))
<1>1. DOMAIN layer \subseteq Nat
  BY LayerIs
<1>2. CASE p \in {i \div 2 : i \in DOMAIN layer}
  BY <1>2 DEF NextLayer, Get
<1>3. CASE p \notin {i \div 2 : i \in DOMAIN layer}
  <2>1. (2 * p) \div 2 = p /\ (2 * p + 1) \div 2 = p
    OBVIOUS
  <2>2. 2 * p \notin DOMAIN layer /\ 2 * p + 1 \notin DOMAIN layer
    BY <1>3, <2>1
  <2>3. Get(layer, 2 * p, k) = zeros[k] /\ Get(layer, 2 * p + 1, k) = zeros[k]
    BY <2>2 DEF Get
  <2>4. Get(NextLayer(layer, k), p, k + 1) = zeros[k + 1]
    BY <1>3 DEF NextLayer, Get
  <2> QED BY <2>3, <2>4, ZerosStep
<1> QED BY <1>2, <1>3

LEMMA BuildTreeStep ==
    ASSUME NEW map \in Layer
    PROVE  /\ buildTree(map) \in [0..TREE_DEPTH -> Layer] /\ buildTree(map)[0] = map
           /\ \A k \in Level : buildTree(map)[k + 1] = NextLayer(buildTree(map)[k], k)
<1> DEFINE Builds(f) == f = [k \in 0..TREE_DEPTH |->
                               IF k = 0 THEN map ELSE NextLayer(f[k - 1], k - 1)]
           G == [p \in Layer \X Level |-> NextLayer(p[1], p[2])]
<1>1. TREE_DEPTH \in Nat /\ 0..(TREE_DEPTH - 1) \subseteq Level
  BY TreeAssumption DEF Level
<1>2. G \in [Layer \X Level -> Layer]
  BY NextLayerType
<1>3. PICK f \in [0..TREE_DEPTH -> Layer] :
         f[0] = map /\ \A i \in 1..TREE_DEPTH : f[i] = G[<<f[i - 1], i - 1>>]
  <2> HIDE DEF G
  <2>1. Recursive(TREE_DEPTH, Layer, map, G)
    BY <1>1, <1>2, Recursion
  <2> QED BY <2>1 DEF Recursive
<1>4. \A i \in 1..TREE_DEPTH : f[i] = NextLayer(f[i - 1], i - 1)
  <2> SUFFICES ASSUME NEW i \in 1..TREE_DEPTH PROVE f[i] = NextLayer(f[i - 1], i - 1)
    OBVIOUS
  <2>1. <<f[i - 1], i - 1>> \in Layer \X Level
    BY <1>1 DEF Level
  <2> QED BY <1>3, <2>1
<1>5. Builds(f)
  <2>1. \A i \in 0..TREE_DEPTH : i = 0 \/ i \in 1..TREE_DEPTH
    BY <1>1
  <2>2. \A i \in 1..TREE_DEPTH : i # 0
    BY <1>1
  <2>3. f = [i \in 0..TREE_DEPTH |-> f[i]]
    BY <1>3
  <2> QED BY <1>3, <1>4, <2>1, <2>2, <2>3
<1>6. Builds(buildTree(map))
  BY <1>5 DEF buildTree
<1>7. /\ buildTree(map)[0] = map
      /\ \A k \in Level : buildTree(map)[k + 1] = NextLayer(buildTree(map)[k], k)
  <2> DEFINE layers == buildTree(map)
  <2>1. \A i \in 0..TREE_DEPTH : layers[i] = IF i = 0 THEN map ELSE NextLayer(layers[i - 1], i - 1)
    BY <1>6
  <2> HIDE DEF layers
  <2>2. layers[0] = map /\ \A k \in Level : layers[k + 1] = NextLayer(layers[k], k)
    BY <1>1, <2>1 DEF Level
  <2> QED BY <2>2 DEF layers
<1>8. \A k \in 0..TREE_DEPTH : buildTree(map)[k] \in Layer
  <2> DEFINE T == {k \in 0..TREE_DEPTH : buildTree(map)[k] \in Layer}
  <2>1. 0 \in T
    BY <1>1, <1>7
  <2>2. ASSUME NEW k \in 0..(TREE_DEPTH - 1), k \in T PROVE k + 1 \in T
    <3>1. buildTree(map)[k + 1] \in Layer
      BY <1>7, <2>2, NextLayerType DEF Level
    <3> QED BY <1>1, <3>1
  <2> HIDE DEF T
  <2>3. 0..TREE_DEPTH \subseteq T
    BY <1>1, <2>1, <2>2, UpTo
  <2> QED BY <2>3 DEF T
<1> QED BY <1>6, <1>7, <1>8

(* The node i of level k of the tree of map, in the tree or not *)
Node(map, k, i) == Get(buildTree(map)[k], i, k)

LEMMA Nodes ==
    ASSUME NEW map \in Layer
    PROVE  /\ \A k \in 0..TREE_DEPTH, i \in Nat : Node(map, k, i) \in Nat
           /\ \A i \in Nat : Node(map, 0, i) = LeafAt(map, i)
           /\ \A k \in Level, p \in Nat :
                 Node(map, k + 1, p) = poseidonHash2(Node(map, k, 2 * p), Node(map, k, 2 * p + 1))
           /\ Root(buildTree(map)) = Node(map, TREE_DEPTH, 0)
<1>1. \A k \in 0..TREE_DEPTH : buildTree(map)[k] \in Layer
  BY BuildTreeStep
<1>2. \A k \in 0..TREE_DEPTH, i \in Nat : Node(map, k, i) \in Nat
  BY <1>1, GetType DEF Node
<1>3. \A i \in Nat : Node(map, 0, i) = LeafAt(map, i)
  BY BuildTreeStep, ZerosStep DEF Node, Get, LeafAt
<1>4. ASSUME NEW k \in Level, NEW p \in Nat
      PROVE  Node(map, k + 1, p) = poseidonHash2(Node(map, k, 2 * p), Node(map, k, 2 * p + 1))
  <2>1. k \in 0..TREE_DEPTH
    BY TreeAssumption DEF Level
  <2>2. buildTree(map)[k + 1] = NextLayer(buildTree(map)[k], k) /\ buildTree(map)[k] \in Layer
    BY <1>1, <2>1, BuildTreeStep
  <2> QED BY <2>2, NodeStep DEF Node
<1>5. Root(buildTree(map)) = Node(map, TREE_DEPTH, 0)
  BY DEF Root, Node
<1> QED BY <1>2, <1>3, <1>4, <1>5

LEMMA NodeType ==
    ASSUME NEW map \in Layer
    PROVE  \A k \in 0..TREE_DEPTH, i \in Nat : Node(map, k, i) \in Nat
BY Nodes

-----------------------------------------------------------------------------
(* The occupied leaves *)
Leaves == UNION {[A -> Commitments] : A \in SUBSET (0..(TREE_CAPACITY - 1))}
LeavesInv == leaves \in Leaves

LEMMA LeavesIs ==
    ASSUME NEW map
    PROVE  map \in Leaves <=> /\ DOMAIN map \subseteq 0..(TREE_CAPACITY - 1)
                             /\ map = [i \in DOMAIN map |-> map[i]]
                             /\ \A i \in DOMAIN map : map[i] \in Commitments
<1>1. ASSUME map \in Leaves
      PROVE  /\ DOMAIN map \subseteq 0..(TREE_CAPACITY - 1) /\ map = [i \in DOMAIN map |-> map[i]]
             /\ \A i \in DOMAIN map : map[i] \in Commitments
  <2>1. PICK A \in SUBSET (0..(TREE_CAPACITY - 1)) : map \in [A -> Commitments]
    BY <1>1 DEF Leaves
  <2> QED BY <2>1
<1>2. ASSUME DOMAIN map \subseteq 0..(TREE_CAPACITY - 1), map = [i \in DOMAIN map |-> map[i]],
             \A i \in DOMAIN map : map[i] \in Commitments
      PROVE  map \in Leaves
  <2>1. map \in [DOMAIN map -> Commitments]
    BY <1>2
  <2> QED BY <1>2, <2>1 DEF Leaves
<1> QED BY <1>1, <1>2

LEMMA CapacityType == TREE_CAPACITY \in Nat \ {0}
BY TreeAssumption, PowerOfTwo DEF TREE_CAPACITY

LEMMA LeavesAreLayer == Leaves \subseteq Layer
<1> SUFFICES ASSUME NEW map \in Leaves PROVE map \in Layer
  OBVIOUS
<1>1. /\ DOMAIN map \subseteq 0..(TREE_CAPACITY - 1) /\ map = [i \in DOMAIN map |-> map[i]]
      /\ \A i \in DOMAIN map : map[i] \in Commitments
  BY LeavesIs
<1>2. DOMAIN map \subseteq Nat /\ \A i \in DOMAIN map : map[i] \in Nat
  BY <1>1, CapacityType, TreeAssumption
<1> QED BY <1>1, <1>2, LayerIs

LEMMA LeafAtType ==
    ASSUME NEW map \in Leaves, NEW i
    PROVE  LeafAt(map, i) \in Nat
BY LeavesIs, TreeAssumption DEF LeafAt, ZERO_LEAF

LEMMA LeavesInitially == TreeInit => LeavesInv
<1> SUFFICES ASSUME TreeInit PROVE leaves \in Leaves
  BY DEF LeavesInv
<1>1. leaves = << >> /\ DOMAIN leaves = {}
  BY DEF TreeInit
<1>2. leaves = [i \in DOMAIN leaves |-> leaves[i]]
  BY <1>1
<1> QED BY <1>1, <1>2, LeavesIs

LEMMA LeavesStep == LeavesInv /\ [TreeNext]_leaves => LeavesInv'
<1> SUFFICES ASSUME leaves \in Leaves, [TreeNext]_leaves PROVE leaves' \in Leaves
  BY DEF LeavesInv, Leaves
<1> USE LeavesIs
<1>1. CASE UNCHANGED leaves
  BY <1>1
<1>2. ASSUME NEW i \in 0..(TREE_CAPACITY - 1), NEW c \in Commitments, Insert(i, c)
      PROVE  leaves' \in Leaves
  BY <1>2 DEF Insert
<1>3. ASSUME NEW i \in 0..(TREE_CAPACITY - 1), Vacate(i)
      PROVE  leaves' \in Leaves
  BY <1>3 DEF Vacate
<1> QED BY <1>1, <1>2, <1>3 DEF TreeNext

-----------------------------------------------------------------------------
(* The full tree has the same nodes *)
LEMMA FullTree ==
    ASSUME NEW map \in Leaves
    PROVE  FullRoot(map) = Node(map, TREE_DEPTH, 0)
<1> DEFINE Width(k) == 2 ^ (TREE_DEPTH - k)
           Full(f) == f = [k \in 0..TREE_DEPTH |->
                             [i \in 0..(Width(k) - 1) |->
                                IF k = 0 THEN LeafAt(map, i)
                                ELSE poseidonHash2(f[k - 1][2 * i], f[k - 1][2 * i + 1])]]
           nodes == [k \in 0..TREE_DEPTH |-> [i \in 0..(Width(k) - 1) |-> Node(map, k, i)]]
<1>1. TREE_DEPTH \in Nat /\ map \in Layer
  BY TreeAssumption, LeavesAreLayer
<1>2. \A k \in 0..TREE_DEPTH : Width(k) \in Nat \ {0}
  BY <1>1, PowerOfTwo
<1>3. \A k \in Level : Width(k) = 2 * Width(k + 1)
  <2> SUFFICES ASSUME NEW k \in Level PROVE Width(k) = 2 * Width(k + 1)
    OBVIOUS
  <2>1. PICK n \in Nat : n = TREE_DEPTH - (k + 1)
    BY <1>1 DEF Level
  <2>2. TREE_DEPTH - k = n + 1
    BY <1>1, <2>1 DEF Level
  <2> QED BY <2>1, <2>2, PowerOfTwo
<1> HIDE DEF Width
<1>4. Full(nodes)
  <2>1. ASSUME NEW k \in 0..TREE_DEPTH, NEW i \in 0..(Width(k) - 1)
        PROVE  Node(map, k, i) = IF k = 0 THEN LeafAt(map, i)
                                 ELSE poseidonHash2(nodes[k - 1][2 * i], nodes[k - 1][2 * i + 1])
    <3>1. i \in Nat
      BY <1>2
    <3>2. CASE k = 0
      BY <1>1, <3>1, <3>2, Nodes
    <3>3. CASE k # 0
      <4>1. PICK j \in Level : k = j + 1
        BY <1>1, <3>3 DEF Level
      <4>2. Width(j) = 2 * Width(k) /\ Width(k) \in Nat /\ Width(j) \in Nat
        BY <1>2, <1>3, <4>1
      <4>3. 2 * i \in 0..(Width(j) - 1) /\ 2 * i + 1 \in 0..(Width(j) - 1) /\ j \in 0..TREE_DEPTH
        BY <1>1, <4>1, <4>2 DEF Level
      <4>4. nodes[j][2 * i] = Node(map, j, 2 * i) /\ nodes[j][2 * i + 1] = Node(map, j, 2 * i + 1)
        BY <4>3
      <4>5. Node(map, j + 1, i) = poseidonHash2(Node(map, j, 2 * i), Node(map, j, 2 * i + 1))
        BY <1>1, <3>1, Nodes
      <4>6. k - 1 = j
        BY <1>1, <4>1 DEF Level
      <4> HIDE DEF nodes
      <4> QED BY <3>3, <4>1, <4>4, <4>5, <4>6
    <3> QED BY <3>2, <3>3
  <2> QED BY <2>1
<1>5. PICK f : Full(f) /\ FullRoot(map) = f[TREE_DEPTH][0]
  BY <1>4 DEF FullRoot, Width
<1>6. \A k \in 0..TREE_DEPTH : \A i \in 0..(Width(k) - 1) : f[k][i] = Node(map, k, i)
  <2> DEFINE T == {k \in 0..TREE_DEPTH : \A i \in 0..(Width(k) - 1) : f[k][i] = Node(map, k, i)}
  <2>1. 0 \in T
    BY <1>1, <1>2, <1>5, Nodes
  <2>2. ASSUME NEW j \in 0..(TREE_DEPTH - 1), j \in T PROVE j + 1 \in T
    <3> SUFFICES ASSUME NEW i \in 0..(Width(j + 1) - 1) PROVE f[j + 1][i] = Node(map, j + 1, i)
      BY <1>1
    <3>1. j \in Level /\ j \in 0..TREE_DEPTH /\ j + 1 \in 0..TREE_DEPTH
      BY <1>1 DEF Level
    <3>2. Width(j) = 2 * Width(j + 1) /\ Width(j + 1) \in Nat /\ Width(j) \in Nat
      BY <1>2, <1>3, <3>1
    <3>3. 2 * i \in 0..(Width(j) - 1) /\ 2 * i + 1 \in 0..(Width(j) - 1) /\ i \in Nat
      BY <3>2
    <3>4. f[j][2 * i] = Node(map, j, 2 * i) /\ f[j][2 * i + 1] = Node(map, j, 2 * i + 1)
      BY <2>2, <3>3
    <3>5. f[j + 1][i] = poseidonHash2(f[j][2 * i], f[j][2 * i + 1])
      <4>1. PICK k \in 0..TREE_DEPTH : k = j + 1 /\ k # 0 /\ k - 1 = j
        BY <1>1, <3>1
      <4>2. f[k] = [n \in 0..(Width(k) - 1) |->
                       IF k = 0 THEN LeafAt(map, n)
                       ELSE poseidonHash2(f[k - 1][2 * n], f[k - 1][2 * n + 1])]
        BY <1>5
      <4>3. i \in 0..(Width(k) - 1)
        BY <4>1
      <4>4. f[k][i] = poseidonHash2(f[k - 1][2 * i], f[k - 1][2 * i + 1])
        BY <4>1, <4>2, <4>3
      <4> QED BY <4>1, <4>4
    <3> QED BY <1>1, <3>1, <3>3, <3>4, <3>5, Nodes
  <2> HIDE DEF T
  <2>3. 0..TREE_DEPTH \subseteq T
    BY <1>1, <2>1, <2>2, UpTo
  <2> QED BY <2>3 DEF T
<1>7. 0 \in 0..(Width(TREE_DEPTH) - 1) /\ TREE_DEPTH \in 0..TREE_DEPTH
  BY <1>1, <1>2
<1> QED BY <1>5, <1>6, <1>7

(* The sparse tree of buildTree has the root of the full one, at any depth *)
THEOREM SparseTreeIsFull == TreeSpec => []SparseIsFull
<1>1. LeavesInv => SparseIsFull
  BY FullTree, Nodes, LeavesAreLayer DEF LeavesInv, SparseIsFull
<1> QED BY <1>1, LeavesInitially, LeavesStep, PTL DEF TreeSpec

-----------------------------------------------------------------------------
(* A path as the circuit's constraints leave it *)
BitPaths == [Level -> [element : Nat, index : {0, 1}]]

(* One level up from a node, with its sibling on the side that the bit says *)
Side(node, p) == IF p.index = 0 THEN poseidonHash2(node, p.element)
                 ELSE poseidonHash2(p.element, node)

Climbs(f, leaf, path) ==
    /\ f \in [0..TREE_DEPTH -> Nat] /\ f[0] = leaf
    /\ \A k \in Level : f[k + 1] = Side(f[k], path[k])

LEMMA SideType ==
    ASSUME NEW node \in Nat, NEW path \in BitPaths, NEW k \in Level
    PROVE  Side(node, path[k]) \in Nat /\ path[k].element \in Nat /\ path[k].index \in {0, 1}
BY HashType DEF Side, BitPaths

LEMMA ClimbExists ==
    ASSUME NEW leaf \in Nat, NEW path \in BitPaths
    PROVE  \E f : Climbs(f, leaf, path)
<1> DEFINE G == [p \in Nat \X Level |-> Side(p[1], path[p[2]])]
<1>1. TREE_DEPTH \in Nat /\ 0..(TREE_DEPTH - 1) \subseteq Level
  BY TreeAssumption DEF Level
<1>2. G \in [Nat \X Level -> Nat]
  BY SideType
<1>3. PICK f \in [0..TREE_DEPTH -> Nat] :
         f[0] = leaf /\ \A i \in 1..TREE_DEPTH : f[i] = G[<<f[i - 1], i - 1>>]
  <2> HIDE DEF G
  <2>1. Recursive(TREE_DEPTH, Nat, leaf, G)
    BY <1>1, <1>2, Recursion
  <2> QED BY <2>1 DEF Recursive
<1>4. ASSUME NEW k \in Level PROVE f[k + 1] = Side(f[k], path[k])
  <2>1. k + 1 \in 1..TREE_DEPTH /\ (k + 1) - 1 = k /\ <<f[k], k>> \in Nat \X Level
    BY <1>1 DEF Level
  <2> QED BY <1>3, <2>1
<1> QED BY <1>3, <1>4 DEF Climbs

LEMMA ClimbUnique ==
    ASSUME NEW leaf, NEW path, NEW f, NEW g, Climbs(f, leaf, path), Climbs(g, leaf, path)
    PROVE  f[TREE_DEPTH] = g[TREE_DEPTH]
<1> DEFINE T == {k \in 0..TREE_DEPTH : f[k] = g[k]}
<1>1. TREE_DEPTH \in Nat
  BY TreeAssumption
<1>2. 0 \in T
  BY <1>1 DEF Climbs
<1>3. ASSUME NEW k \in 0..(TREE_DEPTH - 1), k \in T PROVE k + 1 \in T
  <2>1. f[k + 1] = g[k + 1]
    BY <1>3 DEF Climbs, Level
  <2> QED BY <1>1, <2>1
<1> HIDE DEF T
<1>4. 0..TREE_DEPTH \subseteq T
  BY <1>1, <1>2, <1>3, UpTo
<1> QED BY <1>1, <1>4 DEF T

(* The circuit's arithmetic selects the side ... *)
LEMMA CheckerClimbs ==
    ASSUME NEW leaf \in Nat, NEW path \in BitPaths
    PROVE  \E f : Climbs(f, leaf, path) /\ CheckerRoot(leaf, path) = f[TREE_DEPTH]
<1> DEFINE Mux(h, p) == poseidonHash2(h * (1 - p.index) + p.element * p.index,
                                     p.element * (1 - p.index) + h * p.index)
           Hashes(f) == f = [level \in 0..TREE_DEPTH |->
                              IF level = 0 THEN leaf ELSE Mux(f[level - 1], path[level - 1])]
<1>1. TREE_DEPTH \in Nat
  BY TreeAssumption
<1>2. ASSUME NEW h \in Nat, NEW k \in Level PROVE Mux(h, path[k]) = Side(h, path[k])
  <2>1. path[k].element \in Nat /\ path[k].index \in {0, 1}
    BY SideType
  <2>2. CASE path[k].index = 0
    <3>1. /\ h * (1 - path[k].index) + path[k].element * path[k].index = h
          /\ path[k].element * (1 - path[k].index) + h * path[k].index = path[k].element
      BY <2>1, <2>2
    <3> QED BY <2>2, <3>1 DEF Side
  <2>3. CASE path[k].index = 1
    <3>1. /\ h * (1 - path[k].index) + path[k].element * path[k].index = path[k].element
          /\ path[k].element * (1 - path[k].index) + h * path[k].index = h
      BY <2>1, <2>3
    <3> QED BY <2>3, <3>1 DEF Side
  <2> QED BY <2>1, <2>2, <2>3
<1>3. PICK g : Climbs(g, leaf, path)
  BY ClimbExists
<1>4. Hashes(g)
  <2>1. ASSUME NEW i \in 0..TREE_DEPTH
        PROVE  g[i] = IF i = 0 THEN leaf ELSE Mux(g[i - 1], path[i - 1])
    <3>1. CASE i = 0
      BY <1>3, <3>1 DEF Climbs
    <3>2. CASE i # 0
      <4>1. PICK k \in Level : i = k + 1 /\ i - 1 = k /\ k \in 0..TREE_DEPTH
        BY <1>1, <3>2 DEF Level
      <4>2. g[k] \in Nat /\ g[k + 1] = Side(g[k], path[k])
        BY <1>3, <4>1 DEF Climbs
      <4>3. Mux(g[k], path[k]) = Side(g[k], path[k])
        BY <1>2, <4>2
      <4> HIDE DEF Mux
      <4> QED BY <3>2, <4>1, <4>2, <4>3
    <3> QED BY <3>1, <3>2
  <2> HIDE DEF Mux
  <2>2. g = [i \in 0..TREE_DEPTH |-> g[i]]
    BY <1>3 DEF Climbs
  <2> QED BY <2>1, <2>2
<1>5. PICK f : Hashes(f) /\ CheckerRoot(leaf, path) = f[TREE_DEPTH]
  BY <1>4 DEF CheckerRoot
<1>6. \A i \in 0..TREE_DEPTH : f[i] = IF i = 0 THEN leaf ELSE Mux(f[i - 1], path[i - 1])
  <2> HIDE DEF Mux
  <2> QED BY <1>5
<1>7. \A i \in 0..TREE_DEPTH : f[i] \in Nat
  <2> DEFINE T == {k \in 0..TREE_DEPTH : f[k] \in Nat}
  <2>1. 0 \in T
    BY <1>1, <1>6
  <2>2. ASSUME NEW k \in 0..(TREE_DEPTH - 1), k \in T PROVE k + 1 \in T
    <3>1. k \in Level /\ k + 1 \in 0..TREE_DEPTH /\ k + 1 # 0 /\ (k + 1) - 1 = k
      BY <1>1 DEF Level
    <3>2. f[k + 1] = Mux(f[k], path[k])
      BY <1>6, <3>1
    <3>3. f[k + 1] \in Nat
      BY <1>2, <2>2, <3>1, <3>2, SideType
    <3> QED BY <3>1, <3>3
  <2> HIDE DEF T
  <2>3. 0..TREE_DEPTH \subseteq T
    BY <1>1, <2>1, <2>2, UpTo
  <2> QED BY <2>3 DEF T
<1>8. ASSUME NEW k \in Level PROVE f[k + 1] = Side(f[k], path[k])
  <2>1. k \in 0..TREE_DEPTH /\ k + 1 \in 0..TREE_DEPTH /\ k + 1 # 0 /\ (k + 1) - 1 = k
    BY <1>1 DEF Level
  <2>2. f[k + 1] = Mux(f[k], path[k])
    BY <1>6, <2>1
  <2> QED BY <1>2, <1>7, <2>1, <2>2
<1>9. f \in [0..TREE_DEPTH -> Nat] /\ f[0] = leaf
  <2> DEFINE Body(i) == IF i = 0 THEN leaf ELSE Mux(f[i - 1], path[i - 1])
  <2>1. f = [i \in 0..TREE_DEPTH |-> Body(i)]
    BY <1>5
  <2>2. Body(0) = leaf
    OBVIOUS
  <2> HIDE DEF Body, Mux
  <2>3. \A i \in 0..TREE_DEPTH : Body(i) = f[i]
    BY <2>1
  <2> QED BY <1>1, <1>7, <2>1, <2>2, <2>3
<1> QED BY <1>5, <1>8, <1>9 DEF Climbs

(* ... as the server's code does *)
LEMMA ServerClimbs ==
    ASSUME NEW leaf \in Nat, NEW path \in BitPaths
    PROVE  \E f : Climbs(f, leaf, path) /\ computeRootFromPath(leaf, path) = f[TREE_DEPTH]
<1> DEFINE Hashes(f) == f = [level \in 0..TREE_DEPTH |->
                              IF level = 0 THEN leaf
                              ELSE IF path[level - 1].index = 0
                                   THEN poseidonHash2(f[level - 1], path[level - 1].element)
                                   ELSE poseidonHash2(path[level - 1].element, f[level - 1])]
<1>1. TREE_DEPTH \in Nat
  BY TreeAssumption
<1>3. PICK g : Climbs(g, leaf, path)
  BY ClimbExists
<1>4. Hashes(g)
  <2>1. ASSUME NEW i \in 0..TREE_DEPTH
        PROVE  g[i] = IF i = 0 THEN leaf
                      ELSE IF path[i - 1].index = 0
                           THEN poseidonHash2(g[i - 1], path[i - 1].element)
                           ELSE poseidonHash2(path[i - 1].element, g[i - 1])
    <3>1. CASE i = 0
      BY <1>3, <3>1 DEF Climbs
    <3>2. CASE i # 0
      <4>1. PICK k \in Level : i = k + 1 /\ i - 1 = k /\ k \in 0..TREE_DEPTH
        BY <1>1, <3>2 DEF Level
      <4>2. g[k + 1] = Side(g[k], path[k])
        BY <1>3, <4>1 DEF Climbs
      <4> QED BY <3>2, <4>1, <4>2 DEF Side
    <3> QED BY <3>1, <3>2
  <2>2. g = [i \in 0..TREE_DEPTH |-> g[i]]
    BY <1>3 DEF Climbs
  <2> QED BY <2>1, <2>2
<1>5. PICK f : Hashes(f) /\ computeRootFromPath(leaf, path) = f[TREE_DEPTH]
  BY <1>4 DEF computeRootFromPath
<1>6. \A i \in 0..TREE_DEPTH :
         f[i] = IF i = 0 THEN leaf
                ELSE IF path[i - 1].index = 0
                     THEN poseidonHash2(f[i - 1], path[i - 1].element)
                     ELSE poseidonHash2(path[i - 1].element, f[i - 1])
  BY <1>5
<1>7. ASSUME NEW k \in Level PROVE f[k + 1] = Side(f[k], path[k])
  <2>1. k \in 0..TREE_DEPTH /\ k + 1 \in 0..TREE_DEPTH /\ k + 1 # 0 /\ (k + 1) - 1 = k
    BY <1>1 DEF Level
  <2> QED BY <1>6, <2>1 DEF Side
<1>8. \A i \in 0..TREE_DEPTH : f[i] \in Nat
  <2> DEFINE T == {k \in 0..TREE_DEPTH : f[k] \in Nat}
  <2>1. 0 \in T
    BY <1>1, <1>6
  <2>2. ASSUME NEW k \in 0..(TREE_DEPTH - 1), k \in T PROVE k + 1 \in T
    <3>1. k \in Level /\ k + 1 \in 0..TREE_DEPTH
      BY <1>1 DEF Level
    <3>2. f[k + 1] \in Nat
      BY <1>7, <2>2, <3>1, SideType
    <3> QED BY <3>1, <3>2
  <2> HIDE DEF T
  <2>3. 0..TREE_DEPTH \subseteq T
    BY <1>1, <2>1, <2>2, UpTo
  <2> QED BY <2>3 DEF T
<1>9. f \in [0..TREE_DEPTH -> Nat] /\ f[0] = leaf
  <2> DEFINE Body(i) == IF i = 0 THEN leaf
                        ELSE IF path[i - 1].index = 0
                             THEN poseidonHash2(f[i - 1], path[i - 1].element)
                             ELSE poseidonHash2(path[i - 1].element, f[i - 1])
  <2>1. f = [i \in 0..TREE_DEPTH |-> Body(i)]
    BY <1>5
  <2>2. Body(0) = leaf
    OBVIOUS
  <2> HIDE DEF Body
  <2>3. \A i \in 0..TREE_DEPTH : Body(i) = f[i]
    BY <2>1
  <2> QED BY <1>1, <1>8, <2>1, <2>2, <2>3
<1> QED BY <1>5, <1>7, <1>9 DEF Climbs

(* Hence both compute the same root *)
LEMMA SameRoot ==
    ASSUME NEW leaf \in Nat, NEW path \in BitPaths
    PROVE  CheckerRoot(leaf, path) = computeRootFromPath(leaf, path)
BY CheckerClimbs, ServerClimbs, ClimbUnique

-----------------------------------------------------------------------------
(* The node above leaf i on level k *)
Above(i, k) == i \div 2 ^ k

LEMMA AboveStep ==
    ASSUME NEW i \in 0..(TREE_CAPACITY - 1)
    PROVE  /\ Above(i, 0) = i /\ Above(i, TREE_DEPTH) = 0
           /\ \A k \in 0..TREE_DEPTH : Above(i, k) \in Nat
           /\ \A k \in Level : Above(i, k + 1) = Above(i, k) \div 2
<1>1. i \in Nat /\ TREE_DEPTH \in Nat /\ TREE_CAPACITY \in Nat \ {0}
  BY CapacityType, TreeAssumption
<1>2. Above(i, 0) = i
  BY <1>1, PowerZero DEF Above
<1>3. Above(i, TREE_DEPTH) = 0
  <2>1. i = TREE_CAPACITY * 0 + i /\ 0 \in Nat
    BY <1>1
  <2>2. i \div TREE_CAPACITY = 0
    BY <1>1, <2>1, DivUnique
  <2> QED BY <2>2 DEF Above, TREE_CAPACITY
<1>4. ASSUME NEW k \in Nat PROVE Above(i, k) \in Nat /\ Above(i, k + 1) = Above(i, k) \div 2
  <2>1. PICK m \in Nat \ {0} : m = 2 ^ k /\ 2 ^ (k + 1) = 2 * m
    BY PowerOfTwo
  <2>2. i \div m \in Nat /\ i \div (2 * m) = (i \div m) \div 2
    BY <1>1, <2>1, DivTwice
  <2> QED BY <2>1, <2>2 DEF Above
<1> QED BY <1>1, <1>2, <1>3, <1>4 DEF Level

Sibling(i, k) == IF Above(i, k) % 2 = 0 THEN Above(i, k) + 1 ELSE Above(i, k) - 1

(* The path of leaf i in the tree of map *)
LeadsFrom(path, map, i) ==
    \A k \in Level : /\ path[k].index = Above(i, k) % 2
                     /\ path[k].element = Node(map, k, Sibling(i, k))

LEMMA SiblingType ==
    ASSUME NEW i \in 0..(TREE_CAPACITY - 1), NEW k \in Level
    PROVE  /\ Sibling(i, k) \in Nat /\ Sibling(i, k) # Above(i, k)
           /\ Above(i, k) \in Nat /\ Above(i, k) % 2 \in {0, 1}
<1>1. Above(i, k) \in Nat
  BY AboveStep, TreeAssumption DEF Level
<1> QED BY <1>1 DEF Sibling

LEMMA PathType ==
    ASSUME NEW map \in Leaves, NEW i \in 0..(TREE_CAPACITY - 1)
    PROVE  /\ pathFor(buildTree(map), i) \in BitPaths
           /\ LeadsFrom(pathFor(buildTree(map), i), map, i)
<1> DEFINE path == pathFor(buildTree(map), i)
<1>1. path = [k \in Level |-> [element |-> Node(map, k, Sibling(i, k)), index |-> Above(i, k) % 2]]
  BY DEF pathFor, Node, Sibling, Above
<1>2. ASSUME NEW k \in Level
      PROVE  Node(map, k, Sibling(i, k)) \in Nat /\ Above(i, k) % 2 \in {0, 1}
  <2>1. k \in 0..TREE_DEPTH /\ map \in Layer
    BY LeavesAreLayer, TreeAssumption DEF Level
  <2> QED BY <2>1, Nodes, SiblingType
<1> HIDE DEF path
<1>3. path \in BitPaths /\ LeadsFrom(path, map, i)
  BY <1>1, <1>2 DEF BitPaths, LeadsFrom
<1> QED BY <1>3 DEF path

(* A leaf's path leads through the nodes above it to the root *)
LEMMA ClimbsToRoot ==
    ASSUME NEW map \in Leaves, NEW i \in 0..(TREE_CAPACITY - 1), NEW path \in BitPaths,
           LeadsFrom(path, map, i), NEW f, Climbs(f, LeafAt(map, i), path)
    PROVE  f[TREE_DEPTH] = Root(buildTree(map))
<1> DEFINE T == {k \in 0..TREE_DEPTH : f[k] = Node(map, k, Above(i, k))}
<1>1. TREE_DEPTH \in Nat /\ map \in Layer /\ i \in Nat
  BY LeavesAreLayer, TreeAssumption, CapacityType
<1>2. 0 \in T
  BY <1>1, AboveStep, Nodes DEF Climbs
<1>3. ASSUME NEW k \in 0..(TREE_DEPTH - 1), k \in T PROVE k + 1 \in T
  <2>1. k \in Level /\ k + 1 \in 0..TREE_DEPTH
    BY <1>1 DEF Level
  <2>2. PICK a \in Nat, p \in Nat : a = Above(i, k) /\ p = Above(i, k + 1) /\ p = a \div 2
    BY <1>1, <2>1, AboveStep
  <2>3. Node(map, k + 1, p) = poseidonHash2(Node(map, k, 2 * p), Node(map, k, 2 * p + 1))
    BY <1>1, <2>1, Nodes
  <2>4. f[k + 1] = Side(Node(map, k, a), path[k])
    BY <1>3, <2>1, <2>2 DEF Climbs
  <2>5. CASE a % 2 = 0
    <3>1. a = 2 * p /\ Sibling(i, k) = 2 * p + 1
      BY <2>2, <2>5 DEF Sibling
    <3>2. path[k].index = 0 /\ path[k].element = Node(map, k, 2 * p + 1)
      BY <2>1, <2>2, <2>5, <3>1 DEF LeadsFrom
    <3>3. f[k + 1] = Node(map, k + 1, p)
      BY <2>3, <2>4, <3>1, <3>2 DEF Side
    <3> QED BY <2>1, <2>2, <3>3
  <2>6. CASE a % 2 = 1
    <3>1. a = 2 * p + 1 /\ Sibling(i, k) = 2 * p
      BY <2>2, <2>6 DEF Sibling
    <3>2. path[k].index = 1 /\ path[k].element = Node(map, k, 2 * p)
      <4>1. path[k].index = Above(i, k) % 2 /\ path[k].element = Node(map, k, Sibling(i, k))
        BY <2>1 DEF LeadsFrom
      <4> QED BY <2>2, <2>6, <3>1, <4>1
    <3>3. f[k + 1] = Node(map, k + 1, p)
      BY <2>3, <2>4, <3>1, <3>2 DEF Side
    <3> QED BY <2>1, <2>2, <3>3
  <2>7. a % 2 \in {0, 1}
    BY <2>2
  <2> QED BY <2>5, <2>6, <2>7
<1> HIDE DEF T
<1>4. TREE_DEPTH \in T
  BY <1>1, <1>2, <1>3, UpTo
<1> QED BY <1>1, <1>4, AboveStep, Nodes DEF T

LEMMA PathRoot ==
    ASSUME NEW map \in Leaves, NEW i \in 0..(TREE_CAPACITY - 1), NEW path \in BitPaths,
           LeadsFrom(path, map, i)
    PROVE  /\ computeRootFromPath(LeafAt(map, i), path) = Root(buildTree(map))
           /\ MerkleTreeChecker(LeafAt(map, i), path, Root(buildTree(map)))
<1>1. LeafAt(map, i) \in Nat
  BY LeafAtType
<1>2. computeRootFromPath(LeafAt(map, i), path) = Root(buildTree(map))
  BY <1>1, ServerClimbs, ClimbsToRoot
<1>3. CheckerRoot(LeafAt(map, i), path) = Root(buildTree(map))
  BY <1>1, <1>2, SameRoot
<1>4. BitConstraint(path)
  <2> SUFFICES ASSUME NEW k \in Level PROVE path[k].index * (path[k].index - 1) = 0
    BY DEF BitConstraint
  <2>1. path[k].index \in {0, 1}
    BY DEF BitPaths
  <2> QED BY <2>1
<1> QED BY <1>2, <1>3, <1>4 DEF MerkleTreeChecker

-----------------------------------------------------------------------------
(* The position that a path spells, from the root down *)
LEMMA SpelledStep ==
    ASSUME NEW path \in BitPaths
    PROVE  \E b : /\ \A n \in 0..TREE_DEPTH :
                        b[n] = IF n = 0 THEN 0 ELSE 2 * b[n - 1] + path[TREE_DEPTH - n].index
                 /\ Spelled(path) = b[TREE_DEPTH]
<1> DEFINE Bits(b) == b = [n \in 0..TREE_DEPTH |->
                             IF n = 0 THEN 0 ELSE 2 * b[n - 1] + path[TREE_DEPTH - n].index]
           G == [p \in Nat \X Level |-> 2 * p[1] + path[TREE_DEPTH - 1 - p[2]].index]
<1>1. TREE_DEPTH \in Nat /\ 0..(TREE_DEPTH - 1) \subseteq Level
  BY TreeAssumption DEF Level
<1>2. G \in [Nat \X Level -> Nat]
  <2>1. ASSUME NEW h \in Nat, NEW k \in Level PROVE 2 * h + path[TREE_DEPTH - 1 - k].index \in Nat
    <3>1. TREE_DEPTH - 1 - k \in Level
      BY <1>1 DEF Level
    <3>2. path[TREE_DEPTH - 1 - k].index \in {0, 1}
      BY <3>1, SideType
    <3> QED BY <3>2
  <2> QED BY <2>1
<1>3. PICK b \in [0..TREE_DEPTH -> Nat] :
         b[0] = 0 /\ \A i \in 1..TREE_DEPTH : b[i] = G[<<b[i - 1], i - 1>>]
  <2> HIDE DEF G
  <2>1. Recursive(TREE_DEPTH, Nat, 0, G)
    BY <1>1, <1>2, Recursion
  <2> QED BY <2>1 DEF Recursive
<1>4. Bits(b)
  <2>1. ASSUME NEW n \in 0..TREE_DEPTH
        PROVE  b[n] = IF n = 0 THEN 0 ELSE 2 * b[n - 1] + path[TREE_DEPTH - n].index
    <3>1. CASE n = 0
      BY <1>3, <3>1
    <3>2. CASE n # 0
      <4>1. n \in 1..TREE_DEPTH /\ n - 1 \in Level /\ <<b[n - 1], n - 1>> \in Nat \X Level
        BY <1>1, <3>2 DEF Level
      <4>2. G[<<b[n - 1], n - 1>>] = 2 * b[n - 1] + path[TREE_DEPTH - 1 - (n - 1)].index
        BY <4>1
      <4>3. TREE_DEPTH - 1 - (n - 1) = TREE_DEPTH - n
        BY <1>1, <4>1
      <4> HIDE DEF G
      <4> QED BY <1>3, <3>2, <4>1, <4>2, <4>3
    <3> QED BY <3>1, <3>2
  <2>2. b = [n \in 0..TREE_DEPTH |-> b[n]]
    BY <1>3
  <2> HIDE DEF G
  <2> QED BY <2>1, <2>2
<1>5. PICK c : Bits(c) /\ Spelled(path) = c[TREE_DEPTH]
  BY <1>4 DEF Spelled
<1> QED BY <1>5

(* A path that is accepted leads down from the root to the leaf it spells *)
LEMMA CheckerSound ==
    ASSUME NEW map \in Leaves, NEW path \in BitPaths, NEW leaf \in Nat,
           CheckerRoot(leaf, path) = Root(buildTree(map))
    PROVE  Spelled(path) \in 0..(TREE_CAPACITY - 1) /\ leaf = LeafAt(map, Spelled(path))
<1>1. TREE_DEPTH \in Nat /\ map \in Layer
  BY LeavesAreLayer, TreeAssumption
<1>2. PICK f : Climbs(f, leaf, path) /\ f[TREE_DEPTH] = Root(buildTree(map))
  BY CheckerClimbs
<1>3. PICK b : /\ \A n \in 0..TREE_DEPTH :
                     b[n] = IF n = 0 THEN 0 ELSE 2 * b[n - 1] + path[TREE_DEPTH - n].index
               /\ Spelled(path) = b[TREE_DEPTH]
  BY SpelledStep
<1> DEFINE T == {n \in 0..TREE_DEPTH : /\ b[n] \in 0..(2 ^ n - 1)
                                       /\ f[TREE_DEPTH - n] = Node(map, TREE_DEPTH - n, b[n])}
<1>4. 0 \in T
  <2>1. b[0] = 0 /\ 2 ^ 0 = 1
    BY <1>1, <1>3, PowerZero
  <2>2. f[TREE_DEPTH - 0] = Node(map, TREE_DEPTH - 0, 0)
    BY <1>1, <1>2, Nodes
  <2> QED BY <1>1, <2>1, <2>2
<1>5. ASSUME NEW n \in 0..(TREE_DEPTH - 1), n \in T PROVE n + 1 \in T
  <2>1. PICK k \in Level : TREE_DEPTH - n = k + 1 /\ TREE_DEPTH - (n + 1) = k
    <3>1. TREE_DEPTH - (n + 1) \in Level /\ TREE_DEPTH - n = (TREE_DEPTH - (n + 1)) + 1
      BY <1>1 DEF Level
    <3> QED BY <3>1
  <2>2. PICK p \in Nat : p = b[n]
    BY <1>5
  <2>3. PICK bit \in {0, 1} : path[k].index = bit
    BY <2>1, SideType
  <2>4. b[n + 1] = 2 * p + bit
    <3>1. n + 1 \in 0..TREE_DEPTH /\ n + 1 # 0 /\ (n + 1) - 1 = n
      BY <1>1
    <3> QED BY <1>3, <2>1, <2>2, <2>3, <3>1
  <2>5. b[n + 1] \in 0..(2 ^ (n + 1) - 1)
    <3>1. PICK w \in Nat \ {0} : w = 2 ^ n /\ 2 ^ (n + 1) = 2 * w
      BY PowerOfTwo
    <3>2. p \in 0..(w - 1)
      BY <1>5, <2>2, <3>1
    <3> QED BY <2>3, <2>4, <3>1, <3>2
  <2>6. f[k + 1] = Node(map, k + 1, p) /\ f[k + 1] = Side(f[k], path[k])
    BY <1>2, <1>5, <2>1, <2>2 DEF Climbs
  <2>7. Node(map, k + 1, p) = poseidonHash2(Node(map, k, 2 * p), Node(map, k, 2 * p + 1))
    BY <1>1, <2>1, Nodes
  <2>8. PICK h \in Nat, e \in Nat, x \in Nat, y \in Nat :
           /\ h = f[k] /\ e = path[k].element
           /\ x = Node(map, k, 2 * p) /\ y = Node(map, k, 2 * p + 1)
    <3>1. k \in 0..TREE_DEPTH
      BY <1>1 DEF Level
    <3>2. f[k] \in Nat /\ path[k].element \in Nat
      BY <1>2, <3>1, SideType DEF Climbs
    <3>3. Node(map, k, 2 * p) \in Nat /\ Node(map, k, 2 * p + 1) \in Nat
      BY <1>1, <3>1, NodeType, 2 * p \in Nat, 2 * p + 1 \in Nat
    <3> QED BY <3>2, <3>3
  <2>9. h = IF bit = 0 THEN x ELSE y
    <3>1. CASE bit = 0
      <4>1. poseidonHash2(h, e) = poseidonHash2(x, y)
        BY <2>3, <2>6, <2>7, <2>8, <3>1 DEF Side
      <4> QED BY <3>1, <4>1, HashInjective
    <3>2. CASE bit = 1
      <4>1. poseidonHash2(e, h) = poseidonHash2(x, y)
        BY <2>3, <2>6, <2>7, <2>8, <3>2 DEF Side
      <4> QED BY <3>2, <4>1, HashInjective
    <3> QED BY <3>1, <3>2
  <2>10. f[k] = Node(map, k, b[n + 1])
    <3>1. CASE bit = 0
      BY <2>4, <2>8, <2>9, <3>1
    <3>2. CASE bit = 1
      BY <2>4, <2>8, <2>9, <3>2
    <3> QED BY <3>1, <3>2
  <2> QED BY <1>1, <2>1, <2>5, <2>10
<1> HIDE DEF T
<1>6. TREE_DEPTH \in T
  BY <1>1, <1>4, <1>5, UpTo
<1>7. Spelled(path) \in 0..(TREE_CAPACITY - 1) /\ f[0] = Node(map, 0, Spelled(path))
  BY <1>1, <1>3, <1>6 DEF T, TREE_CAPACITY
<1>8. Spelled(path) \in Nat
  BY <1>7, CapacityType
<1> QED BY <1>1, <1>2, <1>7, <1>8, Nodes DEF Climbs

(* The circuit accepts the paths of the tree and no other, at any depth *)
THEOREM CheckerIsExact == TreeSpec => []CheckerExact
<1>1. ASSUME leaves \in Leaves PROVE CheckerExact
  <2>1. ASSUME NEW i \in 0..(TREE_CAPACITY - 1)
        PROVE  MerkleTreeChecker(LeafAt(leaves, i), pathFor(buildTree(leaves), i), Root(buildTree(leaves)))
    BY <1>1, PathType, PathRoot
  <2>2. ASSUME NEW path \in [Level -> [element : PathValues, index : 0..2]], NEW leaf \in PathValues,
               MerkleTreeChecker(leaf, path, Root(buildTree(leaves)))
        PROVE  Spelled(path) < TREE_CAPACITY /\ leaf = LeafAt(leaves, Spelled(path))
    <3>1. path \in BitPaths
      <4>1. ASSUME NEW k \in Level PROVE path[k] \in [element : Nat, index : {0, 1}]
        <5>1. path[k] \in [element : PathValues, index : 0..2]
          OBVIOUS
        <5>2. path[k].index * (path[k].index - 1) = 0
          BY <2>2 DEF MerkleTreeChecker, BitConstraint
        <5>3. path[k].index \in {0, 1}
          BY <5>1, <5>2
        <5> QED BY <5>1, <5>3, TreeAssumption
      <4> QED BY <4>1 DEF BitPaths
    <3>2. leaf \in Nat /\ CheckerRoot(leaf, path) = Root(buildTree(leaves))
      BY <2>2, TreeAssumption DEF MerkleTreeChecker
    <3>3. Spelled(path) \in 0..(TREE_CAPACITY - 1) /\ leaf = LeafAt(leaves, Spelled(path))
      BY <1>1, <3>1, <3>2, CheckerSound
    <3> QED BY <3>3, CapacityType
  <2> QED BY <2>1, <2>2 DEF CheckerExact
<1> QED BY <1>1, LeavesInitially, LeavesStep, PTL DEF TreeSpec, LeavesInv

-----------------------------------------------------------------------------
(* A change of one leaf changes no node but those above it *)
LEMMA OtherNodes ==
    ASSUME NEW map \in Leaves, NEW new \in Leaves, NEW i \in 0..(TREE_CAPACITY - 1),
           \A j \in Nat : j # i => LeafAt(map, j) = LeafAt(new, j)
    PROVE  \A k \in 0..TREE_DEPTH : \A j \in Nat :
              j # Above(i, k) => Node(map, k, j) = Node(new, k, j)
<1> DEFINE T == {k \in 0..TREE_DEPTH : \A j \in Nat :
                    j # Above(i, k) => Node(map, k, j) = Node(new, k, j)}
<1>1. TREE_DEPTH \in Nat /\ map \in Layer /\ new \in Layer
  BY LeavesAreLayer, TreeAssumption
<1>2. 0 \in T
  BY <1>1, AboveStep, Nodes
<1>3. ASSUME NEW k \in 0..(TREE_DEPTH - 1), k \in T PROVE k + 1 \in T
  <2> SUFFICES ASSUME NEW p \in Nat, p # Above(i, k + 1)
               PROVE  Node(map, k + 1, p) = Node(new, k + 1, p)
    BY <1>1
  <2>1. k \in Level
    BY DEF Level
  <2>2. PICK a \in Nat : a = Above(i, k) /\ Above(i, k + 1) = a \div 2
    BY <1>1, <2>1, AboveStep
  <2>3. 2 * p # a /\ 2 * p + 1 # a
    BY <2>2
  <2>4. Node(map, k, 2 * p) = Node(new, k, 2 * p) /\ Node(map, k, 2 * p + 1) = Node(new, k, 2 * p + 1)
    BY <1>3, <2>2, <2>3
  <2> QED BY <1>1, <2>1, <2>4, Nodes
<1> HIDE DEF T
<1>4. 0..TREE_DEPTH \subseteq T
  BY <1>1, <1>2, <1>3, UpTo
<1> QED BY <1>4 DEF T

LEMMA SameSiblings ==
    ASSUME NEW map \in Leaves, NEW new \in Leaves, NEW i \in 0..(TREE_CAPACITY - 1),
           \A j \in Nat : j # i => LeafAt(map, j) = LeafAt(new, j),
           NEW path, LeadsFrom(path, new, i)
    PROVE  LeadsFrom(path, map, i)
<1> SUFFICES ASSUME NEW k \in Level PROVE Node(map, k, Sibling(i, k)) = Node(new, k, Sibling(i, k))
  BY DEF LeadsFrom
<1>1. k \in 0..TREE_DEPTH
  BY TreeAssumption DEF Level
<1> QED BY <1>1, OtherNodes, SiblingType

(* Every approval and sale can be proved to the contract with the path of the new tree *)
THEOREM StepsAreProvable == TreeSpec => EveryStepProvable
<1> DEFINE Provable(i) ==
        LET layers == buildTree(leaves')
            path == pathFor(layers, i)
        IN /\ proveRootTransition(path, LeafAt(leaves, i), LeafAt(leaves', i), Root(layers))
           /\ computeRootFromPath(LeafAt(leaves, i), path) = Root(buildTree(leaves))
<1>1. ASSUME leaves \in Leaves, leaves' \in Leaves, TreeNext,
             NEW i \in 0..(TREE_CAPACITY - 1), LeafAt(leaves, i) # LeafAt(leaves', i)
      PROVE  Provable(i)
  <2>1. PICK old, new : old = leaves /\ new = leaves'
    OBVIOUS
  <2>2. \A j \in Nat : j # i => LeafAt(old, j) = LeafAt(new, j)
    <3>1. PICK n \in 0..(TREE_CAPACITY - 1) : Vacate(n) \/ \E c \in Commitments : Insert(n, c)
      BY <1>1 DEF TreeNext
    <3>2. \A j : j # n => LeafAt(old, j) = LeafAt(new, j)
      BY <2>1, <3>1 DEF Vacate, Insert, LeafAt
    <3>3. n = i
      BY <1>1, <2>1, <3>2
    <3> QED BY <3>2, <3>3
  <2> DEFINE path == pathFor(buildTree(new), i)
  <2>3. path \in BitPaths /\ LeadsFrom(path, new, i)
    BY <1>1, <2>1, PathType
  <2>4. LeadsFrom(path, old, i)
    BY <1>1, <2>1, <2>2, <2>3, SameSiblings
  <2>5. /\ computeRootFromPath(LeafAt(new, i), path) = Root(buildTree(new))
        /\ MerkleTreeChecker(LeafAt(new, i), path, Root(buildTree(new)))
        /\ computeRootFromPath(LeafAt(old, i), path) = Root(buildTree(old))
        /\ MerkleTreeChecker(LeafAt(old, i), path, Root(buildTree(old)))
    BY <1>1, <2>1, <2>3, <2>4, PathRoot
  <2>6. proveRootTransition(path, LeafAt(old, i), LeafAt(new, i), Root(buildTree(new)))
    BY <2>5 DEF proveRootTransition, RootTransition
  <2> QED BY <2>1, <2>5, <2>6
<1>2. LeavesInv /\ LeavesInv' /\ [TreeNext]_leaves =>
         [\A i \in 0..(TREE_CAPACITY - 1) : LeafAt(leaves, i) # LeafAt(leaves', i) => Provable(i)]_leaves
  <2>1. LeavesInv' => leaves' \in Leaves
    BY DEF LeavesInv, Leaves
  <2> HIDE DEF Provable
  <2> QED BY <1>1, <2>1 DEF LeavesInv
<1> QED BY <1>2, LeavesInitially, LeavesStep, PTL DEF TreeSpec, EveryStepProvable
=============================================================================
