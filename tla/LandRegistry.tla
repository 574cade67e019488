---------------------------- MODULE LandRegistry ----------------------------
(***************************************************************************)
(* contracts/contracts/LandRegistry.sol with libraries/MerkleRootStore.sol *)
(* and the two verifier contracts it calls.  A transaction is one action; *)
(* a transaction whose require fails reverts, which is no step at all.     *)
(* Every external function is onlyOwner, so every action is the owner's.   *)
(*                                                                         *)
(* Cryptography is abstracted to what it is assumed to give: Poseidon and  *)
(* keccak256 are collision free, so a Merkle root stands for the tree it   *)
(* commits to, a commitment for <<landIdField, secret>>, a challenge for   *)
(* <<buyer, salt>> and a nullifier for the values hashed into it.  A sound *)
(* verifier accepts only signals that satisfy the statement of its circuit *)
(***************************************************************************)
EXTENDS Integers, Sequences

CONSTANTS
    Nil,          \* Solidity's zero: address(0), bytes32(0), uint256 0, an empty leaf
    Leaf,         \* leaf positions of the registry tree (2^20 in the circuits)
    Field,        \* valid non-zero field encodings of land ids
    Secret,       \* owner secrets
    Commitment,   \* the land commitments in use, a subset of Field \X Secret
    ForeignRoot,  \* bytes32 values that are the root of no known tree
    LandHash,     \* keys of the lands mapping
    Buyer, Salt,  \* the two halves of a challenge
    Address,      \* addresses a verifier may be set to
    Sound         \* those whose Groth16 verifier is sound

Tree == [Leaf -> Commitment \cup {Nil}]
Root == Tree \cup ForeignRoot
Challenge == Buyer \X Salt
Nullifier == Secret \X Field \X Challenge

(* Poseidon root of the all-zero-leaves tree *)
EMPTY_TREE_ROOT == [i \in Leaf |-> Nil]

ASSUME RegistryAssumption ==
    /\ Commitment \subseteq Field \X Secret
    /\ Sound \subseteq Address
    /\ Nil \notin Commitment \cup Tree \cup ForeignRoot
    /\ Nil \notin Field \cup LandHash \cup Buyer \cup Address
    /\ ForeignRoot \cap Tree = {}

VARIABLES
    verifier, rootVerifier,
    latestRoot, knownRoots,   \* MerkleRootStore.Store
    lands, usedNullifiers,
    events                    \* the emitted events, oldest first

vars == <<verifier, rootVerifier, latestRoot, knownRoots, lands, usedNullifiers, events>>

LandRecord == [exists : BOOLEAN,
               status : {"REGISTERED", "TRANSFERRED", "DISPUTED"},
               landIdField : Field \cup {Nil}]

(* what the lands mapping returns for a key never written *)
NoRecord == [exists |-> FALSE, status |-> "REGISTERED", landIdField |-> Nil]

(* A root as a caller may state it: publicSignals are words, zero among them *)
RootWord == Root \cup {Nil}

TransitionSignals == [leafBefore : Commitment \cup {Nil}, leafAfter : Commitment \cup {Nil},
                      oldRoot : RootWord, newRoot : RootWord]

OwnershipSignals == [nullifier : Nullifier, landIdField : Field,
                     merkleRoot : RootWord, challenge : Challenge]

VerifierUpdated(v) == [event |-> "VerifierUpdated", verifier |-> v]
RootVerifierUpdated(v) == [event |-> "RootVerifierUpdated", verifier |-> v]
MerkleRootUpdated(r) == [event |-> "MerkleRootUpdated", root |-> r]
MerkleRootBootstrapped(r) == [event |-> "MerkleRootBootstrapped", root |-> r]
LandRegistered(h) == [event |-> "LandRegistered", landHash |-> h]
LandTransferred(h, n) == [event |-> "LandTransferred", landHash |-> h, nullifier |-> n]
LandDisputed(h) == [event |-> "LandDisputed", landHash |-> h]

Event == {VerifierUpdated(v) : v \in Address} \cup {RootVerifierUpdated(v) : v \in Address}
         \cup {MerkleRootUpdated(r) : r \in Root} \cup {MerkleRootBootstrapped(r) : r \in Root}
         \cup {LandRegistered(h) : h \in LandHash} \cup {LandDisputed(h) : h \in LandHash}
         \cup {LandTransferred(h, n) : h \in LandHash, n \in Nullifier}

-----------------------------------------------------------------------------
(* rootTransition.circom: one path opens oldRoot to leafBefore and newRoot to leafAfter *)
RootTransition(t) ==
    \E i \in Leaf : /\ t.oldRoot \in Tree
                    /\ t.oldRoot[i] = t.leafBefore
                    /\ t.newRoot = [t.oldRoot EXCEPT ![i] = t.leafAfter]

(* challengeProof.circom: the prover knows the secret of a leaf of merkleRoot that *)
(* commits to landIdField, and the nullifier is that secret's answer to the challenge *)
ChallengeProof(s) ==
    \E secret \in Secret, i \in Leaf :
        /\ s.merkleRoot \in Tree
        /\ s.merkleRoot[i] = <<s.landIdField, secret>>
        /\ s.nullifier = <<secret, s.landIdField, s.challenge>>

(* IVerifier.verifyProof at address v: a verifier that is not sound may accept anything *)
verifyProof(v, statement) == v \in Sound => statement

(* The ignition module deploys the two circuits' own verifiers. *)
Init ==
    /\ verifier \in Sound /\ rootVerifier \in Sound
    /\ latestRoot = Nil /\ knownRoots = {}
    /\ lands = [h \in LandHash |-> NoRecord]
    /\ usedNullifiers = {}
    /\ events = <<>>

(* Mutants of set: zero is accepted; the root is not remembered *)
set_AcceptsZero(root) == latestRoot' = root /\ knownRoots' = knownRoots \cup {root}
set_ForgetsKnown(root) == root # Nil /\ latestRoot' = root /\ UNCHANGED knownRoots

(* MerkleRootStore.set *)
set(root) ==
    /\ root # Nil
    /\ latestRoot' = root
    /\ knownRoots' = knownRoots \cup {root}

setVerifier(v) ==
    /\ v # Nil
    /\ verifier' = v
    /\ events' = Append(events, VerifierUpdated(v))
    /\ UNCHANGED <<rootVerifier, latestRoot, knownRoots, lands, usedNullifiers>>

setRootVerifier(v) ==
    /\ v # Nil
    /\ rootVerifier' = v
    /\ events' = Append(events, RootVerifierUpdated(v))
    /\ UNCHANGED <<verifier, latestRoot, knownRoots, lands, usedNullifiers>>

bootstrapRoot(root) ==
    /\ latestRoot = Nil
    /\ set(root)
    /\ events' = Append(Append(events, MerkleRootBootstrapped(root)), MerkleRootUpdated(root))
    /\ UNCHANGED <<verifier, rootVerifier, lands, usedNullifiers>>

CurrentRoot == IF latestRoot = Nil THEN EMPTY_TREE_ROOT ELSE latestRoot

(* Mutant: the old root of the proof is not compared with the current one *)
ValidTransition_AnyOldRoot(newRoot, t) ==
    t.newRoot = newRoot /\ verifyProof(rootVerifier, RootTransition(t))

(* The requires of _anchorRoot *)
ValidTransition(newRoot, t) ==
    /\ t.oldRoot = CurrentRoot
    /\ t.newRoot = newRoot
    /\ verifyProof(rootVerifier, RootTransition(t))

_anchorRoot(newRoot, t) == ValidTransition(newRoot, t) /\ set(newRoot)

updateMerkleRoot(newRoot, t) ==
    /\ _anchorRoot(newRoot, t)
    /\ events' = Append(events, MerkleRootUpdated(newRoot))
    /\ UNCHANGED <<verifier, rootVerifier, lands, usedNullifiers>>

(* Mutant: LAND_EXISTS is not required *)
registerLand_Overwrites(h, landIdField) ==
    /\ h # Nil /\ landIdField # Nil
    /\ lands' = [lands EXCEPT ![h] = [exists |-> TRUE, status |-> "REGISTERED",
                                      landIdField |-> landIdField]]
    /\ events' = Append(events, LandRegistered(h))
    /\ UNCHANGED <<verifier, rootVerifier, latestRoot, knownRoots, usedNullifiers>>

registerLand(h, landIdField) ==
    /\ h # Nil /\ ~lands[h].exists /\ landIdField # Nil
    /\ lands' = [lands EXCEPT ![h] = [exists |-> TRUE, status |-> "REGISTERED",
                                      landIdField |-> landIdField]]
    /\ events' = Append(events, LandRegistered(h))
    /\ UNCHANGED <<verifier, rootVerifier, latestRoot, knownRoots, usedNullifiers>>

(* What Authorizes asks of the proof itself: its land, its root, its buyer *)
BoundTo(h, buyer, salt, s) ==
    /\ s.landIdField = lands[h].landIdField
    /\ s.merkleRoot = latestRoot
    /\ s.challenge = <<buyer, salt>>

(* Mutants of Authorizes: a replay passes; disputed land moves; a stale root passes *)
Authorizes_Replay(h, buyer, salt, s) ==
    /\ lands[h].exists /\ buyer # Nil /\ lands[h].status # "DISPUTED"
    /\ BoundTo(h, buyer, salt, s) /\ verifyProof(verifier, ChallengeProof(s))

Authorizes_Disputed(h, buyer, salt, s) ==
    /\ lands[h].exists /\ buyer # Nil /\ BoundTo(h, buyer, salt, s)
    /\ s.nullifier \notin usedNullifiers /\ verifyProof(verifier, ChallengeProof(s))

Authorizes_StaleRoot(h, buyer, salt, s) ==
    /\ lands[h].exists /\ buyer # Nil /\ lands[h].status # "DISPUTED"
    /\ s.landIdField = lands[h].landIdField /\ s.challenge = <<buyer, salt>>
    /\ s.nullifier \notin usedNullifiers /\ verifyProof(verifier, ChallengeProof(s))

(* The signals s answer the challenge of this buyer, for this land, at the anchored root *)
Authorizes(h, buyer, salt, s) ==
    /\ lands[h].exists /\ buyer # Nil /\ lands[h].status # "DISPUTED"
    /\ BoundTo(h, buyer, salt, s)
    /\ s.nullifier \notin usedNullifiers
    /\ verifyProof(verifier, ChallengeProof(s))

verifyAndTransfer(h, buyer, salt, s) ==
    /\ Authorizes(h, buyer, salt, s)
    /\ usedNullifiers' = usedNullifiers \cup {s.nullifier}
    /\ lands' = [lands EXCEPT ![h].status = "TRANSFERRED"]
    /\ events' = Append(events, LandTransferred(h, s.nullifier))
    /\ UNCHANGED <<verifier, rootVerifier, latestRoot, knownRoots>>

markDisputed(h) ==
    /\ lands[h].exists
    /\ lands' = [lands EXCEPT ![h].status = "DISPUTED"]
    /\ events' = Append(events, LandDisputed(h))
    /\ UNCHANGED <<verifier, rootVerifier, latestRoot, knownRoots, usedNullifiers>>

Next ==
    \/ \E v \in Address \cup {Nil} : setVerifier(v) \/ setRootVerifier(v)
    \/ \E r \in RootWord : bootstrapRoot(r)
    \/ \E r \in RootWord, t \in TransitionSignals : updateMerkleRoot(r, t)
    \/ \E h \in LandHash \cup {Nil}, f \in Field \cup {Nil} : registerLand(h, f)
    \/ \E h \in LandHash, b \in Buyer \cup {Nil}, salt \in Salt, s \in OwnershipSignals :
          verifyAndTransfer(h, b, salt, s)
    \/ \E h \in LandHash : markDisputed(h)

Spec == Init /\ [][Next]_vars

-----------------------------------------------------------------------------
(* The contract's variables have the types Solidity declares; in particular *)
(* zero is never an anchored root. *)
TypeOK ==
    /\ verifier \in Address /\ rootVerifier \in Address
    /\ latestRoot \in Root \cup {Nil} /\ knownRoots \subseteq Root
    /\ lands \in [LandHash -> LandRecord]
    /\ usedNullifiers \subseteq Nullifier
    /\ events \in Seq(Event)

Is(i, name) == i \in DOMAIN events /\ events[i].event = name

(* r is the root in force just before the i-th event *)
AnchoredBefore(i, r) ==
    \/ \E j \in 1..(i - 1) : /\ Is(j, "MerkleRootUpdated") /\ events[j].root = r
                             /\ \A k \in (j + 1)..(i - 1) : ~Is(k, "MerkleRootUpdated")
    \/ r = Nil /\ \A j \in 1..(i - 1) : ~Is(j, "MerkleRootUpdated")

(* ... where the empty tree is in force until a root is anchored *)
InForceBefore(i, r) == AnchoredBefore(i, r) \/ (r = EMPTY_TREE_ROOT /\ AnchoredBefore(i, Nil))

(* Every verifier installed since deployment under this event name is sound *)
Audited(name) == \A i \in DOMAIN events : Is(i, name) => events[i].verifier \in Sound

OneLeafApart(old, new) == \E i \in Leaf : \A j \in Leaf \ {i} : old[j] = new[j]

(* The stored roots are those of the MerkleRootUpdated events, and the latest *)
(* root is that of the last one: nothing else moves the anchor, and isKnownRoot *)
(* never forgets or invents a root. *)
RootsMatchLog ==
    /\ AnchoredBefore(Len(events) + 1, latestRoot)
    /\ knownRoots = {events[i].root : i \in {k \in DOMAIN events : Is(k, "MerkleRootUpdated")}}

(* SECURITY.md P3: while the root verifier is sound, each root in the log is one *)
(* leaf away from the root in force before it (the empty tree for the first *)
(* one), unless it is the bootstrapped root, which only the first can be. *)
SingleLeafHistory ==
    Audited("RootVerifierUpdated") =>
        \A i \in DOMAIN events : Is(i, "MerkleRootUpdated") =>
            \/ /\ Is(i - 1, "MerkleRootBootstrapped") /\ AnchoredBefore(i, Nil)
            \/ \E r \in Tree : /\ InForceBefore(i, r)
                              /\ events[i].root \in Tree /\ OneLeafApart(r, events[i].root)

(* rootTransition.circom:11-14: each anchored root is an insertion (the leaf was *)
(* empty) or a removal (the leaf becomes empty). *)
InsertionOrRemoval ==
    \A i \in DOMAIN events : Is(i, "MerkleRootUpdated") /\ ~Is(i - 1, "MerkleRootBootstrapped") =>
        \E r \in Tree, leaf \in Leaf :
            /\ InForceBefore(i, r)
            /\ (r[leaf] = Nil) # (events[i].root[leaf] = Nil)
            /\ \A j \in Leaf \ {leaf} : r[j] = events[i].root[j]

(* No two transfers in the contract's history consumed the same nullifier, and *)
(* usedNullifiers is exactly what they consumed (SECURITY.md P4). *)
NullifiersSpentOnce ==
    /\ usedNullifiers = {events[i].nullifier : i \in {k \in DOMAIN events : Is(k, "LandTransferred")}}
    /\ \A i, j \in DOMAIN events :
          Is(i, "LandTransferred") /\ Is(j, "LandTransferred")
             /\ events[i].nullifier = events[j].nullifier => i = j

(* Dispute is final: no land is transferred, nor registered anew, after it was *)
(* marked disputed. *)
DisputedIsFinal ==
    \A i, j \in DOMAIN events :
        Is(i, "LandDisputed") /\ i < j
           /\ (Is(j, "LandTransferred") \/ Is(j, "LandRegistered"))
           => events[i].landHash # events[j].landHash

(* SECURITY.md P2: while the ownership verifier is sound, every transfer in the *)
(* history was authorized by the holder of a commitment to that very land in *)
(* the tree anchored at the time. *)
TransferredByMember ==
    Audited("VerifierUpdated") =>
        \A i \in DOMAIN events : Is(i, "LandTransferred") =>
            LET owner == <<events[i].nullifier[2], events[i].nullifier[1]>> IN
            /\ lands[events[i].landHash].landIdField = owner[1]
            /\ \E r \in Tree, leaf \in Leaf : AnchoredBefore(i, r) /\ r[leaf] = owner

(* What the contract promises whoever reads only the tree, the parcels and the *)
(* spent nullifiers: see AnchoredRegistry. *)
Ledger == INSTANCE AnchoredRegistry WITH
    tree <- CurrentRoot,
    pristine <- latestRoot = Nil,
    parcels <- [h \in LandHash |-> [status |-> IF lands[h].exists THEN lands[h].status ELSE "NONE",
                                    field |-> lands[h].landIdField]],
    spent <- usedNullifiers,
    rootsAudited <- rootVerifier \in Sound,
    proofsAudited <- verifier \in Sound

ImplementsLedger == Ledger!Spec
=============================================================================
