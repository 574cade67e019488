-------------------------- MODULE AnchoredRegistry --------------------------
(***************************************************************************)
(* What the LandRegistry contract promises, without addresses, signals,    *)
(* events or a history of roots: a tree that changes one leaf at a time    *)
(* and parcels that only the holder of a leaf can have moved, once per     *)
(* nullifier.  The promise holds while the verifiers are sound; the owner  *)
(* may replace them, and the two flags say whether they are.               *)
(***************************************************************************)
CONSTANTS Nil, Leaf, Field, Commitment, ForeignRoot, LandHash, Nullifier

VARIABLES
    tree,          \* the anchored tree, or a bootstrapped root that opens to none
    pristine,      \* nothing was ever anchored
    parcels,       \* LandHash -> status and land id field
    spent,         \* nullifiers consumed by transfers
    rootsAudited, proofsAudited

vars == <<tree, pristine, parcels, spent, rootsAudited, proofsAudited>>

Trees == [Leaf -> Commitment \cup {Nil}]

Init ==
    /\ tree = [i \in Leaf |-> Nil] /\ pristine = TRUE
    /\ parcels = [h \in LandHash |-> [status |-> "NONE", field |-> Nil]]
    /\ spent = {} /\ rootsAudited = TRUE /\ proofsAudited = TRUE

(* The owner installs other verifiers. *)
ChangeVerifiers ==
    /\ rootsAudited' \in BOOLEAN /\ proofsAudited' \in BOOLEAN
    /\ UNCHANGED <<tree, pristine, parcels, spent>>

Bootstrap ==
    /\ pristine /\ pristine' = FALSE
    /\ tree' \in Trees \cup ForeignRoot
    /\ UNCHANGED <<parcels, spent, rootsAudited, proofsAudited>>

(* One leaf of a tree that is known changes; unaudited, the root may become any. *)
Anchor ==
    /\ pristine' = FALSE
    /\ tree' \in Trees \cup ForeignRoot
    /\ rootsAudited => /\ tree \in Trees
                       /\ \E i \in Leaf, v \in Commitment \cup {Nil} : tree' = [tree EXCEPT ![i] = v]
    /\ UNCHANGED <<parcels, spent, rootsAudited, proofsAudited>>

Register ==
    \E h \in LandHash, f \in Field :
        /\ parcels[h].status = "NONE"
        /\ parcels' = [parcels EXCEPT ![h] = [status |-> "REGISTERED", field |-> f]]
        /\ UNCHANGED <<tree, pristine, spent, rootsAudited, proofsAudited>>

(* A fresh nullifier n moves a parcel; audited, n answers for a leaf that commits *)
(* to the parcel's own field, so that something was anchored.  Unaudited, parcels  *)
(* move even in a registry that never had a leaf. *)
Transfer ==
    \E h \in LandHash, n \in Nullifier \ spent :
        /\ parcels[h].status \in {"REGISTERED", "TRANSFERRED"}
        /\ proofsAudited => /\ ~pristine
                            /\ tree \in Trees /\ n[2] = parcels[h].field
                            /\ \E i \in Leaf : tree[i] = <<n[2], n[1]>>
        /\ parcels' = [parcels EXCEPT ![h].status = "TRANSFERRED"]
        /\ spent' = spent \cup {n}
        /\ UNCHANGED <<tree, pristine, rootsAudited, proofsAudited>>

Dispute ==
    \E h \in LandHash :
        /\ parcels[h].status # "NONE"
        /\ parcels' = [parcels EXCEPT ![h].status = "DISPUTED"]
        /\ UNCHANGED <<tree, pristine, spent, rootsAudited, proofsAudited>>

Next == ChangeVerifiers \/ Bootstrap \/ Anchor \/ Register \/ Transfer \/ Dispute

Spec == Init /\ [][Next]_vars
=============================================================================
