--------------------------- MODULE MCLandWorkflow ---------------------------
(* Two lands beside each other, either of which can be sold to the other user, or *)
(* one land of three users, sold and sold again: l1 may be committed to either of *)
(* two secrets, so that it can be re-registered. *)
EXTENDS LandWorkflow

CONSTANTS l1, l2, s1, s2, u1, u3, n1

MCCommitment == {<<l1, s1>>, <<l1, s2>>, <<l2, s1>>}
OneLand == {<<l1, s1>>, <<l1, s2>>}

(* Users, salts and secrets that nothing tells apart yet are taken in one order: *)
(* land l1 is first requested by u1 with s1, and the first challenge has salt n1. *)
FirstOfEach ==
    /\ challenges = <<>> =>
          /\ land[l1].ownerId \in {Nil, u1} /\ land[l1].landCommitment \in {Nil, <<l1, s1>>}
    /\ challenges # <<>> => challenges[1].nonceSalt = n1

(* A second fault is followed only while the transfer that the first one left is still *)
(* to be mined, and one salt is in use. *)
LateTransfer ==
    faults > 1 => /\ \E tx \in pending : tx.sent = 0 /\ tx.call.pc = "transfer"
                  /\ \A k \in DOMAIN challenges : challenges[k].nonceSalt = n1

MCBound ==
    /\ FirstOfEach /\ LateTransfer
    /\ \/ land[l2].status = "NONE"
       \/ /\ \A l \in LandId : land[l].ownerId # u3
          /\ \A k \in DOMAIN challenges :
                challenges[k].nonceSalt = n1 /\ challenges[k].buyerId # u3
=============================================================================
