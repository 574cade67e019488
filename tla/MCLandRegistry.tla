--------------------------- MODULE MCLandRegistry ---------------------------
(* A small LandRegistry for TLC: two leaves, two owners of one land id and a *)
(* second registered land, histories of at most MaxEvents events. *)
EXTENDS LandRegistry, TLC

CONSTANTS MaxEvents, f1, f2, s1, s2

MCCommitment == {<<f1, s1>>, <<f1, s2>>}

(* Registered lands, salts and secrets are interchangeable: the commitments in *)
(* use hold both secrets of the same field. *)
Symmetry == Permutations(LandHash) \cup Permutations(Salt) \cup Permutations(Secret)

EventBound == Len(events) <= MaxEvents
=============================================================================
