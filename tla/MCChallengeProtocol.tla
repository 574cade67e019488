------------------------ MODULE MCChallengeProtocol -------------------------
(* Challenge requests in progress, the buyers and the secrets are interchangeable. *)
EXTENDS ChallengeProtocol

Symmetry == Permutations(Handler) \cup Permutations(User \ {FirstOwner}) \cup Permutations(Secret)
=============================================================================
