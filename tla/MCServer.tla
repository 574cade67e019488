------------------------------- MODULE MCServer -------------------------------
(***************************************************************************)
(* What every approval and purchase of the server relies on, the registry  *)
(* lock and the registry tree: a behaviour is about one of them, and the   *)
(* other stays as it began.                                                *)
(***************************************************************************)
EXTENDS RegistryLock, MerkleTree

VARIABLE component   \* the part that this behaviour is about

ServerInit == component \in {"lock", "tree"} /\ Init /\ TreeInit

ServerNext ==
    \/ component = "lock" /\ Next /\ UNCHANGED <<component, leaves>>
    \/ component = "tree" /\ TreeNext /\ UNCHANGED <<component, vars>>

(* Without calls the lock's fairness asks for nothing, so it leaves the tree free. *)
ServerSpec == ServerInit /\ [][ServerNext]_<<component, vars, leaves>> /\ Fairness
=============================================================================
