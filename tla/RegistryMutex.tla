--------------------------- MODULE RegistryMutex ----------------------------
(***************************************************************************)
(* What withRegistryLock promises its callers, the approvals and the       *)
(* purchases: critical sections run one at a time, in the order of the     *)
(* calls, whether or not the earlier ones failed, and every section is run *)
(***************************************************************************)
EXTENDS Integers

CONSTANT MaxCalls

VARIABLES calls,    \* how many calls were made
          section   \* "uncalled", "waiting", "inside" or "over", for each call

vars == <<calls, section>>

Init == calls = 0 /\ section = [k \in 1..MaxCalls |-> "uncalled"]

Call ==
    /\ calls < MaxCalls
    /\ calls' = calls + 1
    /\ section' = [section EXCEPT ![calls + 1] = "waiting"]

Enter(k) ==
    /\ section[k] = "waiting"
    /\ \A j \in 1..(k - 1) : section[j] = "over"
    /\ section' = [section EXCEPT ![k] = "inside"]
    /\ UNCHANGED calls

Leave(k) ==
    /\ section[k] = "inside"
    /\ section' = [section EXCEPT ![k] = "over"]
    /\ UNCHANGED calls

Next == Call \/ \E k \in 1..MaxCalls : Enter(k) \/ Leave(k)

Spec == Init /\ [][Next]_vars /\ \A k \in 1..MaxCalls : WF_vars(Enter(k)) /\ WF_vars(Leave(k))
=============================================================================
