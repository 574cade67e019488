---------------------------- MODULE RegistryLock ----------------------------
(***************************************************************************)
(* apps/server/src/utils/lock.util.ts: the registry lock is a chain of     *)
(* promises.  Call k makes run[k] = registryChain.then(fn, fn), which runs *)
(* fn once the promise it was chained to is settled, and then replaces     *)
(* registryChain by caught[k] = run[k].catch(() => undefined).  A call     *)
(* looks at nothing but that one promise; that the sections are serialized *)
(* is a property of the whole chain.                                       *)
(***************************************************************************)
EXTENDS Integers

CONSTANT MaxCalls   \* calls in the lifetime of the server process

ASSUME CallsAssumption == MaxCalls \in Nat

VARIABLES
    calls,          \* calls of withRegistryLock so far
    registryChain,  \* the call whose caught promise it holds; 0 is Promise.resolve()
    after,          \* after[k]: what registryChain held when call k was made
    run,            \* state of run[k]
    caught          \* whether run[k].catch is settled, always as fulfilled

vars == <<calls, registryChain, after, run, caught>>

Calls == 1..MaxCalls
Settled == {"fulfilled", "rejected"}

Init ==
    /\ calls = 0 /\ registryChain = 0
    /\ after = [k \in Calls |-> 0]
    /\ run = [k \in Calls |-> "uncalled"]
    /\ caught = [k \in Calls |-> FALSE]

(* Mutant: the chain is not replaced, as if the last line were missing *)
withRegistryLock_KeepsChain ==
    /\ calls < MaxCalls /\ calls' = calls + 1
    /\ after' = [after EXCEPT ![calls + 1] = registryChain]
    /\ run' = [run EXCEPT ![calls + 1] = "waiting"]
    /\ UNCHANGED <<registryChain, caught>>

(* The synchronous part of a call *)
withRegistryLock ==
    /\ calls < MaxCalls /\ calls' = calls + 1
    /\ after' = [after EXCEPT ![calls + 1] = registryChain]
    /\ run' = [run EXCEPT ![calls + 1] = "waiting"]
    /\ registryChain' = calls + 1
    /\ UNCHANGED caught

ChainSettled(k) == after[k] # 0 => caught[after[k]]

(* Mutants: fn is called at once; fn waits for the run before, not for its end *)
Start_AtOnce(k) ==
    run[k] = "waiting" /\ run' = [run EXCEPT ![k] = "running"]
    /\ UNCHANGED <<calls, registryChain, after, caught>>

Start_AfterStart(k) ==
    /\ run[k] = "waiting" /\ (after[k] # 0 => run[after[k]] # "waiting")
    /\ run' = [run EXCEPT ![k] = "running"]
    /\ UNCHANGED <<calls, registryChain, after, caught>>

(* .then(fn, fn): fn starts when the promise before it is settled, either way *)
Start(k) ==
    /\ run[k] = "waiting" /\ ChainSettled(k)
    /\ run' = [run EXCEPT ![k] = "running"]
    /\ UNCHANGED <<calls, registryChain, after, caught>>

(* fn returns or throws *)
Settle(k) ==
    /\ run[k] = "running"
    /\ \E outcome \in Settled : run' = [run EXCEPT ![k] = outcome]
    /\ UNCHANGED <<calls, registryChain, after, caught>>

(* Mutant: registryChain = run.then(() => undefined), which a rejection breaks *)
Catch_OnlyFulfilled(k) ==
    /\ run[k] = "fulfilled" /\ ~caught[k]
    /\ caught' = [caught EXCEPT ![k] = TRUE]
    /\ UNCHANGED <<calls, registryChain, after, run>>

(* run.catch(() => undefined) settles a microtask after run, whatever run's outcome *)
Catch(k) ==
    /\ run[k] \in Settled /\ ~caught[k]
    /\ caught' = [caught EXCEPT ![k] = TRUE]
    /\ UNCHANGED <<calls, registryChain, after, run>>

Next == withRegistryLock \/ \E k \in Calls : Start(k) \/ Settle(k) \/ Catch(k)

(* The event loop runs every microtask that is ready; that a section settles is *)
(* assumed of its database and RPC calls, none of which has a timeout. *)
Fairness == \A k \in Calls : WF_vars(Start(k)) /\ WF_vars(Settle(k)) /\ WF_vars(Catch(k))

Safe == Init /\ [][Next]_vars
Spec == Safe /\ Fairness

-----------------------------------------------------------------------------
(* Types of the chain; a promise is only ever chained to an earlier call's. *)
TypeOK ==
    /\ calls \in 0..MaxCalls /\ registryChain \in 0..calls
    /\ after \in [Calls -> 0..MaxCalls] /\ \A k \in Calls : after[k] < k
    /\ run \in [Calls -> {"uncalled", "waiting", "running"} \cup Settled]
    /\ caught \in [Calls -> BOOLEAN]

(* lock.util.ts:4-8: two critical sections never overlap, although a call waits *)
(* for a single promise and sections may fail. *)
MutualExclusion == \A j, k \in Calls : run[j] = "running" /\ run[k] = "running" => j = k

(* ... and they run in the order of the calls, none of them starved by a failure: *)
(* the chain implements the abstract mutex, fairness included. *)
Phase(state) == IF state = "running" THEN "inside"
                ELSE IF state \in Settled THEN "over" ELSE state

Mutex == INSTANCE RegistryMutex WITH
    section <- [k \in Calls |-> Phase(run[k])]

ImplementsMutex == Mutex!Spec

(* Every call's promise settles, provided each section that starts does. *)
EveryCallSettles == \A k \in Calls : calls >= k ~> run[k] \in Settled

(* The inductive invariant: call k hangs from call k - 1, what is caught is over, *)
(* and a call that started found every call before it caught. *)
ChainInv ==
    /\ TypeOK /\ registryChain = calls
    /\ \A k \in Calls : /\ run[k] = "uncalled" <=> k > calls
                        /\ k <= calls => after[k] = k - 1
                        /\ caught[k] => run[k] \in Settled
                        /\ run[k] \in {"running"} \cup Settled => \A j \in 1..(k - 1) : caught[j]
=============================================================================
