------------------------------ MODULE ProverKeys ------------------------------
(***************************************************************************)
(* The keys of one circuit on their way to those who prove and check: the  *)
(* trusted setup that writes them (circuits/scripts), the server that      *)
(* checks with them and publishes them (zk.service.ts, zk.routes.ts), the  *)
(* browser's HTTP cache and the client's caches (zk.ts).                   *)
(*                                                                         *)
(* A file is the number of the setup that made it, 0 when it is absent;    *)
(* the wasm does not depend on the setup.  Statements proved are true.     *)
(***************************************************************************)
EXTENDS Integers, FiniteSets

CONSTANTS
    Calls,       \* of proveInBrowser and verifyInBrowser, each made once
    SetupLimit   \* bound: runs of the setup

ASSUME KeysAssumption == SetupLimit \in Nat

VARIABLES
    files,       \* artifact -> the file on the server
    httpCache,   \* artifact -> what the browser keeps of it
    promises,    \* artifact -> the entry of artifactCache or vkeyCache
    downloads,   \* artifact -> fetches since the tab was loaded
    calls        \* Calls -> a call

keyVars == <<files, httpCache, promises, downloads, calls>>

Artifacts == {"wasm", "zkey", "vkey"}
Unasked == [is |-> "none"]
Unsettled == [is |-> "pending"]
Settled(number) == IF number = 0 THEN [is |-> "failed"] ELSE [is |-> "ready", setup |-> number]
Idle == [pc |-> "idle"]
Thrown == [pc |-> "thrown"]

KeysInit ==
    /\ files = [a \in Artifacts |-> 0] /\ httpCache = [a \in Artifacts |-> 0]
    /\ promises = [a \in Artifacts |-> Unasked] /\ downloads = [a \in Artifacts |-> 0]
    /\ calls = [c \in Calls |-> Idle]

-----------------------------------------------------------------------------
Compile ==
    /\ files' = [files EXCEPT !["wasm"] = 1]
    /\ UNCHANGED <<httpCache, promises, downloads, calls>>

(* setup.js, whose last step may fail: the contribution's randomness makes every final *)
(* zkey another one ... *)
Contribute ==
    /\ files["wasm"] = 1 /\ files["zkey"] < SetupLimit
    /\ files' = [files EXCEPT !["zkey"] = @ + 1]
    /\ UNCHANGED <<httpCache, promises, downloads, calls>>

(* ... from which the verification key is exported *)
ExportKey ==
    /\ files["zkey"] # files["vkey"] /\ files' = [files EXCEPT !["vkey"] = files["zkey"]]
    /\ UNCHANGED <<httpCache, promises, downloads, calls>>

circuitReady == \A a \in Artifacts : files[a] # 0

-----------------------------------------------------------------------------
(* A statement is proved, or a proof that another browser made with a zkey is checked *)
Begin(c, op, proof) ==
    /\ calls[c] = Idle /\ calls' = [calls EXCEPT ![c] = [pc |-> "import", op |-> op, proof |-> proof]]
    /\ UNCHANGED <<files, httpCache, promises, downloads>>

Needs(op) == IF op = "prove" THEN {"wasm", "zkey"} ELSE {"vkey"}

(* Mutant: a promise is cached when it has settled *)
Uncached_Settled(a) == promises[a] \in {Unasked, Unsettled}

Uncached(a) == promises[a] = Unasked

(* fetchArtifact and fetchVkey: the promise is cached at once, and stays if it fails *)
FetchArtifacts(c) ==
    /\ calls[c].pc = "import" /\ calls' = [calls EXCEPT ![c].pc = "fetch"]
    /\ LET fetched == {a \in Needs(calls[c].op) : Uncached(a)}
       IN /\ promises' = [a \in Artifacts |-> IF a \in fetched THEN Unsettled ELSE promises[a]]
          /\ downloads' = [a \in Artifacts |-> downloads[a] + (IF a \in fetched THEN 1 ELSE 0)]
    /\ UNCHANGED <<files, httpCache>>

(* sendArtifact: the file, to be kept for a day, or 404; or the network fails *)
Arrives(a) ==
    /\ promises[a] = Unsettled
    /\ \E number \in {0, IF httpCache[a] # 0 THEN httpCache[a] ELSE files[a]} :
          /\ promises' = [promises EXCEPT ![a] = Settled(number)]
          /\ httpCache' = IF number = 0 THEN httpCache ELSE [httpCache EXCEPT ![a] = number]
    /\ UNCHANGED <<files, downloads, calls>>

Expires(a) ==
    /\ httpCache[a] # 0 /\ httpCache' = [httpCache EXCEPT ![a] = 0]
    /\ UNCHANGED <<files, promises, downloads, calls>>

(* Promise.all throws with the first that fails; then the proof is made or checked *)
Compute(c) ==
    /\ calls[c].pc = "fetch"
    /\ LET call == calls[c]
       IN \/ /\ \E a \in Needs(call.op) : promises[a].is = "failed"
             /\ calls' = [calls EXCEPT ![c] = Thrown]
          \/ /\ \A a \in Needs(call.op) : promises[a].is = "ready"
             /\ calls' = [calls EXCEPT ![c] =
                   IF call.op = "prove"
                   THEN [pc |-> "submit", proof |-> promises["zkey"].setup]
                   ELSE [pc |-> "judged", by |-> "buyer",
                         valid |-> call.proof = promises["vkey"].setup]]
    /\ UNCHANGED <<files, httpCache, promises, downloads>>

(* The server refuses to check before all files are there, and reads the key each time *)
verifyWithCircuit(c) ==
    /\ calls[c].pc = "submit"
    /\ calls' = [calls EXCEPT ![c] =
          IF ~circuitReady THEN Thrown
          ELSE [pc |-> "judged", by |-> "server", valid |-> calls[c].proof = files["vkey"]]]
    /\ UNCHANGED <<files, httpCache, promises, downloads>>

(* The tab is loaded anew: the client's caches and calls are gone, the browser's stays *)
LoadTab ==
    /\ promises' = [a \in Artifacts |-> Unasked] /\ downloads' = [a \in Artifacts |-> 0]
    /\ calls' = [c \in Calls |-> IF calls[c] = Idle THEN Idle ELSE Thrown]
    /\ UNCHANGED <<files, httpCache>>

KeysNext ==
    \/ Compile \/ Contribute \/ ExportKey \/ LoadTab
    \/ \E c \in Calls :
          \/ Begin(c, "prove", 0)
          \/ \E proof \in 1..files["zkey"] : Begin(c, "check", proof)
          \/ FetchArtifacts(c) \/ Compute(c) \/ verifyWithCircuit(c)
    \/ \E a \in Artifacts : Arrives(a) \/ Expires(a)

KeysSpec == KeysInit /\ [][KeysNext]_keyVars

-----------------------------------------------------------------------------
(* zk.ts:83-113: however many calls want an artifact before it is there, a tab downloads *)
(* it once, and whoever asked earlier proves with the same keys; when the download fails *)
(* it is not tried again either, and every later proof is refused.                       *)
OneDownload == \A a \in Artifacts : downloads[a] <= 1
=============================================================================
