---------------------------- MODULE LandWorkflow ----------------------------
(***************************************************************************)
(* The life of a land record in apps/server: land.service.ts,              *)
(* transfer.service.ts, merkle.service.ts and blockchain.service.ts over   *)
(* the LandRegistry contract.  A request handler is split where the code   *)
(* awaits the database or the chain, since any other handler may run       *)
(* there.  Approvals and purchases hold the registry lock (RegistryLock),  *)
(* so one at most is under way, in `section`; the handlers that take no    *)
(* lock read a land and save it in two steps, in `job`.                    *)
(*                                                                         *)
(* Mongoose's save() writes the paths the handler changed and nothing      *)
(* else, and no save here checks what the document has become since.       *)
(* A chain is configured: the offline mode is not modelled.                *)
(***************************************************************************)
EXTENDS Integers, Sequences, FiniteSets, FiniteSetsExt

CONSTANTS
    Nil,           \* undefined, null, the zero leaf and Solidity's zero
    LandId,        \* also stands for its landHash and its landIdField
    User,          \* also stands for their wallet
    Secret,
    Commitment,    \* what the browsers derive: <<land id, secret>>
    Price,
    Salt,
    TREE_CAPACITY,
    Worker,        \* handlers that run without the registry lock
    MaxFaults,     \* crashes and failed or unconfirmed chain calls
    Groth16        \* the deployed verifiers

Leaf == 0..(TREE_CAPACITY - 1)
Tree == [Leaf -> Commitment \cup {Nil}]

ASSUME WorkflowAssumption ==
    /\ TREE_CAPACITY \in Nat \ {0} /\ MaxFaults \in Nat
    /\ Commitment \subseteq LandId \X Secret
    /\ Nil \notin Nat /\ Nil \notin Tree /\ Nil \notin LandId \cup User \cup Commitment \cup {Groth16}

LandStatus == {"PENDING_APPROVAL", "REGISTERED", "REJECTED", "LISTED_FOR_SALE"}

VARIABLES
    \* the database
    land,          \* LandId -> the Land document, or NoLand
    rootDoc,       \* root of the latest MerkleRoot document
    challenges,    \* VERIFIED challenges with their proofs, in the order of verifiedAt
    \* the server process
    section,       \* the handler that holds the registry lock
    job,           \* the handlers that do not
    \* the contract (LandRegistry)
    verifier, rootVerifier, latestRoot, knownRoots, lands, usedNullifiers, events,
    pending,       \* transactions nobody waits for any more, which may still be mined
    \* history
    faults,        \* faults so far
    stale,         \* a save was applied to a document that had left the status it was read in
    parted         \* a root update was begun and its root not seen anchored, or not recorded

Contract == INSTANCE LandRegistry WITH
    Field <- LandId, LandHash <- LandId, Buyer <- User, ForeignRoot <- {},
    Address <- {Groth16}, Sound <- {Groth16}

db == <<land, rootDoc, challenges>>
chain == <<verifier, rootVerifier, latestRoot, knownRoots, lands, usedNullifiers, events>>
history == <<faults, stale, parted>>
vars == <<db, section, job, chain, pending, history>>

NoLand == [status |-> "NONE", ownerId |-> Nil, landCommitment |-> Nil,
           leafIndex |-> Nil, merkleRoot |-> Nil, salePrice |-> Nil]

Idle == [pc |-> "idle"]
Free == [op |-> "none"]

-----------------------------------------------------------------------------
(* Lands that occupy a leaf in the registry tree *)
treeLandFilter == {l \in LandId : /\ land[l].status \in {"REGISTERED", "LISTED_FOR_SALE"}
                                  /\ land[l].leafIndex # Nil}

(* buildTree's leaf layer: of two lands on a leaf, the later in the query's order stays *)
RegistryTrees ==
    {t \in Tree : \A i \in Leaf :
        LET there == {l \in treeLandFilter : land[l].leafIndex = i} IN
        IF there = {} THEN t[i] = Nil ELSE \E l \in there : t[i] = land[l].landCommitment}

(* Mutant: the lands are counted instead of their indices *)
nextLeafIndex_Size == Cardinality(treeLandFilter)

nextLeafIndex ==
    IF treeLandFilter = {} THEN 0 ELSE 1 + Max({land[l].leafIndex : l \in treeLandFilter})

(* Mutant: the leaf's two values are swapped *)
TransitionOf_Swapped(s) ==
    [leafBefore |-> s.leafAfter, leafAfter |-> s.leafBefore, oldRoot |-> s.snapshot,
     newRoot |-> [s.snapshot EXCEPT ![s.leafIndex] = s.leafBefore]]

(* The transition proveRootTransition proves: the leaf at this index, before and after *)
TransitionOf(s) ==
    [leafBefore |-> s.leafBefore, leafAfter |-> s.leafAfter,
     oldRoot |-> [s.snapshot EXCEPT ![s.leafIndex] = s.leafBefore], newRoot |-> s.snapshot]

Init ==
    /\ land = [l \in LandId |-> NoLand] /\ rootDoc = Nil /\ challenges = <<>>
    /\ section = Idle /\ job = [w \in Worker |-> Free]
    /\ Contract!Init /\ pending = {}
    /\ faults = 0 /\ stale = FALSE /\ parted = FALSE

-----------------------------------------------------------------------------
(* requestLandRegistration: the unique indexes on landId and landCommitment make *)
(* the creation atomic, whatever the two findOne calls before it saw. *)
Request(l, u, c) ==
    /\ land[l].status = "NONE"
    /\ c[1] = l /\ \A m \in LandId : land[m].landCommitment # c
    /\ land' = [land EXCEPT ![l] = [NoLand EXCEPT !.status = "PENDING_APPROVAL",
                                                  !.ownerId = u, !.landCommitment = c]]
    /\ UNCHANGED <<rootDoc, challenges, section, job, chain, pending, history>>

(* An unlocked handler finds the land in the status it requires and holds the *)
(* document across an await. *)
Read(w, l, op, required, price) ==
    /\ job[w] = Free /\ land[l].status = required
    /\ job' = [job EXCEPT ![w] = [op |-> op, landId |-> l, required |-> required,
                                  price |-> price]]
    /\ UNCHANGED <<db, section, chain, pending, history>>

rejectLand_Read(w, l) == Read(w, l, "reject", "PENDING_APPROVAL", Nil)
listLandForSale_Read(w, l, price) == Read(w, l, "list", "REGISTERED", price)
cancelLandSale_Read(w, l) == Read(w, l, "cancel", "LISTED_FOR_SALE", Nil)

(* save() after that await *)
Save(w, op, fields) ==
    /\ job[w].op = op
    /\ land' = [land EXCEPT ![job[w].landId] = fields]
    /\ stale' = (stale \/ land[job[w].landId].status # job[w].required)
    /\ job' = [job EXCEPT ![w] = Free]
    /\ UNCHANGED <<rootDoc, challenges, section, chain, pending, faults, parted>>

Held(w) == land[job[w].landId]

rejectLand_Save(w) ==
    Save(w, "reject", [Held(w) EXCEPT !.status = "REJECTED"])
listLandForSale_Save(w) ==
    Save(w, "list", [Held(w) EXCEPT !.status = "LISTED_FOR_SALE", !.salePrice = job[w].price])
cancelLandSale_Save(w) ==
    Save(w, "cancel", [Held(w) EXCEPT !.status = "REGISTERED", !.salePrice = Nil])

(* A buyer's challenge ends VERIFIED: the land is listed, its owner answered the *)
(* buyer's nonce with the secret of the land's commitment at the land's root.  The *)
(* steps that lead there are ChallengeProtocol's. *)
verifyChallenge(l, b, salt) ==
    /\ land[l].status = "LISTED_FOR_SALE" /\ land[l].ownerId # b
    /\ land[l].merkleRoot # Nil
    /\ \E i \in Leaf : land[l].merkleRoot[i] = land[l].landCommitment
    /\ \A k \in DOMAIN challenges : challenges[k].nonceSalt # salt
    /\ challenges' = Append(challenges,
          [landId |-> l, buyerId |-> b, nonceSalt |-> salt, agreedPrice |-> land[l].salePrice,
           usedForTransferAt |-> FALSE,
           signals |-> [nullifier |-> <<land[l].landCommitment[2], l, <<b, salt>>>>,
                        landIdField |-> l, merkleRoot |-> land[l].merkleRoot,
                        challenge |-> <<b, salt>>]])
    /\ UNCHANGED <<land, rootDoc, section, job, chain, pending, history>>

-----------------------------------------------------------------------------
(* approveLand and buyListedLand, under the registry lock *)
At(pc) == section.pc = pc
Enter(s) == section' = s
Goto(pc) == section' = [section EXCEPT !.pc = pc]
Leave == section' = Idle

approveLand(l) ==
    /\ section = Idle /\ land[l].status = "PENDING_APPROVAL"
    /\ Enter([pc |-> "index", landId |-> l, landCommitment |-> land[l].landCommitment])
    /\ UNCHANGED <<db, job, chain, pending, history>>

(* Mutant: TREE_CAPACITY is not looked at *)
approveLand_Index_NoCapacity ==
    /\ At("index")
    /\ Enter([pc |-> "approve", landId |-> section.landId, leafIndex |-> nextLeafIndex,
              leafBefore |-> Nil, leafAfter |-> section.landCommitment])
    /\ UNCHANGED <<db, job, chain, pending, history>>

approveLand_Index ==
    /\ At("index")
    /\ IF nextLeafIndex >= TREE_CAPACITY THEN Leave
       ELSE Enter([pc |-> "approve", landId |-> section.landId, leafIndex |-> nextLeafIndex,
                   leafBefore |-> Nil, leafAfter |-> section.landCommitment])
    /\ UNCHANGED <<db, job, chain, pending, history>>

approveLand_Save ==
    /\ At("approve")
    /\ land' = [land EXCEPT ![section.landId].leafIndex = section.leafIndex,
                            ![section.landId].status = "REGISTERED"]
    /\ stale' = (stale \/ land[section.landId].status # "PENDING_APPROVAL")
    /\ Goto("rebuild")
    /\ UNCHANGED <<rootDoc, challenges, job, chain, pending, faults, parted>>

(* The purchase reads the land, the buyer's latest VERIFIED challenge, its proof and *)
(* the latest root, and checks them against each other. *)
LatestChallenge(l, b) ==
    LET mine == {k \in DOMAIN challenges : challenges[k].landId = l /\ challenges[k].buyerId = b}
    IN IF mine = {} THEN 0 ELSE Max(mine)

(* Mutant: a proof at an older root passes *)
BuyChecks_StaleRoot(l, b, k) ==
    /\ land[l].status = "LISTED_FOR_SALE" /\ land[l].ownerId # b
    /\ k = LatestChallenge(l, b) /\ ~challenges[k].usedForTransferAt
    /\ challenges[k].agreedPrice = land[l].salePrice

BuyChecks(l, b, k) ==
    /\ land[l].status = "LISTED_FOR_SALE" /\ land[l].ownerId # b
    /\ k = LatestChallenge(l, b) /\ ~challenges[k].usedForTransferAt
    /\ challenges[k].signals.merkleRoot = rootDoc
    /\ challenges[k].agreedPrice = land[l].salePrice

buyListedLand(l, b, c) ==
    /\ section = Idle
    /\ c[1] = l /\ \A m \in LandId : land[m].landCommitment # c
    /\ \E k \in DOMAIN challenges :
          /\ BuyChecks(l, b, k)
          /\ Enter([pc |-> "transfer", landId |-> l, leafIndex |-> land[l].leafIndex,
                    leafBefore |-> land[l].landCommitment, leafAfter |-> Nil,
                    newOwner |-> b, newLandCommitment |-> c, challenge |-> k])
    /\ UNCHANGED <<db, job, chain, pending, history>>

Faulty == faults < MaxFaults /\ faults' = faults + 1

(* The transaction a handler s sends: transferLandOnChain, registerLandOnChain, *)
(* updateRootOnChain *)
Call(s) ==
    \/ /\ s.pc = "transfer"
       /\ LET ch == challenges[s.challenge]
          IN Contract!verifyAndTransfer(s.landId, ch.buyerId, ch.nonceSalt, ch.signals)
    \/ s.pc = "register" /\ Contract!registerLand(s.landId, s.landId)
    \/ s.pc = "anchor" /\ Contract!updateMerkleRoot(s.snapshot, TransitionOf(s))

(* The transaction was sent and its receipt does not come: tx.wait() rejects, or the *)
(* process dies in it.  An existing record is never registered again. *)
Unconfirmed ==
    /\ section.pc \in {"transfer", "register", "anchor"}
    /\ section.pc = "register" => ~lands[section.landId].exists
    /\ pending' = pending \cup {[sent |-> faults, call |-> section]}

(* A chain call throws, sent or not *)
CallFails == Faulty /\ (Unconfirmed \/ UNCHANGED pending) /\ UNCHANGED chain

(* Mutant: a refused or failed transfer is only logged, as for roots *)
buyListedLand_Transfer_Logs ==
    /\ At("transfer")
    /\ LET ch == challenges[section.challenge]
       IN \/ Call(section)
          \/ ~Contract!Authorizes(section.landId, ch.buyerId, ch.nonceSalt, ch.signals)
             /\ UNCHANGED chain
    /\ Goto("consume")
    /\ UNCHANGED <<db, job, pending, history>>

(* transferLandOnChain: a revert, an RPC failure and a receipt that never came all *)
(* abort the purchase. *)
buyListedLand_Transfer ==
    /\ At("transfer")
    /\ LET ch == challenges[section.challenge]
           accepted == Contract!Authorizes(section.landId, ch.buyerId, ch.nonceSalt, ch.signals)
       IN \/ Call(section) /\ Goto("consume") /\ UNCHANGED <<pending, faults>>
          \/ ~accepted /\ Leave /\ UNCHANGED <<chain, pending, faults>>
          \/ CallFails /\ Leave
    /\ UNCHANGED <<db, job, stale, parted>>

buyListedLand_Consume ==
    /\ At("consume")
    /\ challenges' = [challenges EXCEPT ![section.challenge].usedForTransferAt = TRUE]
    /\ Goto("recommit")
    /\ UNCHANGED <<land, rootDoc, job, chain, pending, history>>

(* Mutant: leafIndex and the path are left in the document *)
buyListedLand_Recommit_KeepsLeaf ==
    /\ At("recommit")
    /\ land' = [land EXCEPT ![section.landId] =
                  [@ EXCEPT !.status = "PENDING_APPROVAL", !.ownerId = section.newOwner,
                            !.landCommitment = section.newLandCommitment, !.salePrice = Nil]]
    /\ Goto("rebuild")
    /\ UNCHANGED <<rootDoc, challenges, job, chain, pending, history>>

(* land.save(): the unique index on landCommitment refuses a commitment that a *)
(* request took meanwhile, and the purchase ends there. *)
buyListedLand_Recommit ==
    /\ At("recommit")
    /\ IF \E m \in LandId : land[m].landCommitment = section.newLandCommitment
       THEN Leave /\ UNCHANGED <<land, stale>>
       ELSE /\ land' = [land EXCEPT ![section.landId] =
                  [NoLand EXCEPT !.status = "PENDING_APPROVAL", !.ownerId = section.newOwner,
                                 !.landCommitment = section.newLandCommitment]]
            /\ stale' = (stale \/ land[section.landId].status # "LISTED_FOR_SALE")
            /\ Goto("rebuild")
    /\ UNCHANGED <<rootDoc, challenges, job, chain, pending, faults, parted>>

(* Mutant: only the land that changed gets its new path *)
rebuildRegistryTree_OneLand ==
    /\ At("rebuild")
    /\ \E t \in RegistryTrees :
          Enter([pc |-> "paths", landId |-> section.landId, leafIndex |-> section.leafIndex,
                 leafBefore |-> section.leafBefore, leafAfter |-> section.leafAfter,
                 snapshot |-> t, todo |-> treeLandFilter \cap {section.landId}])
    /\ UNCHANGED <<db, job, chain, pending, history>>

(* rebuildRegistryTree: one query, then an update of every land it returned *)
rebuildRegistryTree ==
    /\ At("rebuild")
    /\ \E t \in RegistryTrees :
          Enter([pc |-> "paths", landId |-> section.landId, leafIndex |-> section.leafIndex,
                 leafBefore |-> section.leafBefore, leafAfter |-> section.leafAfter,
                 snapshot |-> t, todo |-> treeLandFilter])
    /\ UNCHANGED <<db, job, chain, pending, history>>

rebuildRegistryTree_Update(l) ==
    /\ At("paths") /\ l \in section.todo
    /\ land' = [land EXCEPT ![l].merkleRoot = section.snapshot]
    /\ section' = [section EXCEPT !.todo = @ \ {l}]
    /\ UNCHANGED <<rootDoc, challenges, job, chain, pending, history>>

(* Mutant: the lock is not released when the proof throws *)
proveRootTransition_KeepsLock ==
    /\ At("paths") /\ section.todo = {}
    /\ section.leafIndex \in Leaf /\ section.snapshot[section.leafIndex] = section.leafAfter
    /\ Goto(IF section.leafAfter = Nil THEN "anchor" ELSE "register")
    /\ UNCHANGED <<db, job, chain, pending, history>>

(* proveRootTransition: throws when the rebuilt tree is not the one leaf's update *)
proveRootTransition ==
    /\ At("paths") /\ section.todo = {}
    /\ IF section.leafIndex \in Leaf /\ section.snapshot[section.leafIndex] = section.leafAfter
       THEN Goto(IF section.leafAfter = Nil THEN "anchor" ELSE "register")
       ELSE Leave
    /\ UNCHANGED <<db, job, chain, pending, history>>

(* registerLandOnChain: a record that exists is left alone, and a failed call is *)
(* only logged. *)
registerLandOnChain ==
    /\ At("register")
    /\ \/ lands[section.landId].exists /\ UNCHANGED <<chain, pending, faults>>
       \/ Call(section) /\ UNCHANGED <<pending, faults>>
       \/ CallFails
    /\ Goto("anchor")
    /\ UNCHANGED <<db, job, stale, parted>>

(* updateRootOnChain: a revert, an RPC failure and a lost receipt are only logged *)
updateRootOnChain ==
    /\ At("anchor")
    /\ \/ Call(section) /\ UNCHANGED <<pending, faults, parted>>
       \/ /\ ~Contract!ValidTransition(section.snapshot, TransitionOf(section))
          /\ UNCHANGED <<chain, pending, faults, parted>>
       \/ CallFails /\ parted' = TRUE
    /\ Goto("record")
    /\ UNCHANGED <<db, job, stale>>

(* MerkleRootModel.create; what follows only writes transaction rows and closes the *)
(* challenges that were not verified *)
recordRoot ==
    /\ At("record")
    /\ rootDoc' = section.snapshot
    /\ Leave
    /\ UNCHANGED <<land, challenges, job, chain, pending, history>>

(* The server process dies and is started again. *)
Crash ==
    /\ Faulty
    /\ section' = Idle /\ job' = [w \in Worker |-> Free]
    /\ Unconfirmed \/ UNCHANGED pending
    /\ parted' = (parted \/ section.pc \in {"rebuild", "paths", "register", "anchor", "record"})
    /\ UNCHANGED <<db, chain, stale>>

(* A transaction nobody waits for is mined: in any order, whatever was sent since, *)
(* or never. *)
Mine(tx) ==
    /\ tx \in pending /\ Call(tx.call)
    /\ pending' = pending \ {tx}
    /\ UNCHANGED <<db, section, job, history>>

SectionStep ==
    \/ approveLand_Index \/ approveLand_Save
    \/ buyListedLand_Transfer \/ buyListedLand_Consume \/ buyListedLand_Recommit
    \/ rebuildRegistryTree \/ (\E l \in LandId : rebuildRegistryTree_Update(l))
    \/ proveRootTransition \/ registerLandOnChain \/ updateRootOnChain \/ recordRoot

Next ==
    \/ \E l \in LandId, u \in User, c \in Commitment : Request(l, u, c) \/ buyListedLand(l, u, c)
    \/ \E w \in Worker, l \in LandId : rejectLand_Read(w, l) \/ cancelLandSale_Read(w, l)
    \/ \E w \in Worker, l \in LandId, p \in Price : listLandForSale_Read(w, l, p)
    \/ \E w \in Worker : rejectLand_Save(w) \/ listLandForSale_Save(w) \/ cancelLandSale_Save(w)
    \/ \E l \in LandId, b \in User, salt \in Salt : verifyChallenge(l, b, salt)
    \/ \E l \in LandId : approveLand(l)
    \/ SectionStep
    \/ Crash
    \/ \E tx \in pending : Mine(tx)

(* The handler that holds the lock goes on: its database and chain calls return. *)
Fairness == WF_vars(SectionStep)

Spec == Init /\ [][Next]_vars /\ Fairness

-----------------------------------------------------------------------------
TypeOK ==
    /\ land \in [LandId -> [status : LandStatus \cup {"NONE"}, ownerId : User \cup {Nil},
                            landCommitment : Commitment \cup {Nil}, leafIndex : Leaf \cup {Nil},
                            merkleRoot : Tree \cup {Nil}, salePrice : Price \cup {Nil}]]
    /\ rootDoc \in Tree \cup {Nil}
    /\ faults \in 0..MaxFaults /\ stale \in BOOLEAN /\ parted \in BOOLEAN
    /\ \A tx \in pending : tx.sent \in 0..(MaxFaults - 1) /\ tx.call.pc \in {"transfer", "register", "anchor"}
    /\ Contract!TypeOK

(* At rest the land documents, the latest MerkleRoot document and the contract *)
(* commit to one tree.  Only a root update that failed or was cut off, or a save *)
(* over a document that moved on, can part them: every interleaving of requests, *)
(* rejections, listings, cancellations, approvals and purchases keeps them *)
(* together although none of them is a transaction, and so does a transfer or a *)
(* registration that failed, was abandoned or is mined late. *)
LedgerAgreement ==
    section = Idle /\ ~parted /\ ~stale =>
        \A t \in RegistryTrees : t = Contract!CurrentRoot /\ (rootDoc = latestRoot)

(* Under the same conditions every approved owner can prove membership: the root *)
(* stored in each active land is the current one and opens to its commitment at *)
(* its leaf. *)
PathsCurrent ==
    section = Idle /\ ~parted /\ ~stale =>
        \A l \in treeLandFilter : /\ land[l].merkleRoot = rootDoc
                                  /\ rootDoc[land[l].leafIndex] = land[l].landCommitment

(* blockchain.service.ts:110-114: a sale the contract refuses is aborted.  Between the *)
(* server's reads of land, challenge and root and the contract's judgement every sale  *)
(* keeps its authority: unless a root update failed or a save was applied to a changed *)
(* document, only a land that a failed call left without a record and an answer that   *)
(* was spent by a purchase that failed or died later are refused.                      *)
PurchaseNotRefused ==
    At("transfer") /\ ~parted /\ ~stale =>
        LET ch == challenges[section.challenge]
        IN \/ Contract!Authorizes(section.landId, ch.buyerId, ch.nonceSalt, ch.signals)
           \/ faults > 0 /\ (~lands[section.landId].exists \/ ch.signals.nullifier \in usedNullifiers)

(* lock.util.ts:4-8, with crashes and chain faults but no save over a changed *)
(* document: no two active lands are assigned the same leaf. *)
LeavesDistinct ==
    ~stale => \A l, m \in treeLandFilter : land[l].leafIndex = land[m].leafIndex => l = m

(* transfer.service.ts:22-27, under the same condition: a land has a leaf exactly *)
(* while the authority's approval of its present owner stands. *)
ReapprovalGate ==
    ~stale => \A l \in LandId :
        land[l].leafIndex # Nil <=> land[l].status \in {"REGISTERED", "LISTED_FOR_SALE"}

(* A transfer mined while its purchase waits is mined when server and contract agree *)
(* on the current root, whatever faults parted them before: the check of the latest *)
(* root and the contract's own, awaits later, cannot be passed by a stale proof.  One *)
(* mined after its purchase gave up finds them in agreement too, but for the moment *)
(* between the next root's anchoring and its record, and unless a root update failed *)
(* or a save was applied to a changed document. *)
TransferOnAgreedRoot ==
    [][usedNullifiers' # usedNullifiers =>
          \/ rootDoc = latestRoot
          \/ pending' # pending /\ (At("record") \/ parted \/ stale)]_vars

(* A recorded land changes hands only to a buyer whose challenge was answered in a   *)
(* proof the contract has consumed and the server has marked used, with the secret *)
(* of a commitment to that land in the registry the server recorded last; and while *)
(* no failed root update and no save over a changed document parted that registry *)
(* from the land documents, that commitment is the very one the buyer's replaces. *)
OwnershipFollowsProof ==
    [][\A l \in LandId : land[l].status # "NONE" /\ land'[l].ownerId # land[l].ownerId =>
          \E k \in DOMAIN challenges :
              LET answered == <<l, challenges[k].signals.nullifier[1]>> IN
              /\ challenges[k].landId = l /\ challenges[k].buyerId = land'[l].ownerId
              /\ challenges[k].usedForTransferAt
              /\ challenges[k].signals.nullifier \in usedNullifiers
              /\ \E i \in Leaf : rootDoc[i] = answered
              /\ ~parted /\ ~stale => answered = land[l].landCommitment]_vars

(* The registry lock is always released: every approval and every purchase ends, *)
(* whatever the chain answers and whatever was saved beside it. *)
SectionEnds == section # Idle ~> section = Idle

(* What the documentation says, without the conditions above. *)

(* README.md: the API anchors every root update.  At rest, the root the server *)
(* records last is one the contract knows. *)
EveryRootAnchored == section = Idle /\ rootDoc # Nil => rootDoc \in knownRoots

(* lock.util.ts:4-8: serializing the critical sections removes the race by which *)
(* two lands are given one leaf. *)
NoSharedLeaf == \A l, m \in treeLandFilter : land[l].leafIndex = land[m].leafIndex => l = m

(* transfer.service.ts:22-27: a sold land is registered or listed again only *)
(* after the authority re-registered it. *)
ApprovedBeforeResale ==
    \A l \in LandId : land[l].status \in {"REGISTERED", "LISTED_FOR_SALE"} => land[l].leafIndex # Nil

(* transfer.service.ts:24-25, 154: "The previous owner immediately loses the ability *)
(* to prove ownership."  Whoever is sold a land is sold it on an answer with the *)
(* secret of the commitment it has, its present owner's. *)
SoldByPresentOwner ==
    [][\A l \in LandId : land[l].status # "NONE" /\ land'[l].ownerId # land[l].ownerId =>
          \E k \in DOMAIN challenges :
              /\ challenges[k].buyerId = land'[l].ownerId
              /\ <<l, challenges[k].signals.nullifier[1]>> = land[l].landCommitment]_vars
=============================================================================
