---------------------------- MODULE LedgerExplorer ----------------------------
(***************************************************************************)
(* The block explorer: the ledger rows and root documents that approvals   *)
(* and purchases append (land.service.ts, transfer.service.ts,             *)
(* blockchain.service.ts), explorer.service.ts that pages through them     *)
(* with four separate reads, and the page that asks for older ones.        *)
(*                                                                         *)
(* A root is the set of commitments in the tree.  Rows may share their     *)
(* millisecond with one another and with a root; two roots, each of which  *)
(* is proved first, do not.                                                *)
(***************************************************************************)
EXTENDS Integers, Sequences, FiniteSets, FiniteSetsExt

CONSTANTS
    None,        \* null and undefined
    Lands,
    RowLimit,    \* bound: rows of the ledger
    RootLimit,   \* bound: roots recorded
    LoadLimit,   \* bound: loads of the page, after which the ledger is not followed
    FaultLimit,  \* bound: chain calls and handlers that fail
    QueryLimits, \* values of the query parameter; None when it is absent
    DefaultLimit, MaxLimit   \* 10 and 25 in the code

ASSUME ExplorerAssumption ==
    /\ {RowLimit, RootLimit, LoadLimit, FaultLimit} \subseteq Nat
    /\ MaxLimit \in Nat \ {0} /\ DefaultLimit \in 1..MaxLimit
    /\ None \notin Int /\ QueryLimits \subseteq Int \cup {None}

VARIABLES
    online,    \* a chain is configured
    now,       \* the clock of createdAt
    rows,      \* the Transaction documents
    stamped,   \* rows with a creation time that are not inserted yet
    rootDocs,  \* the MerkleRoot documents in the order of createdAt
    tree,      \* the commitments in the tree: land and number of sales before
    sales,     \* Lands -> purchases so far
    recorded,  \* lands the contract has a record of
    section,   \* the approval or purchase that holds the registry lock
    failed,    \* chain calls and handlers that failed
    request,   \* the request of the page that is being answered
    page       \* the blocks the page shows and its cursor; its field opened is history

ledgerVars == <<online, now, rows, stamped, rootDocs, tree, sales, recorded, section, failed>>
explorerVars == <<ledgerVars, request, page>>

NoSection == [pc |-> "free"]
NoRequest == [pc |-> "none"]
NoPage == [nextCursor |-> None, shown |-> {}, opened |-> {}, late |-> 0, loads |-> 0]

ExplorerInit ==
    /\ online \in BOOLEAN
    /\ now = 0 /\ rows = {} /\ stamped = {} /\ rootDocs = <<>>
    /\ tree = {} /\ sales = [l \in Lands |-> 0] /\ recorded = {}
    /\ section = NoSection /\ failed = 0 /\ request = NoRequest /\ page = NoPage

-----------------------------------------------------------------------------
(* A fallback hash is of the seed and the time, a mined one of the transaction: each *)
(* is fresh.  Only a mined one has a receipt, with the event of its call. *)
TxHash(event, mined) == [event |-> event, number |-> Len(rootDocs), mined |-> mined]

NextId == Cardinality(rows \cup stamped)

(* TransactionModel.create stamps a row, then sends it.  own is the last root then *)
(* recorded, which under the lock is the handler's own. *)
StampRow(t, type, hash) ==
    /\ NextId < RowLimit
    /\ now' = t
    /\ stamped' = stamped \cup {[id |-> NextId, createdAt |-> t, transactionType |-> type,
                                 blockchainTxHash |-> hash, own |-> Len(rootDocs)]}

(* Requests, rejections, listings, challenges and proofs log a row of their own *)
LogOther ==
    /\ \E t \in {now, now + 1} :
          StampRow(t, "OTHER", [event |-> "none", number |-> 0, mined |-> FALSE])
    /\ UNCHANGED <<online, rows, rootDocs, tree, sales, recorded, section, failed>>

InsertRow(r) ==
    /\ stamped' = stamped \ {r} /\ rows' = rows \cup {r}
    /\ page' = IF request.pc = "find" THEN [page EXCEPT !.late = @ + 1] ELSE page
    /\ UNCHANGED <<online, now, rootDocs, tree, sales, recorded, section, failed, request>>

Fails(failure) == failed' = (IF failure THEN failed + 1 ELSE failed) /\ failed' <= FaultLimit

Held(l) == {c \in tree : c[1] = l}

(* approveLand puts the land into the tree under the lock *)
ApproveBegins(l) ==
    /\ section = NoSection /\ Held(l) = {}
    /\ tree' = tree \cup {<<l, sales[l]>>}
    /\ section' = [pc |-> "register", landId |-> l]
    /\ UNCHANGED <<online, now, rows, stamped, rootDocs, sales, recorded, failed>>

(* registerLandOnChain: null when the record exists, a fallback when the chain fails *)
RegisterRecord(mined) ==
    /\ section.pc = "register" /\ (mined => online) /\ Fails(online /\ ~mined)
    /\ LET l == section.landId
       IN /\ section' = [pc |-> "anchor", type |-> "LAND_APPROVED",
                         hash |-> IF mined /\ l \in recorded THEN None
                                  ELSE TxHash("LandRegistered", mined)]
          /\ recorded' = IF mined THEN recorded \cup {l} ELSE recorded
    /\ UNCHANGED <<online, now, rows, stamped, rootDocs, tree, sales>>

(* buyListedLand: the transfer, mined unless the purchase fails or there is no chain, *)
(* then the tree without the land *)
BuyBegins(l) ==
    /\ section = NoSection /\ Held(l) # {}
    /\ tree' = tree \ Held(l) /\ sales' = [sales EXCEPT ![l] = @ + 1]
    /\ section' = [pc |-> "anchor", type |-> "BUY", hash |-> TxHash("LandTransferred", online)]
    /\ UNCHANGED <<online, now, rows, stamped, rootDocs, recorded, failed>>

(* updateRootOnChain, which falls back when the chain fails, and the root document *)
RecordRootDoc(mined) ==
    /\ section.pc = "anchor" /\ (mined => online) /\ Fails(online /\ ~mined) /\ Len(rootDocs) < RootLimit
    /\ LET rootTxHash == TxHash("MerkleRootUpdated", mined)
       IN /\ now' = now + 1
          /\ rootDocs' = Append(rootDocs, [root |-> tree, createdAt |-> now',
                                           transactionHash |-> rootTxHash])
          /\ section' = [pc |-> "log", type |-> section.type,
                         hash |-> IF section.hash = None THEN rootTxHash ELSE section.hash]
    /\ UNCHANGED <<online, rows, stamped, tree, sales, recorded>>

(* The section's row.  The request a purchase logs after it is one of the others. *)
LogSection ==
    /\ section.pc = "log"
    /\ \E t \in {now, now + 1} : StampRow(t, section.type, section.hash)
    /\ section' = [pc |-> "insert", id |-> NextId]
    /\ UNCHANGED <<online, rows, rootDocs, tree, sales, recorded, failed>>

(* The lock is released when the row is in, or when the handler throws before it *)
SectionOver ==
    /\ section.pc \in {"log", "insert"} /\ Fails(section.pc = "log")
    /\ section.pc = "insert" => \A r \in stamped : r.id # section.id
    /\ section' = NoSection
    /\ UNCHANGED <<online, now, rows, stamped, rootDocs, tree, sales, recorded>>

LedgerAction ==
    \/ /\ \/ \E l \in Lands : ApproveBegins(l) \/ BuyBegins(l)
          \/ LogSection \/ LogOther
          \/ \E m \in BOOLEAN : RegisterRecord(m) \/ RecordRootDoc(m)
          \/ SectionOver
       /\ UNCHANGED <<request, page>>
    \/ \E r \in stamped : InsertRow(r)

LedgerStep ==
    /\ request.pc # "none" \/ page.loads < LoadLimit
    /\ LedgerAction

-----------------------------------------------------------------------------
(* rootHistory: the predecessor of a root is kept by root, a later one overwrites *)
prevByRoot(roots, root) ==
    LET at == {i \in 2..Len(roots) : roots[i].root = root}
    IN IF at = {} THEN None ELSE roots[Max(at) - 1].root

byTxHash(roots, hash) == {i \in 1..Len(roots) : roots[i].transactionHash = hash}

RootChange(roots, root) == [before |-> prevByRoot(roots, root), after |-> root]

(* The first root that is not older than the row *)
RootAfter(roots, row) ==
    LET since == {i \in 1..Len(roots) : roots[i].createdAt >= row.createdAt}
    IN IF since = {} THEN {} ELSE {Min(since)}

(* Mutant: every row is given the root recorded after it *)
ledgerStateChanges_EveryType(row, roots) ==
    LET own == byTxHash(roots, row.blockchainTxHash)
        docs == (IF own = {} THEN {} ELSE {Max(own)}) \cup RootAfter(roots, row)
    IN {RootChange(roots, roots[i].root) : i \in docs}

(* The root changes a row is shown with when it has no receipt ... *)
ledgerStateChanges(row, roots) ==
    LET own == byTxHash(roots, row.blockchainTxHash)
        docs == (IF own = {} THEN {} ELSE {Max(own)})
                \cup (IF row.transactionType = "BUY" THEN RootAfter(roots, row) ELSE {})
    IN {RootChange(roots, roots[i].root) : i \in docs}

localBlock(row, roots) == [row |-> row, rootChanges |-> ledgerStateChanges(row, roots)]

(* ... and when its receipt is there: a MerkleRootUpdated event carries its root, the *)
(* two other events are a change without a root. *)
changesFromEvents(row, roots) ==
    IF row.blockchainTxHash.event = "MerkleRootUpdated"
    THEN {RootChange(roots, rootDocs[row.blockchainTxHash.number + 1].root)} ELSE {}

resolveLedgerEntry(row, roots, receipt) ==
    IF ~receipt THEN localBlock(row, roots)
    ELSE [row |-> row, rootChanges |-> changesFromEvents(row, roots)]

(* The rows that sort({ createdAt: -1 }).limit(n) may return: rows of one millisecond *)
(* come in any order, and not in the same one in every query. *)
FirstRows(n) ==
    {S \in SUBSET rows : /\ Cardinality(S) = Min({n, Cardinality(rows)})
                         /\ \A r \in S, q \in rows \ S : q.createdAt <= r.createdAt}

(* The same with skip(skip) *)
PagesOf(skip, limit) ==
    {docs \in SUBSET rows : \E passed \in FirstRows(skip), upTo \in FirstRows(skip + limit) :
                               passed \subseteq upTo /\ docs = upTo \ passed}

ClampedLimit(limit) == LET l == IF limit = None THEN DefaultLimit ELSE limit
                       IN Min({Max({l, 1}), MaxLimit})

Counted(limit, skip, chain) ==
    [pc |-> "find", limit |-> limit, skip |-> skip, chain |-> chain, total |-> Cardinality(rows),
     docs |-> {}]

(* The page is opened and loads, or its button is pressed, which is there only when *)
(* the last answer had a next cursor, and disabled while a request is under way. *)
(* The first read counts the rows. *)
LoadBlocks(limit) ==
    /\ request.pc = "none" /\ page.loads < LoadLimit
    /\ page.loads > 0 => page.nextCursor # None
    /\ page' = [page EXCEPT !.loads = @ + 1, !.late = 0]
    /\ request' = Counted(ClampedLimit(limit),
                          IF page.nextCursor = None THEN 0 ELSE page.nextCursor, online)

FindRows ==
    /\ request.pc = "find"
    /\ \E docs \in PagesOf(request.skip, request.limit) :
          request' = [request EXCEPT !.pc = "roots", !.docs = docs]
    /\ page' = IF request.skip = 0 THEN [page EXCEPT !.opened = rows] ELSE page

(* Any failure before the receipts answers from the ledger, which is counted anew *)
ChainFails ==
    /\ request.pc # "none" /\ request.chain
    /\ request' = Counted(request.limit, request.skip, FALSE)
    /\ page' = [page EXCEPT !.late = 0]

(* Mutant: the next page starts one row too late *)
NextCursor_SkipsOne(skip, docs, total) ==
    IF skip + Cardinality(docs) < total THEN skip + Cardinality(docs) + 1 ELSE None

(* Mutant: the last page is not offered *)
NextCursor_StopsEarly(skip, docs, total) ==
    IF skip + Cardinality(docs) < total - 1 THEN skip + Cardinality(docs) ELSE None

NextCursor(skip, docs, total) == IF skip + Cardinality(docs) < total THEN skip + Cardinality(docs) ELSE None

(* The roots and receipts are read, found being the rows whose receipt was fetched, *)
(* and the answer is added to what the page shows. *)
AppendBlocks(found) ==
    /\ request.pc = "roots"
    /\ found \subseteq {r \in request.docs : request.chain /\ r.blockchainTxHash.mined}
    /\ LET blocks == {resolveLedgerEntry(row, rootDocs, row \in found) : row \in request.docs}
       IN page' = [page EXCEPT !.shown = @ \cup blocks,
                               !.nextCursor = NextCursor(request.skip, request.docs, request.total)]
    /\ request' = NoRequest

(* An error is shown; what was loaded stays, and a page with nothing is reloaded *)
LoadFails ==
    /\ request.pc # "none"
    /\ request' = NoRequest
    /\ page' = IF page.shown = {} THEN NoPage ELSE page

ReaderStep ==
    /\ \/ \E limit \in QueryLimits : LoadBlocks(limit)
       \/ FindRows \/ ChainFails \/ LoadFails
       \/ \E found \in SUBSET rows : AppendBlocks(found)
    /\ UNCHANGED ledgerVars

ExplorerNext == LedgerStep \/ ReaderStep

ExplorerSpec == ExplorerInit /\ [][ExplorerNext]_explorerVars

-----------------------------------------------------------------------------
ShownRows == {block.row : block \in page.shown}

(* Rows the page was opened on of whose millisecond nothing is shown *)
Unseen(shown) == {r \in page.opened : \A q \in shown : q.createdAt # r.createdAt}

(* explorer.service.ts:298-301: although each page is counted and read by its own    *)
(* queries while rows are appended, stamped rows arriving late among them, and rows  *)
(* of one millisecond change places from query to query, no row that was there when  *)
(* the explorer was opened is passed over, unless one of its own millisecond is      *)
(* shown: it is older than every row shown.                                          *)
NoEntryMissed ==
    \A r \in Unseen(ShownRows), s \in ShownRows : r.createdAt < s.createdAt

(* explorer.service.ts:317: when the page offers no older blocks, the rows that were *)
(* there when it was opened and of whose millisecond nothing is shown are no more    *)
(* than the rows inserted between the count and the find of its last load.           *)
TailReached ==
    page.shown # {} /\ page.nextCursor = None
        => Cardinality(Unseen(ShownRows)) <= page.late

(* A root change is shown for an approval only if it is the approval's own, and is   *)
(* always shown when the row's hash is the root's; a purchase never shows a root     *)
(* older than its own.  The root before preceded the root after at some time, though *)
(* not at this one when a sale brought the root back (explorer.service.ts:87, 173).  *)
RootChangesTrue ==
    \A block \in page.shown :
        LET row == block.row
            changes == block.rootChanges
        IN /\ row.blockchainTxHash.event = "MerkleRootUpdated" => changes # {}
           /\ row.transactionType = "OTHER" => changes = {}
           /\ \A c \in changes :
                 /\ \E k \in row.own..Len(rootDocs) :
                       /\ c.after = rootDocs[k].root
                       /\ row.transactionType = "LAND_APPROVED" => k = row.own
                 /\ \E k \in 1..Len(rootDocs) :
                       /\ c.after = rootDocs[k].root
                       /\ c.before = IF k = 1 THEN None ELSE rootDocs[k - 1].root
=============================================================================
