------------------------- MODULE LedgerExplorer_proofs -------------------------
(***************************************************************************)
(* What the explorer shows, for any number of lands, rows, roots, loads    *)
(* and failures.                                                           *)
(***************************************************************************)
EXTENDS LedgerExplorer, Facts_proofs

Stamped == rows \cup stamped

(* Time goes on from root to root, and a hash tells which root it was sent with *)
RootDoc == [root : SUBSET (Lands \X Nat), createdAt : Nat,
            transactionHash : [event : {"MerkleRootUpdated"}, number : Nat, mined : BOOLEAN]]

RootDocsInv ==
    /\ now \in Nat /\ rootDocs \in Seq(RootDoc)
    /\ \A i \in 1..Len(rootDocs) :
          /\ rootDocs[i].transactionHash.number = i - 1
          /\ rootDocs[i].createdAt <= now
          /\ \A j \in 1..(i - 1) : rootDocs[j].createdAt < rootDocs[i].createdAt

(* A row has the hash of its own root, or one of no root *)
HashOK(hash, own) ==
    \/ hash.event \in {"LandRegistered", "LandTransferred"}
    \/ own \in 1..Len(rootDocs) /\ hash = rootDocs[own].transactionHash

RowOK(row) ==
    /\ row.createdAt \in Nat /\ row.own \in 0..Len(rootDocs)
    /\ \/ row.transactionType = "OTHER" /\ row.blockchainTxHash.event = "none"
       \/ /\ row.transactionType \in {"LAND_APPROVED", "BUY"}
          /\ row.own >= 1 /\ HashOK(row.blockchainTxHash, row.own)
          /\ \A j \in 1..(row.own - 1) : rootDocs[j].createdAt < row.createdAt

RowsInv ==
    /\ IsFiniteSet(Stamped) /\ rows \cap stamped = {}
    /\ \A r \in Stamped : r.id \in Nat /\ r.id < NextId
    /\ \A r \in Stamped : RowOK(r)

SectionInv ==
    /\ section.pc \in {"free", "register", "anchor", "log", "insert"}
    /\ section.pc \in {"anchor", "log"} => section.type \in {"LAND_APPROVED", "BUY"}
    /\ section.pc = "anchor" =>
          section.hash = None \/ section.hash.event \in {"LandRegistered", "LandTransferred"}
    /\ section.pc = "log" => Len(rootDocs) >= 1 /\ HashOK(section.hash, Len(rootDocs))

LedgerInv ==
    /\ RootDocsInv /\ RowsInv /\ SectionInv
    /\ tree \subseteq Lands \X Nat /\ sales \in [Lands -> Nat]

-----------------------------------------------------------------------------
Skip == IF page.nextCursor = None THEN 0 ELSE page.nextCursor

RequestInv ==
    /\ request.pc \in {"none", "find", "roots"}
    /\ request.pc # "none" =>
          /\ DOMAIN request = {"pc", "limit", "skip", "chain", "total", "docs"}
          /\ request.limit \in Nat /\ request.total \in Nat /\ request.skip = Skip
          /\ request.docs \subseteq rows /\ page.loads >= 1
    /\ request.pc = "find" => Cardinality(rows) = request.total + page.late

PageInv ==
    /\ DOMAIN page = {"nextCursor", "shown", "opened", "late", "loads"}
    /\ page.nextCursor \in Nat \cup {None} /\ page.late \in Nat /\ page.loads \in Nat
    /\ page.opened \subseteq rows /\ ShownRows \subseteq rows
    /\ page.nextCursor = 0 => page.shown = {}
    /\ page.nextCursor = None /\ (request.pc # "none" \/ page.loads = 0) => page.shown = {}

(* A row's place is the number of newer ones: what the cursor passed over is shown, or *)
(* a row of its millisecond is *)
Newer(S, row) == {r \in S : r.createdAt > row.createdAt}

Followed(shown, cursor) ==
    \A r \in Unseen(shown) :
        /\ Cardinality(Newer(rows, r)) >= cursor
        /\ \A s \in shown : r.createdAt < s.createdAt

CursorInv ==
    /\ page.nextCursor # None => Followed(ShownRows, page.nextCursor)
    /\ request.pc = "roots" =>
          LET shown == ShownRows \cup request.docs
              cursor == request.skip + Cardinality(request.docs)
          IN /\ Followed(shown, cursor)
             /\ cursor >= request.total => Cardinality(Unseen(shown)) <= page.late

ReaderInv == RequestInv /\ PageInv /\ CursorInv /\ NoEntryMissed /\ TailReached

ExplorerInv == LedgerInv /\ ReaderInv /\ RootChangesTrue

-----------------------------------------------------------------------------
LEMMA NewerType ==
    ASSUME NEW S, IsFiniteSet(S), NEW row
    PROVE  /\ Newer(S, row) \in SUBSET S /\ IsFiniteSet(Newer(S, row))
           /\ Cardinality(Newer(S, row)) \in Nat
<1>1. Newer(S, row) \in SUBSET S
  BY DEF Newer
<1> QED BY <1>1, FS_Subset, FS_CardinalityType

(* A row moves to a later place when others arrive *)
LEMMA NewerGrows ==
    ASSUME NEW S, NEW T, IsFiniteSet(T), S \subseteq T, NEW row
    PROVE  Cardinality(Newer(S, row)) <= Cardinality(Newer(T, row))
<1>1. Newer(S, row) \in SUBSET Newer(T, row)
  BY DEF Newer
<1>2. IsFiniteSet(Newer(T, row))
  BY NewerType
<1> QED BY <1>1, <1>2, FS_Subset

LEMMA RestOf ==
    ASSUME NEW S, IsFiniteSet(S), NEW T \in SUBSET S
    PROVE  Cardinality(S \ T) = Cardinality(S) - Cardinality(T)
<1>1. T = S \cap T
  OBVIOUS
<1> QED BY <1>1, FS_Difference

(* The first n rows of a sort: all of them, or n *)
LEMMA FirstCount ==
    ASSUME IsFiniteSet(rows), NEW n \in Nat, NEW S \in FirstRows(n)
    PROVE  /\ S \in SUBSET rows /\ IsFiniteSet(S)
           /\ Cardinality(S) \in Nat /\ Cardinality(rows) \in Nat /\ Cardinality(S) <= n
           /\ S = rows \/ Cardinality(S) = n
<1>1. S \in SUBSET rows /\ Cardinality(S) = Min({n, Cardinality(rows)})
  BY DEF FirstRows
<1>2. IsFiniteSet(S) /\ Cardinality(S) \in Nat /\ Cardinality(rows) \in Nat
  BY <1>1, FS_Subset, FS_CardinalityType
<1>3. PICK m \in Nat : m = Cardinality(rows)
  BY <1>2
<1>4. Min({n, m}) \in {n, m} /\ Min({n, m}) <= n /\ Min({n, m}) <= m
  BY MinOfTwo
<1>5. Cardinality(S) <= n /\ (Cardinality(S) = n \/ Cardinality(S) = Cardinality(rows))
  BY <1>1, <1>3, <1>4
<1>6. Cardinality(S) = Cardinality(rows) => S = rows
  BY <1>1, FS_Subset
<1> QED BY <1>1, <1>2, <1>5, <1>6

(* A row that a sort has, or one of its millisecond, comes after all the newer ones *)
LEMMA FirstHas ==
    ASSUME IsFiniteSet(rows), \A r \in rows : r.createdAt \in Nat,
           NEW n \in Nat, NEW S \in FirstRows(n),
           NEW r \in rows, NEW s \in S, s.createdAt = r.createdAt
    PROVE  Cardinality(Newer(rows, r)) < n
<1>1. S \in SUBSET rows /\ IsFiniteSet(S) /\ Cardinality(S) \in Nat /\ Cardinality(S) <= n
  BY FirstCount
<1>2. \A q \in rows \ S : q.createdAt <= s.createdAt
  BY DEF FirstRows
<1>3. Newer(rows, r) \in SUBSET S /\ s \notin Newer(rows, r)
  BY <1>1, <1>2 DEF Newer
<1>4. /\ Cardinality(Newer(rows, r)) \in Nat /\ Cardinality(Newer(rows, r)) <= Cardinality(S)
      /\ Cardinality(Newer(rows, r)) # Cardinality(S)
  BY <1>1, <1>3, FS_Subset, FS_CardinalityType
<1> QED BY <1>1, <1>4

(* One that it has not, nor another of its millisecond, comes after all that it has *)
LEMMA FirstHasNot ==
    ASSUME IsFiniteSet(rows), \A r \in rows : r.createdAt \in Nat,
           NEW n \in Nat, NEW S \in FirstRows(n),
           NEW r \in rows, \A s \in S : s.createdAt # r.createdAt
    PROVE  /\ r \notin S /\ Cardinality(S) = n /\ Cardinality(Newer(rows, r)) >= n
           /\ \A s \in S : r.createdAt < s.createdAt
<1>1. r \notin S
  OBVIOUS
<1>2. S \in SUBSET rows /\ Cardinality(S) = n
  BY <1>1, FirstCount
<1>3. \A s \in S : r.createdAt <= s.createdAt
  BY <1>1 DEF FirstRows
<1>4. \A s \in S : r.createdAt < s.createdAt
  BY <1>2, <1>3
<1>5. S \in SUBSET Newer(rows, r)
  BY <1>2, <1>4 DEF Newer
<1>6. IsFiniteSet(Newer(rows, r)) /\ Cardinality(Newer(rows, r)) \in Nat
  BY NewerType
<1>7. Cardinality(S) <= Cardinality(Newer(rows, r))
  BY <1>5, <1>6, FS_Subset
<1> QED BY <1>1, <1>2, <1>4, <1>6, <1>7

-----------------------------------------------------------------------------
(* The ledger *)
LEMMA LedgerInitially == ExplorerInit => LedgerInv
<1> SUFFICES ASSUME ExplorerInit PROVE LedgerInv
  OBVIOUS
<1> USE DEF ExplorerInit
<1>1. RootDocsInv
  BY DEF RootDocsInv
<1>2. RowsInv
  <2>1. Stamped = {} /\ rows \cap stamped = {}
    BY DEF Stamped
  <2> QED BY <2>1, FS_EmptySet DEF RowsInv
<1>3. SectionInv
  BY DEF SectionInv, NoSection
<1> QED BY <1>1, <1>2, <1>3 DEF LedgerInv

LEMMA RowKept ==
    ASSUME NEW row, RowOK(row), Len(rootDocs) \in Nat, Len(rootDocs') \in Nat,
           Len(rootDocs) <= Len(rootDocs'), \A i \in 1..Len(rootDocs) : rootDocs'[i] = rootDocs[i]
    PROVE  RowOK(row)'
BY DEF RowOK, HashOK

LEMMA StampStep ==
    ASSUME RootDocsInv, RowsInv, NEW t \in {now, now + 1}, NEW type, NEW hash,
           StampRow(t, type, hash), UNCHANGED <<rows, rootDocs>>,
           \/ type = "OTHER" /\ hash.event = "none"
           \/ type \in {"LAND_APPROVED", "BUY"} /\ Len(rootDocs) >= 1 /\ HashOK(hash, Len(rootDocs))
    PROVE  RootDocsInv' /\ RowsInv'
<1>1. PICK row : row = [id |-> NextId, createdAt |-> t, transactionType |-> type,
                        blockchainTxHash |-> hash, own |-> Len(rootDocs)]
  OBVIOUS
<1>2. stamped' = stamped \cup {row} /\ now' = t
  BY <1>1 DEF StampRow
<1>3. now \in Nat /\ t \in Nat /\ now <= t /\ Len(rootDocs) \in Nat
  BY DEF RootDocsInv
<1>4. RootDocsInv'
  <2>1. \A i \in 1..Len(rootDocs) : rootDocs[i].createdAt <= t
    <3> SUFFICES ASSUME NEW i \in 1..Len(rootDocs) PROVE rootDocs[i].createdAt <= t
      OBVIOUS
    <3>1. rootDocs[i] \in RootDoc /\ rootDocs[i].createdAt <= now
      BY DEF RootDocsInv
    <3>2. rootDocs[i].createdAt \in Nat
      BY <3>1 DEF RootDoc
    <3> QED BY <1>3, <3>1, <3>2
  <2> QED BY <1>2, <1>3, <2>1 DEF RootDocsInv
<1>5. RowOK(row)
  <2>1. ASSUME NEW j \in 1..(Len(rootDocs) - 1) PROVE rootDocs[j].createdAt < t
    <3>1. /\ j \in 1..Len(rootDocs) /\ Len(rootDocs) \in 1..Len(rootDocs)
          /\ rootDocs[j] \in RootDoc /\ rootDocs[Len(rootDocs)] \in RootDoc
      BY <1>3 DEF RootDocsInv
    <3>2. rootDocs[j].createdAt < rootDocs[Len(rootDocs)].createdAt
      BY <3>1 DEF RootDocsInv
    <3>3. rootDocs[Len(rootDocs)].createdAt <= now
      BY <3>1 DEF RootDocsInv
    <3>4. rootDocs[j].createdAt \in Nat /\ rootDocs[Len(rootDocs)].createdAt \in Nat
      BY <3>1 DEF RootDoc
    <3> QED BY <1>3, <3>2, <3>3, <3>4
  <2>2. /\ row.createdAt = t /\ row.transactionType = type
        /\ row.blockchainTxHash = hash /\ row.own = Len(rootDocs)
    BY <1>1
  <2> QED BY <1>3, <2>1, <2>2 DEF RowOK
<1>6. /\ Stamped' = Stamped \cup {row} /\ row \notin Stamped
      /\ IsFiniteSet(Stamped') /\ NextId' = NextId + 1 /\ NextId \in Nat /\ row.id = NextId
  <2>1. Stamped' = Stamped \cup {row} /\ row.id = NextId
    BY <1>1, <1>2 DEF Stamped
  <2>2. NextId = Cardinality(Stamped) /\ NextId' = Cardinality(Stamped') /\ IsFiniteSet(Stamped)
    BY DEF NextId, Stamped, RowsInv
  <2>3. NextId \in Nat
    BY <2>2, FS_CardinalityType
  <2>4. row \notin Stamped
    BY <2>1, <2>3 DEF RowsInv
  <2> QED BY <2>1, <2>2, <2>3, <2>4, FS_AddElement
<1>7. \A r \in Stamped' : RowOK(r)'
  BY <1>3, <1>5, <1>6, RowKept DEF RowsInv
<1>8. \A r \in Stamped' : r.id \in Nat /\ r.id < NextId'
  BY <1>6 DEF RowsInv
<1>9. (rows \cap stamped = {})'
  BY <1>2, <1>6 DEF RowsInv, Stamped
<1> QED BY <1>4, <1>6, <1>7, <1>8, <1>9 DEF RowsInv

LEMMA InsertStep ==
    ASSUME RowsInv, RootDocsInv, NEW r \in stamped, InsertRow(r)
    PROVE  RowsInv' /\ r \notin rows
<1>1. rows' = rows \cup {r} /\ stamped' = stamped \ {r} /\ rootDocs' = rootDocs
  BY DEF InsertRow
<1>2. Stamped' = Stamped /\ (rows \cap stamped = {})' /\ r \notin rows
  BY <1>1 DEF Stamped, RowsInv
<1>3. NextId' = NextId
  BY <1>2 DEF NextId, Stamped
<1>4. \A q \in Stamped' : RowOK(q)'
  BY <1>1, <1>2, RowKept DEF RowsInv, RootDocsInv
<1> QED BY <1>2, <1>3, <1>4 DEF RowsInv

LEMMA RecordStep ==
    ASSUME LedgerInv, NEW mined \in BOOLEAN, RecordRootDoc(mined)
    PROVE  RootDocsInv' /\ RowsInv' /\ SectionInv'
<1>1. PICK hash : hash = TxHash("MerkleRootUpdated", mined)
  OBVIOUS
<1>2. PICK doc : doc = [root |-> tree, createdAt |-> now + 1, transactionHash |-> hash]
  OBVIOUS
<1>3. /\ now \in Nat /\ rootDocs \in Seq(RootDoc) /\ Len(rootDocs) \in Nat
      /\ \A i \in 1..Len(rootDocs) : rootDocs[i].createdAt \in Nat /\ rootDocs[i].createdAt <= now
  <2>1. now \in Nat /\ rootDocs \in Seq(RootDoc) /\ Len(rootDocs) \in Nat
    BY DEF LedgerInv, RootDocsInv
  <2>2. ASSUME NEW i \in 1..Len(rootDocs) PROVE rootDocs[i].createdAt \in Nat
    <3>1. rootDocs[i] \in RootDoc
      BY <2>1
    <3> QED BY <3>1 DEF RootDoc
  <2> QED BY <2>1, <2>2 DEF LedgerInv, RootDocsInv
<1>4. now' = now + 1 /\ rootDocs' = Append(rootDocs, doc)
  BY <1>1, <1>2 DEF RecordRootDoc
<1>5. doc \in RootDoc /\ hash.event = "MerkleRootUpdated" /\ hash.number = Len(rootDocs)
  BY <1>1, <1>2, <1>3 DEF TxHash, RootDoc, LedgerInv
<1>6. /\ Len(rootDocs') = Len(rootDocs) + 1 /\ rootDocs' \in Seq(RootDoc)
      /\ \A i \in 1..Len(rootDocs) : rootDocs'[i] = rootDocs[i]
      /\ rootDocs'[Len(rootDocs) + 1] = doc
  BY <1>3, <1>4, <1>5
<1>7. RootDocsInv'
  <2>1. ASSUME NEW i \in 1..Len(rootDocs')
        PROVE  /\ rootDocs'[i].transactionHash.number = i - 1
               /\ rootDocs'[i].createdAt <= now'
               /\ \A j \in 1..(i - 1) : rootDocs'[j].createdAt < rootDocs'[i].createdAt
    <3>1. CASE i = Len(rootDocs) + 1
      <4>1. rootDocs'[i].transactionHash.number = i - 1 /\ rootDocs'[i].createdAt = now + 1
        BY <1>2, <1>3, <1>5, <1>6, <3>1
      <4>2. ASSUME NEW j \in 1..(i - 1) PROVE rootDocs'[j].createdAt < now + 1
        <5>1. j \in 1..Len(rootDocs)
          BY <1>3, <3>1
        <5>2. rootDocs'[j] = rootDocs[j] /\ rootDocs[j].createdAt \in Nat /\ rootDocs[j].createdAt <= now
          BY <1>3, <1>6, <5>1
        <5> QED BY <1>3, <5>2
      <4> QED BY <1>3, <1>4, <4>1, <4>2
    <3>2. CASE i \in 1..Len(rootDocs)
      <4>1. \A j \in 1..i : rootDocs'[j] = rootDocs[j]
        BY <1>3, <1>6, <3>2
      <4>2. rootDocs[i].createdAt \in Nat /\ rootDocs[i].createdAt <= now
        BY <1>3, <3>2
      <4>3. rootDocs'[i] = rootDocs[i] /\ \A j \in 1..(i - 1) : rootDocs'[j] = rootDocs[j]
        BY <3>2, <4>1
      <4> QED BY <1>3, <1>4, <3>2, <4>2, <4>3 DEF LedgerInv, RootDocsInv
    <3> QED BY <1>3, <1>6, <3>1, <3>2
  <2>2. now' \in Nat
    BY <1>3, <1>4
  <2> QED BY <1>6, <2>1, <2>2 DEF RootDocsInv
<1>8. RowsInv'
  <2>1. UNCHANGED <<rows, stamped>>
    BY DEF RecordRootDoc
  <2>2. \A r \in Stamped' : RowOK(r)'
    BY <1>3, <1>6, <2>1, RowKept DEF LedgerInv, RowsInv, Stamped
  <2> QED BY <2>1, <2>2 DEF LedgerInv, RowsInv, Stamped, NextId
<1>9. SectionInv'
  <2>1. /\ section.pc = "anchor"
        /\ section' = [pc |-> "log", type |-> section.type,
                       hash |-> IF section.hash = None THEN hash ELSE section.hash]
    BY <1>1 DEF RecordRootDoc
  <2>2. section'.pc = "log" /\ section'.type = section.type /\ section.type \in {"LAND_APPROVED", "BUY"}
    BY <2>1 DEF LedgerInv, SectionInv
  <2>3. HashOK(section.hash, Len(rootDocs))'
    <3>1. CASE section.hash = None
      <4>1. section'.hash = hash
        BY <2>1, <3>1
      <4>2. Len(rootDocs') \in 1..Len(rootDocs')
        BY <1>3, <1>6
      <4>3. rootDocs'[Len(rootDocs')].transactionHash = hash
        BY <1>2, <1>6
      <4> QED BY <4>1, <4>2, <4>3 DEF HashOK
    <3>2. CASE section.hash # None
      <4>1. section'.hash = section.hash /\ section.hash.event \in {"LandRegistered", "LandTransferred"}
        BY <2>1, <3>2 DEF LedgerInv, SectionInv
      <4> QED BY <4>1 DEF HashOK
    <3> QED BY <3>1, <3>2
  <2> QED BY <1>3, <1>6, <2>2, <2>3 DEF SectionInv
<1> QED BY <1>7, <1>8, <1>9

LEMMA LedgerKept ==
    ASSUME LedgerInv, UNCHANGED <<now, rootDocs, rows, stamped>>, SectionInv',
           (tree \subseteq Lands \X Nat)', (sales \in [Lands -> Nat])'
    PROVE  LedgerInv'
BY DEF LedgerInv, RootDocsInv, RowsInv, Stamped, NextId, RowOK, HashOK

LEMMA LedgerActionStep ==
    ASSUME LedgerInv, LedgerAction
    PROVE  LedgerInv'
<1>1. ASSUME NEW l \in Lands, ApproveBegins(l) PROVE LedgerInv'
  <2>1. SectionInv'
    BY <1>1 DEF ApproveBegins, SectionInv
  <2>2. (tree \subseteq Lands \X Nat)'
    BY <1>1 DEF ApproveBegins, LedgerInv
  <2> QED BY <1>1, <2>1, <2>2, LedgerKept DEF ApproveBegins, LedgerInv
<1>2. ASSUME NEW l \in Lands, BuyBegins(l) PROVE LedgerInv'
  <2>1. SectionInv'
    BY <1>2 DEF BuyBegins, SectionInv, TxHash
  <2>2. (tree \subseteq Lands \X Nat)' /\ (sales \in [Lands -> Nat])'
    BY <1>2 DEF BuyBegins, LedgerInv
  <2> QED BY <1>2, <2>1, <2>2, LedgerKept DEF BuyBegins
<1>3. CASE LogSection
  <2>1. PICK t \in {now, now + 1} : StampRow(t, section.type, section.hash)
    BY <1>3 DEF LogSection
  <2>2. section.pc = "log" /\ UNCHANGED <<rows, rootDocs, tree, sales>> /\ section'.pc = "insert"
    BY <1>3 DEF LogSection
  <2>3. /\ section.type \in {"LAND_APPROVED", "BUY"}
        /\ Len(rootDocs) >= 1 /\ HashOK(section.hash, Len(rootDocs))
    BY <2>2 DEF LedgerInv, SectionInv
  <2>4. RootDocsInv' /\ RowsInv'
    BY <2>1, <2>2, <2>3, StampStep DEF LedgerInv
  <2>5. SectionInv'
    BY <2>2 DEF SectionInv
  <2> QED BY <2>2, <2>4, <2>5 DEF LedgerInv
<1>4. CASE LogOther
  <2>1. PICK hash : hash = [event |-> "none", number |-> 0, mined |-> FALSE]
    OBVIOUS
  <2>2. /\ UNCHANGED <<rows, rootDocs, tree, sales, section>>
        /\ \E t \in {now, now + 1} : StampRow(t, "OTHER", hash)
    BY <1>4, <2>1 DEF LogOther
  <2>3. hash.event = "none"
    BY <2>1
  <2>4. RootDocsInv' /\ RowsInv'
    BY <2>2, <2>3, StampStep DEF LedgerInv
  <2>5. SectionInv'
    BY <2>2 DEF LedgerInv, SectionInv, HashOK
  <2> QED BY <2>2, <2>4, <2>5 DEF LedgerInv
<1>5. ASSUME NEW m \in BOOLEAN, RegisterRecord(m) PROVE LedgerInv'
  <2>1. SectionInv'
    BY <1>5 DEF RegisterRecord, SectionInv, TxHash
  <2> QED BY <1>5, <2>1, LedgerKept DEF RegisterRecord, LedgerInv
<1>6. ASSUME NEW m \in BOOLEAN, RecordRootDoc(m) PROVE LedgerInv'
  <2>1. RootDocsInv' /\ RowsInv' /\ SectionInv'
    BY <1>6, RecordStep
  <2> QED BY <1>6, <2>1 DEF RecordRootDoc, LedgerInv
<1>7. CASE SectionOver
  <2>1. SectionInv'
    BY <1>7 DEF SectionOver, SectionInv, NoSection
  <2> QED BY <1>7, <2>1, LedgerKept DEF SectionOver, LedgerInv
<1>8. ASSUME NEW r \in stamped, InsertRow(r) PROVE LedgerInv'
  <2>1. RowsInv'
    BY <1>8, InsertStep DEF LedgerInv
  <2>2. UNCHANGED <<now, rootDocs, tree, sales, section>>
    BY <1>8 DEF InsertRow
  <2> QED BY <2>1, <2>2 DEF LedgerInv, RootDocsInv, SectionInv, HashOK
<1> QED BY <1>1, <1>2, <1>3, <1>4, <1>5, <1>6, <1>7, <1>8 DEF LedgerAction

LEMMA LedgerStepInv == LedgerInv /\ [ExplorerNext]_explorerVars => LedgerInv'
<1> SUFFICES ASSUME LedgerInv, [ExplorerNext]_explorerVars PROVE LedgerInv'
  OBVIOUS
<1>1. CASE LedgerStep
  BY <1>1, LedgerActionStep DEF LedgerStep
<1>2. CASE UNCHANGED ledgerVars
  <2>1. SectionInv'
    BY <1>2 DEF ledgerVars, LedgerInv, SectionInv, HashOK
  <2> QED BY <1>2, <2>1, LedgerKept DEF ledgerVars, LedgerInv
<1> QED BY <1>1, <1>2 DEF ExplorerNext, ReaderStep, explorerVars

-----------------------------------------------------------------------------
(* The root changes of a row *)
TrueOf(row, changes) ==
    /\ row.blockchainTxHash.event = "MerkleRootUpdated" => changes # {}
    /\ row.transactionType = "OTHER" => changes = {}
    /\ \A c \in changes :
          /\ \E k \in row.own..Len(rootDocs) :
                /\ c.after = rootDocs[k].root
                /\ row.transactionType = "LAND_APPROVED" => k = row.own
          /\ \E k \in 1..Len(rootDocs) :
                /\ c.after = rootDocs[k].root
                /\ c.before = IF k = 1 THEN None ELSE rootDocs[k - 1].root

(* A root has the predecessor that it had at its last arrival *)
LEMMA RootBefore ==
    ASSUME RootDocsInv, NEW i \in 1..Len(rootDocs)
    PROVE  \E k \in 1..Len(rootDocs) :
              /\ rootDocs[i].root = rootDocs[k].root
              /\ prevByRoot(rootDocs, rootDocs[i].root) = IF k = 1 THEN None ELSE rootDocs[k - 1].root
<1> DEFINE at == {j \in 2..Len(rootDocs) : rootDocs[j].root = rootDocs[i].root}
<1>1. Len(rootDocs) \in Nat
  BY DEF RootDocsInv
<1>2. CASE at = {}
  <2>1. i = 1
    BY <1>1, <1>2
  <2> QED BY <1>2, <2>1 DEF prevByRoot
<1>3. CASE at # {}
  <2>1. at \in SUBSET (1..Len(rootDocs))
    BY <1>1
  <2>2. Max(at) \in at
    <3> HIDE DEF at
    <3> QED BY <1>1, <1>3, <2>1, MaxOf
  <2>3. PICK k : k = Max(at)
    OBVIOUS
  <2>4. k \in 2..Len(rootDocs) /\ rootDocs[k].root = rootDocs[i].root
    BY <2>2, <2>3
  <2>5. prevByRoot(rootDocs, rootDocs[i].root) = rootDocs[k - 1].root
    BY <1>3, <2>3 DEF prevByRoot
  <2>6. k \in 1..Len(rootDocs) /\ k # 1
    BY <1>1, <2>4
  <2> QED BY <2>4, <2>5, <2>6
<1> QED BY <1>2, <1>3

(* Changes that are shown for the documents at some indices *)
LEMMA ChangesOf ==
    ASSUME RootDocsInv, NEW row, NEW docs \in SUBSET (1..Len(rootDocs)),
           row.blockchainTxHash.event = "MerkleRootUpdated" => docs # {},
           row.transactionType = "OTHER" => docs = {},
           \A i \in docs : /\ row.own <= i /\ row.own \in Nat
                           /\ row.transactionType = "LAND_APPROVED" => i = row.own
    PROVE  TrueOf(row, {RootChange(rootDocs, rootDocs[i].root) : i \in docs})
<1> SUFFICES ASSUME NEW i \in docs, NEW c, c = RootChange(rootDocs, rootDocs[i].root)
             PROVE  /\ \E k \in row.own..Len(rootDocs) :
                          /\ c.after = rootDocs[k].root
                          /\ row.transactionType = "LAND_APPROVED" => k = row.own
                    /\ \E k \in 1..Len(rootDocs) :
                          /\ c.after = rootDocs[k].root
                          /\ c.before = IF k = 1 THEN None ELSE rootDocs[k - 1].root
  BY DEF TrueOf
<1>1. c.after = rootDocs[i].root /\ c.before = prevByRoot(rootDocs, rootDocs[i].root)
  BY DEF RootChange
<1>2. i \in 1..Len(rootDocs) /\ Len(rootDocs) \in Nat
  BY DEF RootDocsInv
<1>3. i \in row.own..Len(rootDocs) /\ (row.transactionType = "LAND_APPROVED" => i = row.own)
  BY <1>2
<1>4. PICK k \in 1..Len(rootDocs) :
              /\ rootDocs[i].root = rootDocs[k].root
              /\ prevByRoot(rootDocs, rootDocs[i].root) = IF k = 1 THEN None ELSE rootDocs[k - 1].root
  BY <1>2, RootBefore
<1> QED BY <1>1, <1>3, <1>4

LEMMA HashIndex ==
    ASSUME RootDocsInv, NEW i \in 1..Len(rootDocs)
    PROVE  /\ rootDocs[i].transactionHash.event = "MerkleRootUpdated"
           /\ rootDocs[i].transactionHash.number = i - 1
<1>1. rootDocs[i] \in RootDoc
  BY DEF RootDocsInv
<1> QED BY <1>1 DEF RootDoc, RootDocsInv

(* The document with a row's own hash is the one it was sent with *)
LEMMA OwnDocument ==
    ASSUME RootDocsInv, NEW row, RowOK(row)
    PROVE  /\ byTxHash(rootDocs, row.blockchainTxHash)
                 = IF row.blockchainTxHash.event = "MerkleRootUpdated" THEN {row.own} ELSE {}
           /\ row.blockchainTxHash.event = "MerkleRootUpdated" =>
                 /\ row.own \in 1..Len(rootDocs) /\ row.blockchainTxHash.number = row.own - 1
                 /\ row.transactionType \in {"LAND_APPROVED", "BUY"}
<1> DEFINE hash == row.blockchainTxHash
<1>1. Len(rootDocs) \in Nat
  BY DEF RootDocsInv
<1>2. ASSUME hash.event = "MerkleRootUpdated"
      PROVE  /\ row.own \in 1..Len(rootDocs) /\ hash = rootDocs[row.own].transactionHash
             /\ row.transactionType \in {"LAND_APPROVED", "BUY"}
  BY <1>2 DEF RowOK, HashOK
<1>3. ASSUME NEW i \in 1..Len(rootDocs), rootDocs[i].transactionHash = hash
      PROVE  hash.event = "MerkleRootUpdated" /\ i = row.own
  <2>1. hash.event = "MerkleRootUpdated" /\ hash.number = i - 1
    BY <1>3, HashIndex
  <2>2. row.own \in 1..Len(rootDocs) /\ hash.number = row.own - 1
    BY <1>2, <2>1, HashIndex
  <2> QED BY <1>1, <2>1, <2>2
<1>4. CASE hash.event = "MerkleRootUpdated"
  <2>1. row.own \in 1..Len(rootDocs) /\ rootDocs[row.own].transactionHash = hash
    BY <1>2, <1>4
  <2>2. byTxHash(rootDocs, hash) = {row.own}
    BY <1>3, <2>1 DEF byTxHash
  <2>3. hash.number = row.own - 1
    BY <2>1, HashIndex
  <2> QED BY <1>2, <1>4, <2>2, <2>3
<1>5. CASE hash.event # "MerkleRootUpdated"
  <2>1. byTxHash(rootDocs, hash) = {}
    BY <1>3, <1>5 DEF byTxHash
  <2> QED BY <1>5, <2>1
<1> QED BY <1>4, <1>5

(* The first root that is not older than a purchase is not older than its own *)
LEMMA RootAfterOwn ==
    ASSUME RootDocsInv, NEW row, RowOK(row), row.transactionType = "BUY"
    PROVE  /\ RootAfter(rootDocs, row) \in SUBSET (1..Len(rootDocs))
           /\ \A i \in RootAfter(rootDocs, row) : row.own <= i
<1> DEFINE since == {i \in 1..Len(rootDocs) : rootDocs[i].createdAt >= row.createdAt}
<1>1. Len(rootDocs) \in Nat
  BY DEF RootDocsInv
<1>2. CASE since = {}
  BY <1>2 DEF RootAfter
<1>3. CASE since # {}
  <2>1. since \in SUBSET Nat
    BY <1>1
  <2>2. PICK m : m = Min(since)
    OBVIOUS
  <2>3. m \in since
    <3> HIDE DEF since
    <3> QED BY <1>3, <2>1, <2>2, MinOf
  <2>4. m \in 1..Len(rootDocs) /\ rootDocs[m].createdAt >= row.createdAt
    BY <2>3
  <2>5. ~ (rootDocs[m].createdAt < row.createdAt)
    <3>1. rootDocs[m] \in RootDoc /\ row.createdAt \in Nat
      BY <2>4 DEF RootDocsInv, RowOK
    <3>2. rootDocs[m].createdAt \in Nat
      BY <3>1 DEF RootDoc
    <3> QED BY <2>4, <3>1, <3>2
  <2>6. row.own \in Nat /\ \A j \in 1..(row.own - 1) : rootDocs[j].createdAt < row.createdAt
    BY <1>1 DEF RowOK
  <2>7. row.own <= m
    BY <1>1, <2>4, <2>5, <2>6
  <2>8. RootAfter(rootDocs, row) = {m}
    BY <1>3, <2>2 DEF RootAfter
  <2> QED BY <2>4, <2>7, <2>8
<1> QED BY <1>2, <1>3

LEMMA LedgerChangesTrue ==
    ASSUME RootDocsInv, NEW row, RowOK(row)
    PROVE  TrueOf(row, ledgerStateChanges(row, rootDocs))
<1> DEFINE own == byTxHash(rootDocs, row.blockchainTxHash)
           ownDoc == IF own = {} THEN {} ELSE {Max(own)}
           later == IF row.transactionType = "BUY" THEN RootAfter(rootDocs, row) ELSE {}
           docs == ownDoc \cup later
<1>1. Len(rootDocs) \in Nat /\ row.own \in Nat
  BY DEF RootDocsInv, RowOK
<1>2. CASE row.blockchainTxHash.event = "MerkleRootUpdated"
  <2>1. own = {row.own} /\ row.own \in 1..Len(rootDocs) /\ row.transactionType # "OTHER"
    BY <1>2, OwnDocument
  <2>2. Max({row.own}) = row.own
    <3>1. {row.own} \in SUBSET (1..Len(rootDocs)) /\ {row.own} # {}
      BY <2>1
    <3> QED BY <1>1, <3>1, MaxOf
  <2>3. ownDoc = {row.own}
    BY <2>1, <2>2
  <2>4. /\ docs \in SUBSET (1..Len(rootDocs)) /\ docs # {} /\ row.transactionType # "OTHER"
        /\ \A i \in docs : row.own <= i /\ (row.transactionType = "LAND_APPROVED" => i = row.own)
    <3> HIDE DEF ownDoc
    <3> QED BY <1>1, <2>1, <2>3, RootAfterOwn
  <2>5. ledgerStateChanges(row, rootDocs) = {RootChange(rootDocs, rootDocs[i].root) : i \in docs}
    BY DEF ledgerStateChanges
  <2> HIDE DEF docs
  <2> QED BY <1>1, <2>4, <2>5, ChangesOf
<1>3. CASE row.blockchainTxHash.event # "MerkleRootUpdated"
  <2>1. own = {}
    BY <1>3, OwnDocument
  <2>2. docs = later
    BY <2>1
  <2>3. /\ docs \in SUBSET (1..Len(rootDocs))
        /\ row.transactionType # "BUY" => docs = {}
        /\ \A i \in docs : row.own <= i
    <3> HIDE DEF docs
    <3> QED BY <2>2, RootAfterOwn
  <2>4. ledgerStateChanges(row, rootDocs) = {RootChange(rootDocs, rootDocs[i].root) : i \in docs}
    BY DEF ledgerStateChanges
  <2> HIDE DEF docs
  <2> QED BY <1>1, <1>3, <2>3, <2>4, ChangesOf
<1> QED BY <1>2, <1>3

LEMMA EventChangesTrue ==
    ASSUME RootDocsInv, NEW row, RowOK(row)
    PROVE  TrueOf(row, changesFromEvents(row, rootDocs))
<1>1. Len(rootDocs) \in Nat /\ row.own \in Nat
  BY DEF RootDocsInv, RowOK
<1>2. CASE row.blockchainTxHash.event = "MerkleRootUpdated"
  <2>1. /\ row.own \in 1..Len(rootDocs) /\ row.blockchainTxHash.number + 1 = row.own
        /\ row.transactionType # "OTHER"
    <3>1. /\ row.own \in 1..Len(rootDocs) /\ row.blockchainTxHash.number = row.own - 1
          /\ row.transactionType # "OTHER"
      BY <1>2, OwnDocument
    <3> QED BY <1>1, <3>1
  <2>2. changesFromEvents(row, rootDocs) = {RootChange(rootDocs, rootDocs[i].root) : i \in {row.own}}
    BY <1>2, <2>1 DEF changesFromEvents
  <2>3. {row.own} \in SUBSET (1..Len(rootDocs)) /\ {row.own} # {} /\ \A i \in {row.own} : row.own <= i /\ i = row.own
    BY <1>1, <2>1
  <2> QED BY <1>1, <2>1, <2>2, <2>3, ChangesOf
<1>3. CASE row.blockchainTxHash.event # "MerkleRootUpdated"
  <2>1. changesFromEvents(row, rootDocs) = {}
    BY <1>3 DEF changesFromEvents
  <2> QED BY <1>3, <2>1 DEF TrueOf
<1> QED BY <1>2, <1>3

(* What is true of a row stays so *)
LEMMA TrueKept ==
    ASSUME NEW row, NEW changes, TrueOf(row, changes), RowOK(row),
           Len(rootDocs) \in Nat, Len(rootDocs') \in Nat, Len(rootDocs) <= Len(rootDocs'),
           \A i \in 1..Len(rootDocs) : rootDocs'[i] = rootDocs[i]
    PROVE  TrueOf(row, changes)'
<1> SUFFICES ASSUME NEW c \in changes
             PROVE  /\ \E k \in row.own..Len(rootDocs') :
                          /\ c.after = rootDocs'[k].root
                          /\ row.transactionType = "LAND_APPROVED" => k = row.own
                    /\ \E k \in 1..Len(rootDocs') :
                          /\ c.after = rootDocs'[k].root
                          /\ c.before = IF k = 1 THEN None ELSE rootDocs'[k - 1].root
  BY DEF TrueOf
<1>0. row.own \in Nat /\ row.own >= 1
  BY DEF TrueOf, RowOK
<1>1. PICK k \in row.own..Len(rootDocs) :
         c.after = rootDocs[k].root /\ (row.transactionType = "LAND_APPROVED" => k = row.own)
  BY DEF TrueOf
<1>2. PICK j \in 1..Len(rootDocs) :
         c.after = rootDocs[j].root /\ c.before = IF j = 1 THEN None ELSE rootDocs[j - 1].root
  BY DEF TrueOf
<1>3. k \in row.own..Len(rootDocs') /\ rootDocs'[k] = rootDocs[k]
  BY <1>0
<1>4. j \in 1..Len(rootDocs') /\ rootDocs'[j] = rootDocs[j]
  OBVIOUS
<1>5. j # 1 => rootDocs'[j - 1] = rootDocs[j - 1]
  OBVIOUS
<1> QED BY <1>1, <1>2, <1>3, <1>4, <1>5

-----------------------------------------------------------------------------
(* The page and its requests *)
LEMMA FollowedKept ==
    ASSUME NEW shown, NEW cursor \in Nat, Followed(shown, cursor),
           IsFiniteSet(rows'), rows \subseteq rows', page'.opened = page.opened
    PROVE  Followed(shown, cursor)' /\ Unseen(shown)' = Unseen(shown)
<1>1. Unseen(shown)' = Unseen(shown)
  BY DEF Unseen
<1>2. IsFiniteSet(rows)
  BY FS_Subset
<1>3. ASSUME NEW r \in Unseen(shown) PROVE Cardinality(Newer(rows', r)) >= cursor
  <2>1. Cardinality(Newer(rows, r)) >= cursor
    BY DEF Followed
  <2>2. /\ Cardinality(Newer(rows, r)) <= Cardinality(Newer(rows', r))
        /\ Cardinality(Newer(rows, r)) \in Nat /\ Cardinality(Newer(rows', r)) \in Nat
    BY <1>2, NewerGrows, NewerType
  <2> QED BY <2>1, <2>2
<1> QED BY <1>1, <1>3 DEF Followed, Newer

LEMMA RowsDated ==
    ASSUME RowsInv
    PROVE  IsFiniteSet(rows) /\ Cardinality(rows) \in Nat /\ \A r \in rows : r.createdAt \in Nat
<1>1. rows \in SUBSET Stamped /\ IsFiniteSet(Stamped)
  BY DEF RowsInv, Stamped
<1>2. IsFiniteSet(rows) /\ Cardinality(rows) \in Nat
  BY <1>1, FS_Subset, FS_CardinalityType
<1> QED BY <1>1, <1>2 DEF RowsInv, RowOK

LEMMA ReaderInitially == ExplorerInit => ReaderInv /\ RootChangesTrue
<1> SUFFICES ASSUME ExplorerInit PROVE ReaderInv /\ RootChangesTrue
  OBVIOUS
<1> USE DEF ExplorerInit, NoRequest, NoPage
<1>1. page.nextCursor = None /\ page.shown = {} /\ page.opened = {} /\ page.late = 0 /\ page.loads = 0
  OBVIOUS
<1>2. ShownRows = {}
  BY <1>1 DEF ShownRows
<1>3. request.pc = "none"
  OBVIOUS
<1>4. None \notin Int
  BY ExplorerAssumption
<1>5. PageInv
  BY <1>1, <1>2, <1>3, <1>4 DEF PageInv
<1>6. RequestInv /\ CursorInv /\ NoEntryMissed /\ TailReached /\ RootChangesTrue
  BY <1>1, <1>2, <1>3 DEF Unseen, RequestInv, CursorInv, NoEntryMissed, TailReached, RootChangesTrue
<1> QED BY <1>5, <1>6 DEF ReaderInv

(* The ledger grows under the reader *)
LEMMA ReaderDuringLedger ==
    ASSUME LedgerInv, ReaderInv, LedgerAction, LedgerInv'
    PROVE  ReaderInv'
<1>1. \/ UNCHANGED <<rows, request, page>>
      \/ \E r \in stamped : InsertRow(r)
  BY DEF LedgerAction, ApproveBegins, BuyBegins, LogSection, LogOther, StampRow, RegisterRecord,
         RecordRootDoc, SectionOver
<1>2. CASE UNCHANGED <<rows, request, page>>
  <2>1. ShownRows' = ShownRows /\ Skip' = Skip
    BY <1>2 DEF ShownRows, Skip
  <2> QED BY <1>2, <2>1 DEF ReaderInv, RequestInv, PageInv, CursorInv, Followed, Newer, Unseen, NoEntryMissed, TailReached
<1>3. ASSUME NEW r \in stamped, InsertRow(r) PROVE ReaderInv'
  <2>1. /\ rows' = rows \cup {r} /\ request' = request
        /\ page' = IF request.pc = "find" THEN [page EXCEPT !.late = @ + 1] ELSE page
    BY <1>3 DEF InsertRow
  <2>2. r \notin rows /\ IsFiniteSet(rows) /\ IsFiniteSet(rows')
    BY <1>3, <2>1, InsertStep, RowsDated, FS_AddElement DEF LedgerInv
  <2>3. Cardinality(rows') = Cardinality(rows) + 1
    BY <2>1, <2>2, FS_AddElement
  <2>4. /\ page'.nextCursor = page.nextCursor /\ page'.shown = page.shown /\ page'.opened = page.opened
        /\ page'.loads = page.loads /\ DOMAIN page' = DOMAIN page
        /\ page'.late = IF request.pc = "find" THEN page.late + 1 ELSE page.late
    BY <2>1 DEF ReaderInv, PageInv
  <2>5. ShownRows' = ShownRows /\ Skip' = Skip
    BY <2>4 DEF ShownRows, Skip
  <2>6. RequestInv'
    <3>1. page.late \in Nat
      BY DEF ReaderInv, PageInv
    <3>2. request.pc = "find" => request.total \in Nat /\ Cardinality(rows) = request.total + page.late
      BY DEF ReaderInv, RequestInv
    <3>3. request.pc = "find" => Cardinality(rows') = request.total + page'.late
      BY <2>3, <2>4, <3>1, <3>2
    <3> QED BY <2>1, <2>4, <2>5, <3>3 DEF ReaderInv, RequestInv
  <2>7. PageInv'
    BY <2>1, <2>4, <2>5 DEF ReaderInv, PageInv
  <2>8. CursorInv'
    <3>1. page.nextCursor # None => Followed(ShownRows, page.nextCursor)'
      <4> SUFFICES ASSUME page.nextCursor # None PROVE Followed(ShownRows, page.nextCursor)'
        OBVIOUS
      <4>1. PICK shown, cursor : shown = ShownRows /\ cursor = page.nextCursor
        OBVIOUS
      <4>2. cursor \in Nat /\ Followed(shown, cursor)
        BY <4>1 DEF ReaderInv, PageInv, CursorInv
      <4>3. Followed(shown, cursor)'
        BY <2>1, <2>2, <2>4, <4>2, FollowedKept
      <4> QED BY <2>4, <2>5, <4>1, <4>3 DEF Followed, Newer, Unseen
    <3>2. ASSUME request.pc = "roots"
          PROVE  /\ Followed(ShownRows \cup request.docs, request.skip + Cardinality(request.docs))'
                 /\ request.skip + Cardinality(request.docs) >= request.total
                       => Cardinality(Unseen(ShownRows \cup request.docs)') <= page.late
      <4>1. PICK shown, cursor : /\ shown = ShownRows \cup request.docs
                                 /\ cursor = request.skip + Cardinality(request.docs)
        OBVIOUS
      <4>2. cursor \in Nat
        <5>1. request.docs \in SUBSET rows
          BY <3>2 DEF ReaderInv, RequestInv
        <5>2. Cardinality(request.docs) \in Nat
          BY <2>2, <5>1, FS_Subset, FS_CardinalityType
        <5>3. request.skip \in Nat
          BY <3>2 DEF ReaderInv, RequestInv, PageInv, Skip
        <5> QED BY <4>1, <5>2, <5>3
      <4>3. /\ Followed(shown, cursor)
            /\ cursor >= request.total => Cardinality(Unseen(shown)) <= page.late
        BY <3>2, <4>1 DEF ReaderInv, CursorInv
      <4>4. Followed(shown, cursor)' /\ Unseen(shown)' = Unseen(shown)
        BY <2>1, <2>2, <2>4, <4>2, <4>3, FollowedKept
      <4>5. Followed(ShownRows \cup request.docs, request.skip + Cardinality(request.docs))'
        BY <2>1, <2>4, <2>5, <4>1, <4>4 DEF Followed, Newer, Unseen
      <4>6. Unseen(ShownRows \cup request.docs)' = Unseen(shown)
        BY <2>1, <2>4, <2>5, <4>1, <4>4 DEF Unseen
      <4> QED BY <4>1, <4>3, <4>5, <4>6
    <3> QED BY <2>1, <2>4, <2>5, <3>1, <3>2 DEF CursorInv
  <2>9. NoEntryMissed'
    BY <2>4, <2>5 DEF ReaderInv, NoEntryMissed, Unseen
  <2>10. TailReached'
    <3>1. CASE request.pc = "find"
      BY <2>4, <3>1 DEF ReaderInv, PageInv, TailReached
    <3>2. CASE request.pc # "find"
      BY <2>4, <2>5, <3>2 DEF ReaderInv, TailReached, Unseen
    <3> QED BY <3>1, <3>2
  <2> QED BY <2>6, <2>7, <2>8, <2>9, <2>10 DEF ReaderInv
<1> QED BY <1>1, <1>2, <1>3

LEMMA ClampedType ==
    ASSUME NEW limit \in QueryLimits
    PROVE  ClampedLimit(limit) \in Nat
<1>1. PICK l \in Int : l = IF limit = None THEN DefaultLimit ELSE limit
  BY ExplorerAssumption
<1>2. Max({l, 1}) \in Nat
  BY MaxOfTwo
<1>3. PICK m \in Nat : m = Max({l, 1})
  BY <1>2
<1>4. Min({m, MaxLimit}) \in Nat
  BY MinOfTwo, ExplorerAssumption
<1> QED BY <1>1, <1>3, <1>4 DEF ClampedLimit

(* A request that counts, at the beginning or after the chain failed *)
LEMMA CountStep ==
    ASSUME LedgerInv, ReaderInv, rows' = rows, NEW limit \in Nat, NEW chain,
           request' = Counted(limit, Skip, chain),
           page' = [page EXCEPT !.loads = page'.loads, !.late = 0],
           page'.loads \in Nat, page'.loads >= 1,
           page.nextCursor = None => page.shown = {}
    PROVE  ReaderInv'
<1>1. /\ page'.nextCursor = page.nextCursor /\ page'.shown = page.shown /\ page'.opened = page.opened
      /\ page'.late = 0 /\ DOMAIN page' = DOMAIN page
  BY DEF ReaderInv, PageInv
<1>2. ShownRows' = ShownRows /\ Skip' = Skip
  BY <1>1 DEF ShownRows, Skip
<1>3. /\ request'.pc = "find" /\ request'.limit = limit /\ request'.skip = Skip
      /\ request'.total = Cardinality(rows) /\ request'.docs = {}
      /\ DOMAIN request' = {"pc", "limit", "skip", "chain", "total", "docs"}
  BY DEF Counted
<1>4. Cardinality(rows) \in Nat
  BY RowsDated DEF LedgerInv
<1>5. RequestInv'
  BY <1>1, <1>2, <1>3, <1>4 DEF RequestInv
<1>6. PageInv'
  BY <1>1, <1>2 DEF ReaderInv, PageInv
<1>7. CursorInv'
  BY <1>1, <1>2, <1>3 DEF ReaderInv, CursorInv, Followed, Newer, Unseen
<1>8. NoEntryMissed'
  BY <1>1, <1>2 DEF ReaderInv, NoEntryMissed, Unseen
<1>9. TailReached'
  BY <1>1 DEF TailReached
<1> QED BY <1>5, <1>6, <1>7, <1>8, <1>9 DEF ReaderInv

LEMMA LoadStep ==
    ASSUME LedgerInv, ReaderInv, UNCHANGED ledgerVars, NEW limit \in QueryLimits, LoadBlocks(limit)
    PROVE  ReaderInv'
<1>1. /\ page.loads \in Nat /\ DOMAIN page = {"nextCursor", "shown", "opened", "late", "loads"}
      /\ page.nextCursor = None => page.shown = {}
  BY ExplorerAssumption DEF LoadBlocks, ReaderInv, PageInv
<1>2. page' = [page EXCEPT !.loads = page.loads + 1, !.late = 0]
  BY DEF LoadBlocks
<1>3. page'.loads = page.loads + 1
  BY <1>1, <1>2
<1>4. request' = Counted(ClampedLimit(limit), Skip, online)
  BY DEF LoadBlocks, Skip
<1>5. rows' = rows
  BY DEF ledgerVars
<1>6. page' = [page EXCEPT !.loads = page'.loads, !.late = 0]
  BY <1>2, <1>3
<1>7. page'.loads \in Nat /\ page'.loads >= 1
  BY <1>1, <1>3
<1>8. PICK l \in Nat : l = ClampedLimit(limit)
  BY ClampedType
<1>9. PICK chain : chain = online
  OBVIOUS
<1> QED BY <1>1, <1>4, <1>5, <1>6, <1>7, <1>8, <1>9, CountStep

LEMMA ChainFailsStep ==
    ASSUME LedgerInv, ReaderInv, UNCHANGED ledgerVars, ChainFails
    PROVE  ReaderInv'
<1>1. /\ request.limit \in Nat /\ request.skip = Skip /\ page.loads >= 1 /\ page.loads \in Nat
      /\ page.nextCursor = None => page.shown = {}
      /\ DOMAIN page = {"nextCursor", "shown", "opened", "late", "loads"}
  BY DEF ChainFails, ReaderInv, RequestInv, PageInv
<1>2. page' = [page EXCEPT !.late = 0] /\ request' = Counted(request.limit, request.skip, FALSE)
  BY DEF ChainFails
<1>3. page'.loads = page.loads
  BY <1>1, <1>2
<1>4. page' = [page EXCEPT !.loads = page'.loads, !.late = 0]
  BY <1>1, <1>2, <1>3
<1>5. rows' = rows
  BY DEF ledgerVars
<1>6. PICK l \in Nat : l = request.limit
  BY <1>1
<1> QED BY <1>1, <1>2, <1>3, <1>4, <1>5, <1>6, CountStep

(* The page of rows that is found continues what is shown *)
LEMMA FindStep ==
    ASSUME LedgerInv, ReaderInv, UNCHANGED ledgerVars, FindRows
    PROVE  ReaderInv'
<1>1. request.pc = "find" /\ rows' = rows
  BY DEF FindRows, ledgerVars
<1>2. /\ request.limit \in Nat /\ request.total \in Nat /\ request.skip = Skip /\ page.late \in Nat
      /\ DOMAIN request = {"pc", "limit", "skip", "chain", "total", "docs"}
      /\ Cardinality(rows) = request.total + page.late /\ page.loads >= 1
  BY <1>1 DEF ReaderInv, RequestInv, PageInv
<1>3. /\ page.nextCursor \in Nat \cup {None} /\ None \notin Int
      /\ page.opened \subseteq rows /\ ShownRows \subseteq rows
      /\ DOMAIN page = {"nextCursor", "shown", "opened", "late", "loads"}
  BY ExplorerAssumption DEF ReaderInv, PageInv
<1>4. request.skip \in Nat
  BY <1>2, <1>3 DEF Skip
<1>5. IsFiniteSet(rows) /\ Cardinality(rows) \in Nat /\ \A r \in rows : r.createdAt \in Nat
  BY RowsDated DEF LedgerInv
<1>6. request.skip = 0 => page.shown = {} /\ ShownRows = {}
  BY <1>1, <1>2, <1>3 DEF Skip, ReaderInv, PageInv, ShownRows
<1>7. request.skip # 0 => page.nextCursor = request.skip /\ page.nextCursor # None
  BY <1>2, <1>3 DEF Skip
<1>8. PICK docs \in PagesOf(request.skip, request.limit) :
         request' = [request EXCEPT !.pc = "roots", !.docs = docs]
  BY DEF FindRows
<1>9. PICK opened : opened = IF request.skip = 0 THEN rows ELSE page.opened
  OBVIOUS
<1>10. PICK shown : shown = ShownRows \cup docs
  OBVIOUS
<1>11. PICK end \in Nat : end = request.skip + request.limit
  BY <1>2, <1>4
<1>12. PICK passed \in FirstRows(request.skip), upTo \in FirstRows(end) :
          passed \subseteq upTo /\ docs = upTo \ passed
  BY <1>8, <1>11 DEF PagesOf
<1>13. /\ upTo \in SUBSET rows /\ IsFiniteSet(upTo) /\ Cardinality(upTo) \in Nat /\ Cardinality(upTo) <= end
       /\ upTo = rows \/ Cardinality(upTo) = end
  BY <1>5, <1>12, FirstCount
<1>14. /\ passed = rows \/ Cardinality(passed) = request.skip
       /\ Cardinality(passed) <= request.skip /\ Cardinality(passed) \in Nat
  BY <1>4, <1>5, <1>12, FirstCount
<1>15. docs \in SUBSET rows /\ opened \subseteq rows
  BY <1>3, <1>9, <1>12, <1>13
<1>16. PICK cursor \in Nat : cursor = request.skip + Cardinality(docs) /\ cursor <= end
  <2>1. Cardinality(docs) = Cardinality(upTo) - Cardinality(passed)
    BY <1>12, <1>13, RestOf
  <2>2. CASE passed = rows
    <3>1. Cardinality(docs) = 0
      BY <1>12, <1>13, <2>2, FS_EmptySet
    <3> QED BY <1>2, <1>4, <1>11, <3>1
  <2>3. CASE Cardinality(passed) = request.skip
    <3>1. Cardinality(upTo) >= Cardinality(passed)
      BY <1>12, <1>13, FS_Subset
    <3> QED BY <1>4, <1>13, <1>14, <2>1, <2>3, <3>1
  <2> QED BY <1>14, <2>2, <2>3
(* An opened row of whose millisecond nothing is shown is beyond the page *)
<1>17. ASSUME NEW r \in opened, \A s \in shown : s.createdAt # r.createdAt
       PROVE  /\ r \in rows /\ r \notin upTo /\ Cardinality(upTo) = end
              /\ Cardinality(Newer(rows, r)) >= end
              /\ \A s \in docs : r.createdAt < s.createdAt
  <2>1. r \in rows /\ Cardinality(Newer(rows, r)) \in Nat
    BY <1>5, <1>15, NewerType
  <2>2. Cardinality(Newer(rows, r)) >= request.skip
    <3>1. CASE request.skip = 0
      BY <2>1, <3>1
    <3>2. CASE request.skip # 0
      <4>1. Followed(ShownRows, page.nextCursor)
        BY <1>7, <3>2 DEF ReaderInv, CursorInv
      <4>2. r \in Unseen(ShownRows)
        BY <1>9, <1>10, <1>17, <3>2 DEF Unseen
      <4> QED BY <1>7, <3>2, <4>1, <4>2 DEF Followed
    <3> QED BY <3>1, <3>2
  <2>3. ASSUME NEW s \in passed PROVE s.createdAt # r.createdAt
    <3>1. s.createdAt = r.createdAt => Cardinality(Newer(rows, r)) < request.skip
      BY <1>4, <1>5, <1>12, <2>1, FirstHas
    <3> QED BY <1>4, <2>1, <2>2, <3>1
  <2>4. \A s \in upTo : s.createdAt # r.createdAt
    BY <1>10, <1>12, <1>17, <2>3
  <2>5. /\ r \notin upTo /\ Cardinality(upTo) = end /\ Cardinality(Newer(rows, r)) >= end
        /\ \A s \in upTo : r.createdAt < s.createdAt
    BY <1>5, <1>12, <2>1, <2>4, FirstHasNot
  <2> QED BY <1>12, <2>1, <2>5
<1>18. PICK unseen : unseen = {r \in opened : \A s \in shown : s.createdAt # r.createdAt}
  OBVIOUS
<1>19. cursor >= request.total => Cardinality(unseen) <= page.late
  <2>1. CASE unseen = {}
    BY <1>2, <2>1, FS_EmptySet
  <2>2. CASE unseen # {}
    <3>1. Cardinality(upTo) = end
      BY <1>17, <1>18, <2>2
    <3>2. unseen \in SUBSET (rows \ upTo)
      BY <1>17, <1>18
    <3>3. IsFiniteSet(rows \ upTo) /\ Cardinality(rows \ upTo) = Cardinality(rows) - Cardinality(upTo)
      BY <1>5, <1>13, RestOf, FS_Subset
    <3>4. Cardinality(unseen) <= Cardinality(rows \ upTo) /\ Cardinality(unseen) \in Nat
      BY <3>2, <3>3, FS_Subset, FS_CardinalityType
    <3> QED BY <1>2, <1>5, <1>13, <1>16, <3>1, <3>3, <3>4
  <2> QED BY <2>1, <2>2
<1>20. /\ page'.nextCursor = page.nextCursor /\ page'.shown = page.shown /\ page'.opened = opened
       /\ page'.late = page.late /\ page'.loads = page.loads /\ DOMAIN page' = DOMAIN page
  BY <1>3, <1>9 DEF FindRows
<1>21. /\ request'.pc = "roots" /\ request'.docs = docs /\ request'.skip = request.skip
       /\ request'.limit = request.limit /\ request'.total = request.total
       /\ DOMAIN request' = DOMAIN request
  BY <1>2, <1>8
<1>22. ShownRows' = ShownRows /\ Skip' = Skip
  BY <1>20 DEF ShownRows, Skip
<1>23. RequestInv'
  BY <1>1, <1>2, <1>15, <1>20, <1>21, <1>22 DEF RequestInv
<1>24. PageInv'
  BY <1>1, <1>3, <1>15, <1>20, <1>22 DEF ReaderInv, PageInv
<1>25. ASSUME NEW r \in unseen, NEW s \in shown PROVE r.createdAt < s.createdAt
  <2>1. CASE s \in docs
    BY <1>17, <1>18, <2>1
  <2>2. CASE s \in ShownRows
    <3>1. request.skip # 0
      BY <1>6, <2>2
    <3>2. r \in Unseen(ShownRows)
      BY <1>9, <1>10, <1>18, <3>1 DEF Unseen
    <3> QED BY <2>2, <3>2 DEF ReaderInv, NoEntryMissed
  <2> QED BY <1>10, <2>1, <2>2
<1>26. Unseen(shown)' = unseen
  BY <1>18, <1>20 DEF Unseen
<1>27. CursorInv'
  <2>1. page.nextCursor # None => Followed(ShownRows, page.nextCursor)'
    <3>1. CASE request.skip = 0
      <4> SUFFICES ASSUME page.nextCursor # None, NEW r \in opened
                   PROVE  Cardinality(Newer(rows, r)) >= page.nextCursor
        BY <1>1, <1>6, <1>20, <1>22, <3>1 DEF Followed, Newer, Unseen
      <4>1. page.nextCursor = 0
        BY <1>2, <3>1 DEF Skip
      <4>2. Cardinality(Newer(rows, r)) \in Nat
        BY <1>5, NewerType
      <4> QED BY <4>1, <4>2
    <3>2. CASE request.skip # 0
      <4>1. page'.opened = page.opened
        BY <1>9, <1>20, <3>2
      <4> QED BY <1>1, <1>20, <1>22, <4>1 DEF ReaderInv, CursorInv, Followed, Newer, Unseen
    <3> QED BY <3>1, <3>2
  <2>2. ASSUME NEW r \in unseen PROVE Cardinality(Newer(rows, r)) >= cursor
    <3>1. Cardinality(Newer(rows, r)) >= end /\ Cardinality(Newer(rows, r)) \in Nat
      BY <1>5, <1>17, <1>18, NewerType
    <3> QED BY <1>16, <3>1
  <2>3. Followed(shown, cursor)'
    BY <1>1, <1>25, <1>26, <2>2 DEF Followed, Newer
  <2>4. /\ (ShownRows \cup request.docs)' = shown
        /\ (request.skip + Cardinality(request.docs))' = cursor /\ request'.total = request.total
    BY <1>10, <1>16, <1>21, <1>22
  <2>5. Followed(ShownRows \cup request.docs, request.skip + Cardinality(request.docs))'
    BY <2>3, <2>4 DEF Followed, Unseen, Newer
  <2>6. Unseen(ShownRows \cup request.docs)' = unseen
    BY <1>26, <2>4 DEF Unseen
  <2> QED BY <1>19, <1>20, <2>1, <2>4, <2>5, <2>6 DEF CursorInv
<1>28. NoEntryMissed'
  <2>1. CASE request.skip = 0
    BY <1>6, <1>22, <2>1 DEF NoEntryMissed
  <2>2. CASE request.skip # 0
    BY <1>9, <1>20, <1>22, <2>2 DEF ReaderInv, NoEntryMissed, Unseen
  <2> QED BY <2>1, <2>2
<1>29. TailReached'
  BY <1>1, <1>20 DEF ReaderInv, PageInv, TailReached
<1> QED BY <1>23, <1>24, <1>27, <1>28, <1>29 DEF ReaderInv

(* The blocks an answer adds are of the rows that were found *)
LEMMA BlocksAdded ==
    ASSUME NEW found, AppendBlocks(found), PageInv
    PROVE  /\ ShownRows' = ShownRows \cup request.docs
           /\ page'.nextCursor = NextCursor(request.skip, request.docs, request.total)
           /\ page'.opened = page.opened /\ page'.late = page.late /\ page'.loads = page.loads
           /\ DOMAIN page' = DOMAIN page
           /\ request.docs = {} => page'.shown = page.shown
<1> DEFINE entry(row) == resolveLedgerEntry(row, rootDocs, row \in found)
           blocks == {entry(row) : row \in request.docs}
<1>1. \A row : entry(row).row = row
  BY DEF resolveLedgerEntry, localBlock
<1>2. page' = [page EXCEPT !.shown = @ \cup blocks,
                           !.nextCursor = NextCursor(request.skip, request.docs, request.total)]
  BY DEF AppendBlocks
<1> HIDE DEF entry
<1>3. \A row : row \in request.docs <=> \E block \in blocks : block.row = row
  BY <1>1
<1> HIDE DEF blocks
<1>4. /\ page'.shown = page.shown \cup blocks
      /\ page'.nextCursor = NextCursor(request.skip, request.docs, request.total)
      /\ page'.opened = page.opened /\ page'.late = page.late /\ page'.loads = page.loads
      /\ DOMAIN page' = DOMAIN page
  BY <1>2 DEF PageInv
<1>5. request.docs = {} <=> blocks = {}
  <2>1. request.docs = {} => blocks = {}
    BY DEF blocks
  <2> QED BY <1>3, <2>1
<1>6. \A row : row \in ShownRows' <=> row \in ShownRows \cup request.docs
  BY <1>3, <1>4 DEF ShownRows
<1> QED BY <1>4, <1>5, <1>6

LEMMA AppendStep ==
    ASSUME LedgerInv, ReaderInv, UNCHANGED ledgerVars, NEW found, AppendBlocks(found)
    PROVE  ReaderInv'
<1>1. request.pc = "roots" /\ request' = NoRequest /\ rows' = rows
  BY DEF AppendBlocks, ledgerVars
<1>2. PICK d, s, o : d = request.docs /\ s = ShownRows \cup request.docs /\ o = page.opened
  OBVIOUS
<1>0. PageInv
  BY DEF ReaderInv
<1>3. /\ ShownRows' = s /\ page'.nextCursor = NextCursor(request.skip, d, request.total)
      /\ page'.opened = o /\ page'.late = page.late /\ page'.loads = page.loads
      /\ DOMAIN page' = DOMAIN page
      /\ d = {} => page'.shown = page.shown
  BY <1>0, <1>2, BlocksAdded
<1>4. /\ request.total \in Nat /\ request.skip = Skip /\ d \in SUBSET rows /\ page.loads >= 1
  BY <1>1, <1>2 DEF ReaderInv, RequestInv
<1>5. /\ page.nextCursor \in Nat \cup {None} /\ None \notin Int /\ page.late \in Nat /\ page.loads \in Nat
      /\ o \subseteq rows /\ s \subseteq rows
      /\ DOMAIN page = {"nextCursor", "shown", "opened", "late", "loads"}
  BY <1>1, <1>2, <1>4, ExplorerAssumption DEF ReaderInv, PageInv
<1>6. request.skip \in Nat /\ (request.skip = 0 => page.shown = {})
  BY <1>1, <1>4, <1>5 DEF Skip, ReaderInv, PageInv
<1>7. IsFiniteSet(d) /\ Cardinality(d) \in Nat /\ (Cardinality(d) = 0 => d = {})
  BY <1>4, RowsDated, FS_Subset, FS_CardinalityType, FS_EmptySet DEF LedgerInv
<1>8. PICK c \in Nat : c = request.skip + Cardinality(d)
  BY <1>6, <1>7
<1>9. Followed(s, c) /\ (c >= request.total => Cardinality(Unseen(s)) <= page.late)
  BY <1>1, <1>2, <1>8 DEF ReaderInv, CursorInv
<1>10. page'.nextCursor = IF c < request.total THEN c ELSE None
  BY <1>3, <1>8 DEF NextCursor
<1>11. page'.nextCursor = 0 => page'.shown = {}
  <2>1. page'.nextCursor = 0 => c = 0
    BY <1>5, <1>10
  <2>2. c = 0 => request.skip = 0 /\ Cardinality(d) = 0
    BY <1>6, <1>7, <1>8
  <2> QED BY <1>3, <1>6, <1>7, <2>1, <2>2
<1>12. RequestInv'
  BY <1>1 DEF NoRequest, RequestInv
<1>13. PageInv'
  <2>1. ~ (request'.pc # "none" \/ page'.loads = 0)
    BY <1>1, <1>3, <1>4, <1>5 DEF NoRequest
  <2>2. page'.nextCursor \in Nat \cup {None}
    BY <1>10
  <2> QED BY <1>1, <1>3, <1>5, <1>11, <2>1, <2>2 DEF PageInv
<1>14. CursorInv'
  <2>1. page'.nextCursor # None => page'.nextCursor = c
    BY <1>10
  <2>2. Followed(s, c)'
    BY <1>1, <1>2, <1>3, <1>9 DEF Followed, Newer, Unseen
  <2>3. page'.nextCursor # None => Followed(ShownRows, page.nextCursor)'
    BY <1>3, <2>1, <2>2 DEF Followed, Newer, Unseen
  <2> QED BY <1>1, <2>3 DEF NoRequest, CursorInv
<1>15. NoEntryMissed'
  BY <1>2, <1>3, <1>9 DEF Followed, NoEntryMissed, Unseen
<1>16. TailReached'
  <2>1. page'.nextCursor = None => c >= request.total
    BY <1>4, <1>5, <1>8, <1>10
  <2>2. Unseen(ShownRows)' = Unseen(s)
    BY <1>2, <1>3 DEF Unseen
  <2> QED BY <1>3, <1>9, <2>1, <2>2 DEF TailReached
<1> QED BY <1>12, <1>13, <1>14, <1>15, <1>16 DEF ReaderInv

LEMMA LoadFailsStep ==
    ASSUME LedgerInv, ReaderInv, UNCHANGED ledgerVars, LoadFails
    PROVE  ReaderInv'
<1>1. request.pc # "none" /\ request' = NoRequest /\ rows' = rows
  BY DEF LoadFails, ledgerVars
<1>2. RequestInv'
  BY <1>1 DEF NoRequest, RequestInv
<1>3. CASE page.shown = {}
  <2>1. page' = NoPage
    BY <1>3 DEF LoadFails
  <2>2. /\ page'.nextCursor = None /\ page'.shown = {} /\ page'.opened = {} /\ page'.late = 0
        /\ page'.loads = 0 /\ DOMAIN page' = {"nextCursor", "shown", "opened", "late", "loads"}
        /\ None \notin Int
    BY <2>1, ExplorerAssumption DEF NoPage
  <2>3. ShownRows' = {}
    BY <2>2 DEF ShownRows
  <2>4. PageInv'
    BY <2>2, <2>3 DEF PageInv
  <2>5. CursorInv' /\ NoEntryMissed' /\ TailReached'
    BY <1>1, <2>2, <2>3 DEF NoRequest, CursorInv, NoEntryMissed, TailReached, Unseen
  <2> QED BY <1>2, <2>4, <2>5 DEF ReaderInv
<1>4. CASE page.shown # {}
  <2>1. page' = page /\ ShownRows' = ShownRows
    BY <1>4 DEF LoadFails, ShownRows
  <2>2. page.loads # 0
    <3>1. page.loads \in Nat /\ page.loads >= 1
      BY <1>1 DEF ReaderInv, RequestInv, PageInv
    <3> QED BY <3>1
  <2>3. PageInv'
    BY <1>1, <2>1, <2>2 DEF NoRequest, ReaderInv, PageInv
  <2>4. CursorInv'
    BY <1>1, <2>1 DEF NoRequest, ReaderInv, CursorInv, Followed, Newer, Unseen
  <2>5. NoEntryMissed' /\ TailReached'
    BY <2>1 DEF ReaderInv, NoEntryMissed, TailReached, Unseen
  <2> QED BY <1>2, <2>3, <2>4, <2>5 DEF ReaderInv
<1> QED BY <1>3, <1>4

-----------------------------------------------------------------------------
(* The root changes on the page *)
LEMMA ChangesKept ==
    ASSUME LedgerInv, LedgerInv', PageInv, RootChangesTrue, page'.shown \subseteq page.shown,
           Len(rootDocs) <= Len(rootDocs'), \A i \in 1..Len(rootDocs) : rootDocs'[i] = rootDocs[i]
    PROVE  RootChangesTrue'
<1>1. Len(rootDocs) \in Nat /\ Len(rootDocs') \in Nat
  BY DEF LedgerInv, RootDocsInv
<1>2. ASSUME NEW block \in page'.shown PROVE TrueOf(block.row, block.rootChanges)'
  <2>1. PICK row, changes : row = block.row /\ changes = block.rootChanges
    OBVIOUS
  <2>2. TrueOf(row, changes)
    BY <2>1 DEF RootChangesTrue, TrueOf
  <2>3. RowOK(row)
    BY <2>1 DEF ShownRows, PageInv, LedgerInv, RowsInv, Stamped
  <2>4. TrueOf(row, changes)'
    BY <1>1, <2>2, <2>3, TrueKept
  <2> QED BY <2>1, <2>4 DEF TrueOf
<1> QED BY <1>2 DEF RootChangesTrue, TrueOf

LEMMA ChangesAppended ==
    ASSUME LedgerInv, ReaderInv, RootChangesTrue, UNCHANGED ledgerVars, NEW found, AppendBlocks(found)
    PROVE  RootChangesTrue'
<1> DEFINE entry(row) == resolveLedgerEntry(row, rootDocs, row \in found)
           blocks == {entry(row) : row \in request.docs}
<1>1. request.pc = "roots" /\ rootDocs' = rootDocs
  BY DEF AppendBlocks, ledgerVars
<1>2. page'.shown = page.shown \cup blocks
  BY DEF AppendBlocks, ReaderInv, PageInv
<1>3. ASSUME NEW row \in request.docs
      PROVE  TrueOf(entry(row).row, entry(row).rootChanges)
  <2>1. RootDocsInv /\ RowOK(row)
    BY <1>1 DEF ReaderInv, RequestInv, LedgerInv, RowsInv, Stamped
  <2>2. TrueOf(row, ledgerStateChanges(row, rootDocs)) /\ TrueOf(row, changesFromEvents(row, rootDocs))
    BY <2>1, LedgerChangesTrue, EventChangesTrue
  <2>3. /\ entry(row).row = row
        /\ entry(row).rootChanges \in {ledgerStateChanges(row, rootDocs), changesFromEvents(row, rootDocs)}
    BY DEF resolveLedgerEntry, localBlock
  <2> QED BY <2>2, <2>3
<1> HIDE DEF entry
<1>4. \A block \in blocks : TrueOf(block.row, block.rootChanges)
  BY <1>3
<1> HIDE DEF blocks
<1>5. \A block \in page'.shown : TrueOf(block.row, block.rootChanges)
  BY <1>2, <1>4 DEF RootChangesTrue, TrueOf
<1> QED BY <1>1, <1>5 DEF RootChangesTrue, TrueOf

-----------------------------------------------------------------------------
LEMMA RootsAppended ==
    ASSUME LedgerInv, LedgerAction
    PROVE  Len(rootDocs) <= Len(rootDocs') /\ \A i \in 1..Len(rootDocs) : rootDocs'[i] = rootDocs[i]
<1>1. rootDocs \in Seq(RootDoc) /\ Len(rootDocs) \in Nat
  BY DEF LedgerInv, RootDocsInv
<1>2. rootDocs' = rootDocs \/ \E doc : rootDocs' = Append(rootDocs, doc)
  BY DEF LedgerAction, ApproveBegins, BuyBegins, LogSection, LogOther, RegisterRecord, RecordRootDoc,
         SectionOver, InsertRow
<1>3. CASE rootDocs' = rootDocs
  BY <1>1, <1>3
<1>4. ASSUME NEW doc, rootDocs' = Append(rootDocs, doc)
      PROVE  Len(rootDocs) <= Len(rootDocs') /\ \A i \in 1..Len(rootDocs) : rootDocs'[i] = rootDocs[i]
  BY <1>1, <1>4
<1> QED BY <1>2, <1>3, <1>4

LEMMA ExplorerInitially == ExplorerInit => ExplorerInv
BY LedgerInitially, ReaderInitially DEF ExplorerInv

LEMMA ExplorerStep == ExplorerInv /\ [ExplorerNext]_explorerVars => ExplorerInv'
<1> SUFFICES ASSUME ExplorerInv, [ExplorerNext]_explorerVars PROVE ExplorerInv'
  OBVIOUS
<1>0. LedgerInv /\ ReaderInv /\ PageInv /\ RootChangesTrue /\ LedgerInv'
  BY LedgerStepInv DEF ExplorerInv, ReaderInv
<1>1. CASE LedgerStep
  <2>1. LedgerAction
    BY <1>1 DEF LedgerStep
  <2>2. ReaderInv'
    BY <1>0, <2>1, ReaderDuringLedger
  <2>3. page'.shown = page.shown
    BY <1>0, <2>1 DEF LedgerAction, InsertRow, PageInv
  <2>4. RootChangesTrue'
    BY <1>0, <2>1, <2>3, RootsAppended, ChangesKept
  <2> QED BY <1>0, <2>2, <2>4 DEF ExplorerInv
<1>2. CASE ReaderStep
  <2>1. UNCHANGED ledgerVars /\ rootDocs' = rootDocs
    BY <1>2 DEF ReaderStep, ledgerVars
  <2>2. (\E limit \in QueryLimits : LoadBlocks(limit)) \/ FindRows \/ ChainFails \/ LoadFails
        => RootChangesTrue'
    <3>1. (\E limit \in QueryLimits : LoadBlocks(limit)) \/ FindRows \/ ChainFails \/ LoadFails
          => page'.shown \subseteq page.shown
      <4>1. (\E limit \in QueryLimits : LoadBlocks(limit)) \/ ChainFails => page'.shown = page.shown
        BY <1>0 DEF LoadBlocks, ChainFails, PageInv
      <4>2. FindRows => page'.shown = page.shown
        BY <1>0 DEF FindRows, PageInv
      <4>3. LoadFails => page'.shown \subseteq page.shown
        BY DEF LoadFails, NoPage
      <4> QED BY <4>1, <4>2, <4>3
    <3>2. Len(rootDocs) <= Len(rootDocs')
      BY <1>0, <2>1 DEF LedgerInv, RootDocsInv
    <3> QED BY <1>0, <2>1, <3>1, <3>2, ChangesKept
  <2>3. ASSUME NEW limit \in QueryLimits, LoadBlocks(limit) PROVE ExplorerInv'
    BY <1>0, <2>1, <2>2, <2>3, LoadStep DEF ExplorerInv
  <2>4. ASSUME FindRows PROVE ExplorerInv'
    BY <1>0, <2>1, <2>2, <2>4, FindStep DEF ExplorerInv
  <2>5. ASSUME ChainFails PROVE ExplorerInv'
    BY <1>0, <2>1, <2>2, <2>5, ChainFailsStep DEF ExplorerInv
  <2>6. ASSUME LoadFails PROVE ExplorerInv'
    BY <1>0, <2>1, <2>2, <2>6, LoadFailsStep DEF ExplorerInv
  <2>7. ASSUME NEW found, AppendBlocks(found) PROVE ExplorerInv'
    BY <1>0, <2>1, <2>7, AppendStep, ChangesAppended DEF ExplorerInv
  <2> QED BY <1>2, <2>3, <2>4, <2>5, <2>6, <2>7 DEF ReaderStep
<1>3. CASE UNCHANGED explorerVars
  <2>1. /\ rows' = rows /\ rootDocs' = rootDocs /\ request' = request /\ page' = page
        /\ ShownRows' = ShownRows /\ Skip' = Skip
    BY <1>3 DEF explorerVars, ledgerVars, ShownRows, Skip
  <2>2. ReaderInv'
    BY <1>0, <2>1 DEF ReaderInv, RequestInv, PageInv, CursorInv, Followed, Newer, Unseen, NoEntryMissed, TailReached
  <2>3. RootChangesTrue'
    BY <1>0, <2>1 DEF RootChangesTrue
  <2> QED BY <1>0, <2>2, <2>3 DEF ExplorerInv
<1> QED BY <1>1, <1>2, <1>3 DEF ExplorerNext

-----------------------------------------------------------------------------
(* explorer.service.ts:298-301: no row that was there when the explorer was opened is *)
(* passed over without one of its millisecond being shown, whatever rows arrive       *)
(* between the four reads of a page and between two pages, in whatever order each     *)
(* query returns rows of one millisecond, and whatever page sizes are asked for. *)
THEOREM NothingMissed == ExplorerSpec => []NoEntryMissed
<1>1. ExplorerInv => NoEntryMissed
  BY DEF ExplorerInv, ReaderInv
<1> QED BY <1>1, ExplorerInitially, ExplorerStep, PTL DEF ExplorerSpec

(* explorer.service.ts:317: when a page offers no older blocks, the rows it was opened *)
(* on and of whose millisecond it shows none are at most as many as the rows inserted  *)
(* between its last count and find. *)
THEOREM TailIsReached == ExplorerSpec => []TailReached
<1>1. ExplorerInv => TailReached
  BY DEF ExplorerInv, ReaderInv
<1> QED BY <1>1, ExplorerInitially, ExplorerStep, PTL DEF ExplorerSpec

(* explorer.service.ts:87, 173: the root changes a block is shown with are its own for *)
(* an approval, not older than its own for a purchase, and none for any other row. *)
THEOREM RootChangesAreTrue == ExplorerSpec => []RootChangesTrue
<1>1. ExplorerInv => RootChangesTrue
  BY DEF ExplorerInv
<1> QED BY <1>1, ExplorerInitially, ExplorerStep, PTL DEF ExplorerSpec
=============================================================================
