------------------------ MODULE LandRegistry_proofs -------------------------
(***************************************************************************)
(* Proofs about the contract, for every set of lands, owners, salts and    *)
(* verifiers, every tree size and every length of history.                 *)
(***************************************************************************)
EXTENDS LandRegistry, TLAPS

(* What every transaction does to the log: it is only ever extended. *)
LogGrows ==
    /\ events' \in Seq(Event)
    /\ Len(events) <= Len(events')
    /\ \A k \in DOMAIN events : events'[k] = events[k]

-----------------------------------------------------------------------------
(* Appending one event, and the two of a bootstrap. *)
LEMMA AppendOne ==
    ASSUME NEW e \in Event, events \in Seq(Event)
    PROVE  /\ Append(events, e) \in Seq(Event)
           /\ Len(Append(events, e)) = Len(events) + 1
           /\ Append(events, e)[Len(events) + 1] = e
           /\ \A k \in 1..Len(events) : Append(events, e)[k] = events[k]
  OBVIOUS

(* Every event the contract emits is an Event. *)
LEMMA EventTypes ==
    /\ \A v \in Address : VerifierUpdated(v) \in Event /\ RootVerifierUpdated(v) \in Event
    /\ \A r \in Root : MerkleRootUpdated(r) \in Event /\ MerkleRootBootstrapped(r) \in Event
    /\ \A h \in LandHash : LandRegistered(h) \in Event /\ LandDisputed(h) \in Event
    /\ \A h \in LandHash, n \in Nullifier : LandTransferred(h, n) \in Event
  BY DEF Event

(* A transaction that is not reverted keeps the declared types, zero included, *)
(* and only extends the log. *)
LEMMA StepTypes ==
    ASSUME TypeOK, [Next]_vars
    PROVE  TypeOK' /\ LogGrows
<1> USE DEF TypeOK, LogGrows
<1>1. CASE UNCHANGED vars
  BY <1>1 DEF vars
<1>2. ASSUME NEW v \in Address \cup {Nil}, setVerifier(v)
      PROVE  TypeOK' /\ LogGrows
  <2>1. v \in Address /\ VerifierUpdated(v) \in Event
    BY <1>2, EventTypes DEF setVerifier
  <2> QED
    BY <1>2, <2>1, AppendOne DEF setVerifier
<1>3. ASSUME NEW v \in Address \cup {Nil}, setRootVerifier(v)
      PROVE  TypeOK' /\ LogGrows
  <2>1. v \in Address /\ RootVerifierUpdated(v) \in Event
    BY <1>3, EventTypes DEF setRootVerifier
  <2> QED
    BY <1>3, <2>1, AppendOne DEF setRootVerifier
<1>4. ASSUME NEW r \in RootWord, bootstrapRoot(r)
      PROVE  TypeOK' /\ LogGrows
  <2>1. r \in Root /\ MerkleRootBootstrapped(r) \in Event /\ MerkleRootUpdated(r) \in Event
    BY <1>4, EventTypes DEF bootstrapRoot, set, RootWord
  <2> QED
    BY <1>4, <2>1 DEF bootstrapRoot, set
<1>5. ASSUME NEW r \in RootWord, NEW t \in TransitionSignals, updateMerkleRoot(r, t)
      PROVE  TypeOK' /\ LogGrows
  <2>1. r \in Root /\ MerkleRootUpdated(r) \in Event
    BY <1>5, EventTypes DEF updateMerkleRoot, _anchorRoot, set, RootWord
  <2> QED
    BY <1>5, <2>1, AppendOne DEF updateMerkleRoot, _anchorRoot, set
<1>6. ASSUME NEW h \in LandHash \cup {Nil}, NEW f \in Field \cup {Nil}, registerLand(h, f)
      PROVE  TypeOK' /\ LogGrows
  <2>1. h \in LandHash /\ f \in Field /\ LandRegistered(h) \in Event
    BY <1>6, EventTypes DEF registerLand
  <2>2. lands' \in [LandHash -> LandRecord]
    BY <1>6, <2>1 DEF registerLand, LandRecord
  <2> QED
    BY <1>6, <2>1, <2>2, AppendOne DEF registerLand
<1>7. ASSUME NEW h \in LandHash, NEW b \in Buyer \cup {Nil}, NEW salt \in Salt,
             NEW s \in OwnershipSignals, verifyAndTransfer(h, b, salt, s)
      PROVE  TypeOK' /\ LogGrows
  <2>1. s.nullifier \in Nullifier /\ LandTransferred(h, s.nullifier) \in Event
    BY EventTypes DEF OwnershipSignals
  <2>2. lands' \in [LandHash -> LandRecord]
    BY <1>7 DEF verifyAndTransfer, LandRecord
  <2> QED
    BY <1>7, <2>1, <2>2, AppendOne DEF verifyAndTransfer
<1>8. ASSUME NEW h \in LandHash, markDisputed(h)
      PROVE  TypeOK' /\ LogGrows
  <2>1. LandDisputed(h) \in Event
    BY EventTypes
  <2>2. lands' \in [LandHash -> LandRecord]
    BY <1>8 DEF markDisputed, LandRecord
  <2> QED
    BY <1>8, <2>1, <2>2, AppendOne DEF markDisputed
<1> QED
  BY <1>1, <1>2, <1>3, <1>4, <1>5, <1>6, <1>7, <1>8 DEF Next

LEMMA InitTypes == Init => TypeOK
<1> SUFFICES ASSUME Init PROVE TypeOK
  OBVIOUS
<1>1. NoRecord \in LandRecord
  BY DEF NoRecord, LandRecord
<1> QED
  BY <1>1, RegistryAssumption DEF Init, TypeOK

(* The storage of LandRegistry.sol keeps its types, and zero is never anchored as a root. *)
THEOREM TypeCorrect == Spec => []TypeOK
<1>1. TypeOK /\ [Next]_vars => TypeOK'
  BY StepTypes
<1> QED
  BY <1>1, InitTypes, PTL DEF Spec

-----------------------------------------------------------------------------
(* Reading an extended log: what was said of its past stands. *)
LEMMA PastStands ==
    ASSUME TypeOK, LogGrows
    PROVE  /\ \A i \in 1..Len(events) : \A name : Is(i, name)' <=> Is(i, name)
           /\ \A i \in 1..(Len(events) + 1) : \A r : AnchoredBefore(i, r)' <=> AnchoredBefore(i, r)
<1>1. /\ Len(events) \in Nat /\ DOMAIN events = 1..Len(events)
      /\ Len(events') \in Nat /\ DOMAIN events' = 1..Len(events')
      /\ Len(events) <= Len(events')
      /\ \A k \in 1..Len(events) : events'[k] = events[k]
  BY DEF TypeOK, LogGrows
<1>2. ASSUME NEW i \in 1..Len(events), NEW name
      PROVE  Is(i, name)' <=> Is(i, name)
  BY <1>1 DEF Is
<1>3. ASSUME NEW i \in 1..(Len(events) + 1), NEW r
      PROVE  AnchoredBefore(i, r)' <=> AnchoredBefore(i, r)
  BY <1>1 DEF AnchoredBefore, Is
<1> QED
  BY <1>2, <1>3

(* Logging anything but a root leaves the root in force. *)
LEMMA RootStays ==
    ASSUME TypeOK, NEW e \in Event, events' = Append(events, e), e.event # "MerkleRootUpdated",
           RootsMatchLog, UNCHANGED <<latestRoot, knownRoots>>
    PROVE  RootsMatchLog'
<1>1. /\ Len(events) \in Nat /\ Len(events') = Len(events) + 1
      /\ DOMAIN events = 1..Len(events) /\ DOMAIN events' = 1..Len(events')
      /\ events'[Len(events')] = e
      /\ \A k \in 1..Len(events) : events'[k] = events[k]
  BY AppendOne DEF TypeOK
<1>2. AnchoredBefore(Len(events) + 1, latestRoot)'
  BY <1>1 DEF RootsMatchLog, AnchoredBefore, Is
<1>3. knownRoots' = {events'[i].root : i \in {k \in DOMAIN events' : Is(k, "MerkleRootUpdated")'}}
  BY <1>1 DEF RootsMatchLog, Is
<1> QED
  BY <1>2, <1>3 DEF RootsMatchLog

(* A logged root is the one in force, and the only one that is new. *)
LEMMA RootMoves ==
    ASSUME TypeOK, NEW r \in Root, RootsMatchLog, set(r),
           \/ events' = Append(events, MerkleRootUpdated(r))
           \/ events' = Append(Append(events, MerkleRootBootstrapped(r)), MerkleRootUpdated(r))
    PROVE  RootsMatchLog'
<1> DEFINE n == Len(events')
           Logged == {k \in DOMAIN events : Is(k, "MerkleRootUpdated")}
<1>0. MerkleRootBootstrapped(r) \in Event /\ MerkleRootUpdated(r) \in Event
  BY EventTypes
<1>1. /\ Len(events) \in Nat /\ n \in Nat /\ n \in {Len(events) + 1, Len(events) + 2}
      /\ DOMAIN events = 1..Len(events) /\ DOMAIN events' = 1..n
      /\ events'[n] = MerkleRootUpdated(r)
      /\ \A k \in 1..Len(events) : events'[k] = events[k]
      /\ n = Len(events) + 2 => events'[Len(events) + 1] = MerkleRootBootstrapped(r)
  BY <1>0 DEF TypeOK
<1> HIDE DEF n
<1>2. /\ events'[n].event = "MerkleRootUpdated" /\ events'[n].root = r
      /\ \A k \in 1..(n - 1) : k \in 1..Len(events) \/ events'[k].event # "MerkleRootUpdated"
  BY <1>1 DEF MerkleRootUpdated, MerkleRootBootstrapped
<1>3. AnchoredBefore(Len(events) + 1, latestRoot)'
  <2>1. n \in 1..((n + 1) - 1) /\ \A k \in (n + 1)..((n + 1) - 1) : FALSE
    BY <1>1
  <2>2. \E j \in 1..((n + 1) - 1) :
           /\ j \in DOMAIN events' /\ events'[j].event = "MerkleRootUpdated"
           /\ events'[j].root = latestRoot'
           /\ \A k \in (j + 1)..((n + 1) - 1) :
                 ~(k \in DOMAIN events' /\ events'[k].event = "MerkleRootUpdated")
    BY <1>1, <1>2, <2>1 DEF set
  <2> QED
    BY <2>2 DEF AnchoredBefore, Is, n
<1>4. {k \in DOMAIN events' : Is(k, "MerkleRootUpdated")'} = Logged \cup {n}
  BY <1>1, <1>2 DEF Is
<1>5. {events'[i].root : i \in Logged \cup {n}} = {events[i].root : i \in Logged} \cup {r}
  <2>1. \A i \in Logged : events'[i] = events[i]
    BY <1>1
  <2> HIDE DEF Logged
  <2> QED
    BY <1>2, <2>1
<1> QED
  BY <1>3, <1>4, <1>5 DEF RootsMatchLog, set

(* MerkleRootStore: latestRoot is the last logged root and knownRoots are the logged ones. *)
THEOREM RootsFollowLog == Spec => []RootsMatchLog
<1>1. Init => RootsMatchLog
  BY DEF Init, RootsMatchLog, AnchoredBefore, Is
<1>2. ASSUME TypeOK, RootsMatchLog, [Next]_vars
      PROVE  RootsMatchLog'
  <2>1. CASE UNCHANGED vars
    BY <1>2, <2>1 DEF vars, RootsMatchLog, AnchoredBefore, Is
  <2>2. ASSUME NEW v \in Address \cup {Nil}, setVerifier(v) \/ setRootVerifier(v)
        PROVE  RootsMatchLog'
    <3>1. v \in Address
      BY <2>2 DEF setVerifier, setRootVerifier
    <3>2. CASE setVerifier(v)
      BY <1>2, <3>1, <3>2, EventTypes, RootStays DEF setVerifier, VerifierUpdated
    <3>3. CASE setRootVerifier(v)
      BY <1>2, <3>1, <3>3, EventTypes, RootStays DEF setRootVerifier, RootVerifierUpdated
    <3> QED
      BY <2>2, <3>2, <3>3
  <2>3. ASSUME NEW r \in RootWord, bootstrapRoot(r)
        PROVE  RootsMatchLog'
    <3>1. r \in Root
      BY <2>3 DEF bootstrapRoot, set, RootWord
    <3> QED
      BY <1>2, <2>3, <3>1, RootMoves DEF bootstrapRoot
  <2>4. ASSUME NEW r \in RootWord, NEW t \in TransitionSignals, updateMerkleRoot(r, t)
        PROVE  RootsMatchLog'
    <3>1. r \in Root
      BY <2>4 DEF updateMerkleRoot, _anchorRoot, set, RootWord
    <3> QED
      BY <1>2, <2>4, <3>1, RootMoves DEF updateMerkleRoot, _anchorRoot
  <2>5. ASSUME NEW h \in LandHash \cup {Nil}, NEW f \in Field \cup {Nil}, registerLand(h, f)
        PROVE  RootsMatchLog'
    <3>1. h \in LandHash
      BY <2>5 DEF registerLand
    <3> QED
      BY <1>2, <2>5, <3>1, EventTypes, RootStays DEF registerLand, LandRegistered
  <2>6. ASSUME NEW h \in LandHash, NEW b \in Buyer \cup {Nil}, NEW salt \in Salt,
               NEW s \in OwnershipSignals, verifyAndTransfer(h, b, salt, s)
        PROVE  RootsMatchLog'
    <3>1. s.nullifier \in Nullifier
      BY DEF OwnershipSignals
    <3> QED
      BY <1>2, <2>6, <3>1, EventTypes, RootStays DEF verifyAndTransfer, LandTransferred
  <2>7. ASSUME NEW h \in LandHash, markDisputed(h)
        PROVE  RootsMatchLog'
    BY <1>2, <2>7, EventTypes, RootStays DEF markDisputed, LandDisputed
  <2> QED
    BY <1>2, <2>1, <2>2, <2>3, <2>4, <2>5, <2>6, <2>7 DEF Next
<1> QED
  BY <1>1, <1>2, TypeCorrect, PTL DEF Spec

-----------------------------------------------------------------------------
(* The events of this step that have this name *)
NewEvent(name) == {k \in DOMAIN events' \ DOMAIN events : events'[k].event = name}

(* A transaction that touches neither parcels nor nullifiers *)
OtherThanParcels ==
    /\ UNCHANGED <<lands, usedNullifiers>>
    /\ NewEvent("LandRegistered") = {} /\ NewEvent("LandTransferred") = {}
    /\ NewEvent("LandDisputed") = {}

(* A transaction that logs e and nothing else *)
LogsOnly(e) ==
    /\ DOMAIN events = 1..Len(events) /\ Len(events) \in Nat
    /\ Len(events') = Len(events) + 1 /\ DOMAIN events' = 1..(Len(events) + 1)
    /\ events'[Len(events) + 1] = e
    /\ \A k \in 1..Len(events) : events'[k] = events[k]

LEMMA Logged ==
    ASSUME TypeOK, NEW e \in Event, events' = Append(events, e)
    PROVE  LogsOnly(e)
  BY AppendOne DEF TypeOK, LogsOnly

(* Every transaction is one on a parcel, with what it logs, or on none. *)
LEMMA ParcelSteps ==
    ASSUME TypeOK, [Next]_vars
    PROVE  \/ OtherThanParcels
           \/ \E h \in LandHash, f \in Field :
                 registerLand(h, f) /\ LogsOnly(LandRegistered(h))
           \/ \E h \in LandHash, b \in Buyer \cup {Nil}, salt \in Salt, s \in OwnershipSignals :
                 verifyAndTransfer(h, b, salt, s) /\ LogsOnly(LandTransferred(h, s.nullifier))
           \/ \E h \in LandHash : markDisputed(h) /\ LogsOnly(LandDisputed(h))
<1>1. CASE UNCHANGED vars
  BY <1>1 DEF vars, OtherThanParcels, NewEvent
<1>2. ASSUME NEW v \in Address \cup {Nil}, setVerifier(v)
      PROVE  OtherThanParcels
  <2>1. LogsOnly(VerifierUpdated(v))
    BY <1>2, EventTypes, Logged DEF setVerifier
  <2> QED
    BY <1>2, <2>1 DEF setVerifier, LogsOnly, OtherThanParcels, NewEvent, VerifierUpdated
<1>3. ASSUME NEW v \in Address \cup {Nil}, setRootVerifier(v)
      PROVE  OtherThanParcels
  <2>1. LogsOnly(RootVerifierUpdated(v))
    BY <1>3, EventTypes, Logged DEF setRootVerifier
  <2> QED
    BY <1>3, <2>1 DEF setRootVerifier, LogsOnly, OtherThanParcels, NewEvent, RootVerifierUpdated
<1>4. ASSUME NEW r \in RootWord, bootstrapRoot(r)
      PROVE  OtherThanParcels
  <2>1. r \in Root /\ MerkleRootBootstrapped(r) \in Event /\ MerkleRootUpdated(r) \in Event
    BY <1>4, EventTypes DEF bootstrapRoot, set, RootWord
  <2>2. /\ DOMAIN events = 1..Len(events) /\ Len(events) \in Nat
        /\ DOMAIN events' = 1..(Len(events) + 2)
        /\ events'[Len(events) + 1] = MerkleRootBootstrapped(r)
        /\ events'[Len(events) + 2] = MerkleRootUpdated(r)
    BY <1>4, <2>1 DEF bootstrapRoot, TypeOK
  <2> QED
    BY <1>4, <2>2
    DEF bootstrapRoot, OtherThanParcels, NewEvent, MerkleRootBootstrapped, MerkleRootUpdated
<1>5. ASSUME NEW r \in RootWord, NEW t \in TransitionSignals, updateMerkleRoot(r, t)
      PROVE  OtherThanParcels
  <2>1. r \in Root
    BY <1>5 DEF updateMerkleRoot, _anchorRoot, set, RootWord
  <2>2. LogsOnly(MerkleRootUpdated(r))
    BY <1>5, <2>1, EventTypes, Logged DEF updateMerkleRoot
  <2> QED
    BY <1>5, <2>2 DEF updateMerkleRoot, LogsOnly, OtherThanParcels, NewEvent, MerkleRootUpdated
<1>6. ASSUME NEW h \in LandHash \cup {Nil}, NEW f \in Field \cup {Nil}, registerLand(h, f)
      PROVE  h \in LandHash /\ f \in Field /\ LogsOnly(LandRegistered(h))
  BY <1>6, EventTypes, Logged DEF registerLand
<1>7. ASSUME NEW h \in LandHash, NEW b \in Buyer \cup {Nil}, NEW salt \in Salt,
             NEW s \in OwnershipSignals, verifyAndTransfer(h, b, salt, s)
      PROVE  LogsOnly(LandTransferred(h, s.nullifier))
  <2>1. s.nullifier \in Nullifier
    BY DEF OwnershipSignals
  <2> QED
    BY <1>7, <2>1, EventTypes, Logged DEF verifyAndTransfer
<1>8. ASSUME NEW h \in LandHash, markDisputed(h)
      PROVE  LogsOnly(LandDisputed(h))
  BY <1>8, EventTypes, Logged DEF markDisputed
<1> QED
  BY <1>1, <1>2, <1>3, <1>4, <1>5, <1>6, <1>7, <1>8 DEF Next

-----------------------------------------------------------------------------
(* A step that neither transfers nor spends keeps the spent nullifiers accounted for. *)
LEMMA SpentStays ==
    ASSUME TypeOK, LogGrows, NullifiersSpentOnce,
           NewEvent("LandTransferred") = {}, UNCHANGED usedNullifiers
    PROVE  NullifiersSpentOnce'
<1>1. /\ DOMAIN events \subseteq DOMAIN events'
      /\ \A k \in DOMAIN events : events'[k] = events[k]
  BY DEF TypeOK, LogGrows
<1>2. \A k : Is(k, "LandTransferred")' <=> Is(k, "LandTransferred")
  BY <1>1 DEF Is, NewEvent
<1>3. {k \in DOMAIN events' : Is(k, "LandTransferred")'} = {k \in DOMAIN events : Is(k, "LandTransferred")}
  BY <1>1, <1>2 DEF Is
<1>4. \A k : Is(k, "LandTransferred") => events'[k] = events[k]
  BY <1>1 DEF Is
<1> QED
  BY <1>2, <1>3, <1>4 DEF NullifiersSpentOnce, Is

(* SECURITY.md P4: the contract never accepts a nullifier twice, in any history. *)
THEOREM NullifiersNeverReplayed == Spec => []NullifiersSpentOnce
<1>1. Init => NullifiersSpentOnce
  BY DEF Init, NullifiersSpentOnce, Is
<1>2. ASSUME TypeOK, NullifiersSpentOnce, [Next]_vars
      PROVE  NullifiersSpentOnce'
  <2>0. LogGrows
    BY <1>2, StepTypes
  <2>1. CASE OtherThanParcels
    BY <1>2, <2>0, <2>1, SpentStays DEF OtherThanParcels
  <2>2. ASSUME NEW h \in LandHash, NEW f \in Field, registerLand(h, f),
               LogsOnly(LandRegistered(h))
        PROVE  NullifiersSpentOnce'
    BY <1>2, <2>0, <2>2, SpentStays DEF registerLand, LogsOnly, LandRegistered, NewEvent
  <2>3. ASSUME NEW h \in LandHash, NEW b \in Buyer \cup {Nil}, NEW salt \in Salt,
               NEW s \in OwnershipSignals, verifyAndTransfer(h, b, salt, s),
               LogsOnly(LandTransferred(h, s.nullifier))
        PROVE  NullifiersSpentOnce'
    <3> DEFINE n == Len(events) + 1
               Transfers == {k \in DOMAIN events : Is(k, "LandTransferred")}
    <3>1. /\ n \in Nat \ {0} /\ DOMAIN events = 1..(n - 1) /\ DOMAIN events' = 1..n
          /\ events'[n].event = "LandTransferred" /\ events'[n].nullifier = s.nullifier
          /\ \A k \in 1..(n - 1) : events'[k] = events[k]
      BY <2>3 DEF LogsOnly, LandTransferred
    <3>2. s.nullifier \notin usedNullifiers /\ usedNullifiers' = usedNullifiers \cup {s.nullifier}
      BY <2>3 DEF verifyAndTransfer, Authorizes
    <3> HIDE DEF n
    <3>3. {k \in DOMAIN events' : Is(k, "LandTransferred")'} = Transfers \cup {n}
      BY <3>1 DEF Is
    <3>4. \A k \in Transfers : events'[k] = events[k] /\ events[k].nullifier \in usedNullifiers
      BY <1>2, <3>1 DEF NullifiersSpentOnce
    <3>5. {events'[i].nullifier : i \in Transfers \cup {n}}
             = {events[i].nullifier : i \in Transfers} \cup {s.nullifier}
      <4> HIDE DEF Transfers
      <4> QED
        BY <3>1, <3>4
    <3>6. ASSUME NEW i \in Transfers \cup {n}, NEW j \in Transfers \cup {n},
                 events'[i].nullifier = events'[j].nullifier
          PROVE  i = j
      <4>1. CASE i \in Transfers /\ j \in Transfers
        BY <1>2, <3>4, <3>6, <4>1 DEF NullifiersSpentOnce
      <4>2. CASE i = n \/ j = n
        BY <3>1, <3>2, <3>4, <3>6, <4>2
      <4> QED
        BY <4>1, <4>2
    <3>7. \A i \in DOMAIN events' : Is(i, "LandTransferred")' <=> i \in Transfers \cup {n}
      BY <3>3
    <3> QED
      BY <1>2, <3>2, <3>3, <3>5, <3>6, <3>7 DEF NullifiersSpentOnce
  <2>4. ASSUME NEW h \in LandHash, markDisputed(h), LogsOnly(LandDisputed(h))
        PROVE  NullifiersSpentOnce'
    BY <1>2, <2>0, <2>4, SpentStays DEF markDisputed, LogsOnly, LandDisputed, NewEvent
  <2> QED
    BY <1>2, <2>1, <2>2, <2>3, <2>4, ParcelSteps
<1> QED
  BY <1>1, <1>2, TypeCorrect, PTL DEF Spec

-----------------------------------------------------------------------------
(* The inductive strengthening: whatever the log calls disputed still is. *)
DisputeInv ==
    /\ DisputedIsFinal
    /\ \A i \in DOMAIN events : Is(i, "LandDisputed") =>
          lands[events[i].landHash].exists /\ lands[events[i].landHash].status = "DISPUTED"

(* The fields of a logged event have their declared types. *)
LEMMA EventFields ==
    ASSUME TypeOK, NEW i \in DOMAIN events
    PROVE  /\ Is(i, "LandDisputed") => events[i].landHash \in LandHash
           /\ Is(i, "LandTransferred") =>
                 events[i].landHash \in LandHash /\ events[i].nullifier \in Nullifier
<1>1. events[i] \in Event
  BY DEF TypeOK
<1> QED
  BY <1>1
  DEF Is, Event, VerifierUpdated, RootVerifierUpdated, MerkleRootUpdated, MerkleRootBootstrapped,
      LandRegistered, LandDisputed, LandTransferred

(* A step on one parcel h leaves the disputed parcels disputed, unless it moves h. *)
LEMMA DisputeStays ==
    ASSUME TypeOK, DisputeInv, NEW h \in LandHash, NEW record \in LandRecord, NEW e,
           lands' = [lands EXCEPT ![h] = record], LogsOnly(e), e.event # "LandDisputed",
           e.landHash = h, lands[h].exists => lands[h].status # "DISPUTED"
    PROVE  DisputeInv'
<1> DEFINE n == Len(events) + 1
<1>1. /\ n \in Nat \ {0} /\ DOMAIN events = 1..(n - 1) /\ DOMAIN events' = 1..n
      /\ events'[n] = e
      /\ \A k \in 1..(n - 1) : events'[k] = events[k]
  BY DEF LogsOnly
<1> HIDE DEF n
<1>2. ASSUME NEW i \in DOMAIN events', Is(i, "LandDisputed")'
      PROVE  /\ i \in DOMAIN events /\ Is(i, "LandDisputed")
             /\ events'[i].landHash = events[i].landHash /\ events[i].landHash # h
             /\ lands'[events[i].landHash] = lands[events[i].landHash]
  <2>1. i \in DOMAIN events /\ Is(i, "LandDisputed") /\ events'[i] = events[i]
    BY <1>1, <1>2 DEF Is
  <2>2. events[i].landHash \in LandHash
    BY <2>1, EventFields
  <2> QED
    BY <2>1, <2>2 DEF DisputeInv, TypeOK
<1>3. ASSUME NEW i \in DOMAIN events', NEW j \in DOMAIN events', Is(i, "LandDisputed")', i < j,
             Is(j, "LandTransferred")' \/ Is(j, "LandRegistered")'
      PROVE  events'[i].landHash # events'[j].landHash
  <2>1. CASE j = n
    BY <1>1, <1>2, <1>3, <2>1
  <2>2. CASE j # n
    <3>1. j \in DOMAIN events /\ events'[j] = events[j]
      BY <1>1, <2>2
    <3> QED
      BY <1>2, <1>3, <3>1 DEF DisputeInv, DisputedIsFinal, Is
  <2> QED
    BY <2>1, <2>2
<1> QED
  BY <1>2, <1>3 DEF DisputeInv, DisputedIsFinal

(* LandRegistry.sol: LAND_DISPUTED and LAND_EXISTS make a dispute final, in any history. *)
THEOREM DisputesAreFinal == Spec => []DisputedIsFinal
<1>1. Init => DisputeInv
  BY DEF Init, DisputeInv, DisputedIsFinal, Is
<1>2. ASSUME TypeOK, DisputeInv, [Next]_vars
      PROVE  DisputeInv'
  <2>1. CASE OtherThanParcels
    <3>1. /\ DOMAIN events \subseteq DOMAIN events'
          /\ \A k \in DOMAIN events : events'[k] = events[k]
      BY <1>2, StepTypes DEF TypeOK, LogGrows
    <3>2. \A k : /\ Is(k, "LandDisputed")' => Is(k, "LandDisputed")
                 /\ Is(k, "LandTransferred")' => Is(k, "LandTransferred")
                 /\ Is(k, "LandRegistered")' => Is(k, "LandRegistered")
      BY <2>1, <3>1 DEF OtherThanParcels, NewEvent, Is
    <3>3. \A k : Is(k, "LandDisputed") \/ Is(k, "LandTransferred") \/ Is(k, "LandRegistered")
                    => k \in DOMAIN events /\ events'[k] = events[k]
      BY <3>1 DEF Is
    <3> QED
      BY <1>2, <2>1, <3>2, <3>3 DEF OtherThanParcels, DisputeInv, DisputedIsFinal
  <2>2. ASSUME NEW h \in LandHash, NEW f \in Field, registerLand(h, f),
               LogsOnly(LandRegistered(h))
        PROVE  DisputeInv'
    <3>1. [exists |-> TRUE, status |-> "REGISTERED", landIdField |-> f] \in LandRecord
      BY DEF LandRecord
    <3> QED
      BY <1>2, <2>2, <3>1, DisputeStays DEF registerLand, LandRegistered
  <2>3. ASSUME NEW h \in LandHash, NEW b \in Buyer \cup {Nil}, NEW salt \in Salt,
               NEW s \in OwnershipSignals, verifyAndTransfer(h, b, salt, s),
               LogsOnly(LandTransferred(h, s.nullifier))
        PROVE  DisputeInv'
    <3> DEFINE record == [lands[h] EXCEPT !.status = "TRANSFERRED"]
    <3>1. record \in LandRecord /\ lands' = [lands EXCEPT ![h] = record]
      BY <1>2, <2>3 DEF LandRecord, TypeOK, verifyAndTransfer
    <3>2. lands[h].status # "DISPUTED"
      BY <2>3 DEF verifyAndTransfer, Authorizes
    <3> HIDE DEF record
    <3> QED
      BY <1>2, <2>3, <3>1, <3>2, DisputeStays DEF LandTransferred
  <2>4. ASSUME NEW h \in LandHash, markDisputed(h), LogsOnly(LandDisputed(h))
        PROVE  DisputeInv'
    <3> DEFINE n == Len(events) + 1
    <3>1. /\ n \in Nat \ {0} /\ DOMAIN events = 1..(n - 1) /\ DOMAIN events' = 1..n
          /\ events'[n].event = "LandDisputed" /\ events'[n].landHash = h
          /\ \A k \in 1..(n - 1) : events'[k] = events[k]
      BY <2>4 DEF LogsOnly, LandDisputed
    <3>2. /\ lands'[h].exists /\ lands'[h].status = "DISPUTED"
          /\ \A g \in LandHash \ {h} : lands'[g] = lands[g]
      BY <1>2, <2>4 DEF markDisputed, TypeOK, LandRecord
    <3> HIDE DEF n
    <3>3. ASSUME NEW i \in DOMAIN events', Is(i, "LandDisputed")'
          PROVE  lands'[events'[i].landHash].exists /\ lands'[events'[i].landHash].status = "DISPUTED"
      <4>1. CASE i = n
        BY <3>1, <3>2, <4>1
      <4>2. CASE i # n
        <5>1. i \in DOMAIN events /\ events'[i] = events[i] /\ Is(i, "LandDisputed")
          BY <3>1, <3>3, <4>2 DEF Is
        <5>2. events[i].landHash \in LandHash
          BY <1>2, <5>1, EventFields
        <5> QED
          BY <1>2, <3>2, <5>1, <5>2 DEF DisputeInv
      <4> QED
        BY <4>1, <4>2
    <3>4. DisputedIsFinal'
      BY <1>2, <3>1 DEF DisputeInv, DisputedIsFinal, Is
    <3> QED
      BY <3>3, <3>4 DEF DisputeInv
  <2> QED
    BY <1>2, <2>1, <2>2, <2>3, <2>4, ParcelSteps
<1>3. DisputeInv => DisputedIsFinal
  BY DEF DisputeInv
<1> QED
  BY <1>1, <1>2, <1>3, TypeCorrect, PTL DEF Spec

-----------------------------------------------------------------------------
(* While every verifier installed under a name is sound, so is the one in use. *)
SoundInv ==
    /\ Audited("VerifierUpdated") => verifier \in Sound
    /\ Audited("RootVerifierUpdated") => rootVerifier \in Sound

(* An audit of a longer log covers the shorter one. *)
LEMMA AuditShrinks ==
    ASSUME TypeOK, LogGrows, NEW name, Audited(name)'
    PROVE  Audited(name)
  BY DEF TypeOK, LogGrows, Audited, Is

LEMMA SoundVerifiers == Spec => []SoundInv
<1>1. Init => SoundInv
  BY DEF Init, SoundInv
<1>2. ASSUME TypeOK, SoundInv, [Next]_vars
      PROVE  SoundInv'
  <2>0. /\ Audited("VerifierUpdated")' => Audited("VerifierUpdated")
        /\ Audited("RootVerifierUpdated")' => Audited("RootVerifierUpdated")
    BY <1>2, StepTypes, AuditShrinks
  <2>1. ASSUME NEW v \in Address \cup {Nil}, setVerifier(v)
        PROVE  SoundInv'
    <3>1. LogsOnly(VerifierUpdated(v))
      BY <1>2, <2>1, EventTypes, Logged DEF setVerifier
    <3>2. Audited("VerifierUpdated")' => v \in Sound
      BY <3>1 DEF LogsOnly, VerifierUpdated, Audited, Is
    <3> QED
      BY <1>2, <2>0, <2>1, <3>2 DEF SoundInv, setVerifier
  <2>2. ASSUME NEW v \in Address \cup {Nil}, setRootVerifier(v)
        PROVE  SoundInv'
    <3>1. LogsOnly(RootVerifierUpdated(v))
      BY <1>2, <2>2, EventTypes, Logged DEF setRootVerifier
    <3>2. Audited("RootVerifierUpdated")' => v \in Sound
      BY <3>1 DEF LogsOnly, RootVerifierUpdated, Audited, Is
    <3> QED
      BY <1>2, <2>0, <2>2, <3>2 DEF SoundInv, setRootVerifier
  <2>3. CASE UNCHANGED <<verifier, rootVerifier>>
    BY <1>2, <2>0, <2>3 DEF SoundInv
  <2> QED
    BY <1>2, <2>1, <2>2, <2>3
    DEF Next, vars, bootstrapRoot, updateMerkleRoot, registerLand, verifyAndTransfer, markDisputed
<1> QED
  BY <1>1, <1>2, TypeCorrect, PTL DEF Spec

-----------------------------------------------------------------------------
(* The i-th event is a transfer by the holder of a leaf of the tree in force then. *)
MemberTransfer(i) ==
    LET owner == <<events[i].nullifier[2], events[i].nullifier[1]>> IN
    /\ lands[events[i].landHash].landIdField = owner[1]
    /\ \E r \in Tree, leaf \in Leaf : AnchoredBefore(i, r) /\ r[leaf] = owner

(* The strengthening: a parcel that was transferred exists, so nothing rewrites it. *)
TransferInv ==
    \A i \in DOMAIN events : Is(i, "LandTransferred") =>
        /\ lands[events[i].landHash].exists
        /\ Audited("VerifierUpdated") => MemberTransfer(i)

(* Steps that keep the records of existing parcels keep what the log says of transfers. *)
LEMMA TransfersStay ==
    ASSUME TypeOK, LogGrows, TransferInv,
           \A h \in LandHash : lands[h].exists =>
              lands'[h].exists /\ lands'[h].landIdField = lands[h].landIdField,
           NEW i \in DOMAIN events, Is(i, "LandTransferred")
    PROVE  /\ lands'[events'[i].landHash].exists
           /\ Audited("VerifierUpdated")' => MemberTransfer(i)'
<1>1. /\ events[i].landHash \in LandHash /\ events'[i] = events[i]
      /\ lands[events[i].landHash].exists
  BY EventFields DEF TransferInv, LogGrows
<1>2. ASSUME Audited("VerifierUpdated")'
      PROVE  MemberTransfer(i)'
  <2>1. MemberTransfer(i)
    BY <1>2, AuditShrinks DEF TransferInv
  <2>2. i \in 1..(Len(events) + 1)
    BY DEF TypeOK
  <2>3. \A r : AnchoredBefore(i, r)' <=> AnchoredBefore(i, r)
    BY <2>2, PastStands
  <2> QED
    BY <1>1, <2>1, <2>3 DEF MemberTransfer
<1> QED
  BY <1>1, <1>2

(* The transfer that is being logged was authorized by a leaf of the root in force. *)
LEMMA TransferAuthorized ==
    ASSUME TypeOK, LogGrows, SoundInv, RootsMatchLog,
           NEW h \in LandHash, NEW b \in Buyer \cup {Nil}, NEW salt \in Salt,
           NEW s \in OwnershipSignals, verifyAndTransfer(h, b, salt, s),
           LogsOnly(LandTransferred(h, s.nullifier)), NEW n, n = Len(events) + 1,
           Audited("VerifierUpdated")'
    PROVE  MemberTransfer(n)'
<1>1. ChallengeProof(s) /\ BoundTo(h, b, salt, s)
  BY AuditShrinks DEF SoundInv, verifyAndTransfer, Authorizes, verifyProof
<1>2. PICK secret \in Secret, leaf \in Leaf :
          /\ s.merkleRoot \in Tree /\ s.merkleRoot[leaf] = <<s.landIdField, secret>>
          /\ s.nullifier = <<secret, s.landIdField, s.challenge>>
  BY <1>1 DEF ChallengeProof
<1>3. AnchoredBefore(n, latestRoot)'
  <2>1. n \in 1..(Len(events) + 1) /\ AnchoredBefore(n, latestRoot)
    BY DEF RootsMatchLog, TypeOK
  <2>2. \A r : AnchoredBefore(n, r)' <=> AnchoredBefore(n, r)
    BY <2>1, PastStands
  <2> QED
    BY <2>1, <2>2 DEF verifyAndTransfer
<1>4. events'[n].landHash = h /\ events'[n].nullifier = s.nullifier
  BY DEF LogsOnly, LandTransferred
<1>5. lands'[h].landIdField = s.landIdField
  BY <1>1 DEF verifyAndTransfer, BoundTo, TypeOK, LandRecord
<1>6. latestRoot' = s.merkleRoot
  BY <1>1 DEF BoundTo, verifyAndTransfer
<1> QED
  BY <1>2, <1>3, <1>4, <1>5, <1>6 DEF MemberTransfer

(* SECURITY.md P2: with sound verifiers, every transfer of any history was made by *)
(* the holder of a commitment to that land in the tree anchored at the time. *)
THEOREM OnlyMembersTransfer == Spec => []TransferredByMember
<1>1. Init => TransferInv
  BY DEF Init, TransferInv
<1>2. ASSUME TypeOK, SoundInv, RootsMatchLog, TransferInv, [Next]_vars
      PROVE  TransferInv'
  <2>0. LogGrows /\ DOMAIN events \subseteq DOMAIN events'
    BY <1>2, StepTypes DEF TypeOK, LogGrows
  <2>1. ASSUME NewEvent("LandTransferred") = {},
               \A h \in LandHash : lands[h].exists =>
                  lands'[h].exists /\ lands'[h].landIdField = lands[h].landIdField
        PROVE  TransferInv'
    <3>1. \A i \in DOMAIN events' : Is(i, "LandTransferred")' =>
             i \in DOMAIN events /\ Is(i, "LandTransferred")
      BY <2>0, <2>1 DEF NewEvent, Is, LogGrows
    <3> QED
      BY <1>2, <2>0, <2>1, <3>1, TransfersStay DEF TransferInv
  <2>2. CASE OtherThanParcels
    BY <2>1, <2>2 DEF OtherThanParcels
  <2>3. ASSUME NEW h \in LandHash, NEW f \in Field, registerLand(h, f),
               LogsOnly(LandRegistered(h))
        PROVE  TransferInv'
    <3>1. NewEvent("LandTransferred") = {}
      BY <2>3 DEF LogsOnly, LandRegistered, NewEvent
    <3>2. \A g \in LandHash : lands[g].exists => lands'[g] = lands[g]
      BY <1>2, <2>3 DEF registerLand, TypeOK
    <3> QED
      BY <2>1, <3>1, <3>2
  <2>4. ASSUME NEW h \in LandHash, NEW b \in Buyer \cup {Nil}, NEW salt \in Salt,
               NEW s \in OwnershipSignals, verifyAndTransfer(h, b, salt, s),
               LogsOnly(LandTransferred(h, s.nullifier))
        PROVE  TransferInv'
    <3>0. PICK n \in Nat : n = Len(events) + 1
      BY <2>4 DEF LogsOnly
    <3>1. \A g \in LandHash : lands'[g].exists = lands[g].exists
                              /\ lands'[g].landIdField = lands[g].landIdField
      BY <1>2, <2>4 DEF verifyAndTransfer, TypeOK, LandRecord
    <3>2. \A i \in DOMAIN events' : i \in DOMAIN events \/ i = n
      BY <2>4, <3>0 DEF LogsOnly
    <3>3. lands'[events'[n].landHash].exists
      BY <2>4, <3>0, <3>1 DEF LogsOnly, LandTransferred, verifyAndTransfer, Authorizes
    <3>4. Audited("VerifierUpdated")' => MemberTransfer(n)'
      BY <1>2, <2>0, <2>4, <3>0, TransferAuthorized
    <3>5. \A i \in DOMAIN events : Is(i, "LandTransferred")' => Is(i, "LandTransferred")
      BY <2>0 DEF Is, LogGrows
    <3> QED
      BY <1>2, <2>0, <3>1, <3>2, <3>3, <3>4, <3>5, TransfersStay DEF TransferInv
  <2>5. ASSUME NEW h \in LandHash, markDisputed(h), LogsOnly(LandDisputed(h))
        PROVE  TransferInv'
    <3>1. NewEvent("LandTransferred") = {}
      BY <2>5 DEF LogsOnly, LandDisputed, NewEvent
    <3>2. \A g \in LandHash : lands'[g].exists = lands[g].exists
                              /\ lands'[g].landIdField = lands[g].landIdField
      BY <1>2, <2>5 DEF markDisputed, TypeOK, LandRecord
    <3> QED
      BY <2>1, <3>1, <3>2
  <2> QED
    BY <1>2, <2>2, <2>3, <2>4, <2>5, ParcelSteps
<1>3. TransferInv => TransferredByMember
  BY DEF TransferInv, TransferredByMember, MemberTransfer
<1> QED
  BY <1>1, <1>2, <1>3, TypeCorrect, SoundVerifiers, RootsFollowLog, PTL DEF Spec

-----------------------------------------------------------------------------
(* The i-th event's root is the bootstrapped one, or one leaf from the root before it. *)
JustifiedRoot(i) ==
    \/ Is(i - 1, "MerkleRootBootstrapped") /\ AnchoredBefore(i, Nil)
    \/ \E r \in Tree : /\ InForceBefore(i, r)
                       /\ events[i].root \in Tree /\ OneLeafApart(r, events[i].root)

(* What justified a root of the past still does. *)
LEMMA JustificationStays ==
    ASSUME TypeOK, LogGrows, NEW i \in DOMAIN events, JustifiedRoot(i)
    PROVE  JustifiedRoot(i)'
<1>1. i \in 1..(Len(events) + 1) /\ i - 1 \in 0..Len(events) /\ events'[i] = events[i]
  BY DEF TypeOK, LogGrows
<1>2. \A r : AnchoredBefore(i, r)' <=> AnchoredBefore(i, r)
  BY <1>1, PastStands
<1>3. Is(i - 1, "MerkleRootBootstrapped") => Is(i - 1, "MerkleRootBootstrapped")'
  BY DEF Is, TypeOK, LogGrows
<1>4. CASE Is(i - 1, "MerkleRootBootstrapped") /\ AnchoredBefore(i, Nil)
  BY <1>2, <1>3, <1>4 DEF JustifiedRoot
<1>5. ASSUME NEW r \in Tree, InForceBefore(i, r), events[i].root \in Tree,
             OneLeafApart(r, events[i].root)
      PROVE  JustifiedRoot(i)'
  BY <1>1, <1>2, <1>5 DEF JustifiedRoot, InForceBefore
<1> QED
  BY <1>4, <1>5 DEF JustifiedRoot

(* The bootstrapped root is logged when no root was in force. *)
LEMMA BootstrapJustified ==
    ASSUME TypeOK, RootsMatchLog, NEW r \in Root, bootstrapRoot(r),
           NEW n \in Nat, n = Len(events) + 2
    PROVE  /\ DOMAIN events' = 1..n /\ DOMAIN events = 1..(n - 2)
           /\ events'[n - 1].event # "MerkleRootUpdated"
           /\ JustifiedRoot(n)'
<1>1. MerkleRootBootstrapped(r) \in Event /\ MerkleRootUpdated(r) \in Event
  BY EventTypes
<1>2. /\ DOMAIN events' = 1..n /\ DOMAIN events = 1..(n - 2) /\ n \in Nat \ {0, 1}
      /\ events'[n - 1] = MerkleRootBootstrapped(r)
      /\ \A k \in 1..(n - 2) : events'[k] = events[k]
  BY <1>1 DEF TypeOK, bootstrapRoot
<1>3. events'[n - 1].event = "MerkleRootBootstrapped"
  BY <1>2 DEF MerkleRootBootstrapped
<1>4. AnchoredBefore(n - 1, Nil)
  BY <1>2 DEF RootsMatchLog, bootstrapRoot
<1>5. AnchoredBefore(n, Nil)'
  BY <1>2, <1>3, <1>4 DEF AnchoredBefore, Is
<1> QED
  BY <1>2, <1>3, <1>5 DEF JustifiedRoot, Is

(* A sound root verifier lets through one changed leaf of the root in force. *)
LEMMA UpdateJustified ==
    ASSUME TypeOK, LogGrows, SoundInv, RootsMatchLog, Audited("RootVerifierUpdated")',
           NEW root \in Root, NEW t \in TransitionSignals, updateMerkleRoot(root, t),
           LogsOnly(MerkleRootUpdated(root)), NEW n \in Nat, n = Len(events) + 1
    PROVE  JustifiedRoot(n)'
<1>1. RootTransition(t) /\ t.oldRoot = CurrentRoot /\ t.newRoot = root
  BY AuditShrinks DEF SoundInv, updateMerkleRoot, _anchorRoot, ValidTransition, verifyProof
<1>2. PICK leaf \in Leaf : t.newRoot = [t.oldRoot EXCEPT ![leaf] = t.leafAfter]
  BY <1>1 DEF RootTransition
<1>3. t.oldRoot \in Tree /\ t.leafAfter \in Commitment \cup {Nil}
  BY <1>1 DEF RootTransition, TransitionSignals
<1>4. root \in Tree /\ OneLeafApart(t.oldRoot, root)
  BY <1>1, <1>2, <1>3 DEF Tree, OneLeafApart
<1>5. InForceBefore(n, t.oldRoot)'
  <2>1. PICK r : r = latestRoot
    OBVIOUS
  <2>2. n \in 1..(Len(events) + 1) /\ AnchoredBefore(n, r)
    BY <2>1 DEF RootsMatchLog, TypeOK
  <2>3. AnchoredBefore(n, r)'
    BY <2>2, PastStands
  <2> QED
    BY <1>1, <2>1, <2>3 DEF InForceBefore, CurrentRoot
<1>6. events'[n].root = root
  BY DEF LogsOnly, MerkleRootUpdated
<1> QED
  BY <1>3, <1>4, <1>5, <1>6 DEF JustifiedRoot

(* SECURITY.md P3: with sound root verifiers, every root in any history is one leaf *)
(* away from the root it replaced, or the bootstrapped first one. *)
THEOREM RootsMoveOneLeaf == Spec => []SingleLeafHistory
<1>1. Init => SingleLeafHistory
  BY DEF Init, SingleLeafHistory, Is
<1>2. ASSUME TypeOK, SoundInv, RootsMatchLog, SingleLeafHistory, [Next]_vars
      PROVE  SingleLeafHistory'
  <2>0. /\ LogGrows /\ DOMAIN events \subseteq DOMAIN events'
        /\ \A i \in DOMAIN events : Is(i, "MerkleRootUpdated")' => Is(i, "MerkleRootUpdated")
    BY <1>2, StepTypes DEF TypeOK, LogGrows, Is
  <2>1. SUFFICES ASSUME Audited("RootVerifierUpdated")', NEW i \in DOMAIN events',
                        Is(i, "MerkleRootUpdated")'
                 PROVE  JustifiedRoot(i)'
    BY DEF SingleLeafHistory, JustifiedRoot
  <2>2. CASE i \in DOMAIN events
    <3>1. JustifiedRoot(i)
      BY <1>2, <2>0, <2>1, <2>2, AuditShrinks DEF SingleLeafHistory, JustifiedRoot
    <3> QED
      BY <1>2, <2>0, <2>2, <3>1, JustificationStays
  <2>3. CASE i \notin DOMAIN events
    <3>1. CASE NewEvent("MerkleRootUpdated") = {}
      BY <2>1, <2>3, <3>1 DEF NewEvent, Is
    <3>2. ASSUME NEW r \in RootWord, bootstrapRoot(r)
          PROVE  JustifiedRoot(i)'
      <4>1. r \in Root
        BY <3>2 DEF bootstrapRoot, set, RootWord
      <4>2. PICK n \in Nat : n = Len(events) + 2
        BY <1>2 DEF TypeOK
      <4>3. i = n
        BY <1>2, <2>1, <2>3, <3>2, <4>1, <4>2, BootstrapJustified DEF Is
      <4> QED
        BY <1>2, <3>2, <4>1, <4>2, <4>3, BootstrapJustified
    <3>3. ASSUME NEW r \in RootWord, NEW t \in TransitionSignals, updateMerkleRoot(r, t)
          PROVE  JustifiedRoot(i)'
      <4>0. r \in Root
        BY <3>3 DEF updateMerkleRoot, _anchorRoot, set, RootWord
      <4>1. LogsOnly(MerkleRootUpdated(r))
        BY <1>2, <3>3, <4>0, EventTypes, Logged DEF updateMerkleRoot
      <4>2. i \in Nat /\ i = Len(events) + 1
        BY <2>1, <2>3, <4>1 DEF LogsOnly
      <4> QED
        BY <1>2, <2>0, <2>1, <3>3, <4>0, <4>1, <4>2, UpdateJustified
    <3>4. ASSUME NEW v \in Address \cup {Nil}, setVerifier(v) \/ setRootVerifier(v)
          PROVE  NewEvent("MerkleRootUpdated") = {}
      <4>1. LogsOnly(VerifierUpdated(v)) \/ LogsOnly(RootVerifierUpdated(v))
        BY <1>2, <3>4, EventTypes, Logged DEF setVerifier, setRootVerifier
      <4> QED
        BY <4>1 DEF LogsOnly, VerifierUpdated, RootVerifierUpdated, NewEvent
    <3>5. ASSUME NEW h \in LandHash \cup {Nil}, NEW f \in Field \cup {Nil}, registerLand(h, f)
          PROVE  NewEvent("MerkleRootUpdated") = {}
      <4>1. LogsOnly(LandRegistered(h))
        BY <1>2, <3>5, EventTypes, Logged DEF registerLand
      <4> QED
        BY <4>1 DEF LogsOnly, LandRegistered, NewEvent
    <3>6. ASSUME NEW h \in LandHash, NEW b \in Buyer \cup {Nil}, NEW salt \in Salt,
                 NEW s \in OwnershipSignals, verifyAndTransfer(h, b, salt, s)
          PROVE  NewEvent("MerkleRootUpdated") = {}
      <4>1. s.nullifier \in Nullifier
        BY DEF OwnershipSignals
      <4>2. LogsOnly(LandTransferred(h, s.nullifier))
        BY <1>2, <3>6, <4>1, EventTypes, Logged DEF verifyAndTransfer
      <4> QED
        BY <4>2 DEF LogsOnly, LandTransferred, NewEvent
    <3>7. ASSUME NEW h \in LandHash, markDisputed(h)
          PROVE  NewEvent("MerkleRootUpdated") = {}
      <4>1. LogsOnly(LandDisputed(h))
        BY <1>2, <3>7, EventTypes, Logged DEF markDisputed
      <4> QED
        BY <4>1 DEF LogsOnly, LandDisputed, NewEvent
    <3>8. CASE UNCHANGED vars
      BY <2>3, <3>8 DEF vars
    <3> QED
      BY <1>2, <3>1, <3>2, <3>3, <3>4, <3>5, <3>6, <3>7, <3>8 DEF Next
  <2> QED
    BY <2>2, <2>3
<1> QED
  BY <1>1, <1>2, TypeCorrect, SoundVerifiers, RootsFollowLog, PTL DEF Spec

-----------------------------------------------------------------------------
(* The refinement mapping of LandRegistry!Ledger *)
Parcel(h) == [status |-> IF lands[h].exists THEN lands[h].status ELSE "NONE",
              field |-> lands[h].landIdField]

Parcels == [h \in LandHash |-> Parcel(h)]

(* Writing one record moves one parcel. *)
LEMMA ParcelMoves ==
    ASSUME TypeOK, NEW h \in LandHash, NEW record, lands' = [lands EXCEPT ![h] = record]
    PROVE  Parcels' = [Parcels EXCEPT ![h] =
                          [status |-> IF record.exists THEN record.status ELSE "NONE",
                           field |-> record.landIdField]]
  BY DEF TypeOK, Parcels, Parcel

(* The ledger sees a transaction on roots, parcels or verifiers as one step of its own. *)
LEMMA LedgerStep ==
    ASSUME TypeOK, TypeOK', [Next]_vars
    PROVE  [Ledger!Next]_(Ledger!vars)
<1> USE DEF Ledger!Next, Ledger!vars
<1>0. /\ (rootVerifier \in Sound) \in BOOLEAN /\ (verifier \in Sound) \in BOOLEAN
      /\ Root = Ledger!Trees \cup ForeignRoot /\ Nil \notin Root /\ Tree = Ledger!Trees
  BY RegistryAssumption DEF Root, Tree, Ledger!Trees
<1>1. CASE UNCHANGED vars
  BY <1>1 DEF vars, CurrentRoot
<1>2. ASSUME NEW v \in Address \cup {Nil}, setVerifier(v) \/ setRootVerifier(v)
      PROVE  Ledger!ChangeVerifiers
  BY <1>0, <1>2 DEF setVerifier, setRootVerifier, CurrentRoot, Ledger!ChangeVerifiers
<1>3. ASSUME NEW r \in RootWord, bootstrapRoot(r)
      PROVE  Ledger!Bootstrap
  BY <1>0, <1>3 DEF bootstrapRoot, set, RootWord, CurrentRoot, Ledger!Bootstrap
<1>4. ASSUME NEW r \in RootWord, NEW t \in TransitionSignals, updateMerkleRoot(r, t)
      PROVE  Ledger!Anchor
  <2>1. latestRoot' = r /\ r # Nil /\ r \in Root /\ CurrentRoot' = r
    BY <1>4 DEF updateMerkleRoot, _anchorRoot, set, RootWord, CurrentRoot
  <2>2. ASSUME rootVerifier \in Sound
        PROVE  /\ CurrentRoot \in Tree
               /\ \E i \in Leaf, v \in Commitment \cup {Nil} :
                     CurrentRoot' = [CurrentRoot EXCEPT ![i] = v]
    BY <1>4, <2>1, <2>2
    DEF updateMerkleRoot, _anchorRoot, ValidTransition, verifyProof, RootTransition, TransitionSignals
  <2> QED
    BY <1>0, <1>4, <2>1, <2>2 DEF updateMerkleRoot, Ledger!Anchor
<1>5. ASSUME NEW h \in LandHash \cup {Nil}, NEW f \in Field \cup {Nil}, registerLand(h, f)
      PROVE  Ledger!Register
  <2>1. h \in LandHash /\ f \in Field /\ Parcels[h].status = "NONE"
    BY <1>5 DEF registerLand, Parcels, Parcel
  <2>2. Parcels' = [Parcels EXCEPT ![h] = [status |-> "REGISTERED", field |-> f]]
    BY <1>5, <2>1, ParcelMoves DEF registerLand
  <2> QED
    BY <1>5, <2>1, <2>2 DEF registerLand, CurrentRoot, Ledger!Register, Parcels, Parcel
<1>6. ASSUME NEW h \in LandHash, NEW b \in Buyer \cup {Nil}, NEW salt \in Salt,
             NEW s \in OwnershipSignals, verifyAndTransfer(h, b, salt, s)
      PROVE  Ledger!Transfer
  <2>1. /\ Parcels[h].status \in {"REGISTERED", "TRANSFERRED"}
        /\ s.nullifier \in Nullifier \ usedNullifiers
    BY <1>0, <1>6
    DEF verifyAndTransfer, Authorizes, BoundTo, TypeOK, LandRecord, Parcels, Parcel, OwnershipSignals
  <2>2. Parcels' = [Parcels EXCEPT ![h].status = "TRANSFERRED"]
    <3>1. Parcels' = [Parcels EXCEPT ![h] = [status |-> "TRANSFERRED", field |-> lands[h].landIdField]]
      <4>1. [lands[h] EXCEPT !.status = "TRANSFERRED"].exists
        BY <1>6 DEF verifyAndTransfer, Authorizes, TypeOK, LandRecord
      <4>2. /\ [lands[h] EXCEPT !.status = "TRANSFERRED"].status = "TRANSFERRED"
            /\ [lands[h] EXCEPT !.status = "TRANSFERRED"].landIdField = lands[h].landIdField
        BY DEF TypeOK, LandRecord
      <4> QED
        BY <1>6, <4>1, <4>2, ParcelMoves DEF verifyAndTransfer
    <3> QED
      BY <3>1 DEF Parcels, Parcel
  <2>3. ASSUME verifier \in Sound
        PROVE  /\ latestRoot # Nil
               /\ CurrentRoot \in Tree /\ s.nullifier[2] = Parcels[h].field
               /\ \E i \in Leaf : CurrentRoot[i] = <<s.nullifier[2], s.nullifier[1]>>
    BY <1>0, <1>6, <2>1, <2>3
    DEF verifyAndTransfer, Authorizes, BoundTo, verifyProof, ChallengeProof, CurrentRoot, Root,
        Parcels, Parcel
  <2> QED
    BY <1>0, <1>6, <2>1, <2>2, <2>3
    DEF verifyAndTransfer, CurrentRoot, Ledger!Transfer, Parcels, Parcel
<1>7. ASSUME NEW h \in LandHash, markDisputed(h)
      PROVE  Ledger!Dispute
  <2>1. Parcels[h].status # "NONE"
    BY <1>7 DEF markDisputed, TypeOK, LandRecord, Parcels, Parcel
  <2>2. Parcels' = [Parcels EXCEPT ![h].status = "DISPUTED"]
    <3>1. Parcels' = [Parcels EXCEPT ![h] = [status |-> "DISPUTED", field |-> lands[h].landIdField]]
      <4>1. /\ [lands[h] EXCEPT !.status = "DISPUTED"].exists
            /\ [lands[h] EXCEPT !.status = "DISPUTED"].status = "DISPUTED"
            /\ [lands[h] EXCEPT !.status = "DISPUTED"].landIdField = lands[h].landIdField
        BY <1>7 DEF markDisputed, TypeOK, LandRecord
      <4> QED
        BY <1>7, <4>1, ParcelMoves DEF markDisputed
    <3> QED
      BY <3>1 DEF Parcels, Parcel
  <2> QED
    BY <1>7, <2>1, <2>2 DEF markDisputed, CurrentRoot, Ledger!Dispute, Parcels, Parcel
<1> QED
  BY <1>1, <1>2, <1>3, <1>4, <1>5, <1>6, <1>7 DEF Next

(* LandRegistry.sol implements the ledger: one leaf at a time, one transfer per *)
(* nullifier, and none without a leaf, while the verifiers are sound. *)
THEOREM ContractImplementsLedger == Spec => ImplementsLedger
<1>1. Init => Ledger!Init
  BY DEF Init, Ledger!Init, CurrentRoot, EMPTY_TREE_ROOT, NoRecord
<1>2. TypeOK /\ TypeOK' /\ [Next]_vars => [Ledger!Next]_(Ledger!vars)
  BY LedgerStep
<1> QED
  BY <1>1, <1>2, TypeCorrect, PTL DEF Spec, ImplementsLedger, Ledger!Spec
=============================================================================
