------------------------- MODULE LandWorkflow_proofs -------------------------
(***************************************************************************)
(* What requests, approvals, purchases, crashes and chain faults keep, for *)
(* any numbers of lands, users, handlers and faults and any tree.          *)
(***************************************************************************)
EXTENDS LandWorkflow, SequenceTheorems, FiniteSetTheorems, TLAPS

Land == [status : LandStatus \cup {"NONE"}, ownerId : User \cup {Nil},
         landCommitment : Commitment \cup {Nil}, leafIndex : Leaf \cup {Nil},
         merkleRoot : Tree \cup {Nil}, salePrice : Price \cup {Nil}]

Challenge == [landId : LandId, buyerId : User, nonceSalt : Salt, agreedPrice : Price \cup {Nil},
              usedForTransferAt : BOOLEAN,
              signals : [nullifier : Secret \X LandId \X (User \X Salt), landIdField : LandId,
                         merkleRoot : Tree, challenge : User \X Salt]]

Exists(l) == l \in LandId /\ land[l].status # "NONE"

(* A land that exists has an owner and a commitment to itself *)
LandInv ==
    \A l \in LandId :
        /\ land[l].status = "NONE" => land[l].leafIndex = Nil
        /\ land[l].status # "NONE" => /\ land[l].ownerId \in User
                                      /\ land[l].landCommitment \in Commitment
                                      /\ land[l].landCommitment[1] = l

(* A challenge was answered with the secret of a commitment to its land in a tree *)
ChallengeOK(c) ==
    /\ c.signals.nullifier = <<c.signals.nullifier[1], c.landId, <<c.buyerId, c.nonceSalt>>>>
    /\ <<c.landId, c.signals.nullifier[1]>> \in Commitment
    /\ \E i \in Leaf : c.signals.merkleRoot[i] = <<c.landId, c.signals.nullifier[1]>>

ChallengeInv ==
    /\ challenges \in Seq(Challenge)
    /\ \A k \in DOMAIN challenges : ChallengeOK(challenges[k])

RequiredBy(op) == CASE op = "reject" -> "PENDING_APPROVAL"
                    [] op = "list" -> "REGISTERED"
                    [] op = "cancel" -> "LISTED_FOR_SALE"

JobOK(j) ==
    j.op \in {"reject", "list", "cancel"} =>
        /\ Exists(j.landId) /\ j.required = RequiredBy(j.op)
        /\ j.op = "list" => j.price \in Price

JobInv == DOMAIN job = Worker /\ \A w \in Worker : JobOK(job[w])

Buying == {"transfer", "consume", "recommit"}
Rebuilt == {"paths", "register", "anchor", "record"}
Pcs == {"idle", "index", "approve", "rebuild"} \cup Buying \cup Rebuilt

(* What a purchase has read and done so far *)
BuyerOK(s) ==
    /\ s.leafIndex = land[s.landId].leafIndex
    /\ s.leafBefore = land[s.landId].landCommitment /\ s.leafAfter = Nil
    /\ s.newOwner \in User
    /\ s.newLandCommitment \in Commitment /\ s.newLandCommitment[1] = s.landId
    /\ s.challenge \in DOMAIN challenges
    /\ challenges[s.challenge].landId = s.landId
    /\ challenges[s.challenge].buyerId = s.newOwner
    /\ challenges[s.challenge].signals.merkleRoot = rootDoc
    /\ s.pc # "transfer" => challenges[s.challenge].signals.nullifier \in usedNullifiers
    /\ s.pc = "recommit" => challenges[s.challenge].usedForTransferAt

(* ... and the handler in the section, whichever it is *)
SectionFields(s) ==
    /\ "pc" \in DOMAIN s
    /\ s.pc # "idle" => "landId" \in DOMAIN s
    /\ s.pc \in {"approve", "rebuild"} \cup Buying \cup Rebuilt =>
          {"leafIndex", "leafBefore", "leafAfter"} \subseteq DOMAIN s
    /\ s.pc \in Buying => {"newOwner", "newLandCommitment", "challenge"} \subseteq DOMAIN s
    /\ s.pc \in Rebuilt => {"snapshot", "todo"} \subseteq DOMAIN s

SectionOK(s) ==
    /\ SectionFields(s)
    /\ s.pc \in Pcs
    /\ s.pc # "idle" => Exists(s.landId)
    /\ s.pc = "index" => s.landCommitment = land[s.landId].landCommitment
    /\ s.pc = "approve" => /\ s.leafIndex \in Leaf /\ s.leafBefore = Nil
                           /\ s.leafAfter = land[s.landId].landCommitment
    /\ s.pc \in Buying => BuyerOK(s)
    /\ s.pc \in {"rebuild"} \cup Rebuilt =>
          /\ s.leafIndex \in Leaf \cup {Nil}
          /\ s.leafBefore \in Commitment \cup {Nil} /\ s.leafAfter \in Commitment \cup {Nil}
    /\ s.pc \in Rebuilt => s.snapshot \in Tree /\ s.todo \subseteq LandId
    /\ s.pc \in Rebuilt \ {"paths"} => s.leafIndex \in Leaf

(* A handler that sent a transaction read what the transaction is made of, and an *)
(* abandoned root update parted the registry from its record *)
CallOK(s) ==
    /\ s.pc \in {"transfer", "register", "anchor"} /\ s.landId \in LandId
    /\ s.pc = "transfer" => s.challenge \in DOMAIN challenges
    /\ s.pc = "anchor" =>
          /\ s.snapshot \in Tree /\ s.leafIndex \in Leaf
          /\ s.leafBefore \in Commitment \cup {Nil} /\ s.leafAfter \in Commitment \cup {Nil}

PendingInv == \A tx \in pending : CallOK(tx.call) /\ (tx.call.pc = "anchor" => parted)

TypeInv == /\ TypeOK /\ verifier = Groth16 /\ rootVerifier = Groth16
           /\ LandInv /\ ChallengeInv /\ JobInv /\ SectionOK(section) /\ PendingInv

-----------------------------------------------------------------------------
(* A sequence is a function on an initial segment of the positive numbers *)
LEMMA FunctionIsSeq ==
    ASSUME NEW n \in Nat, NEW S, NEW s \in [1..n -> S]
    PROVE  s \in Seq(S) /\ Len(s) = n
<1>1. s = [i \in 1..n |-> s[i]] /\ \A i \in 1..n : s[i] \in S
  OBVIOUS
<1>2. [i \in 1..n |-> s[i]] \in Seq(S)
  BY <1>1, IsASeq
<1>3. s \in Seq(S)
  BY <1>1, <1>2
<1>4. Len(s) \in Nat /\ DOMAIN s = 1..Len(s)
  BY <1>3, LenProperties
<1> QED BY <1>3, <1>4

(* A nonempty set of numbers that has a bound has its maximum *)
LEMMA MaxOfBounded ==
    ASSUME NEW n \in Nat, NEW T \in SUBSET (0..n), T # {}
    PROVE  Max(T) \in T /\ \A y \in T : Max(T) >= y
<1> DEFINE D == {x..n : x \in T}
           O == StrictSubsetOrdering(0..n)
<1>1. SUBSET (0..n) = FiniteSubsetsOf(0..n)
  <2>1. 0 \in Int /\ n \in Int
    OBVIOUS
  <2>2. IsFiniteSet(0..n)
    BY <2>1, FS_Interval
  <2> QED BY <2>2, FS_FiniteSubsetsOfFinite
<1>2. IsWellFoundedOn(O, SUBSET (0..n))
  BY <1>1, FS_StrictSubsetOrderingWellFounded
<1>3. D \subseteq SUBSET (0..n) /\ D # {}
  <2>1. \A x \in T : x..n \subseteq 0..n
    OBVIOUS
  <2> QED BY <2>1
<1>4. PICK d \in D : \A e \in D : ~ (<<e, d>> \in O)
  <2> HIDE DEF D, O
  <2> QED BY <1>2, <1>3, WFMin
<1>5. PICK x \in T : d = x..n
  OBVIOUS
<1>6. ASSUME NEW y \in T, y > x
      PROVE  FALSE
  <2>1. y..n \in D /\ y..n \subseteq x..n /\ x \in x..n /\ x \notin y..n
    BY <1>6
  <2>2. y..n \subseteq 0..n /\ x..n \subseteq 0..n /\ y..n # x..n
    BY <2>1
  <2>3. <<y..n, x..n>> \in O
    BY <2>1, <2>2 DEF StrictSubsetOrdering
  <2> QED BY <1>4, <1>5, <2>1, <2>3
<1>7. \A y \in T : x >= y
  BY <1>6
<1> QED BY <1>7 DEF Max

LEMMA InitTypes == Init => TypeInv
<1> SUFFICES ASSUME Init PROVE TypeInv
  OBVIOUS
<1> USE WorkflowAssumption DEF Init
<1>1. NoLand \in Land
  BY DEF NoLand, Land
<1>2. \A S : << >> \in Seq(S)
  BY EmptySeq
<1>3. Contract!TypeOK /\ verifier = Groth16 /\ rootVerifier = Groth16
  BY <1>2 DEF Contract!Init, Contract!TypeOK, Contract!NoRecord, Contract!LandRecord
<1>4. TypeOK
  <2>1. land \in [LandId -> Land]
    BY <1>1
  <2>2. rootDoc \in Tree \cup {Nil} /\ faults \in 0..MaxFaults
    OBVIOUS
  <2>3. stale \in BOOLEAN /\ parted \in BOOLEAN /\ pending = {}
    OBVIOUS
  <2> QED BY <1>3, <2>1, <2>2, <2>3 DEF TypeOK, Land
<1>5. LandInv
  BY DEF LandInv, NoLand
<1>6. ChallengeInv
  BY <1>2 DEF ChallengeInv
<1>7. JobInv
  BY DEF JobInv, JobOK, Free
<1>8. SectionOK(section)
  BY DEF SectionOK, SectionFields, Idle, Pcs, Buying, Rebuilt
<1>9. PendingInv
  BY DEF PendingInv
<1> QED BY <1>3, <1>4, <1>5, <1>6, <1>7, <1>8, <1>9 DEF TypeInv
-----------------------------------------------------------------------------
(* The contract's calls, and what does not call it *)
ChainStep ==
    \/ UNCHANGED chain
    \/ \E h \in LandId : Contract!registerLand(h, h)
    \/ \E r \in Tree : \E t : Contract!updateMerkleRoot(r, t)
    \/ \E h \in LandId : \E b, salt, s :
          s.nullifier \in Secret \X LandId \X (User \X Salt) /\ Contract!verifyAndTransfer(h, b, salt, s)

LEMMA ChainTypes ==
    ASSUME TypeInv, ChainStep
    PROVE  Contract!TypeOK' /\ verifier' = Groth16 /\ rootVerifier' = Groth16
<1> USE DEF TypeInv, TypeOK
<1>1. CASE UNCHANGED chain
  BY <1>1 DEF chain, Contract!TypeOK
<1>2. ASSUME NEW h \in LandId, Contract!registerLand(h, h)
      PROVE  Contract!TypeOK' /\ verifier' = Groth16 /\ rootVerifier' = Groth16
  <2>1. Contract!LandRegistered(h) \in Contract!Event
    BY DEF Contract!LandRegistered, Contract!Event
  <2>2. events' \in Seq(Contract!Event)
    BY <1>2, <2>1, AppendProperties DEF Contract!registerLand, Contract!TypeOK
  <2>3. lands' \in [LandId -> Contract!LandRecord]
    BY <1>2 DEF Contract!registerLand, Contract!TypeOK, Contract!LandRecord
  <2> QED BY <1>2, <2>2, <2>3 DEF Contract!registerLand, Contract!TypeOK
<1>3. ASSUME NEW r \in Tree, NEW t, Contract!updateMerkleRoot(r, t)
      PROVE  Contract!TypeOK' /\ verifier' = Groth16 /\ rootVerifier' = Groth16
  <2>1. r \in Contract!Root
    BY DEF Contract!Root, Contract!Tree, Tree
  <2>2. Contract!MerkleRootUpdated(r) \in Contract!Event
    BY <2>1 DEF Contract!MerkleRootUpdated, Contract!Event
  <2>3. events' \in Seq(Contract!Event)
    BY <1>3, <2>2, AppendProperties DEF Contract!updateMerkleRoot, Contract!TypeOK
  <2> QED BY <1>3, <2>1, <2>3
          DEF Contract!updateMerkleRoot, Contract!_anchorRoot, Contract!set, Contract!TypeOK
<1>4. ASSUME NEW h \in LandId, NEW b, NEW salt, NEW s,
             s.nullifier \in Secret \X LandId \X (User \X Salt),
             Contract!verifyAndTransfer(h, b, salt, s)
      PROVE  Contract!TypeOK' /\ verifier' = Groth16 /\ rootVerifier' = Groth16
  <2>1. s.nullifier \in Contract!Nullifier
    BY <1>4 DEF Contract!Nullifier, Contract!Challenge
  <2>2. Contract!LandTransferred(h, s.nullifier) \in Contract!Event
    BY <2>1 DEF Contract!LandTransferred, Contract!Event
  <2>3. events' \in Seq(Contract!Event)
    BY <1>4, <2>2, AppendProperties DEF Contract!verifyAndTransfer, Contract!TypeOK
  <2>4. lands' \in [LandId -> Contract!LandRecord]
    BY <1>4 DEF Contract!verifyAndTransfer, Contract!TypeOK, Contract!LandRecord
  <2> QED BY <1>4, <2>1, <2>3, <2>4 DEF Contract!verifyAndTransfer, Contract!TypeOK
<1> QED BY <1>1, <1>2, <1>3, <1>4 DEF ChainStep

LEMMA SectionCalls ==
    ASSUME SectionOK(section), section.pc \in {"transfer", "register", "anchor"}
    PROVE  CallOK(section)
BY DEF SectionOK, BuyerOK, CallOK, Exists, Buying, Rebuilt

(* Every transaction is a call of the contract, sent now or pending *)
LEMMA CallSteps ==
    ASSUME TypeInv, NEW s, CallOK(s), Call(s)
    PROVE  /\ ChainStep /\ Contract!Next
           /\ usedNullifiers \subseteq usedNullifiers'
           /\ s.pc # "transfer" => UNCHANGED usedNullifiers
           /\ s.pc # "anchor" => UNCHANGED latestRoot
<1> DEFINE ch == challenges[s.challenge]
           t == TransitionOf(s)
<1>1. CASE s.pc = "transfer"
  <2>1. Contract!verifyAndTransfer(s.landId, ch.buyerId, ch.nonceSalt, ch.signals) /\ s.landId \in LandId
    BY <1>1 DEF Call, CallOK
  <2>2. ch \in Challenge
    BY <1>1, ElementOfSeq, LenProperties DEF CallOK, TypeInv, ChallengeInv
  <2>3. /\ ch.buyerId \in User /\ ch.nonceSalt \in Salt /\ ch.signals \in Contract!OwnershipSignals
        /\ ch.signals.nullifier \in Secret \X LandId \X (User \X Salt)
    BY <2>2 DEF Challenge, Contract!OwnershipSignals, Contract!Nullifier, Contract!Challenge,
       Contract!RootWord, Contract!Root, Contract!Tree, Tree
  <2>4. ChainStep /\ Contract!Next
    <3> HIDE DEF ch
    <3> QED BY <2>1, <2>3 DEF ChainStep, Contract!Next
  <2> QED BY <1>1, <2>1, <2>4 DEF Contract!verifyAndTransfer
<1>2. CASE s.pc = "register"
  <2>1. Contract!registerLand(s.landId, s.landId) /\ s.landId \in LandId
    BY <1>2 DEF Call, CallOK
  <2> QED BY <1>2, <2>1 DEF ChainStep, Contract!Next, Contract!registerLand
<1>3. CASE s.pc = "anchor"
  <2>1. /\ s.snapshot \in Tree /\ s.leafIndex \in Leaf
        /\ s.leafBefore \in Commitment \cup {Nil} /\ s.leafAfter \in Commitment \cup {Nil}
        /\ Contract!updateMerkleRoot(s.snapshot, t)
    BY <1>3 DEF Call, CallOK
  <2>2. [s.snapshot EXCEPT ![s.leafIndex] = s.leafBefore] \in Tree
    BY <2>1 DEF Tree
  <2>3. t \in Contract!TransitionSignals /\ s.snapshot \in Contract!RootWord
    BY <2>1, <2>2 DEF TransitionOf, Contract!TransitionSignals, Contract!RootWord, Contract!Root,
       Contract!Tree, Tree
  <2>4. ChainStep /\ Contract!Next
    <3> HIDE DEF t
    <3> QED BY <2>1, <2>3 DEF ChainStep, Contract!Next
  <2> QED BY <1>3, <2>1, <2>4 DEF Contract!updateMerkleRoot, Contract!_anchorRoot
<1> QED BY <1>1, <1>2, <1>3 DEF CallOK

(* A transaction is left pending by the handler that sent it, and by a fault *)
Sends ==
    /\ parted' \in BOOLEAN /\ (parted => parted')
    /\ \/ pending' \subseteq pending
       \/ Faulty /\ Unconfirmed /\ (section.pc = "anchor" => parted')

LEMMA NothingSent ==
    ASSUME TypeInv, UNCHANGED <<pending, parted>>
    PROVE  Sends
BY DEF Sends, TypeInv, TypeOK

(* What steps beside the section leave it to rely on *)
Kept ==
    /\ \A l \in LandId : land[l].status # "NONE" =>
          /\ land'[l].status # "NONE"
          /\ land'[l].landCommitment = land[l].landCommitment
          /\ land'[l].leafIndex = land[l].leafIndex
    /\ \A k \in DOMAIN challenges : k \in DOMAIN challenges' /\ challenges'[k] = challenges[k]
    /\ UNCHANGED rootDoc /\ usedNullifiers \subseteq usedNullifiers'

LEMMA SectionKeeps ==
    ASSUME SectionOK(section), Kept, UNCHANGED section
    PROVE  SectionOK(section)'
<1>1. section.pc \in Buying => BuyerOK(section)'
  <2>1. section.pc \in Buying => BuyerOK(section) /\ Exists(section.landId)
    BY DEF SectionOK, Buying
  <2> QED BY <2>1 DEF BuyerOK, Kept, Exists
<1>2. /\ section.pc # "idle" => Exists(section.landId)'
      /\ section.pc \in {"index", "approve"} =>
            land'[section.landId].landCommitment = land[section.landId].landCommitment
  BY DEF SectionOK, Kept, Exists
<1> QED BY <1>1, <1>2 DEF SectionOK, SectionFields

LEMMA JobsKeep ==
    ASSUME JobInv, \A l : Exists(l) => Exists(l)',
           \/ UNCHANGED job
           \/ \E w \in Worker : \E j : JobOK(j)' /\ job' = [job EXCEPT ![w] = j]
    PROVE  JobInv'
<1>1. \A w \in Worker : JobOK(job[w])'
    \/ UNCHANGED job
  BY DEF JobInv, JobOK
<1> QED BY <1>1 DEF JobInv, JobOK

(* A handler that goes on to its next step keeps what it has read *)
LEMMA Going ==
    ASSUME SectionFields(section), NEW pc, Goto(pc)
    PROVE  /\ section'.pc = pc /\ DOMAIN section' = DOMAIN section
           /\ \A f \in DOMAIN section \ {"pc"} : section'[f] = section[f]
BY DEF SectionFields, Goto

LEMMA LandSaved ==
    ASSUME TypeInv, NEW l \in LandId, NEW d \in Land, land' = [land EXCEPT ![l] = d],
           d.status # "NONE", d.ownerId \in User,
           d.landCommitment \in Commitment, d.landCommitment[1] = l
    PROVE  land' \in [LandId -> Land] /\ LandInv' /\ \A m : Exists(m) => Exists(m)'
<1>1. land \in [LandId -> Land]
  BY DEF TypeInv, TypeOK, Land
<1> QED BY <1>1 DEF TypeInv, LandInv, Exists

LEMMA TypeStepFrom ==
    ASSUME TypeInv, ChainStep, land' \in [LandId -> Land], LandInv', ChallengeInv', JobInv',
           SectionOK(section)', rootDoc' \in Tree \cup {Nil}, faults' \in 0..MaxFaults,
           stale' \in BOOLEAN, Sends, DOMAIN challenges \subseteq DOMAIN challenges'
    PROVE  TypeInv'
<1>1. \A s : CallOK(s) => CallOK(s)'
  BY DEF CallOK
<1>2. CASE pending' \subseteq pending
  <2>1. PendingInv'
    BY <1>1, <1>2 DEF PendingInv, TypeInv, Sends
  <2> QED BY <1>2, <2>1, ChainTypes DEF TypeInv, TypeOK, Land, Sends
<1>3. CASE Faulty /\ Unconfirmed /\ (section.pc = "anchor" => parted')
  <2> DEFINE new == [sent |-> faults, call |-> section]
  <2>1. pending' = pending \cup {new} /\ new.call = section /\ new.sent = faults
    BY <1>3 DEF Unconfirmed
  <2>2. new.sent \in 0..(MaxFaults - 1) /\ new.call.pc \in {"transfer", "register", "anchor"}
    BY <1>3, <2>1, WorkflowAssumption DEF Faulty, Unconfirmed, TypeInv, TypeOK
  <2>3. CallOK(new.call)
    BY <2>1, <2>2, SectionCalls DEF TypeInv
  <2> HIDE DEF new
  <2>4. PendingInv'
    BY <1>1, <1>3, <2>1, <2>3 DEF PendingInv, TypeInv, Sends
  <2> QED BY <2>1, <2>2, <2>4, ChainTypes DEF TypeInv, TypeOK, Land, Sends
<1> QED BY <1>2, <1>3 DEF Sends

(* Steps of the handler in the section that save no land and no challenge *)
LEMMA QuietStep ==
    ASSUME TypeInv, ChainStep, UNCHANGED <<land, challenges, job, stale>>, SectionOK(section)',
           rootDoc' \in Tree \cup {Nil}, UNCHANGED faults \/ Faulty, Sends
    PROVE  TypeInv'
<1>1. land' \in [LandId -> Land] /\ stale' \in BOOLEAN
  BY DEF TypeInv, TypeOK, Land
<1>2. LandInv' /\ ChallengeInv' /\ JobInv'
  BY DEF TypeInv, LandInv, ChallengeInv, ChallengeOK, JobInv, JobOK, Exists
<1>3. faults' \in 0..MaxFaults
  BY WorkflowAssumption DEF TypeInv, TypeOK, Faulty
<1> QED BY <1>1, <1>2, <1>3, TypeStepFrom

(* Steps beside the section that save a land or start a handler *)
LEMMA BesideStep ==
    ASSUME TypeInv, UNCHANGED <<rootDoc, challenges, section, chain, pending, faults, parted>>,
           stale' \in BOOLEAN, Kept, land' \in [LandId -> Land], LandInv', JobInv'
    PROVE  TypeInv'
<1>1. SectionOK(section)' /\ ChainStep
  BY SectionKeeps DEF TypeInv, ChainStep
<1>2. ChallengeInv' /\ faults' \in 0..MaxFaults /\ rootDoc' \in Tree \cup {Nil}
  BY DEF TypeInv, TypeOK, ChallengeInv, ChallengeOK
<1> QED BY <1>1, <1>2, NothingSent, TypeStepFrom

LEMMA RequestTypes ==
    ASSUME TypeInv, NEW l \in LandId, NEW u \in User, NEW c \in Commitment, Request(l, u, c)
    PROVE  TypeInv'
<1> DEFINE d == [NoLand EXCEPT !.status = "PENDING_APPROVAL", !.ownerId = u, !.landCommitment = c]
<1>1. land \in [LandId -> Land]
  BY DEF TypeInv, TypeOK, Land
<1>2. d \in Land /\ d.status # "NONE" /\ d.ownerId = u /\ d.landCommitment = c
  BY DEF NoLand, Land, LandStatus
<1>3. land' = [land EXCEPT ![l] = d] /\ c[1] = l /\ land[l].status = "NONE"
  BY DEF Request
<1>4. land' \in [LandId -> Land] /\ LandInv' /\ \A m : Exists(m) => Exists(m)'
  <2> HIDE DEF d
  <2> QED BY <1>2, <1>3, LandSaved
<1>5. JobInv'
  BY <1>4, JobsKeep DEF Request, TypeInv
<1>6. Kept
  <2>1. \A m \in LandId : land[m].status # "NONE" => land'[m] = land[m]
    BY <1>1, <1>3
  <2> QED BY <2>1 DEF Kept, Request, chain
<1>7. stale' \in BOOLEAN
  BY DEF Request, history, TypeInv, TypeOK
<1> QED BY <1>4, <1>5, <1>6, <1>7, BesideStep DEF Request, history

LEMMA ReadTypes ==
    ASSUME TypeInv, NEW w \in Worker, NEW l \in LandId,
           \/ rejectLand_Read(w, l) \/ cancelLandSale_Read(w, l)
           \/ \E p \in Price : listLandForSale_Read(w, l, p)
    PROVE  TypeInv'
<1> DEFINE j(op, price) == [op |-> op, landId |-> l, required |-> RequiredBy(op), price |-> price]
<1>1. PICK op \in {"reject", "list", "cancel"}, price \in Price \cup {Nil} :
         /\ op = "list" => price \in Price
         /\ Read(w, l, op, RequiredBy(op), price)
  BY DEF rejectLand_Read, cancelLandSale_Read, listLandForSale_Read, RequiredBy
<1>2. job' = [job EXCEPT ![w] = j(op, price)] /\ UNCHANGED <<db, section, chain, pending, history>>
  BY <1>1 DEF Read
<1>3. land[l].status # "NONE"
  BY <1>1 DEF Read, RequiredBy
<1>4. land' \in [LandId -> Land] /\ LandInv' /\ (\A m : Exists(m) => Exists(m)')
  BY <1>2 DEF TypeInv, TypeOK, Land, LandInv, db, Exists
<1>5. JobOK(j(op, price))'
  BY <1>1, <1>2, <1>3 DEF JobOK, Exists, db
<1>6. JobInv'
  BY <1>2, <1>4, <1>5, JobsKeep DEF TypeInv
<1>7. Kept /\ stale' \in BOOLEAN
  BY <1>2 DEF Kept, TypeInv, TypeOK, db, chain, history
<1> QED BY <1>2, <1>4, <1>6, <1>7, BesideStep DEF db, history

LEMMA SaveTypes ==
    ASSUME TypeInv, NEW w \in Worker,
           rejectLand_Save(w) \/ listLandForSale_Save(w) \/ cancelLandSale_Save(w)
    PROVE  TypeInv'
<1>1. land \in [LandId -> Land]
  BY DEF TypeInv, TypeOK, Land
<1>2. PICK op \in {"reject", "list", "cancel"}, st \in LandStatus, price \in Price \cup {Nil} :
         Save(w, op, [Held(w) EXCEPT !.status = st, !.salePrice = price])
  <2>1. CASE rejectLand_Save(w)
    <3>1. Held(w) \in Land
      BY <1>1, <2>1 DEF rejectLand_Save, Save, TypeInv, JobInv, JobOK, Exists, Held
    <3>2. [Held(w) EXCEPT !.status = "REJECTED"]
             = [Held(w) EXCEPT !.status = "REJECTED", !.salePrice = Held(w).salePrice]
      BY <3>1 DEF Land
    <3> QED BY <2>1, <3>1, <3>2 DEF rejectLand_Save, Land, LandStatus
  <2>2. CASE listLandForSale_Save(w)
    BY <2>2 DEF listLandForSale_Save, Save, TypeInv, JobInv, JobOK, LandStatus
  <2>3. CASE cancelLandSale_Save(w)
    BY <2>3 DEF cancelLandSale_Save, LandStatus
  <2> QED BY <2>1, <2>2, <2>3
<1> DEFINE l == job[w].landId
           d == [Held(w) EXCEPT !.status = st, !.salePrice = price]
<1>3. l \in LandId /\ land[l].status # "NONE" /\ land' = [land EXCEPT ![l] = d]
  BY <1>2 DEF Save, TypeInv, JobInv, JobOK, Exists
<1>4. /\ d \in Land /\ d.status # "NONE" /\ d.ownerId = land[l].ownerId
      /\ d.landCommitment = land[l].landCommitment /\ d.leafIndex = land[l].leafIndex
  <2>1. Held(w) \in Land /\ Held(w) = land[l]
    BY <1>1, <1>3 DEF Held
  <2>2. ASSUME NEW e \in Land, NEW f, f = [e EXCEPT !.status = st, !.salePrice = price]
        PROVE  /\ f \in Land /\ f.status # "NONE" /\ f.ownerId = e.ownerId
               /\ f.landCommitment = e.landCommitment /\ f.leafIndex = e.leafIndex
    BY <2>2 DEF Land, LandStatus
  <2> HIDE DEF l
  <2> QED BY <2>1, <2>2
<1>5. land' \in [LandId -> Land] /\ LandInv' /\ \A m : Exists(m) => Exists(m)'
  <2>1. land[l].ownerId \in User /\ land[l].landCommitment \in Commitment
        /\ land[l].landCommitment[1] = l
    BY <1>3 DEF TypeInv, LandInv
  <2> HIDE DEF d, l
  <2> QED BY <1>3, <1>4, <2>1, LandSaved
<1>6. JobInv'
  BY <1>2, <1>5, JobsKeep DEF Save, TypeInv, JobOK, Free
<1>7. Kept
  <2>1. /\ \A m \in LandId \ {l} : land'[m] = land[m]
        /\ land'[l] = d
    BY <1>1, <1>3
  <2>2. UNCHANGED <<rootDoc, challenges, usedNullifiers>>
    BY <1>2 DEF Save, chain
  <2> HIDE DEF d, l
  <2> QED BY <1>3, <1>4, <2>1, <2>2 DEF Kept
<1>8. stale' \in BOOLEAN
  BY <1>2 DEF Save
<1> QED BY <1>2, <1>5, <1>6, <1>7, <1>8, BesideStep DEF Save

LEMMA VerifyTypes ==
    ASSUME TypeInv, NEW l \in LandId, NEW b \in User, NEW salt \in Salt, verifyChallenge(l, b, salt)
    PROVE  TypeInv'
<1> DEFINE c == [landId |-> l, buyerId |-> b, nonceSalt |-> salt, agreedPrice |-> land[l].salePrice,
                 usedForTransferAt |-> FALSE,
                 signals |-> [nullifier |-> <<land[l].landCommitment[2], l, <<b, salt>>>>,
                              landIdField |-> l, merkleRoot |-> land[l].merkleRoot,
                              challenge |-> <<b, salt>>]]
<1>1. challenges' = Append(challenges, c) /\ challenges \in Seq(Challenge)
  BY DEF verifyChallenge, TypeInv, ChallengeInv
<1>2. /\ land[l] \in Land /\ land[l].status # "NONE" /\ land[l].merkleRoot # Nil
      /\ \E i \in Leaf : land[l].merkleRoot[i] = land[l].landCommitment
  BY DEF verifyChallenge, TypeInv, TypeOK, Land
<1>3. /\ land[l].landCommitment \in Commitment /\ land[l].landCommitment[2] \in Secret
      /\ land[l].landCommitment = <<l, land[l].landCommitment[2]>>
  BY <1>2, WorkflowAssumption DEF TypeInv, LandInv
<1>4. c \in Challenge
  BY <1>2, <1>3 DEF Challenge, Land
<1>5. ChallengeOK(c)
  BY <1>2, <1>3 DEF ChallengeOK
<1>6. \A k \in DOMAIN challenges : k \in DOMAIN challenges' /\ challenges'[k] = challenges[k]
  <2> HIDE DEF c
  <2> QED BY <1>1, <1>4, AppendProperties
<1>7. ChallengeInv'
  <2>1. challenges' \in Seq(Challenge) /\ \A k \in DOMAIN challenges' : k \in DOMAIN challenges \/ challenges'[k] = c
    <3> HIDE DEF c
    <3> QED BY <1>1, <1>4, AppendProperties
  <2> HIDE DEF c
  <2> QED BY <1>5, <1>6, <2>1 DEF TypeInv, ChallengeInv, ChallengeOK
<1>8. SectionOK(section)'
  <2>1. Kept
    BY <1>6 DEF Kept, verifyChallenge, chain
  <2> QED BY <2>1, SectionKeeps DEF verifyChallenge, TypeInv
<1>9. /\ land' \in [LandId -> Land] /\ LandInv' /\ JobInv' /\ ChainStep
      /\ rootDoc' \in Tree \cup {Nil} /\ faults' \in 0..MaxFaults
  BY DEF verifyChallenge, TypeInv, TypeOK, Land, LandInv, JobInv, JobOK, Exists, ChainStep, history
<1>10. stale' \in BOOLEAN /\ Sends
  BY NothingSent DEF verifyChallenge, TypeInv, TypeOK, history
<1> QED BY <1>6, <1>7, <1>8, <1>9, <1>10, TypeStepFrom

-----------------------------------------------------------------------------
(* The steps of an approval and of a purchase *)
LEMMA EnterTypes ==
    ASSUME TypeInv, NEW l \in LandId,
           \/ approveLand(l)
           \/ \E b \in User, c \in Commitment : buyListedLand(l, b, c)
    PROVE  TypeInv'
<1>1. UNCHANGED <<db, job, chain, pending, history>> /\ land[l].status # "NONE"
  BY DEF approveLand, buyListedLand, BuyChecks
<1>2. Exists(l)'
  BY <1>1 DEF Exists, db
<1>3. ASSUME approveLand(l) PROVE SectionOK(section)'
  <2>1. section' = [pc |-> "index", landId |-> l, landCommitment |-> land[l].landCommitment]
    BY <1>3 DEF approveLand, Enter
  <2>2. section'.pc = "index" /\ section'.landId = l /\ SectionFields(section)'
        /\ section'.landCommitment = land'[l].landCommitment
    BY <1>1, <2>1 DEF SectionFields, db, Buying, Rebuilt
  <2> QED BY <1>2, <2>2 DEF SectionOK, Pcs, Buying, Rebuilt
<1>4. ASSUME NEW b \in User, NEW c \in Commitment, buyListedLand(l, b, c)
      PROVE  SectionOK(section)'
  <2>1. PICK k \in DOMAIN challenges :
           /\ BuyChecks(l, b, k)
           /\ section' = [pc |-> "transfer", landId |-> l, leafIndex |-> land[l].leafIndex,
                          leafBefore |-> land[l].landCommitment, leafAfter |-> Nil,
                          newOwner |-> b, newLandCommitment |-> c, challenge |-> k]
    BY <1>4 DEF buyListedLand, Enter
  <2>2. challenges[k].landId = l /\ challenges[k].buyerId = b
    <3> DEFINE mine == {i \in DOMAIN challenges : challenges[i].landId = l /\ challenges[i].buyerId = b}
    <3>1. challenges \in Seq(Challenge)
      BY DEF TypeInv, ChallengeInv
    <3>2. DOMAIN challenges = 1..Len(challenges) /\ Len(challenges) \in Nat
      BY <3>1, LenProperties
    <3>3. k = IF mine = {} THEN 0 ELSE Max(mine)
      BY <2>1 DEF BuyChecks, LatestChallenge
    <3>4. mine # {} /\ k = Max(mine)
      BY <3>2, <3>3
    <3>5. mine \in SUBSET (0..Len(challenges))
      BY <3>2
    <3>6. k \in mine
      <4> HIDE DEF mine
      <4> QED BY <3>2, <3>4, <3>5, MaxOfBounded
    <3> QED BY <3>6
  <2>3. BuyerOK(section)'
    BY <1>1, <1>4, <2>1, <2>2 DEF BuyerOK, buyListedLand, BuyChecks, db, chain
  <2> QED BY <1>2, <2>1, <2>3 DEF SectionOK, SectionFields, Pcs, Buying, Rebuilt
<1>5. SectionOK(section)'
  BY <1>3, <1>4
<1> QED BY <1>1, <1>5, QuietStep, NothingSent DEF db, history, ChainStep, TypeInv, TypeOK

LEMMA TransferTypes ==
    ASSUME TypeInv, buyListedLand_Transfer
    PROVE  TypeInv' /\ (usedNullifiers' # usedNullifiers => rootDoc = latestRoot)
<1> DEFINE ch == challenges[section.challenge]
<1>1. BuyerOK(section) /\ Exists(section.landId) /\ section.pc = "transfer" /\ SectionFields(section)
  BY DEF TypeInv, SectionOK, buyListedLand_Transfer, At, Buying
<1>2. CallOK(section)
  BY <1>1, SectionCalls DEF TypeInv
<1>3. UNCHANGED <<db, job, stale>> /\ (Call(section) \/ UNCHANGED chain) /\ (UNCHANGED faults \/ Faulty)
  BY DEF buyListedLand_Transfer, CallFails
<1>4. ChainStep /\ Sends
  <2>1. ChainStep
    BY <1>2, <1>3, CallSteps DEF ChainStep
  <2>2. Sends
    BY <1>1 DEF buyListedLand_Transfer, CallFails, Sends, TypeInv, TypeOK
  <2> QED BY <2>1, <2>2
<1>5. SectionOK(section)'
  <2>1. CASE Leave
    BY <2>1 DEF Leave, Idle, SectionOK, SectionFields, Pcs, Buying, Rebuilt
  <2>2. CASE Call(section) /\ Goto("consume")
    <3>1. /\ section'.pc = "consume" /\ DOMAIN section' = DOMAIN section
          /\ \A f \in DOMAIN section \ {"pc"} : section'[f] = section[f]
      BY <1>1, <2>2, Going
    <3>2. {"landId", "leafIndex", "leafBefore", "leafAfter", "newOwner", "newLandCommitment",
           "challenge"} \subseteq DOMAIN section
      BY <1>1 DEF SectionFields, Buying
    <3>3. ch.signals.nullifier \in usedNullifiers'
      BY <1>1, <2>2 DEF Call, Contract!verifyAndTransfer
    <3>4. BuyerOK(section)'
      BY <1>1, <1>3, <3>1, <3>2, <3>3 DEF BuyerOK, db
    <3> QED BY <1>1, <1>3, <3>1, <3>2, <3>4
            DEF SectionOK, SectionFields, Exists, db, Pcs, Buying, Rebuilt
  <2> QED BY <2>1, <2>2 DEF buyListedLand_Transfer
<1>6. TypeInv'
  BY <1>3, <1>4, <1>5, QuietStep DEF db, TypeInv, TypeOK
<1>7. ASSUME usedNullifiers' # usedNullifiers PROVE rootDoc = latestRoot
  <2>1. Contract!verifyAndTransfer(section.landId, ch.buyerId, ch.nonceSalt, ch.signals)
    BY <1>1, <1>3, <1>7 DEF chain, Call
  <2> QED BY <1>1, <2>1 DEF Contract!verifyAndTransfer, Contract!Authorizes, Contract!BoundTo,
                         BuyerOK
<1> QED BY <1>6, <1>7

(* The next index is above the leaf of every land in the tree *)
LEMMA NextIndexIsFree ==
    ASSUME land \in [LandId -> Land]
    PROVE  /\ nextLeafIndex \in Nat
           /\ \A l \in treeLandFilter : land[l].leafIndex \in Leaf /\ land[l].leafIndex < nextLeafIndex
<1> DEFINE T == {land[l].leafIndex : l \in treeLandFilter}
<1>1. \A l \in treeLandFilter : land[l].leafIndex \in Leaf
  BY DEF treeLandFilter, Land
<1>2. T \in SUBSET (0..TREE_CAPACITY) /\ TREE_CAPACITY \in Nat
  BY <1>1, WorkflowAssumption DEF Leaf
<1>3. CASE treeLandFilter = {}
  BY <1>3 DEF nextLeafIndex
<1>4. CASE treeLandFilter # {}
  <2>1. T # {}
    BY <1>4
  <2>2. Max(T) \in T /\ \A i \in T : Max(T) >= i
    <3> HIDE DEF T
    <3> QED BY <1>2, <2>1, MaxOfBounded
  <2>3. Max(T) \in Nat /\ \A l \in treeLandFilter : land[l].leafIndex <= Max(T)
    BY <1>2, <2>2
  <2>4. nextLeafIndex = 1 + Max(T)
    BY <1>4 DEF nextLeafIndex
  <2> HIDE DEF T
  <2> QED BY <1>1, <2>3, <2>4 DEF Leaf
<1> QED BY <1>3, <1>4

LEMMA IndexTypes ==
    ASSUME TypeInv, approveLand_Index
    PROVE  TypeInv'
<1>1. /\ UNCHANGED <<db, job, chain, pending, history>> /\ section.pc = "index"
      /\ Exists(section.landId) /\ section.landCommitment = land[section.landId].landCommitment
  BY DEF approveLand_Index, At, TypeInv, SectionOK
<1>2. SectionOK(section)'
  <2>1. CASE Leave
    BY <2>1 DEF Leave, Idle, SectionOK, SectionFields, Pcs, Buying, Rebuilt
  <2>2. CASE ~Leave
    <3>1. nextLeafIndex \in Leaf
      BY <2>2, NextIndexIsFree, WorkflowAssumption DEF approveLand_Index, TypeInv, TypeOK, Land, Leaf
    <3>2. section' = [pc |-> "approve", landId |-> section.landId, leafIndex |-> nextLeafIndex,
                      leafBefore |-> Nil, leafAfter |-> section.landCommitment]
      BY <2>2 DEF approveLand_Index, Enter
    <3>3. /\ section'.pc = "approve" /\ Exists(section.landId)' /\ section'.landId = section.landId
          /\ section'.leafIndex \in Leaf /\ section'.leafBefore = Nil
          /\ section'.leafAfter = land'[section.landId].landCommitment /\ SectionFields(section)'
      BY <1>1, <3>1, <3>2 DEF Exists, db, SectionFields, Buying, Rebuilt
    <3> QED BY <3>3 DEF SectionOK, Pcs, Buying, Rebuilt
  <2> QED BY <2>1, <2>2
<1> QED BY <1>1, <1>2, QuietStep, NothingSent DEF db, history, ChainStep, TypeInv, TypeOK

LEMMA ApproveTypes ==
    ASSUME TypeInv, approveLand_Save
    PROVE  TypeInv'
<1> DEFINE l == section.landId
           d == [land[l] EXCEPT !.leafIndex = section.leafIndex, !.status = "REGISTERED"]
<1>1. land \in [LandId -> Land]
  BY DEF TypeInv, TypeOK, Land
<1>2. /\ section.pc = "approve" /\ Exists(l) /\ SectionFields(section) /\ section.leafIndex \in Leaf
      /\ section.leafBefore = Nil /\ section.leafAfter = land[l].landCommitment
  BY DEF approveLand_Save, At, TypeInv, SectionOK
<1>3. land' = [land EXCEPT ![l] = d]
  BY <1>1, <1>2 DEF approveLand_Save, Exists, Land
<1>4. d \in Land /\ d.status # "NONE" /\ d.ownerId = land[l].ownerId
      /\ d.landCommitment = land[l].landCommitment
  <2>1. land[l] \in Land
    BY <1>1, <1>2 DEF Exists
  <2>2. ASSUME NEW e \in Land, NEW i \in Leaf, NEW f,
               f = [e EXCEPT !.leafIndex = i, !.status = "REGISTERED"]
        PROVE  /\ f \in Land /\ f.status # "NONE" /\ f.ownerId = e.ownerId
               /\ f.landCommitment = e.landCommitment
    BY <2>2 DEF Land, LandStatus
  <2> HIDE DEF l
  <2> QED BY <1>2, <2>1, <2>2
<1>5. l \in LandId /\ land[l].ownerId \in User /\ land[l].landCommitment \in Commitment
      /\ land[l].landCommitment[1] = l
  BY <1>2 DEF TypeInv, LandInv, Exists
<1>6. land' \in [LandId -> Land] /\ LandInv' /\ \A m : Exists(m) => Exists(m)'
  <2> HIDE DEF d, l
  <2> QED BY <1>3, <1>4, <1>5, LandSaved
<1>7. JobInv'
  BY <1>6, JobsKeep DEF approveLand_Save, TypeInv
<1>8. SectionOK(section)'
  <2>1. /\ section'.pc = "rebuild" /\ DOMAIN section' = DOMAIN section
        /\ \A f \in DOMAIN section \ {"pc"} : section'[f] = section[f]
    BY <1>2, Going DEF approveLand_Save
  <2>2. {"landId", "leafIndex", "leafBefore", "leafAfter"} \subseteq DOMAIN section
    BY <1>2 DEF SectionFields
  <2>3. Exists(section.landId)'
    BY <1>2, <1>6, <2>1, <2>2
  <2> QED BY <1>2, <1>5, <2>1, <2>2, <2>3 DEF SectionOK, SectionFields, Pcs, Buying, Rebuilt
<1>9. ChainStep /\ ChallengeInv' /\ rootDoc' \in Tree \cup {Nil} /\ faults' \in 0..MaxFaults
  BY DEF approveLand_Save, ChainStep, TypeInv, TypeOK, ChallengeInv, ChallengeOK
<1>10. stale' \in BOOLEAN /\ Sends
  BY NothingSent DEF approveLand_Save
<1> QED BY <1>6, <1>7, <1>8, <1>9, <1>10, TypeStepFrom DEF approveLand_Save

LEMMA ConsumeTypes ==
    ASSUME TypeInv, buyListedLand_Consume
    PROVE  TypeInv'
<1> DEFINE k == section.challenge
           c == [challenges[k] EXCEPT !.usedForTransferAt = TRUE]
<1>1. /\ section.pc = "consume" /\ BuyerOK(section) /\ Exists(section.landId) /\ SectionFields(section)
      /\ UNCHANGED <<land, rootDoc, job, chain, pending, history>>
  BY DEF TypeInv, SectionOK, buyListedLand_Consume, At, Buying
<1>2. challenges \in Seq(Challenge) /\ k \in DOMAIN challenges /\ challenges[k] \in Challenge
  BY <1>1, ElementOfSeq, LenProperties DEF BuyerOK, TypeInv, ChallengeInv
<1>3. challenges' = [challenges EXCEPT ![k] = c]
  BY <1>2 DEF buyListedLand_Consume, Challenge
<1>4. /\ c \in Challenge /\ c.landId = challenges[k].landId /\ c.buyerId = challenges[k].buyerId
      /\ c.nonceSalt = challenges[k].nonceSalt /\ c.signals = challenges[k].signals
      /\ c.usedForTransferAt
  BY <1>2 DEF Challenge
<1>5. challenges' \in Seq(Challenge) /\ DOMAIN challenges' = DOMAIN challenges
  <2> HIDE DEF c, k
  <2> QED BY <1>2, <1>3, <1>4, ExceptSeq
<1>6. /\ challenges'[k] = c
      /\ \A i \in DOMAIN challenges : i # k => challenges'[i] = challenges[i]
  BY <1>2, <1>3
<1>7. ChallengeInv'
  <2> HIDE DEF c, k
  <2>1. ChallengeOK(c) /\ \A i \in DOMAIN challenges : ChallengeOK(challenges[i])
    BY <1>2, <1>4 DEF TypeInv, ChallengeInv, ChallengeOK
  <2>2. \A i \in DOMAIN challenges : challenges'[i] = c \/ challenges'[i] = challenges[i]
    BY <1>6
  <2>3. \A i \in DOMAIN challenges' : ChallengeOK(challenges'[i])
    BY <1>5, <2>1, <2>2 DEF ChallengeOK
  <2> QED BY <1>5, <2>3 DEF ChallengeInv, ChallengeOK
<1>8. SectionOK(section)'
  <2>1. /\ section'.pc = "recommit" /\ DOMAIN section' = DOMAIN section
        /\ \A f \in DOMAIN section \ {"pc"} : section'[f] = section[f]
    BY <1>1, Going DEF buyListedLand_Consume
  <2>2. {"landId", "leafIndex", "leafBefore", "leafAfter", "newOwner", "newLandCommitment",
         "challenge"} \subseteq DOMAIN section
    BY <1>1 DEF SectionFields, Buying
  <2>3. section'.challenge = k /\ k \in DOMAIN challenges'
    BY <1>2, <1>5, <2>1, <2>2
  <2>4. BuyerOK(section)'
    <3> HIDE DEF c
    <3> QED BY <1>1, <1>4, <1>6, <2>1, <2>2, <2>3 DEF BuyerOK, chain
  <2> QED BY <1>1, <2>1, <2>2, <2>4 DEF SectionOK, SectionFields, Exists, Pcs, Buying, Rebuilt
<1>9. /\ ChainStep /\ land' \in [LandId -> Land] /\ LandInv' /\ JobInv'
      /\ rootDoc' \in Tree \cup {Nil} /\ faults' \in 0..MaxFaults
  BY <1>1 DEF ChainStep, TypeInv, TypeOK, Land, LandInv, JobInv, JobOK, Exists, history
<1>10. stale' \in BOOLEAN /\ Sends
  BY <1>1, NothingSent DEF TypeInv, TypeOK, history
<1> QED BY <1>5, <1>7, <1>8, <1>9, <1>10, TypeStepFrom

LEMMA RecommitTypes ==
    ASSUME TypeInv, buyListedLand_Recommit
    PROVE  TypeInv'
<1> DEFINE l == section.landId
           c == section.newLandCommitment
           d == [NoLand EXCEPT !.status = "PENDING_APPROVAL", !.ownerId = section.newOwner,
                               !.landCommitment = c]
<1>1. /\ section.pc = "recommit" /\ BuyerOK(section) /\ Exists(l) /\ SectionFields(section)
      /\ UNCHANGED <<rootDoc, challenges, job, chain, pending, faults, parted>>
  BY DEF TypeInv, SectionOK, buyListedLand_Recommit, At, Buying
<1>2. CASE Leave /\ UNCHANGED <<land, stale>>
  <2>1. SectionOK(section)'
    BY <1>2 DEF Leave, Idle, SectionOK, SectionFields, Pcs, Buying, Rebuilt
  <2> QED BY <1>1, <1>2, <2>1, QuietStep, NothingSent DEF ChainStep, TypeInv, TypeOK
<1>3. CASE /\ land' = [land EXCEPT ![l] = d] /\ Goto("rebuild")
           /\ stale' = (stale \/ land[l].status # "LISTED_FOR_SALE")
  <2>1. /\ section.newOwner \in User /\ c \in Commitment /\ c[1] = l
        /\ section.leafIndex \in Leaf \cup {Nil} /\ section.leafBefore \in Commitment
        /\ section.leafAfter = Nil
    BY <1>1 DEF BuyerOK, Exists, TypeInv, TypeOK, LandInv
  <2>2. d \in Land /\ d.status # "NONE" /\ d.ownerId = section.newOwner /\ d.landCommitment = c
    BY <2>1 DEF NoLand, Land, LandStatus
  <2>3. land' \in [LandId -> Land] /\ LandInv' /\ \A m : Exists(m) => Exists(m)'
    <3>1. l \in LandId
      BY <1>1 DEF Exists
    <3> HIDE DEF d, c, l
    <3> QED BY <1>3, <2>1, <2>2, <3>1, LandSaved
  <2>4. JobInv'
    BY <1>1, <2>3, JobsKeep DEF TypeInv
  <2>5. SectionOK(section)'
    <3>1. /\ section'.pc = "rebuild" /\ DOMAIN section' = DOMAIN section
          /\ \A f \in DOMAIN section \ {"pc"} : section'[f] = section[f]
      BY <1>1, <1>3, Going
    <3>2. {"landId", "leafIndex", "leafBefore", "leafAfter"} \subseteq DOMAIN section
      BY <1>1 DEF SectionFields, Buying
    <3>3. Exists(section.landId)'
      BY <1>1, <2>3, <3>1, <3>2
    <3>4. /\ section'.leafIndex = section.leafIndex /\ section'.leafBefore = section.leafBefore
          /\ section'.leafAfter = section.leafAfter
      BY <3>1, <3>2
    <3>5. SectionFields(section)'
      BY <1>1, <3>1, <3>2 DEF SectionFields, Buying, Rebuilt
    <3> HIDE DEF c, l
    <3> QED BY <2>1, <3>1, <3>3, <3>4, <3>5 DEF SectionOK, Pcs, Buying, Rebuilt
  <2>6. ChainStep /\ ChallengeInv' /\ rootDoc' \in Tree \cup {Nil} /\ faults' \in 0..MaxFaults
    BY <1>1 DEF ChainStep, TypeInv, TypeOK, ChallengeInv, ChallengeOK
  <2>7. stale' \in BOOLEAN /\ Sends
    BY <1>1, <1>3, NothingSent
  <2> QED BY <1>1, <2>3, <2>4, <2>5, <2>6, <2>7, TypeStepFrom
<1> QED BY <1>2, <1>3 DEF buyListedLand_Recommit

LEMMA RebuildTypes ==
    ASSUME TypeInv, rebuildRegistryTree
    PROVE  TypeInv'
<1>1. section.pc = "rebuild" /\ SectionOK(section) /\ UNCHANGED <<db, job, chain, pending, history>>
  BY DEF TypeInv, rebuildRegistryTree, At
<1>2. PICK t \in RegistryTrees :
         section' = [pc |-> "paths", landId |-> section.landId, leafIndex |-> section.leafIndex,
                     leafBefore |-> section.leafBefore, leafAfter |-> section.leafAfter,
                     snapshot |-> t, todo |-> treeLandFilter]
  BY DEF rebuildRegistryTree, Enter
<1>3. t \in Tree /\ treeLandFilter \subseteq LandId
  BY DEF RegistryTrees, treeLandFilter
<1>4. SectionFields(section)' /\ Exists(section.landId)'
  BY <1>1, <1>2 DEF SectionFields, SectionOK, Exists, db, Buying, Rebuilt
<1>5. SectionOK(section)'
  BY <1>1, <1>2, <1>3, <1>4 DEF SectionOK, Pcs, Buying, Rebuilt
<1> QED BY <1>1, <1>5, QuietStep, NothingSent DEF db, history, ChainStep, TypeInv, TypeOK

LEMMA UpdateTypes ==
    ASSUME TypeInv, NEW l \in LandId, rebuildRegistryTree_Update(l)
    PROVE  TypeInv'
<1>1. /\ section.pc = "paths" /\ SectionOK(section) /\ section.snapshot \in Tree
      /\ section' = [section EXCEPT !.todo = @ \ {l}]
      /\ land' = [land EXCEPT ![l].merkleRoot = section.snapshot] /\ land \in [LandId -> Land]
      /\ UNCHANGED <<rootDoc, challenges, job, chain, pending, history>>
  BY DEF TypeInv, TypeOK, Land, rebuildRegistryTree_Update, At, SectionOK, Rebuilt
<1>2. /\ land' \in [LandId -> Land]
      /\ \A m \in LandId : /\ land'[m].status = land[m].status
                            /\ land'[m].ownerId = land[m].ownerId
                            /\ land'[m].landCommitment = land[m].landCommitment
                            /\ land'[m].leafIndex = land[m].leafIndex
  BY <1>1 DEF Land
<1>3. LandInv' /\ \A m : Exists(m) => Exists(m)'
  BY <1>2 DEF TypeInv, LandInv, Exists
<1>4. JobInv'
  BY <1>1, <1>3, JobsKeep DEF TypeInv
<1>5. SectionOK(section)'
  <2>1. SectionFields(section) /\ {"pc", "landId", "leafIndex", "leafBefore", "leafAfter", "snapshot", "todo"}
             \subseteq DOMAIN section
    BY <1>1 DEF SectionFields, SectionOK, Rebuilt
  <2>2. /\ section'.pc = "paths" /\ section'.landId = section.landId
        /\ section'.leafIndex = section.leafIndex /\ section'.leafBefore = section.leafBefore
        /\ section'.leafAfter = section.leafAfter /\ section'.snapshot = section.snapshot
        /\ section'.todo = section.todo \ {l} /\ DOMAIN section' = DOMAIN section
    BY <1>1, <2>1
  <2> QED BY <1>1, <1>3, <2>1, <2>2 DEF SectionOK, SectionFields, Pcs, Buying, Rebuilt
<1>6. ChainStep /\ ChallengeInv' /\ rootDoc' \in Tree \cup {Nil} /\ faults' \in 0..MaxFaults
  BY <1>1 DEF ChainStep, TypeInv, TypeOK, ChallengeInv, ChallengeOK, history
<1>7. stale' \in BOOLEAN /\ Sends
  BY <1>1, NothingSent DEF TypeInv, TypeOK, history
<1> QED BY <1>1, <1>2, <1>3, <1>4, <1>5, <1>6, <1>7, TypeStepFrom

(* The calls that follow a rebuild *)
LEMMA RebuiltTypes ==
    ASSUME TypeInv, proveRootTransition \/ registerLandOnChain \/ updateRootOnChain \/ recordRoot
    PROVE  TypeInv'
<1>1. /\ SectionOK(section) /\ section.pc \in Rebuilt /\ Exists(section.landId)
      /\ section.snapshot \in Tree /\ UNCHANGED <<land, challenges, job, stale>>
  BY DEF TypeInv, proveRootTransition, registerLandOnChain, updateRootOnChain, recordRoot, At,
         SectionOK, Rebuilt, db, history
<1>2. ASSUME NEW pc \in Rebuilt \ {"paths"}, Goto(pc), section.leafIndex \in Leaf
      PROVE  SectionOK(section)'
  <2>1. SectionFields(section) /\ {"pc", "landId", "leafIndex", "leafBefore", "leafAfter", "snapshot", "todo"}
             \subseteq DOMAIN section
    BY <1>1 DEF SectionFields, SectionOK, Rebuilt
  <2>2. /\ section'.pc = pc /\ DOMAIN section' = DOMAIN section
        /\ \A f \in DOMAIN section \ {"pc"} : section'[f] = section[f]
    BY <1>2, <2>1, Going
  <2> QED BY <1>1, <1>2, <2>1, <2>2 DEF SectionOK, SectionFields, Exists, Pcs, Buying, Rebuilt
<1>3. Leave => SectionOK(section)'
  BY DEF Leave, Idle, SectionOK, SectionFields, Pcs, Buying, Rebuilt
<1>4. SectionOK(section)'
  <2>1. CASE proveRootTransition
    BY <1>2, <1>3, <2>1 DEF proveRootTransition, Rebuilt
  <2>2. CASE registerLandOnChain \/ updateRootOnChain
    BY <1>1, <1>2, <2>2 DEF registerLandOnChain, updateRootOnChain, At, SectionOK, Rebuilt
  <2>3. CASE recordRoot
    BY <1>3, <2>3 DEF recordRoot
  <2> QED BY <2>1, <2>2, <2>3
<1>5. ChainStep
  <2>1. CASE proveRootTransition \/ recordRoot
    BY <2>1 DEF ChainStep, proveRootTransition, recordRoot
  <2>2. CASE registerLandOnChain \/ updateRootOnChain
    <3>1. CallOK(section)
      BY <1>1, <2>2, SectionCalls DEF registerLandOnChain, updateRootOnChain, At
    <3>2. Call(section) \/ UNCHANGED chain
      BY <2>2 DEF registerLandOnChain, updateRootOnChain, CallFails
    <3> QED BY <3>1, <3>2, CallSteps DEF ChainStep
  <2> QED BY <2>1, <2>2
<1>6. rootDoc' \in Tree \cup {Nil}
  BY <1>1 DEF TypeInv, TypeOK, proveRootTransition, registerLandOnChain, updateRootOnChain, recordRoot, db
<1>7. UNCHANGED faults \/ Faulty
  BY DEF proveRootTransition, registerLandOnChain, updateRootOnChain, recordRoot, CallFails, history
<1>8. Sends
  <2>1. CASE proveRootTransition \/ recordRoot
    BY <2>1, NothingSent DEF proveRootTransition, recordRoot, history
  <2>2. CASE registerLandOnChain
    BY <2>2 DEF registerLandOnChain, At, CallFails, Sends, TypeInv, TypeOK
  <2>3. CASE updateRootOnChain
    <3>1. CASE UNCHANGED <<pending, parted>>
      BY <3>1, NothingSent
    <3>2. CASE Faulty /\ (Unconfirmed \/ UNCHANGED pending) /\ parted' = TRUE
      BY <3>2 DEF Sends
    <3> QED BY <2>3, <3>1, <3>2 DEF updateRootOnChain, CallFails
  <2> QED BY <2>1, <2>2, <2>3
<1> QED BY <1>1, <1>4, <1>5, <1>6, <1>7, <1>8, QuietStep

LEMMA CrashTypes ==
    ASSUME TypeInv, Crash
    PROVE  TypeInv'
<1>1. SectionOK(section)'
  BY DEF Crash, Idle, SectionOK, SectionFields, Pcs, Buying, Rebuilt
<1>2. JobInv'
  BY DEF Crash, JobInv, JobOK, Free
<1>3. /\ ChainStep /\ land' \in [LandId -> Land] /\ LandInv' /\ ChallengeInv'
      /\ rootDoc' \in Tree \cup {Nil}
  BY DEF Crash, ChainStep, TypeInv, TypeOK, Land, LandInv, ChallengeInv, ChallengeOK, db
<1>4. faults' \in 0..MaxFaults
  BY WorkflowAssumption DEF Crash, Faulty, TypeInv, TypeOK
<1>5. stale' \in BOOLEAN /\ Sends
  BY DEF Crash, Sends, TypeInv, TypeOK
<1> QED BY <1>1, <1>2, <1>3, <1>4, <1>5, TypeStepFrom DEF Crash, db

LEMMA MineTypes ==
    ASSUME TypeInv, NEW tx \in pending, Mine(tx)
    PROVE  TypeInv'
<1>1. /\ Call(tx.call) /\ CallOK(tx.call) /\ pending' \subseteq pending
      /\ UNCHANGED <<db, section, job, history>>
  BY DEF Mine, TypeInv, PendingInv
<1>2. ChainStep /\ usedNullifiers \subseteq usedNullifiers'
  BY <1>1, CallSteps
<1>3. SectionOK(section)'
  <2>1. Kept
    BY <1>1, <1>2 DEF Kept, db
  <2> QED BY <1>1, <2>1, SectionKeeps DEF TypeInv
<1>4. Sends
  BY <1>1 DEF Sends, history, TypeInv, TypeOK
<1> QED BY <1>1, <1>2, <1>3, <1>4, QuietStep DEF db, history, TypeInv, TypeOK

LEMMA TypeStep ==
    ASSUME TypeInv, [Next]_vars
    PROVE  TypeInv'
<1>1. CASE UNCHANGED vars
  <2>1. Kept /\ land' \in [LandId -> Land] /\ LandInv' /\ JobInv'
    BY <1>1 DEF vars, db, chain, Kept, TypeInv, TypeOK, Land, LandInv, JobInv, JobOK, Exists
  <2>2. stale' \in BOOLEAN
    BY <1>1 DEF vars, history, TypeInv, TypeOK
  <2> QED BY <1>1, <2>1, <2>2, BesideStep DEF vars, db, history
<1>2. CASE Next
  BY <1>2, RequestTypes, ReadTypes, SaveTypes, VerifyTypes, EnterTypes, IndexTypes, ApproveTypes,
     TransferTypes, ConsumeTypes, RecommitTypes, RebuildTypes, UpdateTypes, RebuiltTypes, CrashTypes,
     MineTypes DEF Next, SectionStep
<1> QED BY <1>1, <1>2

(* Every variable of the workflow and of the contract keeps its type *)
THEOREM TypeCorrect == Spec => []TypeOK
<1>1. TypeInv => TypeOK
  BY DEF TypeInv
<1> QED BY <1>1, InitTypes, TypeStep, PTL DEF Spec

-----------------------------------------------------------------------------
(* The leaves of the registry, as the land documents ld have them *)
InTree(d) == d.status \in {"REGISTERED", "LISTED_FOR_SALE"} /\ d.leafIndex # Nil

Gate(ld) == \A l \in LandId : ld[l].leafIndex # Nil <=> ld[l].status \in {"REGISTERED", "LISTED_FOR_SALE"}

Distinct(ld) == \A l, m \in LandId :
    InTree(ld[l]) /\ InTree(ld[m]) /\ ld[l].leafIndex = ld[m].leafIndex => l = m

LeavesKept(ld, new) == \A l \in LandId :
    /\ new[l].leafIndex = ld[l].leafIndex
    /\ new[l].status \in {"REGISTERED", "LISTED_FOR_SALE"} <=> ld[l].status \in {"REGISTERED", "LISTED_FOR_SALE"}
    /\ InTree(ld[l]) => new[l].landCommitment = ld[l].landCommitment

(* Only an approval puts a land on a leaf, a free one, and only a sale takes one off *)
Placed(ld, new, l, i, c) ==
    /\ ld[l].leafIndex = Nil /\ new[l].leafIndex = i /\ new[l].status = "REGISTERED"
    /\ new[l].landCommitment = c
    /\ \A m \in LandId : InTree(ld[m]) => ld[m].leafIndex # i
    /\ \A m \in LandId \ {l} : new[m] = ld[m]

Removed(ld, new, l) ==
    /\ InTree(ld[l]) /\ new[l].leafIndex = Nil /\ new[l].status = "PENDING_APPROVAL"
    /\ \A m \in LandId \ {l} : new[m] = ld[m]

GateInv ==
    ~stale => /\ Gate(land) /\ Distinct(land)
              /\ section.pc = "approve" =>
                    \A m \in LandId : InTree(land[m]) => land[m].leafIndex # section.leafIndex

LEMMA GateKept ==
    ASSUME NEW ld, NEW new, Gate(ld), Distinct(ld),
           \/ LeavesKept(ld, new)
           \/ \E l \in LandId, i \in Leaf, c \in Commitment : Placed(ld, new, l, i, c)
           \/ \E l \in LandId : Removed(ld, new, l)
    PROVE  Gate(new) /\ Distinct(new)
<1>1. CASE LeavesKept(ld, new)
  BY <1>1 DEF LeavesKept, Gate, Distinct, InTree
<1>2. ASSUME NEW l \in LandId, NEW i \in Leaf, NEW c \in Commitment, Placed(ld, new, l, i, c)
      PROVE  Gate(new) /\ Distinct(new)
  <2>1. i # Nil
    BY WorkflowAssumption DEF Leaf
  <2>2. Gate(new)
    BY <1>2, <2>1 DEF Placed, Gate
  <2>3. Distinct(new)
    BY <1>2 DEF Placed, Distinct, InTree
  <2> QED BY <2>2, <2>3
<1>3. ASSUME NEW l \in LandId, Removed(ld, new, l)
      PROVE  Gate(new) /\ Distinct(new)
  BY <1>3 DEF Removed, Gate, Distinct, InTree
<1> QED BY <1>1, <1>2, <1>3

(* The three handlers that hold no lock, when no save was stale, and the requests *)
LEMMA BesideLeaves ==
    ASSUME TypeInv, GateInv, ~stale',
           \/ \E l \in LandId, u \in User, c \in Commitment : Request(l, u, c)
           \/ \E w \in Worker :
                 rejectLand_Save(w) \/ listLandForSale_Save(w) \/ cancelLandSale_Save(w)
    PROVE  /\ ~stale /\ LeavesKept(land, land')
           /\ \A l \in LandId : InTree(land[l]) => land'[l].merkleRoot = land[l].merkleRoot
<1>1. land \in [LandId -> Land]
  BY DEF TypeInv, TypeOK, Land
<1>2. ASSUME NEW l \in LandId, NEW u \in User, NEW c \in Commitment, Request(l, u, c)
      PROVE  /\ ~stale /\ LeavesKept(land, land')
             /\ \A m \in LandId : InTree(land[m]) => land'[m].merkleRoot = land[m].merkleRoot
  <2>1. ~stale
    BY <1>2 DEF Request, history
  <2>2. land[l].status = "NONE" /\ land[l].leafIndex = Nil
    BY <1>2 DEF Request, TypeInv, LandInv
  <2>3. land'[l].leafIndex = Nil /\ land'[l].status = "PENDING_APPROVAL"
    BY <1>1, <1>2 DEF Request, NoLand
  <2>4. \A m \in LandId \ {l} : land'[m] = land[m]
    BY <1>1, <1>2 DEF Request
  <2> QED BY <2>1, <2>2, <2>3, <2>4 DEF LeavesKept, InTree
<1>3. ASSUME NEW w \in Worker,
             rejectLand_Save(w) \/ listLandForSale_Save(w) \/ cancelLandSale_Save(w)
      PROVE  /\ ~stale /\ LeavesKept(land, land')
             /\ \A m \in LandId : InTree(land[m]) => land'[m].merkleRoot = land[m].merkleRoot
  <2> DEFINE l == job[w].landId
  <2> DEFINE New(op) == CASE op = "reject" -> [Held(w) EXCEPT !.status = "REJECTED"]
                          [] op = "list" -> [Held(w) EXCEPT !.status = "LISTED_FOR_SALE",
                                                            !.salePrice = job[w].price]
                          [] op = "cancel" -> [Held(w) EXCEPT !.status = "REGISTERED", !.salePrice = Nil]
  <2>1. PICK op \in {"reject", "list", "cancel"} : Save(w, op, New(op))
    <3>1. CASE rejectLand_Save(w)
      BY <3>1 DEF rejectLand_Save
    <3>2. CASE listLandForSale_Save(w)
      BY <3>2 DEF listLandForSale_Save
    <3>3. CASE cancelLandSale_Save(w)
      BY <3>3 DEF cancelLandSale_Save
    <3> QED BY <1>3, <3>1, <3>2, <3>3
  <2> DEFINE fields == New(op)
  <2>2. l \in LandId /\ land[l] \in Land /\ Held(w) = land[l] /\ job[w].required = RequiredBy(op)
    BY <1>1, <2>1 DEF Save, TypeInv, JobInv, JobOK, Exists, Held
  <2>3. ~stale /\ land[l].status = job[w].required
    BY <2>1 DEF Save
  <2>4. land' = [land EXCEPT ![l] = fields]
    BY <2>1 DEF Save
  <2>5. /\ fields.leafIndex = land[l].leafIndex /\ fields.landCommitment = land[l].landCommitment
        /\ fields.merkleRoot = land[l].merkleRoot
        /\ fields.status = CASE op = "reject" -> "REJECTED" [] op = "list" -> "LISTED_FOR_SALE"
                             [] op = "cancel" -> "REGISTERED"
    <3>1. \A e \in Land : /\ [e EXCEPT !.status = "REJECTED"].leafIndex = e.leafIndex
                          /\ [e EXCEPT !.status = "REJECTED"].landCommitment = e.landCommitment
                          /\ [e EXCEPT !.status = "REJECTED"].merkleRoot = e.merkleRoot
                          /\ [e EXCEPT !.status = "REJECTED"].status = "REJECTED"
      BY DEF Land
    <3> HIDE DEF l
    <3>2. CASE op = "reject"
      BY <2>1, <2>2, <3>1, <3>2
    <3>3. CASE op = "list"
      <4>1. fields = [land[l] EXCEPT !.status = "LISTED_FOR_SALE", !.salePrice = job[w].price]
        BY <2>1, <2>2, <3>3
      <4>2. /\ fields.leafIndex = land[l].leafIndex /\ fields.landCommitment = land[l].landCommitment
            /\ fields.merkleRoot = land[l].merkleRoot /\ fields.status = "LISTED_FOR_SALE"
        BY <2>2, <4>1 DEF Land
      <4> QED BY <3>3, <4>2
    <3>4. CASE op = "cancel"
      <4>1. fields = [land[l] EXCEPT !.status = "REGISTERED", !.salePrice = Nil]
        BY <2>1, <2>2, <3>4
      <4>2. /\ fields.leafIndex = land[l].leafIndex /\ fields.landCommitment = land[l].landCommitment
            /\ fields.merkleRoot = land[l].merkleRoot /\ fields.status = "REGISTERED"
        BY <2>2, <4>1 DEF Land
      <4> QED BY <3>4, <4>2
    <3> QED BY <3>2, <3>3, <3>4
  <2>6. land'[l] = fields /\ \A m \in LandId \ {l} : land'[m] = land[m]
    BY <1>1, <2>2, <2>4
  <2>7. /\ land'[l].leafIndex = land[l].leafIndex
        /\ land'[l].status \in {"REGISTERED", "LISTED_FOR_SALE"}
              <=> land[l].status \in {"REGISTERED", "LISTED_FOR_SALE"}
        /\ land'[l].landCommitment = land[l].landCommitment
        /\ land'[l].merkleRoot = land[l].merkleRoot
    <3> HIDE DEF l
    <3> QED BY <2>2, <2>3, <2>5, <2>6 DEF RequiredBy
  <2> HIDE DEF l
  <2> QED BY <2>2, <2>3, <2>6, <2>7 DEF LeavesKept
<1> QED BY <1>2, <1>3

(* The two saves of the handlers that hold the lock *)
LEMMA ApprovePlaces ==
    ASSUME TypeInv, GateInv, ~stale', approveLand_Save
    PROVE  /\ ~stale
           /\ Placed(land, land', section.landId, section.leafIndex, section.leafAfter)
<1>1. /\ section.pc = "approve" /\ section.landId \in LandId /\ section.leafIndex \in Leaf
      /\ section.leafAfter = land[section.landId].landCommitment
  BY DEF TypeInv, SectionOK, Exists, approveLand_Save, At
<1>2. ~stale /\ land[section.landId].status = "PENDING_APPROVAL"
  BY DEF approveLand_Save
<1>3. /\ land[section.landId].leafIndex = Nil
      /\ \A m \in LandId : InTree(land[m]) => land[m].leafIndex # section.leafIndex
  BY <1>1, <1>2 DEF GateInv, Gate
<1>4. land \in [LandId -> Land]
  BY DEF TypeInv, TypeOK, Land
<1>5. /\ land'[section.landId].leafIndex = section.leafIndex
      /\ land'[section.landId].status = "REGISTERED"
      /\ land'[section.landId].landCommitment = land[section.landId].landCommitment
      /\ \A m \in LandId \ {section.landId} : land'[m] = land[m]
  BY <1>1, <1>4 DEF approveLand_Save, Land
<1> QED BY <1>1, <1>2, <1>3, <1>5 DEF Placed

LEMMA RecommitRemoves ==
    ASSUME TypeInv, GateInv, ~stale', buyListedLand_Recommit, land' # land
    PROVE  ~stale /\ Removed(land, land', section.landId) /\ section'.pc = "rebuild"
           /\ land'[section.landId].ownerId = section.newOwner
<1>1. section.landId \in LandId /\ SectionFields(section)
  BY DEF TypeInv, SectionOK, Exists, buyListedLand_Recommit, At
<1>2. ~stale /\ land[section.landId].status = "LISTED_FOR_SALE" /\ Goto("rebuild")
      /\ land' = [land EXCEPT ![section.landId] =
                  [NoLand EXCEPT !.status = "PENDING_APPROVAL", !.ownerId = section.newOwner,
                                 !.landCommitment = section.newLandCommitment]]
  BY DEF buyListedLand_Recommit
<1>3. land[section.landId].leafIndex # Nil
  BY <1>1, <1>2 DEF GateInv, Gate
<1>4. land \in [LandId -> Land]
  BY DEF TypeInv, TypeOK, Land
<1>5. /\ land'[section.landId].leafIndex = Nil
      /\ land'[section.landId].status = "PENDING_APPROVAL"
      /\ land'[section.landId].ownerId = section.newOwner
      /\ \A m \in LandId \ {section.landId} : land'[m] = land[m]
  BY <1>1, <1>2, <1>4 DEF NoLand
<1>6. section'.pc = "rebuild"
  BY <1>1, <1>2, Going
<1> QED BY <1>2, <1>3, <1>5, <1>6 DEF Removed, InTree

(* What a step does to the leaves, while no save is stale *)
LEMMA LeavesStep ==
    ASSUME TypeInv, GateInv, [Next]_vars, ~stale'
    PROVE  /\ ~stale
           /\ \/ LeavesKept(land, land')
              \/ /\ section'.pc = "rebuild"
                 /\ \/ \E l \in LandId, i \in Leaf, c \in Commitment : Placed(land, land', l, i, c)
                    \/ \E l \in LandId : Removed(land, land', l)
           /\ \/ LeavesKept(land, land') /\ section' = section
              \/ section'.pc # "approve"
              \/ approveLand_Index
<1>1. land \in [LandId -> Land] /\ SectionFields(section)
  BY DEF TypeInv, TypeOK, Land, SectionOK
<1>2. LeavesKept(land, land)
  BY DEF LeavesKept
<1>3. CASE UNCHANGED <<land, stale, section>>
  BY <1>2, <1>3
<1>4. CASE \/ \E l \in LandId, u \in User, c \in Commitment : Request(l, u, c)
           \/ \E w \in Worker : rejectLand_Save(w) \/ listLandForSale_Save(w) \/ cancelLandSale_Save(w)
  <2>1. UNCHANGED section
    BY <1>4 DEF Request, rejectLand_Save, listLandForSale_Save, cancelLandSale_Save, Save
  <2> QED BY <1>4, <2>1, BesideLeaves
<1>5. CASE approveLand_Save
  <2>1. section'.pc = "rebuild"
    BY <1>1, <1>5, Going DEF approveLand_Save
  <2>2. section.landId \in LandId /\ section.leafIndex \in Leaf /\ section.leafAfter \in Commitment
    BY <1>5 DEF TypeInv, LandInv, SectionOK, Exists, approveLand_Save, At
  <2> QED BY <1>5, <2>1, <2>2, ApprovePlaces
<1>6. CASE buyListedLand_Recommit
  <2>1. CASE land' = land
    <3>1. ~stale
      BY <1>6 DEF buyListedLand_Recommit
    <3>2. section'.pc # "approve"
      BY <1>1, <1>6, Going DEF buyListedLand_Recommit, Leave, Idle
    <3> QED BY <1>2, <2>1, <3>1, <3>2
  <2>2. CASE land' # land
    <3>1. section.landId \in LandId
      BY <1>6 DEF TypeInv, SectionOK, Exists, buyListedLand_Recommit, At
    <3> QED BY <1>6, <2>2, <3>1, RecommitRemoves
  <2> QED BY <2>1, <2>2
<1>7. ASSUME NEW l \in LandId, rebuildRegistryTree_Update(l)
      PROVE  ~stale /\ LeavesKept(land, land') /\ section'.pc # "approve"
  <2>1. \A m \in LandId : /\ land'[m].status = land[m].status
                          /\ land'[m].leafIndex = land[m].leafIndex
                          /\ land'[m].landCommitment = land[m].landCommitment
    BY <1>1, <1>7 DEF rebuildRegistryTree_Update, Land
  <2>2. section'.pc # "approve"
    BY <1>1, <1>7 DEF rebuildRegistryTree_Update, At, SectionFields
  <2>3. ~stale
    BY <1>7 DEF rebuildRegistryTree_Update, history
  <2> QED BY <2>1, <2>2, <2>3 DEF LeavesKept
<1>8. CASE approveLand_Index
  BY <1>2, <1>8 DEF approveLand_Index, db, history
<1>9. CASE Crash \/ recordRoot
  BY <1>2, <1>9 DEF Crash, recordRoot, Leave, Idle, db, history
<1>14. CASE \E tx \in pending : Mine(tx)
  BY <1>3, <1>14 DEF Mine, db, history
<1>10. CASE \E l \in LandId : approveLand(l) \/ \E b \in User, c \in Commitment : buyListedLand(l, b, c)
  BY <1>2, <1>10 DEF approveLand, buyListedLand, Enter, db, history
<1>11. CASE rebuildRegistryTree
  BY <1>2, <1>11 DEF rebuildRegistryTree, Enter, db, history
<1>12. CASE buyListedLand_Transfer \/ buyListedLand_Consume \/ proveRootTransition \/ registerLandOnChain
            \/ updateRootOnChain
  <2>1. UNCHANGED <<land, stale>>
    BY <1>12 DEF buyListedLand_Transfer, buyListedLand_Consume, proveRootTransition, registerLandOnChain,
       updateRootOnChain, db, history
  <2>2. \E pc \in {"consume", "recommit", "register", "anchor", "record"} : Goto(pc) \/ Leave
    BY <1>12 DEF buyListedLand_Transfer, buyListedLand_Consume, proveRootTransition, registerLandOnChain,
       updateRootOnChain
  <2>3. section'.pc # "approve"
    BY <1>1, <2>2, Going DEF Leave, Idle
  <2> QED BY <1>2, <2>1, <2>3
<1>13. CASE \/ \E w \in Worker, l \in LandId : rejectLand_Read(w, l) \/ cancelLandSale_Read(w, l)
            \/ \E w \in Worker, l \in LandId, p \in Price : listLandForSale_Read(w, l, p)
            \/ \E l \in LandId, b \in User, salt \in Salt : verifyChallenge(l, b, salt)
            \/ UNCHANGED vars
  <2>1. UNCHANGED <<land, stale, section>>
    BY <1>13 DEF rejectLand_Read, cancelLandSale_Read, listLandForSale_Read, Read, verifyChallenge,
       vars, db, history
  <2> QED BY <1>3, <2>1
<1> QED BY <1>4, <1>5, <1>6, <1>7, <1>8, <1>9, <1>10, <1>11, <1>12, <1>13, <1>14 DEF Next, SectionStep

LEMMA GateStep ==
    ASSUME TypeInv, GateInv, [Next]_vars
    PROVE  GateInv'
<1> SUFFICES ASSUME ~stale' PROVE GateInv'
  BY DEF GateInv
<1>1. ~stale /\ Gate(land) /\ Distinct(land)
  BY LeavesStep DEF GateInv
<1>2. Gate(land') /\ Distinct(land')
  BY <1>1, LeavesStep, GateKept
<1>3. ASSUME section'.pc = "approve"
      PROVE  \A m \in LandId : InTree(land'[m]) => land'[m].leafIndex # section'.leafIndex
  <2>1. CASE LeavesKept(land, land') /\ section' = section
    BY <1>1, <1>3, <2>1 DEF GateInv, LeavesKept, InTree
  <2>2. CASE approveLand_Index
    <3>1. land' = land /\ section'.leafIndex = nextLeafIndex
      BY <1>3, <2>2 DEF approveLand_Index, Leave, Idle, Enter, db
    <3>2. \A m \in LandId : InTree(land[m]) => m \in treeLandFilter
      BY DEF InTree, treeLandFilter
    <3>3. \A m \in LandId : InTree(land[m]) => land[m].leafIndex \in Leaf /\ land[m].leafIndex < nextLeafIndex
      BY <3>2, NextIndexIsFree DEF TypeInv, TypeOK, Land
    <3> QED BY <3>1, <3>3, NextIndexIsFree, WorkflowAssumption DEF Leaf, TypeInv, TypeOK, Land
  <2> QED BY <1>3, <2>1, <2>2, LeavesStep
<1> QED BY <1>2, <1>3 DEF GateInv

LEMMA InitGate == Init => GateInv
BY WorkflowAssumption DEF Init, GateInv, Gate, Distinct, InTree, NoLand, Idle

(* Of two active lands, whatever crashed and whatever the chain refused, each has a *)
(* leaf of its own; only a save over a document that moved on can break that. *)
THEOREM LeavesAreDistinct == Spec => []LeavesDistinct
<1>1. GateInv => LeavesDistinct
  BY DEF GateInv, Distinct, InTree, LeavesDistinct, treeLandFilter
<1> QED BY <1>1, InitTypes, InitGate, TypeStep, GateStep, PTL DEF Spec

(* Under the same condition a land has a leaf exactly while its approval stands. *)
THEOREM ApprovalGates == Spec => []ReapprovalGate
<1>1. GateInv => ReapprovalGate
  BY DEF GateInv, Gate, ReapprovalGate
<1> QED BY <1>1, InitTypes, InitGate, TypeStep, GateStep, PTL DEF Spec

-----------------------------------------------------------------------------
(* The tree that the documents ld commit to, and the paths stored in them *)
Cur(root) == IF root = Nil THEN Contract!EMPTY_TREE_ROOT ELSE root

Fits(ld, t) ==
    /\ t \in Tree
    /\ \A l \in LandId : InTree(ld[l]) => t[ld[l].leafIndex] = ld[l].landCommitment
    /\ \A i \in Leaf : (\A l \in LandId : InTree(ld[l]) => ld[l].leafIndex # i) => t[i] = Nil

Paths(ld, t, todo) == \A l \in LandId \ todo : InTree(ld[l]) => ld[l].merkleRoot = t

(* The one leaf that the handler in s changes *)
After(s, root) == [Cur(root) EXCEPT ![s.leafIndex] = s.leafAfter]

Undecided == {"idle", "index", "approve"} \cup Buying
Changing == {"rebuild", "paths", "register", "anchor"}

(* How far the documents, the recorded root and the contract's have come apart *)
Agreed(s, ld, root, doc) ==
    /\ s.pc # "record" => doc = root
    /\ s.pc \in Undecided => Fits(ld, Cur(root)) /\ Paths(ld, Cur(root), {})
    /\ s.pc \in Changing => s.leafIndex \in Leaf /\ Cur(root)[s.leafIndex] = s.leafBefore
    /\ s.pc = "rebuild" => Fits(ld, After(s, root))
    /\ s.pc \in Changing \ {"rebuild"} => s.snapshot = After(s, root)
    /\ s.pc \in Rebuilt => Fits(ld, s.snapshot)
    /\ s.pc = "paths" => Paths(ld, s.snapshot, s.todo)
    /\ s.pc \in Rebuilt \ {"paths"} => Paths(ld, s.snapshot, {})
    /\ s.pc = "record" => root = s.snapshot

RegistryInv == ~parted /\ ~stale => Agreed(section, land, latestRoot, rootDoc)

LEMMA FitsUnique ==
    ASSUME NEW ld, NEW t, NEW u, Fits(ld, t), Fits(ld, u)
    PROVE  t = u
<1>1. \A i \in Leaf : t[i] = u[i]
  BY DEF Fits
<1> QED BY <1>1 DEF Fits, Tree

LEMMA FitsRegistry ==
    ASSUME Distinct(land), land \in [LandId -> Land]
    PROVE  \A t : t \in RegistryTrees <=> Fits(land, t)
<1>1. \A l : l \in treeLandFilter <=> l \in LandId /\ InTree(land[l])
  BY DEF treeLandFilter, InTree
<1>2. \A l \in treeLandFilter : land[l].leafIndex \in Leaf
  BY <1>1 DEF InTree, Land
<1>3. ASSUME NEW t \in Tree, NEW i \in Leaf
      PROVE  (LET there == {l \in treeLandFilter : land[l].leafIndex = i} IN
              IF there = {} THEN t[i] = Nil ELSE \E l \in there : t[i] = land[l].landCommitment)
             <=> /\ (\A l \in treeLandFilter : land[l].leafIndex # i) => t[i] = Nil
                 /\ (\E l \in treeLandFilter : land[l].leafIndex = i) =>
                       \E l \in treeLandFilter : land[l].leafIndex = i /\ t[i] = land[l].landCommitment
  <2> DEFINE there == {l \in treeLandFilter : land[l].leafIndex = i}
  <2>1. CASE there = {}
    BY <2>1
  <2>2. CASE there # {}
    BY <2>2
  <2> QED BY <2>1, <2>2
<1>4. \A t : t \in RegistryTrees <=>
         /\ t \in Tree
         /\ \A i \in Leaf :
               /\ (\A l \in treeLandFilter : land[l].leafIndex # i) => t[i] = Nil
               /\ (\E l \in treeLandFilter : land[l].leafIndex = i) =>
                     \E l \in treeLandFilter : land[l].leafIndex = i /\ t[i] = land[l].landCommitment
  <2> TAKE t
  <2> DEFINE there(i) == {l \in treeLandFilter : land[l].leafIndex = i}
             Here(i) == IF there(i) = {} THEN t[i] = Nil
                        ELSE \E l \in there(i) : t[i] = land[l].landCommitment
  <2>1. t \in RegistryTrees <=> t \in Tree /\ \A i \in Leaf : Here(i)
    BY Zenon DEF RegistryTrees
  <2>2. ASSUME t \in Tree, NEW i \in Leaf
        PROVE  Here(i) <=>
                 /\ (\A l \in treeLandFilter : land[l].leafIndex # i) => t[i] = Nil
                 /\ (\E l \in treeLandFilter : land[l].leafIndex = i) =>
                       \E l \in treeLandFilter : land[l].leafIndex = i /\ t[i] = land[l].landCommitment
    BY <1>3, <2>2
  <2> HIDE DEF Here
  <2> QED BY <2>1, <2>2
<1>5. ASSUME NEW t \in RegistryTrees PROVE Fits(land, t)
  <2>1. ASSUME NEW l \in LandId, InTree(land[l]) PROVE t[land[l].leafIndex] = land[l].landCommitment
    <3>1. l \in treeLandFilter /\ land[l].leafIndex \in Leaf
      BY <1>1, <1>2, <2>1
    <3>2. PICK m \in treeLandFilter : /\ land[m].leafIndex = land[l].leafIndex
                                      /\ t[land[l].leafIndex] = land[m].landCommitment
      BY <1>4, <3>1
    <3>3. m = l
      BY <1>1, <2>1, <3>2 DEF Distinct
    <3> QED BY <3>2, <3>3
  <2>2. \A i \in Leaf : (\A l \in LandId : InTree(land[l]) => land[l].leafIndex # i) => t[i] = Nil
    BY <1>1, <1>4
  <2> QED BY <1>4, <2>1, <2>2 DEF Fits
<1>6. ASSUME NEW t, Fits(land, t) PROVE t \in RegistryTrees
  BY <1>1, <1>4, <1>6 DEF Fits
<1> QED BY <1>5, <1>6

LEMMA FitsKept ==
    ASSUME NEW ld, NEW new, NEW t, LeavesKept(ld, new), Fits(ld, t)
    PROVE  Fits(new, t)
BY DEF LeavesKept, Fits, InTree

LEMMA FitsPlaced ==
    ASSUME NEW ld, NEW new, NEW t, NEW l \in LandId, NEW i \in Leaf, NEW c \in Commitment,
           Placed(ld, new, l, i, c), Fits(ld, t)
    PROVE  t[i] = Nil /\ Fits(new, [t EXCEPT ![i] = c])
<1> DEFINE u == [t EXCEPT ![i] = c]
<1>1. t[i] = Nil
  BY DEF Fits, Placed
<1>2. u \in Tree /\ u[i] = c /\ \A j \in Leaf \ {i} : u[j] = t[j]
  BY DEF Fits, Tree
<1>3. ASSUME NEW m \in LandId, InTree(new[m])
      PROVE  u[new[m].leafIndex] = new[m].landCommitment
  <2>1. CASE m = l
    BY <1>2, <2>1 DEF Placed
  <2>2. CASE m # l
    <3>1. new[m] = ld[m] /\ InTree(ld[m]) /\ ld[m].leafIndex # i
      BY <1>3, <2>2 DEF Placed
    <3>2. t[ld[m].leafIndex] = ld[m].landCommitment
      BY <3>1 DEF Fits
    <3>3. u[ld[m].leafIndex] = t[ld[m].leafIndex] \/ ld[m].leafIndex \notin Leaf
      BY <1>2, <3>1
    <3> QED BY <3>1, <3>2, <3>3
  <2> QED BY <2>1, <2>2
<1>4. ASSUME NEW j \in Leaf, \A m \in LandId : InTree(new[m]) => new[m].leafIndex # j
      PROVE  u[j] = Nil
  <2>1. j # i
    BY <1>4, WorkflowAssumption DEF Placed, InTree, Leaf
  <2>2. \A m \in LandId : InTree(ld[m]) => ld[m].leafIndex # j
    BY <1>4 DEF Placed, InTree
  <2> QED BY <1>2, <2>1, <2>2 DEF Fits
<1> HIDE DEF u
<1>5. Fits(new, u)
  BY <1>2, <1>3, <1>4 DEF Fits
<1> QED BY <1>1, <1>5 DEF u

LEMMA FitsRemoved ==
    ASSUME NEW ld, NEW new, NEW t, NEW l \in LandId, ld[l].leafIndex \in Leaf,
           Distinct(ld), Removed(ld, new, l), Fits(ld, t)
    PROVE  t[ld[l].leafIndex] = ld[l].landCommitment /\ Fits(new, [t EXCEPT ![ld[l].leafIndex] = Nil])
<1> DEFINE i == ld[l].leafIndex
           u == [t EXCEPT ![i] = Nil]
<1>1. u \in Tree /\ u[i] = Nil /\ \A j \in Leaf \ {i} : u[j] = t[j]
  BY DEF Fits, Tree
<1>2. \A m \in LandId : InTree(new[m]) => m # l /\ new[m] = ld[m] /\ ld[m].leafIndex # i
  BY DEF Removed, InTree, Distinct
<1> HIDE DEF i, u
<1>3. \A m \in LandId : InTree(new[m]) => u[new[m].leafIndex] = new[m].landCommitment
  BY <1>1, <1>2 DEF Fits, u, Tree
<1>4. ASSUME NEW j \in Leaf, \A m \in LandId : InTree(new[m]) => new[m].leafIndex # j
      PROVE  u[j] = Nil
  <2>1. CASE j = i
    BY <1>1, <2>1
  <2>2. CASE j # i
    <3>1. \A m \in LandId : InTree(ld[m]) => ld[m].leafIndex # j
      BY <1>4, <2>2 DEF Removed, InTree, i
    <3> QED BY <1>1, <2>2, <3>1 DEF Fits
  <2> QED BY <2>1, <2>2
<1>5. Fits(new, u)
  BY <1>1, <1>3, <1>4 DEF Fits
<1> QED BY <1>5 DEF u, i, Fits, Removed

(* A step that moves no leaf and no root keeps the agreement *)
LEMMA AgreedKept ==
    ASSUME NEW s, NEW ld, NEW new, NEW root, NEW doc, Agreed(s, ld, root, doc), LeavesKept(ld, new),
           \A l \in LandId : InTree(ld[l]) => new[l].merkleRoot = ld[l].merkleRoot
    PROVE  Agreed(s, new, root, doc)
<1>1. \A l \in LandId : InTree(new[l]) <=> InTree(ld[l])
  BY DEF LeavesKept, InTree
<1>2. \A t, todo : Paths(ld, t, todo) => Paths(new, t, todo)
  BY <1>1 DEF Paths
<1> QED BY <1>2, FitsKept DEF Agreed

LEMMA UndecidedStep ==
    ASSUME RegistryInv, ~parted, ~stale, section.pc \in Undecided, section'.pc \in Undecided,
           UNCHANGED <<land, latestRoot, rootDoc>>
    PROVE  Agreed(section', land', latestRoot', rootDoc')
BY DEF RegistryInv, Agreed, Undecided, Changing, Rebuilt, Buying

LEMMA ApproveAgrees ==
    ASSUME TypeInv, GateInv, RegistryInv, ~parted, ~stale', approveLand_Save
    PROVE  Agreed(section', land', latestRoot', rootDoc')
<1> DEFINE l == section.landId
           i == section.leafIndex
           c == section.leafAfter
<1>1. ~stale /\ Placed(land, land', l, i, c)
  BY ApprovePlaces
<1>2. /\ section.pc = "approve" /\ l \in LandId /\ i \in Leaf /\ section.leafBefore = Nil
      /\ c \in Commitment /\ SectionFields(section) /\ UNCHANGED <<rootDoc, latestRoot>>
  BY DEF TypeInv, LandInv, SectionOK, Exists, approveLand_Save, At, chain
<1>3. rootDoc = latestRoot /\ Fits(land, Cur(latestRoot))
  BY <1>1, <1>2 DEF RegistryInv, Agreed, Undecided
<1>4. Cur(latestRoot)[i] = Nil /\ Fits(land', [Cur(latestRoot) EXCEPT ![i] = c])
  <2> HIDE DEF l, i, c
  <2> QED BY <1>1, <1>2, <1>3, FitsPlaced
<1>5. /\ section'.pc = "rebuild" /\ section'.leafIndex = i /\ section'.leafBefore = Nil
      /\ section'.leafAfter = c
  BY <1>2, Going DEF approveLand_Save, SectionFields
<1> HIDE DEF l, i, c
<1> QED BY <1>2, <1>3, <1>4, <1>5 DEF Agreed, After, Undecided, Changing, Rebuilt, Buying

LEMMA RecommitAgrees ==
    ASSUME TypeInv, GateInv, RegistryInv, ~parted, ~stale', buyListedLand_Recommit
    PROVE  Agreed(section', land', latestRoot', rootDoc')
<1> DEFINE l == section.landId
           i == section.leafIndex
<1>1. /\ section.pc = "recommit" /\ l \in LandId /\ BuyerOK(section) /\ SectionFields(section)
      /\ UNCHANGED <<rootDoc, latestRoot>>
  BY DEF TypeInv, SectionOK, Exists, buyListedLand_Recommit, At, chain, Buying
<1>2. CASE land' # land
  <2>1. ~stale /\ Removed(land, land', l) /\ section'.pc = "rebuild"
    BY <1>2, RecommitRemoves
  <2>2. i = land[l].leafIndex /\ section.leafBefore = land[l].landCommitment /\ section.leafAfter = Nil
    BY <1>1 DEF BuyerOK
  <2>3. i \in Leaf
    BY <1>1, <2>1, <2>2 DEF Removed, InTree, TypeInv, TypeOK
  <2>4. rootDoc = latestRoot /\ Fits(land, Cur(latestRoot))
    BY <1>1, <2>1 DEF RegistryInv, Agreed, Undecided, Buying
  <2>5. Distinct(land)
    BY <2>1 DEF GateInv
  <2>6. Cur(latestRoot)[i] = land[l].landCommitment /\ Fits(land', [Cur(latestRoot) EXCEPT ![i] = Nil])
    <3> HIDE DEF l, i
    <3> QED BY <1>1, <2>1, <2>2, <2>3, <2>4, <2>5, FitsRemoved
  <2>7. Goto("rebuild")
    BY <1>2 DEF buyListedLand_Recommit
  <2>8. section'.leafIndex = i /\ section'.leafBefore = section.leafBefore /\ section'.leafAfter = Nil
    BY <1>1, <2>2, <2>7, Going DEF SectionFields, Buying
  <2> HIDE DEF l, i
  <2> QED BY <1>1, <2>1, <2>2, <2>3, <2>4, <2>6, <2>8 DEF Agreed, After, Undecided, Changing, Rebuilt, Buying
<1>3. CASE land' = land /\ Leave /\ UNCHANGED stale
  BY <1>1, <1>3, UndecidedStep DEF Leave, Idle, Undecided, Buying
<1>4. CASE land' = land /\ ~(Leave /\ UNCHANGED stale)
  <2>1. /\ land' = [land EXCEPT ![l] =
                  [NoLand EXCEPT !.status = "PENDING_APPROVAL", !.ownerId = section.newOwner,
                                 !.landCommitment = section.newLandCommitment]]
        /\ land[l].status = "LISTED_FOR_SALE"
    BY <1>4 DEF buyListedLand_Recommit
  <2>2. land'[l].status = "PENDING_APPROVAL"
    BY <1>1, <2>1 DEF NoLand, TypeInv, TypeOK
  <2> QED BY <1>4, <2>1, <2>2
<1> QED BY <1>2, <1>3, <1>4

LEMMA RebuildAgrees ==
    ASSUME TypeInv, GateInv, RegistryInv, ~parted, ~stale, rebuildRegistryTree
    PROVE  Agreed(section', land', latestRoot', rootDoc')
<1>1. section.pc = "rebuild" /\ UNCHANGED <<land, rootDoc, latestRoot>>
  BY DEF rebuildRegistryTree, At, db, chain
<1>2. PICK t \in RegistryTrees :
         section' = [pc |-> "paths", landId |-> section.landId, leafIndex |-> section.leafIndex,
                     leafBefore |-> section.leafBefore, leafAfter |-> section.leafAfter,
                     snapshot |-> t, todo |-> treeLandFilter]
  BY DEF rebuildRegistryTree, Enter
<1>3. Fits(land, t)
  BY FitsRegistry DEF GateInv, TypeInv, TypeOK, Land
<1>4. /\ rootDoc = latestRoot /\ section.leafIndex \in Leaf
      /\ Cur(latestRoot)[section.leafIndex] = section.leafBefore
      /\ Fits(land, After(section, latestRoot))
  BY <1>1 DEF RegistryInv, Agreed, Changing
<1>5. t = After(section, latestRoot)
  BY <1>3, <1>4, FitsUnique
<1>6. Paths(land, t, treeLandFilter)
  BY DEF Paths, treeLandFilter, InTree
<1>7. /\ section'.pc = "paths" /\ section'.leafIndex = section.leafIndex
      /\ section'.leafBefore = section.leafBefore /\ section'.leafAfter = section.leafAfter
      /\ section'.snapshot = t /\ section'.todo = treeLandFilter
  BY <1>2
<1>8. After(section', latestRoot) = After(section, latestRoot)
  BY <1>7 DEF After
<1> QED BY <1>1, <1>3, <1>4, <1>5, <1>6, <1>7, <1>8 DEF Agreed, Undecided, Changing, Rebuilt, Buying

LEMMA UpdateAgrees ==
    ASSUME TypeInv, GateInv, RegistryInv, ~parted, ~stale, NEW l \in LandId, rebuildRegistryTree_Update(l)
    PROVE  Agreed(section', land', latestRoot', rootDoc')
<1>1. /\ section.pc = "paths" /\ SectionFields(section) /\ UNCHANGED <<rootDoc, latestRoot>>
      /\ section' = [section EXCEPT !.todo = @ \ {l}]
      /\ land' = [land EXCEPT ![l].merkleRoot = section.snapshot] /\ land \in [LandId -> Land]
  BY DEF TypeInv, TypeOK, Land, SectionOK, rebuildRegistryTree_Update, At, chain
<1>2. /\ section'.pc = "paths" /\ section'.leafIndex = section.leafIndex
      /\ section'.leafBefore = section.leafBefore /\ section'.leafAfter = section.leafAfter
      /\ section'.snapshot = section.snapshot /\ section'.todo = section.todo \ {l}
  BY <1>1 DEF SectionFields, Rebuilt
<1>3. \A m \in LandId : /\ land'[m].status = land[m].status
                        /\ land'[m].leafIndex = land[m].leafIndex
                        /\ land'[m].landCommitment = land[m].landCommitment
                        /\ land'[m].merkleRoot = IF m = l THEN section.snapshot ELSE land[m].merkleRoot
  BY <1>1 DEF Land
<1>4. Agreed(section, land, latestRoot, rootDoc)
  BY DEF RegistryInv
<1>5. Fits(land', section.snapshot)
  <2>1. LeavesKept(land, land')
    BY <1>3 DEF LeavesKept
  <2> QED BY <1>1, <1>4, <2>1, FitsKept DEF Agreed, Rebuilt
<1>6. Paths(land', section.snapshot, section.todo \ {l})
  <2>1. Paths(land, section.snapshot, section.todo)
    BY <1>1, <1>4 DEF Agreed
  <2> QED BY <1>3, <2>1 DEF Paths, InTree
<1>7. After(section', latestRoot) = After(section, latestRoot)
  BY <1>2 DEF After
<1> QED BY <1>1, <1>2, <1>4, <1>5, <1>6, <1>7 DEF Agreed, Undecided, Changing, Rebuilt, Buying

(* The proof of the transition cannot fail *)
LEMMA ProofStands ==
    ASSUME TypeInv, RegistryInv, ~parted, ~stale, section.pc = "paths"
    PROVE  section.leafIndex \in Leaf /\ section.snapshot[section.leafIndex] = section.leafAfter
<1>1. Agreed(section, land, latestRoot, rootDoc) /\ Cur(latestRoot) \in Tree
  BY WorkflowAssumption DEF RegistryInv, TypeInv, TypeOK, Contract!TypeOK, Contract!Root, Contract!Tree,
     Contract!EMPTY_TREE_ROOT, Tree, Cur
<1>2. section.leafIndex \in Leaf /\ section.snapshot = After(section, latestRoot)
  BY <1>1 DEF Agreed, Changing
<1> QED BY <1>1, <1>2 DEF After, Tree

LEMMA ProveAgrees ==
    ASSUME TypeInv, RegistryInv, ~parted, ~stale, proveRootTransition
    PROVE  Agreed(section', land', latestRoot', rootDoc')
<1>1. /\ section.pc = "paths" /\ section.todo = {} /\ SectionFields(section)
      /\ UNCHANGED <<land, rootDoc, latestRoot>>
  BY DEF TypeInv, SectionOK, proveRootTransition, At, db, chain
<1>2. Agreed(section, land, latestRoot, rootDoc)
  BY DEF RegistryInv
<1>3. /\ section.leafIndex \in Leaf /\ section.snapshot = After(section, latestRoot)
      /\ Fits(land, section.snapshot) /\ Paths(land, section.snapshot, {})
      /\ Cur(latestRoot)[section.leafIndex] = section.leafBefore /\ rootDoc = latestRoot
  BY <1>1, <1>2 DEF Agreed, Changing, Rebuilt
<1>4. section.snapshot[section.leafIndex] = section.leafAfter
  BY <1>1, ProofStands
<1>5. PICK pc \in {"register", "anchor"} : Goto(pc)
  BY <1>3, <1>4 DEF proveRootTransition
<1>6. /\ section'.pc = pc /\ section'.leafIndex = section.leafIndex
      /\ section'.leafBefore = section.leafBefore /\ section'.leafAfter = section.leafAfter
      /\ section'.snapshot = section.snapshot
  BY <1>1, <1>5, Going DEF SectionFields, Rebuilt
<1>7. After(section', latestRoot) = After(section, latestRoot)
  BY <1>6 DEF After
<1> QED BY <1>1, <1>3, <1>5, <1>6, <1>7 DEF Agreed, Undecided, Changing, Rebuilt, Buying

LEMMA RegisterAgrees ==
    ASSUME TypeInv, RegistryInv, ~parted, ~stale, registerLandOnChain
    PROVE  Agreed(section', land', latestRoot', rootDoc')
<1>1. /\ section.pc = "register" /\ SectionFields(section) /\ Goto("anchor")
      /\ UNCHANGED <<land, rootDoc, latestRoot>>
  BY DEF TypeInv, SectionOK, registerLandOnChain, At, Call, CallFails, db, chain, Contract!registerLand
<1>2. Agreed(section, land, latestRoot, rootDoc)
  BY DEF RegistryInv
<1>3. /\ section'.pc = "anchor" /\ section'.leafIndex = section.leafIndex
      /\ section'.leafBefore = section.leafBefore /\ section'.leafAfter = section.leafAfter
      /\ section'.snapshot = section.snapshot
  BY <1>1, Going DEF SectionFields, Rebuilt
<1>4. After(section', latestRoot) = After(section, latestRoot)
  BY <1>3 DEF After
<1> QED BY <1>1, <1>2, <1>3, <1>4 DEF Agreed, Undecided, Changing, Rebuilt, Buying

(* The contract cannot refuse a root whose transaction it sees. *)
LEMMA AnchorAgrees ==
    ASSUME TypeInv, RegistryInv, ~parted, ~parted', ~stale, updateRootOnChain
    PROVE  Agreed(section', land', latestRoot', rootDoc')
<1> DEFINE t == TransitionOf(section)
<1>1. /\ section.pc = "anchor" /\ SectionFields(section) /\ SectionOK(section) /\ Goto("record")
      /\ UNCHANGED <<land, rootDoc>>
  BY DEF TypeInv, SectionOK, updateRootOnChain, At, db
<1>2. Agreed(section, land, latestRoot, rootDoc) /\ Cur(latestRoot) \in Tree
  BY WorkflowAssumption DEF RegistryInv, TypeInv, TypeOK, Contract!TypeOK, Contract!Root, Contract!Tree,
     Contract!EMPTY_TREE_ROOT, Tree, Cur
<1>3. /\ section.leafIndex \in Leaf /\ section.snapshot = After(section, latestRoot)
      /\ Fits(land, section.snapshot) /\ Paths(land, section.snapshot, {})
      /\ Cur(latestRoot)[section.leafIndex] = section.leafBefore
  BY <1>1, <1>2 DEF Agreed, Changing, Rebuilt
<1>4. section.leafAfter \in Commitment \cup {Nil}
  BY <1>1 DEF SectionOK, Rebuilt
<1>5. [section.snapshot EXCEPT ![section.leafIndex] = section.leafBefore] = Cur(latestRoot)
  BY <1>2, <1>3, <1>4 DEF After, Tree
<1>6. /\ t.oldRoot = Cur(latestRoot) /\ t.newRoot = section.snapshot
      /\ t.leafBefore = section.leafBefore /\ t.leafAfter = section.leafAfter
  BY <1>5 DEF TransitionOf
<1>7. Contract!ValidTransition(section.snapshot, t)
  <2> HIDE DEF t
  <2>1. Contract!RootTransition(t)
    BY <1>2, <1>3, <1>6 DEF Contract!RootTransition, Contract!Tree, Tree, After
  <2> QED BY <1>6, <2>1 DEF Contract!ValidTransition, Contract!verifyProof, Contract!CurrentRoot, Cur
<1>8. latestRoot' = section.snapshot
  <2>1. Contract!updateMerkleRoot(section.snapshot, t)
    BY <1>1, <1>7 DEF updateRootOnChain, Call
  <2> QED BY <2>1 DEF Contract!updateMerkleRoot, Contract!_anchorRoot, Contract!set
<1>9. section'.pc = "record" /\ section'.snapshot = section.snapshot
  BY <1>1, Going DEF SectionFields, Rebuilt
<1> QED BY <1>1, <1>3, <1>8, <1>9 DEF Agreed, Undecided, Changing, Rebuilt, Buying

LEMMA RecordAgrees ==
    ASSUME TypeInv, RegistryInv, ~parted, ~stale, recordRoot
    PROVE  Agreed(section', land', latestRoot', rootDoc')
<1>1. /\ section.pc = "record" /\ section'.pc = "idle" /\ rootDoc' = section.snapshot
      /\ UNCHANGED <<land, latestRoot>> /\ section.snapshot \in Tree
  BY DEF TypeInv, SectionOK, recordRoot, At, Leave, Idle, chain, Rebuilt
<1>2. latestRoot = section.snapshot /\ Fits(land, section.snapshot) /\ Paths(land, section.snapshot, {})
  BY <1>1 DEF RegistryInv, Agreed, Rebuilt
<1>3. Cur(latestRoot) = section.snapshot
  BY <1>1, <1>2, WorkflowAssumption DEF Cur
<1> QED BY <1>1, <1>2, <1>3 DEF Agreed, Undecided, Changing, Rebuilt, Buying

LEMMA PartedStays ==
    ASSUME [Next]_vars
    PROVE  parted => parted'
BY DEF Next, SectionStep, Request, rejectLand_Read, cancelLandSale_Read, listLandForSale_Read, Read,
   rejectLand_Save, listLandForSale_Save, cancelLandSale_Save, Save, verifyChallenge, approveLand,
   buyListedLand, approveLand_Index, approveLand_Save, buyListedLand_Transfer, buyListedLand_Consume,
   buyListedLand_Recommit, rebuildRegistryTree, rebuildRegistryTree_Update, proveRootTransition,
   registerLandOnChain, updateRootOnChain, recordRoot, Crash, Mine, vars, history

LEMMA RegistryStep ==
    ASSUME TypeInv, GateInv, RegistryInv, [Next]_vars
    PROVE  RegistryInv'
<1> SUFFICES ASSUME ~parted', ~stale' PROVE Agreed(section', land', latestRoot', rootDoc')
  BY DEF RegistryInv
<1>1. ~stale
  BY LeavesStep
<1>2. ~parted
  BY PartedStays
<1>3. CASE \/ \E l \in LandId, u \in User, c \in Commitment : Request(l, u, c)
           \/ \E w \in Worker : rejectLand_Save(w) \/ listLandForSale_Save(w) \/ cancelLandSale_Save(w)
  <2>1. UNCHANGED <<section, latestRoot, rootDoc>>
    BY <1>3 DEF Request, rejectLand_Save, listLandForSale_Save, cancelLandSale_Save, Save, chain
  <2> QED BY <1>1, <1>2, <1>3, <2>1, BesideLeaves, AgreedKept DEF RegistryInv
<1>4. CASE \/ \E w \in Worker, l \in LandId : rejectLand_Read(w, l) \/ cancelLandSale_Read(w, l)
           \/ \E w \in Worker, l \in LandId, p \in Price : listLandForSale_Read(w, l, p)
           \/ \E l \in LandId, b \in User, salt \in Salt : verifyChallenge(l, b, salt)
           \/ UNCHANGED vars
  <2>1. UNCHANGED <<land, section, latestRoot, rootDoc>>
    BY <1>4 DEF rejectLand_Read, cancelLandSale_Read, listLandForSale_Read, Read, verifyChallenge,
       vars, db, chain
  <2> QED BY <1>1, <1>2, <2>1 DEF RegistryInv
<1>5. CASE \/ \E l \in LandId : approveLand(l) \/ \E b \in User, c \in Commitment : buyListedLand(l, b, c)
           \/ approveLand_Index
  <2>1. UNCHANGED <<land, latestRoot, rootDoc>>
    BY <1>5 DEF approveLand, buyListedLand, approveLand_Index, db, chain
  <2>2. section.pc \in Undecided /\ section'.pc \in Undecided
    BY <1>5 DEF approveLand, buyListedLand, approveLand_Index, At, Enter, Leave, Idle, Undecided, Buying
  <2> QED BY <1>1, <1>2, <2>1, <2>2, UndecidedStep
<1>6. CASE buyListedLand_Transfer \/ buyListedLand_Consume
  <2>1. UNCHANGED <<land, latestRoot, rootDoc>>
    BY <1>6 DEF buyListedLand_Transfer, buyListedLand_Consume, At, Call, CallFails, db, chain,
       Contract!verifyAndTransfer
  <2>2. /\ section.pc \in {"transfer", "consume"} /\ SectionFields(section)
        /\ Leave \/ Goto("consume") \/ Goto("recommit")
    BY <1>6 DEF buyListedLand_Transfer, buyListedLand_Consume, At, TypeInv, SectionOK
  <2>3. section.pc \in Undecided /\ section'.pc \in Undecided
    BY <2>2, Going DEF Leave, Idle, Undecided, Buying
  <2> QED BY <1>1, <1>2, <2>1, <2>3, UndecidedStep
<1>7. CASE Crash
  <2>1. UNCHANGED <<land, latestRoot, rootDoc>> /\ section'.pc \in Undecided
    BY <1>7 DEF Crash, db, chain, Idle, Undecided
  <2>2. section.pc \in Undecided
    BY <1>7 DEF Crash, TypeInv, SectionOK, Pcs, Rebuilt, Undecided
  <2> QED BY <1>1, <1>2, <2>1, <2>2, UndecidedStep
<1>8. CASE \E tx \in pending : Mine(tx)
  <2>1. PICK tx \in pending : Mine(tx)
    BY <1>8
  <2>2. Call(tx.call) /\ CallOK(tx.call) /\ tx.call.pc # "anchor" /\ UNCHANGED <<db, section>>
    BY <1>2, <2>1 DEF Mine, TypeInv, PendingInv
  <2>3. UNCHANGED <<land, section, latestRoot, rootDoc>>
    BY <2>2, CallSteps DEF db
  <2> QED BY <1>1, <1>2, <2>3 DEF RegistryInv
<1> QED BY <1>1, <1>2, <1>3, <1>4, <1>5, <1>6, <1>7, <1>8, ApproveAgrees, RecommitAgrees, RebuildAgrees,
        UpdateAgrees, ProveAgrees, RegisterAgrees, AnchorAgrees, RecordAgrees DEF Next, SectionStep

LEMMA InitRegistry == Init => RegistryInv
<1> SUFFICES ASSUME Init PROVE Agreed(section, land, latestRoot, rootDoc)
  BY DEF RegistryInv
<1>1. section.pc = "idle" /\ rootDoc = Nil /\ latestRoot = Nil
  BY DEF Init, Idle, Contract!Init
<1>2. \A l \in LandId : ~InTree(land[l])
  BY DEF Init, InTree, NoLand
<1>3. Cur(latestRoot) \in Tree /\ \A i \in Leaf : Cur(latestRoot)[i] = Nil
  BY <1>1 DEF Cur, Contract!EMPTY_TREE_ROOT, Tree
<1>4. Fits(land, Cur(latestRoot)) /\ Paths(land, Cur(latestRoot), {})
  BY <1>2, <1>3 DEF Fits, Paths
<1> QED BY <1>1, <1>4 DEF Agreed, Undecided, Changing, Rebuilt, Buying

IInv == TypeInv /\ GateInv /\ RegistryInv

LEMMA Invariance == Spec => []IInv
<1>1. Init => IInv
  BY InitTypes, InitGate, InitRegistry DEF IInv
<1>2. IInv /\ [Next]_vars => IInv'
  BY TypeStep, GateStep, RegistryStep DEF IInv
<1> QED BY <1>1, <1>2, PTL DEF Spec

(* At rest, unless a failed root update or a stale save has parted them, the land documents, the *)
(* recorded root and the contract commit to one tree. *)
THEOREM LedgersAgree == Spec => []LedgerAgreement
<1>1. IInv => LedgerAgreement
  <2> SUFFICES ASSUME IInv, section = Idle, ~parted, ~stale, NEW t \in RegistryTrees
               PROVE  t = Contract!CurrentRoot /\ rootDoc = latestRoot
    BY DEF LedgerAgreement
  <2>1. rootDoc = latestRoot /\ Fits(land, Cur(latestRoot))
    BY DEF IInv, RegistryInv, Agreed, Undecided, Idle
  <2>2. Fits(land, t)
    BY FitsRegistry DEF IInv, GateInv, TypeInv, TypeOK, Land
  <2> QED BY <2>1, <2>2, FitsUnique DEF Cur, Contract!CurrentRoot
<1> QED BY <1>1, Invariance, PTL

(* ... and every active land holds a path to its commitment in that tree. *)
THEOREM PathsAreCurrent == Spec => []PathsCurrent
<1>1. IInv => PathsCurrent
  <2> SUFFICES ASSUME IInv, section = Idle, ~parted, ~stale, NEW l \in treeLandFilter
               PROVE  land[l].merkleRoot = rootDoc /\ rootDoc[land[l].leafIndex] = land[l].landCommitment
    BY DEF PathsCurrent
  <2>1. rootDoc = latestRoot /\ Fits(land, Cur(latestRoot)) /\ Paths(land, Cur(latestRoot), {})
    BY DEF IInv, RegistryInv, Agreed, Undecided, Idle
  <2>2. l \in LandId /\ InTree(land[l]) /\ land[l].status # "NONE" /\ land[l].leafIndex \in Leaf
    BY DEF treeLandFilter, InTree, IInv, TypeInv, TypeOK
  <2>3. land[l].landCommitment \in Commitment
    BY <2>2 DEF IInv, TypeInv, LandInv
  <2>4. land[l].merkleRoot = Cur(latestRoot) /\ Cur(latestRoot)[land[l].leafIndex] = land[l].landCommitment
    BY <2>1, <2>2 DEF Fits, Paths
  <2>5. latestRoot # Nil
    BY <2>2, <2>3, <2>4, WorkflowAssumption DEF Cur, Contract!EMPTY_TREE_ROOT
  <2> QED BY <2>1, <2>4, <2>5 DEF Cur
<1> QED BY <1>1, Invariance, PTL

(* The contract accepts a transfer only while the root the server recorded last is its *)
(* own, whatever crashes and failed calls came before; or when the transfer's own purchase *)
(* has given up on it, and then only beside a root update. *)
THEOREM TransfersAgree == Spec => TransferOnAgreedRoot
<1>1. ASSUME IInv, [Next]_vars, usedNullifiers' # usedNullifiers
      PROVE  rootDoc = latestRoot \/ (pending' # pending /\ (At("record") \/ parted \/ stale))
  <2>1. CASE buyListedLand_Transfer
    BY <1>1, <2>1, TransferTypes DEF IInv
  <2>2. ASSUME NEW tx \in pending, Mine(tx)
        PROVE  rootDoc = latestRoot \/ (pending' # pending /\ (At("record") \/ parted \/ stale))
    <3>1. pending' # pending
      BY <2>2 DEF Mine
    <3>2. ASSUME ~At("record"), ~parted, ~stale PROVE rootDoc = latestRoot
      BY <1>1, <3>2 DEF IInv, RegistryInv, Agreed, At
    <3> QED BY <3>1, <3>2
  <2>3. CASE registerLandOnChain \/ updateRootOnChain
    <3>1. CallOK(section) /\ section.pc # "transfer"
      BY <1>1, <2>3, SectionCalls DEF registerLandOnChain, updateRootOnChain, At, IInv, TypeInv
    <3>2. Call(section) \/ UNCHANGED chain
      BY <2>3 DEF registerLandOnChain, updateRootOnChain, CallFails
    <3> QED BY <1>1, <3>1, <3>2, CallSteps DEF IInv, chain
  <2>4. CASE UNCHANGED chain
    BY <1>1, <2>4 DEF chain
  <2> QED BY <1>1, <2>1, <2>2, <2>3, <2>4 DEF Next, SectionStep, Request, rejectLand_Read,
          cancelLandSale_Read, listLandForSale_Read, Read, rejectLand_Save, listLandForSale_Save,
          cancelLandSale_Save, Save, verifyChallenge, approveLand, buyListedLand, approveLand_Index,
          approveLand_Save, buyListedLand_Consume, buyListedLand_Recommit, rebuildRegistryTree,
          rebuildRegistryTree_Update, proveRootTransition, recordRoot, Crash, vars
<1>2. IInv /\ [Next]_vars =>
         [usedNullifiers' # usedNullifiers =>
             \/ rootDoc = latestRoot
             \/ pending' # pending /\ (At("record") \/ parted \/ stale)]_vars
  BY <1>1
<1> QED BY <1>2, Invariance, PTL DEF Spec, TransferOnAgreedRoot

(* A land changes hands only on a proof the contract consumed, with the secret of a *)
(* commitment to it in the registry recorded last: its own, unless a failed root update *)
(* or a stale save came before. *)
THEOREM OwnershipProved == Spec => OwnershipFollowsProof
<1>1. ASSUME IInv, [Next]_vars, NEW l \in LandId,
             land[l].status # "NONE", land'[l].ownerId # land[l].ownerId
      PROVE  /\ section.pc = "recommit" /\ section.landId = l /\ BuyerOK(section)
             /\ land'[l].ownerId = section.newOwner
  <2>1. land \in [LandId -> Land] /\ SectionOK(section)
    BY <1>1 DEF IInv, TypeInv, TypeOK, Land
  <2>2. CASE buyListedLand_Recommit
    <3>1. section.pc = "recommit" /\ BuyerOK(section) /\ section.landId \in LandId
      BY <2>1, <2>2 DEF buyListedLand_Recommit, At, SectionOK, Buying, Exists
    <3> DEFINE d == [NoLand EXCEPT !.status = "PENDING_APPROVAL", !.ownerId = section.newOwner,
                                   !.landCommitment = section.newLandCommitment]
    <3>2. land' = [land EXCEPT ![section.landId] = d]
      BY <1>1, <2>2 DEF buyListedLand_Recommit
    <3>3. d.ownerId = section.newOwner
      BY DEF NoLand
    <3> HIDE DEF d
    <3> QED BY <1>1, <2>1, <3>1, <3>2, <3>3
  <2>3. ASSUME NEW m \in LandId, NEW u \in User, NEW c \in Commitment, Request(m, u, c)
        PROVE  FALSE
    <3>1. land[m].status = "NONE" /\ \A n \in LandId \ {m} : land'[n] = land[n]
      BY <2>1, <2>3 DEF Request
    <3> QED BY <1>1, <3>1
  <2>4. ASSUME NEW w \in Worker,
               rejectLand_Save(w) \/ listLandForSale_Save(w) \/ cancelLandSale_Save(w)
        PROVE  FALSE
    <3>1. land[job[w].landId] \in Land
      BY <1>1, <2>1, <2>4 DEF IInv, TypeInv, JobInv, JobOK, Exists, Save, rejectLand_Save,
         listLandForSale_Save, cancelLandSale_Save
    <3>2. PICK fields \in {[Held(w) EXCEPT !.status = "REJECTED"],
             [Held(w) EXCEPT !.status = "LISTED_FOR_SALE", !.salePrice = job[w].price],
             [Held(w) EXCEPT !.status = "REGISTERED", !.salePrice = Nil]} :
               land' = [land EXCEPT ![job[w].landId] = fields]
      BY <2>4 DEF rejectLand_Save, listLandForSale_Save, cancelLandSale_Save, Save
    <3>3. fields.ownerId = land[job[w].landId].ownerId
      BY <3>1, <3>2 DEF Held, Land
    <3> QED BY <1>1, <2>1, <3>2, <3>3
  <2>5. CASE approveLand_Save \/ \E m \in LandId : rebuildRegistryTree_Update(m)
    BY <1>1, <2>1, <2>5 DEF approveLand_Save, rebuildRegistryTree_Update, Land
  <2>6. CASE UNCHANGED land
    BY <1>1, <2>6
  <2> QED BY <1>1, <2>2, <2>3, <2>4, <2>5, <2>6 DEF Next, SectionStep, rejectLand_Read,
          cancelLandSale_Read, listLandForSale_Read, Read, verifyChallenge, approveLand, buyListedLand,
          approveLand_Index, buyListedLand_Transfer, buyListedLand_Consume, rebuildRegistryTree,
          proveRootTransition, registerLandOnChain, updateRootOnChain, recordRoot, Crash, Mine, vars, db
<1>2. ASSUME IInv, section.pc = "recommit", BuyerOK(section),
             NEW l \in LandId, section.landId = l, NEW k, k = section.challenge,
             NEW answered, answered = <<l, challenges[k].signals.nullifier[1]>>
      PROVE  /\ \E i \in Leaf : rootDoc[i] = answered
             /\ ~parted /\ ~stale => answered = land[l].landCommitment
  <2>1. k \in DOMAIN challenges /\ challenges[k].landId = l /\ challenges[k].signals.merkleRoot = rootDoc
    BY <1>2 DEF BuyerOK
  <2>2. ChallengeOK(challenges[k]) /\ challenges[k] \in Challenge
    BY <1>2, <2>1, ElementOfSeq, LenProperties DEF IInv, TypeInv, ChallengeInv
  <2>3. answered \in Commitment /\ rootDoc \in Tree
    BY <1>2, <2>1, <2>2 DEF ChallengeOK, Challenge
  <2>4. PICK i \in Leaf : rootDoc[i] = answered
    BY <1>2, <2>1, <2>2 DEF ChallengeOK
  <2>5. ASSUME ~parted, ~stale PROVE answered = land[l].landCommitment
    <3>1. rootDoc = latestRoot /\ Fits(land, Cur(latestRoot))
      BY <1>2, <2>5 DEF IInv, RegistryInv, Agreed, Undecided, Buying
    <3>2. Cur(latestRoot) = rootDoc
      BY <2>3, <3>1, WorkflowAssumption DEF Cur
    <3>3. rootDoc[i] # Nil
      BY <2>3, <2>4, WorkflowAssumption
    <3>4. PICK m \in LandId : InTree(land[m]) /\ land[m].leafIndex = i
      BY <3>1, <3>2, <3>3 DEF Fits
    <3>5. answered = land[m].landCommitment
      BY <2>4, <3>1, <3>2, <3>4 DEF Fits
    <3>6. land[m].landCommitment[1] = m
      BY <1>2, <3>4 DEF InTree, IInv, TypeInv, LandInv
    <3> QED BY <1>2, <3>5, <3>6
  <2> QED BY <2>4, <2>5
<1>3. ASSUME IInv, [Next]_vars, NEW l \in LandId,
             land[l].status # "NONE", land'[l].ownerId # land[l].ownerId
      PROVE  \E k \in DOMAIN challenges :
               LET answered == <<l, challenges[k].signals.nullifier[1]>> IN
               /\ challenges[k].landId = l /\ challenges[k].buyerId = land'[l].ownerId
               /\ challenges[k].usedForTransferAt
               /\ challenges[k].signals.nullifier \in usedNullifiers
               /\ \E i \in Leaf : rootDoc[i] = answered
               /\ ~parted /\ ~stale => answered = land[l].landCommitment
  <2> DEFINE k == section.challenge
  <2>1. /\ section.pc = "recommit" /\ section.landId = l /\ BuyerOK(section)
        /\ land'[l].ownerId = section.newOwner
    BY <1>1, <1>3
  <2>2. /\ k \in DOMAIN challenges /\ challenges[k].landId = l
        /\ challenges[k].buyerId = land'[l].ownerId /\ challenges[k].usedForTransferAt
        /\ challenges[k].signals.nullifier \in usedNullifiers
    BY <2>1 DEF BuyerOK
  <2> DEFINE answered == <<l, challenges[k].signals.nullifier[1]>>
  <2>3. (\E i \in Leaf : rootDoc[i] = answered) /\ (~parted /\ ~stale => answered = land[l].landCommitment)
    <3> HIDE DEF k
    <3>1. ASSUME NEW d, d = answered
          PROVE  (\E i \in Leaf : rootDoc[i] = d) /\ (~parted /\ ~stale => d = land[l].landCommitment)
      <4>1. k = section.challenge
        BY DEF k
      <4> QED BY <1>2, <1>3, <2>1, <3>1, <4>1
    <3> QED BY <3>1
  <2> QED BY <2>2, <2>3
<1>4. IInv /\ [Next]_vars =>
         [\A l \in LandId : land[l].status # "NONE" /\ land'[l].ownerId # land[l].ownerId =>
            \E k \in DOMAIN challenges :
              LET answered == <<l, challenges[k].signals.nullifier[1]>> IN
              /\ challenges[k].landId = l /\ challenges[k].buyerId = land'[l].ownerId
              /\ challenges[k].usedForTransferAt
              /\ challenges[k].signals.nullifier \in usedNullifiers
              /\ \E i \in Leaf : rootDoc[i] = answered
              /\ ~parted /\ ~stale => answered = land[l].landCommitment]_vars
  BY <1>3
<1> QED BY <1>4, Invariance, PTL DEF Spec, OwnershipFollowsProof

-----------------------------------------------------------------------------
(* Sales and the contract's judgement.  Each challenge has a nonce of its own and signals *)
(* that answer it; the contract's records are open ones of their own lands. *)
AnswerInv ==
    /\ \A k \in DOMAIN challenges :
          /\ challenges[k].signals.landIdField = challenges[k].landId
          /\ challenges[k].signals.challenge = <<challenges[k].buyerId, challenges[k].nonceSalt>>
    /\ \A k, m \in DOMAIN challenges : challenges[k].nonceSalt = challenges[m].nonceSalt => k = m

Open(records) ==
    \A h \in LandId : records[h].exists => records[h].status # "DISPUTED" /\ records[h].landIdField = h

(* Until something fails, what the contract consumed was marked used or is about to be, and *)
(* every active land has a record, but for the one whose approval is under way *)
Consumed(n, s) ==
    \E k \in DOMAIN challenges :
        /\ challenges[k].signals.nullifier = n
        /\ challenges[k].usedForTransferAt \/ (s.pc = "consume" /\ s.challenge = k)

Registering(s, l) ==
    s.pc \in {"rebuild", "paths", "register"} /\ s.leafAfter # Nil /\ s.landId = l

Recorded(s, ld, records) == \A l \in LandId : InTree(ld[l]) => records[l].exists \/ Registering(s, l)

SaleInv ==
    /\ AnswerInv /\ Open(lands)
    /\ faults = 0 =>
          /\ pending = {}
          /\ \A n \in usedNullifiers : Consumed(n, section)
          /\ section.pc = "transfer" => ~challenges[section.challenge].usedForTransferAt
          /\ ~parted /\ ~stale => Recorded(section, land, lands)

LEMMA InitSale == Init => SaleInv
<1> SUFFICES ASSUME Init PROVE SaleInv
  OBVIOUS
<1>1. DOMAIN challenges = {}
  BY DEF Init
<1>2. AnswerInv
  BY <1>1 DEF AnswerInv
<1>3. Open(lands)
  BY DEF Init, Contract!Init, Contract!NoRecord, Open
<1>4. Recorded(section, land, lands)
  BY DEF Init, Recorded, InTree, NoLand
<1>5. pending = {} /\ usedNullifiers = {} /\ section.pc = "idle"
  BY DEF Init, Contract!Init, Idle
<1> QED BY <1>2, <1>3, <1>4, <1>5 DEF SaleInv

(* Every step is a call of the contract or leaves it alone *)
LEMMA ChainCalled ==
    ASSUME TypeInv, [Next]_vars
    PROVE  ChainStep /\ [Contract!Next]_(Contract!vars)
<1> SUFFICES (ChainStep /\ Contract!Next) \/ UNCHANGED chain
  BY DEF ChainStep, chain, Contract!vars
<1>1. CASE buyListedLand_Transfer \/ registerLandOnChain \/ updateRootOnChain
  <2>1. CallOK(section)
    BY <1>1, SectionCalls DEF buyListedLand_Transfer, registerLandOnChain, updateRootOnChain, At, TypeInv
  <2>2. Call(section) \/ UNCHANGED chain
    BY <1>1 DEF buyListedLand_Transfer, registerLandOnChain, updateRootOnChain, CallFails
  <2> QED BY <2>1, <2>2, CallSteps
<1>2. CASE \E tx \in pending : Mine(tx)
  BY <1>2, CallSteps DEF Mine, TypeInv, PendingInv
<1>3. CASE UNCHANGED chain
  BY <1>3
<1> QED BY <1>1, <1>2, <1>3 DEF vars, Next, SectionStep, Request, rejectLand_Read, cancelLandSale_Read,
        listLandForSale_Read, Read, rejectLand_Save, listLandForSale_Save, cancelLandSale_Save, Save,
        verifyChallenge, approveLand, buyListedLand, approveLand_Index, approveLand_Save,
        buyListedLand_Consume, buyListedLand_Recommit, rebuildRegistryTree, rebuildRegistryTree_Update,
        proveRootTransition, recordRoot, Crash

(* The contract's records stay *)
LEMMA RecordsStep ==
    ASSUME TypeInv, Open(lands), ChainStep
    PROVE  Open(lands') /\ \A h \in LandId : lands[h].exists => lands'[h].exists
<1>1. lands \in [LandId -> Contract!LandRecord]
  BY DEF TypeInv, TypeOK, Contract!TypeOK
<1>2. CASE UNCHANGED lands
  BY <1>2
<1>3. ASSUME NEW h \in LandId, Contract!registerLand(h, h)
      PROVE  Open(lands') /\ \A l \in LandId : lands[l].exists => lands'[l].exists
  BY <1>1, <1>3 DEF Contract!registerLand, Contract!LandRecord, Open
<1>4. ASSUME NEW h \in LandId, NEW b, NEW salt, NEW s, Contract!verifyAndTransfer(h, b, salt, s)
      PROVE  Open(lands') /\ \A l \in LandId : lands[l].exists => lands'[l].exists
  <2>1. lands' = [lands EXCEPT ![h].status = "TRANSFERRED"]
    BY <1>4 DEF Contract!verifyAndTransfer
  <2>2. \A l \in LandId : /\ lands'[l].exists = lands[l].exists
                          /\ lands'[l].landIdField = lands[l].landIdField
                          /\ lands'[l].status \in {lands[l].status, "TRANSFERRED"}
    BY <1>1, <2>1 DEF Contract!LandRecord
  <2> QED BY <2>2 DEF Open
<1> QED BY <1>2, <1>3, <1>4 DEF ChainStep, chain, Contract!updateMerkleRoot

(* What a step does to the challenges *)
LEMMA ChallengesStep ==
    ASSUME TypeInv, [Next]_vars
    PROVE  \/ UNCHANGED challenges
           \/ \E l \in LandId, b \in User, salt \in Salt : verifyChallenge(l, b, salt)
           \/ buyListedLand_Consume
BY DEF Next, SectionStep, Request, rejectLand_Read, cancelLandSale_Read, listLandForSale_Read, Read,
   rejectLand_Save, listLandForSale_Save, cancelLandSale_Save, Save, approveLand, buyListedLand,
   approveLand_Index, approveLand_Save, buyListedLand_Transfer, buyListedLand_Recommit,
   rebuildRegistryTree, rebuildRegistryTree_Update, proveRootTransition, registerLandOnChain,
   updateRootOnChain, recordRoot, Crash, Mine, vars, db

LEMMA ChallengeAdded ==
    ASSUME TypeInv, NEW l \in LandId, NEW b \in User, NEW salt \in Salt, verifyChallenge(l, b, salt)
    PROVE  \E c : /\ DOMAIN challenges' = DOMAIN challenges \cup {Len(challenges) + 1}
                  /\ \A k \in DOMAIN challenges : challenges'[k] = challenges[k]
                  /\ challenges'[Len(challenges) + 1] = c
                  /\ Len(challenges) + 1 \notin DOMAIN challenges
                  /\ c.nonceSalt = salt
                  /\ c.signals.landIdField = c.landId /\ c.signals.challenge = <<c.buyerId, c.nonceSalt>>
                  /\ \A k \in DOMAIN challenges : challenges[k].nonceSalt # salt
<1> DEFINE c == [landId |-> l, buyerId |-> b, nonceSalt |-> salt, agreedPrice |-> land[l].salePrice,
                 usedForTransferAt |-> FALSE,
                 signals |-> [nullifier |-> <<land[l].landCommitment[2], l, <<b, salt>>>>,
                              landIdField |-> l, merkleRoot |-> land[l].merkleRoot,
                              challenge |-> <<b, salt>>]]
<1>1. challenges' = Append(challenges, c) /\ challenges \in Seq(Challenge)
      /\ \A k \in DOMAIN challenges : challenges[k].nonceSalt # salt
  BY DEF verifyChallenge, TypeInv, ChallengeInv
<1>2. c.nonceSalt = salt /\ c.signals.landIdField = c.landId
      /\ c.signals.challenge = <<c.buyerId, c.nonceSalt>>
  OBVIOUS
<1> HIDE DEF c
<1>3. challenges \in Seq(Challenge \cup {c}) /\ Len(challenges) \in Nat
      /\ DOMAIN challenges = 1..Len(challenges)
  BY <1>1, LenProperties
<1>4. /\ Len(challenges') = Len(challenges) + 1 /\ DOMAIN challenges' = 1..Len(challenges')
      /\ \A k \in 1..Len(challenges) : challenges'[k] = challenges[k]
      /\ challenges'[Len(challenges) + 1] = c
  BY <1>1, <1>3, AppendProperties, LenProperties
<1> QED BY <1>1, <1>2, <1>3, <1>4

LEMMA ChallengeMarked ==
    ASSUME TypeInv, buyListedLand_Consume
    PROVE  /\ section.pc = "consume" /\ section.challenge \in DOMAIN challenges
           /\ DOMAIN challenges' = DOMAIN challenges
           /\ challenges'[section.challenge].usedForTransferAt
           /\ \A k \in DOMAIN challenges :
                 /\ challenges'[k].landId = challenges[k].landId
                 /\ challenges'[k].buyerId = challenges[k].buyerId
                 /\ challenges'[k].nonceSalt = challenges[k].nonceSalt
                 /\ challenges'[k].signals = challenges[k].signals
                 /\ challenges[k].usedForTransferAt => challenges'[k].usedForTransferAt
<1>1. /\ section.pc = "consume" /\ section.challenge \in DOMAIN challenges
      /\ challenges' = [challenges EXCEPT ![section.challenge].usedForTransferAt = TRUE]
  BY DEF buyListedLand_Consume, At, TypeInv, SectionOK, BuyerOK, Buying
<1>2. \A k \in DOMAIN challenges : challenges[k] \in Challenge
  BY ElementOfSeq, LenProperties DEF TypeInv, ChallengeInv
<1> QED BY <1>1, <1>2 DEF Challenge

LEMMA AnswerStep ==
    ASSUME TypeInv, AnswerInv, [Next]_vars
    PROVE  AnswerInv'
<1>1. CASE UNCHANGED challenges
  BY <1>1 DEF AnswerInv
<1>2. CASE \E l \in LandId, b \in User, salt \in Salt : verifyChallenge(l, b, salt)
  BY <1>2, ChallengeAdded DEF AnswerInv
<1>3. CASE buyListedLand_Consume
  BY <1>3, ChallengeMarked DEF AnswerInv
<1> QED BY <1>1, <1>2, <1>3, ChallengesStep

(* Nothing has failed yet: no call did in this step, and nothing is mined late *)
LEMMA Faultless ==
    ASSUME TypeInv, SaleInv, [Next]_vars, faults' = 0
    PROVE  faults = 0 /\ ~Faulty /\ pending = {} /\ UNCHANGED pending
<1>1. ~Faulty
  BY WorkflowAssumption DEF Faulty, TypeInv, TypeOK
<1>2. faults = 0
  BY <1>1 DEF Next, SectionStep, Request, rejectLand_Read, cancelLandSale_Read, listLandForSale_Read,
     Read, rejectLand_Save, listLandForSale_Save, cancelLandSale_Save, Save, verifyChallenge, approveLand,
     buyListedLand, approveLand_Index, approveLand_Save, buyListedLand_Transfer, buyListedLand_Consume,
     buyListedLand_Recommit, rebuildRegistryTree, rebuildRegistryTree_Update, proveRootTransition,
     registerLandOnChain, updateRootOnChain, CallFails, recordRoot, Crash, Mine, vars, history
<1>3. pending = {}
  BY <1>2 DEF SaleInv
<1>4. UNCHANGED pending
  BY <1>1, <1>3 DEF Next, SectionStep, Request, rejectLand_Read, cancelLandSale_Read, listLandForSale_Read,
     Read, rejectLand_Save, listLandForSale_Save, cancelLandSale_Save, Save, verifyChallenge, approveLand,
     buyListedLand, approveLand_Index, approveLand_Save, buyListedLand_Transfer, buyListedLand_Consume,
     buyListedLand_Recommit, rebuildRegistryTree, rebuildRegistryTree_Update, proveRootTransition,
     registerLandOnChain, updateRootOnChain, CallFails, recordRoot, Crash, vars
<1> QED BY <1>1, <1>2, <1>3, <1>4

(* What the contract consumed is marked used before another purchase looks at it *)
LEMMA ConsumedStep ==
    ASSUME TypeInv, SaleInv, [Next]_vars, faults' = 0
    PROVE  /\ \A n \in usedNullifiers' : Consumed(n, section)'
           /\ section'.pc = "transfer" => ~challenges'[section'.challenge].usedForTransferAt
<1>1. /\ faults = 0 /\ ~Faulty /\ pending = {} /\ SectionFields(section)
      /\ \A n \in usedNullifiers : Consumed(n, section)
      /\ section.pc = "transfer" => ~challenges[section.challenge].usedForTransferAt
      /\ section.pc = "transfer" => section.challenge \in DOMAIN challenges
  BY Faultless DEF SaleInv, TypeInv, SectionOK, BuyerOK, Buying
<1>2. ASSUME UNCHANGED <<challenges, usedNullifiers>>,
             UNCHANGED section \/ (section.pc # "consume" /\ section'.pc # "transfer")
      PROVE  /\ \A n \in usedNullifiers' : Consumed(n, section)'
             /\ section'.pc = "transfer" => ~challenges'[section'.challenge].usedForTransferAt
  BY <1>1, <1>2 DEF Consumed
<1>3. CASE buyListedLand_Transfer
  <2>1. UNCHANGED challenges /\ section.pc = "transfer"
    BY <1>3 DEF buyListedLand_Transfer, At, db
  <2>2. CASE Call(section) /\ Goto("consume")
    <3>1. usedNullifiers' = usedNullifiers \cup {challenges[section.challenge].signals.nullifier}
      BY <2>1, <2>2 DEF Call, Contract!verifyAndTransfer
    <3>2. section'.pc = "consume" /\ section'.challenge = section.challenge
      BY <1>1, <2>1, <2>2, Going DEF SectionFields, Buying
    <3> QED BY <1>1, <2>1, <3>1, <3>2 DEF Consumed
  <2>3. CASE Leave /\ UNCHANGED chain
    BY <1>2, <2>1, <2>3 DEF Leave, Idle, chain
  <2> QED BY <1>1, <1>3, <2>2, <2>3 DEF buyListedLand_Transfer, CallFails
<1>4. CASE buyListedLand_Consume
  <2>1. UNCHANGED usedNullifiers /\ section'.pc = "recommit"
    BY <1>1, <1>4, Going DEF buyListedLand_Consume, chain
  <2>2. ASSUME NEW n \in usedNullifiers PROVE Consumed(n, section)'
    <3>1. PICK k \in DOMAIN challenges :
            /\ challenges[k].signals.nullifier = n
            /\ challenges[k].usedForTransferAt \/ section.challenge = k
      BY <1>1 DEF Consumed
    <3>2. /\ k \in DOMAIN challenges' /\ challenges'[k].signals.nullifier = n
          /\ challenges'[k].usedForTransferAt
      BY <1>4, <3>1, ChallengeMarked
    <3> QED BY <3>2 DEF Consumed
  <2> QED BY <2>1, <2>2
<1>5. ASSUME NEW l \in LandId, NEW b \in User, NEW salt \in Salt, verifyChallenge(l, b, salt)
      PROVE  /\ \A n \in usedNullifiers' : Consumed(n, section)'
             /\ section'.pc = "transfer" => ~challenges'[section'.challenge].usedForTransferAt
  <2>1. UNCHANGED <<section, usedNullifiers>>
    BY <1>5 DEF verifyChallenge, chain
  <2>2. \A k \in DOMAIN challenges : k \in DOMAIN challenges' /\ challenges'[k] = challenges[k]
    BY <1>5, ChallengeAdded
  <2> QED BY <1>1, <2>1, <2>2 DEF Consumed
<1>6. ASSUME NEW l \in LandId, NEW b \in User, NEW c \in Commitment, buyListedLand(l, b, c)
      PROVE  /\ \A n \in usedNullifiers' : Consumed(n, section)'
             /\ section'.pc = "transfer" => ~challenges'[section'.challenge].usedForTransferAt
  <2>1. UNCHANGED <<challenges, usedNullifiers>> /\ section.pc = "idle"
    BY <1>6 DEF buyListedLand, Idle, db, chain
  <2>2. section'.pc = "transfer" /\ ~challenges[section'.challenge].usedForTransferAt
    BY <1>6 DEF buyListedLand, BuyChecks, Enter
  <2> QED BY <1>1, <2>1, <2>2 DEF Consumed
<1>7. CASE registerLandOnChain \/ updateRootOnChain
  <2>1. UNCHANGED <<challenges, usedNullifiers>>
    BY <1>7 DEF registerLandOnChain, updateRootOnChain, At, Call, CallFails, db, chain,
       Contract!registerLand, Contract!updateMerkleRoot
  <2>2. section.pc # "consume" /\ section'.pc # "transfer"
    BY <1>1, <1>7, Going DEF registerLandOnChain, updateRootOnChain, At
  <2> QED BY <1>2, <2>1, <2>2
<1>8. CASE approveLand_Index \/ rebuildRegistryTree \/ recordRoot \/ \E l \in LandId : approveLand(l)
  <2>1. UNCHANGED <<challenges, usedNullifiers>> /\ section.pc # "consume" /\ section'.pc # "transfer"
    BY <1>8 DEF approveLand_Index, rebuildRegistryTree, recordRoot, approveLand, At, Enter, Leave, Idle,
       db, chain
  <2> QED BY <1>2, <2>1
<1>9. CASE approveLand_Save \/ buyListedLand_Recommit \/ proveRootTransition
           \/ \E l \in LandId : rebuildRegistryTree_Update(l)
  <2>1. UNCHANGED <<challenges, usedNullifiers>> /\ section.pc # "consume"
    BY <1>9 DEF approveLand_Save, buyListedLand_Recommit, proveRootTransition, rebuildRegistryTree_Update,
       At, db, chain
  <2>2. section'.pc # "transfer"
    BY <1>1, <1>9, Going DEF approveLand_Save, buyListedLand_Recommit, proveRootTransition,
       rebuildRegistryTree_Update, At, Leave, Idle, SectionFields
  <2> QED BY <1>2, <2>1, <2>2
<1>10. CASE \/ \E l \in LandId, u \in User, c \in Commitment : Request(l, u, c)
            \/ \E w \in Worker, l \in LandId : rejectLand_Read(w, l) \/ cancelLandSale_Read(w, l)
            \/ \E w \in Worker, l \in LandId, p \in Price : listLandForSale_Read(w, l, p)
            \/ \E w \in Worker : rejectLand_Save(w) \/ listLandForSale_Save(w) \/ cancelLandSale_Save(w)
            \/ UNCHANGED vars
  <2>1. UNCHANGED <<challenges, usedNullifiers, section>>
    BY <1>10 DEF Request, rejectLand_Read, cancelLandSale_Read, listLandForSale_Read, Read,
       rejectLand_Save, listLandForSale_Save, cancelLandSale_Save, Save, vars, db, chain
  <2> QED BY <1>2, <2>1
<1>11. ~Crash /\ ~\E tx \in pending : Mine(tx)
  BY <1>1 DEF Crash
<1> QED BY <1>3, <1>4, <1>5, <1>6, <1>7, <1>8, <1>9, <1>10, <1>11 DEF Next, SectionStep

(* Every land is in the contract's records before the section that approved it ends *)
LEMMA RecordedStep ==
    ASSUME IInv, SaleInv, [Next]_vars, faults' = 0, ~parted', ~stale'
    PROVE  Recorded(section', land', lands')
<1>1. /\ ~parted /\ ~stale /\ faults = 0 /\ ~Faulty /\ pending = {} /\ SectionFields(section)
      /\ Recorded(section, land, lands)
  BY Faultless, LeavesStep, PartedStays DEF SaleInv, IInv, TypeInv, SectionOK
<1>2. \A l \in LandId : lands[l].exists => lands'[l].exists
  BY ChainCalled, RecordsStep DEF SaleInv, IInv
<1>3. ASSUME LeavesKept(land, land') \/ \E l \in LandId : Removed(land, land', l),
             \A l \in LandId : Registering(section, l) => Registering(section', l) \/ lands'[l].exists
      PROVE  Recorded(section', land', lands')
  <2>1. \A l \in LandId : InTree(land'[l]) => InTree(land[l])
    BY <1>3 DEF LeavesKept, Removed, InTree
  <2> QED BY <1>1, <1>2, <1>3, <2>1 DEF Recorded
<1>4. LeavesKept(land, land)
  BY DEF LeavesKept
<1>5. CASE approveLand_Save
  <2>1. /\ Placed(land, land', section.landId, section.leafIndex, section.leafAfter)
        /\ section.pc = "approve" /\ section.leafAfter # Nil
    BY <1>5, ApprovePlaces, WorkflowAssumption
       DEF IInv, TypeInv, LandInv, SectionOK, Exists, approveLand_Save, At
  <2>2. section'.pc = "rebuild" /\ section'.landId = section.landId /\ section'.leafAfter = section.leafAfter
    BY <1>1, <1>5, <2>1, Going DEF approveLand_Save, SectionFields
  <2>3. \A l \in LandId : ~Registering(section, l)
    BY <2>1 DEF Registering
  <2> QED BY <1>1, <1>2, <2>1, <2>2, <2>3 DEF Recorded, Placed, Registering
<1>6. CASE section.pc \notin {"rebuild", "paths", "register"} /\ ~approveLand_Save
  <2>1. \A l \in LandId : ~Registering(section, l)
    BY <1>6 DEF Registering
  <2>2. LeavesKept(land, land') \/ \E l \in LandId : Removed(land, land', l)
    <3>1. CASE buyListedLand_Recommit
      BY <1>4, <3>1, RecommitRemoves DEF IInv, TypeInv, SectionOK, Exists, buyListedLand_Recommit, At
    <3>2. CASE \/ \E l \in LandId, u \in User, c \in Commitment : Request(l, u, c)
               \/ \E w \in Worker : rejectLand_Save(w) \/ listLandForSale_Save(w) \/ cancelLandSale_Save(w)
      BY <3>2, BesideLeaves DEF IInv
    <3>3. CASE UNCHANGED land
      BY <1>4, <3>3
    <3> QED BY <1>6, <3>1, <3>2, <3>3 DEF Next, SectionStep, rejectLand_Read, cancelLandSale_Read,
            listLandForSale_Read, Read, verifyChallenge, approveLand, buyListedLand, approveLand_Index,
            buyListedLand_Transfer, buyListedLand_Consume, rebuildRegistryTree,
            rebuildRegistryTree_Update, proveRootTransition, registerLandOnChain, updateRootOnChain,
            recordRoot, Crash, Mine, vars, db, At
  <2> QED BY <1>3, <2>1, <2>2
<1>7. CASE rebuildRegistryTree
  BY <1>3, <1>4, <1>7 DEF rebuildRegistryTree, Enter, Registering, db
<1>8. ASSUME NEW l \in LandId, rebuildRegistryTree_Update(l)
      PROVE  Recorded(section', land', lands')
  <2>1. land \in [LandId -> Land] /\ section.pc = "paths"
    BY <1>8 DEF IInv, TypeInv, TypeOK, Land, rebuildRegistryTree_Update, At
  <2>2. LeavesKept(land, land')
    BY <1>8, <2>1 DEF rebuildRegistryTree_Update, Land, LeavesKept
  <2>3. section'.pc = "paths" /\ section'.landId = section.landId /\ section'.leafAfter = section.leafAfter
    BY <1>1, <1>8, <2>1 DEF rebuildRegistryTree_Update, SectionFields, Rebuilt
  <2> QED BY <1>3, <2>2, <2>3 DEF Registering
<1>9. CASE proveRootTransition
  <2>1. section.pc = "paths" /\ UNCHANGED land
    BY <1>9 DEF proveRootTransition, At, db
  <2>2. Goto(IF section.leafAfter = Nil THEN "anchor" ELSE "register")
    BY <1>1, <1>9, <2>1, ProofStands DEF proveRootTransition, IInv
  <2>3. section.leafAfter # Nil => /\ section'.pc = "register" /\ section'.landId = section.landId
                                  /\ section'.leafAfter = section.leafAfter
    BY <1>1, <2>1, <2>2, Going DEF SectionFields, Rebuilt
  <2> QED BY <1>3, <1>4, <2>1, <2>3 DEF Registering
<1>10. CASE registerLandOnChain
  <2>1. section.pc = "register" /\ section.landId \in LandId /\ UNCHANGED land
    BY <1>10 DEF registerLandOnChain, At, db, IInv, TypeInv, SectionOK, Exists
  <2>2. lands'[section.landId].exists
    <3>1. lands[section.landId].exists \/ Call(section)
      BY <1>1, <1>10 DEF registerLandOnChain, CallFails
    <3>2. lands \in [LandId -> Contract!LandRecord]
      BY DEF IInv, TypeInv, TypeOK, Contract!TypeOK
    <3> QED BY <1>2, <2>1, <3>1, <3>2 DEF Call, Contract!registerLand
  <2> QED BY <1>3, <1>4, <2>1, <2>2 DEF Registering
<1>11. CASE UNCHANGED section /\ (LeavesKept(land, land') \/ UNCHANGED land)
  BY <1>3, <1>4, <1>11
<1>12. CASE section.pc \in {"rebuild", "paths", "register"}
  <2>1. CASE \/ \E l \in LandId, u \in User, c \in Commitment : Request(l, u, c)
             \/ \E w \in Worker : rejectLand_Save(w) \/ listLandForSale_Save(w) \/ cancelLandSale_Save(w)
    <3>1. UNCHANGED section
      BY <2>1 DEF Request, rejectLand_Save, listLandForSale_Save, cancelLandSale_Save, Save
    <3> QED BY <1>11, <2>1, <3>1, BesideLeaves DEF IInv
  <2>2. CASE \/ \E w \in Worker, l \in LandId : rejectLand_Read(w, l) \/ cancelLandSale_Read(w, l)
             \/ \E w \in Worker, l \in LandId, p \in Price : listLandForSale_Read(w, l, p)
             \/ \E l \in LandId, b \in User, salt \in Salt : verifyChallenge(l, b, salt)
             \/ UNCHANGED vars
    <3>1. UNCHANGED <<section, land>>
      BY <2>2 DEF rejectLand_Read, cancelLandSale_Read, listLandForSale_Read, Read, verifyChallenge,
         vars, db
    <3> QED BY <1>11, <3>1
  <2>3. ~\E tx \in pending : Mine(tx)
    BY <1>1
  <2>4. ~\E l \in LandId : approveLand(l) \/ \E u \in User, c \in Commitment : buyListedLand(l, u, c)
    <3>1. section # Idle
      BY <1>12 DEF Idle
    <3> QED BY <3>1, Zenon DEF approveLand, buyListedLand
  <2>5. ~(\/ approveLand_Index \/ approveLand_Save \/ buyListedLand_Transfer \/ buyListedLand_Consume
          \/ buyListedLand_Recommit \/ updateRootOnChain \/ recordRoot \/ Crash)
    BY <1>1, <1>12 DEF approveLand_Index, approveLand_Save, buyListedLand_Transfer, buyListedLand_Consume,
       buyListedLand_Recommit, updateRootOnChain, recordRoot, Crash, At
  <2> QED BY <1>7, <1>8, <1>9, <1>10, <2>1, <2>2, <2>3, <2>4, <2>5 DEF Next, SectionStep
<1> QED BY <1>5, <1>6, <1>12

(* The contract refuses no sale that the server's checks let through, but for a land that *)
(* a failed call left without a record and an answer that an earlier attempt spent, *)
(* unless a root update failed or a stale save came before. *)
THEOREM PurchasesPass == Spec => []PurchaseNotRefused
<1>1. IInv /\ SaleInv /\ [Next]_vars => SaleInv'
  <2> SUFFICES ASSUME IInv, SaleInv, [Next]_vars PROVE SaleInv'
    OBVIOUS
  <2>1. AnswerInv' /\ Open(lands')
    BY AnswerStep, ChainCalled, RecordsStep DEF IInv, SaleInv
  <2>2. ASSUME faults' = 0
        PROVE  /\ pending' = {} /\ \A n \in usedNullifiers' : Consumed(n, section)'
               /\ section'.pc = "transfer" => ~challenges'[section'.challenge].usedForTransferAt
               /\ ~parted' /\ ~stale' => Recorded(section', land', lands')
    BY <2>2, Faultless, ConsumedStep, RecordedStep DEF IInv
  <2> QED BY <2>1, <2>2 DEF SaleInv, Recorded, Registering, Open
<1>2. IInv /\ SaleInv => PurchaseNotRefused
  <2> DEFINE ch == challenges[section.challenge]
             l == section.landId
  <2> SUFFICES ASSUME IInv, SaleInv, section.pc = "transfer", ~parted, ~stale
               PROVE  \/ Contract!Authorizes(l, ch.buyerId, ch.nonceSalt, ch.signals)
                      \/ faults > 0 /\ (~lands[l].exists \/ ch.signals.nullifier \in usedNullifiers)
    BY DEF PurchaseNotRefused, At
  <2>1. /\ l \in LandId /\ section.challenge \in DOMAIN challenges /\ ch.landId = l
        /\ ch.signals.merkleRoot = rootDoc
    BY DEF IInv, TypeInv, SectionOK, BuyerOK, Exists, Buying
  <2>2. ch \in Challenge /\ ChallengeOK(ch)
    BY <2>1, ElementOfSeq, LenProperties DEF IInv, TypeInv, ChallengeInv
  <2>3. ch.signals.landIdField = ch.landId /\ ch.signals.challenge = <<ch.buyerId, ch.nonceSalt>>
    BY <2>1 DEF SaleInv, AnswerInv
  <2>4. /\ rootDoc = latestRoot /\ Fits(land, Cur(latestRoot)) /\ verifier = Groth16
        /\ Cur(latestRoot) = rootDoc /\ rootDoc \in Tree
    <3>1. rootDoc = latestRoot /\ Fits(land, Cur(latestRoot)) /\ verifier = Groth16
      BY DEF IInv, TypeInv, RegistryInv, Agreed, Undecided, Buying
    <3>2. rootDoc \in Tree
      BY <2>1, <2>2 DEF Challenge
    <3> QED BY <3>1, <3>2, WorkflowAssumption DEF Cur
  <2> HIDE DEF ch, l
  <2> DEFINE secret == ch.signals.nullifier[1]
  <2>5. PICK i \in Leaf : rootDoc[i] = <<l, secret>>
    BY <2>1, <2>2 DEF ChallengeOK
  <2>6. secret \in Secret /\ <<l, secret>> \in Commitment /\ ch.buyerId \in User /\ ch.nonceSalt \in Salt
        /\ ch.signals.nullifier = <<secret, l, <<ch.buyerId, ch.nonceSalt>>>>
    BY <2>1, <2>2 DEF ChallengeOK, Challenge
  <2> HIDE DEF secret
  <2>7. Contract!ChallengeProof(ch.signals)
    BY <2>1, <2>3, <2>4, <2>5, <2>6 DEF Contract!ChallengeProof, Contract!Tree, Tree
  <2>8. ASSUME lands[l].exists, ch.signals.nullifier \notin usedNullifiers
        PROVE  Contract!Authorizes(l, ch.buyerId, ch.nonceSalt, ch.signals)
    <3>1. lands[l].status # "DISPUTED" /\ lands[l].landIdField = l
      BY <2>1, <2>8 DEF SaleInv, Open
    <3>2. ch.buyerId # Nil
      BY <2>6, WorkflowAssumption
    <3> QED BY <2>1, <2>3, <2>4, <2>7, <2>8, <3>1, <3>2
            DEF Contract!Authorizes, Contract!BoundTo, Contract!verifyProof
  <2>9. ASSUME faults = 0 PROVE lands[l].exists
    <3>1. PICK m \in LandId : InTree(land[m]) /\ land[m].leafIndex = i
      BY <2>4, <2>5, <2>6, WorkflowAssumption DEF Fits
    <3>2. land[m].landCommitment = <<l, secret>>
      BY <2>4, <2>5, <3>1 DEF Fits
    <3>3. m = l
      BY <3>1, <3>2 DEF InTree, IInv, TypeInv, LandInv
    <3> QED BY <2>1, <2>9, <3>1, <3>3 DEF SaleInv, Recorded, Registering
  <2>10. ASSUME faults = 0, ch.signals.nullifier \in usedNullifiers PROVE FALSE
    <3>1. PICK k \in DOMAIN challenges : challenges[k].signals.nullifier = ch.signals.nullifier
                                         /\ challenges[k].usedForTransferAt
      BY <2>10 DEF SaleInv, Consumed
    <3>2. ChallengeOK(challenges[k])
      BY <3>1 DEF IInv, TypeInv, ChallengeInv
    <3>3. challenges[k].nonceSalt = ch.nonceSalt
      BY <2>6, <3>1, <3>2 DEF ChallengeOK
    <3>4. k = section.challenge
      BY <2>1, <3>1, <3>3 DEF SaleInv, AnswerInv, ch
    <3> QED BY <2>10, <3>1, <3>4 DEF SaleInv
  <2>11. faults \in Nat
    BY WorkflowAssumption DEF IInv, TypeInv, TypeOK
  <2> QED BY <2>8, <2>9, <2>10, <2>11
<1>3. Init => SaleInv
  BY InitSale
<1> QED BY <1>1, <1>2, <1>3, Invariance, PTL DEF Spec

-----------------------------------------------------------------------------
(* The server and the contract together: what the theorems about the contract say *)
(* of any caller they say of this one. *)
Registry == INSTANCE LandRegistry_proofs WITH
    Field <- LandId, LandHash <- LandId, Buyer <- User, ForeignRoot <- {},
    Address <- {Groth16}, Sound <- {Groth16}

(* blockchain.service.ts: whatever the server does, crashes, lost receipts and *)
(* transactions mined late included, *)
(* its calls are a history of the contract that starts at its deployment. *)
THEOREM WorkflowDrivesContract == Spec => Contract!Spec
<1>1. Init => Contract!Init
  BY DEF Init
<1> QED BY <1>1, InitTypes, TypeStep, ChainCalled, PTL DEF Spec, Contract!Spec

(* Contract and Registry are the same module under the same substitution *)
LEMMA SameContract ==
    /\ Contract!Init <=> Registry!Init
    /\ [Contract!Next]_(Contract!vars) <=> [Registry!Next]_(Registry!vars)
<1> USE DEF Contract!RootWord, Registry!RootWord, Contract!Root, Registry!Root, Contract!Tree, Registry!Tree,
       Contract!CurrentRoot, Registry!CurrentRoot,
       Contract!EMPTY_TREE_ROOT, Registry!EMPTY_TREE_ROOT
<1>1. Contract!Init <=> Registry!Init
  BY DEF Contract!Init, Registry!Init, Contract!NoRecord, Registry!NoRecord
<1>2. Contract!Next <=> Registry!Next
  BY Zenon
  DEF Contract!Next, Registry!Next, Contract!setVerifier, Registry!setVerifier,
      Contract!setRootVerifier, Registry!setRootVerifier, Contract!VerifierUpdated,
      Registry!VerifierUpdated, Contract!RootVerifierUpdated, Registry!RootVerifierUpdated,
      Contract!bootstrapRoot, Registry!bootstrapRoot, Contract!set, Registry!set,
      Contract!MerkleRootBootstrapped, Registry!MerkleRootBootstrapped,
      Contract!MerkleRootUpdated, Registry!MerkleRootUpdated, Contract!updateMerkleRoot,
      Registry!updateMerkleRoot, Contract!_anchorRoot, Registry!_anchorRoot,
      Contract!ValidTransition, Registry!ValidTransition, Contract!RootTransition,
      Registry!RootTransition, Contract!verifyProof, Registry!verifyProof,
      Contract!registerLand, Registry!registerLand, Contract!LandRegistered,
      Registry!LandRegistered, Contract!markDisputed, Registry!markDisputed,
      Contract!LandDisputed, Registry!LandDisputed, Contract!verifyAndTransfer,
      Registry!verifyAndTransfer, Contract!Authorizes, Registry!Authorizes,
      Contract!BoundTo, Registry!BoundTo, Contract!ChallengeProof, Registry!ChallengeProof,
      Contract!LandTransferred, Registry!LandTransferred, Contract!TransitionSignals,
      Registry!TransitionSignals, Contract!OwnershipSignals, Registry!OwnershipSignals,
      Contract!Nullifier, Registry!Nullifier, Contract!Challenge, Registry!Challenge
<1> QED BY <1>1, <1>2 DEF Contract!vars, Registry!vars

LEMMA DrivesRegistry == Spec => Registry!Spec /\ []TypeInv
BY WorkflowDrivesContract, SameContract, InitTypes, TypeStep, PTL DEF Spec, Contract!Spec, Registry!Spec

LEMMA RegistryAssumed ==
    /\ Commitment \subseteq LandId \X Secret /\ {Groth16} \subseteq {Groth16}
    /\ Nil \notin Commitment \cup Registry!Tree \cup {}
    /\ Nil \notin LandId \cup LandId \cup User \cup {Groth16}
    /\ {} \cap Registry!Tree = {}
BY WorkflowAssumption DEF Registry!Tree, Tree

(* SECURITY.md P2 to P4, for the contract as this server uses it: whatever fails or dies *)
(* beside it, its roots move by one leaf each and are what its log says, each nullifier  *)
(* is spent once, and each transfer was authorized by the holder of a commitment to the  *)
(* land in the tree then in force.  No verifier is ever replaced, so the conditions that  *)
(* the contract's own theorems put on replacements are met by every history. *)
THEOREM ContractPromisesKept ==
    Spec => [](/\ Contract!RootsMatchLog /\ Contract!NullifiersSpentOnce
               /\ Contract!Audited("RootVerifierUpdated") /\ Contract!SingleLeafHistory
               /\ Contract!Audited("VerifierUpdated") /\ Contract!TransferredByMember)
<1>1. Registry!Spec => [](/\ Registry!RootsMatchLog /\ Registry!NullifiersSpentOnce
                          /\ Registry!SingleLeafHistory /\ Registry!TransferredByMember)
  <2>1. Registry!Spec => []Registry!RootsMatchLog
    BY Registry!RootsFollowLog, RegistryAssumed
  <2>2. Registry!Spec => []Registry!NullifiersSpentOnce
    BY Registry!NullifiersNeverReplayed, RegistryAssumed
  <2>3. Registry!Spec => []Registry!SingleLeafHistory
    BY Registry!RootsMoveOneLeaf, RegistryAssumed
  <2>4. Registry!Spec => []Registry!TransferredByMember
    BY Registry!OnlyMembersTransfer, RegistryAssumed
  <2> QED BY <2>1, <2>2, <2>3, <2>4, PTL
<1>2. /\ Registry!RootsMatchLog => Contract!RootsMatchLog
      /\ Registry!NullifiersSpentOnce => Contract!NullifiersSpentOnce
  BY DEF Registry!RootsMatchLog, Contract!RootsMatchLog, Registry!AnchoredBefore,
     Contract!AnchoredBefore, Registry!NullifiersSpentOnce, Contract!NullifiersSpentOnce,
     Registry!Is, Contract!Is
<1>3. Registry!SingleLeafHistory => Contract!SingleLeafHistory
  BY DEF Registry!SingleLeafHistory, Contract!SingleLeafHistory, Registry!Audited, Contract!Audited,
     Registry!InForceBefore, Contract!InForceBefore, Registry!AnchoredBefore, Contract!AnchoredBefore,
     Registry!OneLeafApart, Contract!OneLeafApart, Registry!EMPTY_TREE_ROOT, Contract!EMPTY_TREE_ROOT,
     Registry!Tree, Contract!Tree, Registry!Is, Contract!Is
<1>4. Registry!TransferredByMember => Contract!TransferredByMember
  BY DEF Registry!TransferredByMember, Contract!TransferredByMember, Registry!Audited, Contract!Audited,
     Registry!AnchoredBefore, Contract!AnchoredBefore, Registry!Tree, Contract!Tree,
     Registry!Is, Contract!Is
<1>5. TypeInv => Contract!Audited("RootVerifierUpdated") /\ Contract!Audited("VerifierUpdated")
  <2> SUFFICES ASSUME TypeInv, NEW i \in DOMAIN events,
                      events[i].event \in {"RootVerifierUpdated", "VerifierUpdated"}
               PROVE  events[i].verifier = Groth16
    BY DEF Contract!Audited, Contract!Is
  <2>1. events[i] \in Contract!Event
    BY ElementOfSeq, LenProperties DEF TypeInv, TypeOK, Contract!TypeOK
  <2> QED BY <2>1 DEF Contract!Event, Contract!VerifierUpdated, Contract!RootVerifierUpdated,
          Contract!MerkleRootUpdated, Contract!MerkleRootBootstrapped, Contract!LandRegistered,
          Contract!LandDisputed, Contract!LandTransferred
<1> QED BY <1>1, <1>2, <1>3, <1>4, <1>5, DrivesRegistry, PTL

(* Server, database and contract together implement the abstract ledger: a tree that *)
(* moves by one leaf, parcels that members move, nullifiers spent once. *)
THEOREM WorkflowImplementsLedger == Spec => Registry!ImplementsLedger
<1>1. Registry!Spec => Registry!ImplementsLedger
  BY Registry!ContractImplementsLedger, RegistryAssumed
<1> QED BY <1>1, DrivesRegistry, PTL

=============================================================================
