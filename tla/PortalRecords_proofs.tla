------------------------ MODULE PortalRecords_proofs ------------------------
(***************************************************************************)
(* What the server records around the registry: verdicts of proofs, deeds  *)
(* and accounts.                                                           *)
(***************************************************************************)
EXTENDS ProofService, DeedStore, Accounts, Facts_proofs, FiniteSetTheorems, SequenceTheorems, TLAPS

-----------------------------------------------------------------------------
(***************************************************************************)
(* ProofService.  The verdicts recorded for proofs, for any number of      *)
(* lands, users, proofs, requests, approvals and purchases, and any        *)
(* number of bits.                                                         *)
(***************************************************************************)
Leaf == Plots \X Nat

TitleType ==
    [active : BOOLEAN, sales : Nat, ownerId : Holders, area : Areas, merkleRoot : SUBSET Leaf]

(* A land's root holds its own leaf only; the newest root and the paths are those of the *)
(* tree, except while a section writes them, whose root is                               *)
RegistryInv ==
    /\ titles \in [Plots -> TitleType]
    /\ \A p \in Plots, n \in Nat : <<p, n>> \in titles[p].merkleRoot => n = titles[p].sales
    /\ \/ /\ rebuilding = NoSectionHeld /\ latestRoot = InTree
          /\ \A p \in Plots : titles[p].active => titles[p].merkleRoot = InTree
       \/ /\ rebuilding = [pc |-> "paths", root |-> InTree, todo |-> rebuilding.todo]
          /\ \A p \in Plots : titles[p].active /\ p \notin rebuilding.todo => titles[p].merkleRoot = InTree

(* The signals name the land of the witness *)
OfWitness(type, w, s) ==
    /\ type = "COMMITMENT_OPENING" => s[1] = w.plot
    /\ type = "CHALLENGE_RESPONSE" => s[2] = w.plot
    /\ w.secret \in Nat

DocumentOK(d) ==
    /\ DOMAIN d = {"proofType", "landId", "publicSignals", "witness", "held", "verified"}
    /\ d.proofType \in PROOF_TYPES /\ d.landId \in Plots
    /\ OfWitness(d.proofType, d.witness, d.publicSignals)
    /\ d.verified =>
          /\ d.held
          /\ d.proofType = "AREA_RANGE" => Reaches(d.landId, d.publicSignals)

DocumentInv ==
    /\ \E S : proofs \in Seq(S)
    /\ \A i \in 1..Len(proofs) : DocumentOK(proofs[i])

(* A request is about to record a document, or a verdict on one *)
RequestOK(k) ==
    /\ "pc" \in DOMAIN k
    /\ k.pc = "create" => DocumentOK(k.document)
    /\ k.pc = "save" => /\ k.proof \in 1..Len(proofs)
                        /\ k.verified =>
                              /\ k.held
                              /\ proofs[k.proof].proofType = "AREA_RANGE" =>
                                    Reaches(proofs[k.proof].landId, proofs[k.proof].publicSignals)

RequestInv == DOMAIN asked = ProofRequests /\ \A q \in ProofRequests : RequestOK(asked[q])

VerdictInv == RegistryInv /\ DocumentInv /\ RequestInv

-----------------------------------------------------------------------------
(* The comparator is right for numbers of K = 2 ^ AreaBits values in a field beyond 2 * K *)
LEMMA DifferenceIsClear ==
    ASSUME NEW K \in Nat, NEW P \in Nat, P > 2 * K,
           NEW area \in 0..(K - 1), NEW minimum \in 0..(K - 1),
           (minimum + K - (area + 1)) % P < K
    PROVE  minimum <= area
<1>1. minimum + K - (area + 1) \in 0..(P - 1)
  OBVIOUS
<1>2. (minimum + K - (area + 1)) % P = minimum + K - (area + 1)
  BY <1>1
<1> QED BY <1>2

LEMMA RangeIsTrue ==
    ASSUME NEW p \in Plots, NEW w, NEW s, NEW root, verify("AREA_RANGE", w, s), Bound("AREA_RANGE", p, s, root)
    PROVE  Reaches(p, s)
<1> DEFINE area == titles[p].area
           K == 2 ^ AreaBits
<1>1. areaRange(w, s) /\ s[1] = AreaCommitment(area, p, titles[p].sales)
  BY DEF verify, Bound
<1>2. w.area = area /\ s[1][1] = area /\ s[1][2] = p
  BY <1>1 DEF areaRange, AreaCommitment
<1>3. AreaBits \in Nat /\ K \in Nat /\ 2 ^ (AreaBits + 1) = 2 * K
  BY ProofAssumption, PowerOfTwo
<1>4. FieldPrime \in Nat /\ FieldPrime > 2 * K
  BY <1>3, ProofAssumption
<1>5. /\ area \in 0..(K - 1) /\ s[2] \in 0..(K - 1)
      /\ (s[2] + K - (area + 1)) % FieldPrime < K
  BY <1>1, <1>2 DEF areaRange, GreaterEqThan, LessThan, Num2Bits
<1> HIDE DEF K, area
<1>6. s[2] <= area
  BY <1>3, <1>4, <1>5, DifferenceIsClear
<1> QED BY <1>2, <1>6 DEF Reaches

-----------------------------------------------------------------------------
(* What is judged valid is true, when a membership is compared with the root of the land, *)
(* active, or with the newest                                                             *)
LEMMA ValidIsClaimed ==
    ASSUME RegistryInv, NEW p \in Plots, NEW type \in PROOF_TYPES, NEW w, NEW s, NEW root,
           OfWitness(type, w, s), verify(type, w, s), Bound(type, p, s, root),
           root = latestRoot \/ (titles[p].active /\ root = titles[p].merkleRoot)
    PROVE  Claimed(type, p, w)
<1>1. CASE type = "COMMITMENT_OPENING"
  BY <1>1 DEF OfWitness, verify, commitmentProof, Bound, Claimed, Commitment
<1>2. CASE type = "REGISTRY_MEMBERSHIP"
  <2>1. Commitment(w.plot, w.secret) \in root
    BY <1>2 DEF verify, landOwnership, Bound
  <2>2. rebuilding # NoSectionHeld \/ root = InTree
    BY DEF RegistryInv, NoSectionHeld
  <2> QED BY <1>2, <2>1, <2>2 DEF Claimed
<1>3. CASE type = "CHALLENGE_RESPONSE"
  <2>1. <<p, w.secret>> \in titles[p].merkleRoot /\ w.plot = p
    BY <1>3 DEF OfWitness, verify, challengeProof, Bound, Commitment
  <2>2. w.secret = titles[p].sales
    BY <2>1 DEF RegistryInv, OfWitness
  <2> QED BY <1>3, <2>1, <2>2 DEF Claimed, Commitment
<1>4. CASE type = "AREA_RANGE"
  BY <1>4 DEF verify, areaRange, Bound, Claimed, Commitment, AreaCommitment
<1> QED BY <1>1, <1>2, <1>3, <1>4 DEF PROOF_TYPES

LEMMA SignalsOfWitness ==
    ASSUME NEW type \in PROOF_TYPES, NEW w \in Witnesses, NEW s \in buildCircuitInput(type, w), RegistryInv
    PROVE  OfWitness(type, w, s)
<1>1. w.secret \in Nat
  BY DEF Witnesses, RegistryInv, TitleType
<1> QED BY <1>1 DEF PROOF_TYPES, buildCircuitInput, OfWitness

-----------------------------------------------------------------------------
LEMMA VerdictsInitially == ProofInit => VerdictInv
<1> SUFFICES ASSUME ProofInit PROVE VerdictInv
  OBVIOUS
<1>1. PICK u \in Holders, area \in Areas :
         titles = [p \in Plots |-> [active |-> TRUE, sales |-> 0, ownerId |-> u, area |-> area,
                                    merkleRoot |-> {Commitment(x, 0) : x \in Plots}]]
  BY DEF ProofInit
<1>2. {Commitment(x, 0) : x \in Plots} \in SUBSET Leaf
  BY DEF Commitment, Leaf
<1>3. titles \in [Plots -> TitleType]
  BY <1>1, <1>2 DEF TitleType
<1>4. InTree = {Commitment(x, 0) : x \in Plots}
  BY <1>1 DEF InTree
<1>5. RegistryInv
  BY <1>1, <1>3, <1>4 DEF RegistryInv, ProofInit, Commitment
<1>6. DocumentInv
  BY DEF ProofInit, DocumentInv
<1>7. RequestInv
  BY DEF ProofInit, RequestInv, RequestOK, NotAsked
<1> QED BY <1>5, <1>6, <1>7 DEF VerdictInv

LEMMA TreeType ==
    ASSUME titles \in [Plots -> TitleType]
    PROVE  /\ InTree \in SUBSET Leaf
           /\ \A p \in Plots, n \in Nat : <<p, n>> \in InTree => n = titles[p].sales
BY DEF InTree, Commitment, Leaf, TitleType

LEMMA RegistryStep ==
    ASSUME VerdictInv, [ProofNext]_proofVars
    PROVE  RegistryInv'
<1> USE DEF VerdictInv
<1>1. CASE UNCHANGED <<titles, latestRoot, rebuilding>>
  BY <1>1 DEF RegistryInv, InTree
<1>2. ASSUME NEW p \in Plots, BeginSection(p) PROVE RegistryInv'
  <2>1. titles' \in [Plots -> TitleType]
        /\ \A x \in Plots, n \in Nat : <<x, n>> \in titles'[x].merkleRoot => n = titles'[x].sales
    <3>1. CASE approve(p)
      BY <3>1 DEF approve, RegistryInv, TitleType
    <3>2. ASSUME NEW buyer \in Holders, NEW newArea \in Areas, buyLand(p, buyer, newArea)
          PROVE  titles' \in [Plots -> TitleType]
                 /\ \A x \in Plots, n \in Nat : <<x, n>> \in titles'[x].merkleRoot => n = titles'[x].sales
      BY <3>2 DEF buyLand, RegistryInv, TitleType
    <3> QED BY <1>2, <3>1, <3>2 DEF BeginSection
  <2> QED BY <1>2, <2>1 DEF BeginSection, RegistryInv
<1>3. ASSUME NEW p \in Plots, UpdatePath(p) PROVE RegistryInv'
  <2>1. /\ titles \in [Plots -> TitleType] /\ rebuilding.root = InTree
        /\ rebuilding = [pc |-> "paths", root |-> InTree, todo |-> rebuilding.todo]
        /\ \A x \in Plots, n \in Nat : <<x, n>> \in titles[x].merkleRoot => n = titles[x].sales
        /\ \A x \in Plots : titles[x].active /\ x \notin rebuilding.todo => titles[x].merkleRoot = InTree
    BY <1>3 DEF UpdatePath, RegistryInv, NoSectionHeld
  <2>2. titles' = [titles EXCEPT ![p].merkleRoot = InTree]
    BY <1>3, <2>1 DEF UpdatePath
  <2>3. /\ \A x \in Plots : /\ titles'[x].active = titles[x].active
                            /\ titles'[x].sales = titles[x].sales
                            /\ titles'[x].merkleRoot = IF x = p THEN InTree ELSE titles[x].merkleRoot
        /\ titles' \in [Plots -> TitleType]
    BY <2>1, <2>2, TreeType DEF TitleType
  <2>4. InTree' = InTree
    <3>1. {x \in Plots : titles'[x].active} = {x \in Plots : titles[x].active}
      BY <2>3
    <3>2. \A x \in Plots : Commitment(x, titles'[x].sales) = Commitment(x, titles[x].sales)
      BY <2>3
    <3> QED BY <3>1, <3>2 DEF InTree
  <2>5. rebuilding' = [pc |-> "paths", root |-> InTree, todo |-> rebuilding.todo \ {p}]
    BY <1>3, <2>1 DEF UpdatePath
  <2>6. rebuilding'.todo = rebuilding.todo \ {p}
    BY <2>5
  <2>7. \A x \in Plots, n \in Nat : <<x, n>> \in titles'[x].merkleRoot => n = titles'[x].sales
    BY <2>1, <2>3, TreeType
  <2>8. \A x \in Plots : titles'[x].active /\ x \notin rebuilding'.todo => titles'[x].merkleRoot = InTree
    BY <2>1, <2>3, <2>6
  <2> QED BY <2>3, <2>4, <2>5, <2>6, <2>7, <2>8 DEF RegistryInv
<1>4. CASE EndSection
  BY <1>4 DEF EndSection, RegistryInv, InTree, NoSectionHeld
<1>5. ASSUME NEW q \in ProofRequests
      PROVE  /\ \A user, p, type, w, s :
                   submitProof(q, user, p, type, w, s) => UNCHANGED <<titles, latestRoot, rebuilding>>
             /\ \A i : verifyProofRecord(q, i) \/ verifyChallenge(q, i) =>
                         UNCHANGED <<titles, latestRoot, rebuilding>>
             /\ submitProof_Create(q) \/ saveVerdict(q) => UNCHANGED <<titles, latestRoot, rebuilding>>
  BY DEF submitProof, submitProof_Create, verifyProofRecord, verifyChallenge, Judge, saveVerdict
<1> QED BY <1>1, <1>2, <1>3, <1>4, <1>5 DEF ProofNext, proofVars

-----------------------------------------------------------------------------
(* A document is recorded as the request was judged *)
LEMMA CreateStep ==
    ASSUME VerdictInv, NEW q \in ProofRequests, submitProof_Create(q)
    PROVE  DocumentInv' /\ RequestInv'
<1> DEFINE d == asked[q].document
<1>1. DocumentOK(d)
  BY DEF VerdictInv, RequestInv, RequestOK, submitProof_Create
<1>2. PICK S : proofs \in Seq(S)
  BY DEF VerdictInv, DocumentInv
<1>3. proofs' = Append(proofs, d) /\ asked' = [asked EXCEPT ![q] = Replied]
  BY DEF submitProof_Create
<1> HIDE DEF d
<1>7. /\ proofs' \in Seq(S \cup {d}) /\ Len(proofs) \in Nat /\ Len(proofs') = Len(proofs) + 1
      /\ \A i \in 1..Len(proofs') : proofs'[i] = IF i <= Len(proofs) THEN proofs[i] ELSE d
  <2>1. proofs \in Seq(S \cup {d})
    BY <1>2
  <2> QED BY <1>3, <2>1
<1>8. DocumentInv'
  BY <1>1, <1>7 DEF VerdictInv, DocumentInv
<1>9. \A x \in ProofRequests : RequestOK(asked[x])'
  <2>1. ASSUME NEW x \in ProofRequests PROVE RequestOK(asked[x])'
    <3>1. CASE x = q
      BY <1>3, <3>1 DEF VerdictInv, RequestInv, RequestOK, Replied
    <3>2. CASE x # q
      <4>1. asked'[x] = asked[x] /\ RequestOK(asked[x])
        BY <1>3, <3>2 DEF VerdictInv, RequestInv
      <4>2. asked[x].pc = "save" => /\ asked[x].proof \in 1..Len(proofs')
                                    /\ proofs'[asked[x].proof] = proofs[asked[x].proof]
        BY <1>7, <4>1 DEF RequestOK
      <4> QED BY <4>1, <4>2 DEF RequestOK
    <3> QED BY <3>1, <3>2
  <2> QED BY <2>1
<1> QED BY <1>3, <1>8, <1>9 DEF VerdictInv, RequestInv

(* A verdict is saved beside what the document says, which no save changes *)
LEMMA SaveStep ==
    ASSUME VerdictInv, NEW q \in ProofRequests, saveVerdict(q)
    PROVE  DocumentInv' /\ RequestInv'
<1> DEFINE k == asked[q]
           verdict == IF k.verified = k.read THEN proofs[k.proof].verified ELSE k.verified
           d == [proofs[k.proof] EXCEPT !.verified = verdict,
                                        !.held = IF verdict = k.verified THEN k.held ELSE @]
<1>1. /\ k.proof \in 1..Len(proofs)
      /\ k.verified => /\ k.held
                       /\ proofs[k.proof].proofType = "AREA_RANGE" =>
                             Reaches(proofs[k.proof].landId, proofs[k.proof].publicSignals)
  BY DEF VerdictInv, RequestInv, RequestOK, saveVerdict
<1>2. PICK S : proofs \in Seq(S)
  BY DEF VerdictInv, DocumentInv
<1>3. DocumentOK(proofs[k.proof])
  BY <1>1 DEF VerdictInv, DocumentInv
<1>4. proofs' = [proofs EXCEPT ![k.proof] = d] /\ asked' = [asked EXCEPT ![q] = Replied]
  BY <1>1, <1>2, <1>3 DEF saveVerdict, DocumentOK
<1>5. /\ DOMAIN d = DOMAIN proofs[k.proof]
      /\ \/ d.verified = k.verified /\ d.held = k.held
         \/ d.verified = proofs[k.proof].verified /\ d.held = proofs[k.proof].held
      /\ d.proofType = proofs[k.proof].proofType /\ d.landId = proofs[k.proof].landId
      /\ d.witness = proofs[k.proof].witness /\ d.publicSignals = proofs[k.proof].publicSignals
  BY <1>3 DEF DocumentOK
<1> HIDE DEF k, d
<1>6. DocumentOK(d)
  BY <1>1, <1>3, <1>5 DEF DocumentOK
<1>7. /\ proofs' \in Seq(S \cup {d}) /\ Len(proofs) \in Nat /\ Len(proofs') = Len(proofs)
      /\ \A i \in 1..Len(proofs) : proofs'[i] = IF i = k.proof THEN d ELSE proofs[i]
  <2>1. proofs \in Seq(S \cup {d})
    BY <1>2
  <2> QED BY <1>1, <1>4, <2>1
<1>8. DocumentInv'
  BY <1>6, <1>7 DEF VerdictInv, DocumentInv
<1>9. \A i \in 1..Len(proofs) : /\ proofs'[i].proofType = proofs[i].proofType
                                /\ proofs'[i].landId = proofs[i].landId
                                /\ proofs'[i].publicSignals = proofs[i].publicSignals
  BY <1>5, <1>7
<1>10. ASSUME NEW x \in ProofRequests PROVE RequestOK(asked[x])'
  <2>1. CASE x = q
    BY <1>4, <2>1 DEF VerdictInv, RequestInv, RequestOK, Replied
  <2>2. CASE x # q
    <3>1. asked'[x] = asked[x] /\ RequestOK(asked[x])
      BY <1>4, <2>2 DEF VerdictInv, RequestInv
    <3> QED BY <1>7, <1>9, <3>1 DEF RequestOK
  <2> QED BY <2>1, <2>2
<1> QED BY <1>4, <1>8, <1>10 DEF VerdictInv, RequestInv

LEMMA DocumentStep ==
    ASSUME VerdictInv, [ProofNext]_proofVars
    PROVE  DocumentInv' /\ RequestInv'
<1>1. CASE UNCHANGED <<proofs, asked>>
  BY <1>1 DEF VerdictInv, DocumentInv, RequestInv, RequestOK
<1>2. ASSUME NEW q \in ProofRequests, NEW k, UNCHANGED proofs, asked' = [asked EXCEPT ![q] = k], RequestOK(k)
      PROVE  DocumentInv' /\ RequestInv'
  BY <1>2 DEF VerdictInv, DocumentInv, RequestInv, RequestOK
<1>3. ASSUME NEW q \in ProofRequests, NEW user \in Holders, NEW p \in Plots, NEW type \in PROOF_TYPES,
             NEW w \in Witnesses, NEW s \in buildCircuitInput(type, w), submitProof(q, user, p, type, w, s)
      PROVE  DocumentInv' /\ RequestInv'
  <2> DEFINE d == [proofType |-> type, landId |-> p, publicSignals |-> s, witness |-> w,
                   held |-> Claimed(type, p, w), verified |-> TRUE]
             k == [pc |-> "create", document |-> d]
  <2>1. /\ OfWitness(type, w, s) /\ titles[p].active
        /\ verify(type, w, s) /\ Bound(type, p, s, titles[p].merkleRoot)
    BY <1>3, SignalsOfWitness DEF submitProof, VerdictInv
  <2>2. Claimed(type, p, w)
    BY <2>1, ValidIsClaimed DEF VerdictInv
  <2>3. type = "AREA_RANGE" => Reaches(p, s)
    BY <2>1, RangeIsTrue
  <2>4. RequestOK(k)
    <3>1. DocumentOK(d)
      BY <2>1, <2>2, <2>3 DEF DocumentOK
    <3> QED BY <3>1 DEF RequestOK
  <2>5. asked' = [asked EXCEPT ![q] = k] /\ UNCHANGED proofs
    BY <1>3 DEF submitProof
  <2> HIDE DEF k
  <2> QED BY <1>2, <2>4, <2>5
<1>4. ASSUME NEW q \in ProofRequests, NEW i \in 1..Len(proofs), verifyProofRecord(q, i) \/ verifyChallenge(q, i)
      PROVE  DocumentInv' /\ RequestInv'
  <2> DEFINE d == proofs[i]
  <2>1. PICK verified \in {FALSE, Judged(i)} : Judge(q, i, verified)
    BY <1>4 DEF verifyProofRecord, verifyChallenge
  <2> DEFINE k == [pc |-> "save", proof |-> i, read |-> proofs[i].verified, verified |-> verified,
                   held |-> Claimed(proofs[i].proofType, proofs[i].landId, proofs[i].witness)]
  <2>2. DocumentOK(d)
    BY DEF VerdictInv, DocumentInv
  <2>3. asked' = [asked EXCEPT ![q] = k] /\ UNCHANGED proofs
    BY <2>1 DEF Judge
  <2>4. Judged(i) => Claimed(d.proofType, d.landId, d.witness)
    BY <2>2, ValidIsClaimed DEF VerdictInv, DocumentOK, Judged
  <2>5. Judged(i) /\ d.proofType = "AREA_RANGE" => Reaches(d.landId, d.publicSignals)
    BY <2>2, RangeIsTrue DEF DocumentOK, Judged
  <2>6. RequestOK(k)
    BY <2>1, <2>4, <2>5 DEF RequestOK
  <2> HIDE DEF k
  <2> QED BY <1>2, <2>3, <2>6
<1> QED BY <1>1, <1>3, <1>4, CreateStep, SaveStep DEF ProofNext, proofVars, BeginSection, UpdatePath,
        EndSection

LEMMA VerdictStep ==
    ASSUME VerdictInv, [ProofNext]_proofVars
    PROVE  VerdictInv'
BY RegistryStep, DocumentStep DEF VerdictInv

-----------------------------------------------------------------------------
(* A proof recorded as verified was its claimant's when it was judged. *)
THEOREM VerdictsAreTrue == ProofSpec => []VerdictWasTrue
<1>1. VerdictInv => VerdictWasTrue
  BY DEF VerdictInv, DocumentInv, DocumentOK, VerdictWasTrue
<1> QED BY <1>1, VerdictsInitially, VerdictStep, PTL DEF ProofSpec

(* A verified range proof bounds the land's area in numbers, in whatever field of more *)
(* than AreaBits + 1 bits.                                                             *)
THEOREM RangesAreTrue == ProofSpec => []AreaReachesMinimum
<1>1. VerdictInv => AreaReachesMinimum
  BY DEF VerdictInv, DocumentInv, DocumentOK, AreaReachesMinimum
<1> QED BY <1>1, VerdictsInitially, VerdictStep, PTL DEF ProofSpec

-----------------------------------------------------------------------------
(***************************************************************************)
(* DeedStore.  What is stored of a deed and served to its readers, for     *)
(* any number of uploads, documents, keys, parcels, users and crashes.     *)
(***************************************************************************)
Seals == [upload : Uploads \cup {"elsewhere"}, key : DeedKeys \cup {NoDeed}]

(* At most one write of the file was begun *)
WrittenOnce(c) == \A v, w \in Writers(c) : v = w

HoldsFirst(c, chunk) == disk[c][1] = chunk
HoldsBoth(c, chunk) == disk[c][1] = chunk /\ disk[c][2] = chunk

(* The file is whole, and a writer of it is not at it any more *)
Stored(c) ==
    /\ c \in DOMAIN disk /\ c # EMPTY_DEED_CID
    /\ \E u : <<c, u>> \in begun /\ (u \in Uploads => upload[u] = Over)
    /\ WrittenOnce(c) => \E s \in Seals : s # NoDeed /\ HoldsBoth(c, s)

FileInv ==
    /\ config.key \in DeedKeys \cup {NoDeed} /\ IsFiniteSet(begun)
    /\ \A c \in DOMAIN disk : /\ disk[c] \in [1..2 -> Seals \cup {NoDeed}]
                              /\ \E u \in Uploads : <<c, u>> \in begun
    /\ \A c \in DOMAIN ipfs : \E s \in Seals : ipfs[c] = [i \in 1..2 |-> s]

WriterOK(w) ==
    LET c == w[1]
        u == w[2]
    IN /\ w = <<c, u>> /\ u \in Uploads \cup {"elsewhere"}
       /\ u \in Uploads =>
             \/ upload[u] = Over
             \/ /\ upload[u].pc \in {"write1", "write2", "meta", "create"}
                /\ upload[u].cid = c

UploadFields == {"pc", "landId", "owner", "deed", "cid", "key"}

UploadOK(u) ==
    LET r == upload[u]
        chunk == Chunk(u, r.key)
    IN \/ r = Unmade \/ r = Over
       \/ /\ DOMAIN r = UploadFields /\ r.landId # "elsewhere" /\ r.key \in DeedKeys \cup {NoDeed}
          /\ \/ r.pc = "seal" /\ r.deed \in Deeds
             \/ r.pc \in {"pin", "truncate"} /\ r.cid # EMPTY_DEED_CID
             \/ r.pc = "create" /\ r.cid = EMPTY_DEED_CID
             \/ /\ r.pc \in {"write1", "write2", "meta", "create"} /\ r.cid # EMPTY_DEED_CID
                /\ <<r.cid, u>> \in begun /\ r.cid \in DOMAIN disk
                /\ r.pc = "write2" => (WrittenOnce(r.cid) => HoldsFirst(r.cid, chunk))
                /\ r.pc \in {"meta", "create"} => (WrittenOnce(r.cid) => HoldsBoth(r.cid, chunk))
                /\ r.pc = "create" => r.cid \in sidecars

UploadInv ==
    /\ DOMAIN upload = Uploads /\ \A u \in Uploads : UploadOK(u)
    /\ \A w \in begun : WriterOK(w)

ParcelOK(p) ==
    \/ p.cid = EMPTY_DEED_CID
    \/ p.landId # "elsewhere" /\ Stored(p.cid) /\ p.cid \in sidecars
    \/ /\ p.landId = "elsewhere" /\ <<p.cid, "elsewhere">> \in begun
       /\ p.cid # EMPTY_DEED_CID /\ p.cid \in DOMAIN ipfs

ParcelInv ==
    /\ \E S : parcels \in Seq(S)
    /\ \A i \in 1..Len(parcels) : ParcelOK(parcels[i])

(* A reader has the chunks of a file nobody is writing, unless it is written twice *)
ReaderOK(r) ==
    /\ "pc" \in DOMAIN r
    /\ r.pc = "read" =>
          /\ r = [pc |-> "read", cid |-> r.cid, got |-> r.got]
          /\ Stored(r.cid)
          /\ WrittenOnce(r.cid) => \/ r.got = <<>>
                                   \/ r.got = <<disk[r.cid][1]>>
                                   \/ r.got = <<disk[r.cid][1], disk[r.cid][1]>>
    /\ r.pc = "served" =>
          /\ r.result # "sealed"
          /\ r.result = "torn" => ~WrittenOnce(r.cid)

DeedInv == FileInv /\ UploadInv /\ ParcelInv /\ ReaderOK(reader)

-----------------------------------------------------------------------------
LEMMA TwoWriters ==
    ASSUME NEW c, IsFiniteSet(begun), ~WrittenOnce(c)
    PROVE  Cardinality(Writers(c)) > 1
<1>1. PICK v \in Writers(c), w \in Writers(c) : v # w
  BY DEF WrittenOnce
<1>2. IsFiniteSet(Writers(c)) /\ Cardinality(Writers(c)) \in Nat
  BY FS_Subset, FS_CardinalityType DEF Writers
<1>3. IsFiniteSet({v}) /\ Cardinality({v}) = 1
  BY FS_Singleton
<1>4. {v} \in SUBSET Writers(c) /\ {v} # Writers(c)
  BY <1>1
<1>5. Cardinality({v}) <= Cardinality(Writers(c)) /\ Cardinality({v}) # Cardinality(Writers(c))
  BY <1>2, <1>4, FS_Subset
<1> QED BY <1>2, <1>3, <1>5

LEMMA SealsAreChunks ==
    ASSUME NEW u \in Uploads, NEW key \in DeedKeys \cup {NoDeed}
    PROVE  Chunk(u, key) \in Seals /\ Chunk(u, key) # NoDeed
BY DeedAssumption DEF Chunk, Seals

LEMMA UnderWay ==
    ASSUME DeedInv, NEW u \in Uploads, upload[u].pc \notin {"unmade", "over"}
    PROVE  /\ DOMAIN upload = Uploads
           /\ LET r == upload[u]
              IN /\ DOMAIN r = UploadFields /\ r.landId # "elsewhere" /\ r.key \in DeedKeys \cup {NoDeed}
                 /\ r.pc \in {"seal", "pin", "truncate", "write1", "write2", "meta", "create"}
                 /\ r.pc = "seal" => r.deed \in Deeds
                 /\ r.pc \in {"pin", "truncate", "write1", "write2", "meta"} => r.cid # EMPTY_DEED_CID
                 /\ UploadOK(u)
BY DEF DeedInv, UploadInv, UploadOK, Unmade, Over

LEMMA DeedsInitially == DeedInit => DeedInv
<1> SUFFICES ASSUME DeedInit PROVE DeedInv
  OBVIOUS
<1>1. config.key \in DeedKeys \cup {NoDeed} /\ DOMAIN disk = {}
  BY DEF DeedInit, Config
<1>2. DOMAIN upload = Uploads /\ \A u \in Uploads : UploadOK(u)
  BY DEF DeedInit, UploadOK
<1>3. ReaderOK(reader)
  BY DEF DeedInit, ReaderOK, NoReader
<1>4. CASE parcels = <<>> /\ ipfs = <<>> /\ begun = {}
  <2>1. DOMAIN ipfs = {} /\ IsFiniteSet(begun) /\ Len(parcels) = 0 /\ parcels \in Seq({})
    BY <1>4, FS_EmptySet
  <2> QED BY <1>1, <1>2, <1>3, <1>4, <2>1 DEF DeedInv, FileInv, UploadInv, ParcelInv
<1>5. ASSUME NEW key \in DeedKeys \cup {NoDeed}, NEW d \in Deeds, NEW cid,
             cid = <<"ipfs", IF key = NoDeed THEN d ELSE "elsewhere">>,
             parcels = <<Elsewhere(cid)>>, begun = {<<cid, "elsewhere">>},
             ipfs = [c \in {cid} |-> [i \in 1..2 |-> Chunk("elsewhere", key)]]
      PROVE  DeedInv
  <2>1. cid # EMPTY_DEED_CID
    BY <1>5 DEF EMPTY_DEED_CID
  <2>2. IsFiniteSet(begun) /\ DOMAIN ipfs = {cid} /\ Chunk("elsewhere", key) \in Seals
    BY <1>5, FS_Singleton DEF Chunk, Seals
  <2>3. FileInv
    BY <1>1, <1>5, <2>2 DEF FileInv
  <2>4. \A w \in begun : WriterOK(w)
    BY <1>5, DeedAssumption DEF WriterOK
  <2>5. /\ parcels \in Seq({Elsewhere(cid)}) /\ Len(parcels) = 1 /\ parcels[1] = Elsewhere(cid)
    BY <1>5
  <2>6. ParcelOK(Elsewhere(cid))
    BY <1>5, <2>1, <2>2 DEF ParcelOK, Elsewhere
  <2>7. ParcelInv
    <3> HIDE DEF ParcelOK, Elsewhere
    <3> QED BY <2>5, <2>6 DEF ParcelInv
  <2> QED BY <1>2, <1>3, <2>3, <2>4, <2>7 DEF DeedInv, UploadInv
<1> QED BY <1>4, <1>5 DEF DeedInit

-----------------------------------------------------------------------------
(* What a step of one request does to the others, and to the files *)
LEMMA Grows ==
    ASSUME DeedInv, [DeedNext]_deedVars
    PROVE  /\ begun \subseteq begun' /\ DOMAIN disk \subseteq DOMAIN disk'
           /\ sidecars \subseteq sidecars' /\ DOMAIN ipfs \subseteq DOMAIN ipfs'
           /\ \A c : WrittenOnce(c)' => WrittenOnce(c)
           /\ \A v \in Uploads : upload[v] = Over => upload'[v] = Over
<1>1. CASE UNCHANGED deedVars
  BY <1>1 DEF deedVars, WrittenOnce, Writers
<1>2. ASSUME NEW u \in Uploads,
             \/ \E p \in Parcels, a \in Applicants, d \in Deeds \cup {NoDeed} : RequestParcel(u, p, a, d)
             \/ \E d \in Deeds : UploadOnly(u, d)
      PROVE  /\ upload[u] = Unmade /\ UNCHANGED <<begun, disk, sidecars, ipfs>>
             /\ \E r : upload' = [upload EXCEPT ![u] = r]
  BY <1>2 DEF RequestParcel, UploadOnly
<1>3. ASSUME NEW u \in Uploads, Seal(u) \/ Pin(u) \/ CreateParcel(u)
      PROVE  /\ upload[u].pc # "over" /\ UNCHANGED <<begun, disk, sidecars>>
             /\ DOMAIN ipfs \subseteq DOMAIN ipfs'
             /\ \E r : upload' = [upload EXCEPT ![u] = r]
  BY <1>3 DEF Seal, Pin, CreateParcel, Move, UploadOver, Put
<1>4. ASSUME NEW u \in Uploads, Truncate(u) \/ WriteMeta(u) \/ (\E i \in 1..2 : WriteChunk(u, i))
      PROVE  /\ upload[u].pc # "over" /\ begun \subseteq begun' /\ DOMAIN disk \subseteq DOMAIN disk'
             /\ sidecars \subseteq sidecars' /\ UNCHANGED ipfs
             /\ \E r : upload' = [upload EXCEPT ![u] = r]
  BY <1>4 DEF Truncate, WriteMeta, WriteChunk, Move, Put
<1>5. ASSUME NEW c \in Config, CrashDeeds(c)
      PROVE  /\ UNCHANGED <<begun, disk, sidecars, ipfs>>
             /\ \A v \in Uploads : upload[v] = Over => upload'[v] = Over
  BY <1>5 DEF CrashDeeds, Over, Unmade
<1>6. ASSUME ReadChunk \/ \E who \in Applicants \cup {Authority}, i \in 1..Len(parcels) : AskDeed(who, i)
      PROVE  UNCHANGED <<upload, begun, disk, sidecars, ipfs>>
  BY <1>6 DEF ReadChunk, AskDeed
<1>7. ASSUME NEW u \in Uploads, upload[u].pc # "over" \/ upload[u] = Unmade,
             \E r : upload' = [upload EXCEPT ![u] = r]
      PROVE  \A v \in Uploads : upload[v] = Over => upload'[v] = Over
  BY <1>7 DEF Over, Unmade, DeedInv, UploadInv
<1>8. begun \subseteq begun' => \A c : WrittenOnce(c)' => WrittenOnce(c)
  BY DEF WrittenOnce, Writers
<1> QED BY <1>1, <1>2, <1>3, <1>4, <1>5, <1>6, <1>7, <1>8 DEF DeedNext

(* Only a writer changes a file: with another writer, it is written twice *)
LEMMA FileStays ==
    ASSUME DeedInv, [DeedNext]_deedVars, NEW c, NEW v, <<c, v>> \in begun,
           v \in Uploads => upload'[v] = upload[v],
           WrittenOnce(c)', c \in DOMAIN disk
    PROVE  disk'[c] = disk[c]
<1>1. CASE UNCHANGED disk
  BY <1>1
<1>2. ASSUME NEW u \in Uploads, upload'[u] # upload[u], <<upload[u].cid, u>> \in begun'
      PROVE  upload[u].cid # c
  BY <1>2, Grows DEF WrittenOnce, Writers
<1>3. ASSUME NEW u \in Uploads, Truncate(u) PROVE disk'[c] = disk[c]
  <2>1. upload'[u] # upload[u]
    <3>1. upload'[u].pc = "write1" /\ upload[u].pc = "truncate"
      BY <1>3 DEF Truncate, Move, DeedInv, UploadInv, UploadOK, UploadFields, Unmade, Over
    <3> QED BY <3>1
  <2>2. upload[u].cid # c
    BY <1>2, <1>3, <2>1 DEF Truncate
  <2> QED BY <1>3, <2>2 DEF Truncate, Put
<1>4. ASSUME NEW u \in Uploads, NEW i \in 1..2, WriteChunk(u, i) PROVE disk'[c] = disk[c]
  <2>1. /\ upload'[u].pc = <<"write2", "meta">>[i] /\ upload[u].pc = <<"write1", "write2">>[i]
        /\ <<upload[u].cid, u>> \in begun
    BY <1>4 DEF WriteChunk, Move, DeedInv, UploadInv, UploadOK, UploadFields, Unmade, Over
  <2>2. upload'[u] # upload[u]
    BY <2>1
  <2>3. upload[u].cid # c
    BY <1>2, <1>4, <2>1, <2>2, Grows
  <2> QED BY <1>4, <2>3 DEF WriteChunk
<1>5. ASSUME NEW u \in Uploads, Seal(u) \/ Pin(u) \/ WriteMeta(u) \/ CreateParcel(u)
      PROVE  UNCHANGED disk
  BY <1>5 DEF Seal, Pin, WriteMeta, CreateParcel
<1>6. ASSUME NEW u \in Uploads,
             \/ \E p \in Parcels, a \in Applicants, d \in Deeds \cup {NoDeed} : RequestParcel(u, p, a, d)
             \/ \E d \in Deeds : UploadOnly(u, d)
      PROVE  UNCHANGED disk
  BY <1>6 DEF RequestParcel, UploadOnly
<1> QED BY <1>1, <1>3, <1>4, <1>5, <1>6 DEF DeedNext, deedVars, CrashDeeds, AskDeed, ReadChunk

LEMMA StoredStays ==
    ASSUME DeedInv, [DeedNext]_deedVars, NEW c, Stored(c)
    PROVE  Stored(c)' /\ (WrittenOnce(c)' => WrittenOnce(c) /\ disk'[c] = disk[c])
<1>1. PICK v : <<c, v>> \in begun /\ (v \in Uploads => upload[v] = Over)
  BY DEF Stored
<1>2. <<c, v>> \in begun' /\ (v \in Uploads => upload'[v] = Over)
  BY <1>1, Grows
<1>3. WrittenOnce(c)' => disk'[c] = disk[c]
  BY <1>1, <1>2, FileStays DEF Stored
<1> QED BY <1>2, <1>3, Grows DEF Stored, HoldsBoth, EMPTY_DEED_CID

(* A request that does not move stays as it should be *)
LEMMA OthersStay ==
    ASSUME DeedInv, [DeedNext]_deedVars, NEW v \in Uploads, upload'[v] = upload[v]
    PROVE  UploadOK(v)'
<1> DEFINE c == upload[v].cid
<1>1. UploadOK(v)
  BY DEF DeedInv, UploadInv
<1>2. c \in DOMAIN disk /\ <<c, v>> \in begun /\ WrittenOnce(c)' => disk'[c] = disk[c] /\ WrittenOnce(c)
  BY FileStays, Grows
<1>3. \A d : WrittenOnce(d)' => WrittenOnce(d)
  BY Grows
<1> QED BY <1>1, <1>2, <1>3, Grows DEF UploadOK, HoldsFirst, HoldsBoth, Chunk, Unmade, Over, EMPTY_DEED_CID

-----------------------------------------------------------------------------
LEMMA FileStep ==
    ASSUME DeedInv, [DeedNext]_deedVars
    PROVE  FileInv'
<1> USE DEF DeedInv, FileInv
<1>1. CASE UNCHANGED <<config, begun, disk, ipfs>>
  BY <1>1
<1>2. ASSUME NEW u \in Uploads, Pin(u) PROVE FileInv'
  <2>1. Chunk(u, upload[u].key) \in Seals
    BY <1>2, UnderWay, SealsAreChunks DEF Pin
  <2> QED BY <1>2, <2>1 DEF Pin, Put, Whole
<1>3. ASSUME NEW u \in Uploads, Truncate(u) PROVE FileInv'
  <2> DEFINE c == upload[u].cid
  <2>1. disk' = Put(disk, c, <<NoDeed, NoDeed>>) /\ begun' = begun \cup {<<c, u>>} /\ UNCHANGED <<config, ipfs>>
    BY <1>3 DEF Truncate
  <2>2. IsFiniteSet(begun')
    BY <2>1, FS_AddElement
  <2>3. <<NoDeed, NoDeed>> \in [1..2 -> Seals \cup {NoDeed}]
    OBVIOUS
  <2> HIDE DEF c
  <2> QED BY <2>1, <2>2, <2>3 DEF Put
<1>4. ASSUME NEW u \in Uploads, NEW i \in 1..2, WriteChunk(u, i) PROVE FileInv'
  <2>1. upload[u].pc \in {"write1", "write2"}
    BY <1>4 DEF WriteChunk
  <2>2. Chunk(u, upload[u].key) \in Seals
    BY <2>1, UnderWay, SealsAreChunks
  <2> QED BY <1>4, <2>2 DEF WriteChunk
<1>5. ASSUME NEW c \in Config, CrashDeeds(c) PROVE FileInv'
  BY <1>5 DEF CrashDeeds, Config
<1>6. ASSUME NEW u \in Uploads, Seal(u) \/ WriteMeta(u) \/ CreateParcel(u)
      PROVE  UNCHANGED <<config, begun, disk, ipfs>>
  BY <1>6 DEF Seal, WriteMeta, CreateParcel
<1>7. ASSUME NEW u \in Uploads,
             \/ \E p \in Parcels, a \in Applicants, d \in Deeds \cup {NoDeed} : RequestParcel(u, p, a, d)
             \/ \E d \in Deeds : UploadOnly(u, d)
      PROVE  UNCHANGED <<config, begun, disk, ipfs>>
  BY <1>7 DEF RequestParcel, UploadOnly
<1> QED BY <1>1, <1>2, <1>3, <1>4, <1>5, <1>6, <1>7 DEF DeedNext, deedVars, AskDeed, ReadChunk

(* The request that moves *)
LEMMA MoverStep ==
    ASSUME DeedInv, NEW u \in Uploads,
           \/ \E p \in Parcels, a \in Applicants, d \in Deeds \cup {NoDeed} : RequestParcel(u, p, a, d)
           \/ \E d \in Deeds : UploadOnly(u, d)
           \/ Seal(u) \/ Pin(u) \/ Truncate(u) \/ WriteMeta(u) \/ CreateParcel(u)
           \/ \E i \in 1..2 : WriteChunk(u, i)
    PROVE  /\ upload' = [upload EXCEPT ![u] = upload'[u]]
           /\ UploadOK(u)'
           /\ \A w \in begun' : w[2] = u => WriterOK(w)'
<1> DEFINE r == upload[u]
           Moved == /\ upload' = [upload EXCEPT ![u] = upload'[u]]
                    /\ UploadOK(u)'
                    /\ \A w \in begun' : w[2] = u => WriterOK(w)'
<1>1. /\ DOMAIN upload = Uploads /\ \A w \in begun : WriterOK(w)
      /\ \A c \in DOMAIN disk : DOMAIN disk[c] = 1..2
  BY DEF DeedInv, UploadInv, FileInv
<1>2. /\ "elsewhere" \notin Deeds \cup Uploads \cup Parcels \cup {NoDeed} /\ NoDeed \notin Deeds
      /\ config.key \in DeedKeys \cup {NoDeed}
  BY DeedAssumption DEF DeedInv, FileInv
<1>3. ASSUME begun' = begun, r.pc \in {"unmade", "seal", "pin", "truncate"}
      PROVE  \A w \in begun' : w[2] # u
  <2>1. r # Over
    BY <1>3 DEF Over
  <2> QED BY <1>1, <1>3, <2>1 DEF WriterOK
<1>4. ASSUME begun' = begun, r.pc \in {"write1", "write2", "meta", "create"},
             \/ upload'[u] = Over
             \/ upload'[u].cid = r.cid /\ upload'[u].pc \in {"write2", "meta", "create"}
      PROVE  \A w \in begun' : w[2] = u => WriterOK(w)'
  <2>1. r # Over
    BY <1>4 DEF Over
  <2> QED BY <1>1, <1>4, <2>1 DEF WriterOK
<1>5. ASSUME NEW p \in Parcels, NEW a \in Applicants, NEW d \in Deeds \cup {NoDeed}, RequestParcel(u, p, a, d)
      PROVE  Moved
  <2>1. /\ upload' = [upload EXCEPT ![u] = upload'[u]] /\ UploadOK(u)'
        /\ begun' = begun /\ r.pc = "unmade"
    BY <1>1, <1>2, <1>5 DEF RequestParcel, UploadOK, UploadFields, Unmade
  <2> QED BY <1>3, <2>1
<1>6. ASSUME NEW d \in Deeds, UploadOnly(u, d) PROVE Moved
  <2>1. /\ upload' = [upload EXCEPT ![u] = upload'[u]] /\ UploadOK(u)'
        /\ begun' = begun /\ r.pc = "unmade"
    BY <1>1, <1>2, <1>6 DEF UploadOnly, UploadOK, UploadFields, Unmade
  <2> QED BY <1>3, <2>1
<1>7. CASE Seal(u)
  <2>1. DOMAIN r = UploadFields /\ r.landId # "elsewhere" /\ r.deed \in Deeds /\ r.pc = "seal"
    <3>1. r.pc = "seal"
      BY <1>7 DEF Seal
    <3> QED BY <3>1, UnderWay
  <2>2. CidOf(u) # EMPTY_DEED_CID
    BY <1>2, <2>1 DEF CidOf, EMPTY_DEED_CID
  <2>3. /\ upload' = [upload EXCEPT ![u] = upload'[u]] /\ DOMAIN upload'[u] = UploadFields
        /\ upload'[u].pc \in {"pin", "truncate"} /\ upload'[u].key = config.key
        /\ upload'[u].cid = CidOf(u) /\ upload'[u].landId = r.landId
    BY <1>1, <1>7, <2>1 DEF Seal, UploadFields
  <2>4. UploadOK(u)'
    BY <1>2, <2>1, <2>2, <2>3 DEF UploadOK, EMPTY_DEED_CID
  <2> QED BY <1>3, <1>7, <2>1, <2>3, <2>4 DEF Seal
<1>8. CASE Pin(u)
  <2>1. /\ DOMAIN r = UploadFields /\ r.landId # "elsewhere" /\ r.key \in DeedKeys \cup {NoDeed}
        /\ r.cid # EMPTY_DEED_CID /\ r.pc = "pin"
    <3>1. r.pc = "pin"
      BY <1>8 DEF Pin
    <3> QED BY <3>1, UnderWay
  <2>2. CASE Move(u, "truncate")
    <3>1. /\ upload' = [upload EXCEPT ![u] = upload'[u]] /\ DOMAIN upload'[u] = UploadFields
          /\ upload'[u].pc = "truncate" /\ upload'[u].key = r.key
          /\ upload'[u].cid = r.cid /\ upload'[u].landId = r.landId
      BY <1>1, <2>1, <2>2 DEF Move, UploadFields
    <3>2. UploadOK(u)'
      BY <2>1, <3>1 DEF UploadOK, EMPTY_DEED_CID
    <3> QED BY <1>3, <1>8, <2>1, <3>1, <3>2 DEF Pin
  <2>3. CASE UploadOver(u)
    <3>1. upload' = [upload EXCEPT ![u] = upload'[u]] /\ UploadOK(u)'
      BY <1>1, <2>3 DEF UploadOver, UploadOK, Over
    <3> QED BY <1>3, <1>8, <2>1, <3>1 DEF Pin
  <2> QED BY <1>8, <2>2, <2>3 DEF Pin
<1>9. CASE Truncate(u)
  <2>1. /\ DOMAIN r = UploadFields /\ r.landId # "elsewhere" /\ r.key \in DeedKeys \cup {NoDeed}
        /\ r.cid # EMPTY_DEED_CID /\ r.pc = "truncate"
    <3>1. r.pc = "truncate"
      BY <1>9 DEF Truncate
    <3> QED BY <3>1, UnderWay
  <2>2. /\ upload' = [upload EXCEPT ![u] = upload'[u]] /\ DOMAIN upload'[u] = UploadFields
        /\ upload'[u].pc = "write1" /\ upload'[u].key = r.key
        /\ upload'[u].cid = r.cid /\ upload'[u].landId = r.landId
        /\ r.cid \in DOMAIN disk' /\ begun' = begun \cup {<<r.cid, u>>}
    BY <1>1, <1>9, <2>1 DEF Truncate, Move, Put, UploadFields
  <2>3. UploadOK(u)'
    BY <2>1, <2>2 DEF UploadOK, EMPTY_DEED_CID
  <2>4. ASSUME NEW w \in begun', w[2] = u PROVE WriterOK(w)'
    <3>1. w = <<r.cid, u>>
      BY <1>1, <2>1, <2>2, <2>4 DEF WriterOK, Over
    <3> QED BY <2>2, <3>1 DEF WriterOK
  <2> QED BY <2>2, <2>3, <2>4
<1>10. ASSUME NEW i \in 1..2, WriteChunk(u, i) PROVE Moved
  <2>1. /\ DOMAIN r = UploadFields /\ r.landId # "elsewhere" /\ r.key \in DeedKeys \cup {NoDeed}
        /\ r.cid # EMPTY_DEED_CID /\ <<r.cid, u>> \in begun /\ r.cid \in DOMAIN disk
        /\ r.pc = <<"write1", "write2">>[i]
        /\ i = 2 => (WrittenOnce(r.cid) => HoldsFirst(r.cid, Chunk(u, r.key)))
    <3>1. r.pc \in {"write1", "write2"} /\ (i = 2 => r.pc = "write2")
      BY <1>10 DEF WriteChunk
    <3> QED BY <1>10, <3>1, UnderWay DEF WriteChunk, UploadOK, Unmade, Over
  <2>2. /\ upload' = [upload EXCEPT ![u] = upload'[u]] /\ DOMAIN upload'[u] = UploadFields
        /\ upload'[u].pc = <<"write2", "meta">>[i] /\ upload'[u].key = r.key
        /\ upload'[u].cid = r.cid /\ upload'[u].landId = r.landId
        /\ begun' = begun /\ DOMAIN disk' = DOMAIN disk
    BY <1>1, <1>10, <2>1 DEF WriteChunk, Move, UploadFields
  <2>3. /\ disk'[r.cid][i] = Chunk(u, r.key)
        /\ i = 2 => disk'[r.cid][1] = disk[r.cid][1]
    BY <1>1, <1>10, <2>1 DEF WriteChunk
  <2>4. WrittenOnce(r.cid)' = WrittenOnce(r.cid)
    BY <2>2 DEF WrittenOnce, Writers
  <2>5. UploadOK(u)'
    <3>1. CASE i = 1
      BY <2>1, <2>2, <2>3, <3>1 DEF UploadOK, HoldsFirst, Chunk, EMPTY_DEED_CID
    <3>2. CASE i = 2
      BY <2>1, <2>2, <2>3, <2>4, <3>2 DEF UploadOK, HoldsFirst, HoldsBoth, Chunk, EMPTY_DEED_CID
    <3> QED BY <3>1, <3>2
  <2>6. r.pc \in {"write1", "write2"} /\ upload'[u].pc \in {"write2", "meta"}
    BY <2>1, <2>2
  <2> QED BY <1>4, <2>2, <2>5, <2>6
<1>11. CASE WriteMeta(u)
  <2>1. /\ DOMAIN r = UploadFields /\ r.landId # "elsewhere" /\ r.key \in DeedKeys \cup {NoDeed}
        /\ r.cid # EMPTY_DEED_CID /\ <<r.cid, u>> \in begun /\ r.cid \in DOMAIN disk
        /\ r.pc = "meta"
        /\ WrittenOnce(r.cid) => HoldsBoth(r.cid, Chunk(u, r.key))
    BY <1>11, UnderWay DEF WriteMeta, UploadOK, Unmade, Over
  <2>2. /\ upload' = [upload EXCEPT ![u] = upload'[u]] /\ DOMAIN upload'[u] = UploadFields
        /\ upload'[u].pc = "create" /\ upload'[u].key = r.key
        /\ upload'[u].cid = r.cid /\ upload'[u].landId = r.landId
        /\ begun' = begun /\ disk' = disk /\ r.cid \in sidecars'
    BY <1>1, <1>11, <2>1 DEF WriteMeta, Move, UploadFields
  <2>3. UploadOK(u)'
    BY <2>1, <2>2 DEF UploadOK, WrittenOnce, Writers, HoldsBoth, Chunk, EMPTY_DEED_CID
  <2> QED BY <1>4, <2>1, <2>2, <2>3
<1>12. CASE CreateParcel(u)
  <2>1. /\ upload' = [upload EXCEPT ![u] = upload'[u]] /\ UploadOK(u)' /\ upload'[u] = Over
        /\ begun' = begun /\ r.pc = "create"
    BY <1>1, <1>12 DEF CreateParcel, UploadOver, UploadOK, Over
  <2> QED BY <1>4, <2>1
<1> QED BY <1>5, <1>6, <1>7, <1>8, <1>9, <1>10, <1>11, <1>12

LEMMA UploadStep ==
    ASSUME DeedInv, [DeedNext]_deedVars
    PROVE  UploadInv'
<1>1. DOMAIN upload = Uploads /\ \A w \in begun : WriterOK(w)
  BY DEF DeedInv, UploadInv
<1>2. CASE UNCHANGED <<upload, begun>>
  <2>1. \A v \in Uploads : UploadOK(v)'
    BY <1>2, OthersStay
  <2>2. \A w \in begun' : WriterOK(w)'
    BY <1>1, <1>2 DEF WriterOK
  <2> QED BY <1>1, <1>2, <2>1, <2>2 DEF UploadInv
<1>3. ASSUME NEW u \in Uploads,
             \/ \E p \in Parcels, a \in Applicants, d \in Deeds \cup {NoDeed} : RequestParcel(u, p, a, d)
             \/ \E d \in Deeds : UploadOnly(u, d)
             \/ Seal(u) \/ Pin(u) \/ Truncate(u) \/ WriteMeta(u) \/ CreateParcel(u)
             \/ \E i \in 1..2 : WriteChunk(u, i)
      PROVE  UploadInv'
  <2>1. /\ upload' = [upload EXCEPT ![u] = upload'[u]] /\ UploadOK(u)'
        /\ \A w \in begun' : w[2] = u => WriterOK(w)'
    BY <1>3, MoverStep
  <2>2. DOMAIN upload' = Uploads /\ \A v \in Uploads : v # u => upload'[v] = upload[v]
    BY <1>1, <2>1
  <2>3. ASSUME NEW v \in Uploads PROVE UploadOK(v)'
    BY <2>1, <2>2, OthersStay
  <2>4. begun' \subseteq begun \cup {<<upload[u].cid, u>>}
    <3>1. Truncate(u) => begun' \subseteq begun \cup {<<upload[u].cid, u>>}
      BY DEF Truncate
    <3>2. Seal(u) \/ Pin(u) \/ WriteMeta(u) \/ CreateParcel(u) => begun' = begun
      BY DEF Seal, Pin, WriteMeta, CreateParcel
    <3>3. \A i : WriteChunk(u, i) => begun' = begun
      BY DEF WriteChunk
    <3>4. \A p, a, d : RequestParcel(u, p, a, d) \/ UploadOnly(u, d) => begun' = begun
      BY DEF RequestParcel, UploadOnly
    <3> QED BY <1>3, <3>1, <3>2, <3>3, <3>4
  <2>5. ASSUME NEW w \in begun', w[2] # u PROVE WriterOK(w)'
    <3>1. w \in begun
      BY <2>4, <2>5
    <3> QED BY <1>1, <2>2, <2>5, <3>1 DEF WriterOK
  <2> QED BY <2>1, <2>2, <2>3, <2>5 DEF UploadInv
<1>4. ASSUME NEW c \in Config, CrashDeeds(c) PROVE UploadInv'
  <2>1. DOMAIN upload' = Uploads /\ \A v \in Uploads : upload'[v] = IF upload[v] = Unmade THEN Unmade ELSE Over
    BY <1>4 DEF CrashDeeds
  <2>2. \A v \in Uploads : UploadOK(v)'
    BY <2>1 DEF UploadOK
  <2>3. \A w \in begun' : WriterOK(w)'
    BY <1>1, <1>4, <2>1 DEF WriterOK, CrashDeeds, Unmade, Over
  <2> QED BY <2>1, <2>2, <2>3 DEF UploadInv
<1> QED BY <1>2, <1>3, <1>4 DEF DeedNext, deedVars, AskDeed, ReadChunk

-----------------------------------------------------------------------------
LEMMA ParcelsStay ==
    ASSUME DeedInv, [DeedNext]_deedVars, NEW p, ParcelOK(p)
    PROVE  ParcelOK(p)'
BY StoredStays, Grows DEF ParcelOK, EMPTY_DEED_CID

(* The deed behind a new land: its writer is over with this step, and was the last at it *)
LEMMA ParcelStep ==
    ASSUME DeedInv, [DeedNext]_deedVars
    PROVE  ParcelInv'
<1>1. PICK S : parcels \in Seq(S)
  BY DEF DeedInv, ParcelInv
<1>2. ASSUME NEW i \in 1..Len(parcels), NEW p, p = parcels[i] PROVE ParcelOK(p)'
  BY <1>2, ParcelsStay DEF DeedInv, ParcelInv
<1>3. CASE UNCHANGED parcels
  <2>1. ASSUME NEW i \in 1..Len(parcels') PROVE ParcelOK(parcels[i])'
    <3>1. PICK p : p = parcels[i] /\ p = parcels'[i]
      BY <1>3
    <3>2. ParcelOK(p)'
      BY <1>2, <1>3, <3>1
    <3> QED BY <3>1, <3>2
  <2> QED BY <1>1, <1>3, <2>1 DEF ParcelInv
<1>4. ASSUME NEW u \in Uploads, CreateParcel(u), parcels' # parcels PROVE ParcelInv'
  <2>1. upload[u].pc = "create"
    BY <1>4 DEF CreateParcel
  <2>2. PICK p, k : /\ p = [landId |-> upload[u].landId, owner |-> upload[u].owner, cid |-> upload[u].cid]
                    /\ k = upload[u].key
    OBVIOUS
  <2>3. parcels' = Append(parcels, p) /\ UNCHANGED <<disk, sidecars, begun>> /\ upload'[u] = Over
    BY <1>4, <2>1, <2>2, UnderWay DEF CreateParcel, UploadOver
  <2>4. p.landId # "elsewhere" /\ k \in DeedKeys \cup {NoDeed}
    BY <2>1, <2>2, UnderWay
  <2>5. \/ p.cid = EMPTY_DEED_CID
        \/ /\ p.cid # EMPTY_DEED_CID /\ <<p.cid, u>> \in begun /\ p.cid \in DOMAIN disk
           /\ p.cid \in sidecars
           /\ WrittenOnce(p.cid) => HoldsBoth(p.cid, Chunk(u, k))
    <3>1. UploadOK(u) /\ upload[u] # Unmade /\ upload[u] # Over
      BY <2>1, UnderWay DEF Unmade, Over
    <3> QED BY <2>1, <2>2, <3>1 DEF UploadOK
  <2>6. ASSUME p.cid = EMPTY_DEED_CID PROVE ParcelOK(p)'
    BY <2>6 DEF ParcelOK, EMPTY_DEED_CID
  <2>7. ASSUME p.cid # EMPTY_DEED_CID PROVE ParcelOK(p)'
    <3>1. Chunk(u, k) \in Seals /\ Chunk(u, k) # NoDeed
      BY <2>4, SealsAreChunks
    <3>2. WrittenOnce(p.cid)' => HoldsBoth(p.cid, Chunk(u, k))
      BY <2>5, <2>7, Grows
    <3>3. Stored(p.cid)'
      BY <2>3, <2>5, <2>7, <3>1, <3>2 DEF Stored, HoldsBoth, EMPTY_DEED_CID
    <3> QED BY <2>3, <2>4, <2>5, <2>7, <3>3 DEF ParcelOK, EMPTY_DEED_CID
  <2>8. ParcelOK(p)'
    BY <2>6, <2>7
  <2>9. /\ parcels' \in Seq(S \cup {p}) /\ Len(parcels) \in Nat /\ Len(parcels') = Len(parcels) + 1
        /\ \A i \in 1..Len(parcels') : parcels'[i] = IF i <= Len(parcels) THEN parcels[i] ELSE p
    <3>1. parcels \in Seq(S \cup {p})
      BY <1>1
    <3> QED BY <2>3, <3>1
  <2>10. ASSUME NEW i \in 1..Len(parcels') PROVE ParcelOK(parcels[i])'
    <3>1. PICK q : q = parcels'[i]
      OBVIOUS
    <3>2. i <= Len(parcels) => i \in 1..Len(parcels) /\ q = parcels[i]
      BY <2>9, <3>1
    <3>3. ~(i <= Len(parcels)) => q = p
      BY <2>9, <3>1
    <3>4. ParcelOK(q)'
      BY <1>2, <2>8, <3>2, <3>3
    <3> QED BY <3>1, <3>4
  <2> QED BY <2>9, <2>10 DEF ParcelInv
<1>5. ASSUME NEW u \in Uploads,
             \/ Seal(u) \/ Pin(u) \/ Truncate(u) \/ WriteMeta(u)
             \/ \E i \in 1..2 : WriteChunk(u, i)
      PROVE  UNCHANGED parcels
  BY <1>5 DEF Seal, Pin, Truncate, WriteMeta, WriteChunk
<1>6. ASSUME NEW u \in Uploads,
             \/ \E p \in Parcels, a \in Applicants, d \in Deeds \cup {NoDeed} : RequestParcel(u, p, a, d)
             \/ \E d \in Deeds : UploadOnly(u, d)
      PROVE  UNCHANGED parcels
  BY <1>6 DEF RequestParcel, UploadOnly
<1> QED BY <1>3, <1>4, <1>5, <1>6 DEF DeedNext, deedVars, CrashDeeds, AskDeed, ReadChunk

-----------------------------------------------------------------------------
(* A file that was written once and is whole is read whole, and opens under the key of *)
(* its upload or not at all                                                             *)
LEMMA WholeFileServed ==
    ASSUME NEW s \in Seals, s # NoDeed, NEW key
    PROVE  decryptDeed(<<s, s>>, key) \in {"clear", "error"}
BY DEF decryptDeed, Complete

LEMMA NeverSealed ==
    ASSUME NEW chunks, NEW key
    PROVE  decryptDeed(chunks, key) \in {"torn", "clear", "error"}
BY DEF decryptDeed

LEMMA AskStep ==
    ASSUME DeedInv, NEW who, NEW i \in 1..Len(parcels), AskDeed(who, i)
    PROVE  ReaderOK(reader')
<1> DEFINE cid == parcels[i].cid
<1>1. ParcelOK(parcels[i]) /\ cid # EMPTY_DEED_CID
  BY DEF DeedInv, ParcelInv, AskDeed
<1>2. CASE cid \in DOMAIN disk
  <2>1. reader' = [pc |-> "read", cid |-> cid, got |-> <<>>]
    BY <1>2 DEF AskDeed
  <2>2. Stored(cid)
    <3>1. CASE parcels[i].landId = "elsewhere"
      <4>1. <<cid, "elsewhere">> \in begun /\ "elsewhere" \notin Uploads
        BY <1>1, <3>1, DeedAssumption DEF ParcelOK
      <4>2. PICK u \in Uploads : <<cid, u>> \in begun
        BY <1>2 DEF DeedInv, FileInv
      <4>3. ~WrittenOnce(cid)
        BY <4>1, <4>2 DEF WrittenOnce, Writers
      <4> QED BY <1>1, <1>2, <4>1, <4>3 DEF Stored
    <3>2. CASE parcels[i].landId # "elsewhere"
      BY <1>1, <3>2 DEF ParcelOK
    <3> QED BY <3>1, <3>2
  <2> HIDE DEF cid
  <2> QED BY <2>1, <2>2 DEF ReaderOK
<1>3. CASE cid \notin DOMAIN disk
  <2> DEFINE data == decryptDeed(ipfs[cid], config.key)
  <2>1. reader' = [pc |-> "served", cid |-> cid,
                   result |-> IF cid[1] = "local" THEN "none" ELSE IF data = "error" THEN "none" ELSE data]
    BY <1>3 DEF AskDeed
  <2>2. cid \in DOMAIN ipfs
    BY <1>1, <1>3 DEF ParcelOK, Stored
  <2>3. PICK s \in Seals : ipfs[cid] = [j \in 1..2 |-> s]
    BY <2>2 DEF DeedInv, FileInv
  <2>4. ipfs[cid] = <<s, s>> /\ s # NoDeed
    BY <2>3, DeedAssumption DEF Seals
  <2>5. data \in {"clear", "error"}
    BY <2>4, WholeFileServed
  <2> HIDE DEF cid, data
  <2> QED BY <2>1, <2>5 DEF ReaderOK
<1> QED BY <1>2, <1>3

LEMMA ReadStep ==
    ASSUME DeedInv, ReadChunk
    PROVE  ReaderOK(reader')
<1> DEFINE c == reader.cid
           got == reader.got
           i == Len(got) + 1
           ended == i > 2 \/ \A j \in i..2 : disk[c][j] = NoDeed
<1>1. /\ reader = [pc |-> "read", cid |-> c, got |-> got] /\ Stored(c)
      /\ WrittenOnce(c) => \/ got = <<>> \/ got = <<disk[c][1]>> \/ got = <<disk[c][1], disk[c][1]>>
  BY DEF DeedInv, ReaderOK, ReadChunk
<1>2. reader' = IF ended THEN [pc |-> "served", cid |-> c, result |-> decryptDeed(got, config.key)]
                ELSE [reader EXCEPT !.got = Append(got, disk[c][i])]
  BY DEF ReadChunk
<1>3. WrittenOnce(c) => \E s \in Seals : s # NoDeed /\ disk[c][1] = s /\ disk[c][2] = s
  BY <1>1 DEF Stored, HoldsBoth
<1>4. CASE ended
  <2>1. decryptDeed(got, config.key) # "sealed"
    BY NeverSealed
  <2>2. ASSUME WrittenOnce(c) PROVE decryptDeed(got, config.key) \in {"clear", "error"}
    <3>1. PICK s \in Seals : s # NoDeed /\ disk[c][1] = s /\ disk[c][2] = s
      BY <1>3, <2>2
    <3>2. got # <<>>
      BY <1>4, <3>1
    <3>3. got # <<s>>
      <4>1. got = <<s>> => i = 2
        OBVIOUS
      <4> HIDE DEF i
      <4> QED BY <1>4, <3>1, <4>1
    <3>4. got = <<s, s>>
      BY <1>1, <2>2, <3>1, <3>2, <3>3
    <3> QED BY <3>1, <3>4, WholeFileServed
  <2>3. reader' = [pc |-> "served", cid |-> c, result |-> decryptDeed(got, config.key)]
    BY <1>2, <1>4
  <2> HIDE DEF c, got
  <2> QED BY <2>1, <2>2, <2>3 DEF ReaderOK
<1>5. CASE ~ended
  <2>1. reader' = [pc |-> "read", cid |-> c, got |-> Append(got, disk[c][i])]
    BY <1>1, <1>2, <1>5
  <2>2. WrittenOnce(c) => \/ Append(got, disk[c][i]) = <<disk[c][1]>>
                          \/ Append(got, disk[c][i]) = <<disk[c][1], disk[c][1]>>
    <3>1. CASE got = <<>>
      BY <3>1
    <3>2. CASE WrittenOnce(c) /\ got = <<disk[c][1]>>
      <4>1. PICK s \in Seals : disk[c][1] = s /\ disk[c][2] = s
        BY <1>3, <3>2
      <4>2. i = 2
        BY <3>2
      <4>3. Append(<<s>>, s) = <<s, s>>
        <5>1. <<s>> \in Seq({s}) /\ <<s, s>> \in Seq({s}) /\ Len(<<s>>) = 1 /\ Len(<<s, s>>) = 2
          OBVIOUS
        <5>2. Append(<<s>>, s) \in Seq({s}) /\ Len(Append(<<s>>, s)) = 2
          BY <5>1
        <5>3. \A j \in 1..2 : Append(<<s>>, s)[j] = <<s, s>>[j]
          BY <5>1
        <5> QED BY <5>1, <5>2, <5>3, SeqEqual
      <4> HIDE DEF i, got
      <4> QED BY <3>2, <4>1, <4>2, <4>3
    <3>3. CASE got = <<disk[c][1], disk[c][1]>>
      BY <1>5, <3>3
    <3> QED BY <1>1, <3>1, <3>2, <3>3
  <2> HIDE DEF c, got, i
  <2> QED BY <1>1, <2>1, <2>2 DEF ReaderOK
<1> QED BY <1>4, <1>5

(* While somebody else moves a reader's file is rewritten only by a second writer *)
LEMMA ReaderStays ==
    ASSUME DeedInv, [DeedNext]_deedVars, UNCHANGED reader
    PROVE  ReaderOK(reader)'
<1>1. PICK r : r = reader
  OBVIOUS
<1>2. ReaderOK(r) /\ reader' = r
  BY <1>1 DEF DeedInv
<1>3. r.pc = "read" => /\ Stored(r.cid)'
                       /\ WrittenOnce(r.cid)' => WrittenOnce(r.cid) /\ disk'[r.cid] = disk[r.cid]
  BY <1>2, StoredStays DEF ReaderOK
<1>4. WrittenOnce(r.cid)' => WrittenOnce(r.cid)
  BY Grows
<1>5. ReaderOK(r)'
  BY <1>2, <1>3, <1>4 DEF ReaderOK
<1> QED BY <1>2, <1>5

LEMMA ReaderStep ==
    ASSUME DeedInv, [DeedNext]_deedVars
    PROVE  ReaderOK(reader)'
<1>1. CASE UNCHANGED reader
  BY <1>1, ReaderStays
<1>2. ASSUME NEW c \in Config, CrashDeeds(c) PROVE ReaderOK(reader)'
  BY <1>2 DEF CrashDeeds, ReaderOK, NoReader
<1>3. ASSUME UNCHANGED <<disk, begun, upload>>, ReaderOK(reader') PROVE ReaderOK(reader)'
  BY <1>3 DEF ReaderOK, Stored, WrittenOnce, Writers, HoldsBoth, EMPTY_DEED_CID
<1>4. ASSUME NEW who \in Applicants \cup {Authority}, NEW i \in 1..Len(parcels), AskDeed(who, i)
      PROVE  ReaderOK(reader)'
  <2>1. UNCHANGED <<disk, begun, upload>>
    BY <1>4 DEF AskDeed
  <2> QED BY <1>3, <1>4, <2>1, AskStep
<1>5. CASE ReadChunk
  <2>1. UNCHANGED <<disk, begun, upload>>
    BY <1>5 DEF ReadChunk
  <2> QED BY <1>3, <1>5, <2>1, ReadStep
<1>6. ASSUME NEW u \in Uploads,
             \/ \E p \in Parcels, a \in Applicants, d \in Deeds \cup {NoDeed} : RequestParcel(u, p, a, d)
             \/ \E d \in Deeds : UploadOnly(u, d)
      PROVE  UNCHANGED reader
  BY <1>6 DEF RequestParcel, UploadOnly
<1>7. ASSUME NEW u \in Uploads,
             \/ Seal(u) \/ Pin(u) \/ Truncate(u) \/ WriteMeta(u) \/ CreateParcel(u)
             \/ \E i \in 1..2 : WriteChunk(u, i)
      PROVE  UNCHANGED reader
  BY <1>7 DEF Seal, Pin, Truncate, WriteMeta, WriteChunk, CreateParcel
<1> QED BY <1>1, <1>2, <1>4, <1>5, <1>6, <1>7 DEF DeedNext, deedVars

-----------------------------------------------------------------------------
LEMMA DeedStep ==
    ASSUME DeedInv, [DeedNext]_deedVars
    PROVE  DeedInv'
BY FileStep, UploadStep, ParcelStep, ReaderStep DEF DeedInv

(* A land's deed is stored whole before the land is there, and stays so whatever crashes *)
(* and is configured, until the same document is written again.                          *)
THEOREM DeedsAreBehindLands == DeedSpec => []DeedBehindLand
<1>1. DeedInv => DeedBehindLand
  <2> SUFFICES ASSUME DeedInv, NEW i \in 1..Len(parcels),
                      parcels[i].cid # EMPTY_DEED_CID, parcels[i].landId # "elsewhere"
               PROVE  LET cid == parcels[i].cid
                      IN /\ cid \in DOMAIN disk /\ cid \in sidecars
                         /\ \/ disk[cid][1] # NoDeed /\ disk[cid][2] = disk[cid][1]
                            \/ Cardinality(Writers(cid)) > 1
    BY DEF DeedBehindLand
  <2>1. Stored(parcels[i].cid) /\ parcels[i].cid \in sidecars /\ IsFiniteSet(begun)
    BY DEF DeedInv, ParcelInv, ParcelOK, FileInv
  <2>2. CASE WrittenOnce(parcels[i].cid)
    BY <2>1, <2>2 DEF Stored, HoldsBoth
  <2>3. CASE ~WrittenOnce(parcels[i].cid)
    BY <2>1, <2>3, TwoWriters DEF Stored
  <2> QED BY <2>2, <2>3
<1> QED BY <1>1, DeedsInitially, DeedStep, PTL DEF DeedSpec

(* No reader is sent a ciphertext, and none a torn document that was written once. *)
THEOREM ReadersAreServed == DeedSpec => []ServedIsRecorded
<1>1. DeedInv => ServedIsRecorded
  BY TwoWriters DEF DeedInv, FileInv, ReaderOK, ServedIsRecorded
<1> QED BY <1>1, DeedsInitially, DeedStep, PTL DEF DeedSpec

-----------------------------------------------------------------------------
(***************************************************************************)
(* Accounts.  The registry has one authority, for any numbers of servers,  *)
(* of starts and of registrations.                                         *)
(***************************************************************************)
(* The authority's account is known by its email and its wallet, which the unique *)
(* indexes reserve from then on. *)
Reserved ==
    \A a \in accounts : a.role = "AUTHORITY" =>
        a.email = authorityEmail /\ a.walletAddress = authorityWallet

(* A server listens, and a user's password is hashed, only when there is an authority *)
Seeded ==
    /\ \A s \in Servers : server[s] = "listening" => AuthorityExists
    /\ \A r \in Requests : register[r].pc = "hashing" =>
          AuthorityExists /\ register[r].user.role = "USER"

AccountsInv ==
    /\ server \in [Servers -> {"down", "connected", "hashing", "listening"}]
    /\ DOMAIN register = Requests
    /\ Reserved /\ Seeded /\ OneAuthority

-----------------------------------------------------------------------------
(* Accounts are never removed: an authority stays *)
LEMMA AuthorityStays ==
    ASSUME AuthorityExists, accounts \subseteq accounts'
    PROVE  AuthorityExists'
BY DEF AuthorityExists

(* A second authority is refused by the indexes *)
LEMMA CreateAuthority ==
    ASSUME NEW id, Reserved, OneAuthority,
           Create(User(id, authorityEmail, authorityWallet, "AUTHORITY"))
    PROVE  Reserved' /\ OneAuthority' /\ AuthorityExists' /\ accounts \subseteq accounts'
<1> DEFINE new == User(id, authorityEmail, authorityWallet, "AUTHORITY")
<1>1. new.email = authorityEmail /\ new.walletAddress = authorityWallet /\ new.role = "AUTHORITY"
  BY DEF User
<1>2. accounts' = accounts \cup {new} /\ ~Taken(new)
  BY DEF Create
<1>3. \A a \in accounts : a.email # authorityEmail /\ a.walletAddress # authorityWallet
  BY <1>1, <1>2 DEF Taken
<1>4. \A a \in accounts : a.role # "AUTHORITY"
  BY <1>3 DEF Reserved
<1>5. AuthorityExists'
  BY <1>1, <1>2 DEF AuthorityExists
<1> HIDE DEF new
<1>6. Reserved'
  BY <1>1, <1>2, <1>4 DEF Reserved
<1>7. OneAuthority'
  BY <1>1, <1>2, <1>3, <1>4, <1>5 DEF OneAuthority
<1> QED BY <1>2, <1>5, <1>6, <1>7

(* A user who is created while there is an authority has neither its email nor its wallet *)
LEMMA CreateNormalUser ==
    ASSUME NEW user, user.role = "USER", Reserved, OneAuthority, AuthorityExists, Create(user)
    PROVE  Reserved' /\ OneAuthority' /\ accounts \subseteq accounts'
<1>1. accounts' = accounts \cup {user} /\ ~Taken(user)
  BY DEF Create
<1>2. AuthorityExists'
  BY <1>1, AuthorityStays
<1>3. user.email # authorityEmail /\ user.walletAddress # authorityWallet
  BY <1>1 DEF Taken, AuthorityExists, Reserved
<1>4. Reserved'
  BY <1>1 DEF Reserved
<1>5. OneAuthority'
  BY <1>1, <1>2, <1>3 DEF OneAuthority
<1> QED BY <1>1, <1>4, <1>5

-----------------------------------------------------------------------------
LEMMA AccountsInitial == AccountsInit => AccountsInv
BY DEF AccountsInit, AccountsInv, Reserved, Seeded, OneAuthority, NotMade

LEMMA AccountsStep == AccountsInv /\ [AccountsNext]_accountVars => AccountsInv'
<1> SUFFICES ASSUME AccountsInv, [AccountsNext]_accountVars PROVE AccountsInv'
  OBVIOUS
<1> USE DEF AccountsInv
<1>1. CASE UNCHANGED accountVars
  BY <1>1 DEF accountVars, Reserved, Seeded, OneAuthority, AuthorityExists
<1>2. ASSUME NEW s \in Servers, Start(s) PROVE AccountsInv'
  BY <1>2 DEF Start, Reserved, Seeded, OneAuthority, AuthorityExists
<1>3. ASSUME NEW s \in Servers, LookForAuthority(s) PROVE AccountsInv'
  BY <1>3 DEF LookForAuthority, Reserved, Seeded, OneAuthority, AuthorityExists
<1>4. ASSUME NEW s \in Servers, SeedAuthority(s) PROVE AccountsInv'
  <2> DEFINE authority == User(<<s, starts[s]>>, authorityEmail, authorityWallet, "AUTHORITY")
  <2>1. CASE Create(authority) /\ server' = [server EXCEPT ![s] = "listening"]
    <3>1. Reserved' /\ OneAuthority' /\ AuthorityExists'
      BY <2>1, CreateAuthority
    <3>2. register' = register
      BY <1>4 DEF SeedAuthority
    <3>3. Seeded'
      BY <3>1, <3>2 DEF Seeded
    <3> QED BY <2>1, <3>1, <3>2, <3>3
  <2>2. CASE server' = [server EXCEPT ![s] = "down"] /\ UNCHANGED accounts
    BY <1>4, <2>2 DEF SeedAuthority, Reserved, Seeded, OneAuthority, AuthorityExists
  <2> QED BY <1>4, <2>1, <2>2 DEF SeedAuthority
<1>5. ASSUME NEW s \in Servers, Stop(s) PROVE AccountsInv'
  BY <1>5 DEF Stop, Reserved, Seeded, OneAuthority, AuthorityExists, Answered
<1>6. ASSUME NEW r \in Requests, NEW s \in Servers, NEW input \in Input, Register(r, s, input)
      PROVE  AccountsInv'
  BY <1>6 DEF Register, Reserved, Seeded, OneAuthority, AuthorityExists, Answered, User
<1>7. ASSUME NEW r \in Requests, CreateUser(r) PROVE AccountsInv'
  <2>1. register[r].user.role = "USER" /\ AuthorityExists
    BY <1>7 DEF CreateUser, Seeded
  <2>2. Reserved' /\ OneAuthority' /\ accounts \subseteq accounts'
    <3>1. CASE Create(register[r].user)
      BY <2>1, <3>1, CreateNormalUser
    <3>2. CASE UNCHANGED accounts
      BY <3>2 DEF Reserved, OneAuthority, AuthorityExists
    <3> QED BY <1>7, <3>1, <3>2 DEF CreateUser
  <2>3. AuthorityExists'
    BY <2>1, <2>2, AuthorityStays
  <2>4. Seeded'
    BY <1>7, <2>3 DEF CreateUser, Seeded, Answered
  <2> QED BY <1>7, <2>2, <2>4 DEF CreateUser
<1> QED BY <1>1, <1>2, <1>3, <1>4, <1>5, <1>6, <1>7 DEF AccountsNext

(* However many servers find no authority when they start, and whoever registers       *)
(* meanwhile, the registry has one authority, before any user and apart from all.      *)
THEOREM AuthorityIsUnique == AccountsSpec => []OneAuthority
<1>1. AccountsInv => OneAuthority
  BY DEF AccountsInv
<1> QED BY <1>1, AccountsInitial, AccountsStep, PTL DEF AccountsSpec
=============================================================================
