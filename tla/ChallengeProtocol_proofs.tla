------------------------ MODULE ChallengeProtocol_proofs ------------------------
(***************************************************************************)
(* What challenges and sales keep, for any numbers of users, of secrets,   *)
(* of requests at a time, of challenges, of proofs and of prices.          *)
(***************************************************************************)
EXTENDS ChallengeProtocol, SequenceTheorems, TLAPS

Challenge == [buyerId : User, sellerId : User, agreedPrice : Price,
              status : ChallengeStatus, proofId : DOMAIN proofs \cup {Nil}]
Proof == [nonce : DOMAIN challenges, root : Root, usedForTransferAt : BOOLEAN]

(* A listed land has a price; a land in the tree is at its owner's leaf of the latest root *)
LandInv ==
    /\ land.status = "LISTED_FOR_SALE" => land.salePrice \in Price
    /\ land.landCommitment \in Commits(land.ownerId)
    /\ Active => land.merkleRoot = latestRoot /\ latestRoot.leaf = land.landCommitment

(* A challenge's proof, which a later answer may replace, is always of its nonce, and *)
(* opens a root at a commitment of its seller. *)
ProofInv ==
    /\ \A c \in DOMAIN challenges : challenges[c].proofId # Nil =>
          /\ proofs[challenges[c].proofId].nonce = c
          /\ proofs[challenges[c].proofId].root.leaf \in Commits(challenges[c].sellerId)
    /\ \A c \in DOMAIN challenges : challenges[c].status = "VERIFIED" => challenges[c].proofId # Nil

(* What a handler has read, of documents that may have changed since *)
HandlerOK(s) ==
    /\ s.op = "create" => s.buyerId \in User /\ s.sellerId \in User /\ s.price \in Price
    /\ s.op \in {"respond", "verify", "decline"} => s.challenge \in DOMAIN challenges
    /\ s.op = "respond" =>
          /\ s.nonce \in DOMAIN challenges /\ s.root \in Root
          /\ s.root.leaf \in Commits(challenges[s.challenge].sellerId)
          /\ s.pc = "save" => s.nonce = s.challenge
    /\ s.op = "verify" =>
          /\ challenges[s.challenge].proofId # Nil
          /\ s.pc = "save" => s.verdict \in {"VERIFIED", "FAILED"}

HandlerInv == DOMAIN handler = Handler /\ \A h \in Handler : HandlerOK(handler[h])

(* A purchase keeps its land in the tree, and from its checks on its challenge and proof *)
(* are the present owner's. *)
SaleOK(s) ==
    /\ s.pc \in {"challenge", "transfer", "consume", "recommit"} => Active /\ s.buyerId \in User
    /\ s.pc \in {"transfer", "consume", "recommit"} =>
          /\ s.challenge \in DOMAIN challenges /\ s.proofId \in DOMAIN proofs
          /\ challenges[s.challenge].buyerId = s.buyerId
          /\ challenges[s.challenge].sellerId = land.ownerId
          /\ proofs[s.proofId].root.leaf = land.landCommitment
          /\ proofs[s.proofId].nonce = s.challenge

Inv == TypeOK /\ LandInv /\ ProofInv /\ HandlerInv /\ SaleOK(sale)

(* What no step takes back: a document stays, with its parties; a proof stays as it is *)
DocumentsStay ==
    /\ DOMAIN challenges \subseteq DOMAIN challenges'
    /\ \A c \in DOMAIN challenges :
          /\ challenges'[c].buyerId = challenges[c].buyerId
          /\ challenges'[c].sellerId = challenges[c].sellerId
          /\ challenges[c].proofId # Nil => challenges'[c].proofId # Nil
    /\ DOMAIN proofs \subseteq DOMAIN proofs'
    /\ \A p \in DOMAIN proofs :
          /\ proofs'[p].nonce = proofs[p].nonce
          /\ proofs'[p].root = proofs[p].root

-----------------------------------------------------------------------------
(* A sequence is a function on an initial segment of the positive numbers *)
LEMMA FunctionIsSeq ==
    ASSUME NEW n \in Nat, NEW S, NEW s \in [1..n -> S]
    PROVE  s \in Seq(S) /\ Len(s) = n
<1>1. s = [i \in 1..n |-> s[i]] /\ \A i \in 1..n : s[i] \in S
  OBVIOUS
<1>2. [i \in 1..n |-> s[i]] \in Seq(S)
  BY <1>1, IsASeq
<1>3. s \in Seq(S)
  BY <1>1, <1>2
<1>4. Len(s) \in Nat /\ DOMAIN s = 1..Len(s)
  BY <1>3, LenProperties
<1> QED BY <1>3, <1>4

(* The documents as functions *)
LEMMA DocumentTypes ==
    ASSUME TypeOK
    PROVE  /\ challenges \in Seq(Challenge) /\ challenges \in [1..Len(challenges) -> Challenge]
           /\ Len(challenges) \in Nat /\ DOMAIN challenges = 1..Len(challenges)
           /\ proofs \in Seq(Proof) /\ proofs \in [1..Len(proofs) -> Proof]
           /\ Len(proofs) \in Nat /\ DOMAIN proofs = 1..Len(proofs)
           /\ Nil \notin DOMAIN proofs
<1>1. challenges \in Seq(Challenge) /\ proofs \in Seq(Proof)
  BY DEF TypeOK, Challenge, Proof
<1>2. Len(proofs) \in Nat /\ DOMAIN proofs = 1..Len(proofs) /\ Nil \notin 1..Len(proofs)
  BY <1>1, LenProperties, ProtocolAssumption
<1> QED BY <1>1, <1>2, LenProperties

LEMMA HandlersKeep ==
    ASSUME HandlerInv, DocumentsStay, UNCHANGED handler \/ \E h \in Handler : End(h)
    PROVE  HandlerInv'
<1>1. CASE UNCHANGED handler
  BY <1>1 DEF HandlerInv, HandlerOK, DocumentsStay
<1>2. ASSUME NEW h \in Handler, End(h) PROVE HandlerInv'
  BY <1>2 DEF HandlerInv, HandlerOK, DocumentsStay, End, Goto, Free
<1> QED BY <1>1, <1>2

LEMMA SaleKeeps ==
    ASSUME SaleOK(sale), DocumentsStay, UNCHANGED <<land.ownerId, land.landCommitment, sale>>, Active => Active'
    PROVE  SaleOK(sale)'
BY DEF SaleOK, DocumentsStay

LEMMA NothingChanges == UNCHANGED <<challenges, proofs>> => DocumentsStay
BY DEF DocumentsStay

-----------------------------------------------------------------------------
LEMMA InvInitial == Init => Inv
<1> SUFFICES ASSUME Init PROVE Inv
  OBVIOUS
<1> USE ProtocolAssumption DEF Init
<1>1. PICK commitment \in Commits(FirstOwner) :
         /\ latestRoot = [leaf |-> commitment, others |-> FALSE]
         /\ land = [status |-> "REGISTERED", ownerId |-> FirstOwner, landCommitment |-> commitment,
                    salePrice |-> Nil, merkleRoot |-> latestRoot]
  OBVIOUS
<1>7. latestRoot \in Root /\ commitment \in User \X Secret
  BY <1>1 DEF Root, Commits
<1>2. \A S : << >> \in Seq(S)
  BY EmptySeq
<1>3. TypeOK
  BY <1>1, <1>7, <1>2 DEF TypeOK
<1>4. LandInv /\ ProofInv
  BY <1>1 DEF LandInv, ProofInv, Active
<1>5. HandlerInv
  BY DEF HandlerInv, HandlerOK, Free
<1>6. SaleOK(sale)
  BY DEF SaleOK, Idle
<1> QED BY <1>3, <1>4, <1>5, <1>6 DEF Inv

(* The steps of the land's side leave every document of the protocol alone *)
LEMMA LandStep ==
    ASSUME Inv, UNCHANGED <<challenges, proofs, verifiedOrder, handler, sale>>,
           \/ \E price \in Price : listLandForSale(price)
           \/ cancelLandSale \/ approveLand \/ OtherSection
    PROVE  Inv'
<1> USE DEF Inv
<1>1. TypeOK' /\ LandInv'
  <2>1. ASSUME NEW price \in Price, listLandForSale(price) PROVE TypeOK' /\ LandInv'
    BY <2>1 DEF listLandForSale, TypeOK, LandInv, Active
  <2>2. CASE cancelLandSale
    BY <2>2 DEF cancelLandSale, TypeOK, LandInv, Active
  <2>3. CASE approveLand
    <3>1. latestRoot' \in Root /\ latestRoot'.leaf = land.landCommitment
      BY <2>3 DEF approveLand, TypeOK, Root
    <3> QED BY <2>3, <3>1 DEF approveLand, TypeOK, LandInv, Active
  <2>4. CASE OtherSection
    <3>1. latestRoot' \in Root /\ latestRoot'.leaf = latestRoot.leaf
      BY <2>4 DEF OtherSection, TypeOK, Root
    <3> QED BY <2>4, <3>1 DEF OtherSection, TypeOK, LandInv, Active
  <2> QED BY <2>1, <2>2, <2>3, <2>4
<1>2. DocumentsStay
  BY NothingChanges
<1>3. HandlerInv'
  BY <1>2, HandlersKeep DEF HandlerInv
<1>4. SaleOK(sale)'
  <2>1. UNCHANGED <<land.ownerId, land.landCommitment>> /\ (Active => Active')
    BY DEF listLandForSale, cancelLandSale, approveLand, OtherSection, Active, TypeOK
  <2> QED BY <1>2, <2>1, SaleKeeps
<1>5. ProofInv'
  BY DEF ProofInv
<1> QED BY <1>1, <1>3, <1>4, <1>5

(* A request that goes on, or ends, without a write *)
LEMMA ReadingStep ==
    ASSUME Inv, Only, NEW h \in Handler, NEW s, HandlerOK(s), Goto(h, s)
    PROVE  Inv'
<1> USE DEF Inv, Only, docs
<1>1. \A k \in Handler : HandlerOK(handler'[k])
  BY DEF Goto, HandlerInv
<1>2. HandlerInv'
  BY <1>1 DEF Goto, HandlerInv, HandlerOK
<1>3. TypeOK' /\ LandInv' /\ ProofInv' /\ SaleOK(sale)'
  BY DEF TypeOK, LandInv, Active, ProofInv, SaleOK
<1> QED BY <1>2, <1>3

LEMMA FreeOK == HandlerOK(Free)
BY DEF HandlerOK, Free

LEMMA Reading ==
    ASSUME Inv, NEW h \in Handler,
           \/ \E b \in User : createChallenge_Land(h, b)
           \/ createChallenge_Existing(h)
           \/ \E c, nonce \in DOMAIN challenges : respondToChallenge_Land(h, c, nonce)
           \/ respondToChallenge_Read(h)
           \/ \E c \in DOMAIN challenges : verifyChallenge_Read(h, c) \/ declineChallenge_Read(h, c)
           \/ verifyChallenge_Judge(h) \/ Drop(h)
    PROVE  Inv'
<1> DEFINE ok(s) == HandlerOK(s) /\ Goto(h, s)
<1> SUFFICES ASSUME Only PROVE \E s : ok(s)
  BY ReadingStep DEF createChallenge_Land, createChallenge_Existing, respondToChallenge_Land,
     respondToChallenge_Read, verifyChallenge_Read, declineChallenge_Read, verifyChallenge_Judge, Drop
<1>0. HandlerOK(handler[h])
  BY DEF Inv, HandlerInv
<1>1. ASSUME NEW b \in User, createChallenge_Land(h, b) PROVE \E s : ok(s)
  <2> DEFINE s == [op |-> "create", pc |-> "existing", buyerId |-> b,
                   sellerId |-> land.ownerId, price |-> land.salePrice]
  <2>1. HandlerOK(s)
    BY <1>1 DEF createChallenge_Land, HandlerOK, Inv, LandInv, TypeOK
  <2>2. ok(s)
    BY <1>1, <2>1 DEF createChallenge_Land
  <2> QED BY <2>2
<1>2. CASE createChallenge_Existing(h)
  <2>1. HandlerOK([handler[h] EXCEPT !.pc = "save"])
    BY <1>0, <1>2 DEF createChallenge_Existing, At, HandlerOK
  <2> QED BY <1>2, <2>1, FreeOK DEF createChallenge_Existing, End
<1>3. ASSUME NEW c \in DOMAIN challenges, NEW nonce \in DOMAIN challenges,
             respondToChallenge_Land(h, c, nonce)
      PROVE  \E s : ok(s)
  <2> DEFINE s == [op |-> "respond", pc |-> "challenge", challenge |-> c,
                   nonce |-> nonce, root |-> land.merkleRoot]
  <2>1. land.merkleRoot \in Root /\ land.merkleRoot.leaf \in Commits(challenges[c].sellerId)
    BY <1>3 DEF respondToChallenge_Land, Inv, LandInv, TypeOK
  <2>2. HandlerOK(s)
    BY <1>3, <2>1 DEF respondToChallenge_Land, HandlerOK
  <2>3. ok(s)
    BY <1>3, <2>2 DEF respondToChallenge_Land
  <2> QED BY <2>3
<1>4. CASE respondToChallenge_Read(h)
  <2> DEFINE s == [op |-> "respond", pc |-> "save", challenge |-> handler[h].challenge,
                   nonce |-> handler[h].nonce, root |-> handler[h].root,
                   read |-> challenges[handler[h].challenge].status]
  <2>1. CASE Goto(h, s) /\ handler[h].nonce = handler[h].challenge
    <3>1. HandlerOK(s)
      BY <1>0, <1>4, <2>1 DEF respondToChallenge_Read, At, HandlerOK
    <3> QED BY <2>1, <3>1
  <2> QED BY <1>4, <2>1, FreeOK DEF respondToChallenge_Read, End
<1>5. ASSUME NEW c \in DOMAIN challenges, verifyChallenge_Read(h, c) PROVE \E s : ok(s)
  <2> DEFINE s == [op |-> "verify", pc |-> "judge", challenge |-> c,
                   proofId |-> challenges[c].proofId]
  <2>1. HandlerOK(s)
    BY <1>5 DEF verifyChallenge_Read, HandlerOK
  <2>2. ok(s)
    BY <1>5, <2>1 DEF verifyChallenge_Read
  <2> QED BY <2>2
<1>6. ASSUME NEW c \in DOMAIN challenges, declineChallenge_Read(h, c) PROVE \E s : ok(s)
  <2>1. ok([op |-> "decline", pc |-> "save", challenge |-> c])
    BY <1>6 DEF declineChallenge_Read, HandlerOK
  <2> QED BY <2>1
<1>7. CASE verifyChallenge_Judge(h)
  <2>1. PICK verdict \in {"VERIFIED", "FAILED"} :
            Goto(h, [op |-> "verify", pc |-> "save", challenge |-> handler[h].challenge,
                     verdict |-> verdict])
    BY <1>7 DEF verifyChallenge_Judge
  <2> DEFINE s == [op |-> "verify", pc |-> "save", challenge |-> handler[h].challenge,
                   verdict |-> verdict]
  <2>2. HandlerOK(s)
    BY <1>0, <1>7 DEF verifyChallenge_Judge, At, HandlerOK
  <2> QED BY <2>1, <2>2
<1>8. CASE Drop(h)
  BY <1>8, FreeOK DEF Drop, End
<1> QED BY <1>1, <1>2, <1>3, <1>4, <1>5, <1>6, <1>7, <1>8

-----------------------------------------------------------------------------
(* A request or a sale sets the status of some challenges *)
LEMMA StatusStep ==
    ASSUME Inv, UNCHANGED <<land, latestRoot, proofs>>,
           challenges' = [c \in DOMAIN challenges |-> challenges'[c]],
           \A c \in DOMAIN challenges : \E st \in ChallengeStatus :
               /\ challenges'[c] = [challenges[c] EXCEPT !.status = st]
               /\ st = "VERIFIED" => challenges[c].proofId # Nil,
           verifiedOrder' \subseteq (DOMAIN challenges) \X (DOMAIN challenges)
    PROVE  TypeOK' /\ LandInv' /\ ProofInv' /\ DocumentsStay
<1> USE DEF Inv
<1> DEFINE n == Len(challenges)
<1>1. /\ n \in Nat /\ DOMAIN challenges = 1..n /\ challenges \in [1..n -> Challenge]
      /\ proofs \in Seq(Proof)
  BY DocumentTypes
<1>2. \A c \in 1..n :
        /\ challenges'[c].buyerId = challenges[c].buyerId
        /\ challenges'[c].sellerId = challenges[c].sellerId
        /\ challenges'[c].proofId = challenges[c].proofId
        /\ challenges'[c].status = "VERIFIED" => challenges[c].proofId # Nil
        /\ challenges'[c] \in Challenge
  <2> TAKE c \in 1..n
  <2>1. PICK st \in ChallengeStatus : /\ challenges'[c] = [challenges[c] EXCEPT !.status = st]
                                      /\ st = "VERIFIED" => challenges[c].proofId # Nil
    BY <1>1
  <2>2. ASSUME NEW d \in Challenge, NEW e, e = [d EXCEPT !.status = st]
        PROVE  /\ e.buyerId = d.buyerId /\ e.sellerId = d.sellerId /\ e.proofId = d.proofId
               /\ e.status = st /\ e \in Challenge
    BY <2>2 DEF Challenge
  <2>3. challenges[c] \in Challenge
    BY <1>1
  <2> QED BY <2>1, <2>2, <2>3
<1>3. DOMAIN challenges' = DOMAIN challenges /\ challenges' \in [1..n -> Challenge]
  BY <1>1, <1>2
<1> HIDE DEF n
<1>4. challenges' \in Seq(Challenge)
  BY <1>1, <1>3, FunctionIsSeq
<1>5. TypeOK'
  BY <1>3, <1>4 DEF TypeOK, Challenge
<1>6. LandInv'
  BY DEF LandInv, Active
<1>7. ProofInv' /\ DocumentsStay
  BY <1>1, <1>2, <1>3 DEF ProofInv, DocumentsStay
<1> QED BY <1>5, <1>6, <1>7

LEMMA CreateSaves ==
    ASSUME Inv, NEW h \in Handler, createChallenge_Save(h)
    PROVE  Inv'
<1> USE DEF Inv
<1> DEFINE n == Len(challenges)
           new == [buyerId |-> handler[h].buyerId, sellerId |-> handler[h].sellerId,
                   agreedPrice |-> handler[h].price, status |-> "PENDING", proofId |-> Nil]
<1>1. HandlerOK(handler[h]) /\ handler[h].op = "create"
  BY DEF createChallenge_Save, At, HandlerInv
<1>2. new \in Challenge
  BY <1>1 DEF HandlerOK, Challenge, ChallengeStatus, Open
<1>3. n \in Nat /\ DOMAIN challenges = 1..n /\ challenges \in Seq(Challenge)
  BY DocumentTypes
<1>4. challenges' = Append(challenges, new) /\ End(h)
      /\ UNCHANGED <<land, latestRoot, proofs, verifiedOrder, sale>>
  BY DEF createChallenge_Save
<1> HIDE DEF new
<1>5. /\ challenges' \in Seq(Challenge) /\ Len(challenges') = n + 1
      /\ \A i \in 1..n : challenges'[i] = challenges[i]
      /\ challenges'[n + 1] = new
  BY <1>2, <1>3, <1>4, AppendProperties
<1>6. DOMAIN challenges' = 1..(n + 1)
  BY <1>5, LenProperties
<1> HIDE DEF n
<1>7. DocumentsStay
  BY <1>3, <1>4, <1>5, <1>6 DEF DocumentsStay
<1>8. TypeOK'
  <2>1. DOMAIN challenges \subseteq DOMAIN challenges'
    BY <1>7 DEF DocumentsStay
  <2>2. proofs \in Seq(Proof) /\ Proof \subseteq Proof'
    BY <1>4, <2>1, DocumentTypes DEF Proof
  <2>3. proofs \in Seq(Proof')
    BY <2>2, SeqMonotonic
  <2> QED BY <1>4, <1>5, <2>1, <2>3 DEF TypeOK, Challenge, Proof
<1>9. LandInv'
  BY <1>4 DEF LandInv, Active
<1>10. ProofInv'
  <2>1. new.proofId = Nil /\ new.status = "PENDING"
    BY DEF new
  <2>2. DOMAIN challenges' = DOMAIN challenges \cup {n + 1}
    BY <1>3, <1>6
  <2> QED BY <1>3, <1>4, <1>5, <2>1, <2>2 DEF ProofInv
<1>11. HandlerInv'
  BY <1>4, <1>7, HandlersKeep
<1>12. SaleOK(sale)'
  BY <1>4, <1>7, SaleKeeps DEF Active
<1> QED BY <1>8, <1>9, <1>10, <1>11, <1>12

LEMMA RespondSaves ==
    ASSUME Inv, NEW h \in Handler, respondToChallenge_Save(h)
    PROVE  Inv'
<1> USE DEF Inv
<1> DEFINE n == Len(challenges)
           m == Len(proofs)
           c == handler[h].challenge
           new == [nonce |-> handler[h].nonce, root |-> handler[h].root, usedForTransferAt |-> FALSE]
           st == IF handler[h].read = "PENDING" THEN "PROOF_SUBMITTED" ELSE challenges[c].status
           answered == [challenges[c] EXCEPT !.proofId = m + 1, !.status = st]
<1>1. HandlerOK(handler[h]) /\ handler[h].op = "respond" /\ handler[h].pc = "save"
  BY DEF respondToChallenge_Save, At, HandlerInv
<1>2. /\ n \in Nat /\ DOMAIN challenges = 1..n /\ challenges \in [1..n -> Challenge]
      /\ m \in Nat /\ DOMAIN proofs = 1..m /\ proofs \in Seq(Proof)
  BY DocumentTypes
<1>3. /\ c \in 1..n /\ handler[h].nonce = c
      /\ handler[h].root \in Root /\ handler[h].root.leaf \in Commits(challenges[c].sellerId)
  BY <1>1, <1>2 DEF HandlerOK
<1>4. new \in Proof /\ new.nonce = c /\ new.root.leaf \in Commits(challenges[c].sellerId)
  BY <1>2, <1>3 DEF Proof, Challenge
<1>5. /\ proofs' = Append(proofs, new) /\ challenges' = [challenges EXCEPT ![c] = answered]
      /\ End(h) /\ UNCHANGED <<land, latestRoot, verifiedOrder, sale>>
  BY <1>2, <1>3 DEF respondToChallenge_Save, Challenge
<1>6. st \in ChallengeStatus
  BY <1>2, <1>3 DEF Challenge, ChallengeStatus, Open
<1> HIDE DEF new, st
<1>7. /\ answered.buyerId = challenges[c].buyerId /\ answered.sellerId = challenges[c].sellerId
      /\ answered.proofId = m + 1 /\ answered.proofId # Nil
      /\ answered \in [buyerId : User, sellerId : User, agreedPrice : Price,
                       status : ChallengeStatus, proofId : 1..(m + 1) \cup {Nil}]
  <2>1. challenges[c] \in Challenge /\ m + 1 \in 1..(m + 1) /\ m + 1 # Nil
    BY <1>2, <1>3, ProtocolAssumption
  <2> HIDE DEF m, c
  <2> QED BY <1>6, <2>1 DEF Challenge
<1>8. /\ proofs' \in Seq(Proof) /\ Len(proofs') = m + 1
      /\ \A p \in 1..m : proofs'[p] = proofs[p]
      /\ proofs'[m + 1] = new
  BY <1>2, <1>4, <1>5, AppendProperties
<1>9. DOMAIN proofs' = 1..(m + 1)
  BY <1>8, LenProperties
<1> HIDE DEF answered
<1>10. /\ DOMAIN challenges' = 1..n /\ challenges'[c] = answered
       /\ \A d \in 1..n \ {c} : challenges'[d] = challenges[d]
  BY <1>2, <1>3, <1>5
<1>11. \A d \in 1..n : challenges'[d] \in Challenge'
  <2>1. answered \in Challenge'
    BY <1>7, <1>9 DEF Challenge
  <2>2. Challenge \subseteq Challenge'
    BY <1>2, <1>9 DEF Challenge
  <2> QED BY <1>2, <1>10, <2>1, <2>2
<1>12. challenges' \in Seq(Challenge')
  <2>1. challenges' \in [1..n -> Challenge']
    BY <1>2, <1>5, <1>10, <1>11
  <2> QED BY <1>2, <2>1, FunctionIsSeq
<1>13. TypeOK'
  <2>1. DOMAIN challenges' = DOMAIN challenges
    BY <1>2, <1>10
  <2> QED BY <1>5, <1>8, <1>12, <2>1 DEF TypeOK, Challenge, Proof
<1>14. LandInv'
  BY <1>5 DEF LandInv, Active
<1>15. DocumentsStay
  BY <1>2, <1>3, <1>7, <1>8, <1>9, <1>10 DEF DocumentsStay
<1>16. ProofInv'
  <2>2. ASSUME NEW d \in 1..n, challenges'[d].proofId # Nil
        PROVE  /\ proofs'[challenges'[d].proofId].nonce = d
               /\ proofs'[challenges'[d].proofId].root.leaf \in Commits(challenges'[d].sellerId)
    <3>1. CASE d = c
      BY <1>4, <1>7, <1>8, <1>10, <3>1
    <3>2. CASE d # c
      <4>1. challenges'[d] = challenges[d] /\ challenges[d].proofId \in 1..m
        BY <1>2, <1>10, <2>2, <3>2 DEF Challenge
      <4> QED BY <1>2, <1>8, <2>2, <4>1 DEF ProofInv
    <3> QED BY <3>1, <3>2
  <2>3. \A d \in 1..n : challenges'[d].status = "VERIFIED" => challenges'[d].proofId # Nil
    BY <1>2, <1>7, <1>10 DEF ProofInv
  <2> QED BY <1>10, <2>2, <2>3 DEF ProofInv
<1>17. HandlerInv'
  BY <1>5, <1>15, HandlersKeep
<1>18. SaleOK(sale)'
  BY <1>5, <1>15, SaleKeeps DEF Active
<1> QED BY <1>13, <1>14, <1>16, <1>17, <1>18

LEMMA VerifySaves ==
    ASSUME Inv, NEW h \in Handler, verifyChallenge_Save(h)
    PROVE  Inv'
<1> USE DEF Inv
<1> DEFINE c == handler[h].challenge
<1>1. HandlerOK(handler[h]) /\ handler[h].op = "verify" /\ handler[h].pc = "save"
  BY DEF verifyChallenge_Save, At, HandlerInv
<1>2. /\ c \in DOMAIN challenges /\ challenges[c].proofId # Nil
      /\ handler[h].verdict \in ChallengeStatus
  BY <1>1 DEF HandlerOK, ChallengeStatus
<1>3. \A d \in DOMAIN challenges : challenges[d] \in Challenge
  BY DocumentTypes
<1>4. /\ challenges' = [challenges EXCEPT ![c].status = handler[h].verdict]
      /\ End(h) /\ UNCHANGED <<land, latestRoot, proofs, sale>>
  BY DEF verifyChallenge_Save
<1>5. \A d \in DOMAIN challenges : \E st \in ChallengeStatus :
        /\ challenges'[d] = [challenges[d] EXCEPT !.status = st]
        /\ st = "VERIFIED" => challenges[d].proofId # Nil
  <2> TAKE d \in DOMAIN challenges
  <2>1. CASE d = c
    BY <1>2, <1>4, <2>1
  <2>2. CASE d # c
    <3>1. challenges'[d] = challenges[d] /\ challenges[d].status \in ChallengeStatus
      BY <1>2, <1>3, <1>4, <2>2 DEF Challenge
    <3>2. challenges[d] = [challenges[d] EXCEPT !.status = challenges[d].status]
      BY <1>3 DEF Challenge
    <3> QED BY <3>1, <3>2 DEF ProofInv
  <2> QED BY <2>1, <2>2
<1>6. verifiedOrder' \subseteq (DOMAIN challenges) \X (DOMAIN challenges)
  BY <1>2 DEF verifyChallenge_Save, TypeOK, Verified
<1>7. challenges' = [d \in DOMAIN challenges |-> challenges'[d]]
  BY <1>2, <1>4, DocumentTypes
<1>8. TypeOK' /\ LandInv' /\ ProofInv' /\ DocumentsStay
  BY <1>4, <1>5, <1>6, <1>7, StatusStep
<1>9. HandlerInv' /\ SaleOK(sale)'
  BY <1>4, <1>8, HandlersKeep, SaleKeeps DEF Active
<1> QED BY <1>8, <1>9

LEMMA DeclineSaves ==
    ASSUME Inv, NEW h \in Handler, declineChallenge_Save(h)
    PROVE  Inv'
<1> USE DEF Inv
<1> DEFINE c == handler[h].challenge
<1>1. HandlerOK(handler[h]) /\ handler[h].op = "decline"
  BY DEF declineChallenge_Save, At, HandlerInv
<1>2. c \in DOMAIN challenges
  BY <1>1 DEF HandlerOK
<1>3. \A d \in DOMAIN challenges : challenges[d] \in Challenge
  BY DocumentTypes
<1>4. /\ challenges' = [challenges EXCEPT ![c].status = "DECLINED"]
      /\ End(h) /\ UNCHANGED <<land, latestRoot, proofs, verifiedOrder, sale>>
  BY DEF declineChallenge_Save
<1>5. \A d \in DOMAIN challenges : \E st \in ChallengeStatus :
        /\ challenges'[d] = [challenges[d] EXCEPT !.status = st]
        /\ st = "VERIFIED" => challenges[d].proofId # Nil
  <2> TAKE d \in DOMAIN challenges
  <2>1. CASE d = c
    BY <1>2, <1>4, <2>1 DEF ChallengeStatus
  <2>2. CASE d # c
    <3>1. challenges'[d] = challenges[d] /\ challenges[d].status \in ChallengeStatus
      BY <1>2, <1>3, <1>4, <2>2 DEF Challenge
    <3>2. challenges[d] = [challenges[d] EXCEPT !.status = challenges[d].status]
      BY <1>3 DEF Challenge
    <3> QED BY <3>1, <3>2 DEF ProofInv
  <2> QED BY <2>1, <2>2
<1>6. challenges' = [d \in DOMAIN challenges |-> challenges'[d]]
  BY <1>2, <1>4, DocumentTypes
<1>7. TypeOK' /\ LandInv' /\ ProofInv' /\ DocumentsStay
  BY <1>4, <1>5, <1>6, StatusStep DEF TypeOK
<1>8. HandlerInv' /\ SaleOK(sale)'
  BY <1>4, <1>7, HandlersKeep, SaleKeeps DEF Active
<1> QED BY <1>7, <1>8

-----------------------------------------------------------------------------
(* Steps of the sale up to the transfer write nothing *)
LEMMA SaleReads ==
    ASSUME Inv, UNCHANGED <<docs, handler>>, SaleOK(sale)'
    PROVE  Inv'
<1> USE DEF Inv, docs
<1>1. TypeOK' /\ LandInv' /\ ProofInv'
  BY DEF TypeOK, LandInv, Active, ProofInv
<1>2. HandlerInv'
  BY HandlersKeep, NothingChanges
<1> QED BY <1>1, <1>2

LEMMA BeginSale ==
    ASSUME Inv, (\E b \in User : buyListedLand(b)) \/ Abandon
    PROVE  Inv'
<1>1. UNCHANGED <<docs, handler>>
  BY DEF buyListedLand, OnlySale, Abandon
<1>2. SaleOK(sale)'
  <2>1. ASSUME NEW b \in User, buyListedLand(b) PROVE SaleOK(sale)'
    BY <1>1, <2>1 DEF buyListedLand, SaleOK, Active, docs
  <2>2. CASE Abandon
    BY <2>2 DEF Abandon, SaleOK, Idle
  <2> QED BY <2>1, <2>2
<1> QED BY <1>1, <1>2, SaleReads

(* The root that the proof is compared with has the owner's commitment at its leaf, since *)
(* the land is in the tree, and the proof opens one of the challenge's seller there: the  *)
(* two are one user. *)
LEMMA CheckSale ==
    ASSUME Inv, buyListedLand_Check
    PROVE  Inv'
<1> USE DEF Inv
<1>1. UNCHANGED <<docs, handler>>
  BY DEF buyListedLand_Check, OnlySale
<1>2. SaleOK(sale)'
  <2>1. CASE sale' = Idle
    BY <2>1 DEF SaleOK, Idle
  <2>2. ASSUME NEW c \in LastVerifiedBy(sale.buyerId), BuyTimeChecks(c),
               sale' = [pc |-> "transfer", buyerId |-> sale.buyerId, challenge |-> c,
                        proofId |-> challenges[c].proofId]
        PROVE  SaleOK(sale)'
    <3> DEFINE p == challenges[c].proofId
    <3>1. Active /\ sale.buyerId \in User
      BY DEF buyListedLand_Check, SaleAt, SaleOK
    <3>2. /\ c \in DOMAIN challenges /\ challenges[c].status = "VERIFIED"
          /\ challenges[c].buyerId = sale.buyerId
      BY <2>2 DEF LastVerifiedBy, Verified
    <3>3. /\ p \in DOMAIN proofs /\ proofs[p].nonce = c
          /\ proofs[p].root.leaf \in Commits(challenges[c].sellerId)
      <4>1. challenges[c] \in Challenge /\ p # Nil
        BY <3>2, DocumentTypes DEF ProofInv
      <4> QED BY <3>2, <4>1 DEF Challenge, ProofInv
    <3>4. proofs[p].root.leaf = land.landCommitment /\ land.landCommitment \in Commits(land.ownerId)
      <4>1. proofs[p].root = latestRoot
        BY <2>2 DEF BuyTimeChecks
      <4> QED BY <3>1, <4>1 DEF LandInv
    <3>5. challenges[c].sellerId = land.ownerId
      BY <3>3, <3>4 DEF Commits
    <3> QED BY <1>1, <2>2, <3>1, <3>2, <3>3, <3>4, <3>5 DEF SaleOK, Active, docs
  <2> QED BY <2>1, <2>2 DEF buyListedLand_Check
<1> QED BY <1>1, <1>2, SaleReads

LEMMA TransferSale ==
    ASSUME Inv, buyListedLand_Transfer
    PROVE  Inv'
<1> USE DEF Inv
<1>1. UNCHANGED <<docs, handler>>
  BY DEF buyListedLand_Transfer, OnlySale
<1>2. SaleOK(sale)'
  <2>1. CASE sale' = Idle
    BY <2>1 DEF SaleOK, Idle
  <2>2. CASE sale' = [sale EXCEPT !.pc = "consume"]
    <3>1. sale.pc = "transfer" /\ UNCHANGED <<land, challenges, proofs>>
      BY <1>1 DEF buyListedLand_Transfer, SaleAt, docs
    <3> QED BY <2>2, <3>1 DEF SaleOK, Active
  <2> QED BY <2>1, <2>2 DEF buyListedLand_Transfer
<1> QED BY <1>1, <1>2, SaleReads

LEMMA ConsumeSale ==
    ASSUME Inv, buyListedLand_Consume
    PROVE  Inv'
<1> USE DEF Inv
<1> DEFINE m == Len(proofs)
           p == sale.proofId
<1>1. /\ proofs' = [proofs EXCEPT ![p].usedForTransferAt = TRUE]
      /\ UNCHANGED <<land, latestRoot, challenges, verifiedOrder, handler>>
  BY DEF buyListedLand_Consume
<1>2. m \in Nat /\ DOMAIN proofs = 1..m /\ proofs \in [1..m -> Proof] /\ p \in 1..m
  BY DocumentTypes DEF buyListedLand_Consume, SaleAt, SaleOK
<1>3. \A i \in 1..m :
        /\ proofs'[i] \in Proof
        /\ proofs'[i].nonce = proofs[i].nonce /\ proofs'[i].root = proofs[i].root
  BY <1>1, <1>2 DEF Proof
<1>4. DOMAIN proofs' = 1..m /\ proofs' \in [1..m -> Proof]
  BY <1>1, <1>2, <1>3
<1> HIDE DEF m, p
<1>5. proofs' \in Seq(Proof)
  BY <1>2, <1>4, FunctionIsSeq
<1>6. TypeOK'
  BY <1>1, <1>2, <1>4, <1>5 DEF TypeOK, Proof
<1>7. DocumentsStay
  BY <1>1, <1>2, <1>3, <1>4 DEF DocumentsStay
<1>8. ProofInv'
  <2>1. \A c \in DOMAIN challenges : challenges[c].proofId # Nil => challenges[c].proofId \in 1..m
    BY <1>2, DocumentTypes DEF Challenge
  <2> QED BY <1>1, <1>2, <1>3, <1>4, <2>1 DEF ProofInv
<1>9. LandInv'
  BY <1>1 DEF LandInv, Active
<1>10. HandlerInv'
  BY <1>1, <1>7, HandlersKeep
<1>11. SaleOK(sale)'
  <2>1. sale' = [sale EXCEPT !.pc = "recommit"] /\ sale.pc = "consume"
    BY DEF buyListedLand_Consume, SaleAt
  <2> QED BY <1>1, <1>7, <2>1 DEF SaleOK, Active, DocumentsStay
<1> QED BY <1>6, <1>8, <1>9, <1>10, <1>11

LEMMA RecommitSale ==
    ASSUME Inv, buyListedLand_Recommit
    PROVE  Inv'
<1> USE DEF Inv
<1>1. UNCHANGED <<challenges, proofs, verifiedOrder, handler>>
  BY DEF buyListedLand_Recommit
<1>2. sale.buyerId \in User
  BY DEF buyListedLand_Recommit, SaleAt, SaleOK
<1>3. latestRoot' \in Root
  BY DEF buyListedLand_Recommit, TypeOK, Root
<1>4. TypeOK' /\ LandInv'
  <2>1. PICK commitment \in Commits(sale.buyerId) :
           land' = [status |-> "PENDING_APPROVAL", ownerId |-> sale.buyerId,
                    landCommitment |-> commitment, salePrice |-> Nil, merkleRoot |-> Nil]
    BY DEF buyListedLand_Recommit
  <2>2. commitment \in User \X Secret
    BY <1>2 DEF Commits
  <2>3. LandInv'
    BY <2>1 DEF LandInv, Active
  <2>4. TypeOK'
    BY <1>1, <1>2, <1>3, <2>1, <2>2 DEF TypeOK
  <2> QED BY <2>3, <2>4
<1>5. ProofInv'
  BY <1>1 DEF ProofInv
<1>6. HandlerInv'
  BY <1>1, HandlersKeep, NothingChanges
<1>7. SaleOK(sale)'
  <2>1. sale' = [sale EXCEPT !.pc = "close"] /\ sale.pc = "recommit"
    BY DEF buyListedLand_Recommit, SaleAt
  <2> QED BY <2>1 DEF SaleOK
<1> QED BY <1>4, <1>5, <1>6, <1>7

LEMMA CloseSale ==
    ASSUME Inv, buyListedLand_Close
    PROVE  Inv'
<1> USE DEF Inv
<1>1. \A c \in DOMAIN challenges : challenges[c] \in Challenge
  BY DocumentTypes
<1>2. \A c \in DOMAIN challenges : \E st \in ChallengeStatus :
        /\ challenges'[c] = [challenges[c] EXCEPT !.status = st]
        /\ st = "VERIFIED" => challenges[c].proofId # Nil
  <2> TAKE c \in DOMAIN challenges
  <2>1. CASE Moot(c)
    <3>1. challenges'[c] = [challenges[c] EXCEPT !.status = "FAILED"]
      BY <2>1 DEF buyListedLand_Close
    <3>2. "FAILED" \in ChallengeStatus /\ "FAILED" # "VERIFIED"
      BY DEF ChallengeStatus
    <3> QED BY <3>1, <3>2
  <2>2. CASE ~Moot(c)
    <3>1. challenges'[c] = challenges[c] /\ challenges[c].status \in ChallengeStatus
      BY <1>1, <2>2 DEF buyListedLand_Close, Challenge
    <3>2. challenges[c] = [challenges[c] EXCEPT !.status = challenges[c].status]
      BY <1>1 DEF Challenge
    <3> QED BY <3>1, <3>2 DEF ProofInv
  <2> QED BY <2>1, <2>2
<1>3. challenges' = [c \in DOMAIN challenges |-> challenges'[c]]
  BY DEF buyListedLand_Close
<1>4. TypeOK' /\ LandInv' /\ ProofInv' /\ DocumentsStay
  BY <1>2, <1>3, StatusStep DEF buyListedLand_Close, TypeOK
<1>5. HandlerInv'
  BY <1>4, HandlersKeep DEF buyListedLand_Close
<1>6. SaleOK(sale)'
  BY DEF buyListedLand_Close, SaleOK, Idle
<1> QED BY <1>4, <1>5, <1>6

-----------------------------------------------------------------------------
LEMMA InvStep == Inv /\ [Next]_vars => Inv'
<1> SUFFICES ASSUME Inv, [Next]_vars PROVE Inv'
  OBVIOUS
<1>1. CASE UNCHANGED vars
  <2>1. UNCHANGED <<docs, handler, sale>>
    BY <1>1 DEF vars
  <2>2. SaleOK(sale)'
    BY <2>1 DEF Inv, SaleOK, Active, docs
  <2> QED BY <2>1, <2>2, SaleReads
<1>2. CASE (\E price \in Price : listLandForSale(price)) \/ cancelLandSale \/ approveLand
           \/ OtherSection
  BY <1>2, LandStep DEF listLandForSale, cancelLandSale, approveLand, OtherSection
<1>3. ASSUME NEW h \in Handler,
             \/ \E b \in User : createChallenge_Land(h, b)
             \/ \E c, nonce \in DOMAIN challenges : respondToChallenge_Land(h, c, nonce)
             \/ \E c \in DOMAIN challenges : verifyChallenge_Read(h, c) \/ declineChallenge_Read(h, c)
             \/ createChallenge_Existing(h) \/ respondToChallenge_Read(h)
             \/ verifyChallenge_Judge(h) \/ Drop(h)
      PROVE  Inv'
  BY <1>3, Reading
<1>4. ASSUME NEW h \in Handler,
             \/ createChallenge_Save(h) \/ respondToChallenge_Save(h)
             \/ verifyChallenge_Save(h) \/ declineChallenge_Save(h)
      PROVE  Inv'
  BY <1>4, CreateSaves, RespondSaves, VerifySaves, DeclineSaves
<1>5. CASE \/ \E b \in User : buyListedLand(b)
           \/ buyListedLand_Check \/ buyListedLand_Transfer \/ buyListedLand_Consume
           \/ buyListedLand_Recommit \/ buyListedLand_Close \/ Abandon
  BY <1>5, BeginSale, CheckSale, TransferSale, ConsumeSale, RecommitSale, CloseSale
<1> QED BY <1>1, <1>2, <1>3, <1>4, <1>5 DEF Next

LEMMA Invariant == Spec => []Inv
BY InvInitial, InvStep, PTL DEF Spec

(* Documents keep their types, and a challenge's proof exists *)
THEOREM TypeCorrect == Spec => []TypeOK
BY Invariant, PTL DEF Inv

(* Whoever is about to be paid is the present owner, and answered this buyer's challenge *)
(* with the secret of the present commitment, through any history of sales, answers and  *)
(* crashes, and with any secrets that owners commit with, new ones or earlier ones.      *)
THEOREM OwnersSell == Spec => []SoldByItsOwner
<1>1. Inv => SoldByItsOwner
  BY DEF Inv, SaleOK, SoldByItsOwner
<1> QED BY <1>1, Invariant, PTL

(* A verified challenge is backed by a proof of its nonce and its seller *)
THEOREM VerifiedHasProof == Spec => []VerifiedIsBacked
<1>1. Inv => VerifiedIsBacked
  BY DEF Inv, ProofInv, VerifiedIsBacked
<1> QED BY <1>1, Invariant, PTL
=============================================================================
