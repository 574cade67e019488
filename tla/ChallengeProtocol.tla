------------------------- MODULE ChallengeProtocol --------------------------
(***************************************************************************)
(* How a buyer comes to trust a seller: challenge.service.ts and           *)
(* submitProof of proof.service.ts beside the sale of transfer.service.ts. *)
(* The challenge handlers take no lock: each reads documents, awaits, and  *)
(* saves the fields it changed, in `handler`.  The purchase, in `sale`,    *)
(* holds the registry lock, which only serializes it with approvals.       *)
(*                                                                         *)
(* One land.  A commitment is of the user who made it and one of their     *)
(* secrets, a challenge's index stands for its nonce.  The land's own      *)
(* handlers, the registry sections and what the contract accepts are       *)
(* LandWorkflow's; here they are single steps.  Each handler may end at    *)
(* any await, as when a call to the database fails or the server is        *)
(* restarted.                                                              *)
(***************************************************************************)
EXTENDS Integers, Sequences, SequencesExt

CONSTANTS
    Nil,
    User, FirstOwner,
    Secret,                   \* a buyer may commit with any of their own, used before or not
    Price,
    Handler,                  \* challenge requests in progress at a time
    MaxChallenges, MaxProofs  \* documents ever created; a request is made only below them

ASSUME ProtocolAssumption ==
    FirstOwner \in User /\ MaxChallenges \in Nat /\ MaxProofs \in Nat /\ Nil \notin Nat

(* The commitments of a user to the land *)
Commits(u) == {u} \X Secret

(* A root shows the commitment at the land's leaf and one bit of the others *)
Root == [leaf : (User \X Secret) \cup {Nil}, others : BOOLEAN]

Open == {"PENDING", "PROOF_SUBMITTED"}
ChallengeStatus == Open \cup {"VERIFIED", "FAILED", "DECLINED"}

VARIABLES
    land, latestRoot,   \* the Land document, the latest MerkleRoot document
    challenges, proofs, \* documents in the order of creation
    verifiedOrder,      \* pairs of challenges judged VERIFIED, the earlier verifiedAt first
    handler, sale

docs == <<land, latestRoot, challenges, proofs, verifiedOrder>>
vars == <<docs, handler, sale>>

Free == [op |-> "none"]
Idle == [pc |-> "idle"]

Init ==
    /\ \E commitment \in Commits(FirstOwner) :
          /\ latestRoot = [leaf |-> commitment, others |-> FALSE]
          /\ land = [status |-> "REGISTERED", ownerId |-> FirstOwner, landCommitment |-> commitment,
                     salePrice |-> Nil, merkleRoot |-> latestRoot]
    /\ challenges = <<>> /\ proofs = <<>> /\ verifiedOrder = {}
    /\ handler = [h \in Handler |-> Free] /\ sale = Idle

-----------------------------------------------------------------------------
(* The land's side *)
Active == land.status \in {"REGISTERED", "LISTED_FOR_SALE"}

listLandForSale(price) ==
    /\ land.status = "REGISTERED"
    /\ land' = [land EXCEPT !.status = "LISTED_FOR_SALE", !.salePrice = price]
    /\ UNCHANGED <<latestRoot, challenges, proofs, verifiedOrder, handler, sale>>

cancelLandSale ==
    /\ land.status = "LISTED_FOR_SALE"
    /\ land' = [land EXCEPT !.status = "REGISTERED", !.salePrice = Nil]
    /\ UNCHANGED <<latestRoot, challenges, proofs, verifiedOrder, handler, sale>>

approveLand ==
    /\ sale = Idle /\ land.status = "PENDING_APPROVAL"
    /\ latestRoot' = [latestRoot EXCEPT !.leaf = land.landCommitment]
    /\ land' = [land EXCEPT !.status = "REGISTERED", !.merkleRoot = latestRoot']
    /\ UNCHANGED <<challenges, proofs, verifiedOrder, handler, sale>>

(* Another land is approved or sold. *)
OtherSection ==
    /\ sale = Idle
    /\ latestRoot' = [latestRoot EXCEPT !.others = ~@]
    /\ land' = IF Active THEN [land EXCEPT !.merkleRoot = latestRoot'] ELSE land
    /\ UNCHANGED <<challenges, proofs, verifiedOrder, handler, sale>>

-----------------------------------------------------------------------------
(* The challenge handlers *)
Goto(h, s) == handler' = [handler EXCEPT ![h] = s]
End(h) == Goto(h, Free)
At(h, op, pc) == handler[h] # Free /\ handler[h].op = op /\ handler[h].pc = pc
Only == UNCHANGED <<docs, sale>>   \* nothing but handler changes

(* Mutant: the land need not be listed *)
createChallenge_Land_Unlisted(h, b) ==
    /\ Len(challenges) < MaxChallenges
    /\ handler[h] = Free /\ land.ownerId # b
    /\ Goto(h, [op |-> "create", pc |-> "existing", buyerId |-> b,
                sellerId |-> land.ownerId, price |-> land.salePrice])
    /\ Only

createChallenge_Land(h, b) ==
    /\ Len(challenges) < MaxChallenges
    /\ handler[h] = Free /\ land.status = "LISTED_FOR_SALE" /\ land.ownerId # b
    /\ Goto(h, [op |-> "create", pc |-> "existing", buyerId |-> b,
                sellerId |-> land.ownerId, price |-> land.salePrice])
    /\ Only

createChallenge_Existing(h) ==
    /\ At(h, "create", "existing")
    /\ IF \E c \in DOMAIN challenges :
             challenges[c].buyerId = handler[h].buyerId /\ challenges[c].status \in Open
       THEN End(h) ELSE Goto(h, [handler[h] EXCEPT !.pc = "save"])
    /\ Only

createChallenge_Save(h) ==
    /\ At(h, "create", "save") /\ Len(challenges) < MaxChallenges
    /\ challenges' = Append(challenges,
          [buyerId |-> handler[h].buyerId, sellerId |-> handler[h].sellerId,
           agreedPrice |-> handler[h].price, status |-> "PENDING", proofId |-> Nil])
    /\ End(h)
    /\ UNCHANGED <<land, latestRoot, proofs, verifiedOrder, sale>>

(* respondToChallenge up to submitProof's read of the land: the seller, still the *)
(* owner, answers with a proof made at the land's root for some challenge's nonce. *)
respondToChallenge_Land(h, c, nonce) ==
    /\ Len(proofs) < MaxProofs
    /\ handler[h] = Free /\ challenges[c].status \in Open
    /\ Active /\ land.ownerId = challenges[c].sellerId /\ land.merkleRoot.leaf = land.landCommitment
    /\ Goto(h, [op |-> "respond", pc |-> "challenge", challenge |-> c,
                nonce |-> nonce, root |-> land.merkleRoot])
    /\ Only

(* Mutant: the nonce is left to the buyer's verification *)
respondToChallenge_Read_AnyNonce(h) ==
    /\ At(h, "respond", "challenge")
    /\ LET status == challenges[handler[h].challenge].status
       IN IF status \in Open
          THEN Goto(h, [op |-> "respond", pc |-> "save", challenge |-> handler[h].challenge,
                        nonce |-> handler[h].nonce, root |-> handler[h].root, read |-> status])
          ELSE End(h)
    /\ Only

(* submitProof reads the challenge, which it saves after verifying the proof. *)
respondToChallenge_Read(h) ==
    /\ At(h, "respond", "challenge")
    /\ LET status == challenges[handler[h].challenge].status
       IN IF status \in Open /\ handler[h].nonce = handler[h].challenge
          THEN Goto(h, [op |-> "respond", pc |-> "save", challenge |-> handler[h].challenge,
                        nonce |-> handler[h].nonce, root |-> handler[h].root, read |-> status])
          ELSE End(h)
    /\ Only

(* Mongoose writes status only if it differs from the one read. *)
respondToChallenge_Save(h) ==
    /\ At(h, "respond", "save") /\ Len(proofs) < MaxProofs
    /\ LET c == handler[h].challenge
       IN /\ proofs' = Append(proofs, [nonce |-> handler[h].nonce, root |-> handler[h].root, usedForTransferAt |-> FALSE])
          /\ challenges' = [challenges EXCEPT
                ![c].proofId = Len(proofs) + 1,
                ![c].status = IF handler[h].read = "PENDING" THEN "PROOF_SUBMITTED" ELSE @]
    /\ End(h)
    /\ UNCHANGED <<land, latestRoot, verifiedOrder, sale>>

verifyChallenge_Read(h, c) ==
    /\ handler[h] = Free
    /\ challenges[c].status = "PROOF_SUBMITTED" /\ challenges[c].proofId # Nil
    /\ Goto(h, [op |-> "verify", pc |-> "judge", challenge |-> c,
                proofId |-> challenges[c].proofId])
    /\ Only

(* The proof and the land are read and compared; the Groth16 verification follows. *)
verifyChallenge_Judge(h) ==
    /\ At(h, "verify", "judge")
    /\ LET c == handler[h].challenge
           p == proofs[handler[h].proofId]
           ok == /\ land.status = "LISTED_FOR_SALE" /\ p.root = land.merkleRoot
                 /\ p.nonce = c /\ land.ownerId = challenges[c].sellerId
       IN Goto(h, [op |-> "verify", pc |-> "save", challenge |-> c,
                   verdict |-> IF ok THEN "VERIFIED" ELSE "FAILED"])
    /\ Only

Verified == {c \in DOMAIN challenges : challenges[c].status = "VERIFIED"}

(* Only VERIFIED challenges are ever sought by verifiedAt. *)
verifyChallenge_Save(h) ==
    /\ At(h, "verify", "save")
    /\ LET c == handler[h].challenge
       IN /\ challenges' = [challenges EXCEPT ![c].status = handler[h].verdict]
          /\ verifiedOrder' = {p \in verifiedOrder : c \notin {p[1], p[2]}}
                \cup (IF handler[h].verdict = "VERIFIED"
                      THEN {<<d, c>> : d \in Verified \ {c}} ELSE {})
    /\ End(h)
    /\ UNCHANGED <<land, latestRoot, proofs, sale>>

declineChallenge_Read(h, c) ==
    /\ handler[h] = Free /\ challenges[c].status = "PENDING"
    /\ Goto(h, [op |-> "decline", pc |-> "save", challenge |-> c])
    /\ Only

declineChallenge_Save(h) ==
    /\ At(h, "decline", "save")
    /\ challenges' = [challenges EXCEPT ![handler[h].challenge].status = "DECLINED"]
    /\ End(h)
    /\ UNCHANGED <<land, latestRoot, proofs, verifiedOrder, sale>>

(* A handler fails at an await, or the server is restarted. *)
Drop(h) == handler[h] # Free /\ End(h) /\ Only

-----------------------------------------------------------------------------
(* buyListedLand *)
SaleAt(pc) == sale.pc = pc
OnlySale == UNCHANGED <<docs, handler>>

buyListedLand(b) ==
    /\ sale = Idle /\ land.status = "LISTED_FOR_SALE" /\ land.ownerId # b
    /\ sale' = [pc |-> "challenge", buyerId |-> b, salePrice |-> land.salePrice]
    /\ OnlySale

(* Of the buyer's VERIFIED challenges the one that was verified last *)
LastVerifiedBy(b) ==
    LET mine == {c \in Verified : challenges[c].buyerId = b}
    IN {c \in mine : \A d \in mine : <<c, d>> \notin verifiedOrder}

(* Mutant: the proof's root is left to the contract *)
BuyTimeChecks_AnyRoot(c) ==
    /\ ~proofs[challenges[c].proofId].usedForTransferAt
    /\ proofs[challenges[c].proofId].nonce = c
    /\ challenges[c].agreedPrice = sale.salePrice

(* The buy-time verification of the challenge c and its proof *)
BuyTimeChecks(c) ==
    /\ ~proofs[challenges[c].proofId].usedForTransferAt
    /\ proofs[challenges[c].proofId].root = latestRoot
    /\ proofs[challenges[c].proofId].nonce = c
    /\ challenges[c].agreedPrice = sale.salePrice

buyListedLand_Check ==
    /\ SaleAt("challenge")
    /\ \/ \E c \in LastVerifiedBy(sale.buyerId) :
             /\ BuyTimeChecks(c)
             /\ sale' = [pc |-> "transfer", buyerId |-> sale.buyerId, challenge |-> c,
                         proofId |-> challenges[c].proofId]
       \/ /\ \A c \in LastVerifiedBy(sale.buyerId) : ~BuyTimeChecks(c)
          /\ sale' = Idle
    /\ OnlySale

(* transferLandOnChain is confirmed, or fails as far as the server can tell *)
buyListedLand_Transfer ==
    /\ SaleAt("transfer")
    /\ sale' \in {Idle, [sale EXCEPT !.pc = "consume"]}
    /\ OnlySale

buyListedLand_Consume ==
    /\ SaleAt("consume")
    /\ proofs' = [proofs EXCEPT ![sale.proofId].usedForTransferAt = TRUE]
    /\ sale' = [sale EXCEPT !.pc = "recommit"]
    /\ UNCHANGED <<land, latestRoot, challenges, verifiedOrder, handler>>

(* The land is saved, with the commitment that came with the request, and the tree *)
(* rebuilt without it. *)
buyListedLand_Recommit ==
    /\ SaleAt("recommit")
    /\ \E newLandCommitment \in Commits(sale.buyerId) :
          land' = [status |-> "PENDING_APPROVAL", ownerId |-> sale.buyerId,
                   landCommitment |-> newLandCommitment, salePrice |-> Nil, merkleRoot |-> Nil]
    /\ latestRoot' = [latestRoot EXCEPT !.leaf = Nil]
    /\ sale' = [sale EXCEPT !.pc = "close"]
    /\ UNCHANGED <<challenges, proofs, verifiedOrder, handler>>

(* Challenges the sale makes moot *)
Moot(c) == challenges[c].status \in Open

buyListedLand_Close ==
    /\ SaleAt("close")
    /\ challenges' = [c \in DOMAIN challenges |->
          IF Moot(c) THEN [challenges[c] EXCEPT !.status = "FAILED"] ELSE challenges[c]]
    /\ sale' = Idle
    /\ UNCHANGED <<land, latestRoot, proofs, verifiedOrder, handler>>

(* The purchase fails at an await, or the server is restarted. *)
Abandon ==
    /\ sale # Idle /\ sale' = Idle
    /\ UNCHANGED <<docs, handler>>

-----------------------------------------------------------------------------
Next ==
    \/ \E price \in Price : listLandForSale(price)
    \/ cancelLandSale \/ approveLand \/ OtherSection
    \/ \E h \in Handler, b \in User : createChallenge_Land(h, b)
    \/ \E h \in Handler, c, nonce \in DOMAIN challenges : respondToChallenge_Land(h, c, nonce)
    \/ \E h \in Handler, c \in DOMAIN challenges :
          verifyChallenge_Read(h, c) \/ declineChallenge_Read(h, c)
    \/ \E h \in Handler :
          \/ createChallenge_Existing(h) \/ createChallenge_Save(h)
          \/ respondToChallenge_Read(h) \/ respondToChallenge_Save(h)
          \/ verifyChallenge_Judge(h) \/ verifyChallenge_Save(h)
          \/ declineChallenge_Save(h) \/ Drop(h)
    \/ \E b \in User : buyListedLand(b)
    \/ buyListedLand_Check \/ buyListedLand_Transfer \/ buyListedLand_Consume
    \/ buyListedLand_Recommit \/ buyListedLand_Close \/ Abandon

Spec == Init /\ [][Next]_vars

-----------------------------------------------------------------------------
(* Types of the documents; a challenge's proof, once submitted, exists. *)
TypeOK ==
    /\ land \in [status : {"PENDING_APPROVAL", "REGISTERED", "LISTED_FOR_SALE"},
                 ownerId : User, landCommitment : User \X Secret, salePrice : Price \cup {Nil}, merkleRoot : Root \cup {Nil}]
    /\ latestRoot \in Root
    /\ challenges \in Seq([buyerId : User, sellerId : User, agreedPrice : Price,
                           status : ChallengeStatus, proofId : DOMAIN proofs \cup {Nil}])
    /\ proofs \in Seq([nonce : DOMAIN challenges, root : Root, usedForTransferAt : BOOLEAN])
    /\ verifiedOrder \subseteq (DOMAIN challenges) \X (DOMAIN challenges)

(* transfer.service.ts:84-86: the server's own checks suffice, as long as no section *)
(* dies between the save of its land and the record of its root (LandWorkflow's *)
(* SoldByPresentOwner says what happens then).  From the moment a purchase goes to *)
(* the chain, the challenge it relies on was put to the present owner and answered *)
(* with the secret of the present commitment, for this buyer, however often the land *)
(* was sold since it was verified, even back to an earlier owner, with an earlier *)
(* secret or another. *)
SoldByItsOwner ==
    sale.pc \in {"transfer", "consume", "recommit"} =>
        /\ challenges[sale.challenge].buyerId = sale.buyerId
        /\ challenges[sale.challenge].sellerId = land.ownerId
        /\ proofs[sale.proofId].root.leaf = land.landCommitment
        /\ proofs[sale.proofId].nonce = sale.challenge

(* A verified challenge carries a proof that answers its nonce with a secret of its *)
(* seller, although a response may replace the proof while it is being verified. *)
VerifiedIsBacked ==
    \A c \in DOMAIN challenges : challenges[c].status = "VERIFIED" =>
        /\ challenges[c].proofId # Nil
        /\ proofs[challenges[c].proofId].nonce = c
        /\ proofs[challenges[c].proofId].root.leaf \in Commits(challenges[c].sellerId)

(* Challenge.model.ts:37-38: the purchase is rejected if the seller changes the *)
(* price.  A listed land is about to be saved for its buyer at the agreed price. *)
SoldAtAgreedPrice ==
    sale.pc = "recommit" /\ land.status = "LISTED_FOR_SALE" =>
        land.salePrice = challenges[sale.challenge].agreedPrice

(* challenge.service.ts:222: "Only pending challenges can be declined."  A declined *)
(* challenge is one that was never answered. *)
OnlyPendingDeclined ==
    \A c \in DOMAIN challenges : challenges[c].status = "DECLINED" => challenges[c].proofId = Nil
=============================================================================
