----------------------------- MODULE ProofService -----------------------------
(***************************************************************************)
(* The proofs owners submit about their lands and the verdicts recorded    *)
(* for them: proof.service.ts and verifyChallenge, with the statements of  *)
(* the circuits (commitmentProof, landOwnership, challengeProof,           *)
(* areaRange), while lands are sold and approved and the registry tree is  *)
(* rebuilt.                                                                *)
(*                                                                         *)
(* Hashes are injective: a commitment is the pair it is made of, and a     *)
(* Merkle root is the set of the commitments in its tree, whose paths lead *)
(* to its leaves only (CheckerExact).  The n-th owner's secret is n.  The  *)
(* area an owner commits to is any: nobody compares it with the land's.  A *)
(* challenge is known by its nonce, of which each plot has one; its status *)
(* and its parties are ChallengeProtocol's.                                *)
(***************************************************************************)
EXTENDS Integers, Sequences, FiniteSets, FiniteSetsExt, SequencesExt

CONSTANTS
    Plots, Holders,    \* lands, and users who own or buy them
    SubmitLimit,       \* bound: proofs submitted
    ProofRequests,     \* requests, each made once
    SectionLimit,      \* bound: approvals and purchases
    Areas,             \* areas that owners commit to
    AreaBits,          \* 64 in the code
    FieldPrime,        \* any prime beyond 2 ^ (AreaBits + 1)
    Minimums           \* values given for minArea

ASSUME ProofAssumption ==
    /\ AreaBits \in Nat /\ FieldPrime \in Nat /\ FieldPrime > 2 ^ (AreaBits + 1)
    /\ Areas \subseteq Nat /\ Minimums \subseteq Nat /\ SubmitLimit \in Nat /\ SectionLimit \in Nat

VARIABLES
    titles,      \* Plots -> the Land document; area: what its areaCommitment hides
    latestRoot,  \* the newest MerkleRoot document
    rebuilding,  \* the approval or purchase that holds the registry lock
    sections,    \* approvals and purchases so far
    proofs,      \* the Proof documents, oldest first
    asked        \* ProofRequests -> a request

proofVars == <<titles, latestRoot, rebuilding, sections, proofs, asked>>

Commitment(plot, secret) == <<plot, secret>>
Nullifier(plot, secret, challenge) == <<secret, plot, challenge>>
MEMBERSHIP_DOMAIN == "membership-nullifier"
AreaCommitment(area, plot, secret) == <<area, plot, secret>>

InTree == {Commitment(p, titles[p].sales) : p \in {x \in Plots : titles[x].active}}
NoSectionHeld == [pc |-> "free"]
NotAsked == [pc |-> "unmade"]
Replied == [pc |-> "over"]

ProofInit ==
    /\ \E u \in Holders, area \in Areas :
          titles = [p \in Plots |-> [active |-> TRUE, sales |-> 0, ownerId |-> u, area |-> area,
                                    merkleRoot |-> {Commitment(x, 0) : x \in Plots}]]
    /\ latestRoot = InTree /\ rebuilding = NoSectionHeld /\ sections = 0
    /\ proofs = <<>> /\ asked = [q \in ProofRequests |-> NotAsked]

-----------------------------------------------------------------------------
(* The circuits: whether the witness w and the public signals s satisfy them *)

(* Num2Bits(n): x is the sum of n bits *)
Num2Bits(n, x) == x \in 0..(2 ^ n - 1)

(* LessThan(n): a difference of n + 1 bits whose top bit is clear *)
LessThan(n, a, b) ==
    LET difference == (a + 2 ^ n - b) % FieldPrime
    IN Num2Bits(n + 1, difference) /\ difference < 2 ^ n

GreaterEqThan(n, a, b) == LessThan(n, b, a + 1)

commitmentProof(w, s) == s[2] = Commitment(s[1], w.secret)

landOwnership(w, s) ==
    /\ Commitment(w.plot, w.secret) \in s[2]
    /\ s[1] = Nullifier(w.plot, w.secret, MEMBERSHIP_DOMAIN)

challengeProof(w, s) ==
    Commitment(s[2], w.secret) \in s[3] /\ s[1] = Nullifier(s[2], w.secret, s[4])

(* Mutant: the minimum is not checked to fit before it is compared *)
areaRange_MinimumUnbounded(w, s) ==
    /\ Num2Bits(AreaBits, w.area) /\ s[1] = AreaCommitment(w.area, w.plot, w.secret)
    /\ GreaterEqThan(AreaBits, w.area, s[2])

areaRange(w, s) ==
    /\ Num2Bits(AreaBits, w.area) /\ Num2Bits(AreaBits, s[2])
    /\ s[1] = AreaCommitment(w.area, w.plot, w.secret)
    /\ GreaterEqThan(AreaBits, w.area, s[2])

verify(type, w, s) ==
    CASE type = "COMMITMENT_OPENING" -> commitmentProof(w, s)
      [] type = "REGISTRY_MEMBERSHIP" -> landOwnership(w, s)
      [] type = "CHALLENGE_RESPONSE" -> challengeProof(w, s)
      [] type = "AREA_RANGE" -> areaRange(w, s)

PROOF_TYPES == {"COMMITMENT_OPENING", "REGISTRY_MEMBERSHIP", "CHALLENGE_RESPONSE", "AREA_RANGE"}

(* A witness with another area than the committed one opens no land's area commitment *)
Witnesses ==
    UNION {{[plot |-> p, secret |-> n, area |-> titles[p].area] : n \in 0..titles[p].sales} : p \in Plots}
Roots == {latestRoot} \cup {titles[p].merkleRoot : p \in Plots}

(* The signals a browser makes with a witness, whichever root it read of a land and *)
(* whichever minimum was typed *)
buildCircuitInput(type, w) ==
    CASE type = "COMMITMENT_OPENING" -> {<<w.plot, Commitment(w.plot, w.secret)>>}
      [] type = "REGISTRY_MEMBERSHIP" ->
            {<<Nullifier(w.plot, w.secret, MEMBERSHIP_DOMAIN), root>> : root \in Roots}
      [] type = "CHALLENGE_RESPONSE" ->
            {<<Nullifier(w.plot, w.secret, c), w.plot, root, c>> : root \in Roots, c \in Plots}
      [] type = "AREA_RANGE" ->
            {<<AreaCommitment(w.area, w.plot, w.secret), minArea>> : minArea \in Minimums}

-----------------------------------------------------------------------------
(* The registry: the save of an approval or a purchase, the paths of the lands in the *)
(* tree, one by one, and the new root's document *)
approve(p) ==
    /\ ~titles[p].active /\ titles' = [titles EXCEPT ![p].active = TRUE]

buyLand(p, buyer, newArea) ==
    /\ titles[p].active /\ buyer # titles[p].ownerId
    /\ titles' = [titles EXCEPT ![p] = [active |-> FALSE, sales |-> @.sales + 1, ownerId |-> buyer,
                                        area |-> newArea, merkleRoot |-> {}]]

BeginSection(p) ==
    /\ rebuilding = NoSectionHeld /\ sections < SectionLimit /\ sections' = sections + 1
    /\ approve(p) \/ \E buyer \in Holders, newArea \in Areas : buyLand(p, buyer, newArea)
    /\ rebuilding' = [pc |-> "paths", root |-> InTree',
                      todo |-> {x \in Plots : titles'[x].active}]
    /\ UNCHANGED <<latestRoot, proofs, asked>>

UpdatePath(p) ==
    /\ rebuilding.pc = "paths" /\ p \in rebuilding.todo
    /\ titles' = [titles EXCEPT ![p].merkleRoot = rebuilding.root]
    /\ rebuilding' = [rebuilding EXCEPT !.todo = @ \ {p}]
    /\ UNCHANGED <<latestRoot, sections, proofs, asked>>

EndSection ==
    /\ rebuilding.pc = "paths" /\ rebuilding.todo = {}
    /\ latestRoot' = rebuilding.root /\ rebuilding' = NoSectionHeld
    /\ UNCHANGED <<titles, sections, proofs, asked>>

-----------------------------------------------------------------------------
(* Whether the witness is what the type of proof claims, of the registry of this moment: *)
(* the present owner's, or for a membership that of any land in the tree.  Only of a     *)
(* membership that is judged while the tree changes is nothing known.                    *)
Claimed(type, p, w) ==
    IF type = "REGISTRY_MEMBERSHIP"
    THEN rebuilding # NoSectionHeld \/ Commitment(w.plot, w.secret) \in InTree
    ELSE Commitment(w.plot, w.secret) = Commitment(p, titles[p].sales)

(* Mutant: a challenge response is not compared with the land's root *)
Bound_AnyRoot(type, p, s, root) ==
    CASE type = "COMMITMENT_OPENING" -> s = <<p, Commitment(p, titles[p].sales)>>
      [] type = "REGISTRY_MEMBERSHIP" -> s[2] = root
      [] type = "CHALLENGE_RESPONSE" -> s[2] = p /\ s[4] = p
      [] type = "AREA_RANGE" -> s[1] = AreaCommitment(titles[p].area, p, titles[p].sales)

(* The semantic checks, the same when a proof is submitted and when it is verified *)
(* again but for the root a membership proof is compared with *)
Bound(type, p, s, root) ==
    CASE type = "COMMITMENT_OPENING" -> s = <<p, Commitment(p, titles[p].sales)>>
      [] type = "REGISTRY_MEMBERSHIP" -> s[2] = root
      [] type = "CHALLENGE_RESPONSE" -> s[2] = p /\ s[3] = titles[p].merkleRoot /\ s[4] = p
      [] type = "AREA_RANGE" -> s[1] = AreaCommitment(titles[p].area, p, titles[p].sales)

isFieldElement(minArea) == minArea < FieldPrime

(* submitProof, up to the cryptographic check; a proof that is refused changes nothing *)
submitProof(q, user, p, type, w, s) ==
    /\ asked[q] = NotAsked /\ Len(proofs) < SubmitLimit
    /\ type = "AREA_RANGE" => isFieldElement(s[2])
    /\ titles[p].active /\ titles[p].ownerId = user
    /\ type \in {"REGISTRY_MEMBERSHIP", "CHALLENGE_RESPONSE"} => titles[p].merkleRoot # {}
    /\ Bound(type, p, s, titles[p].merkleRoot)
    /\ verify(type, w, s)
    /\ asked' = [asked EXCEPT ![q] = [pc |-> "create", document |->
          [proofType |-> type, landId |-> p, publicSignals |-> s, witness |-> w,
           held |-> Claimed(type, p, w), verified |-> TRUE]]]
    /\ UNCHANGED <<titles, latestRoot, rebuilding, sections, proofs>>

(* The proof is recorded as verified when that is answered *)
submitProof_Create(q) ==
    /\ asked[q].pc = "create" /\ asked' = [asked EXCEPT ![q] = Replied]
    /\ proofs' = Append(proofs, asked[q].document)
    /\ UNCHANGED <<titles, latestRoot, rebuilding, sections>>

(* A recorded proof is judged again, with the land or the root of the moment *)
Judged(i) ==
    LET d == proofs[i] IN
    /\ verify(d.proofType, d.witness, d.publicSignals)
    /\ Bound(d.proofType, d.landId, d.publicSignals, latestRoot)

Judge(q, i, verified) ==
    /\ asked[q] = NotAsked
    /\ asked' = [asked EXCEPT ![q] =
          [pc |-> "save", proof |-> i, read |-> proofs[i].verified, verified |-> verified,
           held |-> Claimed(proofs[i].proofType, proofs[i].landId, proofs[i].witness)]]
    /\ UNCHANGED <<titles, latestRoot, rebuilding, sections, proofs>>

verifyProofRecord(q, i) == Judge(q, i, Judged(i))

(* A buyer's verdict on a challenge: the land may be off sale or its seller another *)
verifyChallenge(q, i) ==
    /\ proofs[i].proofType = "CHALLENGE_RESPONSE"
    /\ \E verified \in {FALSE, Judged(i)} : Judge(q, i, verified)

(* Both save their verdict some awaits later; Mongoose writes it only where it differs *)
(* from the one they read.  The record is held to the last verdict that agrees with it. *)
saveVerdict(q) ==
    LET k == asked[q]
        verdict == IF k.verified = k.read THEN proofs[k.proof].verified ELSE k.verified
    IN /\ k.pc = "save" /\ asked' = [asked EXCEPT ![q] = Replied]
       /\ proofs' = [proofs EXCEPT ![k.proof].verified = verdict,
                                   ![k.proof].held = IF verdict = k.verified THEN k.held ELSE @]
       /\ UNCHANGED <<titles, latestRoot, rebuilding, sections>>

ProofNext ==
    \/ \E p \in Plots : BeginSection(p) \/ UpdatePath(p)
    \/ EndSection
    \/ \E q \in ProofRequests :
          \/ \E user \in Holders, p \in Plots, type \in PROOF_TYPES, w \in Witnesses :
                \E s \in buildCircuitInput(type, w) : submitProof(q, user, p, type, w, s)
          \/ submitProof_Create(q)
          \/ \E i \in 1..Len(proofs) : verifyProofRecord(q, i) \/ verifyChallenge(q, i)
          \/ saveVerdict(q)

ProofSpec == ProofInit /\ [][ProofNext]_proofVars

-----------------------------------------------------------------------------
(* proof.service.ts:59-93, 164-204, challenge.service.ts:173-203: a proof that is         *)
(* recorded as verified was made with the secret of whoever owned the land when it was   *)
(* judged, although root and path of the land, the land and the newest root document     *)
(* change one after the other; a membership proof judged while the tree changes may      *)
(* still be a former owner's.                                                            *)
VerdictWasTrue == \A i \in 1..Len(proofs) : proofs[i].verified => proofs[i].held

(* The commitment in the signals of a range proof is one of an area of the land that *)
(* reaches the minimum in them                                                       *)
Reaches(land, s) == LET area == s[1][1] IN s[1][2] = land /\ s[2] <= area

(* areaRange.circom:8-15: a verified range proof of a land states a bound that the area  *)
(* committed to for that land reaches, in numbers and not only in the field, in which    *)
(* differences wrap around.                                                              *)
AreaReachesMinimum ==
    \A i \in 1..Len(proofs) :
        proofs[i].proofType = "AREA_RANGE" /\ proofs[i].verified =>
            Reaches(proofs[i].landId, proofs[i].publicSignals)
=============================================================================
