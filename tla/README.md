# LandChain: TLA+ models, checks and proofs

LandChain keeps land titles off chain (MongoDB, IPFS) and anchors them on chain: a
Merkle tree with one leaf per approved land, whose root a Solidity contract holds, and
zero-knowledge proofs by which an owner shows membership in that tree to a buyer and to
the contract. No step of the system is one transaction: an approval is a database save, a
rebuild of the tree, an update of every land's path, a Groth16 proof, two Ethereum
transactions and another save. These modules model what can go wrong between those steps
and prove what cannot.

Paths below are relative to the repository (`src/`).

## 1. Inventory

### Components, their state and their operations

| Component | State | Operations | What makes it correct |
|---|---|---|---|
| **LandRegistry contract** (`contracts/contracts/LandRegistry.sol`, `libraries/MerkleRootStore.sol`) | `verifier`, `rootVerifier`, `latestRoot`, `knownRoots`, `lands`, `usedNullifiers`, the event log | `bootstrapRoot`, `updateMerkleRoot`, `registerLand`, `verifyAndTransfer`, `markDisputed`, `setVerifier`, `setRootVerifier` (all `onlyOwner`) | roots chain by one leaf, a nullifier is spent once, a transfer is authorized by a member of the tree in force, dispute is final |
| **Circuits** (`circuits/circuits`) | none | `rootTransition`, `challengeProof`, `commitmentProof`, `landOwnership`, `areaRange`, component `MerkleTreeChecker` | a satisfied circuit means its statement |
| **Registry lock** (`apps/server/src/utils/lock.util.ts`) | the promise `registryChain` | `withRegistryLock(fn)` | sections serialized in call order, a failed one does not block the next |
| **Registry tree** (`merkle.service.ts`, `poseidon.service.ts`) | path and root in each land, `MerkleRoot` documents | `buildTree`, `pathFor`, `nextLeafIndex`, `rebuildRegistryTree`, `proveRootTransition` | the sparse tree is the full tree, paths open, each step is provable, no two lands on a leaf |
| **Land service** (`land.service.ts`) | `Land` documents | request, approve, reject, list, cancel, queries | database and contract agree; a land has a leaf iff it is approved |
| **Transfer service** (`transfer.service.ts`) | land, challenge, proof | `buyListedLand` | only the buyer whose challenge was answered gets the land, once; re-approval before resale |
| **Blockchain service** (`blockchain.service.ts`) | none | `registerLandOnChain`, `updateRootOnChain`, `transferLandOnChain` | the first two swallow failures, the third does not |
| **Challenge and proof services** (`challenge.service.ts`, `proof.service.ts`) | `Challenge` and `Proof` documents | create, decline, submit, verify | a verified challenge has a proof for its nonce and root |
| **Explorer** (`explorer.service.ts`, `app/explorer/page.tsx`) | none on the server; the blocks loaded and the cursor on the page | count, find, root history, receipts; fall back to the ledger; load older blocks | no entry passed over; an entry shown with a root it produced |
| **Deed store** (`ipfs.service.ts`, `deedCrypto.util.ts`) | `uploads/<cid>` and its metadata, pinned documents | upload, seal, pin, persist, read | a land's deed is there; nobody is served a ciphertext |
| **Accounts** (`auth.service.ts`, `server.ts`) | `User` documents | register, seed the authority, sign in | one authority |
| **Keys** (`circuits/scripts/setup.js`, `zk.routes.ts`, `zk.service.ts`, `lib/zk.ts`) | key files, HTTP cache, client caches | setup, export, publish, download, prove, verify | an artifact is downloaded once; what browsers keep is what the server has |
| **Web client** (`apps/client/src`) | session, the page's data, `busy` | sign in and out, navigate, load, each button's handler | a page shows what its user read; a handler acts for the user who started it |
| **HTTP layer** (`app.ts`, routes, middlewares) | none | authentication, roles, validation | guards of the services |
| **Generated verifiers, scripts and tests** | none | | see section 6 |

### Interactions

* The browser derives the commitment `Poseidon(landIdField, secret)` and every membership
  proof; the server never sees a secret.
* Land and transfer services call the registry lock around approval and purchase; inside
  it, the registry tree, the blockchain service and the models. Rejection, listing,
  cancellation, requests and the whole challenge protocol take **no** lock and write the
  same documents.
* The blockchain service sends transactions as the contract's owner and awaits receipts.
* The contract calls the two generated Groth16 verifiers.
* Every handler appends `Transaction` rows, and approvals and purchases `MerkleRoot`
  documents; only the explorer reads them together, row by row.
* Registration stores the deed, in the store and on disk, before it creates the land.
* A browser fetches circuit keys from the server, which verifies with the file of the same setup.

### Hard behaviours

1. *Interleaving.* The server is one Node process, so a handler runs alone from one
   `await` to the next; each `await` lets any other handler in. Handlers read a document,
   await, then `save()` it without a condition on what it has become.
2. *Partial failure.* Root and record updates that fail on chain are logged and skipped;
   the database proceeds. A transaction whose receipt does not come may be mined later, when
   nobody waits for it.
3. *Crash.* Nothing is resumed after a restart, and the lock lives in memory.
4. *Stale proofs.* A proof names a root; the root moves with every approval and purchase.
5. *Long histories.* Root chaining and nullifiers are properties of the whole event log,
   with verifiers replaced on the way.
6. *Arithmetic*: the path checker's bits, empty siblings and heights; the comparator of `areaRange`.
7. *Paging* a list that grows at its head, by count and offset, and whose order leaves ties open.
8. *Sessions* of several users in one tab, and handlers that outlive their page and their session.

`PROJECT.json` lists each hazard at its line with the properties that cover it.

## 2. Modules

```
 AnchoredRegistry  <--refines--  LandRegistry  <--INSTANCE--  LandWorkflow
 (abstract ledger)               (the contract)               (server + database + contract)
                                 LandRegistry_proofs  <--cites--  LandWorkflow_proofs
                                 MCLandRegistry                   MCLandWorkflow
 RegistryMutex     <--refines--  RegistryLock    (serializes LandWorkflow's `section`)
 (abstract FIFO mutex)                 \
                                        MCServer, RegistryServer_proofs
                                       /
                                 MerkleTree      (the tree and its checker; justifies "a root
                                                 stands for its tree")
 ChallengeProtocol (challenges and proofs beside sales; explains LandWorkflow's verifyChallenge)
   MCChallengeProtocol                ChallengeProtocol_proofs

 LedgerExplorer  DeedStore  Accounts  ProofService  WebClient  ProverKeys
        \__________\___________\___ MCPortal ___/____________/_________/
                                  (each beside the others, sharing nothing)
   LedgerExplorer_proofs
   PortalRecords_proofs   about Accounts, DeedStore and ProofService
   Client_proofs          about WebClient and ProverKeys

 Facts_proofs (numbers, functions, recursion): cited by RegistryServer_proofs,
                                               LedgerExplorer_proofs, PortalRecords_proofs
```

| Module | Models | Correspondence |
|---|---|---|
| `LandRegistry` | the contract, the library, the statements of the two circuits it verifies | one action per external function, named as in Solidity; a failed `require` reverts and is no step. `events` is the emitted log. `verifyProof(v, statement)`: a sound verifier accepts only true statements, any other may accept anything, with any words as signals, zero among them |
| `AnchoredRegistry` | what the contract promises: a tree that moves by one leaf, parcels moved by members, nullifiers spent once | refinement mapping `Ledger` in `LandRegistry` |
| `RegistryLock` | the promise chain: call, start of `fn`, its outcome, the microtask of `catch` | `run[k]`, `caught[k]`, `after[k]` are the promises made by call `k`; `registryChain` names the call whose promise it holds |
| `RegistryMutex` | what callers rely on: sections one at a time, in call order, each run | refinement mapping `Mutex` in `RegistryLock` |
| `LandWorkflow` | request, reject, list, cancel, approve, buy, crash; the three chain calls; the contract as an instance of `LandRegistry` | `section` is the handler that holds the lock, one `pc` per await; `job[w]` the handlers that hold none, split at the await between reading and `save()`; `pending` the transactions that were sent and nobody waits for any more |
| `MerkleTree` | `buildTree`, `pathFor`, `computeRootFromPath`, `MerkleTreeChecker`, the root-transition circuit | recursive functions over levels; Poseidon is an injective pairing; `Spelled` is the position the bits of a path name |
| `ChallengeProtocol` | creating, answering, judging and declining a challenge, the sale that relies on it and closes the others | `handler[h]` is a challenge request, one `pc` per await, with what it has read; `sale` the purchase. `challenges` and `proofs` are the collections |
| `LedgerExplorer` | the rows and root documents that sections and other handlers append; the reads of one explorer request; the page | `section` as in `LandWorkflow`, only its chain calls and what it records; `stamped` are rows whose `createdAt` is set and whose insert is under way; `request.pc` is the request's next await, `page.shown` the set of blocks on the page; `PagesOf` are the sets of rows a query with `skip` and `limit` may return |
| `DeedStore` | registration's upload, the authority's bare upload, encryption, pinning, `writeFile` and `readFile` in two chunks, who may read, crash and changed environment | `upload[u]` is one request, one `pc` per await; `disk`, `sidecars`, `ipfs` the stores |
| `Accounts` | `main()` of several servers on one database, `seedAuthority`, `registerUser` with the unique indexes | `server[s]`, `register[r]`: before or after the hash of the password |
| `ProofService` | the statements of the four client circuits, `submitProof` and `verifyProofRecord` for the four proof types and the verdicts that `verifyChallenge` writes, beside approvals, purchases and the path updates | `rebuilding` is the section, `asked[q]` a request after its judgement and before its save; `held` is a history variable: whether the claim was true when it was judged |
| `WebClient` | session store, `ProtectedRoute`, the pages with buttons, their handlers await by await; the server's guards | `handlers` are the async functions under way, each in one of `HandlerLimit` slots, `Script` their awaits in order; `view` is what is mounted, `live` whether a handler's component still is |
| `ProverKeys` | `setup.js`, the artifact routes and their cache header, `fetchArtifact`/`fetchVkey` and their promise caches, `verifyWithCircuit` | a file is the number of the setup it comes from; `promises` are the two module-level maps of `zk.ts` |
| `MCServer` | `RegistryLock` and `MerkleTree` for TLC, one beside the other, sharing nothing | |
| `MCPortal` | these six for TLC: `component` says which one a behaviour is about, the others stay as they began | |
| `MCLandRegistry`, `MCLandWorkflow`, `MCChallengeProtocol` | constants, symmetry and bounds for TLC | |
| `LandRegistry_proofs`, `LandWorkflow_proofs`, `ChallengeProtocol_proofs`, `LedgerExplorer_proofs` | theorems about the module they are named for | |
| `RegistryServer_proofs`, `PortalRecords_proofs`, `Client_proofs` | theorems about the lock and the tree; about accounts, deeds and proofs; about the browser's page and its keys | one section per component |
| `Facts_proofs` | lemmas about numbers, functions and recursion that several of them cite | |

Definitions whose name ends in `_<what is wrong>` (for instance `Authorizes_Replay`) are
variants of the definition below them with a plausible bug. They are used by no
specification; each shows that some property fails once the code has that bug.

### What is abstracted

* **Cryptography.** Poseidon and keccak are collision free, so a root *is* the tree, a
  commitment the pair ⟨land id, secret⟩, a challenge ⟨buyer, salt⟩, a nullifier the triple
  it hashes. `MerkleTree` does not use this for paths: there the tree is hashed, node by
  node, by an injective function. A Groth16 verifier is sound, except where
  `LandRegistry` says it was replaced.
* **Clients are honest**: a commitment is derived from the land it is submitted for, and a
  prover knows its own secret. A mistyped `landCommitment` only makes a land unprovable. The
  area commitment is another matter: nobody compares it with `areaSqm`, so a false one makes
  false ranges provable. `ProofService` lets owners commit to any area, and what it
  says of range proofs is about the committed one.
* `ForeignRoot` stands for 32-byte values that are no known tree's root; the owner can
  bootstrap one.
* `onlyOwner`: one owner; OpenZeppelin's transfer of ownership is external and unused.
* **Mongoose**: `save()` writes the modified paths of one document atomically, unique
  indexes are enforced, queries see the current state. `rebuildRegistryTree`
  sends its `updateOne` calls together (`Promise.all`), hence one update at a time in any order.
* `forSale` is folded into `LISTED_FOR_SALE`, which the code sets and clears with it. In `LandWorkflow` transaction rows, the
  closing of open challenges, and deeds are left out: no guard there reads them. The rows
  are in `LedgerExplorer`, the deeds in `DeedStore`.
* A chain call either succeeds with its receipt, or is refused, or fails. One that fails was
  never sent, or was sent and stays in `pending`: it is mined at some later step, in any order with the
  others and whatever the contract then holds, or never. Ethereum's nonces
  would keep some orders out; the model allows all.
* A purchase's reads are one step. They are made under the lock, and the root, the
  commitments and the leaves of approved lands change only under it. The one field they
  read that can change beside them, the status, is covered by the step that saves over it.
* In `LandWorkflow`, `verifyChallenge` is one step that yields a challenge with its proof.
  `ChallengeProtocol` splits it, and conversely takes the land's handlers and the
  registry sections, approval included, as single steps: there the save of a land and the
  record of its root are one, and in `ProofService` a section that saved a land ends. What a crash in
  between does is said by `OwnershipFollowsProof` and finding 5. In `ChallengeProtocol` a commitment of the one
  land is an owner with one of their secrets (a land may return to an earlier owner under the
  secret of before, and bring back an earlier root, or under a new one), and `others` stands for the
  rest of the tree; that a nullifier is spent once is the contract's, in `LandRegistry`, and a
  purchase's transfer there is confirmed or fails. A server restart ends handlers and
  sale one by one (`Drop`, `Abandon`). Messages (in `WebClient`), transaction rows and the three other proof
  types (in `ProofService`) are left out. `verifiedOrder` orders the verified challenges as
  `verifiedAt` does; Mongoose's rule that an unchanged field is not written is kept, since
  it decides which of two overlapping answers survives.
* A database error inside a handler ends the handler; the effect is that of a crash of
  that handler and is covered by `Crash`.
* `LedgerExplorer`: rows other than a section's differ in nothing the explorer looks at and
  are one kind, `OTHER`. Rows may share a millisecond with each other and with a root, and a query returns
  rows of one millisecond in any order, another in each query. Two roots do not share one: each is proved first.
  A section is seen only through what it records: the order of its chain calls, the root
  document, its row. The page follows the ledger for `LoadLimit` loads.
* `DeedStore`: a document is two chunks. That it is *two* is what makes a torn file
  possible; more would add no other case. The land's other fields are left out, and its
  `landId` stands for the check of the commitment. `Elsewhere` is a land whose deed another
  instance pinned: it is in the database, its file is not on this disk.
* `ProofService`: the n-th owner of a plot has the secret n and commits to any area. A submission is one step up to
  its cryptographic check because every document it reads before is compared with the signals at once, and
  the save is another; `verifyProofRecord` and `verifyChallenge` likewise. The challenge of a response is one per plot and
  its life is `ChallengeProtocol`'s: that the land is off sale or its seller another may make a buyer's
  verdict negative at any time. Areas are whole numbers.
* `WebClient`: one land, at most one challenge, a challenge's messages and submitted proofs
  are not kept. The server's handlers are one step (their inner steps are `LandWorkflow`'s
  and `ChallengeProtocol`'s). `OtherTab` is any user in any other tab.
* `ProverKeys`: one circuit; the statements proved are true, so whether a proof verifies
  depends on whether its key and the verifier's are of one setup.
* The order in which waiting sections get the lock is any order in `LandWorkflow`, a
  superset of the FIFO order that `RegistryLock` establishes.

## 3. Runs

| Run | Checks | Bounds | Result |
|---|---|---|---|
| `registry_contract` | `TypeOK`, `RootsMatchLog`, `SingleLeafHistory`, `NullifiersSpentOnce`, `DisputedIsFinal`, `TransferredByMember`, refinement `ImplementsLedger` | 2 leaves, 2 secrets, 2 land ids, 2 registered lands, 2 salts, 1 buyer, one sound and one unsound verifier, one foreign root, 4 events | holds |
| `contract_transition` | `InsertionOrRemoval` | the same without foreign parts | **violated**, finding 1 |
| `registry_server` | lock: `MutualExclusion`, `ChainInv`, `ImplementsMutex` (with fairness), `EveryCallSettles`; tree: `SparseIsFull`, `CheckerExact`, `EveryStepProvable` | 5 calls; depth 2, 3 commitments: all 256 fillings; paths with every index in 0..2 and elements in a set that holds the first nodes' hashes | holds |
| `land_workflow` | `TypeOK`, `LedgerAgreement`, `PathsCurrent`, `PurchaseNotRefused`, `LeavesDistinct`, `ReapprovalGate`, `TransferOnAgreedRoot`, `OwnershipFollowsProof`, `SectionEnds` | 2 lands, 2 users, 3 commitments, 1 salt; or 1 land, 3 users, 2 commitments, 2 salts (`MCBound`). 1 price, 2 leaves, 1 unlocked handler beside the section, 1 fault, a 2nd while a transfer is pending | holds |
| `workflow_fault` | `EveryRootAnchored` | 2 lands, 2 users, 1 salt | **violated**, finding 2 |
| `workflow_leaf` | `NoSharedLeaf` | 2 unlocked handlers, no fault | **violated**, finding 3 |
| `workflow_resale` | `ApprovedBeforeResale` | 1 unlocked handler, no fault | **violated**, finding 4 |
| `workflow_seller` | `SoldByPresentOwner` | 1 land, 3 users, 2 salts, 1 leaf, 1 unlocked handler, 1 fault | **violated**, finding 5 |
| `challenge_protocol` | `TypeOK`, `SoldByItsOwner`, `VerifiedIsBacked` | 3 users with 2 secrets each, 2 requests at a time, 2 challenges, 2 proofs, 1 price | holds |
| `challenge_decline` | `OnlyPendingDeclined` | the same with 1 secret | **violated**, finding 6 |
| `challenge_price` | `SoldAtAgreedPrice` | 1 secret, 1 challenge, 1 proof, 2 prices | **violated**, finding 7 |
| `portal` | `NoEntryMissed`, `TailReached`, `RootChangesTrue`, `DeedBehindLand`, `ServedIsRecorded`, `OneAuthority`, `VerdictWasTrue`, `AreaReachesMinimum`, `ShownToItsReader`, `ActedByItsUser`, `ShownInOrder`, `OneDownload` | see below | holds |

**Why the bounds are enough to be interesting.** Four events are a registration, an anchor,
a transfer and a second transfer or a dispute; or a verifier replaced before or after an
anchor; or a bootstrap (two events) and two more roots. All six invariants are also proved
without a bound (section 5). Five calls of the lock are a section that fails between
others on both sides; this too is proved for any number. In `land_workflow` the two leaves
let one land be sold (its leaf freed) while another is approved, the tree be full, and the
last leaf be reused; the three commitments let a land be sold and approved again. A second
sale needs a second salt and, if the buyer is to hold an answer from before the first, a third user:
`MCBound` grants both to behaviours in which the second land is not requested. A
fault can be a crash at any await or a failed call, either of which may leave a transaction that is mined
later. A second fault is followed while a transfer that the first one left is still to be mined (`LateTransfer`): the
other fault can then be the root update of a later approval, after which the transfer is mined, a case that
`TransferOnAgreedRoot` names. All but `SectionEnds` are also proved for any numbers. `CHECK_DEADLOCK FALSE` there: with the salts used and the tree full, the
system may have nothing left to do. In
`challenge_protocol` three users are what it takes for a buyer to hold a verified challenge
to a former owner, two requests what it takes for one to save over another, two proofs
for one challenge to be answered twice, and two secrets for an owner who comes back to be known from before or not. `MaxChallenges` and `MaxProofs` are looked at when a
request starts too, since one that could never save has no effect. In the tree's part of `registry_server` depth two has an inner level, an
absent subtree of each height, and siblings on both sides; the hazard of index values that
are no bit shows at any level. The theorems hold for every depth and for any values in a path.

**`portal`** explores six state spaces one beside the other (a sum, not a product: the
parts share no state). Their bounds:

* explorer: 1 land, 3 rows, 4 roots, 2 loads of one entry each, 1 failure, with and
  without a chain. The second page is what an inserted row can shift; three rows leave one
  to be missed and two to change places; an approval, a sale and a second approval make a root recur. Proved without bound.
* deeds: 2 requests for 2 parcels, one document, one key, 1 crash: the same document
  uploaded twice, sealed and in the clear, read between any two chunks, before and after a restart with
  or without the key and with another store, beside a parcel that another instance of the server registered. Proved without bound.
* accounts: 2 servers with 2 starts each, 2 registrations, 2 emails, 2 wallets. Proved
  without bound.
* proofs: 2 lands, 2 users, 2 sections, 1 recorded proof, 2 requests: a proof judged, then verified again, with a sale
  between or half a rebuild between. An area has 2 bits in a field of 11 elements, so
  that the differences of the comparator wrap; of two committed areas one reaches the first minimum exactly and one does
  not, another minimum is beyond the bits and one beyond the field. Proved without bound.
* client: 2 users and the authority, 2 handlers at a time, 1 change of the registry, from
  registries of every status and challenge. One change is enough for a page to be older
  than another; more histories begin in the initial states. Proved without bound.
* keys: 3 calls, 2 setups. Proved without bound.

`CHECK_DEADLOCK FALSE` there: requests and setups are made a bounded number of times.

**What the statements of `portal` say about surprises.** Each is the strongest that holds;
the reader of the code should know what they exclude:

* `RootChangesTrue`: a purchase is shown with the *next* operation's root, since its own was recorded
  before its row (`explorer.service.ts:173`), and a root that recurs is shown after the later of its
  predecessors (`:87`). What holds is that an approval shows its own root only.
* `TailReached`: rows inserted between the count and the find of the last load may hide as
  many of the oldest.
* `DeedBehindLand`, `ServedIsRecorded`: without Pinata the file is named by the document, so a
  second upload of it truncates a file that a land refers to; a reader may then be sent a torn
  document, and a crash leaves it torn. Also, `getDeedController` asks the owner of the *first* land with
  that file: the owner of a second land with the same document is refused.
* `VerdictWasTrue`: a membership proof may be judged against a root that is being
  replaced; it may then be a former owner's.
* `ShownToItsReader`: a sign-in whose page was left before the answer changes the user under
  a page that stays mounted, with the other user's data, until it loads again.
* `ActedByItsUser` holds although the client does nothing for it: the server's guards refuse
  the call of a handler that outlived its session. It says nothing of reads, which go out
  with the new token.
* `verifyAsBuyer` checks one proof locally and then asks the server to verify the
  challenge: if the seller answered again in between, the server judges the newer one. Neither
  verdict is wrong, but they may be of two proofs.
* `ShownInOrder` is about the pages of one land. On the user's dashboard only the pressed
  land's button is disabled, and two refreshes may be applied out of order (a hazard listed
  without property).
* `OneDownload`: a failed download is cached too (`zk.ts:94`), and refuses every proof until the tab is
  reloaded.
* `NoEntryMissed`, `TailReached`: pages are cut by `sort({ createdAt: -1 })`, `skip` and `limit`
  (`explorer.service.ts:301`, `:329`), and rows that concurrent handlers stamp in one millisecond have no order of their own:
  one can be on two pages and another on none. What holds is that a row whose millisecond is not on the page is older than what is.
* `OneDownload` is about one tab and one loading of it. The browser keeps the proving key for a day, as `immutable`
  (`zk.routes.ts:22`): after a second setup, which `setup.js:7-8` asks for, the server refuses every proof made with
  the kept one. The model has these steps (`httpCache`, `Contribute`); no property is stated of them, since nothing in the code stands against it.

**Conditions of the workflow invariants.** `LedgerAgreement`, `PathsCurrent`, `PurchaseNotRefused`,
`LeavesDistinct` and `ReapprovalGate` assume `~stale`, that no `save()` was applied to a
document that had left the status its handler read; the first three also assume `~parted`, that no
root update failed, nor was cut off by a crash between the rebuild and its record.
Both are history variables, and the findings show that each condition is needed.
The invariants say that these are the *only* ways the parts can diverge: all other
interleavings of requests, rejections, listings, approvals and purchases are safe although
none of them is a transaction, and so are transfers and registrations that fail or are mined late.

`TransferOnAgreedRoot` needs neither condition for a purchase that waits for its transfer. A transfer that is
mined after its purchase gave up may find the contract at a root that was anchored and not yet recorded, or recorded and never
anchored; both happen, the second in `land_workflow` with two faults, the first once a root recurs after a sale, and the property names
them. `OwnershipFollowsProof` needs neither in what it
says of the buyer, the contract and the recorded registry; that the commitment answered for is the
land's present one is said under both conditions, and finding 5 shows what happens without.

`PurchaseNotRefused` is what is left of "a sale that the server accepted is not refused": an approval whose `registerLand` failed leaves a land
that cannot be sold (`LAND_NOT_FOUND`), and a purchase that died after its transfer, or whose transfer was mined late, leaves a challenge that
cannot be used again (`PROOF_ALREADY_USED`) although the land was not handed over.

### Fairness

* `RegistryLock`: weak fairness of `Start` and `Catch` is the event loop's, which runs
  every ready microtask. Weak fairness of `Settle` assumes each section's database and RPC
  calls return: the code sets no timeout, so this is an assumption about MongoDB, the prover and the
  Ethereum node. New calls are not fair.
* `LandWorkflow`: weak fairness of `SectionStep`, the same assumption for the handler that
  holds the lock. No fairness for requests, unlocked handlers or faults. `SectionEnds`
  needs no more.
* `LandRegistry`, `ChallengeProtocol`, `MerkleTree` and the six parts of `MCPortal` have only
  safety properties. The parts have no liveness to state: requests fail, tabs are closed and
  pages left at any time, and nothing retries.

## 4. Findings

1. `contract_transition`: `rootTransition.circom` and `SECURITY.md` promise that each
   anchored root is an insertion or a removal of exactly one leaf. The circuit leaves
   `leafBefore` and `leafAfter` free: replacing one commitment by another, and changing
   nothing, are accepted. At most one leaf changes, which is what `SingleLeafHistory` says
   and what is proved.
2. `workflow_fault`: a root whose `updateMerkleRoot` failed is recorded as the latest, and
   no later transition can chain to what the contract holds.
3. `workflow_leaf`: a rejection that overlaps an approval leaves a rejected land with a
   leaf index; the leaf is given again; a listing that overlapped the rejection brings the
   first land back. Two active lands share a leaf, the race the lock was written against.
4. `workflow_resale`: a cancellation that overlaps a purchase saves `REGISTERED` over the
   sold land, which skips the authority's re-approval.
5. `workflow_seller`: a purchase saves the land with its new owner before the root without it
   is recorded. When the process dies in between, recorded root and contract keep the former owner's leaf, and
   nothing resumes the purchase. A buyer to whom the former owner had answered at that root can then, once
   the land is listed again, buy it from its present owner on that answer: no check compares
   the proof with the land's commitment. In the run the land is listed again after a stale
   cancellation (as in 4); an approval that dies before it records its root would do as well.
6. `challenge_decline`: a decline that overlaps an answer is saved over it; the answered
   challenge ends DECLINED.
7. `challenge_price`: a listing cancelled and made anew at another price while a purchase
   is under way is sold at the price the purchase read first.

## 5. Proofs

All theorems are checked by TLAPS for every value of the constants that satisfies the
named assumption of the module. Every safety invariant and every action property of the
passing runs is stated by one of them.

**`LandRegistry_proofs`** (from `RegistryAssumption`: what is Nil is no commitment, root,
field, key, buyer or contract; `Sound` and `Commitment` are subsets as named; foreign
roots open to no tree). Nothing is assumed finite.

* `TypeCorrect`: `TypeOK` is inductive by itself. A root is never zero because `set`
  refuses zero and no tree is.
* `RootsFollowLog`: `RootsMatchLog` is inductive given `TypeOK`. The lemmas `AppendOne`, `PastStands`,
  `RootStays` and `RootMoves` say how a property of the log's past survives an appended event.
* `NullifiersNeverReplayed`: the first conjunct of the invariant (the set *is* what the
  log consumed) makes the second inductive; the guard alone would not.
* `DisputesAreFinal`: strengthened by `DisputeStays`: a land whose dispute is logged has
  status DISPUTED, and its record exists.
* `OnlyMembersTransfer` and `RootsMoveOneLeaf`: strengthened by the soundness of the verifiers in force
  while the log holds no unsound replacement (`SoundVerifiers`, with `AuditShrinks`), by `RootsMatchLog`, which ties
  the guard on `latestRoot` to "the root in force at that event", and by the permanence of a
  record's land id.
* `ContractImplementsLedger`: every step of the contract is a step or a stutter of
  `AnchoredRegistry` under the mapping (`LedgerStep`, one case per function). A transfer before the
  first anchor, which a replaced verifier lets through with zero as root, is one: the abstract ledger
  asks for a tree only while proofs are audited.

**`RegistryServer_proofs`, the lock** (from `MaxCalls \in Nat`).

* `ChainInvariant`: `ChainInv`, in particular "a call that started found *every* earlier
  call caught", which a call cannot see, for it looks at one promise only. It follows by
  the chain: its predecessor is caught, so it started, so all before it are caught.
* `Serialized`: mutual exclusion from it.
* `ChainImplementsMutex`: the safety part of the refinement.

**`RegistryServer_proofs`, the tree** (from `TreeAssumption`: the depth is a positive number,
commitments are positive numbers and what a prover puts in a path are numbers; the empty leaf is 0).
Every depth, every set of commitments, every filling that insertions and removals reach.

* `SparseTreeIsFull` (`SparseIsFull`): `Node(map, k, i)`, what the sparse layer k says of position i, is the
  hash of its two children, whether the position is above an occupied leaf or not (`NodeStep`, `Nodes`),
  and so is every node of the full tree; both begin with the leaves (`FullTree`).
* `CheckerIsExact` (`CheckerExact`): the pairing is injective (`HashInjective`, from the triangle numbers:
  `TriangleStep`). Completeness climbs from the leaf: at each level the path's element is the sibling's
  node. Soundness descends from the root: if two hashes are equal their children are, so what was hashed
  at each level is the node at the position that the bits read so far spell (`SpelledStep`), down to the leaf.
  The constraint that a bit is a bit is used in every step.
* `StepsAreProvable` (`EveryStepProvable`): changing one leaf changes only the nodes above it
  (`OtherNodes`), so the path of that leaf in the new tree consists of nodes of the old one too.

The recursive functions are defined level by level, and what holds of level 0 and passes from a level
to the next holds of all. The prover's backends cannot instantiate an induction rule that is given a
predicate; `SetInduction` in `Facts_proofs` takes a *set* of numbers instead, derived from the
well-founded order, and `Recursion` that a function so defined exists.

**`LandWorkflow_proofs`** (from `WorkflowAssumption`: the tree has a leaf, the bound on
faults is a number, a commitment is a pair of a land and a secret, and what is Nil is no
number, tree, land, user or commitment, nor the deployed verifier). Any number of lands, users, salts, unlocked
handlers and faults, and a tree of any capacity. The invariant `IInv` has three layers,
each inductive given those before it:

* `TypeInv`, without conditions: what the handler in `section` has read or done at each
  `pc` (`SectionOK`, `BuyerOK`), that an unlocked handler's land exists (`JobInv`), that a
  land's commitment is to itself (`LandInv`) and that each verified challenge opens the
  root it names (`ChallengeInv`). What a purchase has read survives the steps beside it
  because no handler without the lock writes a commitment, a leaf or the recorded root
  (`Kept`). It gives `TypeCorrect`, and of
  `TransfersAgree` what is said of a purchase that waits: it holds a proof at `rootDoc` until it is over, and the
  contract demands one at `latestRoot`. For transfers mined late `RegistryInv` is needed.
* `GateInv`, while no save was stale: the gate, distinct leaves, and, between
  computing an index and saving it, that the index is still free. Every step either
  moves no leaf (`LeavesKept`), or places a land on a free one, or removes one
  (`LeavesStep`). It gives `LeavesAreDistinct` and `ApprovalGates`. That the next index is
  above all others needs that a bounded set of numbers has a maximum (`MaxOfBounded`), proved from the
  well-founded order of the subsets of an interval.
* `RegistryInv`, while no root update failed or was cut off either: how far documents, recorded root and
  contract have come apart at each `pc` (`Agreed`), whatever else failed or is mined meanwhile. Between the save and the rebuild the
  documents fit the contract's tree with the section's one leaf changed; from the rebuild on
  the snapshot *is* that tree, so that the transition proof cannot fail and the contract cannot refuse
  (`AnchorAgrees`); recording it closes the gap. It gives `LedgersAgree`, `PathsAreCurrent` and,
  with `TypeInv`, `OwnershipProved`.

`PurchasesPass` (`PurchaseNotRefused`) rests on `SaleInv`, inductive given `IInv`. Without conditions: each challenge has a nonce of its own
and signals that answer it, and no record is disputed (`AnswerInv`, `Open`). Until the first fault: whatever nullifier the
contract consumed is that of a challenge that is marked used or about to be (`Consumed`), and every active land has a record
but the one whose approval is under way (`Recorded`; the proof of its transition stands, `ProofStands`, so `registerLand` is reached). The root
needs no such premise: `Agreed` says that the one the buyer's proof was checked against is the contract's.

Three more theorems join the server and the contract it drives:

* `WorkflowDrivesContract`: each step of the server is a step of `LandRegistry` or leaves the
  contract alone, with arguments of the types its interface declares. `TypeInv` gives the types: of the transition,
  and of the signals that a purchase took from a proof (`CallSteps`, `ChainCalled`).
* `ContractPromisesKept`: the theorems of `LandRegistry_proofs` are cited for this contract (the module is
  instantiated as `Registry`, its assumption follows from this module's) and hold of every history of the
  server. No verifier is replaced in any, so that `SingleLeafHistory` and `TransferredByMember`
  hold without their condition.
* `WorkflowImplementsLedger`: the refinement of `AnchoredRegistry`, for the composed system.

**`ChallengeProtocol_proofs`** (from `ProtocolAssumption`: the first owner is a
user, the two bounds are numbers, and what is Nil is none). Nothing is assumed finite: any number of users, requests,
secrets, challenges, proofs and prices. One inductive invariant, `Inv`, is behind all three theorems:

* `TypeCorrect` (`TypeOK`): a request in flight holds the number of a challenge or proof
  that exists. That is inductive because documents only grow (`DocumentsStay`): every
  `pc` after a read may rely on what it read being there still.
* `OwnersSell` (`SoldByItsOwner`): the leaf of an active land in the latest root is its
  owner's, under whichever of their secrets (`LandInv`), and a proof opens its root at its maker's leaf (`ProofInv`). So a proof at the
  latest root, which the purchase demands, was made by the present owner, whatever was
  sold and approved since the challenge; and the section keeps that root until it is over (`SaleOK`).
* `VerifiedHasProof` (`VerifiedIsBacked`): every request that is about to save a challenge
  as VERIFIED, and every challenge that has a proof, names a proof of that challenge's nonce
  and seller (`HandlerInv`). No save changes either, so it does not matter which is last.

**`PortalRecords_proofs`, accounts** (from `AccountsAssumption`).

* `AuthorityIsUnique`: `OneAuthority` from two facts: the authority's document has the
  reserved email and wallet (`Reserved`), so that the unique indexes refuse a second one
  however many servers found none; and a server listens, and a user's password is hashed,
  only when there is an authority (`Seeded`), so that no user took them first.

**`PortalRecords_proofs`, deeds** (from `DeedAssumption`: what is no deed or chunk is none, and
"elsewhere", the upload of another instance, is none of this one's).

* `DeedsAreBehindLands` (`DeedBehindLand`): only a writer of a file changes it, so a file one of whose
  writers is over stays as it is while it is written once (`FileStays`, `StoredStays`). A land is
  created by the step that ends its writer (`ParcelStep`), when both chunks are the writer's.
* `ReadersAreServed` (`ServedIsRecorded`): a reader gets to files of lands only, hence to such
  files, and what it has read is a prefix of one (`ReaderOK`); the parcel of another instance whose document is
  written here too counts as written twice.

**`PortalRecords_proofs`, proofs** (from `ProofAssumption`: the field has more elements than the
comparator's differences, 2^(`AreaBits`+1), and areas are natural numbers). Any number of lands, users, proofs, requests, approvals
and purchases, in any interleaving with the rebuild's path updates.

* `VerdictsAreTrue` (`VerdictWasTrue`): the root a land carries holds that land's own leaf
  only, whether the land has it from the last rebuild or from one before (`RegistryInv`), so an opening at that root
  is the present owner's even in the middle of a rebuild; outside a section the newest root and
  every active land's are the tree's, which is what a membership needs. A verdict, of the service's or a buyer's, is saved
  later than it is judged, but what a document says never changes (`SaveStep`).
* `RangesAreTrue` (`AreaReachesMinimum`): the signals open one area only, the committed one, which the
  circuit forces into its bits. Below 2^n both sides of the comparator stay in
  numbers (`DifferenceIsClear`), since the minimum is checked to fit before it is compared. The backends do not
  compute powers; `PowerOfTwo` derives the one fact needed from the number of subsets of a set.

**`LedgerExplorer_proofs`** (from `ExplorerAssumption`: the bounds are numbers, page sizes are
positive, "none" is no number). Any number of lands, rows, roots, loads and failures, and any
page sizes. The invariant `ExplorerInv` has two halves:

* of the ledger (`LedgerInv`), which the reader does not touch: roots are recorded in the order of their
  clocks, rows have distinct ids, and a row's hash is the one of its own root or of no root.
* of the reader (`ReaderInv`). `CursorInv` is the heart: a row that was there when the page was opened and whose
  millisecond is not shown has at least `nextCursor` newer ones, and is older than everything shown. An insertion only adds
  newer rows, so both survive whatever arrives between two reads, and rows that are
  shown twice do no harm. A page that is found (`FirstHas`, `FirstHasNot`) leaves out only rows that are newer than all of it or of its
  last millisecond, which earlier pages account for, or that are beyond the new cursor, in whatever order rows of one millisecond come. That is
  `NothingMissed` (`NoEntryMissed`).
* `TailIsReached` (`TailReached`): when the cursor has reached the count, the rows whose millisecond is not shown are what is left after
  it (`RestOf`), of which there are at most as many as rows inserted since.
* `RootChangesAreTrue` (`RootChangesTrue`): an approval's hash is one root's only; the first root not older
  than a purchase's row is not older than its own root, since that was recorded before the row; a root
  that recurs is shown after the later of its predecessors, and each predecessor was one. What was true of a
  shown row stays true as roots are appended.

**`Client_proofs`, the page** (from `ClientAssumption`: the first seller is a user, nobody and the
registrar are not, the limits are numbers). Any number of users, of handlers under way and of changes of the
registry. The invariant `ClientInv`:

* At most one handler belongs to what is mounted (`LiveOK`, `HandlersInv`): a page shows its button only when not
  busy and stays busy until the handler ends. Only such a handler refreshes, from what is shown on, and, unless a
  sign-in of a page that was left was answered since, with the token of the user who sees it (`LoadOK`).
  Hence `ShownOnlyToItsReader` (`ShownToItsReader`), and `ShownNeverOlder` (`ShownInOrder`): what a refresh has read is
  never older than what it replaces.
* `ActsOnlyForItsUser` (`ActedByItsUser`): a handler's calls after the first may carry another user's token. A
  commitment that was read for a proof was its owner's, and a sale changes owner and commitment (`ActsFor`), so
  the server, which asks that the caller is the owner, or the challenge's buyer, refuses all but the first
  user's calls.

**`Client_proofs`, the keys** (no assumption is used; any number of calls and setups).

* `DownloadedOnce` (`OneDownload`): a promise that nobody asked for was not downloaded
  (`DownloadInv`), and one that was asked for stays, settled or not.

**Only model-checked**: `SectionEnds`, `EveryCallSettles` and the fairness of
`ImplementsMutex`, which are liveness under fairness and outside the prover's reach. The findings are
counterexamples, hence TLC's.

## 6. Not modelled

* The generated Groth16 verifiers, snarkjs and `proveOnServer`: arithmetic over curves, without state.
  Assumed sound and, for a true statement, either successful or failing.
* The parsing, validation, rate limiting and error formatting of the HTTP layer; its guards are in `WebClient`.
* Pages and queries that only read (proofs, transactions, lists, settings), and the
  registration page, which is the request page without a session.
* Layout and wording of the user interface.
* Scripts and tests: straight-line drivers, read as documentation.
* Fractional areas: the client passes `areaSqm` as it is to the range proof while the
  registration commits to its integer part; the model's areas are whole numbers.

## 7. Plan

1. That `ChallengeProtocol` is what `LandWorkflow` takes for one step (`verifyChallenge`), as a
   refinement of the steps the two share.
2. Action properties of the workflow that follow from its invariant, for instance which
   handler may change which field of a land.
