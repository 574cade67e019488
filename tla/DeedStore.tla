------------------------------ MODULE DeedStore ------------------------------
(***************************************************************************)
(* The deeds behind registration requests: requestLandRegistration of      *)
(* land.service.ts, ipfs.service.ts, deedCrypto.util.ts and                *)
(* ipfs.controller.ts.  A deed is two chunks long, as many as writeFile    *)
(* writes and readFile reads one after the other, with other requests in   *)
(* between.  A request is made once; a crash ends those under way, and the *)
(* server may come back with another key or another store.                 *)
(***************************************************************************)
EXTENDS Integers, Sequences, FiniteSets, FiniteSetsExt, SequencesExt

CONSTANTS
    NoDeed,      \* no document, and no key
    Deeds,       \* documents, one for each hash
    DeedKeys,    \* values of DEED_ENCRYPTION_KEY
    Parcels,     \* land ids, of which a commitment tells the parcel
    Applicants,
    Uploads,     \* requests, each made once
    Authority,
    CrashLimit   \* bound: crashes of the server

ASSUME DeedAssumption ==
    /\ CrashLimit \in Nat
    /\ NoDeed \notin Deeds \cup DeedKeys /\ Authority \notin Applicants
    /\ "elsewhere" \notin Deeds \cup Uploads \cup Parcels \cup {NoDeed}
    /\ NoDeed \notin [upload : Uploads \cup {"elsewhere"}, key : DeedKeys \cup {NoDeed}]

VARIABLES
    config,      \* the environment: whether Pinata is configured, and the key
    upload,      \* the requests
    parcels,     \* the Land documents, oldest first
    disk,        \* cid -> the chunks of its file
    sidecars,    \* cids whose metadata file was written
    ipfs,        \* cid -> the chunks that were pinned
    begun,       \* <<cid, request>> of the writes that were begun, here and elsewhere
    reader,      \* a reader of a deed
    crashes

deedVars == <<config, upload, parcels, disk, sidecars, ipfs, begun, reader, crashes>>

Config == [pinata : BOOLEAN, key : DeedKeys \cup {NoDeed}]
EMPTY_DEED_CID == <<"local", NoDeed>>
Unmade == [pc |-> "unmade"]
Over == [pc |-> "over"]
NoReader == [pc |-> "none"]

(* encryptDeed: a deed is sealed under the key of its upload, or left in the clear *)
Chunk(u, key) == [upload |-> u, key |-> key]

(* Another instance may have registered a parcel, whose deed it pinned: the file is not *)
(* here, unless the same document is uploaded here, in the clear as there               *)
Elsewhere(cid) == [landId |-> "elsewhere", owner |-> NoDeed, cid |-> cid]

DeedInit ==
    /\ config \in Config
    /\ upload = [u \in Uploads |-> Unmade]
    /\ \/ parcels = <<>> /\ ipfs = <<>> /\ begun = {}
       \/ \E key \in DeedKeys \cup {NoDeed}, d \in Deeds :
             LET cid == <<"ipfs", IF key = NoDeed THEN d ELSE "elsewhere">>
             IN /\ parcels = <<Elsewhere(cid)>> /\ begun = {<<cid, "elsewhere">>}
                /\ ipfs = [c \in {cid} |-> [i \in 1..2 |-> Chunk("elsewhere", key)]]
    /\ disk = <<>> /\ sidecars = {}
    /\ reader = NoReader /\ crashes = 0

-----------------------------------------------------------------------------
Move(u, pc) == upload' = [upload EXCEPT ![u].pc = pc]
UploadOver(u) == upload' = [upload EXCEPT ![u] = Over]

Registered(p) == \E i \in 1..Len(parcels) : parcels[i].landId = p

(* Mutant: the land is created before its deed is stored *)
RequestParcel_CreateFirst(u, p, a, deed) ==
    /\ upload[u] = Unmade /\ ~Registered(p)
    /\ upload' = [upload EXCEPT ![u] = [pc |-> "seal", landId |-> NoDeed, owner |-> a,
                                       deed |-> deed, cid |-> EMPTY_DEED_CID, key |-> NoDeed]]
    /\ parcels' = Append(parcels, [landId |-> p, owner |-> a, cid |-> <<"local", deed>>])
    /\ UNCHANGED <<config, disk, sidecars, ipfs, begun, reader, crashes>>

(* requestLandRegistration looks for the land, and uploads the deed, if there is one *)
RequestParcel(u, p, a, deed) ==
    /\ upload[u] = Unmade
    /\ upload' = [upload EXCEPT ![u] =
          IF Registered(p) THEN Over
          ELSE [pc |-> IF deed = NoDeed THEN "create" ELSE "seal", landId |-> p, owner |-> a,
                deed |-> deed, cid |-> EMPTY_DEED_CID, key |-> NoDeed]]
    /\ UNCHANGED <<config, parcels, disk, sidecars, ipfs, begun, reader, crashes>>

(* uploadIpfsController: the authority uploads a deed of no land *)
UploadOnly(u, deed) ==
    /\ upload[u] = Unmade
    /\ upload' = [upload EXCEPT ![u] = [pc |-> "seal", landId |-> NoDeed, owner |-> Authority,
                                       deed |-> deed, cid |-> EMPTY_DEED_CID, key |-> NoDeed]]
    /\ UNCHANGED <<config, parcels, disk, sidecars, ipfs, begun, reader, crashes>>

Put(store, cid, chunks) ==
    [c \in DOMAIN store \cup {cid} |-> IF c = cid THEN chunks ELSE store[c]]

Whole(u) == [i \in 1..2 |-> Chunk(u, upload[u].key)]

(* A cid is the hash of the content: of the document, or of what was pinned, which the *)
(* random IV makes unique when it is sealed. *)
CidOf(u) == IF ~config.pinata THEN <<"local", upload[u].deed>>
            ELSE <<"ipfs", IF config.key = NoDeed THEN upload[u].deed ELSE u>>

(* encryptDeed, and without Pinata the beginning of persistLocally *)
Seal(u) ==
    /\ upload[u].pc = "seal"
    /\ upload' = [upload EXCEPT ![u].pc = IF config.pinata THEN "pin" ELSE "truncate",
                               ![u].key = config.key, ![u].cid = CidOf(u)]
    /\ UNCHANGED <<config, parcels, disk, sidecars, ipfs, begun, reader, crashes>>

(* The ciphertext is pinned, or the upload fails and the request with it *)
Pin(u) ==
    /\ upload[u].pc = "pin"
    /\ \/ Move(u, "truncate") /\ ipfs' = Put(ipfs, upload[u].cid, Whole(u))
       \/ UploadOver(u) /\ UNCHANGED ipfs
    /\ UNCHANGED <<config, parcels, disk, sidecars, begun, reader, crashes>>

(* persistLocally: writeFile truncates the file, or creates it, and writes its chunks *)
Truncate(u) ==
    /\ upload[u].pc = "truncate" /\ Move(u, "write1")
    /\ disk' = Put(disk, upload[u].cid, <<NoDeed, NoDeed>>)
    /\ begun' = begun \cup {<<upload[u].cid, u>>}
    /\ UNCHANGED <<config, parcels, sidecars, ipfs, reader, crashes>>

WriteChunk(u, i) ==
    /\ upload[u].pc = <<"write1", "write2">>[i] /\ Move(u, <<"write2", "meta">>[i])
    /\ disk' = [disk EXCEPT ![upload[u].cid][i] = Chunk(u, upload[u].key)]
    /\ UNCHANGED <<config, parcels, sidecars, ipfs, begun, reader, crashes>>

WriteMeta(u) ==
    /\ upload[u].pc = "meta" /\ Move(u, "create")
    /\ sidecars' = sidecars \cup {upload[u].cid}
    /\ UNCHANGED <<config, parcels, disk, ipfs, begun, reader, crashes>>

(* LandModel.create: the unique index on landId refuses a second land, whose deed stays *)
CreateParcel(u) ==
    /\ upload[u].pc = "create" /\ UploadOver(u)
    /\ LET r == upload[u]
       IN parcels' = IF r.landId = NoDeed \/ Registered(r.landId) THEN parcels
                     ELSE Append(parcels, [landId |-> r.landId, owner |-> r.owner, cid |-> r.cid])
    /\ UNCHANGED <<config, disk, sidecars, ipfs, begun, reader, crashes>>

(* The process dies and is started again, perhaps with another configuration *)
CrashDeeds(c) ==
    /\ crashes < CrashLimit /\ crashes' = crashes + 1 /\ config' = c
    /\ upload' = [u \in Uploads |-> IF upload[u] = Unmade THEN Unmade ELSE Over]
    /\ reader' = NoReader
    /\ UNCHANGED <<parcels, disk, sidecars, ipfs, begun>>

-----------------------------------------------------------------------------
(* decryptDeed of the chunks that were read: "clear" is the document, "torn" a part of *)
(* it or of ciphertexts, "sealed" a ciphertext as it is stored. *)
Complete(chunks) == Len(chunks) = 2 /\ \A i \in 1..Len(chunks) : chunks[i] # NoDeed

(* Mutant: without a key the stored bytes are returned *)
decryptDeed_Lenient(chunks, key) ==
    IF chunks = <<>> \/ chunks[1] = NoDeed THEN "torn"
    ELSE IF chunks[1].key = NoDeed
         THEN IF Complete(chunks) /\ chunks[2].key = NoDeed THEN "clear" ELSE "torn"
    ELSE IF key = NoDeed THEN "sealed"
    ELSE IF chunks[1].key = key /\ Complete(chunks) /\ chunks[2] = chunks[1] THEN "clear"
    ELSE "error"

decryptDeed(chunks, key) ==
    IF chunks = <<>> \/ chunks[1] = NoDeed THEN "torn"
    ELSE IF chunks[1].key = NoDeed
         THEN IF Complete(chunks) /\ chunks[2].key = NoDeed THEN "clear" ELSE "torn"
    ELSE IF chunks[1].key = key /\ Complete(chunks) /\ chunks[2] = chunks[1] THEN "clear"
    ELSE "error"

(* getDeedController: the authority, or the owner of the first land with the cid *)
MayRead(who, cid) ==
    \/ who = Authority
    \/ LET of == {i \in 1..Len(parcels) : parcels[i].cid = cid}
       IN of # {} /\ parcels[Min(of)].owner = who

(* A deed of a land is asked for; its file is looked for, and its metadata read *)
AskDeed(who, i) ==
    LET cid == parcels[i].cid IN
    /\ reader.pc # "read" /\ cid # EMPTY_DEED_CID /\ MayRead(who, cid)
    /\ reader' = IF cid \in DOMAIN disk THEN [pc |-> "read", cid |-> cid, got |-> <<>>]
                 ELSE [pc |-> "served", cid |-> cid,
                       result |-> IF cid[1] = "local" THEN "none"
                                  ELSE LET data == decryptDeed(ipfs[cid], config.key)
                                       IN IF data = "error" THEN "none" ELSE data]
    /\ UNCHANGED <<config, upload, parcels, disk, sidecars, ipfs, begun, crashes>>

(* readFile reads up to the end of the file *)
ReadChunk ==
    /\ reader.pc = "read"
    /\ LET file == disk[reader.cid]
           i == Len(reader.got) + 1
           ended == i > 2 \/ \A j \in i..2 : file[j] = NoDeed
       IN reader' = IF ended THEN [pc |-> "served", cid |-> reader.cid,
                                   result |-> decryptDeed(reader.got, config.key)]
                    ELSE [reader EXCEPT !.got = Append(@, file[i])]
    /\ UNCHANGED <<config, upload, parcels, disk, sidecars, ipfs, begun, crashes>>

DeedNext ==
    \/ \E u \in Uploads :
          \/ \E p \in Parcels, a \in Applicants, d \in Deeds \cup {NoDeed} : RequestParcel(u, p, a, d)
          \/ \E d \in Deeds : UploadOnly(u, d)
          \/ Seal(u) \/ Pin(u) \/ Truncate(u) \/ WriteMeta(u) \/ CreateParcel(u)
          \/ \E i \in 1..2 : WriteChunk(u, i)
    \/ \E c \in Config : CrashDeeds(c)
    \/ \E who \in Applicants \cup {Authority}, i \in 1..Len(parcels) : AskDeed(who, i)
    \/ ReadChunk

DeedSpec == DeedInit /\ [][DeedNext]_deedVars

-----------------------------------------------------------------------------
Writers(cid) == {w \in begun : w[1] = cid}

(* ipfs.service.ts:43-52, land.service.ts:40-43: when a land exists its deed is stored, *)
(* file and metadata, whole and under one seal - a crash between the writes and the     *)
(* creation leaves a deed without a land, never the reverse - unless the same document  *)
(* was uploaded again without Pinata, which rewrites the file it shares.                *)
DeedBehindLand ==
    \A i \in 1..Len(parcels) :
        LET cid == parcels[i].cid IN
        cid # EMPTY_DEED_CID /\ parcels[i].landId # "elsewhere" =>
            /\ cid \in DOMAIN disk /\ cid \in sidecars
            /\ \/ disk[cid][1] # NoDeed /\ disk[cid][2] = disk[cid][1]
               \/ Cardinality(Writers(cid)) > 1

(* What a reader of a land's deed is sent is the document in the clear, an error or     *)
(* nothing, never a ciphertext, whichever keys and stores the server has had; and a     *)
(* torn document only if the file was being written a second time.                      *)
ServedIsRecorded ==
    reader.pc = "served" =>
        /\ reader.result # "sealed"
        /\ reader.result = "torn" => Cardinality(Writers(reader.cid)) > 1
=============================================================================
