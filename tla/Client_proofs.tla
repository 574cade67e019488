--------------------------- MODULE Client_proofs ---------------------------
(***************************************************************************)
(* The clients of the server: the tab of the web client and the caches of  *)
(* proving keys.                                                           *)
(***************************************************************************)
EXTENDS WebClient, ProverKeys, TLAPS

-----------------------------------------------------------------------------
(***************************************************************************)
(* WebClient.  Whom the tab shows what, and for whom it acts, for any      *)
(* number of users, handlers under way and changes of the registry.        *)
(***************************************************************************)
RegistryInv ==
    /\ DOMAIN registry = {"status", "ownerId", "sales", "ask", "version"}
    /\ DOMAIN registry.ask = {"status", "buyerId", "sellerId", "proof"}
    /\ registry.sales \in Nat /\ registry.version \in Nat

(* A first call is the user's who pressed the button *)
CallOK(k) ==
    /\ DOMAIN k = {"kind", "pc", "by", "live", "token", "got", "reads"}
    /\ k.kind \in DOMAIN Script /\ k.pc \in 1..Len(Script[k.kind]) /\ k.live \in BOOLEAN
    /\ k.pc = 1 => k.token = k.by

(* A commitment that was read for a proof was its owner's, and a sale changes both; *)
(* the button that verifies is the buyer's. *)
Proving(k) == /\ k.kind \in {"respond", "answer", "submit"}
              /\ StepOf(k) \in {"challenge", "prove", "respond", "submit"}

ActsFor(k) ==
    /\ Proving(k) /\ k.got # -1 =>
          /\ registry.status # "none" /\ k.got \in Nat /\ k.got <= registry.sales
          /\ k.got = registry.sales => registry.ownerId = k.by
    /\ k.kind = "verify" => registry.ask # NoAsk /\ registry.ask.buyerId = k.by

(* What was read of the registry, by whom *)
ReadOK(part, read, token) ==
    /\ read.token = token
    /\ read.land.version \in Nat /\ read.land.version <= registry.version
    /\ part = "challenge" => registry.ask # NoAsk /\ registry.ask.buyerId = read.land.ask.buyerId

(* What is mounted is busy, or has nothing to press yet *)
LiveOK(k) == k.live =>
    /\ k.kind = "login" <=> Component = "login"
    /\ IF k.kind = "load" THEN view.data = << >> /\ Component \notin {"login", "request"}
       ELSE view.busy

(* Only what is mounted refreshes, from what is shown on, and for who sees it *)
LoadOK(k) == StepOf(k) = "load" =>
    /\ k.live /\ DOMAIN k.reads = LoadParts(Component)
    /\ \A part \in DOMAIN k.reads : k.reads[part] # Pending =>
          /\ ReadOK(part, k.reads[part], k.token)
          /\ part \in DOMAIN view.data => view.data[part].land.version <= k.reads[part].land.version
    /\ Visible(view.page, session) /\ ~view.stray => k.token = session

HandlerOK(k) == CallOK(k) /\ ActsFor(k) /\ LiveOK(k) /\ LoadOK(k)

HandlersInv ==
    /\ DOMAIN handlers = Slots
    /\ \A h \in UnderWay : HandlerOK(handlers[h])
    /\ \A g, h \in UnderWay : handlers[g].live /\ handlers[h].live => g = h

ViewInv ==
    /\ DOMAIN view = {"page", "data", "busy", "stray"} /\ view.page \in Pages /\ view.busy \in BOOLEAN
    /\ view.data # << >> => DOMAIN view.data = LoadParts(Component)
    /\ \A part \in DOMAIN view.data : ReadOK(part, view.data[part], view.data[part].token)

ClientInv == RegistryInv /\ HandlersInv /\ ViewInv /\ ShownToItsReader

-----------------------------------------------------------------------------
(* The registry *)
RegistryGrows ==
    /\ registry.version <= registry'.version /\ registry.sales <= registry'.sales
    /\ registry.status # "none" => registry'.status # "none"
    /\ registry.status # "none" /\ registry'.sales = registry.sales => registry'.ownerId = registry.ownerId
    /\ registry.ask # NoAsk => registry'.ask # NoAsk /\ registry'.ask.buyerId = registry.ask.buyerId

LEMMA RegistrySame == ASSUME RegistryInv, registry' = registry PROVE RegistryInv' /\ RegistryGrows
BY DEF RegistryInv, RegistryGrows

LEMMA RegistryChanged ==
    ASSUME RegistryInv, NEW op \in Writes \ Silent, NEW who, NEW proof,
           Accepts(op, who, registry, proof), registry' = Changed(op, who)
    PROVE  RegistryInv' /\ RegistryGrows
<1> USE DEF RegistryInv, RegistryGrows, Changed, Accepts, Effect
<1>1. CASE op = "request"
  <2>1. PICK r : r = Effect(op, who, registry)
    OBVIOUS
  <2>2. r = [[registry EXCEPT !.status = "PENDING_APPROVAL"] EXCEPT !.ownerId = who]
    BY <1>1, <2>1
  <2>3. /\ r.status = "PENDING_APPROVAL" /\ r.sales = registry.sales /\ r.ask = registry.ask
        /\ r.version = registry.version /\ DOMAIN r = DOMAIN registry
    BY <2>2
  <2>4. registry' = [r EXCEPT !.version = @ + 1] /\ registry.status = "none"
    BY <1>1, <2>1
  <2> HIDE DEF Accepts, Effect, Changed
  <2>5. /\ registry'.status = r.status /\ registry'.ownerId = r.ownerId /\ registry'.sales = r.sales
        /\ registry'.ask = r.ask /\ registry'.version = r.version + 1 /\ DOMAIN registry' = DOMAIN r
    BY <2>3, <2>4
  <2> QED BY <2>3, <2>4, <2>5
<1>2. CASE op = "approve"
  BY <1>2
<1>3. CASE op = "reject"
  BY <1>3
<1>4. CASE op = "sell"
  BY <1>4
<1>5. CASE op = "cancel"
  BY <1>5
<1>6. CASE op = "ask"
  BY <1>6 DEF NoAsk
<1>7. CASE op = "respond"
  <2>1. PICK r : r = Effect(op, who, registry)
    OBVIOUS
  <2>2. r = [[registry EXCEPT !.ask.status = "PROOF_SUBMITTED"] EXCEPT !.ask.proof = registry.sales]
    BY <1>7, <2>1
  <2>3. /\ r.status = registry.status /\ r.sales = registry.sales /\ r.ownerId = registry.ownerId
        /\ r.version = registry.version /\ DOMAIN r = DOMAIN registry
        /\ r.ask.buyerId = registry.ask.buyerId /\ r.ask.status = "PROOF_SUBMITTED"
        /\ DOMAIN r.ask = DOMAIN registry.ask
    BY <2>2
  <2>4. registry' = [r EXCEPT !.version = @ + 1]
    BY <1>7, <2>1
  <2> HIDE DEF Accepts, Effect, Changed
  <2>5. /\ registry'.status = r.status /\ registry'.ownerId = r.ownerId /\ registry'.sales = r.sales
        /\ registry'.ask = r.ask /\ registry'.version = r.version + 1 /\ DOMAIN registry' = DOMAIN r
    BY <2>3, <2>4
  <2> QED BY <2>3, <2>4, <2>5 DEF NoAsk
<1>8. CASE op = "verify"
  BY <1>8 DEF NoAsk
<1>9. CASE op = "decline"
  BY <1>9 DEF NoAsk
<1>10. CASE op = "buy"
  <2>1. PICK r, status : /\ r = Effect(op, who, registry)
                        /\ status = IF OpenAsk(registry) THEN "FAILED" ELSE registry.ask.status
    OBVIOUS
  <2>2. r = [[[[registry EXCEPT !.status = "PENDING_APPROVAL"] EXCEPT !.ownerId = who]
               EXCEPT !.sales = @ + 1] EXCEPT !.ask.status = status]
    BY <1>10, <2>1
  <2>3. /\ r.status = "PENDING_APPROVAL" /\ r.sales = registry.sales + 1
        /\ r.version = registry.version /\ DOMAIN r = DOMAIN registry
        /\ r.ask.buyerId = registry.ask.buyerId /\ r.ask.status = status
        /\ DOMAIN r.ask = DOMAIN registry.ask
    BY <2>2
  <2>4. registry' = [r EXCEPT !.version = @ + 1] /\ status # "none"
    BY <1>10, <2>1 DEF OpenAsk
  <2> HIDE DEF Accepts, Effect, Changed
  <2>5. /\ registry'.status = r.status /\ registry'.ownerId = r.ownerId /\ registry'.sales = r.sales
        /\ registry'.ask = r.ask /\ registry'.version = r.version + 1 /\ DOMAIN registry' = DOMAIN r
    BY <2>3, <2>4
  <2> QED BY <2>3, <2>4, <2>5 DEF NoAsk
<1> QED BY <1>1, <1>2, <1>3, <1>4, <1>5, <1>6, <1>7, <1>8, <1>9, <1>10 DEF Writes, Silent

-----------------------------------------------------------------------------
(* The handlers' scripts *)
LEMMA ScriptSteps ==
    ASSUME NEW kind \in DOMAIN Script, NEW pc \in 1..Len(Script[kind])
    PROVE  /\ Len(Script[kind]) \in 1..5
           /\ Script[kind][pc] \in {"load", "push"} => pc = Len(Script[kind])
           /\ 1 \in 1..Len(Script[kind]) /\ (kind # "load" => Script[kind][1] # "load")
           /\ kind = "load" => Script[kind][pc] = "load"
           /\ Script[kind][pc] = "login" <=> kind = "login" /\ pc = 1
           /\ Script[kind][pc] = "load" => kind # "login"
           /\ Script[kind][pc] = "check" => kind = "verify"
           /\ Script[kind][pc] \in Writes /\ pc # 1 =>
                 \/ kind \in {"respond", "answer"} /\ Script[kind][pc] = "respond"
                 \/ kind = "submit" /\ Script[kind][pc] = "submit"
                 \/ kind = "verify" /\ Script[kind][pc] = "verify"
           /\ Script[kind][pc] = "push" => kind \in {"askAndLoad", "ask", "request", "login"} /\ pc = 2
           /\ kind \in {"respond", "answer", "submit"} => Script[kind][1] = "land"
           /\ kind \in {"respond", "answer", "submit"} /\ pc + 1 <= Len(Script[kind])
              /\ Script[kind][pc + 1] \in {"challenge", "prove", "respond", "submit"}
              => Script[kind][pc] \in {"land", "challenge", "prove"}
<1> USE DEF listForSale, cancelSale, decide, askAuthenticity, buy, call, respond, verifyAsBuyer,
            onSubmit, onSubmitForChallenge, requestLand, signIn, Writes
<1>1. CASE kind = "load"
  BY <1>1 DEF Script
<1>2. CASE kind = "sell"
  BY <1>2 DEF Script
<1>3. CASE kind = "cancel"
  BY <1>3 DEF Script
<1>4. CASE kind = "approve"
  BY <1>4 DEF Script
<1>5. CASE kind = "reject"
  BY <1>5 DEF Script
<1>6. CASE kind = "buy"
  BY <1>6 DEF Script
<1>7. CASE kind = "message"
  BY <1>7 DEF Script
<1>8. CASE kind = "decline"
  BY <1>8 DEF Script
<1>9. CASE kind = "askAndLoad"
  BY <1>9 DEF Script
<1>10. CASE kind = "ask"
  BY <1>10 DEF Script
<1>11. CASE kind = "request"
  BY <1>11 DEF Script
<1>12. CASE kind = "login"
  BY <1>12 DEF Script
<1>13. CASE kind = "respond"
  BY <1>13 DEF Script
<1>14. CASE kind = "verify"
  BY <1>14 DEF Script
<1>15. CASE kind = "submit"
  BY <1>15 DEF Script
<1>16. CASE kind = "answer"
  BY <1>16 DEF Script
<1> QED BY <1>1, <1>2, <1>3, <1>4, <1>5, <1>6, <1>7, <1>8, <1>9, <1>10, <1>11, <1>12, <1>13, <1>14, <1>15, <1>16 DEF Script

-----------------------------------------------------------------------------
(* The components and their buttons *)
LEMMA Mounts ==
    ASSUME NEW place \in Pages, NEW user
    PROVE  /\ ComponentOf(place, user) \in {"none", "UserDashboard", "AuthorityDashboard", "login",
                                           "request", "land", "challenge", "generate"}
           /\ ComponentOf(place, user) = "login" <=> place = "login"
           /\ ComponentOf(place, user) = "none" => user = Nobody /\ place # "login"
           /\ ComponentOf(place, user) = "request" => place = "request"
BY DEF Pages, ComponentOf

LEMMA Parts ==
    /\ LoadParts("none") = {} /\ LoadParts("login") = {} /\ LoadParts("request") = {}
    /\ LoadParts("challenge") = {"challenge"}
    /\ \A c \in {"UserDashboard", "AuthorityDashboard", "land", "challenge", "generate"} : LoadParts(c) # {}
BY DEF LoadParts

LEMMA ButtonsOffered ==
    ASSUME ViewInv, NEW kind \in Offers, Visible(view.page, session)
    PROVE  /\ kind \in DOMAIN Script /\ kind # "load"
           /\ kind = "login" <=> Component = "login"
           /\ Component \notin {"login", "request"} => view.data # << >>
           /\ kind = "verify" => /\ "challenge" \in DOMAIN view.data
                                 /\ session = view.data["challenge"].land.ask.buyerId
<1>1. PICK c : c = Component
  OBVIOUS
<1>2. c \in {"UserDashboard", "AuthorityDashboard", "login", "request", "land", "challenge", "generate"}
  <2>1. c # "none"
    BY <1>1, Mounts DEF ViewInv, Component, Visible, ProtectedPages
  <2> QED BY <1>1, <2>1, Mounts DEF ViewInv, Component
<1>3. CASE c \in {"login", "request"}
  <2>1. kind = c
    BY <1>1, <1>3 DEF Offers
  <2> QED BY <1>1, <1>3, <2>1 DEF Script
<1>4. CASE c \notin {"login", "request"} /\ view.data = << >>
  BY <1>1, <1>4 DEF Offers
<1>5. CASE c \notin {"login", "request"} /\ view.data # << >>
  <2>1. CASE c = "challenge"
    <3>1. kind \in challengeOffers(view.data["challenge"].land, session)
      BY <1>1, <1>5, <2>1 DEF Offers
    <3>2. DOMAIN view.data = {"challenge"}
      BY <1>1, <1>5, <2>1, Parts DEF ViewInv
    <3>3. /\ kind \in {"message", "respond", "decline", "verify"}
          /\ kind = "verify" => session = view.data["challenge"].land.ask.buyerId
      BY <3>1 DEF challengeOffers, Buys
    <3> QED BY <1>1, <1>5, <2>1, <3>2, <3>3 DEF Script
  <2>2. CASE c # "challenge"
    <3>1. kind \in {"sell", "cancel", "askAndLoad", "approve", "reject", "buy", "ask", "submit", "answer"}
      BY <1>1, <1>2, <1>5, <2>2 DEF Offers, userDashboardOffers, authorityDashboardOffers, landOffers,
         generateOffers
    <3> QED BY <1>1, <1>5, <3>1 DEF Script
  <2> QED BY <2>1, <2>2
<1> QED BY <1>3, <1>4, <1>5

-----------------------------------------------------------------------------
(* What stays true while the registry changes and other handlers go on *)
LEMMA ReadKept ==
    ASSUME NEW part, NEW read, NEW token, ReadOK(part, read, token), RegistryGrows, RegistryInv, RegistryInv'
    PROVE  ReadOK(part, read, token)'
BY DEF ReadOK, RegistryGrows, RegistryInv

LEMMA ActsForKept ==
    ASSUME NEW k, ActsFor(k), RegistryGrows, RegistryInv, RegistryInv'
    PROVE  ActsFor(k)'
<1>1. Proving(k)' <=> Proving(k)
  BY DEF Proving, StepOf
<1> QED BY <1>1 DEF ActsFor, RegistryGrows, RegistryInv

(* No other user sees what was read for this one; nothing is read on the login page *)
SameReader ==
    /\ Component' = Component
    /\ \/ Component = "login"
       \/ Visible(view.page, session)' /\ ~view'.stray
             => Visible(view.page, session) /\ ~view.stray /\ session' = session

LEMMA HandlerKept ==
    ASSUME NEW k, HandlerOK(k), RegistryGrows, RegistryInv, RegistryInv',
           view'.data = view.data, SameReader, k.live => view'.busy = view.busy
    PROVE  HandlerOK(k)'
<1>1. CallOK(k)' /\ ActsFor(k)'
  BY ActsForKept DEF HandlerOK, CallOK
<1>2. LiveOK(k)'
  BY DEF HandlerOK, LiveOK, SameReader
<1>3. LoadOK(k)'
  <2>1. StepOf(k)' = StepOf(k)
    BY DEF StepOf
  <2>2. StepOf(k) = "load" => Component # "login"
    <3>1. StepOf(k) = "load" => k.live /\ k.kind # "login"
      BY ScriptSteps DEF HandlerOK, CallOK, LoadOK, StepOf
    <3> QED BY <3>1 DEF HandlerOK, LiveOK
  <2>3. ASSUME StepOf(k) = "load", NEW part \in DOMAIN k.reads, k.reads[part] # Pending
        PROVE  /\ ReadOK(part, k.reads[part], k.token)'
               /\ part \in DOMAIN view'.data
                     => view'.data[part].land.version <= k.reads[part].land.version
    <3>1. /\ ReadOK(part, k.reads[part], k.token)
          /\ part \in DOMAIN view.data => view.data[part].land.version <= k.reads[part].land.version
      BY <2>3 DEF HandlerOK, LoadOK
    <3>2. PICK read, token : read = k.reads[part] /\ token = k.token
      OBVIOUS
    <3>3. ReadOK(part, read, token)'
      BY <3>1, <3>2, ReadKept
    <3> QED BY <3>1, <3>2, <3>3
  <2> QED BY <2>1, <2>2, <2>3 DEF HandlerOK, LoadOK, SameReader
<1> QED BY <1>1, <1>2, <1>3 DEF HandlerOK

LEMMA ViewKept ==
    ASSUME ViewInv, ShownToItsReader, RegistryGrows, RegistryInv, RegistryInv',
           DOMAIN view' = DOMAIN view, view'.page = view.page, view'.data = view.data,
           view'.busy \in BOOLEAN, SameReader
    PROVE  ViewInv' /\ ShownToItsReader'
<1>1. ASSUME NEW part \in DOMAIN view.data
      PROVE  ReadOK(part, view.data[part], view.data[part].token)'
  <2>1. PICK read, token : read = view.data[part] /\ token = view.data[part].token
    OBVIOUS
  <2>2. ReadOK(part, read, token)
    BY <2>1 DEF ViewInv
  <2>3. ReadOK(part, read, token)'
    BY <2>2, ReadKept
  <2> QED BY <2>1, <2>3 DEF ReadOK
<1>2. ViewInv'
  BY <1>1 DEF ViewInv, SameReader
<1>3. ShownToItsReader'
  <2>1. Component = "login" => DOMAIN view.data = {}
    BY Parts DEF ViewInv
  <2> QED BY <2>1 DEF ShownToItsReader, SameReader
<1> QED BY <1>2, <1>3

-----------------------------------------------------------------------------
(* The calls that go out: the record of one *)
CallMadeOf(k, kind, pc, by, live, c, token, got) ==
    /\ CallOK(k) /\ k # NoHandler /\ StepOf(k) = Script[kind][pc]
    /\ k.kind = kind /\ k.pc = pc /\ k.by = by /\ k.live = live /\ k.token = token /\ k.got = got
    /\ StepOf(k) = "load" =>
          DOMAIN k.reads = LoadParts(c) /\ \A p \in DOMAIN k.reads : k.reads[p] = Pending

LEMMA CallMade ==
    ASSUME NEW kind \in DOMAIN Script, NEW pc \in 1..Len(Script[kind]), NEW by, NEW live \in BOOLEAN,
           NEW c, NEW token, NEW got, pc = 1 => token = by,
           NEW k, k = Call(kind, pc, by, live, c, token, got)
    PROVE  CallMadeOf(k, kind, pc, by, live, c, token, got)
<1>1. /\ k.kind = kind /\ k.pc = pc /\ k.by = by /\ k.live = live /\ k.token = token /\ k.got = got
      /\ DOMAIN k = {"kind", "pc", "by", "live", "token", "got", "reads"}
      /\ k.reads = [p \in IF Script[kind][pc] = "load" THEN LoadParts(c) ELSE {} |-> Pending]
  BY DEF Call
<1>2. StepOf(k) = Script[kind][pc]
  BY <1>1 DEF StepOf
<1>3. DOMAIN NoHandler = {"kind"}
  BY DEF NoHandler
<1> QED BY <1>1, <1>2, <1>3 DEF CallOK, CallMadeOf

LEMMA HandlerNow ==
    ASSUME NEW h, NEW k, k = handlers'[h], HandlerOK(k)'
    PROVE  HandlerOK(handlers[h])'
BY DEF HandlerOK, CallOK, ActsFor, Proving, LiveOK, LoadOK, StepOf, ReadOK

(* Another component is mounted *)
LEMMA Mounted ==
    ASSUME ClientInv, NEW place \in Pages, NEW left, DOMAIN left = Slots, registry' = registry,
           \A h \in Slots : \/ left[h] = NoHandler
                            \/ /\ CallOK(left[h]) /\ ActsFor(left[h])
                               /\ ~left[h].live /\ StepOf(left[h]) # "load",
           view' = Blank(place), NEW user, user = session', Load(left, ComponentOf(place, user), user)
    PROVE  ClientInv'
<1>1. PICK c : c = ComponentOf(place, user)
  OBVIOUS
<1>2. /\ view'.page = place /\ view'.data = << >> /\ view'.busy = FALSE /\ DOMAIN view'.data = {}
      /\ DOMAIN view' = {"page", "data", "busy", "stray"} /\ Component' = c
  BY <1>1 DEF Blank, Component
<1>3. RegistryInv' /\ RegistryInv /\ RegistryGrows
  BY RegistrySame DEF ClientInv
<1>4. ViewInv' /\ ShownToItsReader'
  BY <1>2 DEF ViewInv, ShownToItsReader
<1>5. ASSUME NEW h \in Slots, left[h] # NoHandler PROVE HandlerOK(left[h])' /\ ~left[h].live
  <2>1. PICK k : k = left[h]
    OBVIOUS
  <2>2. CallOK(k) /\ ActsFor(k) /\ ~k.live /\ StepOf(k) # "load"
    BY <1>5, <2>1
  <2>3. CallOK(k)' /\ ActsFor(k)' /\ LiveOK(k)' /\ LoadOK(k)'
    BY <1>3, <2>2, ActsForKept DEF CallOK, LiveOK, LoadOK, StepOf
  <2> QED BY <2>1, <2>2, <2>3 DEF HandlerOK, CallOK, ActsFor, Proving, LiveOK, LoadOK, StepOf
<1>6. CASE LoadParts(c) = {}
  <2>1. handlers' = left
    BY <1>1, <1>6 DEF Load
  <2> QED BY <1>3, <1>4, <1>5, <2>1 DEF ClientInv, HandlersInv, UnderWay
<1>7. CASE LoadParts(c) # {}
  <2>1. PICK new : new = Call("load", 1, user, TRUE, c, user, 0)
    OBVIOUS
  <2>2. "load" \in DOMAIN Script /\ 1 \in 1..Len(Script["load"]) /\ Script["load"][1] = "load"
    BY DEF Script
  <2>3. /\ CallOK(new) /\ new.kind = "load" /\ new.live /\ new.token = user /\ StepOf(new) = "load"
        /\ DOMAIN new.reads = LoadParts(c) /\ \A p \in DOMAIN new.reads : new.reads[p] = Pending
    <3>1. PICK kind, pc, live, got : kind = "load" /\ pc = 1 /\ live = TRUE /\ got = 0
      OBVIOUS
    <3>2. kind \in DOMAIN Script /\ pc \in 1..Len(Script[kind]) /\ live \in BOOLEAN
      BY <2>2, <3>1
    <3>3. new = Call(kind, pc, user, live, c, user, got)
      BY <2>1, <3>1
    <3>4. /\ CallOK(new) /\ StepOf(new) = Script[kind][pc]
          /\ new.kind = kind /\ new.live = live /\ new.token = user
          /\ StepOf(new) = "load" => DOMAIN new.reads = LoadParts(c) /\ \A p \in DOMAIN new.reads : new.reads[p] = Pending
      BY <3>2, <3>3, CallMade DEF CallMadeOf
    <3> QED BY <2>2, <3>1, <3>4
  <2>4. c \notin {"login", "request"}
    BY <1>7, Parts
  <2>5. HandlerOK(new)'
    BY <1>2, <2>3, <2>4 DEF HandlerOK, CallOK, ActsFor, Proving, LiveOK, LoadOK, StepOf
  <2>6. PICK h \in Slots : handlers' = [left EXCEPT ![h] = new]
    BY <1>1, <1>7, <2>1 DEF Load, Starts
  <2>7. DOMAIN handlers' = Slots /\ handlers'[h] = new /\ \A g \in Slots \ {h} : handlers'[g] = left[g]
    BY <2>6
  <2>8. ASSUME NEW g \in Slots, handlers'[g] # NoHandler
        PROVE  HandlerOK(handlers[g])' /\ (handlers'[g].live => g = h)
    <3>1. CASE g = h
      BY <2>5, <2>7, <3>1, HandlerNow
    <3>2. CASE g # h
      <4>1. PICK k : k = left[g]
        OBVIOUS
      <4>2. handlers'[g] = k /\ k # NoHandler
        BY <2>7, <2>8, <3>2, <4>1
      <4>3. HandlerOK(k)' /\ ~k.live
        BY <1>5, <2>8, <4>1, <4>2 DEF HandlerOK, CallOK, ActsFor, Proving, LiveOK, LoadOK, StepOf, ReadOK
      <4> QED BY <4>2, <4>3, HandlerNow
    <3> QED BY <3>1, <3>2
  <2>9. HandlersInv'
    BY <2>7, <2>8 DEF HandlersInv, UnderWay
  <2> QED BY <1>3, <1>4, <2>9 DEF ClientInv
<1> QED BY <1>6, <1>7

LEMMA ShowStep ==
    ASSUME ClientInv, NEW place \in Pages, NEW user, user = session', registry' = registry,
           NEW hs, DOMAIN hs = Slots,
           \A h \in Slots : hs[h] = NoHandler \/ (CallOK(hs[h]) /\ ActsFor(hs[h])),
           Show(place, user, hs)
    PROVE  ClientInv'
<1> DEFINE left == [h \in Slots |-> IF hs[h] = NoHandler \/ StepOf(hs[h]) = "load" THEN NoHandler
                                    ELSE [hs[h] EXCEPT !.live = FALSE]]
<1>1. view' = Blank(place) /\ Load(left, ComponentOf(place, user), user)
  BY DEF Show
<1>2. ASSUME NEW h \in Slots, left[h] # NoHandler
      PROVE  CallOK(left[h]) /\ ActsFor(left[h]) /\ ~left[h].live /\ StepOf(left[h]) # "load"
  <2>1. PICK k, l : k = hs[h] /\ l = left[h]
    OBVIOUS
  <2>2. CallOK(k) /\ ActsFor(k) /\ StepOf(k) # "load" /\ l = [k EXCEPT !.live = FALSE]
    BY <1>2, <2>1
  <2>3. /\ l.kind = k.kind /\ l.pc = k.pc /\ l.by = k.by /\ l.live = FALSE /\ l.token = k.token
        /\ l.got = k.got /\ DOMAIN l = DOMAIN k
    BY <2>2 DEF CallOK
  <2>4. StepOf(l) = StepOf(k)
    BY <2>3 DEF StepOf
  <2>5. CallOK(l) /\ ActsFor(l)
    BY <2>2, <2>3, <2>4 DEF CallOK, ActsFor, Proving
  <2> QED BY <2>1, <2>2, <2>3, <2>4, <2>5
<1>3. DOMAIN left = Slots
  OBVIOUS
<1> HIDE DEF left
<1> QED BY <1>1, <1>2, <1>3, Mounted

-----------------------------------------------------------------------------
(* A handler goes on or ends, perhaps with a change of the registry *)
LEMMA Replaced ==
    ASSUME ClientInv, RegistryInv', RegistryGrows, SameReader,
           NEW h \in UnderWay, NEW k, handlers' = [handlers EXCEPT ![h] = k],
           k = NoHandler \/ (HandlerOK(k)' /\ (k.live => handlers[h].live)),
           DOMAIN view' = DOMAIN view, view'.page = view.page, view'.data = view.data,
           view'.busy \in BOOLEAN, view'.busy = view.busy \/ handlers[h].live
    PROVE  ClientInv'
<1>1. DOMAIN handlers = Slots /\ RegistryInv
  BY DEF ClientInv, HandlersInv
<1>2. h \in Slots /\ DOMAIN handlers' = Slots /\ handlers'[h] = k /\ \A g \in Slots \ {h} : handlers'[g] = handlers[g]
  BY <1>1 DEF UnderWay
<1>3. ASSUME NEW g \in Slots \ {h}, handlers'[g] # NoHandler
      PROVE  g \in UnderWay /\ HandlerOK(handlers[g])' /\ handlers'[g].live = handlers[g].live
  <2>1. PICK l : l = handlers[g]
    OBVIOUS
  <2>2. g \in UnderWay /\ handlers'[g] = l
    BY <1>2, <1>3, <2>1 DEF UnderWay
  <2>3. HandlerOK(l) /\ (handlers[h].live => ~l.live)
    BY <2>1, <2>2 DEF ClientInv, HandlersInv, HandlerOK, CallOK
  <2>4. HandlerOK(l)'
    BY <1>1, <2>3, HandlerKept
  <2> QED BY <2>1, <2>2, <2>4, HandlerNow
<1>4. k # NoHandler => HandlerOK(handlers[h])'
  BY <1>2, HandlerNow
<1>5. \A g \in UnderWay' : HandlerOK(handlers[g])'
  BY <1>2, <1>3, <1>4 DEF UnderWay
<1>6. ASSUME NEW f \in UnderWay', NEW g \in UnderWay', handlers'[f].live, handlers'[g].live
      PROVE  f = g
  <2>1. f \in UnderWay /\ handlers[f].live
    BY <1>2, <1>3, <1>6 DEF UnderWay
  <2>2. g \in UnderWay /\ handlers[g].live
    BY <1>2, <1>3, <1>6 DEF UnderWay
  <2> QED BY <2>1, <2>2 DEF ClientInv, HandlersInv
<1>7. HandlersInv'
  BY <1>2, <1>5, <1>6 DEF HandlersInv
<1>8. ViewInv' /\ ShownToItsReader'
  BY <1>1, ViewKept DEF ClientInv
<1> QED BY <1>7, <1>8 DEF ClientInv

(* Nothing of the tab changes but perhaps who is signed in *)
LEMMA TabKept ==
    ASSUME ClientInv, RegistryInv', RegistryGrows, SameReader, UNCHANGED <<view, handlers>>
    PROVE  ClientInv'
<1>1. ASSUME NEW h \in UnderWay PROVE HandlerOK(handlers[h])'
  <2>1. PICK k : k = handlers[h] /\ k = handlers'[h]
    OBVIOUS
  <2>2. HandlerOK(k)'
    BY <2>1, HandlerKept DEF ClientInv, HandlersInv
  <2> QED BY <2>1, <2>2, HandlerNow
<1>2. HandlersInv'
  BY <1>1 DEF ClientInv, HandlersInv, UnderWay
<1>3. ViewInv' /\ ShownToItsReader'
  BY ViewKept DEF ClientInv, ViewInv
<1> QED BY <1>2, <1>3 DEF ClientInv

(* A button is pressed *)
LEMMA PressStep ==
    ASSUME ClientInv, NEW kind, NEW by, Press(kind, by)
    PROVE  ClientInv'
<1>1. /\ kind \in Offers /\ ~view.busy /\ Visible(view.page, session)
      /\ kind # "login" => by = session
      /\ session' = session /\ registry' = registry /\ view' = [view EXCEPT !.busy = TRUE]
  BY DEF Press
<1>2. /\ kind \in DOMAIN Script /\ kind # "load" /\ (kind = "login" <=> Component = "login")
      /\ Component \notin {"login", "request"} => view.data # << >>
      /\ kind = "verify" => /\ "challenge" \in DOMAIN view.data
                            /\ session = view.data["challenge"].land.ask.buyerId
  <2>1. ViewInv
    BY DEF ClientInv
  <2> QED BY <1>1, <2>1, ButtonsOffered
<1>3. ASSUME NEW g \in UnderWay PROVE ~handlers[g].live
  <2>1. LiveOK(handlers[g])
    BY DEF ClientInv, HandlersInv, HandlerOK
  <2> QED BY <1>1, <1>2, <2>1 DEF LiveOK
<1>4. /\ view'.page = view.page /\ view'.data = view.data /\ view'.stray = view.stray /\ view'.busy = TRUE
      /\ DOMAIN view' = DOMAIN view
  BY <1>1 DEF ClientInv, ViewInv
<1>5. RegistryInv' /\ RegistryGrows /\ RegistryInv
  BY <1>1, RegistrySame DEF ClientInv
<1>6. Component' = Component /\ SameReader
  BY <1>1, <1>4 DEF Component, SameReader
<1>7. PICK c, pc, live, got : c = Component /\ pc = 1 /\ live = TRUE /\ got = 0
  OBVIOUS
<1>8. PICK k : k = Call(kind, pc, by, live, c, by, got)
  OBVIOUS
<1>9. 1 \in 1..Len(Script[kind]) /\ Script[kind][1] # "load"
      /\ (kind \in {"respond", "answer", "submit"} => Script[kind][1] = "land")
  <2>1. 1 \in 1..Len(Script[kind])
    BY <1>2 DEF Script, listForSale, cancelSale, decide, askAuthenticity, buy, call, respond, verifyAsBuyer,
       onSubmit, onSubmitForChallenge, requestLand, signIn
  <2> QED BY <1>2, <2>1, ScriptSteps
<1>10. /\ CallOK(k) /\ k.kind = kind /\ k.by = by /\ k.live /\ StepOf(k) # "load"
       /\ StepOf(k) = Script[kind][1] /\ k # NoHandler
  <2>1. pc \in 1..Len(Script[kind]) /\ live \in BOOLEAN
    BY <1>7, <1>9
  <2>2. /\ CallOK(k) /\ k.kind = kind /\ k.by = by /\ k.live = live /\ StepOf(k) = Script[kind][pc]
        /\ k # NoHandler
    BY <1>2, <1>8, <2>1, CallMade DEF CallMadeOf
  <2> QED BY <1>7, <1>9, <2>2
<1>11. HandlerOK(k)'
  <2>1. CallOK(k)' /\ LoadOK(k)' /\ LiveOK(k)'
    BY <1>2, <1>4, <1>6, <1>10 DEF CallOK, LoadOK, LiveOK, StepOf
  <2>2. ~Proving(k)'
    BY <1>9, <1>10 DEF Proving, StepOf
  <2>3. kind = "verify" => registry.ask # NoAsk /\ registry.ask.buyerId = by
    <3>1. kind = "verify" => ReadOK("challenge", view.data["challenge"], view.data["challenge"].token)
      BY <1>2 DEF ClientInv, ViewInv
    <3> QED BY <1>1, <1>2, <3>1 DEF ReadOK
  <2>4. ActsFor(k)'
    BY <1>1, <1>10, <2>2, <2>3 DEF ActsFor
  <2> QED BY <2>1, <2>4 DEF HandlerOK
<1>12. PICK h \in Slots : handlers[h] = NoHandler /\ handlers' = [handlers EXCEPT ![h] = k]
  BY <1>7, <1>8 DEF Press, Starts
<1>13. /\ DOMAIN handlers' = Slots /\ handlers'[h] = k
       /\ \A g \in Slots \ {h} : handlers'[g] = handlers[g]
  BY <1>12 DEF ClientInv, HandlersInv
<1>14. ASSUME NEW g \in UnderWay'
       PROVE  HandlerOK(handlers[g])' /\ (handlers'[g].live => g = h)
  <2>1. CASE g = h
    BY <1>11, <1>13, <2>1, HandlerNow
  <2>2. CASE g # h
    <3>1. PICK l : l = handlers[g]
      OBVIOUS
    <3>2. g \in UnderWay /\ handlers'[g] = l
      BY <1>13, <2>2, <3>1 DEF UnderWay
    <3>3. HandlerOK(l) /\ ~l.live
      BY <1>3, <3>1, <3>2 DEF ClientInv, HandlersInv
    <3>4. HandlerOK(l)'
      BY <1>4, <1>5, <1>6, <3>3, HandlerKept
    <3> QED BY <3>2, <3>3, <3>4, HandlerNow
  <2> QED BY <2>1, <2>2
<1>15. HandlersInv'
  BY <1>13, <1>14 DEF HandlersInv
<1>16. ViewInv' /\ ShownToItsReader'
  BY <1>4, <1>5, <1>6, ViewKept DEF ClientInv
<1> QED BY <1>5, <1>15, <1>16 DEF ClientInv

-----------------------------------------------------------------------------
(* The steps of a handler *)
LEMMA SameTab ==
    ASSUME ClientInv, session' = session, DOMAIN view' = DOMAIN view, view'.page = view.page,
           view'.stray = view.stray
    PROVE  Component' = Component /\ SameReader
BY DEF Component, SameReader

LEMMA FinishStep ==
    ASSUME ClientInv, RegistryInv', RegistryGrows, session' = session, NEW h \in UnderWay, Finish(h)
    PROVE  ClientInv'
<1>1. /\ view' = IF handlers[h].live THEN [view EXCEPT !.busy = FALSE] ELSE view
      /\ handlers' = [handlers EXCEPT ![h] = NoHandler]
  BY DEF Finish
<1>2. /\ DOMAIN view' = DOMAIN view /\ view'.page = view.page /\ view'.data = view.data
      /\ view'.stray = view.stray /\ view'.busy \in BOOLEAN
      /\ view'.busy = view.busy \/ handlers[h].live
  BY <1>1 DEF ClientInv, ViewInv
<1> QED BY <1>1, <1>2, SameTab, Replaced

LEMMA PushingOK ==
    ASSUME NEW kind \in {"askAndLoad", "ask", "request", "login"}, NEW k, k = Pushing(kind)
    PROVE  HandlerOK(k)' /\ ~k.live
<1>1. PICK pc, live, c, got : pc = 2 /\ live = FALSE /\ c = "none" /\ got = 0
  OBVIOUS
<1>2. kind \in DOMAIN Script /\ pc \in 1..Len(Script[kind]) /\ live \in BOOLEAN /\ Script[kind][pc] = "push"
  <2>1. /\ Script["askAndLoad"] = <<"ask", "push">> /\ Script["ask"] = <<"ask", "push">>
        /\ Script["request"] = <<"request", "push">> /\ Script["login"] = <<"login", "push">>
        /\ kind \in DOMAIN Script
    BY DEF Script, askAuthenticity, requestLand, signIn
  <2>2. PICK step : Script[kind] = <<step, "push">>
    BY <2>1
  <2>3. Len(Script[kind]) = 2 /\ Script[kind][2] = "push"
    BY <2>2
  <2>4. 2 \in 1..Len(Script[kind])
    BY <2>3
  <2>5. pc \in 1..Len(Script[kind]) /\ Script[kind][pc] = "push"
    BY <1>1, <2>3, <2>4
  <2>6. live \in BOOLEAN
    BY <1>1
  <2> QED BY <2>1, <2>5, <2>6
<1>3. k = Call(kind, pc, Nobody, live, c, Nobody, got)
  BY <1>1 DEF Pushing
<1>4. CallOK(k) /\ StepOf(k) = Script[kind][pc] /\ k.kind = kind /\ k.live = live
  BY <1>2, <1>3, CallMade DEF CallMadeOf
<1> QED BY <1>1, <1>2, <1>4 DEF HandlerOK, CallOK, ActsFor, Proving, LiveOK, LoadOK, StepOf

(* What a handler takes on to its next call *)
Takes(old, got) ==
    /\ old.kind \in {"respond", "answer", "submit"} /\ old.pc + 1 <= Len(Script[old.kind])
    /\ Script[old.kind][old.pc + 1] \in {"challenge", "prove", "respond", "submit"}
    /\ got # -1

LEMMA ProceedStep ==
    ASSUME ClientInv, RegistryInv', RegistryGrows, session' = session, NEW h \in UnderWay, NEW got,
           Proceed(h, got), NEW old, old = handlers[h],
           Takes(old, got) =>
              /\ registry'.status # "none" /\ got \in Nat /\ got <= registry'.sales
              /\ got = registry'.sales => registry'.ownerId = old.by
    PROVE  ClientInv'
<1>1. /\ HandlerOK(old) /\ CallOK(old) /\ old.kind \in DOMAIN Script /\ old.live \in BOOLEAN
      /\ old.pc \in 1..Len(Script[old.kind])
  BY DEF ClientInv, HandlersInv, HandlerOK, CallOK
<1>2. PICK c, token, kind, by, live : /\ c = Component /\ token = session
                                     /\ kind = old.kind /\ by = old.by /\ live = old.live
  OBVIOUS
<1>3. PICK pc : pc = old.pc + 1
  OBVIOUS
<1>4. PICK next : next = Call(kind, pc, by, live, c, token, got)
  OBVIOUS
<1>5. CASE Finish(h)
  BY <1>5, FinishStep
<1>6. CASE ~Finish(h)
  <2>1. old.pc # Len(Script[kind]) /\ (StepOf(next) = "load" => live)
    BY <1>2, <1>3, <1>4, <1>6 DEF Proceed
  <2>2. Len(Script[kind]) \in Nat
    BY <1>1, <1>2, ScriptSteps
  <2>3. pc \in 1..Len(Script[kind]) /\ pc # 1
    BY <1>1, <1>2, <1>3, <2>1, <2>2
  <2>0. kind \in DOMAIN Script /\ live \in BOOLEAN /\ (pc = 1 => token = by)
    BY <1>1, <1>2, <2>3
  <2>4. /\ CallOK(next) /\ next # NoHandler /\ StepOf(next) = Script[kind][pc]
        /\ next.kind = kind /\ next.pc = pc /\ next.by = by
        /\ next.live = live /\ next.token = token /\ next.got = got
        /\ StepOf(next) = "load" =>
              DOMAIN next.reads = LoadParts(c) /\ \A p \in DOMAIN next.reads : next.reads[p] = Pending
    <3>1. CallMadeOf(next, kind, pc, by, live, c, token, got)
      BY <1>4, <2>0, <2>3, CallMade
    <3> QED BY <3>1 DEF CallMadeOf
  <2>5. CASE StepOf(next) = "push"
    <3>1. PICK k : k = Pushing(kind)
      OBVIOUS
    <3>2. kind \in {"askAndLoad", "ask", "request", "login"}
      <4>1. Script[kind][pc] = "push"
        BY <2>4, <2>5
      <4> QED BY <2>0, <2>3, <4>1, ScriptSteps
    <3>3. HandlerOK(k)' /\ ~k.live
      BY <3>1, <3>2, PushingOK
    <3>4. /\ handlers' = [handlers EXCEPT ![h] = k]
          /\ view' = view \/ (old.live /\ view' = [view EXCEPT !.busy = FALSE])
      BY <1>2, <1>3, <1>4, <1>6, <2>5, <3>1 DEF Proceed
    <3>5. /\ DOMAIN view' = DOMAIN view /\ view'.page = view.page /\ view'.data = view.data
          /\ view'.stray = view.stray /\ view'.busy \in BOOLEAN
          /\ view'.busy = view.busy \/ handlers[h].live
      BY <3>4 DEF ClientInv, ViewInv
    <3> QED BY <3>3, <3>4, <3>5, SameTab, Replaced
  <2>6. CASE StepOf(next) # "push"
    <3>1. handlers' = [handlers EXCEPT ![h] = next] /\ view' = view
      BY <1>2, <1>3, <1>4, <1>6, <2>6 DEF Proceed
    <3>2. Component' = Component /\ SameReader
      BY <3>1, SameTab
    <3>3. ActsFor(next)'
      <4>1. Proving(next) /\ got # -1 => Takes(old, got)
        BY <1>2, <1>3, <2>2, <2>3, <2>4 DEF Proving, Takes
      <4>2. kind = "verify" => registry'.ask # NoAsk /\ registry'.ask.buyerId = by
        BY <1>1, <1>2 DEF HandlerOK, ActsFor, RegistryGrows
      <4>3. Proving(next)' <=> Proving(next)
        BY DEF Proving, StepOf
      <4> QED BY <1>2, <2>4, <4>1, <4>2, <4>3 DEF ActsFor
    <3>4. LiveOK(next)'
      BY <1>1, <1>2, <2>4, <3>1, <3>2 DEF HandlerOK, LiveOK
    <3>5. LoadOK(next)'
      BY <1>2, <2>1, <2>4, <3>1, <3>2 DEF LoadOK, StepOf
    <3>6. HandlerOK(next)'
      BY <2>4, <3>3, <3>4, <3>5 DEF HandlerOK, CallOK
    <3>7. view'.busy \in BOOLEAN
      BY <3>1 DEF ClientInv, ViewInv
    <3> QED BY <1>2, <2>4, <3>1, <3>2, <3>6, <3>7, Replaced
  <2> QED BY <2>5, <2>6
<1> QED BY <1>5, <1>6

LEMMA ServeLoadStep ==
    ASSUME ClientInv, NEW h \in UnderWay, NEW part, ServeLoad(h, part)
    PROVE  ClientInv'
<1>1. PICK old, land : old = handlers[h] /\ land = registry
  OBVIOUS
<1>2. PICK read : read = [token |-> old.token, land |-> land]
  OBVIOUS
<1>3. PICK k : k = [old EXCEPT !.reads[part] = read]
  OBVIOUS
<1>4. /\ StepOf(old) = "load" /\ part \in DOMAIN old.reads /\ Readable(part, old.token)
      /\ handlers' = [handlers EXCEPT ![h] = k]
      /\ session' = session /\ view' = view /\ registry' = registry
  BY <1>1, <1>2, <1>3 DEF ServeLoad, At
<1>5. CallOK(old) /\ ActsFor(old) /\ LiveOK(old) /\ LoadOK(old)
  BY <1>1 DEF ClientInv, HandlersInv, HandlerOK
<1>6. /\ k.kind = old.kind /\ k.pc = old.pc /\ k.by = old.by /\ k.live = old.live /\ k.token = old.token
      /\ k.got = old.got /\ DOMAIN k = DOMAIN old /\ DOMAIN k.reads = DOMAIN old.reads
      /\ k.reads[part] = read /\ \A p \in DOMAIN old.reads \ {part} : k.reads[p] = old.reads[p]
  BY <1>3, <1>4, <1>5 DEF CallOK
<1>7. StepOf(k) = StepOf(old)
  BY <1>6 DEF StepOf
<1>8. Component' = Component /\ SameReader /\ RegistryInv /\ RegistryInv' /\ RegistryGrows
  BY <1>4, SameTab, RegistrySame DEF ClientInv
<1>9. CallOK(k) /\ ActsFor(k) /\ LiveOK(k)
  BY <1>5, <1>6, <1>7 DEF CallOK, ActsFor, Proving, LiveOK
<1>10. ReadOK(part, read, k.token)
  BY <1>1, <1>2, <1>4, <1>6, <1>8 DEF ReadOK, Readable, RegistryInv
<1>11. part \in DOMAIN view.data => view.data[part].land.version <= read.land.version
  BY <1>1, <1>2 DEF ClientInv, ViewInv, ReadOK
<1>12. LoadOK(k)
  BY <1>5, <1>6, <1>7, <1>10, <1>11 DEF LoadOK
<1>13. HandlerOK(k)'
  BY <1>4, <1>8, <1>9, <1>12, HandlerKept DEF HandlerOK
<1>14. view'.busy \in BOOLEAN
  BY <1>4 DEF ClientInv, ViewInv
<1> QED BY <1>1, <1>4, <1>6, <1>8, <1>13, <1>14, Replaced

LEMMA refreshStep ==
    ASSUME ClientInv, NEW h \in UnderWay, refresh(h)
    PROVE  ClientInv'
<1>1. PICK old, reads, idle : /\ old = handlers[h] /\ reads = old.reads
                             /\ idle = (view.busy /\ old.kind = "load")
  OBVIOUS
<1>2. /\ StepOf(old) = "load" /\ handlers' = [handlers EXCEPT ![h] = NoHandler]
      /\ session' = session /\ registry' = registry
  BY <1>1 DEF refresh, At
<1>3. HandlerOK(old) /\ LoadOK(old) /\ old.live
  BY <1>1, <1>2 DEF ClientInv, HandlersInv, HandlerOK, LoadOK
<1>4. RegistryInv' /\ RegistryGrows /\ RegistryInv
  BY <1>2, RegistrySame DEF ClientInv
<1>5. CASE view' = [view EXCEPT !.busy = idle]
  <2>1. /\ DOMAIN view' = DOMAIN view /\ view'.page = view.page /\ view'.data = view.data
        /\ view'.stray = view.stray /\ view'.busy \in BOOLEAN
    BY <1>1, <1>5 DEF ClientInv, ViewInv
  <2> QED BY <1>1, <1>2, <1>3, <1>4, <2>1, SameTab, Replaced
<1>6. CASE /\ \A part \in DOMAIN reads : reads[part] # Pending
           /\ view' = [view EXCEPT !.data = reads, !.busy = idle]
  <2>1. /\ DOMAIN view' = DOMAIN view /\ view'.page = view.page /\ view'.data = reads
        /\ view'.stray = view.stray /\ view'.busy \in BOOLEAN
    BY <1>1, <1>6 DEF ClientInv, ViewInv
  <2>2. Component' = Component /\ SameReader
    BY <1>2, <2>1, SameTab
  <2>3. ASSUME NEW part \in DOMAIN reads
        PROVE  ReadOK(part, reads[part], reads[part].token)' /\ reads[part].token = old.token
    BY <1>1, <1>2, <1>3, <1>6 DEF LoadOK, ReadOK
  <2>4. ViewInv'
    BY <1>1, <1>2, <1>3, <2>1, <2>2, <2>3 DEF ClientInv, ViewInv, LoadOK, ReadOK
  <2>5. ShownToItsReader'
    BY <1>2, <1>3, <2>1, <2>3 DEF LoadOK, ShownToItsReader
  <2>6. ASSUME NEW g \in UnderWay' PROVE HandlerOK(handlers[g])' /\ ~handlers'[g].live
    <3>1. PICK k : k = handlers'[g]
      OBVIOUS
    <3>2. g \in UnderWay /\ g # h /\ k = handlers[g]
      BY <1>2, <2>6, <3>1 DEF UnderWay, ClientInv, HandlersInv
    <3>3. HandlerOK(k) /\ ~k.live
      BY <1>1, <1>3, <3>2 DEF ClientInv, HandlersInv
    <3>4. CallOK(k)' /\ ActsFor(k)'
      BY <1>4, <3>3, ActsForKept DEF HandlerOK, CallOK
    <3>5. LiveOK(k)' /\ LoadOK(k)'
      BY <3>3 DEF HandlerOK, LiveOK, LoadOK, StepOf
    <3>6. HandlerOK(k)'
      BY <3>4, <3>5 DEF HandlerOK
    <3> QED BY <3>1, <3>3, <3>6, HandlerNow
  <2>7. HandlersInv'
    BY <1>2, <2>6 DEF ClientInv, HandlersInv
  <2> QED BY <1>4, <2>4, <2>5, <2>7 DEF ClientInv
<1> QED BY <1>1, <1>5, <1>6 DEF refresh

LEMMA ThrowStep == ASSUME ClientInv, NEW h \in UnderWay, Throw(h) PROVE ClientInv'
<1>1. RegistryInv' /\ RegistryGrows /\ session' = session
  BY RegistrySame DEF Throw, ClientInv
<1> QED BY <1>1, FinishStep DEF Throw

LEMMA ReadLandStep == ASSUME ClientInv, NEW h \in UnderWay, ReadLand(h) PROVE ClientInv'
<1>1. PICK old : old = handlers[h]
  OBVIOUS
<1>2. RegistryInv /\ RegistryInv' /\ RegistryGrows /\ session' = session /\ registry' = registry
  BY RegistrySame DEF ReadLand, ClientInv
<1>3. PICK got : /\ Proceed(h, got)
                 /\ old.kind # "verify" => got = IF registry.ownerId = old.by THEN registry.sales ELSE -1
  BY <1>1 DEF ReadLand
<1>4. registry.status # "none"
  BY DEF ReadLand, Readable
<1>5. Takes(old, got) => got = registry.sales /\ registry.ownerId = old.by
  BY <1>3 DEF Takes
<1> QED BY <1>1, <1>2, <1>3, <1>4, <1>5, ProceedStep DEF RegistryInv

LEMMA ReadChallengeStep == ASSUME ClientInv, NEW h \in UnderWay, ReadChallenge(h) PROVE ClientInv'
<1>1. PICK old : old = handlers[h]
  OBVIOUS
<1>2. RegistryInv /\ RegistryInv' /\ RegistryGrows /\ session' = session /\ registry' = registry
  BY RegistrySame DEF ReadChallenge, ClientInv
<1>3. PICK got : Proceed(h, got) /\ (old.kind # "verify" => got = old.got)
  BY <1>1 DEF ReadChallenge
<1>4. ActsFor(old) /\ StepOf(old) = "challenge"
  BY <1>1 DEF ReadChallenge, At, ClientInv, HandlersInv, HandlerOK
<1>5. Takes(old, got) => got = old.got /\ Proving(old) /\ old.got # -1
  BY <1>3, <1>4 DEF Takes, Proving
<1> QED BY <1>1, <1>2, <1>3, <1>4, <1>5, ProceedStep DEF ActsFor

LEMMA ProveStep == ASSUME ClientInv, NEW h \in UnderWay, Prove(h) PROVE ClientInv'
<1>1. PICK old, got : old = handlers[h] /\ got = old.got
  OBVIOUS
<1>2. RegistryInv /\ RegistryInv' /\ RegistryGrows /\ session' = session /\ registry' = registry
  BY RegistrySame DEF Prove, ClientInv
<1>3. Proceed(h, got) /\ StepOf(old) \in {"prove", "check"}
  BY <1>1 DEF Prove, At
<1>4. ActsFor(old) /\ CallOK(old)
  BY <1>1 DEF ClientInv, HandlersInv, HandlerOK
<1>5. StepOf(old) = "check" => old.kind = "verify"
  BY <1>4, ScriptSteps DEF CallOK, StepOf
<1>6. Takes(old, got) => Proving(old) /\ old.got # -1
  BY <1>1, <1>3, <1>5 DEF Takes, Proving
<1> QED BY <1>1, <1>2, <1>3, <1>4, <1>6, ProceedStep DEF ActsFor

LEMMA WriteStep == ASSUME ClientInv, NEW h \in UnderWay, Write(h) PROVE ClientInv'
<1>1. PICK old, op, who, proof, zero : /\ old = handlers[h] /\ op = StepOf(old) /\ who = old.token
                                      /\ proof = old.got /\ zero = 0
  OBVIOUS
<1>2. /\ op \in Writes /\ Accepts(op, who, registry, proof) /\ session' = session
      /\ op \in Silent => registry' = registry
      /\ op \notin Silent => registry' = Changed(op, who)
      /\ Proceed(h, zero) \/ Finish(h)
  BY <1>1 DEF Write
<1>3. RegistryInv' /\ RegistryGrows
  <2>1. CASE op \in Silent
    BY <1>2, <2>1, RegistrySame DEF ClientInv
  <2>2. CASE op \notin Silent
    BY <1>2, <2>2, RegistryChanged DEF ClientInv
  <2> QED BY <2>1, <2>2
<1>4. CallOK(old)
  BY <1>1 DEF ClientInv, HandlersInv, HandlerOK
<1>5. ~Takes(old, zero)
  <2>1. op \notin {"land", "challenge", "prove"} /\ op = Script[old.kind][old.pc]
    BY <1>1, <1>2 DEF Writes, StepOf
  <2> QED BY <1>4, <2>1, ScriptSteps DEF Takes, CallOK
<1> QED BY <1>1, <1>2, <1>3, <1>5, ProceedStep, FinishStep

LEMMA SignedInStep == ASSUME ClientInv, NEW h \in UnderWay, SignedIn(h) PROVE ClientInv'
<1>1. PICK old, k, login : old = handlers[h] /\ login = "login" /\ k = Pushing(login)
  OBVIOUS
<1>2. PICK pushing : pushing = [handlers EXCEPT ![h] = k]
  OBVIOUS
<1>3. StepOf(old) = "login" /\ session' = old.by /\ registry' = registry
  BY <1>1 DEF SignedIn, At
<1>4. HandlerOK(old) /\ CallOK(old) /\ old.live \in BOOLEAN
  BY <1>1 DEF ClientInv, HandlersInv, HandlerOK, CallOK
<1>5. old.live => Component = "login"
  <2>1. old.kind = "login"
    BY <1>3, <1>4, ScriptSteps DEF CallOK, StepOf
  <2> QED BY <1>4, <2>1 DEF HandlerOK, LiveOK
<1>6. HandlerOK(k)' /\ ~k.live
  BY <1>1, PushingOK
<1>7. CASE Show(view.page, old.by, pushing)
  <2>1. CallOK(k) /\ ActsFor(k)
    <3>1. k.kind = "login" /\ StepOf(k) = "push"
      BY <1>1 DEF Pushing, Call, StepOf, Script, signIn
    <3> QED BY <1>6, <3>1 DEF HandlerOK, CallOK, ActsFor, Proving
  <2>2. DOMAIN pushing = Slots
    BY <1>2 DEF ClientInv, HandlersInv
  <2>3. \A g \in Slots : pushing[g] = NoHandler \/ (CallOK(pushing[g]) /\ ActsFor(pushing[g]))
    BY <1>2, <2>1 DEF ClientInv, HandlersInv, HandlerOK, UnderWay
  <2>4. PICK place, user : place = view.page /\ user = old.by
    OBVIOUS
  <2>5. place \in Pages
    BY <2>4 DEF ClientInv, ViewInv
  <2> QED BY <1>3, <1>7, <2>2, <2>3, <2>4, <2>5, ShowStep
<1>8. CASE /\ Stays(view.page, old.by) /\ handlers' = pushing
           /\ view' = IF old.live THEN [view EXCEPT !.busy = FALSE] ELSE [view EXCEPT !.stray = TRUE]
  <2>1. /\ DOMAIN view' = DOMAIN view /\ view'.page = view.page /\ view'.data = view.data
        /\ view'.busy \in BOOLEAN
        /\ view'.busy = view.busy \/ old.live
        /\ old.live \/ view'.stray
    BY <1>4, <1>8 DEF ClientInv, ViewInv
  <2>2. Component' = Component
    BY <1>3, <1>8, <2>1 DEF Stays, Component
  <2>3. SameReader
    BY <1>5, <2>1, <2>2 DEF SameReader
  <2>4. RegistryInv' /\ RegistryGrows
    BY <1>3, RegistrySame DEF ClientInv
  <2> QED BY <1>1, <1>2, <1>6, <1>8, <2>1, <2>3, <2>4, Replaced
<1> QED BY <1>1, <1>2, <1>7, <1>8 DEF SignedIn

LEMMA ReloadStep == ASSUME ClientInv, NEW place \in Pages, Reload(place) PROVE ClientInv'
<1>1. PICK left, user : left = [h \in Slots |-> NoHandler] /\ user = session
  OBVIOUS
<1>2. DOMAIN left = Slots /\ \A h \in Slots : left[h] = NoHandler
  BY <1>1
<1>3. /\ view' = Blank(place) /\ Load(left, ComponentOf(place, user), user)
      /\ user = session' /\ registry' = registry
  BY <1>1 DEF Reload
<1> QED BY <1>2, <1>3, Mounted

LEMMA PushStep == ASSUME ClientInv, NEW h \in UnderWay, Push(h) PROVE ClientInv'
<1>1. PICK to \in Pages : \/ Reload(to)
                          \/ /\ UNCHANGED <<session, registry>>
                             /\ \/ Show(to, session, [handlers EXCEPT ![h] = NoHandler])
                                \/ /\ UNCHANGED view
                                   /\ handlers' = [handlers EXCEPT ![h] = NoHandler]
  BY DEF Push, Pages
<1>2. CASE Reload(to)
  BY <1>2, ReloadStep
<1>3. CASE UNCHANGED <<session, registry>> /\ Show(to, session, [handlers EXCEPT ![h] = NoHandler])
  <2>1. PICK hs, user : hs = [handlers EXCEPT ![h] = NoHandler] /\ user = session
    OBVIOUS
  <2>2. /\ DOMAIN hs = Slots
        /\ \A g \in Slots : hs[g] = NoHandler \/ (CallOK(hs[g]) /\ ActsFor(hs[g]))
    BY <2>1 DEF ClientInv, HandlersInv, HandlerOK, UnderWay
  <2> QED BY <1>3, <2>1, <2>2, ShowStep
<1>4. CASE UNCHANGED <<session, registry, view>> /\ handlers' = [handlers EXCEPT ![h] = NoHandler]
  <2>1. RegistryInv' /\ RegistryGrows
    BY <1>4, RegistrySame DEF ClientInv
  <2>2. SameReader /\ view'.busy \in BOOLEAN
    BY <1>4, SameTab DEF ClientInv, ViewInv
  <2> QED BY <1>4, <2>1, <2>2, Replaced
<1> QED BY <1>1, <1>2, <1>3, <1>4

LEMMA NavigateStep == ASSUME ClientInv, NEW place \in Pages, Navigate(place) PROVE ClientInv'
<1>1. PICK hs, user : hs = handlers /\ user = session
  OBVIOUS
<1>2. /\ DOMAIN hs = Slots
      /\ \A g \in Slots : hs[g] = NoHandler \/ (CallOK(hs[g]) /\ ActsFor(hs[g]))
  BY <1>1 DEF ClientInv, HandlersInv, HandlerOK, UnderWay
<1>3. Show(place, user, hs) /\ user = session' /\ registry' = registry
  BY <1>1 DEF Navigate
<1> QED BY <1>2, <1>3, ShowStep

LEMMA logoutStep == ASSUME ClientInv, logout PROVE ClientInv'
<1>1. session' = Nobody /\ registry' = registry
  BY DEF logout
<1>2. CASE Show(view.page, Nobody, handlers)
  <2>1. PICK hs, user, place : hs = handlers /\ user = Nobody /\ place = view.page
    OBVIOUS
  <2>2. /\ DOMAIN hs = Slots /\ place \in Pages
        /\ \A g \in Slots : hs[g] = NoHandler \/ (CallOK(hs[g]) /\ ActsFor(hs[g]))
    BY <2>1 DEF ClientInv, HandlersInv, HandlerOK, UnderWay, ViewInv
  <2> QED BY <1>1, <1>2, <2>1, <2>2, ShowStep
<1>3. CASE Stays(view.page, Nobody) /\ UNCHANGED <<view, handlers>>
  <2>1. Component' = Component
    BY <1>1, <1>3 DEF Stays, Component
  <2>2. Visible(view.page, session)' => view.page = "login"
    BY <1>1, <1>3 DEF Visible, ProtectedPages, ClientInv, ViewInv
  <2>3. view.page = "login" => Component = "login"
    BY DEF Component, ComponentOf
  <2>4. SameReader
    BY <2>1, <2>2, <2>3 DEF SameReader
  <2> QED BY <1>1, <1>3, <2>4, RegistrySame, TabKept DEF ClientInv
<1> QED BY <1>2, <1>3 DEF logout

LEMMA OtherTabStep ==
    ASSUME ClientInv, NEW op \in Writes \ Silent, NEW who, OtherTab(op, who)
    PROVE  ClientInv'
<1>1. PICK proof : proof = registry.sales
  OBVIOUS
<1>2. /\ Accepts(op, who, registry, proof) /\ registry' = Changed(op, who)
      /\ UNCHANGED <<session, view, handlers>>
  BY <1>1 DEF OtherTab
<1>3. RegistryInv' /\ RegistryGrows
  BY <1>2, RegistryChanged DEF ClientInv
<1> QED BY <1>2, <1>3, SameTab, TabKept

-----------------------------------------------------------------------------
LEMMA ClientInitially == ClientInit => ClientInv
<1> SUFFICES ASSUME ClientInit PROVE ClientInv
  OBVIOUS
<1>1. \A ask \in Asks \cup {NoAsk} : DOMAIN ask = {"status", "buyerId", "sellerId", "proof"}
  BY DEF Asks, NoAsk
<1>2. RegistryInv
  <2>1. PICK status, owner, ask : ask \in Asks \cup {NoAsk} /\ registry = Land(status, owner, ask)
    BY DEF ClientInit
  <2>2. /\ DOMAIN registry = {"status", "ownerId", "sales", "ask", "version"}
        /\ registry.ask = ask /\ registry.sales = 0 /\ registry.version = 0
    BY <2>1 DEF Land
  <2> QED BY <1>1, <2>1, <2>2 DEF RegistryInv
<1>3. /\ view.page = "login" /\ view.data = << >> /\ DOMAIN view.data = {} /\ view.busy = FALSE
      /\ DOMAIN view = {"page", "data", "busy", "stray"}
  BY DEF ClientInit, Blank
<1>4. ViewInv /\ ShownToItsReader
  BY <1>3 DEF ViewInv, ShownToItsReader, Pages
<1>5. HandlersInv
  BY DEF ClientInit, HandlersInv, UnderWay
<1> QED BY <1>2, <1>4, <1>5 DEF ClientInv

LEMMA ClientStep == ClientInv /\ [ClientNext]_clientVars => ClientInv'
<1> SUFFICES ASSUME ClientInv, [ClientNext]_clientVars PROVE ClientInv'
  OBVIOUS
<1>1. ASSUME NEW place \in Pages, Navigate(place) PROVE ClientInv'
  BY <1>1, NavigateStep
<1>2. ASSUME Reload(view.page) PROVE ClientInv'
  <2>1. PICK place : place = view.page
    OBVIOUS
  <2>2. place \in Pages
    BY <2>1 DEF ClientInv, ViewInv
  <2> QED BY <1>2, <2>1, <2>2, ReloadStep
<1>3. ASSUME logout PROVE ClientInv'
  BY <1>3, logoutStep
<1>4. ASSUME Redirect PROVE ClientInv'
  <2>1. PICK place \in Pages : Navigate(place)
    BY <1>4 DEF Redirect, Pages
  <2> QED BY <2>1, NavigateStep
<1>5. ASSUME NEW kind, NEW by, Press(kind, by) PROVE ClientInv'
  BY <1>5, PressStep
<1>6. ASSUME NEW h \in UnderWay, HandlerStep(h) PROVE ClientInv'
  BY <1>6, ThrowStep, ReadLandStep, ReadChallengeStep, ProveStep, WriteStep, SignedInStep, PushStep,
     refreshStep, ServeLoadStep DEF HandlerStep
<1>7. ASSUME NEW op \in Writes \ Silent, NEW who, OtherTab(op, who) PROVE ClientInv'
  BY <1>7, OtherTabStep
<1>8. CASE UNCHANGED clientVars
  <2>1. UNCHANGED <<session, view, handlers, registry>>
    BY <1>8 DEF clientVars
  <2> QED BY <2>1, SameTab, RegistrySame, TabKept DEF ClientInv
<1> QED BY <1>1, <1>2, <1>3, <1>4, <1>5, <1>6, <1>7, <1>8 DEF ClientNext

(* authStore.ts, ProtectedRoute.tsx and the pages' effects: what a page shows was read *)
(* by the user it is shown to, whatever sessions follow each other in the tab and      *)
(* whenever answers arrive, unless a sign-in was answered after its page was left. *)
THEOREM ShownOnlyToItsReader == ClientSpec => []ShownToItsReader
<1>1. ClientInv => ShownToItsReader
  BY DEF ClientInv
<1> QED BY <1>1, ClientInitially, ClientStep, PTL DEF ClientSpec

-----------------------------------------------------------------------------
LEMMA ActsForItsUser ==
    ASSUME ClientInv, NEW h \in UnderWay, Write(h)
    PROVE  handlers[h].token = handlers[h].by
<1>1. PICK old, op : old = handlers[h] /\ op = StepOf(old)
  OBVIOUS
<1>2. op \in Writes /\ Accepts(op, old.token, registry, old.got)
  BY <1>1 DEF Write
<1>3. CallOK(old) /\ ActsFor(old) /\ registry.sales \in Nat
  BY <1>1 DEF ClientInv, HandlersInv, HandlerOK, RegistryInv
<1>4. \/ old.pc = 1
      \/ old.kind \in {"respond", "answer", "submit"} /\ op \in {"respond", "submit"}
      \/ op = "verify" /\ old.kind = "verify"
  BY <1>1, <1>2, <1>3, ScriptSteps DEF CallOK, StepOf
<1>5. CASE old.pc = 1
  BY <1>1, <1>3, <1>5 DEF CallOK
<1>6. CASE old.kind \in {"respond", "answer", "submit"} /\ op \in {"respond", "submit"}
  <2>1. registry.ownerId = old.token /\ old.got = registry.sales
    BY <1>2, <1>6 DEF Accepts, OwnerProves
  <2>2. Proving(old) /\ old.got # -1
    BY <1>1, <1>3, <1>6, <2>1 DEF Proving
  <2> QED BY <1>1, <1>3, <2>1, <2>2 DEF ActsFor
<1>7. CASE op = "verify" /\ old.kind = "verify"
  <2>1. old.token = registry.ask.buyerId
    BY <1>2, <1>7 DEF Accepts, Buys
  <2> QED BY <1>1, <1>3, <1>7, <2>1 DEF ActsFor
<1> QED BY <1>4, <1>5, <1>6, <1>7

(* api.ts reads the token for each call: a write that the server carries out is the *)
(* user's who pressed the button, though the session may have changed since. *)
THEOREM ActsOnlyForItsUser == ClientSpec => ActedByItsUser
<1>1. ClientInv /\ [ClientNext]_clientVars
      => [\A h \in UnderWay : Write(h) => handlers[h].token = handlers[h].by]_clientVars
  BY ActsForItsUser
<1> QED BY <1>1, ClientInitially, ClientStep, PTL DEF ClientSpec, ActedByItsUser

-----------------------------------------------------------------------------
LEMMA DataStep ==
    ASSUME ClientInv, [ClientNext]_clientVars
    PROVE  view'.data \in {view.data, << >>} \/ \E h \in UnderWay : refresh(h)
<1>1. \A place, user, hs : Show(place, user, hs) => view'.data = << >>
  BY DEF Show, Blank
<1>2. \A place : Reload(place) \/ Navigate(place) => view'.data = << >>
  BY <1>1 DEF Reload, Navigate, Blank
<1>3. (\E place \in Pages : Navigate(place)) \/ Reload(view.page) \/ Redirect => view'.data = << >>
  BY <1>2 DEF Redirect
<1>4. logout => view'.data \in {view.data, << >>}
  BY <1>1 DEF logout
<1>5. ASSUME NEW kind, NEW by, Press(kind, by) PROVE view'.data = view.data
  BY <1>5 DEF Press, ClientInv, ViewInv
<1>6. ASSUME NEW h \in UnderWay, HandlerStep(h), ~refresh(h) PROVE view'.data \in {view.data, << >>}
  <2>1. Finish(h) => view'.data = view.data
    BY DEF Finish, ClientInv, ViewInv
  <2>2. \A got : Proceed(h, got) => view'.data = view.data
    BY <2>1 DEF Proceed, ClientInv, ViewInv
  <2>3. Throw(h) \/ ReadLand(h) \/ ReadChallenge(h) \/ Prove(h) \/ Write(h) => view'.data = view.data
    BY <2>1, <2>2 DEF Throw, ReadLand, ReadChallenge, Prove, Write
  <2>4. SignedIn(h) => view'.data \in {view.data, << >>}
    BY <1>1 DEF SignedIn, ClientInv, ViewInv
  <2>5. Push(h) => view'.data \in {view.data, << >>}
    BY <1>1, <1>2 DEF Push
  <2>6. ASSUME NEW part, ServeLoad(h, part) PROVE view'.data = view.data
    BY <2>6 DEF ServeLoad
  <2> QED BY <1>6, <2>3, <2>4, <2>5, <2>6 DEF HandlerStep
<1>7. ASSUME NEW op, NEW who, OtherTab(op, who) PROVE view'.data = view.data
  BY <1>7 DEF OtherTab
<1>8. UNCHANGED clientVars => view'.data = view.data
  BY DEF clientVars
<1> QED BY <1>3, <1>4, <1>5, <1>6, <1>7, <1>8 DEF ClientNext

LEMMA NeverOlder ==
    ASSUME ClientInv, [ClientNext]_clientVars, NEW part \in DOMAIN view.data \cap DOMAIN view'.data
    PROVE  view.data[part].land.version <= view'.data[part].land.version
<1>1. CASE view'.data = view.data
  <2>1. view.data[part].land.version \in Nat
    BY DEF ClientInv, ViewInv, ReadOK
  <2> QED BY <1>1, <2>1
<1>2. CASE view'.data = << >>
  BY <1>2
<1>3. ASSUME NEW h \in UnderWay, refresh(h), view'.data # view.data
      PROVE  view.data[part].land.version <= view'.data[part].land.version
  <2>1. PICK old, reads : old = handlers[h] /\ reads = handlers[h].reads
    OBVIOUS
  <2>2. StepOf(old) = "load" /\ LoadOK(old)
    BY <1>3, <2>1 DEF refresh, At, ClientInv, HandlersInv, HandlerOK
  <2>3. view'.data = reads /\ \A p \in DOMAIN reads : reads[p] # Pending
    BY <1>3, <2>1 DEF refresh, ClientInv, ViewInv
  <2> QED BY <2>1, <2>2, <2>3 DEF LoadOK
<1> QED BY <1>1, <1>2, <1>3, DataStep

(* lands/[landId]/page.tsx, challenges/[challengeId]/page.tsx: as long as it is mounted *)
(* the page of a land or of a challenge never goes back to an older state of the *)
(* registry, since no two of its refreshes are under way together. *)
THEOREM ShownNeverOlder == ClientSpec => ShownInOrder
<1>1. ClientInv /\ [ClientNext]_clientVars
      => [ComponentOf(view'.page, session') \in {"land", "challenge"} =>
             \A part \in DOMAIN view.data \cap DOMAIN view'.data :
                 view.data[part].land.version <= view'.data[part].land.version]_clientVars
  BY NeverOlder
<1> QED BY <1>1, ClientInitially, ClientStep, PTL DEF ClientSpec, ShownInOrder

-----------------------------------------------------------------------------
(***************************************************************************)
(* ProverKeys.  What a tab downloads, for any number of calls and setups.  *)
(***************************************************************************)
(* A promise that is not asked for was not downloaded *)
DownloadInv ==
    /\ downloads \in [Artifacts -> Nat] /\ DOMAIN promises = Artifacts
    /\ \A a \in Artifacts : /\ downloads[a] <= 1
                            /\ promises[a] = Unasked => downloads[a] = 0

LEMMA DownloadInitially == KeysInit => DownloadInv
BY DEF KeysInit, DownloadInv, Artifacts, Unasked

LEMMA DownloadStep ==
    ASSUME DownloadInv, [KeysNext]_keyVars
    PROVE  DownloadInv'
<1> USE DEF DownloadInv
<1>1. CASE UNCHANGED <<promises, downloads>>
  BY <1>1
<1>2. ASSUME NEW c \in Calls, FetchArtifacts(c) PROVE DownloadInv'
  BY <1>2 DEF FetchArtifacts, Uncached, Unasked, Unsettled
<1>3. ASSUME NEW a \in Artifacts, Arrives(a) PROVE DownloadInv'
  BY <1>3 DEF Arrives, Settled, Unasked, Unsettled
<1>4. CASE LoadTab
  BY <1>4 DEF LoadTab
<1> QED BY <1>1, <1>2, <1>3, <1>4 DEF KeysNext, keyVars, Compile, Contribute, ExportKey, Begin,
        Compute, verifyWithCircuit, Expires

-----------------------------------------------------------------------------
(* A tab downloads an artifact once, however many calls ask for it before it is there. *)
THEOREM DownloadedOnce == KeysSpec => []OneDownload
<1>1. DownloadInv => OneDownload
  BY DEF DownloadInv, OneDownload
<1> QED BY <1>1, DownloadInitially, DownloadStep, PTL DEF KeysSpec
=============================================================================
