------------------------------- MODULE WebClient -------------------------------
(***************************************************************************)
(* One tab of the web client: the session store, and the pages with the    *)
(* handlers of their buttons, beside the server's handlers, whose guards   *)
(* are taken in one step, and the other tabs.                              *)
(*                                                                         *)
(* A handler awaits one call after the other.  Each call carries the token *)
(* that is stored when it is sent, the handler goes on when its page is    *)
(* left, and its page then shows nothing of what it sets.  A token stands  *)
(* for its user; sessionStorage and the store are always written together. *)
(* One land and at most one challenge; a user's secret opens the           *)
(* commitment of a sale to that user.                                      *)
(***************************************************************************)
EXTENDS Integers, Sequences

CONSTANTS
    Nobody,
    Users, Registrar,  \* the authority
    FirstSeller,
    HandlerLimit,      \* bound: handlers under way
    ChangeLimit        \* bound: changes of the registry; a write beyond them fails

ASSUME ClientAssumption ==
    /\ FirstSeller \in Users /\ {Nobody, Registrar} \cap Users = {} /\ Nobody # Registrar
    /\ HandlerLimit \in Nat /\ ChangeLimit \in Nat

VARIABLES
    session,   \* the user whose token is stored
    view,      \* the page, its data, whether it is busy, and whether a sign-in made
               \* on a page that was left was answered since it is shown
    handlers,  \* Slots -> the handlers under way, NoHandler where there is none
    registry   \* the server's documents

clientVars == <<session, view, handlers, registry>>

Everybody == Users \cup {Registrar}
Slots == 1..HandlerLimit
NoHandler == [kind |-> "idle"]
UnderWay == {h \in Slots : handlers[h] # NoHandler}

Pending == [token |-> "pending"]
NoAsk == [status |-> "none", buyerId |-> Nobody, sellerId |-> Nobody, proof |-> -1]
Land(status, owner, ask) ==
    [status |-> status, ownerId |-> owner, sales |-> 0, ask |-> ask, version |-> 0]

-----------------------------------------------------------------------------
(* The server: guards of the roles, the middlewares and the services, and effects *)
ActiveLand(r) == r.status \in {"REGISTERED", "LISTED_FOR_SALE"}
OpenAsk(r) == r.ask.status \in {"PENDING", "PROOF_SUBMITTED"}
Sells(who, r) == who = r.ask.sellerId
ProofHolds(r) == r.ask.proof = r.sales /\ r.ownerId = r.ask.sellerId

(* submitProof: the owner, with a proof of the present commitment *)
OwnerProves(who, r, proof) == ActiveLand(r) /\ r.ownerId = who /\ proof = r.sales

(* Mutant: whoever is signed in may buy *)
Buys_Anybody(who, r) == TRUE

Buys(who, r) == who = r.ask.buyerId

Accepts(op, who, r, proof) ==
    CASE op = "request" -> r.status = "none" /\ who \in Users
      [] op \in {"approve", "reject"} -> r.status = "PENDING_APPROVAL" /\ who = Registrar
      [] op = "sell" -> r.status = "REGISTERED" /\ who = r.ownerId
      [] op = "cancel" -> r.status = "LISTED_FOR_SALE" /\ who = r.ownerId
      [] op = "ask" -> r.status = "LISTED_FOR_SALE" /\ who \in Users \ {r.ownerId} /\ r.ask = NoAsk
      [] op = "respond" -> OpenAsk(r) /\ Sells(who, r) /\ OwnerProves(who, r, proof)
      [] op = "verify" -> Buys(who, r) /\ r.ask.status = "PROOF_SUBMITTED"
      [] op = "decline" -> Sells(who, r) /\ r.ask.status = "PENDING"
      [] op = "message" -> r.ask # NoAsk /\ who \in {r.ask.buyerId, r.ask.sellerId, Registrar}
      [] op = "buy" -> /\ r.status = "LISTED_FOR_SALE" /\ who \in Users \ {r.ownerId}
                       /\ r.ask.status = "VERIFIED" /\ Buys(who, r) /\ ProofHolds(r)
      [] op = "submit" -> OwnerProves(who, r, proof)

Effect(op, who, r) ==
    CASE op = "request" -> [r EXCEPT !.status = "PENDING_APPROVAL", !.ownerId = who]
      [] op = "approve" -> [r EXCEPT !.status = "REGISTERED"]
      [] op = "reject" -> [r EXCEPT !.status = "REJECTED"]
      [] op = "sell" -> [r EXCEPT !.status = "LISTED_FOR_SALE"]
      [] op = "cancel" -> [r EXCEPT !.status = "REGISTERED"]
      [] op = "ask" -> [r EXCEPT !.ask = [status |-> "PENDING", buyerId |-> who,
                                         sellerId |-> r.ownerId, proof |-> -1]]
      [] op = "respond" -> [r EXCEPT !.ask.status = "PROOF_SUBMITTED", !.ask.proof = r.sales]
      [] op = "verify" -> [r EXCEPT !.ask.status =
                              IF r.status = "LISTED_FOR_SALE" /\ ProofHolds(r)
                              THEN "VERIFIED" ELSE "FAILED"]
      [] op = "decline" -> [r EXCEPT !.ask.status = "DECLINED"]
      [] op = "buy" -> [r EXCEPT !.status = "PENDING_APPROVAL", !.ownerId = who, !.sales = @ + 1,
                                 !.ask.status = IF OpenAsk(r) THEN "FAILED" ELSE @]

Writes == {"request", "approve", "reject", "sell", "cancel", "ask", "respond", "verify",
           "decline", "message", "buy", "submit"}
Silent == {"message", "submit"}   \* what they add is no part of the registry here
Changed(op, who) == [Effect(op, who, registry) EXCEPT !.version = @ + 1]

(* getLand, listLands, getChallenge, listChallenges, listPendingRequests *)
Readable(part, who) ==
    /\ who # Nobody
    /\ part = "land" => registry.status # "none"
    /\ part = "challenge" => /\ registry.ask # NoAsk
                             /\ who \in {registry.ask.buyerId, registry.ask.sellerId, Registrar}
    /\ part = "requests" => who = Registrar

-----------------------------------------------------------------------------
(* What the handlers await, in order; a refresh comes last and never fails one *)
listForSale == <<"sell", "load">>
cancelSale == <<"cancel", "load">>
decide(decision) == <<decision, "load">>
askAuthenticity == <<"ask", "push">>
buy == <<"buy", "load">>
call(op) == <<op, "load">>
respond == <<"land", "prove", "respond", "load">>
verifyAsBuyer == <<"challenge", "land", "check", "verify", "load">>
onSubmit == <<"land", "prove", "submit">>
onSubmitForChallenge == <<"land", "challenge", "prove", "respond">>
requestLand == <<"request", "push">>
signIn == <<"login", "push">>

Script ==
    [load |-> <<"load">>, sell |-> listForSale, cancel |-> cancelSale,
     approve |-> decide("approve"), reject |-> decide("reject"),
     askAndLoad |-> askAuthenticity, ask |-> askAuthenticity, buy |-> buy,
     message |-> call("message"), decline |-> call("decline"), respond |-> respond,
     verify |-> verifyAsBuyer, submit |-> onSubmit, answer |-> onSubmitForChallenge,
     request |-> requestLand, login |-> signIn]

StepOf(h) == Script[h.kind][h.pc]
At(h, step) == StepOf(handlers[h]) = step

(* The reads of a component that its buttons depend on, which go out together *)
LoadParts(component) ==
    CASE component \in {"UserDashboard", "generate"} -> {"lands"}
      [] component = "AuthorityDashboard" -> {"requests"}
      [] component = "land" -> {"land", "challenges"}
      [] component = "challenge" -> {"challenge"}
      [] OTHER -> {}

-----------------------------------------------------------------------------
(* The buttons of each component, given what it loaded and the user of the store *)
userDashboardOffers(r, user) ==
    (IF r.ownerId = user /\ r.status = "REGISTERED" THEN {"sell"} ELSE {})
    \cup (IF r.ownerId = user /\ r.status = "LISTED_FOR_SALE" THEN {"cancel"} ELSE {})
    \cup (IF r.ownerId # user /\ r.status = "LISTED_FOR_SALE" THEN {"askAndLoad"} ELSE {})

authorityDashboardOffers(r) ==
    IF r.status = "PENDING_APPROVAL" THEN {"approve", "reject"} ELSE {}

landOffers(r, asked, user) ==
    IF r.ownerId = user \/ r.status # "LISTED_FOR_SALE" THEN {}
    ELSE IF asked.ask.buyerId = user /\ asked.ask.status = "VERIFIED" THEN {"buy"}
    ELSE IF asked.ask.buyerId = user /\ OpenAsk(asked) THEN {}
    ELSE {"ask"}

challengeOffers(r, user) ==
    {"message"}
    \cup (IF Sells(user, r) /\ OpenAsk(r) THEN {"respond"} ELSE {})
    \cup (IF Sells(user, r) /\ r.ask.status = "PENDING" THEN {"decline"} ELSE {})
    \cup (IF Buys(user, r) /\ r.ask.status = "PROOF_SUBMITTED" THEN {"verify"} ELSE {})

generateOffers(r, user) ==
    IF r.ownerId = user /\ ActiveLand(r) THEN {"submit", "answer"} ELSE {}

Pages == {"login", "dashboard", "request", "land", "challenge", "generate"}
ProtectedPages == Pages \ {"login"}

(* Mutant: the children are shown to anybody *)
Visible_Always(place, user) == TRUE

(* ProtectedRoute shows its children to a user; the page's own effects run anyway *)
Visible(place, user) == place \in ProtectedPages => user # Nobody

(* What is mounted: the form and the dashboards are children of the route *)
ComponentOf(place, user) ==
    IF place \in {"dashboard", "generate"} /\ user = Nobody THEN "none"
    ELSE IF place = "dashboard"
    THEN IF user = Registrar THEN "AuthorityDashboard" ELSE "UserDashboard"
    ELSE place

Component == ComponentOf(view.page, session)

Offers ==
    LET loaded(part) == view.data[part].land
    IN IF Component \in {"login", "request"} THEN {Component}
       ELSE IF view.data = << >> THEN {}
       ELSE CASE Component = "UserDashboard" -> userDashboardOffers(loaded("lands"), session)
              [] Component = "AuthorityDashboard" -> authorityDashboardOffers(loaded("requests"))
              [] Component = "land" -> landOffers(loaded("land"), loaded("challenges"), session)
              [] Component = "challenge" -> challengeOffers(loaded("challenge"), session)
              [] Component = "generate" -> generateOffers(loaded("lands"), session)

-----------------------------------------------------------------------------
(* api: a call goes out with the token of the moment *)
Call(kind, pc, by, live, component, token, got) ==
    [kind |-> kind, pc |-> pc, by |-> by, live |-> live, token |-> token, got |-> got,
     reads |-> [part \in IF Script[kind][pc] = "load" THEN LoadParts(component) ELSE {} |-> Pending]]

(* A handler begins beside those in hs *)
Starts(hs, new) ==
    \E h \in Slots : /\ hs[h] = NoHandler /\ \A g \in 1..(h - 1) : hs[g] # NoHandler
                     /\ handlers' = [hs EXCEPT ![h] = new]

Load(hs, c, user) ==
    IF LoadParts(c) = {} THEN handlers' = hs
    ELSE Starts(hs, Call("load", 1, user, TRUE, c, user, 0))

Pushing(kind) == Call(kind, 2, Nobody, FALSE, "none", Nobody, 0)

Blank(place) == [page |-> place, data |-> << >>, busy |-> FALSE, stray |-> FALSE]

(* Another component is mounted, and loads.  The handlers of the last one go on, but a *)
(* refresh of it changes nothing any more, and is left out. *)
Show(place, user, hs) ==
    LET c == ComponentOf(place, user)
        left == [h \in Slots |-> IF hs[h] = NoHandler \/ StepOf(hs[h]) = "load" THEN NoHandler
                                 ELSE [hs[h] EXCEPT !.live = FALSE]]
    IN /\ place # view.page \/ c # Component
       /\ view' = Blank(place) /\ Load(left, c, user)

Stays(place, user) == place = view.page /\ ComponentOf(place, user) = Component

(* A link or the browser's history leads to any page *)
Navigate(place) ==
    place # view.page /\ Show(place, session, handlers) /\ UNCHANGED <<session, registry>>

(* The page is loaded anew: everything but sessionStorage is gone, and hydrate reads it *)
Reload(place) ==
    /\ view' = Blank(place)
    /\ Load([h \in Slots |-> NoHandler], ComponentOf(place, session), session)
    /\ UNCHANGED <<session, registry>>

logout ==
    /\ session # Nobody /\ session' = Nobody
    /\ \/ Show(view.page, Nobody, handlers)
       \/ Stays(view.page, Nobody) /\ UNCHANGED <<view, handlers>>
    /\ UNCHANGED registry

Redirect == ~Visible(view.page, session) /\ Navigate("login")

(* Mutant: the button stays enabled while its handler runs *)
Press_NotDisabled(kind, by) ==
    /\ kind \in Offers /\ Visible(view.page, session)
    /\ kind # "login" => by = session
    /\ Starts(handlers, Call(kind, 1, by, TRUE, Component, by, 0))
    /\ view' = [view EXCEPT !.busy = TRUE]
    /\ UNCHANGED <<session, registry>>

(* A button is pressed by the user of the store or, to sign in, by anybody *)
Press(kind, by) ==
    /\ kind \in Offers /\ ~view.busy /\ Visible(view.page, session)
    /\ kind # "login" => by = session
    /\ Starts(handlers, Call(kind, 1, by, TRUE, Component, by, 0))
    /\ view' = [view EXCEPT !.busy = TRUE]
    /\ UNCHANGED <<session, registry>>

-----------------------------------------------------------------------------
(* The handler ends; its finally clears busy *)
Finish(h) ==
    /\ handlers' = [handlers EXCEPT ![h] = NoHandler]
    /\ view' = IF handlers[h].live THEN [view EXCEPT !.busy = FALSE] ELSE view

(* The call was answered: the next one goes out.  Of the handlers that push to another *)
(* page only that of a request clears busy first. *)
Proceed(h, got) ==
    LET old == handlers[h]
        next == Call(old.kind, old.pc + 1, old.by, old.live, Component, session, got)
    IN IF old.pc = Len(Script[old.kind]) \/ (StepOf(next) = "load" /\ ~old.live) THEN Finish(h)
       ELSE IF StepOf(next) = "push"
       THEN /\ handlers' = [handlers EXCEPT ![h] = Pushing(old.kind)]
            /\ view' = IF old.live /\ old.kind = "request" THEN [view EXCEPT !.busy = FALSE] ELSE view
       ELSE handlers' = [handlers EXCEPT ![h] = next] /\ UNCHANGED view

(* An await throws: a refusal, a failure of the network, of the prover *)
Throw(h) ==
    /\ StepOf(handlers[h]) \notin {"load", "push"} /\ Finish(h)
    /\ UNCHANGED <<session, registry>>

(* The land is read: the commitment to be proved, -1 when the secret that was typed does *)
(* not open it, or the comparison of the proof's root with it *)
ReadLand(h) ==
    LET old == handlers[h]
        current == old.got = registry.sales \/ ~ActiveLand(registry)
    IN /\ At(h, "land") /\ Readable("land", old.token)
       /\ old.kind \in {"respond", "answer"} => ActiveLand(registry)
       /\ Proceed(h, IF old.kind = "verify" THEN IF current THEN old.got ELSE -1
                     ELSE IF registry.ownerId = old.by THEN registry.sales ELSE -1)
       /\ UNCHANGED <<session, registry>>

(* The challenge is read: its nonce, or its proof if there is one *)
ReadChallenge(h) ==
    LET old == handlers[h]
    IN /\ At(h, "challenge") /\ Readable("challenge", old.token)
       /\ old.kind = "verify" => registry.ask.proof # -1
       /\ Proceed(h, IF old.kind = "verify" THEN registry.ask.proof ELSE old.got)
       /\ UNCHANGED <<session, registry>>

(* proveInBrowser, verifyInBrowser: of a true statement *)
Prove(h) ==
    /\ At(h, "prove") \/ At(h, "check")
    /\ handlers[h].got # -1 /\ Proceed(h, handlers[h].got)
    /\ UNCHANGED <<session, registry>>

(* The server carries out the write of a handler, whose answer may be lost *)
Write(h) ==
    LET old == handlers[h]
        op == StepOf(old)
    IN /\ op \in Writes /\ Accepts(op, old.token, registry, old.got)
       /\ IF op \in Silent THEN UNCHANGED registry
          ELSE registry.version < ChangeLimit /\ registry' = Changed(op, old.token)
       /\ Proceed(h, 0) \/ (op \notin Silent /\ Finish(h))
       /\ UNCHANGED session

(* setSession and push, wherever the tab has gone meanwhile *)
SignedIn(h) ==
    LET old == handlers[h]
        pushing == [handlers EXCEPT ![h] = Pushing("login")]
    IN /\ At(h, "login") /\ session' = old.by
       /\ \/ Show(view.page, old.by, pushing)
          \/ /\ Stays(view.page, old.by) /\ handlers' = pushing
             /\ view' = IF old.live THEN [view EXCEPT !.busy = FALSE] ELSE [view EXCEPT !.stray = TRUE]
       /\ UNCHANGED registry

(* router.push takes the tab there from anywhere, window.location.href loads it anew *)
Push(h) ==
    LET kind == handlers[h].kind
        to == IF kind \in {"login", "request"} THEN "dashboard" ELSE "challenge"
    IN /\ At(h, "push")
       /\ IF kind = "askAndLoad" THEN Reload(to)
          ELSE /\ \/ Show(to, session, [handlers EXCEPT ![h] = NoHandler])
                  \/ /\ Stays(to, session) /\ UNCHANGED view
                     /\ handlers' = [handlers EXCEPT ![h] = NoHandler]
               /\ UNCHANGED <<session, registry>>

(* The reads of a refresh are answered one by one, or the refresh fails *)
ServeLoad(h, part) ==
    /\ At(h, "load") /\ part \in DOMAIN handlers[h].reads /\ handlers[h].reads[part] = Pending
    /\ Readable(part, handlers[h].token)
    /\ handlers' = [handlers EXCEPT ![h].reads[part] = [token |-> handlers[h].token, land |-> registry]]
    /\ UNCHANGED <<session, view, registry>>

refresh(h) ==
    LET old == handlers[h]
    IN /\ At(h, "load")
       /\ handlers' = [handlers EXCEPT ![h] = NoHandler]
       /\ \/ /\ \A part \in DOMAIN old.reads : old.reads[part] # Pending
             /\ view' = [view EXCEPT !.data = old.reads, !.busy = @ /\ old.kind = "load"]
          \/ view' = [view EXCEPT !.busy = @ /\ old.kind = "load"]
       /\ UNCHANGED <<session, registry>>

(* Another tab writes *)
OtherTab(op, who) ==
    /\ Accepts(op, who, registry, registry.sales)
    /\ registry.version < ChangeLimit /\ registry' = Changed(op, who)
    /\ UNCHANGED <<session, view, handlers>>

-----------------------------------------------------------------------------
Asks == {[status |-> st, buyerId |-> b, sellerId |-> FirstSeller,
          proof |-> IF st = "PENDING" THEN -1 ELSE 0] :
            st \in {"PENDING", "PROOF_SUBMITTED", "VERIFIED"}, b \in Users \ {FirstSeller}}

(* The tab is opened on a registry with a history *)
ClientInit ==
    /\ session = Nobody
    /\ view = Blank("login")
    /\ handlers = [h \in Slots |-> NoHandler]
    /\ registry \in {Land("none", Nobody, NoAsk), Land("PENDING_APPROVAL", FirstSeller, NoAsk),
                     Land("REGISTERED", FirstSeller, NoAsk)}
                    \cup {Land("LISTED_FOR_SALE", FirstSeller, ask) : ask \in Asks}

HandlerStep(h) ==
    \/ Throw(h) \/ ReadLand(h) \/ ReadChallenge(h) \/ Prove(h) \/ Write(h)
    \/ SignedIn(h) \/ Push(h) \/ refresh(h)
    \/ \E part \in {"land", "lands", "requests", "challenge", "challenges"} : ServeLoad(h, part)

ClientNext ==
    \/ \E place \in Pages : Navigate(place)
    \/ Reload(view.page) \/ logout \/ Redirect
    \/ \E kind \in DOMAIN Script, by \in Everybody : Press(kind, by)
    \/ \E h \in UnderWay : HandlerStep(h)
    \/ \E op \in Writes \ Silent, who \in Everybody : OtherTab(op, who)

ClientSpec == ClientInit /\ [][ClientNext]_clientVars

-----------------------------------------------------------------------------
(* What the page shows was read by the user it is shown to, though the sessions of    *)
(* several users follow each other in the tab and answers arrive after one has left;  *)
(* unless a sign-in was answered after its page was left.                             *)
ShownToItsReader ==
    Visible(view.page, session) /\ ~view.stray =>
        \A part \in DOMAIN view.data : view.data[part].token = session

(* A handler reads the token for each call, and may outlive its user's session: a write *)
(* that takes effect is nevertheless the user's who pressed the button, because the     *)
(* server refuses it from anybody else who may sign in between.                         *)
ActedByItsUser ==
    [][\A h \in UnderWay : Write(h) => handlers[h].token = handlers[h].by]_clientVars

(* As long as it is mounted the land's or the challenge's page never goes back to an  *)
(* older state of the registry: no two of its refreshes overlap.                      *)
ShownInOrder ==
    [][ComponentOf(view'.page, session') \in {"land", "challenge"} =>
        \A part \in DOMAIN view.data \cap DOMAIN view'.data :
            view.data[part].land.version <= view'.data[part].land.version]_clientVars
=============================================================================
