------------------------------- MODULE Accounts -------------------------------
(***************************************************************************)
(* Accounts: auth.service.ts, the User model with its unique indexes, and  *)
(* the start of a server, server.ts, which seeds the one authority account *)
(* before it listens.  Several servers may start on one database, and any  *)
(* of them may die at any time.                                            *)
(*                                                                         *)
(* An email is written with or without blanks around it, which the schema  *)
(* trims and registerUser does not; upper case is dropped by both and left *)
(* out.  The indexes are built when the database is first connected to.    *)
(***************************************************************************)
EXTENDS Integers, FiniteSets

CONSTANTS
    Servers,
    Requests,         \* requests to register, each made once
    Emails, Wallets,
    authorityEmail, authorityWallet,   \* of the environment, one for all servers
    StartLimit        \* bound: starts of a server

ASSUME AccountsAssumption ==
    authorityEmail \in Emails /\ authorityWallet \in Wallets /\ StartLimit \in Nat

VARIABLES
    server,      \* Servers -> where its main() is
    starts,      \* Servers -> starts so far
    register,    \* Requests -> a registration
    accounts     \* the User documents

accountVars == <<server, starts, register, accounts>>

Input == [email : Emails, padded : BOOLEAN, walletAddress : Wallets]
NotMade == [pc |-> "unmade"]
Answered == [pc |-> "over"]
User(id, email, wallet, role) ==
    [id |-> id, email |-> email, walletAddress |-> wallet, role |-> role]

AccountsInit ==
    /\ server = [s \in Servers |-> "down"] /\ starts = [s \in Servers |-> 0]
    /\ register = [r \in Requests |-> NotMade]
    /\ accounts = {}

-----------------------------------------------------------------------------
(* UserModel.create: the unique indexes admit the first of two *)
Taken(user) ==
    \E a \in accounts : a.email = user.email \/ a.walletAddress = user.walletAddress

Create(user) == ~Taken(user) /\ accounts' = accounts \cup {user}

(* main(): connectDB, then seedAuthority looks for an authority of any email *)
Start(s) ==
    /\ server[s] = "down" /\ starts[s] < StartLimit
    /\ starts' = [starts EXCEPT ![s] = @ + 1]
    /\ server' = [server EXCEPT ![s] = "connected"]
    /\ UNCHANGED <<register, accounts>>

AuthorityExists == \E a \in accounts : a.role = "AUTHORITY"

(* Mutant: the server listens while the password is hashed *)
LookForAuthority_Listens(s) ==
    /\ server[s] = "connected"
    /\ server' = [server EXCEPT ![s] = "listening"]
    /\ UNCHANGED <<starts, register, accounts>>

LookForAuthority(s) ==
    /\ server[s] = "connected"
    /\ server' = [server EXCEPT ![s] = IF AuthorityExists THEN "listening" ELSE "hashing"]
    /\ UNCHANGED <<starts, register, accounts>>

(* The account is created after its password is hashed; an error exits the process *)
SeedAuthority(s) ==
    LET authority == User(<<s, starts[s]>>, authorityEmail, authorityWallet, "AUTHORITY") IN
    /\ server[s] = "hashing"
    /\ \/ Create(authority) /\ server' = [server EXCEPT ![s] = "listening"]
       \/ Taken(authority) /\ server' = [server EXCEPT ![s] = "down"] /\ UNCHANGED accounts
    /\ UNCHANGED <<starts, register>>

(* A server that is stopped, or whose start fails, ends the requests it was serving *)
Stop(s) ==
    /\ server[s] # "down" /\ server' = [server EXCEPT ![s] = "down"]
    /\ register' = [r \in Requests |->
          IF register[r].pc = "hashing" /\ register[r].server = s THEN Answered ELSE register[r]]
    /\ UNCHANGED <<starts, accounts>>

-----------------------------------------------------------------------------
(* registerUser: the reserved email is compared as it was typed, in lower case *)
Register(r, s, input) ==
    /\ register[r] = NotMade /\ server[s] = "listening"
    /\ register' = [register EXCEPT ![r] =
          IF input.email = authorityEmail /\ ~input.padded THEN Answered
          ELSE [pc |-> "hashing", server |-> s,
                user |-> User(r, input.email, input.walletAddress, "USER")]]
    /\ UNCHANGED <<server, starts, accounts>>

(* A normal user is created after the password is hashed, or the request refused *)
CreateUser(r) ==
    /\ register[r].pc = "hashing"
    /\ register' = [register EXCEPT ![r] = Answered]
    /\ \/ Create(register[r].user)
       \/ Taken(register[r].user) /\ UNCHANGED accounts
    /\ UNCHANGED <<server, starts>>

AccountsNext ==
    \/ \E s \in Servers : Start(s) \/ LookForAuthority(s) \/ SeedAuthority(s) \/ Stop(s)
    \/ \E r \in Requests, s \in Servers, input \in Input : Register(r, s, input)
    \/ \E r \in Requests : CreateUser(r)

AccountsSpec == AccountsInit /\ [][AccountsNext]_accountVars

-----------------------------------------------------------------------------
(* auth.service.ts:15-18, 76-91: the registry has one authority, however many servers   *)
(* found none when they started; it is there before anybody can register; and nobody    *)
(* registers with its email or its wallet, although the check for the reserved email    *)
(* is made on the input as typed and the email is trimmed when it is stored.            *)
OneAuthority ==
    /\ \A a, b \in accounts : a.role = "AUTHORITY" /\ b.role = "AUTHORITY" => a = b
    /\ \A a \in accounts : a.role = "USER" =>
          /\ a.email # authorityEmail /\ a.walletAddress # authorityWallet
          /\ AuthorityExists
=============================================================================
