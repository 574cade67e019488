SPECIFICATION PortalSpec
CONSTANTS
    None = None
    Lands = {l1}
    RowLimit = 3
    RootLimit = 4
    LoadLimit = 2
    FaultLimit = 1
    QueryLimits = {None}
    DefaultLimit = 1
    MaxLimit = 2

    NoDeed = NoDeed
    Deeds = {d1}
    DeedKeys = {k1}
    Parcels = {p1, p2}
    Applicants = {a1}
    Uploads = {up1, up2}
    Authority = Authority
    CrashLimit = 1

    Servers = {s1, s2}
    Requests = {r1, r2}
    Emails = {authority_mail, m1}
    Wallets = {authority_wallet, w1}
    authorityEmail = authority_mail
    authorityWallet = authority_wallet
    StartLimit = 2

    Plots = {t1, t2}
    Holders = {h1, h2}
    SubmitLimit = 1
    ProofRequests = {q1, q2}
    SectionLimit = 2
    Areas = {1, 3}
    AreaBits = 2
    FieldPrime = 11
    Minimums = {3, 10, 12}

    Nobody = Nobody
    Users = {u1, u2}
    Registrar = Registrar
    FirstSeller = u1
    HandlerLimit = 2
    ChangeLimit = 1

    Calls = {c1, c2, c3}
    SetupLimit = 2
INVARIANTS
    NoEntryMissed
    TailReached
    RootChangesTrue
    DeedBehindLand
    ServedIsRecorded
    OneAuthority
    VerdictWasTrue
    AreaReachesMinimum
    ShownToItsReader
    OneDownload
PROPERTIES
    ActedByItsUser
    ShownInOrder
CHECK_DEADLOCK FALSE
