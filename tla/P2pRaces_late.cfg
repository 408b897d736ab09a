SPECIFICATION RaceSpec
CONSTANTS
    w = w
    d1 = d1
    d2 = d2
    co = co
    r1 = r1
    r2 = r2
    p1 = p1
    p2 = p2
    p3 = p3
    i1 = i1
    i2 = i2
    i3 = i3
    m1 = m1
    m2 = m2
    m3 = m3
    NoPart = NoPart
    NoMatch = NoMatch
    Company = co
    Users <- UsersDef
    Requests = {r1}
    Parts = {p1}
    Intents = {i1, i2}
    Matches = {m1, m2}
    Withdrawer <- OneRequest
    RequestOf <- OnePart
    Total <- OnePartTotal
    Target <- OnePartTarget
    Depositor <- SameDepositor
    Amount <- TwoAmounts
    Funds <- FundsDef
    AdminFirst = FALSE
    MaxRetry = 0
    AccountAnswers <- Never
    LateCancel = TRUE
    MayCrash = FALSE
    Slow = {"open", "resolve", "timeout", "cancel"}
SYMMETRY RowsAreAlike
INVARIANTS
    LocksAreBacked
    EnvelopesAgree
PROPERTIES
    SettledStays
CHECK_DEADLOCK FALSE
