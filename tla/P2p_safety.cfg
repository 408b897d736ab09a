SPECIFICATION Spec
CONSTANTS
    w = w
    d1 = d1
    d2 = d2
    co = co
    r1 = r1
    r2 = r2
    p1 = p1
    p2 = p2
    p3 = p3
    i1 = i1
    i2 = i2
    i3 = i3
    m1 = m1
    m2 = m2
    m3 = m3
    NoPart = NoPart
    NoMatch = NoMatch
    Company = co
    Users <- UsersDef
    Requests = {r1, r2}
    Parts = {p1, p2, p3}
    Intents = {i1, i2}
    Matches = {m1, m2}
    Withdrawer <- TwoRequests
    RequestOf <- TwoAndOneParts
    Total <- TwoAndOneTotal
    Target <- TwoAndOneTarget
    Depositor <- TwoDepositors
    Amount <- TwoAmounts
    Funds <- TwoAndOneFunds
    AdminFirst = FALSE
    MaxRetry = 1
    AccountAnswers <- Both
    LateCancel = FALSE
    MayCrash = TRUE
SYMMETRY PartsAreAlike
INVARIANTS
    
    TypeOK
    ReservationIsExclusive
    IntentFollowsMatch
    PartPaidOnce
    
    EnvelopesAgree
    
    LocksAreBacked
    BooksBalance
    LedgerExplained
PROPERTIES
    
    CreditNeedsAnAnswer
    SettledIsFinal
    ImplementsLedger
    ImplementsReservation
CHECK_DEADLOCK FALSE
