SPECIFICATION FairSpec
CONSTANTS
    d = d
    w = w
    u = u
    Deposits = {d}
    Withdrawals = {w}
    Bound = {d, w}
    Users = {u}
    Owner <- OwnerDef
    Amount <- AmountDef
    Funds <- FundsDef
    DailyLimit <- LimitDef
    Admins = {"admin"}
    MaxRows = 1
    MaxCopies = 2
    MaxRunning = 1
    MaxFaults = 1
    MaxApprovals = 2
    MaxCallbacks = 1
INVARIANTS
    TypeOK
    SecondBookingIsStale
    WalletIsExplained
    CreditWasPaid
    TransfersWereApproved
PROPERTIES
    RequestsAreAnswered
CHECK_DEADLOCK FALSE
