SPECIFICATION FairSpec
CONSTANTS
    quote = quote
    rival = rival
    bid = bid
    ask = ask
    cross = cross
    t1 = t1
    t2 = t2
    alice = alice
    bob = bob
    Market = {quote}
    Quote = {quote}
    Limit = {rival, bid, ask, cross}
    Credit = {bid}
    Zaryar = {quote}
    Users = {alice, bob}
    Owner <- OwnerDef
    Side <- SideDef
    Qty <- QtyDef
    Price <- PriceDef
    Fee <- FeeDef
    Funds <- FundsDef
    Requester <- RequesterDef
    Gets <- GetsDef
    Tasks = {t1, t2}
    Together <- TogetherDef
    Slots <- SlotsDef
    MaxFaults = 1
    MaxCopies = 2
    MaxTicks = 2
INVARIANTS
    OrdersTypeOK
    RowTellsLedger
    BookFollowsRows
    
    RowsFollowProvider
    TradesConserve
PROPERTIES
    AnswersArrive
CHECK_DEADLOCK FALSE
