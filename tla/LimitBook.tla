----------------------------- MODULE LimitBook -----------------------------
(***************************************************************************)
(* LIMIT orders: createOrder crosses the in-memory book at once, rests     *)
(* what is left there, and then settles the legs of the match one          *)
(* transaction after another.  The book is rebuilt from the rows at a      *)
(* restart.  Commissions are taken as 0%.                                  *)
(***************************************************************************)
EXTENDS OrderRows

VARIABLES
    book,       \* size of an order that rests in the book, 0 if it does not
    fills,      \* what a taker has matched and not settled yet, per maker
    filled,     \* totalExecuted of processLimitOrder
    leg,        \* the maker that settleLimitMatch has read for a taker
    spread      \* profit in the system ledger

limitVars == <<book, fills, filled, leg, spread>>

Legs == [maker : Limit, status : Statuses \cup {None}, exec : Nat]

NoLeg == [maker |-> None, status |-> None, exec |-> 0]

NoFills == [m \in Limit |-> 0]

BookTypeOK ==
    /\ book \in [Limit -> Nat]
    /\ fills \in [Limit -> [Limit -> Nat]]
    /\ filled \in [Limit -> Nat]
    /\ leg \in [Limit -> Legs \cup {NoLeg}]
    /\ spread \in Int

BookInit ==
    /\ book = [o \in Limit |-> 0]
    /\ fills = [o \in Limit |-> NoFills]
    /\ filled = [o \in Limit |-> 0]
    /\ leg = [o \in Limit |-> NoLeg]
    /\ spread = 0

-----------------------------------------------------------------------------
(* The book: better prices first, each maker in full before the next.      *)

Crossing(o) ==
    {m \in Limit : /\ book[m] > 0 /\ Side[m] # Side[o]
                   /\ IF Side[o] = "BUY" THEN Price[m] <= Price[o]
                                         ELSE Price[m] >= Price[o]}

Better(o, m, n) ==
    IF Side[o] = "BUY" THEN Price[m] < Price[n] ELSE Price[m] > Price[n]

Size(f) == SumFunctionOnSet(f, Limit)

(* External: what a market order of the order book library can match.      *)
Matches(o) ==
    LET crossing == Crossing(o)
        offered == [m \in Limit |-> IF m \in crossing THEN book[m] ELSE 0]
    IN  {f \in [Limit -> 0..Qty[o]] :
            /\ \A m \in Limit : f[m] <= offered[m]
            /\ Size(f) \in 0..Qty[o]
            /\ Size(f) = Qty[o] \/ f = offered
            /\ \A m, n \in crossing :
                  Better(o, m, n) /\ f[n] > 0 => f[m] = book[m]
            /\ Cardinality({m \in crossing : f[m] \in 1..(book[m] - 1)}) <= 1}

(* processLimitOrder, whoever has cancelled the order since it was saved.  *)
MatchBook(o) ==
    /\ o \in Limit
    /\ placing[o] = "frozen"
    /\ \E f \in Matches(o) :
          /\ fills' = [fills EXCEPT ![o] = f]
          /\ book' = [m \in Limit |-> IF m = o THEN Qty[o] - Size(f)
                                               ELSE book[m] - f[m]]
    /\ placing' = [placing EXCEPT ![o] = "settling"]
    /\ blame' = IF status[o] = "PENDING" /\ \A t \in Tasks : task[o][t] = NoTask
                THEN blame ELSE [blame EXCEPT ![o] = @ \cup {"early"}]
    /\ UNCHANGED <<rowVars, task, walletVars, filled, leg, spread>>

-----------------------------------------------------------------------------
(* settleLimitMatch: the taker's wallets are locked, the maker is read,    *)
(* then the maker's wallets are locked and everything is written.          *)

ReadMaker(o, m) ==
    /\ placing[o] = "settling"
    /\ leg[o] = NoLeg
    /\ \A x \in Limit : leg[x] # NoLeg => Owner[x] # Owner[o]
    /\ fills[o][m] > 0
    /\ locked[Paid(o)] >= Cost(o, fills[o][m])
    /\ leg' = [leg EXCEPT ![o] = [maker |-> m, status |-> status[m],
                                  exec |-> exec[m]]]
    /\ UNCHANGED <<orderVars, book, fills, filled, spread>>

(* The maker is written as it was read; its status is not looked at.       *)
StaleMaker(o) ==
    LET m == leg[o].maker IN
    IF status[m] = leg[o].status /\ exec[m] = leg[o].exec
       /\ leg[o].status \in Open
    THEN {} ELSE {"stale"}

(* Mutant: the difference a buyer would pay, whoever takes.                *)
BuyerSpread(o, m, q) == q * (Price[o] - Price[m])

Spread(o, m, q) ==
    q * (IF Side[o] = "BUY" THEN Price[o] - Price[m] ELSE Price[m] - Price[o])

SettleLeg(o) ==
    /\ leg[o] # NoLeg
    /\ LET m == leg[o].maker
           q == fills[o][m]
           e == leg[o].exec + q
       IN  /\ locked[Paid(m)] >= Cost(m, q)
           /\ locked' = Add(Add(locked, Paid(o), -Cost(o, q)), Paid(m), -Cost(m, q))
           /\ free' = Add(Add(free, Got(o), Gain(o, q)), Got(m), Gain(m, q))
           /\ usedBy' = Add(Add(usedBy, o, Cost(o, q)), m, Cost(m, q))
           /\ spread' = spread + Spread(o, m, q)
           /\ exec' = [exec EXCEPT ![m] = e]
           /\ status' = [status EXCEPT ![m] =
                 IF e >= Qty[m] THEN "COMPLETED" ELSE "PARTIALLY_COMPLETED"]
           /\ blame' = [blame EXCEPT ![m] = @ \cup StaleMaker(o)]
           /\ fills' = [fills EXCEPT ![o][m] = 0]
           /\ filled' = [filled EXCEPT ![o] = @ + q]
    /\ leg' = [leg EXCEPT ![o] = NoLeg]
    /\ UNCHANGED <<linked, placing, task, lockedBy, freedBy, book>>

(* A balance that does not cover the leg.                                  *)
CannotSettle(o) ==
    IF leg[o] = NoLeg
    THEN \E m \in Limit : fills[o][m] > 0 /\ locked[Paid(o)] < Cost(o, fills[o][m])
    ELSE LET m == leg[o].maker IN locked[Paid(m)] < Cost(m, fills[o][m])

(* The catch of createOrder: the taker is rejected with the lock it has    *)
(* and what it rests; the legs that were left are forgotten.               *)
FailLeg(o) ==
    /\ placing[o] = "settling" /\ fills[o] # NoFills
    /\ \/ CannotSettle(o) /\ UNCHANGED faults
       \/ Fault
    /\ status' = [status EXCEPT ![o] = "REJECTED"]
    /\ exec' = [exec EXCEPT ![o] = 0]
    /\ blame' = [x \in Orders |-> blame[x] \cup
                    (IF x = o THEN {"halfway"} ELSE {}) \cup
                    (IF x \in Limit /\ fills[o][x] > 0 THEN {"dropped"} ELSE {})]
    /\ placing' = [placing EXCEPT ![o] = "over"]
    /\ fills' = [fills EXCEPT ![o] = NoFills]
    /\ leg' = [leg EXCEPT ![o] = NoLeg]
    /\ UNCHANGED <<linked, task, walletVars, book, filled, spread>>

(* The order as createOrder made it is saved with what it has filled.      *)
FinishLimit(o) ==
    /\ placing[o] = "settling" /\ fills[o] = NoFills
    /\ placing' = [placing EXCEPT ![o] = "over"]
    /\ IF filled[o] > 0
       THEN SaveCreated(o, IF filled[o] >= Qty[o] THEN "COMPLETED"
                           ELSE "PARTIALLY_COMPLETED", filled[o], {})
       ELSE UNCHANGED <<rowVars, blame>>
    /\ UNCHANGED <<task, walletVars, limitVars>>

-----------------------------------------------------------------------------
(* Mutant: a cancelled order stays in the book.                            *)
StayInBook(o) == book' = book

(* An order that is cancelled leaves the book before it is unlocked.       *)
Evict(o) == book' = IF o \in Limit THEN [book EXCEPT ![o] = 0] ELSE book

(* onModuleInit.                                                           *)
RestoreBook ==
    /\ book' = [o \in Limit |->
                   IF status[o] \in Open /\ exec[o] < Qty[o]
                   THEN Qty[o] - exec[o] ELSE 0]
    /\ fills' = [o \in Limit |-> NoFills]
    /\ filled' = [o \in Limit |-> 0]
    /\ leg' = [o \in Limit |-> NoLeg]
    /\ UNCHANGED spread

LimitStep(o) ==
    \/ SettleLeg(o)
    \/ \E m \in Limit : ReadMaker(o, m)
    \/ FinishLimit(o)
    \/ MatchBook(o)
=============================================================================
