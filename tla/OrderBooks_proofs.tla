------------------------- MODULE OrderBooks_proofs -------------------------
(***************************************************************************)
(* The limit book, the wallets and the trades of customers, for every set  *)
(* of orders, prices and balances.  Of an order that can be trusted, what  *)
(* rests in the book, what takers hold of it, what its row says and what   *)
(* it has taken itself add up to its quantity; hence its lock covers what  *)
(* is paid from it, and wallets hold what their orders have locked.        *)
(***************************************************************************)
EXTENDS Orders_proofs, SumTheorems

Idle(o) == \A t \in Tasks : task[o][t] = NoTask

(* What a taker has matched: settled, and still to be settled.             *)
Taken(o) == IF placing[o] = "settling" THEN filled[o] + Size(fills[o]) ELSE 0

Total(o) == book[o] + Waiting(o) + exec[o] + Taken(o)

Counted(o) ==
    Clear(o) =>
        /\ Total(o) <= Qty[o]
        /\ Idle(o) /\ Placed(o) /\ status[o] \in Open => Total(o) = Qty[o]
        /\ ~Idle(o) \/ status[o] \notin Open => book[o] = 0

Crosses(o, m) ==
    /\ Side[m] # Side[o]
    /\ IF Side[o] = "BUY" THEN Price[m] <= Price[o] ELSE Price[m] >= Price[o]

Booked(o) ==
    /\ placing[o] # "settling" => fills[o] = NoFills
    /\ \A m \in Limit : fills[o][m] > 0 => Crosses(o, m)
    /\ Counted(o)

BookInv == OrdersInv /\ \A o \in Limit : Booked(o)

-----------------------------------------------------------------------------
(* Sums over the book.                                                     *)

LEMMA LimitIsFinite == IsFiniteSet(Limit)
BY OrdersAssumption, FS_Subset DEF Orders

WaitingIn(F, m) == SumFunctionOnSet([x \in Limit |-> F[x][m]], Limit)

LEMMA WaitingOf == \A m : Waiting(m) = WaitingIn(fills, m) /\ Waiting(m)' = WaitingIn(fills', m)
BY DEF Waiting, WaitingIn

LEMMA SizeNat ==
    ASSUME NEW f \in [Limit -> Nat]
    PROVE  Size(f) \in Nat
BY LimitIsFinite, SumNat DEF Size

LEMMA SizeOfNone == Size(NoFills) = 0
<1>1. \A x \in Limit : NoFills[x] = 0
  BY DEF NoFills
<1> QED
  BY <1>1, LimitIsFinite, SumZero DEF Size

LEMMA EntryMoves ==
    ASSUME NEW c, NEW d, NEW o \in Limit, \A x \in Limit : c[x] \in Int,
           d[o] \in Int, \A x \in Limit \ {o} : d[x] = c[x]
    PROVE  SumFunctionOnSet(d, Limit) = SumFunctionOnSet(c, Limit) + d[o] - c[o]
BY LimitIsFinite, SumMove

LEMMA SizeMoves ==
    ASSUME NEW f \in [Limit -> Nat], NEW g \in [Limit -> Nat], NEW m \in Limit,
           \A x \in Limit \ {m} : g[x] = f[x]
    PROVE  Size(g) = Size(f) + g[m] - f[m]
<1>1. \A x \in Limit : f[x] \in Int
  OBVIOUS
<1>2. g[m] \in Int
  OBVIOUS
<1> QED
  BY <1>1, <1>2, LimitIsFinite, SumMove DEF Size

LEMMA WaitingNat ==
    ASSUME NEW F \in [Limit -> [Limit -> Nat]], NEW m \in Limit
    PROVE  WaitingIn(F, m) \in Nat
<1> DEFINE c == [x \in Limit |-> F[x][m]]
<1>1. \A x \in Limit : c[x] \in Nat
  OBVIOUS
<1> HIDE DEF c
<1>2. SumFunctionOnSet(c, Limit) \in Nat
  BY <1>1, LimitIsFinite, SumNat
<1> QED
  BY <1>2 DEF c, WaitingIn

LEMMA WaitingMoves ==
    ASSUME NEW F \in [Limit -> [Limit -> Nat]], NEW G \in [Limit -> [Limit -> Nat]],
           NEW o \in Limit, NEW m \in Limit,
           \A x \in Limit \ {o} : G[x][m] = F[x][m]
    PROVE  WaitingIn(G, m) = WaitingIn(F, m) + G[o][m] - F[o][m]
<1>1. PICK c, d : c = [x \in Limit |-> F[x][m]] /\ d = [x \in Limit |-> G[x][m]]
  OBVIOUS
<1>2. \A x \in Limit : c[x] \in Int
  BY <1>1
<1>3. d[o] \in Int /\ d[o] = G[o][m] /\ c[o] = F[o][m]
  BY <1>1
<1>4. \A x \in Limit \ {o} : d[x] = c[x]
  BY <1>1
<1>5. o \in Limit /\ d[o] \in Int
  BY <1>3
<1>6. SumFunctionOnSet(d, Limit) = SumFunctionOnSet(c, Limit) + d[o] - c[o]
  BY ONLY <1>2, <1>4, <1>5, EntryMoves
<1> QED
  BY <1>1, <1>3, <1>6 DEF WaitingIn

LEMMA WaitingStays ==
    ASSUME NEW F, NEW G, NEW m \in Limit, \A x \in Limit : G[x][m] = F[x][m]
    PROVE  WaitingIn(G, m) = WaitingIn(F, m)
<1> DEFINE c == [x \in Limit |-> F[x][m]]
           d == [x \in Limit |-> G[x][m]]
<1>1. \A x \in Limit : d[x] = c[x]
  OBVIOUS
<1> HIDE DEF c, d
<1>2. SumFunctionOnSet(d, Limit) = SumFunctionOnSet(c, Limit)
  BY <1>1, LimitIsFinite, SumSame
<1> QED
  BY <1>2 DEF c, d, WaitingIn

LEMMA WaitingNone ==
    ASSUME NEW F, NEW m \in Limit, \A x \in Limit : F[x][m] = 0
    PROVE  WaitingIn(F, m) = 0
<1> DEFINE c == [x \in Limit |-> F[x][m]]
<1>1. \A x \in Limit : c[x] = 0
  OBVIOUS
<1> HIDE DEF c
<1>2. SumFunctionOnSet(c, Limit) = 0
  BY <1>1, LimitIsFinite, SumZero
<1> QED
  BY <1>2 DEF c, WaitingIn

(* The parts of a total are natural numbers, before and after a step.      *)
LEMMA PartsAreWhole ==
    ASSUME OrdersInv, NEW o \in Limit
    PROVE  /\ o \in Orders /\ Qty[o] \in Nat
           /\ book[o] \in Nat /\ Waiting(o) \in Nat /\ exec[o] \in Nat
           /\ Taken(o) \in Nat /\ filled[o] \in Nat /\ Size(fills[o]) \in Nat
<1>1. o \in Orders /\ Qty[o] \in Nat
  BY LimitOrder
<1>2. book[o] \in Nat /\ exec[o] \in Nat /\ filled[o] \in Nat
      /\ fills \in [Limit -> [Limit -> Nat]] /\ fills[o] \in [Limit -> Nat]
  BY <1>1, Named DEF RowsTypeOK, BookTypeOK
<1>3. Waiting(o) \in Nat /\ Size(fills[o]) \in Nat
  BY <1>2, WaitingOf, WaitingNat, SizeNat
<1> QED
  BY <1>1, <1>2, <1>3 DEF Taken

LEMMA BookNamed ==
    ASSUME BookInv
    PROVE  OrdersInv /\ \A o \in Limit : Booked(o)
BY DEF BookInv

-----------------------------------------------------------------------------
(* Orders that a step leaves alone.                                        *)

Left(o) ==
    /\ status'[o] = status[o] /\ exec'[o] = exec[o] /\ placing'[o] = placing[o]
    /\ task'[o] = task[o] /\ blame[o] \subseteq blame'[o]

LEMMA LeftCounted ==
    ASSUME NEW o \in Limit, Booked(o), Left(o),
           book'[o] = book[o], fills'[o] = fills[o], filled'[o] = filled[o],
           \A x \in Limit : fills'[x][o] = fills[x][o]
    PROVE  Booked(o)'
<1>1. Waiting(o)' = Waiting(o)
  BY WaitingOf, WaitingStays
<1>2. Taken(o)' = Taken(o)
  BY DEF Taken, Left
<1>3. Total(o)' = Total(o)
  BY <1>1, <1>2 DEF Total, Left
<1>4. Counted(o)'
  BY <1>3 DEF Booked, Counted, Clear, Idle, Placed, Left
<1> QED
  BY <1>4 DEF Booked, Left

(* A step that changes nothing in the book, but the row of one order.      *)
LEMMA RowMoves ==
    ASSUME BookInv, NEW o \in Limit, UNCHANGED <<book, fills, filled>>,
           placing[o] # "settling", placing'[o] # "settling",
           Clear(o)' => /\ Clear(o) /\ exec'[o] = exec[o] /\ book[o] = 0
                        /\ Placed(o)' => status'[o] \notin Open
    PROVE  Booked(o)'
<1>1. fills'[o] = NoFills /\ \A m \in Limit : fills'[o][m] > 0 => Crosses(o, m)
  BY BookNamed DEF Booked
<1>2. Counted(o)'
  <2> SUFFICES ASSUME Clear(o)' PROVE Counted(o)'
    BY DEF Counted
  <2>1. Waiting(o)' = Waiting(o)
    BY DEF Waiting
  <2>2. Total(o)' = Total(o)
    BY <2>1 DEF Total, Taken
  <2>3. Total(o) <= Qty[o]
    BY BookNamed DEF Booked, Counted
  <2> QED
    BY <2>2, <2>3 DEF Counted
<1> QED
  BY <1>1, <1>2 DEF Booked

-----------------------------------------------------------------------------
(* Steps outside the book.                                                 *)

(* The provider's deals are about other orders.                            *)
LEMMA DealsLeave ==
    ASSUME OrdersInv, DealStep, NEW x \in Limit
    PROVE  Left(x)
<1>1. x \notin Market /\ x \in Orders
  BY OrdersAssumption DEF Orders
<1>2. /\ status \in [Orders -> Statuses \cup {None}] /\ exec \in [Orders -> Nat]
      /\ task \in [Orders -> [Tasks -> Reads \cup {NoTask}]]
      /\ placing \in [Orders -> {None, "saved", "frozen", "settling", "over"}]
      /\ blame \in [Orders -> SUBSET Causes]
  BY Named DEF RowsTypeOK
<1>3. UNCHANGED <<status, exec, placing, task, blame>> => Left(x)
  BY DEF Left
<1>4. CASE \/ \E o \in Market : EngineStep(o) \/ OnPlaced(o) \/ AskAgain(o)
           \/ \E o \in Market, m \in Messages : Lose(o, m)
           \/ EngineCrash
  BY <1>3, <1>4 DEF EngineStep, OnPlace, Accepted, Refused, Answer, Poll, Report, FetchDeals,
                    OnQuery, OnPlaced, AskAgain, Lose, EngineCrash, orderVars, rowVars
<1>5. ASSUME NEW o \in Market, Dispatch(o) PROVE Left(x)
  BY <1>1, <1>2, <1>5 DEF Dispatch, Left, rowVars
<1>6. ASSUME NEW o \in Market, NEW t \in Tasks, NEW answer, OnStatus(o, t, answer) PROVE Left(x)
  BY <1>1, <1>2, <1>6 DEF OnStatus, StartTask, Left, orderVars, rowVars
<1>7. ASSUME NEW o \in Market, NEW t \in Tasks, Link(o, t) PROVE Left(x)
  BY <1>1, <1>2, <1>7 DEF Link, Left
<1>8. ASSUME NEW o \in Market, NEW t \in Tasks, Confirm(o, t) \/ FinishMatch(o, t) PROVE Left(x)
  BY <1>1, <1>2, <1>8 DEF Confirm, FinishMatch, SaveTask, EndTask, Left
<1>9. ASSUME NEW o \in Market, NEW t \in Tasks, Reject(o, t) PROVE Left(x)
  BY <1>1, <1>2, <1>9 DEF Reject, Release, SaveTask, EndTask, Left
<1>10. ASSUME NEW o \in Market, NEW t \in Tasks, StartMatch(o, t) \/ RefuseMatch(o, t) PROVE Left(x)
  BY <1>1, <1>2, <1>10 DEF StartMatch, RefuseMatch, StartTask, EndTask, Left, rowVars
<1>11. ASSUME NEW o \in Market, SettleStep(o) PROVE Left(x)
  BY <1>4, <1>5, <1>6, <1>7, <1>8, <1>9, <1>10, <1>11 DEF SettleStep
<1> QED
  BY <1>4, <1>11 DEF DealStep

(* Rows, tasks and the beginning of an order.                              *)
LEMMA RowsLeave ==
    ASSUME OrdersInv, NEW o \in Orders, RowStep(o) \/ \E t \in Tasks : FailTask(o, t),
           NEW x \in Limit, x # o
    PROVE  Left(x)
<1>1. x \in Orders
  BY DEF Orders
<1>2. /\ status \in [Orders -> Statuses \cup {None}] /\ exec \in [Orders -> Nat]
      /\ task \in [Orders -> [Tasks -> Reads \cup {NoTask}]]
      /\ placing \in [Orders -> {None, "saved", "frozen", "settling", "over"}]
      /\ blame \in [Orders -> SUBSET Causes]
  BY Named DEF RowsTypeOK
<1>3. CASE Create(o) \/ Freeze(o)
  BY <1>1, <1>2, <1>3 DEF Create, Freeze, Left, rowVars
<1>4. CASE RefuseFreeze(o) \/ RefuseLink(o)
  BY <1>1, <1>2, <1>4 DEF RefuseFreeze, RefuseLink, SaveCreated, Left
<1>5. ASSUME NEW t \in Tasks, FinishCancel(o, t) PROVE Left(x)
  BY <1>1, <1>2, <1>5 DEF FinishCancel, Release, SaveTask, EndTask, Left
<1>6. ASSUME NEW t \in Tasks, FailTask(o, t) PROVE Left(x)
  BY <1>1, <1>2, <1>6 DEF FailTask, EndTask, Left, rowVars
<1> QED
  BY <1>3, <1>4, <1>5, <1>6 DEF RowStep

LEMMA CancelBooks ==
    ASSUME BookInv, NEW o \in Limit, NEW t \in Tasks, FinishCancel(o, t),
           UNCHANGED <<book, fills, filled>>
    PROVE  Booked(o)'
<1>1. o \in Orders /\ OrdersInv
  BY BookNamed, LimitOrder
<1>2. Has(o, t, Kinds) /\ task[o][t] \in Reads /\ task[o][t].exec \in Nat
  <2>1. Has(o, t, Kinds)
    BY DEF FinishCancel, Has, Kinds
  <2>2. task[o][t] \in Reads
    BY <1>1, <2>1, SomeTask, Named, Kinds \in SUBSET Kinds
  <2> QED
    BY <2>1, <2>2 DEF Reads
<1>3. SaveTask(o, t, "CANCELLED", task[o][t].exec, {}) /\ EndTask(o, t) /\ UNCHANGED placing
  BY DEF FinishCancel, Release
<1>4. "CANCELLED" \in Statuses /\ "CANCELLED" \notin Open
  BY DEF Statuses, Terminal, Open
<1>5. /\ status'[o] = "CANCELLED" /\ exec'[o] = task[o][t].exec
      /\ blame'[o] = blame[o] \cup Outdated(o, t)
  BY <1>1, <1>2, <1>3, <1>4, SaveTaskRows
<1>6. task[o][t] # NoTask
  BY <1>2 DEF Has, Kinds, NoTask, None
<1>7. CASE Clear(o)'
  <2>1. Clear(o) /\ Outdated(o, t) = {}
    BY <1>5, <1>7 DEF Clear
  <2>2. exec[o] = task[o][t].exec /\ placing[o] \in {"frozen", "over"}
    BY <1>1, <1>2, <2>1, FreshTask
  <2>3. book[o] = 0
    BY <1>6, <2>1, BookNamed DEF Booked, Counted, Idle
  <2> QED
    BY <1>3, <1>4, <1>5, <2>1, <2>2, <2>3, RowMoves
<1>8. CASE ~Clear(o)'
  <2>1. Counted(o)'
    BY <1>8 DEF Counted
  <2> QED
    BY <1>3, <2>1, BookNamed DEF Booked
<1> QED
  BY <1>7, <1>8

LEMMA RowStepBooks ==
    ASSUME BookInv, NEW o \in Orders, RowStep(o), UNCHANGED <<book, fills, filled>>
    PROVE  \A x \in Limit : Booked(x)'
<1>1. OrdersInv
  BY BookNamed
<1>2. ASSUME NEW x \in Limit, x # o PROVE Booked(x)'
  BY <1>1, <1>2, RowsLeave, LeftCounted, BookNamed
<1>3. ASSUME o \in Limit, ~\E t \in Tasks : FinishCancel(o, t) PROVE Booked(o)'
  <2>1. ~Placed(o) /\ placing[o] \in {None, "saved", "frozen"}
    BY <1>1, <1>3, Named DEF RowStep, Create, Freeze, RefuseFreeze, RefuseLink, Placed, Shape, None
  <2>2. book[o] = 0
    BY <1>1, <1>3, <2>1, Named DEF Shape
  <2>3. placing'[o] # "settling" /\ blame[o] \subseteq blame'[o]
    BY <1>1, <1>3, Named DEF RowStep, Create, Freeze, RefuseFreeze, RefuseLink, SaveCreated, RowsTypeOK
  <2>4. CASE Create(o) \/ Freeze(o)
    <3>1. exec'[o] = exec[o] /\ ~Placed(o)'
      BY <1>1, <2>4, Named DEF Create, Freeze, Placed, rowVars, RowsTypeOK
    <3> QED
      BY <1>3, <2>1, <2>2, <2>3, <3>1, RowMoves, None # "settling" DEF Clear, None
  <2>5. CASE RefuseFreeze(o) \/ RefuseLink(o)
    <3>1. status'[o] = "REJECTED" /\ exec'[o] = 0 /\ "REJECTED" \notin Open
      BY <1>1, <2>5, Named DEF RefuseFreeze, RefuseLink, SaveCreated, RowsTypeOK, Open
    <3>2. Clear(o)' => exec[o] = 0
      <4>1. PICK causes : SaveCreated(o, "REJECTED", 0, causes)
        BY <2>5 DEF RefuseFreeze, RefuseLink
      <4>2. o \in DOMAIN blame
        BY <1>1, Named DEF RowsTypeOK
      <4>3. exec[o] # 0 => "stale" \in blame'[o]
        BY <4>1, <4>2 DEF SaveCreated
      <4> QED
        BY <4>3 DEF Clear
    <3>3. Clear(o)' => Clear(o) /\ exec'[o] = exec[o]
      BY <2>3, <3>1, <3>2 DEF Clear
    <3>4. placing[o] # "settling"
      BY <2>1 DEF None
    <3> QED
      BY <1>3, <2>2, <2>3, <3>1, <3>3, <3>4, RowMoves
  <2> QED
    BY <1>3, <2>4, <2>5 DEF RowStep
<1> QED
  BY <1>2, <1>3, CancelBooks

(* A handler of a limit order that gives up has taken it out of the book.  *)
LEMMA FailTaskBooks ==
    ASSUME BookInv, NEW o \in Orders, NEW t \in Tasks, FailTask(o, t),
           UNCHANGED <<book, fills, filled>>
    PROVE  \A x \in Limit : Booked(x)'
<1>1. OrdersInv
  BY BookNamed
<1>2. ASSUME NEW x \in Limit, x # o PROVE Booked(x)'
  BY <1>1, <1>2, RowsLeave, LeftCounted, BookNamed
<1>3. ASSUME o \in Limit PROVE Booked(o)'
  <2>1. ~Clear(o)'
    BY <1>1, <1>3, Named DEF FailTask, RowsTypeOK, Clear
  <2>2. UNCHANGED placing
    BY DEF FailTask
  <2>3. Counted(o)'
    BY <2>1 DEF Counted
  <2> QED
    BY <1>3, <2>2, <2>3, BookNamed DEF Booked
<1> QED
  BY <1>2, <1>3

(* An order to be cancelled leaves the book.                               *)
LEMMA StartCancelBooks ==
    ASSUME BookInv, NEW o \in Orders, NEW t \in Tasks, StartCancel(o, t)
    PROVE  \A x \in Limit : Booked(x)'
<1>1. OrdersInv
  BY BookNamed
<1>2. /\ UNCHANGED <<status, exec, placing, blame, fills, filled>>
      /\ \A x \in Orders \ {o} : task'[x] = task[x]
      /\ task'[o][t].kind = "cancel"
  BY <1>1, Named DEF StartCancel, StartTask, rowVars, RowsTypeOK
<1>3. /\ \A x \in Limit \ {o} : book'[x] = book[x]
      /\ o \in Limit => book'[o] = 0
  BY <1>1, Named DEF StartCancel, Evict, BookTypeOK
<1>4. ASSUME NEW x \in Limit, x # o PROVE Booked(x)'
  <2>1. Left(x)
    BY <1>2, <1>4 DEF Left, Orders
  <2> QED
    BY <1>2, <1>3, <1>4, <2>1, LeftCounted, BookNamed
<1>5. ASSUME o \in Limit PROVE Booked(o)'
  <2>1. ~Idle(o)'
    BY <1>2 DEF Idle, NoTask, None
  <2>2. Waiting(o)' = Waiting(o) /\ Taken(o)' = Taken(o)
    BY <1>2 DEF Waiting, Taken
  <2>3. Total(o)' <= Total(o)
    BY <1>1, <1>2, <1>3, <1>5, <2>2, PartsAreWhole DEF Total
  <2>4. Total(o)' \in Nat /\ Total(o) \in Nat /\ Qty[o] \in Nat
    BY <1>1, <1>2, <1>3, <1>5, <2>2, PartsAreWhole DEF Total
  <2>5. Clear(o) => Total(o) <= Qty[o]
    BY <1>5, BookNamed DEF Booked, Counted
  <2>6. Counted(o)'
    BY <1>2, <1>3, <1>5, <2>1, <2>3, <2>4, <2>5 DEF Counted, Clear
  <2> QED
    BY <1>2, <1>5, <2>6, BookNamed DEF Booked
<1> QED
  BY <1>4, <1>5

-----------------------------------------------------------------------------
(* Steps of the book.                                                      *)

LEMMA MatchBooks ==
    ASSUME BookInv, NEW o \in Limit, MatchBook(o)
    PROVE  \A x \in Limit : Booked(x)'
<1>1. /\ OrdersInv /\ o \in Orders /\ placing[o] = "frozen" /\ ~Placed(o)
      /\ fills \in [Limit -> [Limit -> Nat]] /\ book \in [Limit -> Nat] /\ Qty[o] \in Nat
  BY BookNamed, LimitOrder, Named DEF MatchBook, Placed, BookTypeOK
<1>2. PICK f \in [Limit -> Nat] :
         /\ \A m \in Limit : f[m] <= book[m] /\ (f[m] > 0 => m \in Crossing(o))
         /\ Size(f) \in 0..Qty[o]
         /\ fills' = [fills EXCEPT ![o] = f]
         /\ book' = [m \in Limit |-> IF m = o THEN Qty[o] - Size(f) ELSE book[m] - f[m]]
  <2>1. PICK f \in Matches(o) :
           /\ fills' = [fills EXCEPT ![o] = f]
           /\ book' = [m \in Limit |-> IF m = o THEN Qty[o] - Size(f) ELSE book[m] - f[m]]
    BY DEF MatchBook
  <2>2. /\ f \in [Limit -> 0..Qty[o]] /\ Size(f) \in 0..Qty[o]
        /\ \A m \in Limit : f[m] <= book[m] /\ (f[m] > 0 => m \in Crossing(o))
    BY <1>1, Named, MatchesShape
  <2>3. f \in [Limit -> Nat]
    BY <1>1, <2>2
  <2> QED
    BY <2>1, <2>2, <2>3
<1>3. /\ placing'[o] = "settling" /\ \A x \in Orders \ {o} : placing'[x] = placing[x]
      /\ UNCHANGED <<status, exec, task, filled>>
      /\ \A x \in Orders : blame[x] \subseteq blame'[x]
      /\ Clear(o)' => Clear(o) /\ status[o] = "PENDING" /\ Idle(o)
  BY <1>1, Named DEF MatchBook, RowsTypeOK, rowVars, Clear, Idle
<1>4. fills'[o] = f /\ \A x \in Limit \ {o} : fills'[x] = fills[x]
  BY <1>1, <1>2
<1>5. /\ fills[o] = NoFills /\ book[o] = 0 /\ filled[o] = 0
      /\ \A x \in Limit : fills[x][o] = 0
  <2>1. fills[o] = NoFills
    BY <1>1, BookNamed DEF Booked
  <2>2. \A x \in Limit : ~(fills[x][o] > 0) /\ fills[x][o] \in Nat
    BY <1>1, Named DEF Shape
  <2> QED
    BY <1>1, <2>1, <2>2, Named DEF Shape
<1>6. fills' \in [Limit -> [Limit -> Nat]]
  BY <1>1, <1>2
<1>7. \A x, m \in Limit : fills'[x][m] > 0 => Crosses(x, m)
  <2>1. \A m \in Limit : f[m] > 0 => Crosses(o, m)
    BY <1>2 DEF Crossing, Crosses
  <2> QED
    BY <1>4, <2>1, BookNamed DEF Booked
<1>8. ASSUME NEW x \in Limit, x # o PROVE Booked(x)'
  <2>1. /\ Left(x) /\ x \in Orders
        /\ book'[x] = book[x] - f[x] /\ fills'[x] = fills[x] /\ filled'[x] = filled[x]
    BY <1>2, <1>3, <1>4, <1>8 DEF Left, Orders
  <2>2. WaitingIn(fills', x) = WaitingIn(fills, x) + fills'[o][x] - fills[o][x]
    BY <1>1, <1>4, <1>6, WaitingMoves
  <2>3. fills'[o][x] = f[x] /\ fills[o][x] = 0 /\ f[x] \in Nat
    BY <1>2, <1>4, <1>5 DEF NoFills
  <2>4. Waiting(x)' = Waiting(x) + f[x]
    <3>1. WaitingIn(fills, x) \in Nat
      BY <1>1, WaitingNat
    <3> QED
      BY <2>2, <2>3, <3>1, WaitingOf
  <2>5. Taken(x)' = Taken(x) /\ exec'[x] = exec[x]
    BY <2>1 DEF Taken, Left
  <2>6. Total(x)' = Total(x)
    <3>1. Total(x)' = (book[x] - f[x]) + (Waiting(x) + f[x]) + exec[x] + Taken(x)
      BY <2>1, <2>4, <2>5 DEF Total
    <3> QED
      BY <1>1, <2>3, <3>1, PartsAreWhole DEF Total
  <2>7. book[x] = 0 => book'[x] = 0
    BY <1>1, <1>2, <2>1, <2>3
  <2>8. Counted(x)'
    <3>1. Booked(x) /\ Counted(x)
      BY BookNamed DEF Booked
    <3> QED
      BY <2>1, <2>6, <2>7, <3>1 DEF Counted, Clear, Idle, Placed, Left
  <2>9. placing'[x] # "settling" => fills'[x] = NoFills
    BY <2>1, BookNamed DEF Booked, Left
  <2> QED
    BY <1>7, <2>8, <2>9 DEF Booked
<1>9. Booked(o)'
  <2>1. Counted(o)'
    <3> SUFFICES ASSUME Clear(o)' PROVE Counted(o)'
      BY DEF Counted
    <3>1. Clear(o) /\ status[o] = "PENDING" /\ Idle(o)
      BY <1>3
    <3>2. exec[o] = 0
      <4>1. RowAgrees(o)
        BY <1>1, <3>1, Named DEF Agreement
      <4> QED
        BY <3>1, <4>1 DEF RowAgrees
    <3>3. Waiting(o)' = 0
      <4>1. \A x \in Limit : fills'[x][o] = 0
        <5>1. f[o] = 0
          BY <1>2, <1>5
        <5> QED
          BY <1>4, <1>5, <5>1
      <4> QED
        BY <4>1, WaitingNone, WaitingOf
    <3>4. Taken(o)' = Size(f)
      <4>1. Taken(o)' = filled'[o] + Size(fills'[o])
        BY <1>3 DEF Taken
      <4>2. filled'[o] = 0 /\ Size(fills'[o]) = Size(f) /\ Size(f) \in Nat
        BY <1>2, <1>3, <1>4, <1>5, SizeNat
      <4> QED
        BY <4>1, <4>2
    <3>5. book'[o] = Qty[o] - Size(f) /\ exec'[o] = 0 /\ Size(f) \in Nat
      BY <1>2, <1>3, <3>2, SizeNat
    <3>6. Total(o)' = Qty[o]
      <4>1. Total(o)' = (Qty[o] - Size(f)) + 0 + 0 + Size(f)
        BY <3>3, <3>4, <3>5 DEF Total
      <4> QED
        BY <1>1, <3>5, <4>1
    <3>7. Idle(o)' /\ status'[o] \in Open
      BY <1>3, <3>1 DEF Idle, Open
    <3> QED
      BY <1>1, <3>6, <3>7 DEF Counted
  <2> QED
    BY <1>3, <1>7, <2>1 DEF Booked
<1> QED
  BY <1>8, <1>9

LEMMA FinishBooks ==
    ASSUME BookInv, NEW o \in Limit, FinishLimit(o)
    PROVE  \A x \in Limit : Booked(x)'
<1>1. /\ OrdersInv /\ o \in Orders /\ placing[o] = "settling" /\ fills[o] = NoFills
      /\ Qty[o] \in Nat /\ filled[o] \in Nat
  BY BookNamed, LimitOrder, Named DEF FinishLimit, BookTypeOK
<1>2. /\ placing'[o] = "over" /\ \A x \in Orders \ {o} : placing'[x] = placing[x]
      /\ UNCHANGED <<task, book, fills, filled, leg>>
  BY <1>1, Named DEF FinishLimit, RowsTypeOK, walletVars, limitVars
<1> DEFINE Result == IF filled[o] >= Qty[o] THEN "COMPLETED" ELSE "PARTIALLY_COMPLETED"
<1>3. /\ filled[o] > 0 =>
            /\ status'[o] = Result /\ exec'[o] = filled[o]
            /\ Clear(o)' => status[o] = "PENDING" /\ exec[o] = 0
      /\ filled[o] = 0 => status'[o] = status[o] /\ exec'[o] = exec[o]
      /\ blame[o] \subseteq blame'[o]
      /\ \A x \in Orders \ {o} :
            status'[x] = status[x] /\ exec'[x] = exec[x] /\ blame'[x] = blame[x]
  <2>1. CASE filled[o] > 0
    <3>1. SaveCreated(o, Result, filled[o], {})
      BY <2>1 DEF FinishLimit
    <3> QED
      BY <1>1, <2>1, <3>1, SaveCreatedRows
  <2>2. CASE filled[o] = 0
    BY <1>1, <2>2 DEF FinishLimit, rowVars
  <2> QED
    BY <1>1, <2>1, <2>2
<1>4. ASSUME NEW x \in Limit, x # o PROVE Booked(x)'
  <2>1. Left(x)
    BY <1>2, <1>3, <1>4 DEF Left, Orders
  <2> QED
    BY <1>2, <2>1, LeftCounted, BookNamed
<1>5. Counted(o)'
  <2> SUFFICES ASSUME Clear(o)' PROVE Counted(o)'
    BY DEF Counted
  <2>1. Clear(o) /\ Counted(o)
    BY <1>1, <1>3, BookNamed DEF Clear, Booked
  <2>2. Taken(o) = filled[o] /\ Taken(o)' = 0
    <3>1. Taken(o) = filled[o] + Size(fills[o]) /\ Size(fills[o]) = 0
      BY <1>1, SizeOfNone DEF Taken
    <3> QED
      BY <1>1, <1>2, <3>1 DEF Taken
  <2>3. Waiting(o)' = Waiting(o) /\ book'[o] = book[o]
    BY <1>2 DEF Waiting
  <2>4. /\ book[o] \in Nat /\ Waiting(o) \in Nat /\ exec[o] \in Nat /\ filled[o] \in Nat
        /\ Total(o) \in Nat
    BY <1>1, PartsAreWhole DEF Total
  <2>5. exec'[o] = exec[o] + filled[o]
    <3>1. CASE filled[o] > 0
      BY <1>3, <2>4, <3>1
    <3>2. CASE filled[o] = 0
      BY <1>3, <2>4, <3>2
    <3> QED
      BY <2>4, <3>1, <3>2
  <2>6. Total(o)' = Total(o)
    <3>1. Total(o)' = book[o] + Waiting(o) + (exec[o] + filled[o]) + 0
      BY <2>2, <2>3, <2>5 DEF Total
    <3> QED
      BY <2>2, <2>4, <3>1 DEF Total
  <2>7. Idle(o)' <=> Idle(o)
    BY <1>2 DEF Idle
  <2>8. status'[o] \in Open => status[o] \in Open
    <3>1. CASE filled[o] > 0
      BY <1>3, <3>1 DEF Open
    <3>2. CASE filled[o] = 0
      BY <1>3, <3>2
    <3> QED
      BY <2>4, <3>1, <3>2
  <2>9. status'[o] \notin Open => book[o] = 0
    <3>1. CASE filled[o] > 0
      <4> SUFFICES ASSUME status'[o] \notin Open PROVE book[o] = 0
        OBVIOUS
      <4>1. filled[o] >= Qty[o]
        BY <1>3, <3>1 DEF Open
      <4>2. book[o] + Waiting(o) + exec[o] + filled[o] <= Qty[o]
        BY <2>1, <2>2 DEF Counted, Total
      <4> QED
        BY <1>1, <2>4, <4>1, <4>2
    <3>2. CASE filled[o] = 0
      BY <1>3, <2>1, <3>2 DEF Counted
    <3> QED
      BY <2>4, <3>1, <3>2
  <2>10. Placed(o)
    BY <1>1 DEF Placed
  <2> QED
    BY <2>1, <2>3, <2>6, <2>7, <2>8, <2>9, <2>10 DEF Counted
<1>6. Booked(o)'
  BY <1>1, <1>2, <1>5, BookNamed DEF Booked
<1> QED
  BY <1>4, <1>6

(* Those that the taker had matched and not settled are dropped with it.   *)
LEMMA FailLegBooks ==
    ASSUME BookInv, NEW o \in Limit, FailLeg(o)
    PROVE  \A x \in Limit : Booked(x)'
<1>1. OrdersInv /\ o \in Orders /\ fills \in [Limit -> [Limit -> Nat]]
  BY BookNamed, LimitOrder, Named DEF BookTypeOK
<1>2. /\ \A x \in Orders \ {o} :
            status'[x] = status[x] /\ exec'[x] = exec[x] /\ placing'[x] = placing[x]
      /\ \A x \in Orders : blame[x] \subseteq blame'[x]
      /\ \A x \in Limit : fills[o][x] > 0 => "dropped" \in blame'[x]
      /\ "halfway" \in blame'[o] /\ placing'[o] = "over"
      /\ UNCHANGED <<task, book, filled>>
  BY <1>1, Named DEF FailLeg, RowsTypeOK, Orders
<1>3. /\ fills'[o] = NoFills
      /\ \A x \in Limit \ {o} : fills'[x] = fills[x]
  BY Named, <1>1 DEF FailLeg, BookTypeOK
<1>4. \A x, m \in Limit : fills'[x][m] > 0 => Crosses(x, m)
  BY <1>3, BookNamed DEF Booked, NoFills
<1>5. ASSUME NEW x \in Limit, x # o PROVE Booked(x)'
  <2>1. Left(x) /\ x \in Orders
    BY <1>2, <1>5 DEF Left, Orders
  <2>2. CASE fills[o][x] > 0
    <3>1. ~Clear(x)' /\ placing'[x] = placing[x] /\ fills'[x] = fills[x]
      BY <1>2, <1>3, <1>5, <2>2 DEF Clear, Orders
    <3>2. Counted(x)'
      BY <3>1 DEF Counted
    <3> QED
      BY <1>4, <3>1, <3>2, BookNamed DEF Booked
  <2>3. CASE ~(fills[o][x] > 0)
    <3>1. fills[o][x] = 0
      BY <1>1, <2>3
    <3>2. \A y \in Limit : fills'[y][x] = fills[y][x]
      BY <1>3, <3>1 DEF NoFills
    <3> QED
      BY <1>2, <1>3, <1>5, <2>1, <3>2, LeftCounted, BookNamed
  <2> QED
    BY <2>2, <2>3
<1>6. Booked(o)'
  <2>1. Counted(o)'
    BY <1>2 DEF Counted, Clear
  <2> QED
    BY <1>3, <1>4, <2>1 DEF Booked
<1> QED
  BY <1>5, <1>6

(* A leg moves from what is held of the maker to its row, and from what    *)
(* the taker has matched to what it has filled.                            *)
LEMMA SettleBooks ==
    ASSUME BookInv, NEW o \in Limit, SettleLeg(o)
    PROVE  \A x \in Limit : Booked(x)'
<1>0. PICK m \in Limit, q \in Nat, e \in Nat :
         m = leg[o].maker /\ q = fills[o][m] /\ e = leg[o].exec + q
  <2>1. leg[o] \in Legs
    BY BookNamed, Named DEF SettleLeg, BookTypeOK
  <2>2. leg[o].maker \in Limit /\ leg[o].exec \in Nat
    BY <2>1 DEF Legs
  <2>3. fills[o][leg[o].maker] \in Nat
    BY <2>2, BookNamed, Named DEF BookTypeOK
  <2>4. leg[o].exec + fills[o][leg[o].maker] \in Nat
    BY <2>2, <2>3
  <2> QED
    BY <2>2, <2>3, <2>4
<1>1. /\ OrdersInv /\ q > 0 /\ m # o /\ Placed(m) /\ placing[o] = "settling"
      /\ fills \in [Limit -> [Limit -> Nat]]
  <2>1. leg[o] # NoLeg /\ OrdersInv
    BY BookNamed DEF SettleLeg
  <2>2. placing[o] = "settling" /\ q > 0
    BY <1>0, <2>1, Named DEF Shape
  <2> QED
    BY <1>0, <2>1, <2>2, Named DEF Shape, BookTypeOK
<1>2. /\ m \in Orders /\ o \in Orders /\ Qty[m] \in Nat /\ Qty[o] \in Nat
      /\ filled \in [Limit -> Nat]
  BY <1>1, LimitOrder, Named DEF BookTypeOK
<1>3. /\ UNCHANGED <<placing, task, book>>
      /\ exec'[m] = e
      /\ status'[m] = IF e >= Qty[m] THEN "COMPLETED" ELSE "PARTIALLY_COMPLETED"
      /\ \A x \in Orders \ {m} : exec'[x] = exec[x] /\ status'[x] = status[x]
      /\ blame'[m] = blame[m] \cup StaleMaker(o)
      /\ \A x \in Orders \ {m} : blame'[x] = blame[x]
  BY <1>0, <1>1, <1>2, Named DEF SettleLeg, RowsTypeOK
<1>4. fills' = [fills EXCEPT ![o][m] = 0] /\ filled' = [filled EXCEPT ![o] = @ + q]
  BY <1>0 DEF SettleLeg
<1>5. /\ fills'[o][m] = 0 /\ fills'[o] \in [Limit -> Nat]
      /\ \A x \in Limit \ {m} : fills'[o][x] = fills[o][x]
      /\ \A x \in Limit \ {o} : fills'[x] = fills[x]
      /\ fills' \in [Limit -> [Limit -> Nat]]
  BY <1>1, <1>4
<1>6. filled'[o] = filled[o] + q /\ \A x \in Limit \ {o} : filled'[x] = filled[x]
  BY <1>2, <1>4
<1>7. \A x, y \in Limit : fills'[x][y] > 0 => Crosses(x, y)
  <2>1. \A x, y \in Limit : fills'[x][y] > 0 => fills[x][y] > 0
    BY <1>5
  <2> QED
    BY <2>1, BookNamed DEF Booked
<1>8. ASSUME NEW x \in Limit, x # o, x # m PROVE Booked(x)'
  <2>1. Left(x)
    BY <1>3, <1>8 DEF Left, Orders
  <2>2. \A y \in Limit : fills'[y][x] = fills[y][x]
    BY <1>5, <1>8
  <2> QED
    BY <1>3, <1>5, <1>6, <1>8, <2>1, <2>2, LeftCounted, BookNamed
<1>9. Booked(o)'
  <2>1. Waiting(o)' = Waiting(o)
    <3>1. \A y \in Limit : fills'[y][o] = fills[y][o]
      BY <1>1, <1>5
    <3> QED
      BY <3>1, WaitingStays, WaitingOf
  <2>2. Taken(o)' = Taken(o)
    <3>1. Size(fills'[o]) = Size(fills[o]) + fills'[o][m] - fills[o][m]
      BY <1>1, <1>5, SizeMoves
    <3>2. Size(fills[o]) \in Nat /\ filled[o] \in Nat
      BY <1>1, PartsAreWhole
    <3>3. /\ Taken(o) = filled[o] + Size(fills[o])
          /\ Taken(o)' = filled'[o] + Size(fills'[o])
      BY <1>1, <1>3 DEF Taken
    <3> QED
      BY <1>0, <1>5, <1>6, <3>1, <3>2, <3>3
  <2>3. exec'[o] = exec[o] /\ status'[o] = status[o] /\ blame'[o] = blame[o]
    BY <1>1, <1>2, <1>3
  <2>4. Total(o)' = Total(o)
    BY <1>3, <2>1, <2>2, <2>3 DEF Total
  <2>5. Counted(o)'
    <3>1. Counted(o)
      BY BookNamed DEF Booked
    <3> QED
      BY <1>3, <2>3, <2>4, <3>1 DEF Counted, Clear, Idle, Placed
  <2> QED
    BY <1>1, <1>3, <1>7, <2>5 DEF Booked
<1>10. Booked(m)'
  <2>1. Counted(m)'
    <3> SUFFICES ASSUME Clear(m)' PROVE Counted(m)'
      BY DEF Counted
    <3>1. Clear(m) /\ StaleMaker(o) = {} /\ Counted(m)
      BY <1>3, BookNamed DEF Clear, Booked
    <3>2. status[m] \in Open /\ exec[m] = leg[o].exec
      BY <1>0, <3>1 DEF StaleMaker
    <3>3. exec'[m] = exec[m] + q
      BY <1>0, <1>3, <3>2
    <3>4. Waiting(m)' + q = Waiting(m)
      <4>1. WaitingIn(fills', m) = WaitingIn(fills, m) + fills'[o][m] - fills[o][m]
        BY <1>1, <1>5, WaitingMoves
      <4>2. WaitingIn(fills, m) \in Nat
        BY <1>1, WaitingNat
      <4> QED
        BY <1>0, <1>5, <4>1, <4>2, WaitingOf
    <3>5. Taken(m)' = Taken(m)
      BY <1>1, <1>3, <1>5, <1>6 DEF Taken
    <3>6. /\ book[m] \in Nat /\ Waiting(m) \in Nat /\ exec[m] \in Nat /\ Taken(m) \in Nat
          /\ Waiting(m)' \in Nat
      BY <1>1, <1>5, PartsAreWhole, WaitingNat, WaitingOf
    <3>7. Total(m)' = Total(m)
      <4>1. Total(m)' = book[m] + Waiting(m)' + (exec[m] + q) + Taken(m)
        BY <1>3, <3>3, <3>5 DEF Total
      <4> QED
        BY <3>4, <3>6, <4>1 DEF Total
    <3>8. status'[m] \notin Open => book[m] = 0
      <4> SUFFICES ASSUME status'[m] \notin Open PROVE book[m] = 0
        OBVIOUS
      <4>1. exec[m] + q >= Qty[m]
        BY <1>3, <3>3 DEF Open
      <4>2. book[m] + (Waiting(m)' + q) + exec[m] + Taken(m) <= Qty[m]
        BY <3>1, <3>4 DEF Counted, Total
      <4>3. PICK b, w, x, k, n \in Nat :
                /\ b = book[m] /\ w = Waiting(m)' /\ x = exec[m] /\ k = Taken(m) /\ n = Qty[m]
        BY <1>2, <3>6
      <4>4. x + q >= n /\ b + (w + q) + x + k <= n
        BY <4>1, <4>2, <4>3
      <4> QED
        BY <4>3, <4>4
    <3> QED
      BY <1>1, <1>3, <3>1, <3>2, <3>7, <3>8 DEF Counted, Idle
  <2> QED
    BY <1>1, <1>3, <1>5, <1>7, <2>1, BookNamed DEF Booked
<1> QED
  BY <1>8, <1>9, <1>10

LEMMA ReadBooks ==
    ASSUME BookInv, NEW o \in Limit, NEW m \in Limit, ReadMaker(o, m)
    PROVE  \A x \in Limit : Booked(x)'
<1>1. UNCHANGED <<status, exec, placing, task, blame, book, fills, filled>>
  BY DEF ReadMaker, orderVars, rowVars
<1>2. \A x \in Limit : Left(x)
  BY <1>1 DEF Left
<1> QED
  BY <1>1, <1>2, LeftCounted, BookNamed

(* A restart makes the book from the rows.                                 *)
LEMMA CrashBooks ==
    ASSUME BookInv, BackendCrash
    PROVE  \A x \in Limit : Booked(x)'
<1> SUFFICES ASSUME NEW o \in Limit PROVE Booked(o)'
  OBVIOUS
<1>1. /\ OrdersInv /\ o \in Orders /\ Qty[o] \in Nat /\ exec[o] \in Nat
  BY BookNamed, PartsAreWhole
<1>2. /\ Idle(o)'
      /\ placing'[o] = IF placing[o] = None THEN None ELSE "over"
      /\ blame[o] \subseteq blame'[o]
      /\ placing[o] \in {"saved", "settling"} => "halfway" \in blame'[o]
      /\ UNCHANGED <<status, exec>>
  BY <1>1 DEF BackendCrash, ForgetRequests, rowVars, Idle
<1>3. /\ book'[o] = IF status[o] \in Open /\ exec[o] < Qty[o] THEN Qty[o] - exec[o] ELSE 0
      /\ fills'[o] = NoFills /\ \A x \in Limit : fills'[x][o] = 0
  BY <1>1, <1>2 DEF BackendCrash, RestoreBook, NoFills
<1>4. Waiting(o)' = 0 /\ Taken(o)' = 0
  <2>1. Waiting(o)' = 0
    BY <1>3, WaitingNone, WaitingOf
  <2> QED
    BY <1>2, <2>1 DEF Taken, None
<1>5. ASSUME Clear(o)' PROVE Counted(o)'
  <2>1. Clear(o) /\ placing[o] \in {None, "frozen", "over"}
    BY <1>1, <1>2, <1>5, Named DEF Clear, RowsTypeOK
  <2>2. exec[o] <= Qty[o]
    <3>1. book[o] + Waiting(o) + exec[o] + Taken(o) <= Qty[o]
      BY <2>1, BookNamed DEF Booked, Counted, Total
    <3> QED
      BY <1>1, <3>1, PartsAreWhole
  <2>3. Placed(o)' /\ status'[o] \in Open => exec[o] < Qty[o]
    <3> SUFFICES ASSUME Placed(o)', status'[o] \in Open PROVE exec[o] < Qty[o]
      OBVIOUS
    <3>1. placing[o] \in {"frozen", "over"}
      BY <1>2, <2>1 DEF Placed, None
    <3>2. RowAgrees(o)
      BY <1>1, <2>1, <3>1, Named DEF Agreement
    <3>3. status[o] \in Open
      BY <1>2
    <3> QED
      BY <3>2, <3>3 DEF RowAgrees, Open
  <2>4. Total(o)' = book'[o] + exec[o]
    <3>1. Total(o)' = book'[o] + 0 + exec[o] + 0
      BY <1>2, <1>4 DEF Total
    <3>2. book'[o] \in Int
      BY <1>1, <1>3
    <3> QED
      BY <1>1, <3>1, <3>2
  <2> QED
    BY <1>1, <1>2, <1>3, <2>2, <2>3, <2>4 DEF Counted
<1>6. Counted(o)'
  BY <1>5 DEF Counted
<1> QED
  BY <1>3, <1>6 DEF Booked, NoFills

-----------------------------------------------------------------------------
(* The book, in every behaviour.                                           *)

LEMMA BookBegins == Init => BookInv
<1> SUFFICES ASSUME Init PROVE BookInv
  OBVIOUS
<1>1. OrdersInv
  BY LedgerInit
<1>2. ASSUME NEW o \in Limit PROVE Booked(o)
  <2>1. /\ o \in Orders /\ Qty[o] \in Nat
        /\ placing[o] = None /\ fills[o] = NoFills /\ book[o] = 0 /\ exec[o] = 0
        /\ \A x \in Limit : fills[x][o] = 0
    BY LimitOrder DEF Init, RowsInit, BookInit, NoFills
  <2>2. Waiting(o) = 0 /\ Taken(o) = 0
    <3>1. Waiting(o) = 0
      BY <2>1, WaitingNone, WaitingOf
    <3> QED
      BY <2>1, <3>1 DEF Taken, None
  <2>3. Total(o) = 0
    BY <2>1, <2>2 DEF Total
  <2>4. Counted(o)
    BY <2>1, <2>3 DEF Counted, Placed, None
  <2> QED
    BY <2>1, <2>4 DEF Booked, NoFills
<1> QED
  BY <1>1, <1>2 DEF BookInv

LEMMA BookNext ==
    ASSUME BookInv, [Next]_vars
    PROVE  BookInv'
<1>1. OrdersInv /\ OrdersInv'
  BY BookNamed, LedgerNext
<1>2. \A x \in Limit : Booked(x)'
  <2>1. CASE RowNext
    BY <2>1, RowStepBooks DEF RowNext, limitVars
  <2>2. CASE FailNext
    BY <2>2, FailTaskBooks DEF FailNext, limitVars
  <2>3. CASE LimitNext
    BY <2>3, SettleBooks, ReadBooks, FinishBooks, MatchBooks DEF LimitNext, LimitStep
  <2>4. CASE FailLimit
    BY <2>4, FailLegBooks DEF FailLimit
  <2>5. CASE DealNext
    <3>1. DealStep /\ UNCHANGED <<book, fills, filled>>
      BY <2>5 DEF DealNext, limitVars
    <3>2. \A x \in Limit : Left(x)
      BY <1>1, <3>1, DealsLeave
    <3> QED
      BY <3>1, <3>2, LeftCounted, BookNamed
  <2>6. CASE \E o \in Orders, t \in Tasks : StartCancel(o, t)
    BY <2>6, StartCancelBooks
  <2>7. CASE BackendCrash
    BY <2>7, CrashBooks
  <2>8. CASE UNCHANGED vars
    <3>1. UNCHANGED <<status, exec, placing, task, blame, book, fills, filled>>
      BY <2>8 DEF vars, orderVars, rowVars, limitVars
    <3>2. \A x \in Limit : Left(x)
      BY <3>1 DEF Left
    <3> QED
      BY <3>1, <3>2, LeftCounted, BookNamed
  <2> QED
    BY <2>1, <2>2, <2>3, <2>4, <2>5, <2>6, <2>7, <2>8 DEF Next
<1> QED
  BY <1>1, <1>2 DEF BookInv

LEMMA BookIsCounted == BookInv => BookFollowsRows
<1> SUFFICES ASSUME BookInv, NEW o \in Limit, Quiet(o)
             PROVE  IF status[o] \in Open THEN book[o] + Waiting(o) + exec[o] = Qty[o]
                    ELSE book[o] = 0
  BY DEF BookFollowsRows
<1>1. /\ placing[o] = "over" /\ Clear(o) /\ Idle(o) /\ Placed(o) /\ Taken(o) = 0
  BY DEF Quiet, Idle, Placed, Taken
<1>2. Counted(o) /\ OrdersInv
  BY BookNamed DEF Booked
<1>3. book[o] \in Nat /\ Waiting(o) \in Nat /\ exec[o] \in Nat
  BY <1>2, PartsAreWhole
<1>4. Total(o) = book[o] + Waiting(o) + exec[o]
  <2>1. Total(o) = book[o] + Waiting(o) + exec[o] + 0
    BY <1>1 DEF Total
  <2> QED
    BY <1>3, <2>1
<1> QED
  BY <1>1, <1>2, <1>4 DEF Counted

(* The book offers of an open order that can be trusted exactly what no    *)
(* match holds and no row has executed, and nothing of any other, for      *)
(* every set of orders, prices and quantities, whatever takers, cancels    *)
(* and restarts of goldex-backend come in between.                         *)
THEOREM BookStaysCounted == Spec => []BookFollowsRows
BY BookBegins, BookNext, BookIsCounted, PTL DEF Spec

-----------------------------------------------------------------------------
(* Provider orders: a completed one stays completed, or cannot be trusted. *)

Trusted(x) ==
    Clear(x)' => /\ Clear(x)
                 /\ status[x] = "COMPLETED" => status'[x] = "COMPLETED"
                 /\ exec'[x] \in {exec[x], 0, Qty[x]}

LEMMA LeftTrusted ==
    ASSUME NEW x, status'[x] = status[x] \/ status[x] # "COMPLETED", exec'[x] = exec[x],
           blame[x] \subseteq blame'[x]
    PROVE  Trusted(x)
BY DEF Trusted, Clear

LEMMA SavedTrusted ==
    ASSUME OrdersInv, NEW o \in Orders, NEW t \in Tasks, Has(o, t, Kinds), NEW s, NEW e,
           NEW causes, SaveTask(o, t, s, e, causes), e \in {task[o][t].exec, Qty[o]},
           NEW x \in Orders
    PROVE  Trusted(x)
<1>1. task[o][t] \in Reads
  BY SomeTask, Named, Kinds \in SUBSET Kinds
<1>2. CASE x # o
  BY <1>2, Named, LeftTrusted DEF SaveTask, RowsTypeOK
<1>3. CASE x = o
  <2> SUFFICES ASSUME Clear(x)' PROVE Trusted(x)
    BY DEF Trusted
  <2>1. blame'[o] = blame[o] \cup causes \cup Outdated(o, t) /\ exec'[o] = e
    BY Named DEF SaveTask, RowsTypeOK
  <2>2. Clear(o) /\ Outdated(o, t) = {}
    BY <1>3, <2>1 DEF Clear
  <2>3. status[o] \in Open /\ exec[o] = task[o][t].exec
    BY <1>1, <2>2, FreshTask
  <2> QED
    BY <1>3, <2>1, <2>2, <2>3 DEF Trusted, Open
<1> QED
  BY <1>2, <1>3

LEMMA ReleaseTrusted ==
    ASSUME OrdersInv, NEW o \in Orders, NEW t \in Tasks, Has(o, t, Kinds), NEW s,
           Release(o, t, s), NEW x \in Orders
    PROVE  Trusted(x)
<1>1. SaveTask(o, t, s, task[o][t].exec, {})
  BY DEF Release
<1> QED
  BY <1>1, SavedTrusted

LEMMA RowsTrusted ==
    ASSUME OrdersInv, NEW o \in Orders, RowStep(o) \/ \E t \in Tasks : FailTask(o, t),
           NEW x \in Orders
    PROVE  Trusted(x)
<1>1. /\ status \in [Orders -> Statuses \cup {None}] /\ exec \in [Orders -> Nat]
      /\ blame \in [Orders -> SUBSET Causes]
  BY Named DEF RowsTypeOK
<1>2. CASE Create(o) \/ Freeze(o)
  BY <1>1, <1>2, LeftTrusted DEF Create, Freeze, rowVars, None
<1>3. ASSUME NEW causes, SaveCreated(o, "REJECTED", 0, causes) PROVE Trusted(x)
  BY <1>1, <1>3 DEF SaveCreated, Trusted, Clear
<1>4. CASE RefuseFreeze(o) \/ RefuseLink(o)
  BY <1>3, <1>4 DEF RefuseFreeze, RefuseLink
<1>5. ASSUME NEW t \in Tasks, FinishCancel(o, t) PROVE Trusted(x)
  <2>1. Has(o, t, Kinds)
    BY <1>5 DEF FinishCancel, Has, Kinds
  <2> QED
    BY <1>5, <2>1, ReleaseTrusted DEF FinishCancel
<1>6. ASSUME NEW t \in Tasks, FailTask(o, t) PROVE Trusted(x)
  <2>1. UNCHANGED <<status, exec>> /\ blame[x] \subseteq blame'[x]
    BY <1>1, <1>6 DEF FailTask, rowVars
  <2> QED
    BY <2>1, LeftTrusted
<1> QED
  BY <1>2, <1>4, <1>5, <1>6 DEF RowStep

LEMMA DealsTrusted ==
    ASSUME OrdersInv, DealStep, NEW x \in Orders
    PROVE  Trusted(x)
<1>1. UNCHANGED <<status, exec, blame>> => Trusted(x)
  BY LeftTrusted
<1>2. CASE \/ \E o \in Market : EngineStep(o) \/ OnPlaced(o) \/ AskAgain(o) \/ Dispatch(o)
           \/ \E o \in Market, m \in Messages : Lose(o, m)
           \/ EngineCrash
  BY <1>1, <1>2 DEF EngineStep, OnPlace, Accepted, Refused, Answer, Poll, Report, FetchDeals,
                    OnQuery, OnPlaced, AskAgain, Dispatch, Lose, EngineCrash, orderVars, rowVars
<1>3. ASSUME NEW o \in Market, NEW t \in Tasks, NEW answer,
             OnStatus(o, t, answer) \/ StartMatch(o, t) \/ RefuseMatch(o, t)
      PROVE  Trusted(x)
  BY <1>1, <1>3 DEF OnStatus, StartMatch, RefuseMatch, StartTask, orderVars, rowVars
<1>4. ASSUME NEW o \in Market, NEW t \in Tasks, Link(o, t) PROVE Trusted(x)
  <2>1. o \in Orders /\ Has(o, t, Kinds) /\ Kinds \in SUBSET Kinds
    BY <1>4 DEF Link, Has, Answers, Kinds, Orders
  <2>2. task[o][t] \in Reads
    BY <2>1, SomeTask, Named
  <2>3. CASE x # o
    BY <1>4, <2>3, Named, LeftTrusted DEF Link, RowsTypeOK
  <2>4. CASE x = o
    <3> SUFFICES ASSUME Clear(x)' PROVE Trusted(x)
      BY DEF Trusted
    <3>1. /\ blame'[o] = blame[o] \cup Outdated(o, t)
          /\ exec'[o] = task[o][t].exec
      BY <1>4, <2>1, Named DEF Link, RowsTypeOK
    <3>2. Clear(o) /\ Outdated(o, t) = {}
      BY <2>4, <3>1 DEF Clear
    <3>3. status[o] \in Open /\ exec[o] = task[o][t].exec
      BY <2>1, <2>2, <3>2, FreshTask
    <3> QED
      BY <2>4, <3>1, <3>2, <3>3 DEF Trusted, Open
  <2> QED
    BY <2>3, <2>4
<1>5. ASSUME NEW o \in Market, NEW t \in Tasks, Confirm(o, t) \/ FinishMatch(o, t)
      PROVE  Trusted(x)
  <2>1. o \in Orders /\ Has(o, t, Kinds)
    BY <1>5 DEF Confirm, FinishMatch, Has, Kinds, Orders
  <2>2. \E causes : SaveTask(o, t, "COMPLETED", Qty[o], causes)
    BY <1>5 DEF Confirm, FinishMatch
  <2> QED
    BY <2>1, <2>2, SavedTrusted
<1>6. ASSUME NEW o \in Market, NEW t \in Tasks, Reject(o, t) PROVE Trusted(x)
  <2>1. o \in Orders /\ Has(o, t, Kinds) /\ Release(o, t, "REJECTED")
    BY <1>6 DEF Reject, Has, Kinds, Orders
  <2> QED
    BY <2>1, ReleaseTrusted
<1>7. ASSUME NEW o \in Market, SettleStep(o) PROVE Trusted(x)
  BY <1>2, <1>3, <1>4, <1>5, <1>6, <1>7 DEF SettleStep
<1> QED
  BY <1>2, <1>7 DEF DealStep

(* What is not traded in the book.                                         *)
LEMMA MarketTrusted ==
    ASSUME OrdersInv, [Next]_vars, NEW x \in Market
    PROVE  Trusted(x)
<1>1. x \in Orders /\ x \notin Limit
  BY OrdersAssumption DEF Orders
<1>2. /\ status \in [Orders -> Statuses \cup {None}] /\ exec \in [Orders -> Nat]
      /\ blame \in [Orders -> SUBSET Causes] /\ leg \in [Limit -> Legs \cup {NoLeg}]
  BY Named DEF RowsTypeOK, BookTypeOK
<1>3. CASE RowNext
  BY <1>1, <1>3, RowsTrusted DEF RowNext
<1>4. CASE FailNext
  BY <1>1, <1>4, RowsTrusted DEF FailNext
<1>5. CASE DealNext
  BY <1>1, <1>5, DealsTrusted DEF DealNext
<1>6. ASSUME NEW o \in Limit, SettleLeg(o) PROVE Trusted(x)
  <2>1. leg[o].maker \in Limit
    BY <1>2, <1>6 DEF SettleLeg, Legs
  <2> QED
    BY <1>1, <1>2, <1>6, <2>1, LeftTrusted DEF SettleLeg
<1>7. ASSUME NEW o \in Limit, NEW m \in Limit, ReadMaker(o, m) PROVE Trusted(x)
  BY <1>7, LeftTrusted DEF ReadMaker, orderVars, rowVars
<1>8. ASSUME NEW o \in Limit, FinishLimit(o) PROVE Trusted(x)
  BY <1>1, <1>2, <1>8, LeftTrusted DEF FinishLimit, SaveCreated, rowVars
<1>9. ASSUME NEW o \in Limit, MatchBook(o) PROVE Trusted(x)
  BY <1>1, <1>2, <1>9, LeftTrusted DEF MatchBook, rowVars
<1>10. CASE LimitNext
  BY <1>6, <1>7, <1>8, <1>9, <1>10 DEF LimitNext, LimitStep
<1>11. CASE FailLimit
  BY <1>1, <1>2, <1>11, LeftTrusted DEF FailLimit, FailLeg
<1>12. CASE \/ \E o \in Orders, t \in Tasks : StartCancel(o, t)
            \/ UNCHANGED vars
  BY <1>12, LeftTrusted DEF StartCancel, StartTask, vars, orderVars, rowVars
<1>13. CASE BackendCrash
  BY <1>1, <1>2, <1>13, LeftTrusted DEF BackendCrash, ForgetRequests, rowVars
<1> QED
  BY <1>3, <1>4, <1>5, <1>10, <1>11, <1>12, <1>13 DEF Next

-----------------------------------------------------------------------------
(* The steps that move money between the wallets of customers.             *)

Releasing(o) ==
    \E t \in Tasks, s \in {"CANCELLED", "REJECTED"} : Has(o, t, Kinds) /\ Release(o, t, s)

Moves ==
    \/ UNCHANGED <<walletVars, spread>>
    \/ \E o \in Orders : Freeze(o) /\ UNCHANGED spread
    \/ \E o \in Orders : Releasing(o) /\ UNCHANGED spread
    \/ \E o \in Market, t \in Tasks : (Confirm(o, t) \/ FinishMatch(o, t)) /\ UNCHANGED spread
    \/ \E o \in Limit : SettleLeg(o)

LEMMA MoneyMoves ==
    ASSUME [Next]_vars
    PROVE  Moves
<1>1. CASE RowNext
  <2>1. PICK o \in Orders : RowStep(o) /\ UNCHANGED spread
    BY <1>1 DEF RowNext, limitVars
  <2>2. CASE Create(o) \/ RefuseFreeze(o) \/ RefuseLink(o)
    BY <2>1, <2>2 DEF Create, RefuseFreeze, RefuseLink, Moves
  <2>3. CASE Freeze(o)
    BY <2>1, <2>3 DEF Moves
  <2>4. ASSUME NEW t \in Tasks, FinishCancel(o, t) PROVE Moves
    BY <2>1, <2>4 DEF FinishCancel, Has, Kinds, Releasing, Moves
  <2> QED
    BY <2>1, <2>2, <2>3, <2>4 DEF RowStep
<1>2. CASE FailNext
  BY <1>2 DEF FailNext, FailTask, limitVars, Moves
<1>3. CASE LimitNext
  <2>1. PICK o \in Limit : LimitStep(o)
    BY <1>3 DEF LimitNext
  <2>2. CASE SettleLeg(o)
    BY <2>2 DEF Moves
  <2>3. CASE (\E m \in Limit : ReadMaker(o, m)) \/ FinishLimit(o) \/ MatchBook(o)
    BY <2>3 DEF ReadMaker, FinishLimit, MatchBook, orderVars, limitVars, Moves
  <2> QED
    BY <2>1, <2>2, <2>3 DEF LimitStep
<1>4. CASE FailLimit
  BY <1>4 DEF FailLimit, FailLeg, Moves
<1>5. CASE DealNext
  <2>1. DealStep /\ UNCHANGED spread
    BY <1>5 DEF DealNext, limitVars
  <2>2. CASE \/ \E o \in Market : EngineStep(o)
             \/ \E o \in Market, m \in Messages : Lose(o, m)
             \/ EngineCrash
    BY <2>1, <2>2 DEF EngineStep, OnPlace, Accepted, Refused, Answer, Poll, Report, FetchDeals,
                      OnQuery, Lose, EngineCrash, orderVars, Moves
  <2>3. ASSUME NEW o \in Market, Dispatch(o) \/ OnPlaced(o) \/ AskAgain(o) PROVE Moves
    BY <2>1, <2>3 DEF Dispatch, OnPlaced, AskAgain, orderVars, Moves
  <2>4. ASSUME NEW o \in Market, NEW t \in Tasks, NEW answer, OnStatus(o, t, answer) PROVE Moves
    BY <2>1, <2>4 DEF OnStatus, StartTask, orderVars, Moves
  <2>5. ASSUME NEW o \in Market, NEW t \in Tasks, Link(o, t) \/ StartMatch(o, t) \/ RefuseMatch(o, t)
        PROVE  Moves
    BY <2>1, <2>5 DEF Link, StartMatch, RefuseMatch, StartTask, Moves
  <2>6. ASSUME NEW o \in Market, NEW t \in Tasks, Confirm(o, t) \/ FinishMatch(o, t) PROVE Moves
    BY <2>1, <2>6 DEF Moves
  <2>7. ASSUME NEW o \in Market, NEW t \in Tasks, Reject(o, t) PROVE Moves
    BY <2>1, <2>7 DEF Reject, Has, Kinds, Releasing, Moves, Orders
  <2>8. ASSUME NEW o \in Market, SettleStep(o) PROVE Moves
    BY <2>3, <2>4, <2>5, <2>6, <2>7, <2>8 DEF SettleStep
  <2> QED
    BY <2>1, <2>2, <2>8 DEF DealStep
<1>6. CASE \E o \in Orders, t \in Tasks : StartCancel(o, t)
  BY <1>6 DEF StartCancel, StartTask, Moves
<1>7. CASE BackendCrash
  BY <1>7 DEF BackendCrash, ForgetRequests, RestoreBook, Moves
<1>8. CASE UNCHANGED vars
  BY <1>8 DEF vars, orderVars, limitVars, Moves
<1> QED
  BY <1>1, <1>2, <1>3, <1>4, <1>5, <1>6, <1>7, <1>8 DEF Next

-----------------------------------------------------------------------------
(* What the orders of a wallet have locked, and its locked balance.        *)

Net == [o \in Orders |-> lockedBy[o] - usedBy[o] - freedBy[o]]

ShareIn(N, w) == [o \in Orders |-> IF Paid(o) = w THEN N[o] ELSE 0]

Carries(L, N) == \A w \in Wallets : L[w] = SumFunctionOnSet(ShareIn(N, w), Orders)

NoDebt(F) == \A w \in Wallets : F[w] >= 0

WalletInv ==
    /\ \A o \in Market : Clear(o) => exec[o] <= Qty[o]
    /\ NoDebt(free)
    /\ Carries(locked, Net)

LEMMA OrderMoves ==
    ASSUME NEW c, NEW d, NEW o \in Orders, \A x \in Orders : c[x] \in Int,
           d[o] \in Int, \A x \in Orders \ {o} : d[x] = c[x]
    PROVE  SumFunctionOnSet(d, Orders) = SumFunctionOnSet(c, Orders) + d[o] - c[o]
<1>1. IsFiniteSet(Orders)
  BY OrdersAssumption
<1>2. /\ o \in Orders /\ d[o] \in Int
      /\ \A x \in Orders : c[x] \in Int
      /\ \A x \in Orders \ {o} : d[x] = c[x]
  OBVIOUS
<1> QED
  BY ONLY <1>1, <1>2, SumMove

LEMMA ShareMoves ==
    ASSUME NEW N \in [Orders -> Int], NEW M \in [Orders -> Int], NEW k \in Orders,
           \A x \in Orders \ {k} : M[x] = N[x], NEW w \in Wallets
    PROVE  SumFunctionOnSet(ShareIn(M, w), Orders) =
              SumFunctionOnSet(ShareIn(N, w), Orders) + (IF Paid(k) = w THEN M[k] - N[k] ELSE 0)
<1>1. PICK c, d : c = ShareIn(N, w) /\ d = ShareIn(M, w)
  OBVIOUS
<1>2. \A x \in Orders : c[x] \in Int
  BY <1>1 DEF ShareIn
<1>3. \A x \in Orders \ {k} : d[x] = c[x]
  BY <1>1 DEF ShareIn
<1>4. k \in Orders /\ d[k] \in Int
  BY <1>1 DEF ShareIn
<1>5. SumFunctionOnSet(d, Orders) = SumFunctionOnSet(c, Orders) + d[k] - c[k]
  BY ONLY <1>2, <1>3, <1>4, OrderMoves
<1>6. c[k] = (IF Paid(k) = w THEN N[k] ELSE 0) /\ d[k] = (IF Paid(k) = w THEN M[k] ELSE 0)
  BY <1>1 DEF ShareIn
<1>7. SumFunctionOnSet(c, Orders) \in Int
  BY ONLY <1>2, OrdersAssumption, SumInt
<1>8. N[k] \in Int /\ M[k] \in Int
  OBVIOUS
<1>9. SumFunctionOnSet(d, Orders) =
         SumFunctionOnSet(c, Orders) + (IF Paid(k) = w THEN M[k] - N[k] ELSE 0)
  BY <1>5, <1>6, <1>7, <1>8
<1> QED
  BY <1>1, <1>9

LEMMA CarriesOn ==
    ASSUME NEW L \in [Wallets -> Int], NEW N \in [Orders -> Int], NEW M \in [Orders -> Int],
           Carries(L, N), NEW k \in Orders, NEW d \in Int, M[k] = N[k] + d,
           \A x \in Orders \ {k} : M[x] = N[x]
    PROVE  Carries(Add(L, Paid(k), d), M)
<1> SUFFICES ASSUME NEW w \in Wallets
             PROVE  Add(L, Paid(k), d)[w] = SumFunctionOnSet(ShareIn(M, w), Orders)
  BY DEF Carries
<1>1. PICK a, b : /\ a = SumFunctionOnSet(ShareIn(N, w), Orders)
                  /\ b = SumFunctionOnSet(ShareIn(M, w), Orders)
  OBVIOUS
<1>2. b = a + (IF Paid(k) = w THEN M[k] - N[k] ELSE 0)
  BY <1>1, ShareMoves
<1>3. L[w] = a /\ L[w] \in Int
  BY <1>1 DEF Carries
<1>4. Add(L, Paid(k), d)[w] = IF Paid(k) = w THEN L[w] + d ELSE L[w]
  BY DEF Add
<1>5. M[k] \in Int /\ N[k] \in Int /\ M[k] - N[k] = d
  OBVIOUS
<1>6. Add(L, Paid(k), d)[w] = b
  BY <1>2, <1>3, <1>4, <1>5
<1> QED
  BY <1>1, <1>6

LEMMA NoDebtOn ==
    ASSUME NEW F \in [Wallets -> Int], NoDebt(F), NEW w \in Wallets, NEW n \in Int,
           F[w] + n >= 0
    PROVE  Add(F, w, n) \in [Wallets -> Int] /\ NoDebt(Add(F, w, n))
BY DEF NoDebt, Add

LEMMA GainsNoDebt ==
    ASSUME NEW F \in [Wallets -> Int], NoDebt(F), NEW w \in Wallets, NEW n \in Nat
    PROVE  Add(F, w, n) \in [Wallets -> Int] /\ NoDebt(Add(F, w, n))
<1>1. n \in Int /\ F[w] + n >= 0
  BY DEF NoDebt
<1> QED
  BY <1>1, NoDebtOn

LEMMA NetWhole ==
    ASSUME RowsTypeOK
    PROVE  /\ Net \in [Orders -> Int]
           /\ locked \in [Wallets -> Int] /\ free \in [Wallets -> Int]
<1>1. \A o \in Orders : lockedBy[o] \in Nat /\ usedBy[o] \in Nat /\ freedBy[o] \in Nat
  BY DEF RowsTypeOK
<1> QED
  BY <1>1 DEF RowsTypeOK, Net

LEMMA OneCarriesOn ==
    ASSUME RowsTypeOK, RowsTypeOK', Carries(locked, Net), NEW k \in Orders, NEW d \in Int,
           locked' = Add(locked, Paid(k), d),
           lockedBy'[k] - usedBy'[k] - freedBy'[k] = lockedBy[k] - usedBy[k] - freedBy[k] + d,
           \A x \in Orders \ {k} :
              lockedBy'[x] = lockedBy[x] /\ usedBy'[x] = usedBy[x] /\ freedBy'[x] = freedBy[x]
    PROVE  Carries(locked, Net)'
<1>1. PICK N, M : N = Net /\ M = Net'
  OBVIOUS
<1>2. N \in [Orders -> Int] /\ M \in [Orders -> Int]
  <2>1. Net \in [Orders -> Int]
    BY NetWhole
  <2>2. Net' \in [Orders -> Int]
    <3>1. \A o \in Orders : lockedBy'[o] \in Nat /\ usedBy'[o] \in Nat /\ freedBy'[o] \in Nat
      BY DEF RowsTypeOK
    <3> QED
      BY <3>1 DEF Net
  <2> QED
    BY <1>1, <2>1, <2>2
<1>3. M[k] = N[k] + d /\ \A x \in Orders \ {k} : M[x] = N[x]
  BY <1>1 DEF Net
<1>4. locked \in [Wallets -> Int]
  BY NetWhole
<1>5. Carries(locked, N)
  BY <1>1
<1>6. Carries(Add(locked, Paid(k), d), M)
  BY <1>2, <1>3, <1>4, <1>5, CarriesOn
<1> QED
  BY <1>1, <1>6

LEMMA FreezeWallets ==
    ASSUME RowsTypeOK, RowsTypeOK', Carries(locked, Net), NoDebt(free),
           NEW o \in Orders, Freeze(o)
    PROVE  Carries(locked, Net)' /\ NoDebt(free)'
<1>1. /\ LockOf(o) \in Nat /\ LockOf(o) \in Int /\ -LockOf(o) \in Int
      /\ Paid(o) \in Wallets /\ free[Paid(o)] >= LockOf(o)
      /\ free \in [Wallets -> Int] /\ free[Paid(o)] \in Int
      /\ lockedBy \in [Orders -> Nat] /\ usedBy[o] \in Nat /\ freedBy[o] \in Nat
  BY LockAmount, WalletsOf DEF Freeze, RowsTypeOK
<1>2. /\ free' = Add(free, Paid(o), -LockOf(o))
      /\ locked' = Add(locked, Paid(o), LockOf(o))
      /\ lockedBy' = Add(lockedBy, o, LockOf(o)) /\ UNCHANGED <<usedBy, freedBy>>
  BY DEF Freeze
<1>3. /\ lockedBy'[o] = lockedBy[o] + LockOf(o)
      /\ \A x \in Orders \ {o} : lockedBy'[x] = lockedBy[x]
  BY <1>1, <1>2, AddAt
<1>4. lockedBy'[o] - usedBy'[o] - freedBy'[o] = lockedBy[o] - usedBy[o] - freedBy[o] + LockOf(o)
  BY <1>1, <1>2, <1>3
<1>5. Carries(locked, Net)'
  BY <1>1, <1>2, <1>3, <1>4, OneCarriesOn
<1>6. free[Paid(o)] + -LockOf(o) >= 0
  BY <1>1
<1>7. NoDebt(free')
  BY <1>1, <1>2, <1>6, NoDebtOn
<1> QED
  BY <1>5, <1>7 DEF NoDebt

LEMMA ReleaseWallets ==
    ASSUME RowsTypeOK, RowsTypeOK', Carries(locked, Net), NoDebt(free),
           NEW o \in Orders, Releasing(o)
    PROVE  Carries(locked, Net)' /\ NoDebt(free)'
<1>1. PICK t \in Tasks, s \in {"CANCELLED", "REJECTED"} : Has(o, t, Kinds) /\ Release(o, t, s)
  BY DEF Releasing
<1>2. PICK n \in Nat :
         /\ locked' = Add(locked, Paid(o), -n) /\ free' = Add(free, Paid(o), n)
         /\ freedBy' = Add(freedBy, o, n) /\ UNCHANGED <<lockedBy, usedBy>>
  <2>1. task[o][t] \in Reads
    BY <1>1, SomeTask, Kinds \in SUBSET Kinds
  <2>2. RemainderOf(o, task[o][t].exec) \in Nat
    BY <2>1, RemainderAmount DEF Reads
  <2> QED
    BY <1>1, <2>2 DEF Release, Unlock
<1>3. /\ Paid(o) \in Wallets /\ free \in [Wallets -> Int] /\ -n \in Int
      /\ freedBy \in [Orders -> Nat] /\ usedBy[o] \in Nat /\ lockedBy[o] \in Nat
  BY WalletsOf DEF RowsTypeOK
<1>4. freedBy'[o] = freedBy[o] + n /\ \A x \in Orders \ {o} : freedBy'[x] = freedBy[x]
  BY <1>2, <1>3, AddAt
<1>5. lockedBy'[o] - usedBy'[o] - freedBy'[o] = lockedBy[o] - usedBy[o] - freedBy[o] + -n
  BY <1>2, <1>3, <1>4
<1>6. Carries(locked, Net)'
  BY <1>2, <1>3, <1>4, <1>5, OneCarriesOn
<1>7. NoDebt(free')
  BY <1>2, <1>3, GainsNoDebt
<1> QED
  BY <1>6, <1>7 DEF NoDebt

(* An order that is carried out, by the provider or another user, spends   *)
(* from its lock.                                                          *)
LEMMA SpentCarriesOn ==
    ASSUME RowsTypeOK, RowsTypeOK', Carries(locked, Net), NEW o \in Orders, NEW n \in Nat,
           locked' = Add(locked, Paid(o), -n), usedBy' = Add(usedBy, o, n),
           UNCHANGED <<lockedBy, freedBy>>
    PROVE  Carries(locked, Net)'
<1>1. /\ -n \in Int /\ usedBy \in [Orders -> Nat] /\ freedBy[o] \in Nat /\ lockedBy[o] \in Nat
  BY DEF RowsTypeOK
<1>2. usedBy'[o] = usedBy[o] + n /\ \A x \in Orders \ {o} : usedBy'[x] = usedBy[x]
  BY <1>1, AddAt
<1>3. lockedBy'[o] - usedBy'[o] - freedBy'[o] = lockedBy[o] - usedBy[o] - freedBy[o] + -n
  BY <1>1, <1>2
<1> QED
  BY <1>1, <1>2, <1>3, OneCarriesOn

LEMMA ConfirmWallets ==
    ASSUME RowsTypeOK, RowsTypeOK', Carries(locked, Net), NoDebt(free),
           NEW o \in Market, NEW t \in Tasks, Confirm(o, t)
    PROVE  Carries(locked, Net)' /\ NoDebt(free)'
<1>1. o \in Orders /\ LockOf(o) \in Nat
  BY LockAmount DEF Orders
<1>2. /\ locked' = Add(locked, Paid(o), -LockOf(o)) /\ usedBy' = Add(usedBy, o, LockOf(o))
      /\ UNCHANGED <<lockedBy, freedBy>> /\ free' = Add(free, Got(o), Gets[o])
  BY DEF Confirm
<1>3. Carries(locked, Net)'
  BY <1>1, <1>2, SpentCarriesOn
<1>4. Gets[o] \in Nat /\ Got(o) \in Wallets /\ free \in [Wallets -> Int]
  BY <1>1, DealsAssumption, WalletsOf DEF RowsTypeOK
<1>5. NoDebt(free')
  BY <1>2, <1>4, GainsNoDebt
<1> QED
  BY <1>3, <1>5 DEF NoDebt

LEMMA MatchWallets ==
    ASSUME RowsTypeOK, RowsTypeOK', Carries(locked, Net), NoDebt(free),
           NEW o \in Market, NEW t \in Tasks, FinishMatch(o, t)
    PROVE  Carries(locked, Net)' /\ NoDebt(free)'
<1>1. PICK cost \in Nat, gain \in Nat : cost = Cost(o, Qty[o]) /\ gain = Gain(o, Qty[o])
  BY Amounts, WalletsOf DEF Orders
<1>2. PICK give \in Wallets, take \in Wallets :
         give = <<Requester[o], Got(o)[2]>> /\ take = <<Requester[o], Paid(o)[2]>>
  <2>1. o \in Quote /\ o \in Orders /\ Requester[o] \in Users
    BY DealsAssumption DEF FinishMatch, Orders
  <2>2. Got(o)[2] \in Assets /\ Paid(o)[2] \in Assets
    BY DEF Got, Paid, Assets
  <2> QED
    BY <2>1, <2>2 DEF Wallets
<1>3. /\ locked' = Add(locked, Paid(o), -cost) /\ usedBy' = Add(usedBy, o, cost)
      /\ UNCHANGED <<lockedBy, freedBy>> /\ free[give] >= gain
      /\ free' = Add(Add(Add(free, give, -gain), take, cost), Got(o), gain)
  BY <1>1, <1>2 DEF FinishMatch
<1>4. o \in Orders /\ Got(o) \in Wallets /\ free \in [Wallets -> Int]
  BY WalletsOf DEF RowsTypeOK, Orders
<1>5. Carries(locked, Net)'
  BY <1>3, <1>4, SpentCarriesOn
<1>6. NoDebt(free')
  <2>1. PICK f : f = Add(free, give, -gain)
    OBVIOUS
  <2>2. -gain \in Int /\ free[give] + -gain >= 0
    BY <1>3, <1>4
  <2>3. f \in [Wallets -> Int] /\ NoDebt(f)
    BY <1>4, <2>1, <2>2, NoDebtOn
  <2>4. PICK g : g = Add(f, take, cost)
    OBVIOUS
  <2>5. g \in [Wallets -> Int] /\ NoDebt(g)
    BY <2>3, <2>4, GainsNoDebt
  <2>6. NoDebt(Add(g, Got(o), gain))
    BY <1>4, <2>5, GainsNoDebt
  <2> QED
    BY <1>3, <2>1, <2>4, <2>6
<1> QED
  BY <1>5, <1>6 DEF NoDebt

(* What a leg does to the wallets.                                         *)
LEMMA LegOf ==
    ASSUME RowsTypeOK, BookTypeOK, NEW o \in Limit, SettleLeg(o)
    PROVE  \E m \in Limit, q \in Nat :
              /\ m = leg[o].maker /\ q = fills[o][m] /\ leg[o] # NoLeg
              /\ locked' = Add(Add(locked, Paid(o), -Cost(o, q)), Paid(m), -Cost(m, q))
              /\ free' = Add(Add(free, Got(o), Gain(o, q)), Got(m), Gain(m, q))
              /\ usedBy' = Add(Add(usedBy, o, Cost(o, q)), m, Cost(m, q))
              /\ spread' = spread + Spread(o, m, q)
              /\ UNCHANGED <<lockedBy, freedBy>>
<1>1. leg[o] \in Legs
  BY DEF SettleLeg, BookTypeOK
<1>2. leg[o].maker \in Limit
  BY <1>1 DEF Legs
<1>3. fills[o][leg[o].maker] \in Nat
  BY <1>2 DEF BookTypeOK
<1> QED
  BY <1>2, <1>3 DEF SettleLeg

LEMMA LegWallets ==
    ASSUME OrdersInv, RowsTypeOK', Carries(locked, Net), NoDebt(free),
           NEW o \in Limit, SettleLeg(o)
    PROVE  Carries(locked, Net)' /\ NoDebt(free)'
<1>1. PICK m \in Limit, q \in Nat :
         /\ m = leg[o].maker /\ leg[o] # NoLeg
         /\ locked' = Add(Add(locked, Paid(o), -Cost(o, q)), Paid(m), -Cost(m, q))
         /\ free' = Add(Add(free, Got(o), Gain(o, q)), Got(m), Gain(m, q))
         /\ usedBy' = Add(Add(usedBy, o, Cost(o, q)), m, Cost(m, q))
         /\ UNCHANGED <<lockedBy, freedBy>>
  BY Named, LegOf
<1>2. /\ m \in Orders /\ o \in Orders /\ m # o
      /\ Got(o) \in Wallets /\ Got(m) \in Wallets /\ Paid(o) \in Wallets /\ Paid(m) \in Wallets
      /\ RowsTypeOK /\ free \in [Wallets -> Int] /\ locked \in [Wallets -> Int]
      /\ usedBy \in [Orders -> Nat] /\ lockedBy \in [Orders -> Nat] /\ freedBy \in [Orders -> Nat]
  BY <1>1, WalletsOf, LimitOrder, Named DEF Shape, RowsTypeOK
<1>3. PICK a, b \in Nat : a = Cost(o, q) /\ b = Cost(m, q)
  BY <1>2, Amounts
<1>4. Gain(o, q) \in Nat /\ Gain(m, q) \in Nat
  BY <1>2, Amounts
<1>5. NoDebt(free')
  <2>1. PICK f : f = Add(free, Got(o), Gain(o, q))
    OBVIOUS
  <2>2. f \in [Wallets -> Int] /\ NoDebt(f)
    BY <1>2, <1>4, <2>1, GainsNoDebt
  <2> QED
    BY <1>1, <1>2, <1>4, <2>1, <2>2, GainsNoDebt
<1>6. /\ usedBy'[o] = usedBy[o] + a /\ usedBy'[m] = usedBy[m] + b
      /\ \A x \in Orders \ {o, m} : usedBy'[x] = usedBy[x]
  <2>1. PICK g : g = Add(usedBy, o, a)
    OBVIOUS
  <2>2. g \in [Orders -> Nat] /\ g[o] = usedBy[o] + a /\ \A x \in Orders \ {o} : g[x] = usedBy[x]
    <3>1. usedBy \in [Orders -> Nat] /\ o \in Orders /\ a \in Nat
      BY <1>2
    <3>2. g \in [Orders -> Nat]
      BY ONLY <2>1, <3>1, AddNat
    <3> QED
      BY ONLY <2>1, <3>1, <3>2, AddAt
  <2>3. usedBy' = Add(g, m, b)
    BY <1>1, <1>3, <2>1
  <2>4. Add(g, m, b)[m] = g[m] + b /\ \A x \in Orders \ {m} : Add(g, m, b)[x] = g[x]
    <3>1. m \in Orders /\ b \in Nat /\ g \in [Orders -> Nat]
      BY <1>2, <2>2
    <3> QED
      BY ONLY <3>1, AddAt
  <2>5. usedBy'[m] = g[m] + b /\ \A x \in Orders \ {m} : usedBy'[x] = g[x]
    BY <2>3, <2>4
  <2> QED
    BY <1>2, <2>2, <2>5
<1>7. PICK N, M : N = Net /\ M = Net'
  OBVIOUS
<1>8. N \in [Orders -> Int] /\ Carries(locked, N)
  BY <1>2, <1>7, NetWhole
<1>9. \A x \in Orders : M[x] = lockedBy[x] - usedBy'[x] - freedBy[x]
                        /\ N[x] = lockedBy[x] - usedBy[x] - freedBy[x]
  BY <1>1, <1>7 DEF Net
<1>10. M \in [Orders -> Int]
  <2>1. \A x \in Orders : lockedBy'[x] \in Nat /\ usedBy'[x] \in Nat /\ freedBy'[x] \in Nat
    BY DEF RowsTypeOK
  <2> QED
    BY <1>7, <2>1 DEF Net
<1>11. /\ M[o] = N[o] + -a /\ M[m] = N[m] + -b
       /\ \A x \in Orders \ {o, m} : M[x] = N[x]
  BY <1>2, <1>6, <1>9
<1>12. PICK K : K = [N EXCEPT ![o] = @ + -a]
  OBVIOUS
<1>13. /\ K \in [Orders -> Int] /\ K[o] = N[o] + -a /\ \A x \in Orders \ {o} : K[x] = N[x]
       /\ -a \in Int /\ -b \in Int
  <2>1. -a \in Int /\ -b \in Int
    OBVIOUS
  <2>2. N[o] \in Int /\ N[o] + -a \in Int
    BY <1>2, <1>8, <2>1
  <2>3. PICK v \in Int : v = N[o] + -a
    BY <2>2
  <2>4. K = [N EXCEPT ![o] = v]
    BY <1>12, <2>3
  <2>5. K \in [Orders -> Int] /\ K[o] = v /\ \A x \in Orders \ {o} : K[x] = N[x]
    BY <1>2, <1>8, <2>4
  <2> QED
    BY <2>1, <2>3, <2>5
<1>14. PICK L : L = Add(locked, Paid(o), -a)
  OBVIOUS
<1>15. Carries(L, K)
  BY <1>2, <1>8, <1>13, <1>14, CarriesOn
<1>16. L \in [Wallets -> Int]
  BY <1>2, <1>13, <1>14, AddInt
<1>17. M[m] = K[m] + -b /\ \A x \in Orders \ {m} : M[x] = K[x]
  BY <1>2, <1>11, <1>13
<1>18. Carries(Add(L, Paid(m), -b), M)
  BY <1>2, <1>10, <1>13, <1>15, <1>16, <1>17, CarriesOn
<1>19. locked' = Add(L, Paid(m), -b)
  BY <1>1, <1>3, <1>14
<1> QED
  BY <1>5, <1>7, <1>18, <1>19 DEF NoDebt

LEMMA WalletBegins == Init => WalletInv
<1> SUFFICES ASSUME Init PROVE WalletInv
  OBVIOUS
<1>1. /\ free = Funds /\ locked = [w \in Wallets |-> 0] /\ exec = [o \in Orders |-> 0]
      /\ \A o \in Orders : lockedBy[o] = 0 /\ usedBy[o] = 0 /\ freedBy[o] = 0
  BY DEF Init, RowsInit
<1>2. \A o \in Market : exec[o] <= Qty[o]
  BY <1>1, WalletsOf DEF Orders
<1>3. NoDebt(free)
  BY <1>1, OrdersAssumption DEF NoDebt
<1>4. Carries(locked, Net)
  <2> SUFFICES ASSUME NEW w \in Wallets
               PROVE  locked[w] = SumFunctionOnSet(ShareIn(Net, w), Orders)
    BY DEF Carries
  <2>1. PICK c : c = ShareIn(Net, w)
    OBVIOUS
  <2>2. \A x \in Orders : c[x] = 0
    BY <1>1, <2>1 DEF ShareIn, Net
  <2>3. SumFunctionOnSet(c, Orders) = 0
    BY <2>2, OrdersAssumption, SumZero
  <2> QED
    BY <1>1, <2>1, <2>3
<1> QED
  BY <1>2, <1>3, <1>4 DEF WalletInv

LEMMA WalletNext ==
    ASSUME OrdersInv, WalletInv, [Next]_vars
    PROVE  WalletInv'
<1>1. OrdersInv' /\ RowsTypeOK' /\ RowsTypeOK
  BY LedgerNext, Named DEF OrdersInv, OrdersTypeOK
<1>2. \A o \in Market : Clear(o)' => exec'[o] <= Qty[o]
  <2> SUFFICES ASSUME NEW o \in Market, Clear(o)' PROVE exec'[o] <= Qty[o]
    OBVIOUS
  <2>1. Clear(o) /\ exec'[o] \in {exec[o], 0, Qty[o]}
    BY MarketTrusted DEF Trusted
  <2>2. exec[o] <= Qty[o] /\ Qty[o] \in Nat
    BY <2>1, WalletsOf DEF WalletInv, Orders
  <2> QED
    BY <2>1, <2>2
<1>3. Carries(locked, Net) /\ NoDebt(free)
  BY DEF WalletInv
<1>4. Carries(locked, Net)' /\ NoDebt(free)'
  <2>1. CASE UNCHANGED <<walletVars, spread>>
    <3>1. free' = free /\ locked' = locked /\ Net' = Net
      BY <2>1 DEF walletVars, Net
    <3> QED
      BY <1>3, <3>1
  <2> QED
    BY <1>1, <1>3, <2>1, MoneyMoves, FreezeWallets, ReleaseWallets, ConfirmWallets, MatchWallets,
       LegWallets DEF Moves
<1> QED
  BY <1>2, <1>4 DEF WalletInv

LEMMA CostGrows ==
    ASSUME NEW o \in Orders, NEW x \in Nat, NEW y \in Nat, x <= y
    PROVE  Cost(o, x) <= Cost(o, y)
<1>1. PICK z \in Nat : y = x + z
  <2>1. y - x \in Nat /\ y = x + (y - x)
    OBVIOUS
  <2> QED
    BY <2>1
<1>2. Cost(o, y) = Cost(o, x) + Cost(o, z) /\ Cost(o, x) \in Nat /\ Cost(o, z) \in Nat
  BY <1>1, CostAdds, Amounts
<1> QED
  BY <1>2

(* The lock of an order that can be trusted covers what was paid from it.  *)
LEMMA LockCovers ==
    ASSUME BookInv, WalletInv, NEW o \in Orders, Clear(o)
    PROVE  usedBy[o] + freedBy[o] <= lockedBy[o]
<1>1. /\ OrdersInv /\ Agreement(o)
      /\ Qty[o] \in Nat /\ Fee[o] \in Nat /\ exec[o] \in Nat
      /\ placing[o] \in {None, "saved", "frozen", "settling", "over"}
      /\ lockedBy[o] \in Nat /\ usedBy[o] \in Nat /\ freedBy[o] \in Nat
  BY BookNamed, Named, WalletsOf DEF RowsTypeOK
<1>2. CASE placing[o] \in {None, "saved"}
  BY <1>1, <1>2 DEF Agreement, NothingDone, Unlocked
<1>3. exec[o] <= Qty[o]
  <2>1. CASE o \in Market
    BY <2>1 DEF WalletInv
  <2>2. CASE o \in Limit
    <3>1. book[o] + Waiting(o) + exec[o] + Taken(o) <= Qty[o]
      BY <2>2, BookNamed DEF Booked, Counted, Total
    <3> QED
      BY <1>1, <2>2, <3>1, PartsAreWhole
  <2> QED
    BY <2>1, <2>2 DEF Orders
<1>4. CASE placing[o] = "settling"
  <2>1. o \in Limit
    BY <1>1, <1>4, Named DEF Shape, Orders
  <2>2. Taken(o) = filled[o] + Size(fills[o])
    BY <1>4 DEF Taken
  <2>3. book[o] + Waiting(o) + exec[o] + Taken(o) <= Qty[o]
    BY <2>1, BookNamed DEF Booked, Counted, Total
  <2>4. filled[o] + exec[o] <= Qty[o] /\ filled[o] + exec[o] \in Nat
    BY <1>1, <2>1, <2>2, <2>3, PartsAreWhole
  <2>5. lockedBy[o] = LockOf(o) /\ freedBy[o] = 0 /\ usedBy[o] = Cost(o, filled[o] + exec[o])
    BY <1>1, <1>4 DEF Agreement, SettlingAgrees, None
  <2>6. Cost(o, filled[o] + exec[o]) <= Cost(o, Qty[o])
    BY <1>1, <2>4, CostGrows
  <2>7. Cost(o, Qty[o]) \in Nat /\ LockOf(o) = Cost(o, Qty[o]) + Fee[o]
    BY <1>1, Amounts DEF LockOf
  <2> QED
    BY <1>1, <2>5, <2>6, <2>7
<1>5. CASE placing[o] \in {"frozen", "over"}
  <2>1. RowAgrees(o)
    BY <1>1, <1>5 DEF Agreement
  <2>2. /\ Cost(o, exec[o]) <= Cost(o, Qty[o]) /\ Cost(o, exec[o]) \in Nat
        /\ Cost(o, Qty[o]) \in Nat /\ LockOf(o) = Cost(o, Qty[o]) + Fee[o]
    BY <1>1, <1>3, CostGrows, Amounts DEF LockOf
  <2>3. \/ lockedBy[o] = LockOf(o) /\ usedBy[o] = Cost(o, exec[o]) /\ freedBy[o] = 0
        \/ lockedBy[o] = LockOf(o) /\ usedBy[o] = Cost(o, exec[o]) + Fee[o] /\ freedBy[o] = 0
        \/ usedBy[o] + freedBy[o] = lockedBy[o]
        \/ Unlocked(o)
    BY <2>1 DEF RowAgrees
  <2> QED
    BY <1>1, <2>2, <2>3 DEF Unlocked
<1> QED
  BY <1>1, <1>2, <1>4, <1>5

LEMMA WalletsBacked == BookInv /\ WalletInv => BalancesAreBacked
<1> SUFFICES ASSUME BookInv, WalletInv, NEW w \in Wallets
             PROVE  /\ free[w] >= 0
                    /\ locked[w] < 0 => \E o \in Orders : Paid(o) = w /\ ~Clear(o)
  BY DEF BalancesAreBacked
<1>1. free[w] >= 0
  BY DEF WalletInv, NoDebt
<1>2. ASSUME \A o \in Orders : Paid(o) = w => Clear(o) PROVE locked[w] >= 0
  <2>1. PICK c : c = ShareIn(Net, w)
    OBVIOUS
  <2>2. \A o \in Orders : c[o] \in Nat
    <3> SUFFICES ASSUME NEW o \in Orders PROVE c[o] \in Nat
      OBVIOUS
    <3>1. c[o] = IF Paid(o) = w THEN lockedBy[o] - usedBy[o] - freedBy[o] ELSE 0
      BY <2>1 DEF ShareIn, Net
    <3>2. lockedBy[o] \in Nat /\ usedBy[o] \in Nat /\ freedBy[o] \in Nat
      BY BookNamed, Named DEF RowsTypeOK
    <3>3. Paid(o) = w => usedBy[o] + freedBy[o] <= lockedBy[o]
      BY <1>2, LockCovers
    <3> QED
      BY <3>1, <3>2, <3>3
  <2>3. SumFunctionOnSet(c, Orders) \in Nat
    BY <2>2, OrdersAssumption, SumNat
  <2>4. locked[w] = SumFunctionOnSet(c, Orders)
    BY <2>1 DEF WalletInv, Carries
  <2> QED
    BY <2>3, <2>4
<1>3. locked[w] \in Int
  BY BookNamed, Named DEF RowsTypeOK
<1> QED
  BY <1>1, <1>2, <1>3

(* No free balance is ever below zero, and a locked one only because of an *)
(* order that met one of the causes: the others have locked what is paid   *)
(* from them, to other customers or to the provider, or given back.        *)
THEOREM BalancesStayBacked == Spec => []BalancesAreBacked
<1>1. Init => BookInv /\ WalletInv
  BY BookBegins, WalletBegins
<1>2. BookInv /\ WalletInv /\ [Next]_vars => (BookInv /\ WalletInv)'
  BY BookNext, WalletNext, BookNamed
<1> QED
  BY <1>1, <1>2, WalletsBacked, PTL DEF Spec

-----------------------------------------------------------------------------
(* What customers hold together of an asset.                               *)

HeldIn(F, a) == SumFunctionOnSet(F, Users \X {a})

LEMMA WalletsOfAsset ==
    ASSUME NEW a \in Assets
    PROVE  IsFiniteSet(Users \X {a}) /\ Users \X {a} \subseteq Wallets
<1>1. IsFiniteSet(Users) /\ IsFiniteSet({a})
  BY OrdersAssumption, FS_Singleton
<1> QED
  BY <1>1, FS_Product DEF Wallets

LEMMA HeldAdds ==
    ASSUME NEW F \in [Wallets -> Int], NEW k \in Wallets, NEW n \in Int, NEW a \in Assets
    PROVE  /\ HeldIn(F, a) \in Int
           /\ HeldIn(Add(F, k, n), a) = HeldIn(F, a) + (IF k[2] = a THEN n ELSE 0)
<1> DEFINE S == Users \X {a}
<1>1. PICK G : G = Add(F, k, n)
  OBVIOUS
<1>2. /\ IsFiniteSet(S) /\ (\A x \in S : F[x] \in Int)
  BY WalletsOfAsset
<1>3. G[k] = F[k] + n /\ F[k] \in Int /\ \A x \in Wallets \ {k} : G[x] = F[x]
  BY <1>1 DEF Add
<1>4. k \in S <=> k[2] = a
  BY DEF Wallets
<1>5. S \subseteq Wallets
  BY WalletsOfAsset
<1> HIDE DEF S
<1>6. SumFunctionOnSet(F, S) \in Int
  BY ONLY <1>2, SumInt
<1>7. CASE k \in S
  <2>1. k \in S /\ G[k] \in Int /\ (\A x \in S \ {k} : G[x] = F[x])
    BY <1>3, <1>5, <1>7
  <2>2. SumFunctionOnSet(G, S) = SumFunctionOnSet(F, S) + G[k] - F[k]
    BY ONLY <1>2, <2>1, SumMove
  <2>3. SumFunctionOnSet(G, S) = SumFunctionOnSet(F, S) + n
    BY <1>3, <1>6, <2>2
  <2> QED
    BY <1>1, <1>4, <1>6, <1>7, <2>3 DEF HeldIn, S
<1>8. CASE k \notin S
  <2>1. \A x \in S : G[x] = F[x]
    BY <1>3, <1>5, <1>8
  <2>2. SumFunctionOnSet(G, S) = SumFunctionOnSet(F, S)
    BY ONLY <1>2, <2>1, SumSame
  <2>3. SumFunctionOnSet(F, S) + 0 = SumFunctionOnSet(F, S)
    BY <1>6
  <2> QED
    BY <1>1, <1>4, <1>6, <1>8, <2>2, <2>3 DEF HeldIn, S
<1> QED
  BY <1>7, <1>8

LEMMA BalanceWhole ==
    ASSUME RowsTypeOK
    PROVE  Balance \in [Wallets -> Int]
BY DEF Balance, RowsTypeOK

(* Money that is locked or unlocked stays with its owner.                  *)
LEMMA BalanceStays ==
    ASSUME RowsTypeOK, NEW o \in Orders, NEW n \in Int,
           locked' = Add(locked, Paid(o), n), free' = Add(free, Paid(o), -n)
    PROVE  Balance' = Balance
<1>1. -n \in Int /\ free \in [Wallets -> Int] /\ locked \in [Wallets -> Int]
  BY DEF RowsTypeOK
<1>2. ASSUME NEW w \in Wallets PROVE free'[w] + locked'[w] = free[w] + locked[w]
  <2>1. /\ locked'[w] = IF w = Paid(o) THEN locked[w] + n ELSE locked[w]
        /\ free'[w] = IF w = Paid(o) THEN free[w] + -n ELSE free[w]
    BY <1>1 DEF Add
  <2>2. free[w] \in Int /\ locked[w] \in Int
    BY <1>1
  <2> QED
    BY <2>1, <2>2
<1> QED
  BY <1>2 DEF Balance

(* The four wallets of a leg.                                              *)
LEMMA LegMoves ==
    ASSUME NEW L \in [Wallets -> Int], NEW F \in [Wallets -> Int],
           NEW p1 \in Wallets, NEW p2 \in Wallets, NEW g1 \in Wallets, NEW g2 \in Wallets,
           NEW c1 \in Int, NEW c2 \in Int, NEW n1 \in Int, NEW n2 \in Int,
           NEW w \in Wallets
    PROVE  Add(Add(F, g1, n1), g2, n2)[w] + Add(Add(L, p1, c1), p2, c2)[w] =
             Add(Add(Add(Add([x \in Wallets |-> F[x] + L[x]], p1, c1), p2, c2), g1, n1), g2, n2)[w]
<1> DEFINE d(p, c) == IF w = p THEN c ELSE 0
<1>1. ASSUME NEW H \in [Wallets -> Int], NEW p \in Wallets, NEW c \in Int
      PROVE  Add(H, p, c) \in [Wallets -> Int] /\ Add(H, p, c)[w] = H[w] + d(p, c)
  BY <1>1 DEF Add
<1>2. PICK B : B = [x \in Wallets |-> F[x] + L[x]]
  OBVIOUS
<1>3. B \in [Wallets -> Int] /\ B[w] = F[w] + L[w] /\ F[w] \in Int /\ L[w] \in Int
  BY <1>2
<1>4. /\ d(p1, c1) \in Int /\ d(p2, c2) \in Int /\ d(g1, n1) \in Int /\ d(g2, n2) \in Int
  OBVIOUS
<1> HIDE DEF d
<1>5. Add(Add(L, p1, c1), p2, c2)[w] = L[w] + d(p1, c1) + d(p2, c2)
  <2>1. PICK H : H = Add(L, p1, c1)
    OBVIOUS
  <2>2. H \in [Wallets -> Int] /\ H[w] = L[w] + d(p1, c1)
    BY <1>1, <2>1
  <2>3. Add(H, p2, c2)[w] = H[w] + d(p2, c2)
    BY <1>1, <2>2
  <2> QED
    BY <2>1, <2>2, <2>3
<1>6. Add(Add(F, g1, n1), g2, n2)[w] = F[w] + d(g1, n1) + d(g2, n2)
  <2>1. PICK H : H = Add(F, g1, n1)
    OBVIOUS
  <2>2. H \in [Wallets -> Int] /\ H[w] = F[w] + d(g1, n1)
    BY <1>1, <2>1
  <2>3. Add(H, g2, n2)[w] = H[w] + d(g2, n2)
    BY <1>1, <2>2
  <2> QED
    BY <2>1, <2>2, <2>3
<1>7. PICK B1 : B1 = Add(B, p1, c1)
  OBVIOUS
<1>8. PICK B2 : B2 = Add(B1, p2, c2)
  OBVIOUS
<1>9. PICK B3 : B3 = Add(B2, g1, n1)
  OBVIOUS
<1>10. B1 \in [Wallets -> Int] /\ B1[w] = B[w] + d(p1, c1)
  BY <1>1, <1>3, <1>7
<1>11. B2 \in [Wallets -> Int] /\ B2[w] = B1[w] + d(p2, c2)
  BY <1>1, <1>8, <1>10
<1>12. B3 \in [Wallets -> Int] /\ B3[w] = B2[w] + d(g1, n1)
  BY <1>1, <1>9, <1>11
<1>13. Add(B3, g2, n2)[w] = B3[w] + d(g2, n2)
  BY <1>1, <1>12
<1>14. Add(B3, g2, n2)[w] =
          (F[w] + d(g1, n1) + d(g2, n2)) + (L[w] + d(p1, c1) + d(p2, c2))
  BY <1>3, <1>4, <1>10, <1>11, <1>12, <1>13
<1> QED
  BY <1>2, <1>5, <1>6, <1>7, <1>8, <1>9, <1>14

LEMMA HeldByFour ==
    ASSUME NEW B \in [Wallets -> Int], NEW a \in Assets,
           NEW p1 \in Wallets, NEW p2 \in Wallets, NEW g1 \in Wallets, NEW g2 \in Wallets,
           NEW c1 \in Int, NEW c2 \in Int, NEW n1 \in Int, NEW n2 \in Int
    PROVE  HeldIn(Add(Add(Add(Add(B, p1, c1), p2, c2), g1, n1), g2, n2), a) =
              HeldIn(B, a) + (IF p1[2] = a THEN c1 ELSE 0) + (IF p2[2] = a THEN c2 ELSE 0)
                           + (IF g1[2] = a THEN n1 ELSE 0) + (IF g2[2] = a THEN n2 ELSE 0)
<1>1. PICK B1 : B1 = Add(B, p1, c1)
  OBVIOUS
<1>2. PICK B2 : B2 = Add(B1, p2, c2)
  OBVIOUS
<1>3. PICK B3 : B3 = Add(B2, g1, n1)
  OBVIOUS
<1>4. B1 \in [Wallets -> Int]
  BY <1>1, AddInt
<1>5. B2 \in [Wallets -> Int]
  BY <1>2, <1>4, AddInt
<1>6. B3 \in [Wallets -> Int]
  BY <1>3, <1>5, AddInt
<1>7. HeldIn(B1, a) = HeldIn(B, a) + (IF p1[2] = a THEN c1 ELSE 0)
  BY <1>1, HeldAdds
<1>8. HeldIn(B2, a) = HeldIn(B1, a) + (IF p2[2] = a THEN c2 ELSE 0)
  BY <1>2, <1>4, HeldAdds
<1>9. HeldIn(B3, a) = HeldIn(B2, a) + (IF g1[2] = a THEN n1 ELSE 0)
  BY <1>3, <1>5, HeldAdds
<1>10. HeldIn(Add(B3, g2, n2), a) = HeldIn(B3, a) + (IF g2[2] = a THEN n2 ELSE 0)
  BY <1>6, HeldAdds
<1> QED
  BY <1>1, <1>2, <1>3, <1>7, <1>8, <1>9, <1>10

(* What a leg brings and costs, asset by asset: what the buyer pays over   *)
(* the seller's price is the spread.                                       *)
LEMMA SpreadOf ==
    ASSUME NEW o \in Limit, NEW m \in Limit, NEW q \in Nat, Crosses(o, m)
    PROVE  /\ Spread(o, m, q) \in Nat
           /\ \A a \in Assets :
                 (IF Paid(o)[2] = a THEN -Cost(o, q) ELSE 0)
                 + (IF Paid(m)[2] = a THEN -Cost(m, q) ELSE 0)
                 + (IF Got(o)[2] = a THEN Gain(o, q) ELSE 0)
                 + (IF Got(m)[2] = a THEN Gain(m, q) ELSE 0)
                 + (IF a = "rial" THEN Spread(o, m, q) ELSE 0) = 0
<1>1. PICK p \in Nat, r \in Nat : p = Price[o] /\ r = Price[m]
  BY LimitOrder, WalletsOf
<1>2. o \in Orders /\ m \in Orders
  BY LimitOrder
<1>3. PICK x \in Nat, y \in Nat : x = q * p /\ y = q * r
  BY Times
<1>4. CASE Side[o] = "BUY"
  <2>1. Side[m] = "SELL" /\ r <= p
    BY <1>1, <1>2, <1>4, OrdersAssumption DEF Crosses
  <2>2. Spread(o, m, q) = q * (p - r)
    BY <1>1, <1>4 DEF Spread
  <2>3. q * (p - r) = x - y /\ q * (p - r) \in Nat
    <3>1. PICK z \in Nat : z = p - r
      BY <2>1
    <3>2. p = r + z
      BY <3>1
    <3>3. q * p = q * r + q * z /\ q * z \in Nat
      BY <3>2, Times
    <3> QED
      BY <1>3, <3>1, <3>3
  <2>4. /\ Paid(o)[2] = "rial" /\ Cost(o, q) = x /\ Got(o)[2] = "gold" /\ Gain(o, q) = q
        /\ Paid(m)[2] = "gold" /\ Cost(m, q) = q /\ Got(m)[2] = "rial" /\ Gain(m, q) = y
    BY <1>1, <1>3, <1>4, <2>1 DEF Paid, Got, Cost, Gain
  <2> QED
    BY <2>2, <2>3, <2>4 DEF Assets
<1>5. CASE Side[o] # "BUY"
  <2>1. Side[o] = "SELL" /\ Side[m] = "BUY" /\ r >= p
    BY <1>1, <1>2, <1>5, OrdersAssumption DEF Crosses
  <2>2. Spread(o, m, q) = q * (r - p)
    BY <1>1, <1>5 DEF Spread
  <2>3. q * (r - p) = y - x /\ q * (r - p) \in Nat
    <3>1. PICK z \in Nat : z = r - p
      BY <2>1
    <3>2. r = p + z
      BY <3>1
    <3>3. q * r = q * p + q * z /\ q * z \in Nat
      BY <3>2, Times
    <3> QED
      BY <1>3, <3>1, <3>3
  <2>4. /\ Paid(o)[2] = "gold" /\ Cost(o, q) = q /\ Got(o)[2] = "rial" /\ Gain(o, q) = x
        /\ Paid(m)[2] = "rial" /\ Cost(m, q) = y /\ Got(m)[2] = "gold" /\ Gain(m, q) = q
    BY <1>1, <1>3, <2>1 DEF Paid, Got, Cost, Gain
  <2> QED
    BY <2>2, <2>3, <2>4 DEF Assets
<1> QED
  BY <1>4, <1>5

(* What customers hold, with what the ledger has of them.                  *)
Wealth(a) == Held(a) + (IF a = "rial" THEN spread ELSE 0)

LEMMA LegConserves ==
    ASSUME BookInv, NEW o \in Limit, SettleLeg(o), spread >= 0, NEW a \in Assets
    PROVE  spread' >= 0 /\ Wealth(a)' = Wealth(a)
<1>1. OrdersInv /\ RowsTypeOK /\ spread \in Int
  BY BookNamed, Named DEF BookTypeOK
<1>2. PICK m \in Limit, q \in Nat :
         /\ m = leg[o].maker /\ q = fills[o][m] /\ leg[o] # NoLeg
         /\ locked' = Add(Add(locked, Paid(o), -Cost(o, q)), Paid(m), -Cost(m, q))
         /\ free' = Add(Add(free, Got(o), Gain(o, q)), Got(m), Gain(m, q))
         /\ spread' = spread + Spread(o, m, q)
  BY <1>1, Named, LegOf
<1>3. Crosses(o, m)
  <2>1. fills[o][m] > 0
    BY <1>1, <1>2, Named DEF Shape
  <2> QED
    BY <2>1, BookNamed DEF Booked
<1>4. /\ Paid(o) \in Wallets /\ Paid(m) \in Wallets /\ Got(o) \in Wallets /\ Got(m) \in Wallets
      /\ Cost(o, q) \in Nat /\ Cost(m, q) \in Nat /\ Gain(o, q) \in Nat /\ Gain(m, q) \in Nat
  BY LimitOrder, WalletsOf, Amounts
<1>5a. PICK p1, p2, g1, g2 \in Wallets :
          p1 = Paid(o) /\ p2 = Paid(m) /\ g1 = Got(o) /\ g2 = Got(m)
  BY ONLY <1>4
<1>5b. PICK c1, c2, n1, n2 \in Int :
          c1 = -Cost(o, q) /\ c2 = -Cost(m, q) /\ n1 = Gain(o, q) /\ n2 = Gain(m, q)
  <2>1. -Cost(o, q) \in Int /\ -Cost(m, q) \in Int /\ Gain(o, q) \in Int /\ Gain(m, q) \in Int
    BY ONLY <1>4
  <2> QED
    BY ONLY <2>1
<1>5. /\ p1 \in Wallets /\ p2 \in Wallets /\ g1 \in Wallets /\ g2 \in Wallets
      /\ c1 \in Int /\ c2 \in Int /\ n1 \in Int /\ n2 \in Int
      /\ p1 = Paid(o) /\ p2 = Paid(m) /\ g1 = Got(o) /\ g2 = Got(m)
      /\ c1 = -Cost(o, q) /\ c2 = -Cost(m, q) /\ n1 = Gain(o, q) /\ n2 = Gain(m, q)
  BY <1>5a, <1>5b
<1>6. PICK B, C : /\ B = [w \in Wallets |-> free[w] + locked[w]]
                  /\ C = [w \in Wallets |-> free'[w] + locked'[w]]
  OBVIOUS
<1>7. Balance = B /\ Balance' = C
  BY <1>6 DEF Balance
<1>8. B \in [Wallets -> Int] /\ free \in [Wallets -> Int] /\ locked \in [Wallets -> Int]
  BY <1>1, <1>6 DEF RowsTypeOK
<1>9. PICK D : D = Add(Add(Add(Add(B, p1, c1), p2, c2), g1, n1), g2, n2)
  OBVIOUS
<1>10. C = D
  <2>1. \A w \in Wallets : C[w] = D[w]
    <3> SUFFICES ASSUME NEW w \in Wallets PROVE C[w] = D[w]
      OBVIOUS
    <3>1. C[w] = free'[w] + locked'[w]
      BY <1>6
    <3>2. free' = Add(Add(free, g1, n1), g2, n2) /\ locked' = Add(Add(locked, p1, c1), p2, c2)
      BY <1>2, <1>5
    <3>3. Add(Add(free, g1, n1), g2, n2)[w] + Add(Add(locked, p1, c1), p2, c2)[w] =
             Add(Add(Add(Add([x \in Wallets |-> free[x] + locked[x]],
                             p1, c1), p2, c2), g1, n1), g2, n2)[w]
      BY <1>8, LegMoves
    <3> QED
      BY <1>6, <1>9, <3>1, <3>2, <3>3
  <2>2. C = [w \in Wallets |-> C[w]]
    BY <1>6
  <2>3. D \in [Wallets -> Int]
    <3>1. PICK B1 : B1 = Add(B, p1, c1)
      OBVIOUS
    <3>2. PICK B2 : B2 = Add(B1, p2, c2)
      OBVIOUS
    <3>3. PICK B3 : B3 = Add(B2, g1, n1)
      OBVIOUS
    <3>4. B1 \in [Wallets -> Int]
      BY <1>8, <3>1, AddInt
    <3>5. B2 \in [Wallets -> Int]
      BY <3>2, <3>4, AddInt
    <3>6. B3 \in [Wallets -> Int]
      BY <3>3, <3>5, AddInt
    <3>7. Add(B3, g2, n2) \in [Wallets -> Int]
      BY <3>6, AddInt
    <3> QED
      BY <1>9, <3>1, <3>2, <3>3, <3>7
  <2> QED
    BY <2>1, <2>2, <2>3
<1>11. HeldIn(D, a) = HeldIn(B, a)
              + (IF p1[2] = a THEN c1 ELSE 0) + (IF p2[2] = a THEN c2 ELSE 0)
              + (IF g1[2] = a THEN n1 ELSE 0) + (IF g2[2] = a THEN n2 ELSE 0)
  <2>1. /\ p1 \in Wallets /\ p2 \in Wallets /\ g1 \in Wallets /\ g2 \in Wallets
        /\ c1 \in Int /\ c2 \in Int /\ n1 \in Int /\ n2 \in Int
        /\ B \in [Wallets -> Int] /\ a \in Assets
    BY <1>5, <1>8
  <2> QED
    BY ONLY <1>9, <2>1, HeldByFour
<1>12. HeldIn(B, a) \in Int
  <2>1. Paid(o) \in Wallets /\ 0 \in Int
    BY <1>4
  <2> QED
    BY <1>8, <2>1, HeldAdds
<1>13. PICK s : s = Spread(o, m, q)
  OBVIOUS
<1>14. /\ s \in Nat /\ spread' = spread + s
       /\ (IF p1[2] = a THEN c1 ELSE 0) + (IF p2[2] = a THEN c2 ELSE 0)
          + (IF g1[2] = a THEN n1 ELSE 0) + (IF g2[2] = a THEN n2 ELSE 0)
          + (IF a = "rial" THEN s ELSE 0) = 0
  <2>1. /\ Spread(o, m, q) \in Nat
        /\ (IF Paid(o)[2] = a THEN -Cost(o, q) ELSE 0)
           + (IF Paid(m)[2] = a THEN -Cost(m, q) ELSE 0)
           + (IF Got(o)[2] = a THEN Gain(o, q) ELSE 0)
           + (IF Got(m)[2] = a THEN Gain(m, q) ELSE 0)
           + (IF a = "rial" THEN Spread(o, m, q) ELSE 0) = 0
    BY <1>3, SpreadOf
  <2> QED
    BY ONLY <1>2, <1>5, <1>13, <2>1
<1>15. Held(a)' = HeldIn(D, a) /\ Held(a) = HeldIn(B, a)
  BY <1>7, <1>10 DEF Held, HeldIn
<1>16. HeldIn(D, a) + (IF a = "rial" THEN spread' ELSE 0)
          = HeldIn(B, a) + (IF a = "rial" THEN spread ELSE 0)
  BY <1>1, <1>11, <1>12, <1>14
<1>17. spread' >= 0
  BY <1>1, <1>14
<1> QED
  BY <1>15, <1>16, <1>17 DEF Wealth

LEMMA TradesBegin == Init => TradesConserve
<1> SUFFICES ASSUME Init PROVE TradesConserve
  OBVIOUS
<1>1. spread = 0 /\ free = Funds /\ locked = [w \in Wallets |-> 0]
  BY DEF Init, RowsInit, BookInit
<1>2. ASSUME NEW a \in Assets PROVE Held(a) + (IF a = "rial" THEN spread ELSE 0) = Brought(a)
  <2>1. PICK S, B, F : S = Users \X {a} /\ B = Balance /\ F = Funds
    OBVIOUS
  <2>2. IsFiniteSet(S) /\ S \subseteq Wallets
    BY <2>1, WalletsOfAsset
  <2>3. \A x \in S : B[x] = F[x] /\ F[x] \in Int
    BY <1>1, <2>1, <2>2, OrdersAssumption DEF Balance
  <2>4. SumFunctionOnSet(B, S) = SumFunctionOnSet(F, S)
    BY ONLY <2>2, <2>3, SumSame
  <2>5. SumFunctionOnSet(F, S) \in Int
    BY ONLY <2>2, <2>3, SumInt
  <2> QED
    BY <1>1, <2>1, <2>4, <2>5 DEF Held, Brought
<1> QED
  BY <1>1, <1>2 DEF TradesConserve

LEMMA TradesNext ==
    ASSUME BookInv, TradesConserve, [Next]_vars
    PROVE  TradesConserve'
<1>1. OrdersInv /\ RowsTypeOK /\ spread >= 0 /\ Moves
  BY BookNamed, Named, MoneyMoves DEF TradesConserve
<1> DEFINE Premise == \A o \in Market : Clear(o) /\ status[o] # "COMPLETED"
<1>2. Premise' => Premise
  BY <1>1, MarketTrusted DEF Trusted
<1>3. ASSUME NEW o \in Market, NEW t \in Tasks, Confirm(o, t) \/ FinishMatch(o, t)
      PROVE  ~Premise'
  <2>1. status'[o] = "COMPLETED" /\ o \in Orders
    BY <1>1, <1>3 DEF Confirm, FinishMatch, SaveTask, RowsTypeOK, Orders
  <2> QED
    BY <2>1
<1>4. spread' >= 0 /\ (Premise' => \A a \in Assets : Wealth(a)' = Wealth(a))
  <2>1. Balance' = Balance /\ spread' = spread
           => spread' >= 0 /\ \A a \in Assets : Wealth(a)' = Wealth(a)
    BY <1>1 DEF Wealth, Held
  <2>2. CASE UNCHANGED <<walletVars, spread>>
    BY <2>1, <2>2 DEF walletVars, Balance
  <2>3. ASSUME NEW o \in Orders, Freeze(o) PROVE Balance' = Balance
    <3>1. LockOf(o) \in Int
      BY LockAmount
    <3> QED
      BY <1>1, <2>3, <3>1, BalanceStays DEF Freeze
  <2>4. ASSUME NEW o \in Orders, Releasing(o) PROVE Balance' = Balance
    <3>1. PICK t \in Tasks, s \in {"CANCELLED", "REJECTED"} : Has(o, t, Kinds) /\ Release(o, t, s)
      BY <2>4 DEF Releasing
    <3>2. task[o][t] \in Reads
      BY <1>1, <3>1, SomeTask, Kinds \in SUBSET Kinds
    <3>3. PICK n \in Nat : n = RemainderOf(o, task[o][t].exec)
      BY <3>2, RemainderAmount DEF Reads
    <3>4. locked' = Add(locked, Paid(o), -n) /\ free' = Add(free, Paid(o), n)
      BY <3>1, <3>3 DEF Release, Unlock
    <3>5. -n \in Int /\ -(-n) = n
      OBVIOUS
    <3> QED
      BY <1>1, <3>4, <3>5, BalanceStays
  <2>5. ASSUME NEW o \in Limit, SettleLeg(o)
        PROVE  spread' >= 0 /\ \A a \in Assets : Wealth(a)' = Wealth(a)
    <3>1. "rial" \in Assets
      BY DEF Assets
    <3> QED
      BY <1>1, <2>5, <3>1, LegConserves
  <2>6. CASE \E o \in Market, t \in Tasks : (Confirm(o, t) \/ FinishMatch(o, t)) /\ UNCHANGED spread
    BY <1>1, <1>3, <2>6
  <2> QED
    BY <1>1, <2>1, <2>2, <2>3, <2>4, <2>5, <2>6 DEF Moves
<1>5. Premise' => \A a \in Assets : Wealth(a)' = Brought(a)
  <2>1. Premise => \A a \in Assets : Wealth(a) = Brought(a)
    BY DEF TradesConserve, Wealth
  <2> QED
    BY <1>2, <1>4, <2>1
<1>6. \A a \in Assets : Wealth(a)' = (Held(a) + (IF a = "rial" THEN spread ELSE 0))'
                        /\ Brought(a)' = Brought(a)
  BY DEF Wealth, Brought
<1> QED
  BY <1>4, <1>5, <1>6 DEF TradesConserve

(* Cancelling, rejecting and trading with each other makes and loses no    *)
(* gold and no rial, however stale what the handlers have read, and the    *)
(* ledger is never owed: until a provider or a requester carries an order  *)
(* out, customers and ledger hold together what was brought.               *)
THEOREM TradesStayConserved == Spec => []TradesConserve
<1>1. Init => BookInv /\ TradesConserve
  BY BookBegins, TradesBegin
<1>2. BookInv /\ TradesConserve /\ [Next]_vars => (BookInv /\ TradesConserve)'
  BY BookNext, TradesNext
<1> QED
  BY <1>1, <1>2, PTL DEF Spec
=============================================================================
