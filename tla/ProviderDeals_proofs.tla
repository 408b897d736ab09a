------------------------ MODULE ProviderDeals_proofs ------------------------
(***************************************************************************)
(* A completed order was carried out by its provider, and while nothing is *)
(* lost a refused one is not.  Everything the backend is told, and all its *)
(* handlers act on, is backed by what the provider has done; and what a    *)
(* provider has done is final.                                             *)
(***************************************************************************)
EXTENDS Orders_proofs

Final == {"DONE", "CANCELLED"}

(* The provider has not been asked; and is not going to be.                *)
Untouched(o) == bus[o]["place"] = 0 /\ ~submitting[o] /\ provider[o] = None
Gone(o) == placing[o] = "over" /\ Untouched(o)

(* What the provider must have done for the backend to be told m.          *)
Backed(o, m) ==
    /\ m = "done" => provider[o] = "DONE"
    /\ m = "failed" => provider[o] = "CANCELLED"
    /\ m = "refused" /\ faults = 0 => Gone(o)

(* An order is sent once, after it is locked, and submitted once.          *)
Asked(o) ==
    /\ placing[o] \in {None, "saved", "frozen"} => Untouched(o)
    /\ bus[o]["place"] \in {0, 1}
    /\ bus[o]["place"] = 1 => ~submitting[o]
    /\ bus[o]["place"] = 1 \/ submitting[o] => provider[o] = None

Recorded(o) ==
    /\ ticking[o] > 0 => provider[o] \in Final
    /\ deal[o] \in Final => provider[o] = deal[o]

Told(o) ==
    /\ \A m \in Messages : bus[o][m] > 0 => Backed(o, m)
    /\ \A t \in Tasks : Backed(o, task[o][t].kind)

Settled(o) ==
    /\ status[o] = "COMPLETED" /\ (o \in Quote => Clear(o) /\ Fee[o] > 0)
          => provider[o] = "DONE"
    /\ status[o] = "REJECTED" /\ faults = 0
          => provider[o] = "CANCELLED" \/ Gone(o)

Provided(o) == Asked(o) /\ Recorded(o) /\ Told(o) /\ Settled(o)

DealsInv == OrdersInv /\ \A o \in Market : Provided(o)

-----------------------------------------------------------------------------
(* Initially.                                                              *)

LEMMA DealsInvInit == Init => DealsInv
<1> SUFFICES ASSUME Init PROVE DealsInv
  OBVIOUS
<1>1. OrdersInv
  BY LedgerInit
<1>2. ASSUME NEW o \in Market
      PROVE  Provided(o)
  <2>1. o \in Orders /\ "place" \in Messages
    BY DEF Orders, Messages
  <2>2. /\ status[o] = None /\ placing[o] = None /\ faults = 0
        /\ \A m \in Messages : bus[o][m] = 0
        /\ \A t \in Tasks : task[o][t] = NoTask
        /\ ~submitting[o] /\ provider[o] = None /\ deal[o] = None /\ ticking[o] = 0
    BY <2>1 DEF Init, RowsInit, DealsInit
  <2>3. Asked(o)
    BY <2>1, <2>2 DEF Asked, Untouched
  <2>4. Recorded(o)
    BY <2>2 DEF Recorded, Final, None
  <2>5. Told(o)
    BY <2>2 DEF Told, Backed, NoTask, None
  <2>6. Settled(o)
    BY <2>2 DEF Settled, None
  <2> QED
    BY <2>3, <2>4, <2>5, <2>6 DEF Provided
<1> QED
  BY <1>1, <1>2 DEF DealsInv

-----------------------------------------------------------------------------
(* Steps after which the provider has done what it had done.               *)

Stays(o) ==
    /\ provider'[o] = provider[o] /\ submitting'[o] = submitting[o]
    /\ bus'[o]["place"] <= bus[o]["place"]
    /\ placing[o] = "over" => placing'[o] = "over"
    /\ faults' = 0 => faults = 0

LEMMA MarketOrder ==
    ASSUME OrdersInv, NEW o \in Market
    PROVE  /\ o \in Orders /\ o \notin Limit
           /\ placing[o] \in {None, "saved", "frozen", "over"}
           /\ bus \in [Market -> [Messages -> Nat]]
           /\ \A m \in Messages : bus[o][m] \in Nat
           /\ ticking \in [Market -> Nat]
<1>1. o \in Orders /\ o \notin Limit
  BY OrdersAssumption DEF Orders
<1>2. placing[o] \in {None, "saved", "frozen", "over"}
  BY <1>1, Named DEF Shape, RowsTypeOK
<1> QED
  BY <1>1, <1>2, Named DEF DealsTypeOK

LEMMA BackedStays ==
    ASSUME OrdersInv, OrdersInv', NEW o \in Market, Stays(o), NEW m, Backed(o, m)
    PROVE  Backed(o, m)'
<1>1. bus[o]["place"] \in Nat /\ bus'[o]["place"] \in Nat
  BY MarketOrder DEF Messages, OrdersInv, OrdersTypeOK, DealsTypeOK
<1>2. Gone(o) => Gone(o)'
  BY <1>1 DEF Gone, Untouched, Stays
<1> QED
  BY <1>2 DEF Backed, Stays

(* What is new must be backed; all the rest stays so.                      *)
LEMMA StaysProvided ==
    ASSUME OrdersInv, OrdersInv', NEW o \in Market, Provided(o), Stays(o),
           deal'[o] \in {deal[o], provider[o]},
           ticking'[o] > 0 => ticking[o] > 0 \/ provider[o] \in Final,
           \A m \in Messages : bus'[o][m] <= bus[o][m] \/ Backed(o, m),
           \A t \in Tasks :
              \/ task'[o][t].kind \in {task[o][t].kind, None, "cancel", "match"}
              \/ Backed(o, task'[o][t].kind),
           blame[o] \subseteq blame'[o],
           \/ status'[o] \in {status[o], "PENDING", "PARTIALLY_COMPLETED", "CANCELLED"}
           \/ Settled(o)'
    PROVE  Provided(o)'
<1>1. /\ \A m \in Messages : bus[o][m] \in Nat /\ bus'[o][m] \in Nat
      /\ "place" \in Messages
  BY MarketOrder DEF Messages, OrdersInv, OrdersTypeOK, DealsTypeOK
<1>2. /\ placing[o] \in {None, "saved", "frozen", "over"}
      /\ placing'[o] \in {None, "saved", "frozen", "over"}
  BY MarketOrder DEF OrdersInv, OrdersTypeOK, Shape, RowsTypeOK, Orders
<1>3. Asked(o)'
  BY <1>1, <1>2 DEF Provided, Asked, Untouched, Stays, None
<1>4. Recorded(o)'
  BY DEF Provided, Recorded, Stays, Final
<1>5. Told(o)'
  <2>1. ASSUME NEW m \in Messages, bus'[o][m] > 0
        PROVE  Backed(o, m)'
    <3>1. Backed(o, m)
      BY <1>1, <2>1 DEF Provided, Told
    <3> QED
      BY <3>1, BackedStays
  <2>2. ASSUME NEW t \in Tasks
        PROVE  Backed(o, task[o][t].kind)'
    <3>1. PICK k : k = task'[o][t].kind
      OBVIOUS
    <3>2. Backed(o, k)
      BY <3>1 DEF Provided, Told, Backed, None
    <3>3. Backed(o, k)'
      BY <3>2, BackedStays
    <3> QED
      BY <3>1, <3>3 DEF Backed
  <2> QED
    BY <2>1, <2>2 DEF Told
<1>6. Settled(o)'
  <2>1. Gone(o) => Gone(o)'
    BY <1>1 DEF Gone, Untouched, Stays
  <2>2. Clear(o)' => Clear(o)
    BY DEF Clear
  <2>3. CASE status'[o] = status[o]
    BY <2>1, <2>2, <2>3 DEF Provided, Settled, Stays
  <2>4. CASE status'[o] \in {"PENDING", "PARTIALLY_COMPLETED", "CANCELLED"}
    BY <2>4 DEF Settled
  <2> QED
    BY <2>3, <2>4
<1> QED
  BY <1>3, <1>4, <1>5, <1>6 DEF Provided

-----------------------------------------------------------------------------
(* Steps that ask the provider, or that the provider answers: until then   *)
(* nothing is backed but what is true of every order.                      *)

LEMMA NothingTold ==
    ASSUME OrdersInv, OrdersInv', NEW o \in Market, Provided(o),
           ~Gone(o), provider[o] \notin Final,
           UNCHANGED <<status, task, blame>>,
           deal'[o] \in {deal[o], "PENDING"}, ticking'[o] <= ticking[o],
           ticking'[o] \in Nat,
           faults' = 0 => faults = 0,
           \A m \in Messages :
              \/ bus'[o][m] <= bus[o][m]
              \/ m \in {"place", "placed"}
              \/ m = "refused" /\ (faults' = 0 => Gone(o)'),
           Asked(o)'
    PROVE  Provided(o)'
<1>1. ticking[o] = 0 /\ deal[o] \notin Final
  <2>1. ticking[o] \in Nat
    BY MarketOrder
  <2> QED
    BY <2>1 DEF Provided, Recorded
<1>2. Recorded(o)'
  BY <1>1 DEF Recorded, Final
<1>3. ASSUME NEW m, Backed(o, m)
      PROVE  Backed(o, m)'
  BY <1>3 DEF Backed, Final
<1>4. Told(o)'
  <2>1. ASSUME NEW m \in Messages, bus'[o][m] > 0
        PROVE  Backed(o, m)'
    <3>1. bus[o][m] \in Nat /\ bus'[o][m] \in Nat
      BY MarketOrder DEF OrdersInv, OrdersTypeOK, DealsTypeOK
    <3>2. CASE bus'[o][m] <= bus[o][m]
      <4>1. bus[o][m] > 0
        BY <2>1, <3>1, <3>2
      <4> QED
        BY <1>3, <4>1 DEF Provided, Told
    <3>3. CASE m \in {"place", "placed"}
      BY <3>3 DEF Backed
    <3>4. CASE m = "refused" /\ (faults' = 0 => Gone(o)')
      BY <3>4 DEF Backed
    <3> QED
      BY <3>2, <3>3, <3>4
  <2>2. \A t \in Tasks : Backed(o, task[o][t].kind)
    BY DEF Provided, Told
  <2>3. \A t \in Tasks : Backed(o, task[o][t].kind)'
    BY <2>2 DEF Backed, Final
  <2> QED
    BY <2>1, <2>3 DEF Told
<1>5. Settled(o)'
  <2>1. blame'[o] = blame[o]
    OBVIOUS
  <2> QED
    BY <2>1 DEF Provided, Settled, Clear, Final
<1> QED
  BY <1>2, <1>4, <1>5 DEF Provided

-----------------------------------------------------------------------------
(* Orders that a step is not about.                                        *)

Aside(o) ==
    /\ bus'[o] = bus[o] /\ submitting'[o] = submitting[o]
    /\ provider'[o] = provider[o] /\ deal'[o] = deal[o] /\ ticking'[o] = ticking[o]
    /\ status'[o] = status[o] /\ placing'[o] = placing[o]
    /\ blame[o] \subseteq blame'[o]
    /\ \A t \in Tasks : task'[o][t].kind \in {task[o][t].kind, None}

LEMMA AsideProvided ==
    ASSUME OrdersInv, OrdersInv', NEW o \in Market, Provided(o), Aside(o),
           faults' = 0 => faults = 0
    PROVE  Provided(o)'
<1>1. \A m \in Messages : bus[o][m] \in Nat
  BY MarketOrder
<1>2. "place" \in Messages
  BY DEF Messages
<1>3. Stays(o)
  BY <1>1, <1>2 DEF Aside, Stays
<1>4. \A m \in Messages : bus'[o][m] <= bus[o][m]
  BY <1>1 DEF Aside
<1>5. /\ deal'[o] \in {deal[o], provider[o]}
      /\ ticking'[o] > 0 => ticking[o] > 0
      /\ \A t \in Tasks :
            task'[o][t].kind \in {task[o][t].kind, None, "cancel", "match"}
      /\ blame[o] \subseteq blame'[o] /\ status'[o] = status[o]
  BY DEF Aside
<1> QED
  BY <1>3, <1>4, <1>5, StaysProvided

(* Orders an order's deal does not touch.                                  *)
LEMMA EngineOthers ==
    ASSUME OrdersInv, NEW o \in Market, NEW x \in Market \ {o},
           EngineStep(o) \/ \E m \in Messages : Lose(o, m)
    PROVE  Aside(x) /\ (faults' = 0 => faults = 0)
<1>1. /\ DealsTypeOK /\ faults \in Nat
  BY Named DEF RowsTypeOK
<1>2. UNCHANGED orderVars
  BY DEF EngineStep, OnPlace, Accepted, Refused, Answer, Poll, Report, FetchDeals,
         OnQuery, Lose
<1>3. /\ status' = status /\ placing' = placing /\ blame' = blame /\ task' = task
  BY <1>2 DEF orderVars, rowVars
<1>4. faults' = 0 => faults = 0
  BY <1>1 DEF EngineStep, OnPlace, Accepted, Refused, Answer, Poll, Report, FetchDeals,
         OnQuery, Lose, Fault
<1>5. bus'[x] = bus[x]
  BY <1>1 DEF EngineStep, OnPlace, Accepted, Refused, Answer, Poll, Report, FetchDeals,
         OnQuery, Lose, Take, Send, DealsTypeOK, engineVars
<1>6. submitting'[x] = submitting[x] /\ provider'[x] = provider[x]
  BY <1>1 DEF EngineStep, OnPlace, Accepted, Refused, Answer, Poll, Report, FetchDeals,
         OnQuery, Lose, DealsTypeOK, engineVars
<1>7. deal'[x] = deal[x] /\ ticking'[x] = ticking[x]
  BY <1>1 DEF EngineStep, OnPlace, Accepted, Refused, Answer, Poll, Report, FetchDeals,
         OnQuery, Lose, DealsTypeOK, engineVars
<1> QED
  BY <1>3, <1>4, <1>5, <1>6, <1>7 DEF Aside

LEMMA SettleOthers ==
    ASSUME OrdersInv, NEW o \in Market, NEW x \in Market \ {o}, SettleStep(o)
    PROVE  Aside(x) /\ (faults' = 0 => faults = 0)
<1>1. /\ RowsTypeOK /\ DealsTypeOK /\ o \in Orders /\ x \in Orders
  BY Named, MarketOrder
<1>2. /\ submitting' = submitting /\ provider' = provider /\ deal' = deal
      /\ ticking' = ticking /\ faults' = faults
  BY DEF SettleStep, Dispatch, OnPlaced, AskAgain, OnStatus, Link, Confirm, Reject,
         StartMatch, FinishMatch, RefuseMatch, dealVars, engineVars
<1>3. bus'[x] = bus[x]
  BY <1>1 DEF SettleStep, Dispatch, OnPlaced, AskAgain, OnStatus, Link, Confirm, Reject,
         StartMatch, FinishMatch, RefuseMatch, dealVars, engineVars, Take, Send, DealsTypeOK
<1>4. placing'[x] = placing[x]
  BY <1>1 DEF SettleStep, Dispatch, OnPlaced, AskAgain, OnStatus, Link, Confirm, Reject,
         StartMatch, FinishMatch, RefuseMatch, StartTask, Release, orderVars, RowsTypeOK
<1>5. task'[x] = task[x]
  BY <1>1 DEF SettleStep, Dispatch, OnPlaced, AskAgain, OnStatus, Link, Confirm, Reject,
         StartMatch, FinishMatch, RefuseMatch, StartTask, Release, EndTask, orderVars,
         RowsTypeOK
<1>6. status'[x] = status[x] /\ blame'[x] = blame[x]
  BY <1>1 DEF SettleStep, Dispatch, OnPlaced, AskAgain, OnStatus, Link, Confirm, Reject,
         StartMatch, FinishMatch, RefuseMatch, StartTask, Release, SaveTask, orderVars,
         rowVars, RowsTypeOK
<1> QED
  BY <1>2, <1>3, <1>4, <1>5, <1>6 DEF Aside

-----------------------------------------------------------------------------
(* The pricing engine and the provider.                                    *)

(* One count of an order's queues goes up or down, and no other.           *)
LEMMA Counts ==
    ASSUME OrdersInv, NEW o \in Market, NEW m \in Messages
    PROVE  /\ Take(o, m) => /\ bus[o][m] > 0 /\ bus'[o][m] = bus[o][m] - 1
                            /\ \A k \in Messages \ {m} : bus'[o][k] = bus[o][k]
           /\ Send(o, m) => /\ bus'[o][m] = bus[o][m] + 1
                            /\ \A k \in Messages \ {m} : bus'[o][k] = bus[o][k]
BY MarketOrder DEF Take, Send

LEMMA RowsUntouched ==
    ASSUME UNCHANGED orderVars
    PROVE  UNCHANGED <<status, task, blame, placing>>
BY DEF orderVars, rowVars

LEMMA OnPlaceProvided ==
    ASSUME OrdersInv, OrdersInv', NEW o \in Market, Provided(o), OnPlace(o)
    PROVE  Provided(o)'
<1>1. /\ "place" \in Messages /\ \A m \in Messages : bus[o][m] \in Nat
      /\ ticking[o] \in Nat
  BY MarketOrder DEF Messages
<1>2. /\ bus[o]["place"] > 0 /\ bus'[o]["place"] = bus[o]["place"] - 1
      /\ \A k \in Messages \ {"place"} : bus'[o][k] = bus[o][k]
  BY <1>1, Counts DEF OnPlace
<1>3. bus[o]["place"] = 1 /\ bus'[o]["place"] = 0 /\ provider[o] = None
  BY <1>1, <1>2 DEF Provided, Asked
<1>4. /\ submitting'[o] = TRUE /\ provider' = provider /\ deal' = deal
      /\ ticking' = ticking /\ faults' = faults
      /\ UNCHANGED <<status, task, blame, placing>>
  BY RowsUntouched, Named DEF OnPlace, DealsTypeOK
<1>5. Asked(o)'
  BY <1>1, <1>2, <1>3, <1>4 DEF Provided, Asked, Untouched
<1>6. ~Gone(o) /\ provider[o] \notin Final
  BY <1>3 DEF Gone, Untouched, Final, None
<1>7. \A m \in Messages : bus'[o][m] <= bus[o][m]
  BY <1>1, <1>2
<1> QED
  BY <1>1, <1>4, <1>5, <1>6, <1>7, NothingTold

LEMMA SubmittedProvided ==
    ASSUME OrdersInv, OrdersInv', NEW o \in Market, Provided(o),
           Accepted(o) \/ Refused(o)
    PROVE  Provided(o)'
<1>1. /\ {"place", "placed", "refused"} \subseteq Messages
      /\ \A m \in Messages : bus[o][m] \in Nat
      /\ ticking[o] \in Nat /\ faults \in Nat
  BY MarketOrder, Named DEF Messages, RowsTypeOK
<1>2. submitting[o] /\ bus[o]["place"] = 0 /\ provider[o] = None
      /\ placing[o] = "over"
  <2>1. submitting[o]
    BY DEF Accepted, Refused
  <2>2. bus[o]["place"] = 0 /\ provider[o] = None
    BY <2>1 DEF Provided, Asked
  <2> QED
    BY <2>1, <2>2, MarketOrder DEF Provided, Asked, Untouched
<1>3. /\ submitting'[o] = FALSE /\ ticking' = ticking
      /\ UNCHANGED <<status, task, blame, placing>>
      /\ faults' = faults \/ faults' = faults + 1
      /\ deal'[o] \in {deal[o], "PENDING"}
  BY RowsUntouched, Named DEF Accepted, Refused, Fault, DealsTypeOK
<1>4. \A m \in Messages \ {"placed", "refused"} : bus'[o][m] = bus[o][m]
  BY <1>1, Counts DEF Accepted, Refused
<1>5. \A m \in Messages :
         \/ bus'[o][m] <= bus[o][m]
         \/ m \in {"place", "placed"}
         \/ m = "refused" /\ (faults' = 0 => Gone(o)')
  <2>1. CASE Accepted(o)
    <3>1. bus'[o]["refused"] = bus[o]["refused"]
      BY <1>1, <2>1, Counts DEF Accepted
    <3> QED
      BY <1>1, <1>4, <3>1
  <2>2. CASE Refused(o)
    <3>1. bus'[o]["placed"] = bus[o]["placed"]
      BY <1>1, <2>2, Counts DEF Refused
    <3>2. faults' = 0 => provider' = provider
      BY <1>1, <2>2 DEF Refused, Fault
    <3>3. faults' = 0 => Gone(o)'
      BY <1>1, <1>2, <1>3, <1>4, <3>2 DEF Gone, Untouched
    <3> QED
      BY <1>1, <1>4, <3>1, <3>3
  <2> QED
    BY <2>1, <2>2
<1>6. Asked(o)'
  BY <1>1, <1>2, <1>3, <1>4 DEF Asked, None
<1>7. ~Gone(o) /\ provider[o] \notin Final
  BY <1>2 DEF Gone, Untouched, Final, None
<1>8. (faults' = 0 => faults = 0) /\ ticking'[o] <= ticking[o] /\ ticking'[o] \in Nat
  BY <1>1, <1>3
<1> QED
  BY <1>3, <1>5, <1>6, <1>7, <1>8, NothingTold

LEMMA AnswerProvided ==
    ASSUME OrdersInv, OrdersInv', NEW o \in Market, Provided(o), Answer(o)
    PROVE  Provided(o)'
<1>1. /\ ticking[o] \in Nat /\ "place" \in Messages
      /\ \A m \in Messages : bus[o][m] \in Nat
  BY MarketOrder DEF Messages
<1>2. /\ provider[o] = "PENDING"
      /\ UNCHANGED <<status, task, blame, placing>>
      /\ UNCHANGED <<bus, submitting, deal, ticking, faults>>
  BY RowsUntouched DEF Answer
<1>3. ~Gone(o) /\ provider[o] \notin Final
  BY <1>2 DEF Gone, Untouched, Final, None
<1>4. Asked(o)'
  BY <1>1, <1>2 DEF Provided, Asked, Untouched, None
<1>5. \A m \in Messages : bus'[o][m] <= bus[o][m]
  BY <1>1, <1>2
<1> QED
  BY <1>1, <1>2, <1>3, <1>4, <1>5, NothingTold

(* The engine reports what it has recorded, and records what it has seen.  *)
LEMMA EngineQuiet ==
    ASSUME OrdersInv, OrdersInv', NEW o \in Market, Provided(o),
           UNCHANGED orderVars, UNCHANGED <<provider, submitting>>,
           faults' = 0 => faults = 0,
           deal'[o] \in {deal[o], provider[o]},
           ticking'[o] > 0 => ticking[o] > 0 \/ provider[o] \in Final,
           bus'[o]["place"] <= bus[o]["place"],
           \A m \in Messages : bus'[o][m] <= bus[o][m] \/ Backed(o, m)
    PROVE  Provided(o)'
<1>1. UNCHANGED <<status, task, blame, placing>>
  BY RowsUntouched
<1>2. Stays(o)
  BY <1>1 DEF Stays
<1> QED
  BY <1>1, <1>2, StaysProvided

LEMMA PollProvided ==
    ASSUME OrdersInv, OrdersInv', NEW o \in Market, Provided(o),
           Poll(o) \/ FetchDeals(o)
    PROVE  Provided(o)'
<1>1. \A m \in Messages : bus[o][m] \in Nat
  BY MarketOrder
<1>2. "place" \in Messages
  BY DEF Messages
<1>3. /\ UNCHANGED orderVars /\ UNCHANGED <<provider, submitting, bus, faults>>
      /\ deal'[o] \in {deal[o], provider[o]}
      /\ ticking'[o] > 0 => ticking[o] > 0 \/ provider[o] \in Final
  BY Named DEF Poll, FetchDeals, DealsTypeOK, Final
<1>4. \A m \in Messages : bus'[o][m] <= bus[o][m]
  BY <1>1, <1>3
<1> QED
  BY <1>2, <1>3, <1>4, EngineQuiet

LEMMA AnswerIsBacked ==
    ASSUME NEW o \in Market, provider[o] \in Final
    PROVE  Backed(o, AnswerOf(provider[o])) /\ AnswerOf(provider[o]) \in Answers
BY DEF Backed, AnswerOf, Final, Answers

LEMMA ReportProvided ==
    ASSUME OrdersInv, OrdersInv', NEW o \in Market, Provided(o), Report(o)
    PROVE  Provided(o)'
<1>1. /\ \A m \in Messages : bus[o][m] \in Nat
      /\ ticking[o] \in Nat /\ faults \in Nat
      /\ "place" \in Messages \ Answers /\ Answers \subseteq Messages
  BY MarketOrder, Named DEF Messages, Answers, RowsTypeOK
<1>2. /\ ticking[o] > 0 /\ UNCHANGED orderVars /\ UNCHANGED <<provider, submitting>>
      /\ deal'[o] \in {deal[o], provider[o]}
      /\ faults' = faults \/ faults' = faults + 1
  BY Named DEF Report, Fault, DealsTypeOK
<1>3. PICK m \in Answers : m = AnswerOf(provider[o]) /\ Backed(o, m)
  BY <1>2, AnswerIsBacked DEF Provided, Recorded
<1>4. \A k \in Messages \ {m} : bus'[o][k] = bus[o][k]
  BY <1>1, <1>3, Counts DEF Report
<1>5. \A k \in Messages : bus'[o][k] <= bus[o][k] \/ Backed(o, k)
  BY <1>1, <1>3, <1>4
<1>6. bus'[o]["place"] <= bus[o]["place"] /\ (faults' = 0 => faults = 0)
  BY <1>1, <1>2, <1>4
<1> QED
  BY <1>2, <1>5, <1>6, EngineQuiet

LEMMA OnQueryProvided ==
    ASSUME OrdersInv, OrdersInv', NEW o \in Market, Provided(o), OnQuery(o)
    PROVE  Provided(o)'
<1>1. /\ \A m \in Messages : bus[o][m] \in Nat
      /\ "place" \in Messages \ (Answers \cup {"query"})
      /\ Answers \subseteq Messages /\ "query" \in Messages \ Answers
      /\ bus \in [Market -> [Messages -> Nat]]
  BY MarketOrder DEF Messages, Answers
<1>2. /\ UNCHANGED orderVars
      /\ UNCHANGED <<provider, submitting, deal, ticking, faults>>
  BY DEF OnQuery, engineVars
<1>3. /\ bus'[o]["place"] <= bus[o]["place"]
      /\ \A k \in Messages : bus'[o][k] <= bus[o][k] \/ Backed(o, k)
  <2>1. CASE deal[o] \in {"DONE", "CANCELLED"}
    <3>1. provider[o] = deal[o] /\ provider[o] \in Final
      BY <2>1 DEF Provided, Recorded, Final
    <3>2. PICK m \in Answers : m = AnswerOf(deal[o]) /\ Backed(o, m)
      BY <3>1, AnswerIsBacked
    <3>3. bus' = [bus EXCEPT ![o] = Answered(bus[o], m)]
      BY <2>1, <3>2 DEF OnQuery
    <3>4. bus'[o] = Answered(bus[o], m)
      BY <1>1, <3>3
    <3>5. /\ bus'[o]["query"] = bus[o]["query"] - 1
          /\ \A k \in Messages \ {m, "query"} : bus'[o][k] = bus[o][k]
      BY <1>1, <3>2, <3>4 DEF Answered
    <3> QED
      BY <1>1, <3>2, <3>5
  <2>2. CASE deal[o] \notin {"DONE", "CANCELLED"}
    <3>1. /\ bus'[o]["query"] = bus[o]["query"] - 1
          /\ \A k \in Messages \ {"query"} : bus'[o][k] = bus[o][k]
      BY <1>1, <2>2, Counts DEF OnQuery
    <3> QED
      BY <1>1, <3>1
  <2> QED
    BY <2>1, <2>2
<1> QED
  BY <1>2, <1>3, EngineQuiet

LEMMA LoseProvided ==
    ASSUME OrdersInv, OrdersInv', NEW o \in Market, Provided(o),
           NEW m \in Messages, Lose(o, m)
    PROVE  Provided(o)'
<1>1. /\ \A k \in Messages : bus[o][k] \in Nat
      /\ "place" \in Messages /\ faults \in Nat
  BY MarketOrder, Named DEF Messages, RowsTypeOK
<1>2. /\ UNCHANGED orderVars /\ UNCHANGED <<provider, submitting, deal, ticking>>
      /\ faults' = faults + 1
  BY DEF Lose, engineVars, Fault
<1>3. /\ bus'[o][m] = bus[o][m] - 1
      /\ \A k \in Messages \ {m} : bus'[o][k] = bus[o][k]
  BY Counts DEF Lose
<1>4. \A k \in Messages : bus'[o][k] <= bus[o][k]
  BY <1>1, <1>3
<1> QED
  BY <1>1, <1>2, <1>4, EngineQuiet

LEMMA EngineCrashProvided ==
    ASSUME OrdersInv, OrdersInv', NEW o \in Market, Provided(o), EngineCrash
    PROVE  Provided(o)'
<1>1. /\ \A m \in Messages : bus[o][m] \in Nat
      /\ "place" \in Messages /\ faults \in Nat /\ ticking[o] \in Nat
  BY MarketOrder, Named DEF Messages, RowsTypeOK
<1>2. /\ UNCHANGED orderVars /\ UNCHANGED <<bus, deal>>
      /\ submitting'[o] = FALSE /\ ticking'[o] = 0
      /\ provider'[o] \in {provider[o], "PENDING"}
      /\ ~submitting[o] => provider'[o] = provider[o]
      /\ faults' = faults + 1
  BY Named DEF EngineCrash, Fault, DealsTypeOK
<1>3. \A m \in Messages : bus'[o][m] <= bus[o][m]
  BY <1>1, <1>2
<1>4. faults' # 0 /\ (faults' = 0 => faults = 0)
  BY <1>1, <1>2
<1>5. UNCHANGED <<status, task, blame, placing>>
  BY <1>2, RowsUntouched
<1>6. CASE ~submitting[o]
  <2>1. submitting'[o] = submitting[o]
    BY <1>2, <1>6, Named DEF DealsTypeOK
  <2>2. Stays(o)
    BY <1>1, <1>2, <1>3, <1>4, <1>5, <1>6, <2>1 DEF Stays
  <2> QED
    BY <1>2, <1>3, <1>5, <2>2, StaysProvided
<1>7. CASE submitting[o]
  <2>1. provider[o] = None /\ bus[o]["place"] = 0
    BY <1>7 DEF Provided, Asked
  <2>2. placing[o] = "over"
    BY <1>7, MarketOrder DEF Provided, Asked, Untouched
  <2>3. ~Gone(o) /\ provider[o] \notin Final
    BY <1>7, <2>1 DEF Gone, Untouched, Final, None
  <2>4. Asked(o)'
    BY <1>2, <1>5, <2>1, <2>2 DEF Asked, None
  <2>5. deal'[o] = deal[o] /\ ticking'[o] <= ticking[o] /\ ticking'[o] \in Nat
    BY <1>1, <1>2
  <2> QED
    BY <1>3, <1>4, <1>5, <2>3, <2>4, <2>5, NothingTold
<1> QED
  BY <1>6, <1>7

LEMMA EngineStepProvided ==
    ASSUME OrdersInv, OrdersInv', NEW o \in Market, Provided(o), EngineStep(o)
    PROVE  Provided(o)'
BY OnPlaceProvided, SubmittedProvided, AnswerProvided, PollProvided, ReportProvided,
   OnQueryProvided DEF EngineStep

-----------------------------------------------------------------------------
(* The handlers of goldex-backend.                                         *)

(* A handler learns only what is backed, and settles what it has learned.  *)
LEMMA RowQuiet ==
    ASSUME OrdersInv, OrdersInv', NEW o \in Market, Provided(o),
           UNCHANGED engineVars, UNCHANGED faults,
           \A m \in Messages : bus'[o][m] <= bus[o][m] \/ m \in {"query"},
           placing[o] = "over" => placing'[o] = "over",
           \A t \in Tasks :
              \/ task'[o][t].kind \in {task[o][t].kind, None, "cancel", "match"}
              \/ Backed(o, task'[o][t].kind),
           blame[o] \subseteq blame'[o],
           \/ status'[o] \in {status[o], "PENDING", "PARTIALLY_COMPLETED", "CANCELLED"}
           \/ Settled(o)'
    PROVE  Provided(o)'
<1>1. "place" \in Messages /\ "place" # "query"
  BY DEF Messages
<1>2. Stays(o)
  BY <1>1 DEF Stays, engineVars
<1>3. \A m \in Messages : bus'[o][m] <= bus[o][m] \/ Backed(o, m)
  BY DEF Backed
<1>4. deal'[o] = deal[o] /\ ticking'[o] = ticking[o]
  BY DEF engineVars
<1> QED
  BY <1>2, <1>3, <1>4, StaysProvided

LEMMA DispatchProvided ==
    ASSUME OrdersInv, OrdersInv', NEW o \in Market, Provided(o), Dispatch(o)
    PROVE  Provided(o)'
<1>1. /\ o \in Orders /\ \A m \in Messages : bus[o][m] \in Nat
      /\ "place" \in Messages /\ ticking[o] \in Nat
  BY MarketOrder DEF Messages
<1>2. placing[o] = "frozen" /\ Untouched(o)
  BY DEF Dispatch, Provided, Asked
<1>3. /\ bus'[o]["place"] = 1
      /\ \A k \in Messages \ {"place"} : bus'[o][k] = bus[o][k]
  BY <1>1, <1>2, Counts DEF Dispatch, Untouched
<1>4. /\ placing'[o] = "over" /\ UNCHANGED <<status, task, blame>>
      /\ UNCHANGED <<provider, submitting, deal, ticking, faults>>
  BY <1>1, Named DEF Dispatch, RowsTypeOK, rowVars, engineVars
<1>5. ~Gone(o) /\ provider[o] \notin Final
  BY <1>2 DEF Gone, Untouched, Final, None
<1>6. Asked(o)'
  BY <1>2, <1>3, <1>4 DEF Asked, Untouched, None
<1>7. \A m \in Messages : bus'[o][m] <= bus[o][m] \/ m \in {"place", "placed"}
  BY <1>1, <1>3
<1> QED
  BY <1>1, <1>4, <1>5, <1>6, <1>7, NothingTold

LEMMA MessageProvided ==
    ASSUME OrdersInv, OrdersInv', NEW o \in Market, Provided(o),
           OnPlaced(o) \/ AskAgain(o)
    PROVE  Provided(o)'
<1>1. /\ \A m \in Messages : bus[o][m] \in Nat
      /\ "placed" \in Messages /\ "query" \in Messages
  BY MarketOrder DEF Messages
<1>2. /\ UNCHANGED <<status, task, blame, placing>>
      /\ UNCHANGED engineVars /\ UNCHANGED faults
  BY DEF OnPlaced, AskAgain, orderVars, rowVars
<1>3. \A m \in Messages : bus'[o][m] <= bus[o][m] \/ m \in {"query"}
  BY <1>1, Counts DEF OnPlaced, AskAgain
<1> QED
  BY <1>2, <1>3, RowQuiet

LEMMA StartedTask ==
    ASSUME OrdersInv, NEW o \in Market, NEW t \in Tasks, NEW kind,
           StartTask(o, t, kind)
    PROVE  /\ UNCHANGED <<status, placing, blame>>
           /\ \A u \in Tasks : task'[o][u].kind \in {task[o][u].kind, kind}
BY Named, MarketOrder DEF StartTask, RowsTypeOK, rowVars

LEMMA OnStatusProvided ==
    ASSUME OrdersInv, OrdersInv', NEW o \in Market, Provided(o), NEW t \in Tasks,
           NEW answer \in Answers \cup {"refused"}, OnStatus(o, t, answer)
    PROVE  Provided(o)'
<1>1. answer \in Messages /\ \A m \in Messages : bus[o][m] \in Nat
  BY MarketOrder DEF Messages, Answers
<1>2. /\ bus[o][answer] > 0
      /\ \A m \in Messages : bus'[o][m] <= bus[o][m]
  BY <1>1, Counts DEF OnStatus
<1>3. Backed(o, answer)
  BY <1>1, <1>2 DEF Provided, Told
<1>4. UNCHANGED engineVars /\ UNCHANGED faults
  BY DEF OnStatus
<1>5. /\ UNCHANGED <<status, placing, blame>>
      /\ \A u \in Tasks : task'[o][u].kind \in {task[o][u].kind, answer}
  <2>1. CASE StartTask(o, t, answer)
    BY <2>1, StartedTask
  <2>2. CASE UNCHANGED orderVars
    BY <2>2, RowsUntouched
  <2> QED
    BY <2>1, <2>2 DEF OnStatus
<1>6. \A u \in Tasks :
         \/ task'[o][u].kind \in {task[o][u].kind, None, "cancel", "match"}
         \/ Backed(o, task'[o][u].kind)
  BY <1>3, <1>5 DEF Backed
<1> QED
  BY <1>2, <1>4, <1>5, <1>6, RowQuiet

LEMMA EndedTask ==
    ASSUME OrdersInv, NEW o \in Orders, NEW t \in Tasks, EndTask(o, t)
    PROVE  \A x \in Orders, u \in Tasks : task'[x][u].kind \in {task[x][u].kind, None}
BY Named DEF EndTask, RowsTypeOK, NoTask

LEMMA LinkProvided ==
    ASSUME OrdersInv, OrdersInv', NEW o \in Market, Provided(o), NEW t \in Tasks, Link(o, t)
    PROVE  Provided(o)'
<1>1. /\ o \in Orders /\ \A m \in Messages : bus[o][m] \in Nat
  BY MarketOrder
<1>2. task[o][t] \in Reads
  BY <1>1, Named, SomeTask, Answers \in SUBSET Kinds DEF Link, Kinds, Answers
<1>3. status'[o] \in Open
  BY <1>1, <1>2, Named DEF Link, Reads, RowsTypeOK
<1>4. blame[o] \subseteq blame'[o]
  BY <1>1, Named DEF Link, RowsTypeOK
<1>5. \A u \in Tasks : task'[o][u].kind = task[o][u].kind
  <2>1. /\ task' = [task EXCEPT ![o][t].linked = TRUE]
        /\ task \in [Orders -> [Tasks -> Reads \cup {NoTask}]]
    BY Named DEF Link, RowsTypeOK
  <2>2. \A u \in Tasks \ {t} : task'[o][u] = task[o][u]
    BY <1>1, <2>1
  <2>3. task'[o][t] = [task[o][t] EXCEPT !.linked = TRUE]
    BY <1>1, <2>1
  <2>4. task'[o][t].kind = task[o][t].kind
    BY <1>2, <2>3 DEF Reads
  <2> QED
    BY <2>2, <2>4
<1>6. /\ UNCHANGED engineVars /\ UNCHANGED <<faults, placing, bus>>
  BY DEF Link, dealVars
<1>7. \A m \in Messages : bus'[o][m] <= bus[o][m]
  BY <1>1, <1>6
<1> QED
  BY <1>3, <1>4, <1>5, <1>6, <1>7, RowQuiet DEF Open

(* A handler that saves an order and ends.                                 *)
LEMMA SavedProvided ==
    ASSUME OrdersInv, OrdersInv', NEW o \in Market, Provided(o), NEW t \in Tasks,
           Has(o, t, Kinds), NEW s \in Statuses, NEW e \in Nat, NEW causes,
           SaveTask(o, t, s, e, causes), EndTask(o, t),
           UNCHANGED <<placing, dealVars, faults>>,
           \/ s = "CANCELLED"
           \/ s = "COMPLETED" /\ provider[o] = "DONE"
           \/ s = "COMPLETED" /\ o \in Quote /\ (Fee[o] > 0 => causes # {})
           \/ s = "REJECTED" /\ (faults = 0 => provider[o] = "CANCELLED" \/ Gone(o))
    PROVE  Provided(o)'
<1>1. /\ o \in Orders /\ \A m \in Messages : bus[o][m] \in Nat
  BY MarketOrder
<1>2. task[o][t] \in Reads
  BY <1>1, Named, SomeTask, Kinds \in SUBSET Kinds
<1>3. status'[o] = s /\ blame'[o] = blame[o] \cup causes \cup Outdated(o, t)
  BY <1>1, <1>2, SaveTaskRows
<1>4. UNCHANGED <<bus, submitting, provider, deal, ticking>> /\ UNCHANGED engineVars
  BY DEF dealVars, engineVars
<1>5. \A u \in Tasks : task'[o][u].kind \in {task[o][u].kind, None}
  BY <1>1, EndedTask
<1>6. \A m \in Messages : bus'[o][m] <= bus[o][m]
  BY <1>1, <1>4
<1>7. s = "CANCELLED" \/ Settled(o)'
  <2>1. CASE s = "COMPLETED" /\ provider[o] = "DONE"
    BY <1>3, <1>4, <2>1 DEF Settled
  <2>2. CASE s = "COMPLETED" /\ o \in Quote /\ (Fee[o] > 0 => causes # {})
    <3>1. Clear(o)' => causes = {}
      BY <1>3 DEF Clear
    <3>2. ~(Clear(o)' /\ Fee[o] > 0)
      BY <2>2, <3>1
    <3> QED
      BY <1>3, <2>2, <3>2 DEF Settled
  <2>3. CASE s = "REJECTED" /\ (faults = 0 => provider[o] = "CANCELLED" \/ Gone(o))
    <3>1. Gone(o) => Gone(o)'
      BY <1>4 DEF Gone, Untouched
    <3> QED
      BY <1>3, <1>4, <2>3, <3>1 DEF Settled
  <2> QED
    BY <2>1, <2>2, <2>3
<1>8. blame[o] \subseteq blame'[o] /\ placing' = placing /\ faults' = faults
  BY <1>3
<1> QED
  BY <1>3, <1>4, <1>5, <1>6, <1>7, <1>8, RowQuiet

LEMMA SettleStepProvided ==
    ASSUME OrdersInv, OrdersInv', NEW o \in Market, Provided(o), SettleStep(o)
    PROVE  Provided(o)'
<1>1. /\ {"CANCELLED", "COMPLETED", "REJECTED"} \subseteq Statuses
      /\ o \in Orders /\ Qty[o] \in Nat
  BY MarketOrder, WalletsOf DEF Statuses, Terminal
<1>2. ASSUME NEW t \in Tasks, NEW kind, task[o][t].kind = kind
      PROVE  Backed(o, kind)
  BY <1>2 DEF Provided, Told
<1>3. ASSUME NEW t \in Tasks, Confirm(o, t)
      PROVE  Provided(o)'
  <2>1. task[o][t].kind = "done" /\ Has(o, t, Kinds)
    BY <1>3 DEF Confirm, Has, Kinds, Answers
  <2>2. provider[o] = "DONE"
    BY <1>2, <2>1 DEF Backed
  <2>3. /\ SaveTask(o, t, "COMPLETED", Qty[o], {}) /\ EndTask(o, t)
        /\ UNCHANGED <<placing, dealVars, faults>>
    BY <1>3 DEF Confirm
  <2> QED
    BY <1>1, <2>1, <2>2, <2>3, SavedProvided
<1>4. ASSUME NEW t \in Tasks, Reject(o, t)
      PROVE  Provided(o)'
  <2>1. task[o][t].kind \in {"failed", "refused"} /\ Has(o, t, Kinds)
    BY <1>4 DEF Reject, Has, Kinds
  <2>2. task[o][t].kind = "failed" => provider[o] = "CANCELLED"
    BY <1>2 DEF Backed
  <2>3. task[o][t].kind = "refused" /\ faults = 0 => Gone(o)
    BY <1>2 DEF Backed
  <2>4. /\ SaveTask(o, t, "REJECTED", task[o][t].exec, {}) /\ EndTask(o, t)
        /\ UNCHANGED <<placing, dealVars, faults>>
    BY <1>4 DEF Reject, Release
  <2>5. task[o][t].exec \in Nat
    BY <1>1, <2>1, Named, SomeTask, Kinds \in SUBSET Kinds DEF Reads
  <2>6. faults = 0 => provider[o] = "CANCELLED" \/ Gone(o)
    BY <2>1, <2>2, <2>3
  <2> QED
    BY <1>1, <2>1, <2>4, <2>5, <2>6, SavedProvided
<1>5. ASSUME NEW t \in Tasks, FinishMatch(o, t)
      PROVE  Provided(o)'
  <2> DEFINE C == IF Fee[o] > 0 THEN {"fee"} ELSE {}
  <2>1. Has(o, t, Kinds) /\ o \in Quote
    BY <1>5 DEF FinishMatch, Has, Kinds
  <2>2. /\ SaveTask(o, t, "COMPLETED", Qty[o], C) /\ EndTask(o, t)
        /\ UNCHANGED <<placing, dealVars, faults>>
    BY <1>5 DEF FinishMatch
  <2>3. Fee[o] > 0 => C # {}
    OBVIOUS
  <2> HIDE DEF C
  <2> QED
    BY <1>1, <2>1, <2>2, <2>3, SavedProvided
<1>6. \A m \in Messages : bus[o][m] \in Nat
  BY MarketOrder
<1>7. ASSUME NEW t \in Tasks, StartMatch(o, t) \/ RefuseMatch(o, t)
      PROVE  Provided(o)'
  <2>1. UNCHANGED engineVars /\ UNCHANGED <<faults, bus>>
    BY <1>7 DEF StartMatch, RefuseMatch, dealVars
  <2>2. UNCHANGED <<status, placing, blame>>
    BY <1>7, StartedTask DEF StartMatch, RefuseMatch, rowVars
  <2>3. \A u \in Tasks : task'[o][u].kind \in {task[o][u].kind, None, "match"}
    BY <1>1, <1>7, StartedTask, EndedTask DEF StartMatch, RefuseMatch
  <2>4. \A m \in Messages : bus'[o][m] <= bus[o][m]
    BY <1>6, <2>1
  <2> QED
    BY <2>1, <2>2, <2>3, <2>4, RowQuiet
<1> QED
  BY <1>3, <1>4, <1>5, <1>7, DispatchProvided, MessageProvided, OnStatusProvided,
     LinkProvided DEF SettleStep

LEMMA DealStepProvided ==
    ASSUME OrdersInv, OrdersInv', \A x \in Market : Provided(x), DealStep
    PROVE  \A x \in Market : Provided(x)'
<1>1. ASSUME NEW o \in Market, EngineStep(o)
      PROVE  \A x \in Market : Provided(x)'
  BY <1>1, EngineStepProvided, EngineOthers, AsideProvided
<1>2. ASSUME NEW o \in Market, SettleStep(o)
      PROVE  \A x \in Market : Provided(x)'
  BY <1>2, SettleStepProvided, SettleOthers, AsideProvided
<1>3. ASSUME NEW o \in Market, NEW m \in Messages, Lose(o, m)
      PROVE  \A x \in Market : Provided(x)'
  BY <1>3, LoseProvided, EngineOthers, AsideProvided
<1> QED
  BY <1>1, <1>2, <1>3, EngineCrashProvided DEF DealStep

-----------------------------------------------------------------------------
(* Steps that leave the deals alone.                                       *)

LEMMA OtherRows ==
    ASSUME OrdersInv, OrdersInv', NEW x \in Market, Provided(x), UNCHANGED dealVars,
           faults' = 0 => faults = 0,
           placing[x] = "over" => placing'[x] = "over",
           \A t \in Tasks : task'[x][t].kind \in {task[x][t].kind, None, "cancel"},
           blame[x] \subseteq blame'[x],
           \/ status'[x] \in {status[x], "PENDING", "CANCELLED"}
           \/ Settled(x)'
    PROVE  Provided(x)'
<1>1. /\ \A m \in Messages : bus[x][m] \in Nat
      /\ "place" \in Messages
  BY MarketOrder DEF Messages
<1>2. UNCHANGED <<bus, submitting, provider, deal, ticking>>
  BY DEF dealVars, engineVars
<1>3. \A m \in Messages : bus'[x][m] <= bus[x][m]
  BY <1>1, <1>2
<1>4. Stays(x)
  BY <1>1, <1>2, <1>3 DEF Stays
<1> QED
  BY <1>2, <1>3, <1>4, StaysProvided

LEMMA RowNextProvided ==
    ASSUME OrdersInv, OrdersInv', NEW x \in Market, Provided(x), RowNext
    PROVE  Provided(x)'
<1>1. x \in Orders /\ UNCHANGED dealVars /\ UNCHANGED faults
  BY MarketOrder DEF RowNext
<1>2. PICK o \in Orders : RowStep(o)
  BY DEF RowNext
<1>3. CASE Create(o) \/ Freeze(o)
  <2>1. placing[x] = "over" => placing'[x] = "over"
    BY <1>1, <1>2, <1>3, Named DEF Create, Freeze, Shape, RowsTypeOK, None
  <2>2. status'[x] \in {status[x], "PENDING"} /\ UNCHANGED <<task, blame>>
    BY <1>1, <1>3, Named DEF Create, Freeze, RowsTypeOK, rowVars
  <2> QED
    BY <1>1, <2>1, <2>2, OtherRows
<1>4. CASE RefuseFreeze(o) \/ RefuseLink(o)
  <2>1. PICK causes : SaveCreated(o, "REJECTED", 0, causes)
    BY <1>4 DEF RefuseFreeze, RefuseLink
  <2>2. /\ status'[o] = "REJECTED" /\ blame[o] \subseteq blame'[o]
        /\ \A y \in Orders \ {o} : status'[y] = status[y] /\ blame'[y] = blame[y]
    BY <1>2, <2>1, SaveCreatedRows
  <2>3. /\ placing[o] \in {"saved", "frozen"} /\ placing'[o] = "over"
        /\ \A y \in Orders \ {o} : placing'[y] = placing[y]
        /\ task' = task
    BY <1>2, <1>4, Named DEF RefuseFreeze, RefuseLink, RowsTypeOK
  <2>4. CASE x = o
    <3>1. Untouched(x)
      BY <2>3, <2>4 DEF Provided, Asked
    <3>2. Gone(x)'
      BY <1>1, <2>3, <2>4, <3>1 DEF Gone, Untouched, dealVars, engineVars
    <3>3. Settled(x)'
      BY <2>2, <2>4, <3>2 DEF Settled
    <3> QED
      BY <1>1, <2>2, <2>3, <2>4, <3>3, OtherRows
  <2>5. CASE x # o
    BY <1>1, <2>2, <2>3, <2>5, OtherRows
  <2> QED
    BY <2>4, <2>5
<1>5. ASSUME NEW t \in Tasks, FinishCancel(o, t)
      PROVE  Provided(x)'
  <2>1. task[o][t] \in Reads
    BY <1>2, <1>5, Named, SomeTask, {"cancel"} \in SUBSET Kinds DEF FinishCancel, Kinds
  <2>2. "CANCELLED" \in Statuses /\ task[o][t].exec \in Nat
    BY <2>1 DEF Statuses, Terminal, Reads
  <2>3. /\ SaveTask(o, t, "CANCELLED", task[o][t].exec, {}) /\ EndTask(o, t)
        /\ placing' = placing
    BY <1>5 DEF FinishCancel, Release
  <2>4. /\ status'[o] = "CANCELLED" /\ blame[o] \subseteq blame'[o]
        /\ \A y \in Orders \ {o} : status'[y] = status[y] /\ blame'[y] = blame[y]
    BY <1>2, <2>1, <2>2, <2>3, SaveTaskRows
  <2>5. \A u \in Tasks : task'[x][u].kind \in {task[x][u].kind, None}
    BY <1>1, <1>2, <2>3, EndedTask
  <2>6. status'[x] \in {status[x], "CANCELLED"} /\ blame[x] \subseteq blame'[x]
    BY <1>1, <2>4
  <2> QED
    BY <1>1, <2>3, <2>5, <2>6, OtherRows
<1> QED
  BY <1>2, <1>3, <1>4, <1>5 DEF RowStep

LEMMA FailNextProvided ==
    ASSUME OrdersInv, OrdersInv', NEW x \in Market, Provided(x), FailNext
    PROVE  Provided(x)'
<1>1. x \in Orders /\ UNCHANGED dealVars /\ faults \in Nat
  BY MarketOrder, Named DEF FailNext, RowsTypeOK
<1>2. PICK o \in Orders, t \in Tasks : FailTask(o, t)
  BY DEF FailNext
<1>3. /\ UNCHANGED <<status, placing>> /\ faults' = faults + 1
      /\ EndTask(o, t) /\ blame[x] \subseteq blame'[x]
  BY <1>1, <1>2, Named DEF FailTask, Fault, rowVars, RowsTypeOK
<1>4. \A u \in Tasks : task'[x][u].kind \in {task[x][u].kind, None}
  BY <1>1, <1>2, <1>3, EndedTask
<1> QED
  BY <1>1, <1>3, <1>4, OtherRows

LEMMA LimitNextProvided ==
    ASSUME OrdersInv, OrdersInv', NEW x \in Market, Provided(x), LimitNext \/ FailLimit
    PROVE  Provided(x)'
<1>1. x \in Orders /\ x \notin Limit /\ UNCHANGED dealVars /\ faults \in Nat
  BY MarketOrder, Named DEF LimitNext, FailLimit, RowsTypeOK
<1>2. PICK o \in Limit : LimitStep(o) \/ FailLeg(o)
  BY DEF LimitNext, FailLimit
<1>3. x # o /\ (faults' = 0 => faults = 0) /\ task' = task
  <2>1. faults' = faults \/ faults' = faults + 1
    BY DEF LimitNext, FailLimit, FailLeg, Fault
  <2>2. task' = task
    BY <1>2 DEF LimitStep, SettleLeg, ReadMaker, FinishLimit, MatchBook, FailLeg, orderVars
  <2> QED
    BY <1>1, <2>1, <2>2
<1>4. placing'[x] = placing[x]
  BY <1>1, <1>2, <1>3, Named DEF LimitStep, SettleLeg, ReadMaker, FinishLimit, MatchBook,
                    FailLeg, orderVars, RowsTypeOK
<1>5. status'[x] = status[x] /\ blame[x] \subseteq blame'[x]
  <2>1. CASE SettleLeg(o)
    <3>1. leg[o].maker \in Limit
      BY <2>1, Named DEF SettleLeg, BookTypeOK, Legs
    <3> QED
      BY <1>1, <2>1, <3>1, Named DEF SettleLeg, RowsTypeOK
  <2>2. CASE FinishLimit(o)
    BY <1>1, <1>3, <2>2, Named DEF FinishLimit, SaveCreated, RowsTypeOK, rowVars
  <2>3. CASE FailLeg(o)
    BY <1>1, <1>3, <2>3, Named DEF FailLeg, RowsTypeOK
  <2>4. CASE MatchBook(o) \/ \E m \in Limit : ReadMaker(o, m)
    BY <1>1, <1>3, <2>4, Named DEF MatchBook, ReadMaker, RowsTypeOK, rowVars, orderVars
  <2> QED
    BY <1>2, <2>1, <2>2, <2>3, <2>4 DEF LimitStep
<1> QED
  BY <1>1, <1>3, <1>4, <1>5, OtherRows

LEMMA CrashProvided ==
    ASSUME OrdersInv, OrdersInv', NEW x \in Market, Provided(x), BackendCrash
    PROVE  Provided(x)'
<1>1. x \in Orders /\ UNCHANGED dealVars /\ faults \in Nat
  BY MarketOrder, Named DEF BackendCrash, RowsTypeOK
<1>2. /\ faults' = faults + 1 /\ UNCHANGED status
      /\ \A t \in Tasks : task'[x][t].kind = None
      /\ placing[x] = "over" => placing'[x] = "over"
      /\ blame[x] \subseteq blame'[x]
  BY <1>1 DEF BackendCrash, ForgetRequests, Fault, rowVars, NoTask, None
<1> QED
  BY <1>1, <1>2, OtherRows

LEMMA StartCancelProvided ==
    ASSUME OrdersInv, OrdersInv', NEW x \in Market, Provided(x), NEW o \in Orders,
           NEW t \in Tasks, StartCancel(o, t)
    PROVE  Provided(x)'
<1>1. x \in Orders /\ UNCHANGED dealVars /\ UNCHANGED faults
  BY MarketOrder DEF StartCancel
<1>2. /\ UNCHANGED <<status, placing, blame>>
      /\ \A u \in Tasks : task'[x][u].kind \in {task[x][u].kind, "cancel"}
  BY <1>1, Named DEF StartCancel, StartTask, RowsTypeOK, rowVars
<1> QED
  BY <1>1, <1>2, OtherRows

-----------------------------------------------------------------------------
(* Together.                                                               *)

LEMMA DealsInvNext ==
    ASSUME DealsInv, [Next]_vars
    PROVE  DealsInv'
<1>1. OrdersInv /\ OrdersInv' /\ \A x \in Market : Provided(x)
  BY LedgerNext DEF DealsInv
<1>2. CASE DealNext
  BY <1>1, <1>2, DealStepProvided DEF DealNext, DealsInv
<1>3. CASE UNCHANGED vars
  <2>1. ASSUME NEW x \in Market
        PROVE  Provided(x)'
    <3>1. UNCHANGED <<status, task, blame, placing, faults, dealVars>>
      BY <1>3, RowsUntouched DEF vars
    <3> QED
      BY <1>1, <3>1, OtherRows
  <2> QED
    BY <1>1, <2>1 DEF DealsInv
<1>4. CASE RowNext \/ FailNext \/ LimitNext \/ FailLimit \/ BackendCrash
  BY <1>1, <1>4, RowNextProvided, FailNextProvided, LimitNextProvided, CrashProvided
     DEF DealsInv
<1>5. CASE \E o \in Orders, t \in Tasks : StartCancel(o, t)
  BY <1>1, <1>5, StartCancelProvided DEF DealsInv
<1> QED
  BY <1>2, <1>3, <1>4, <1>5 DEF Next

LEMMA ProvidedFollows == DealsInv => RowsFollowProvider
BY DEF DealsInv, Provided, Settled, Gone, Untouched, RowsFollowProvider, None

(* Whatever is lost, repeated or late between goldex-backend and the       *)
(* pricing engine, and for every set of orders: a completed order that no  *)
(* other user took was carried out by the provider, and while nothing is   *)
(* lost the provider does not carry out an order that is rejected.         *)
THEOREM OrdersFollowProvider == Spec => []RowsFollowProvider
<1>1. Spec => []DealsInv
  BY DealsInvInit, DealsInvNext, PTL DEF Spec
<1> QED
  BY <1>1, ProvidedFollows, PTL
=============================================================================
