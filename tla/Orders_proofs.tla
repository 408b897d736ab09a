--------------------------- MODULE Orders_proofs ---------------------------
(***************************************************************************)
(* The customer orders, for every set of orders, users, handlers and every *)
(* bound: first that all state keeps its type, then that a clear order's   *)
(* row tells what its wallets have been through, whatever the handlers of  *)
(* both programs do in between.                                            *)
(***************************************************************************)
EXTENDS OrderPromises, TLAPS

-----------------------------------------------------------------------------
(* Amounts and tables.                                                     *)

LEMMA WalletsOf ==
    ASSUME NEW o \in Orders
    PROVE  /\ Paid(o) \in Wallets /\ Got(o) \in Wallets
           /\ Qty[o] \in Nat /\ Price[o] \in Nat /\ Fee[o] \in Nat
BY OrdersAssumption DEF Paid, Got, Wallets, Assets

LEMMA Times == \A x, y \in Nat : x * y \in Nat
OBVIOUS

LEMMA Amounts ==
    ASSUME NEW o \in Orders, NEW q \in Nat
    PROVE  Cost(o, q) \in Nat /\ Gain(o, q) \in Nat
BY WalletsOf, Times DEF Cost, Gain

LEMMA LockAmount ==
    ASSUME NEW o \in Orders
    PROVE  LockOf(o) \in Nat
BY WalletsOf, Amounts DEF LockOf

LEMMA RemainderAmount ==
    ASSUME NEW o \in Orders, NEW e \in Nat
    PROVE  RemainderOf(o, e) \in Nat
<1>1. e < Qty[o] => Qty[o] - e \in Nat
  BY WalletsOf
<1>2. e < Qty[o] => Cost(o, Qty[o] - e) \in Nat
  BY <1>1, Amounts
<1> QED
  BY <1>2, WalletsOf DEF RemainderOf

LEMMA AddInt ==
    ASSUME NEW S, NEW f \in [S -> Int], NEW w \in S, NEW n \in Int
    PROVE  Add(f, w, n) \in [S -> Int]
BY DEF Add

LEMMA AddNat ==
    ASSUME NEW S, NEW f \in [S -> Nat], NEW w \in S, NEW n \in Nat
    PROVE  Add(f, w, n) \in [S -> Nat]
BY DEF Add

(* One entry of a table of tables is replaced.                             *)
LEMMA Entry ==
    ASSUME NEW S, NEW T, NEW V, NEW f \in [S -> [T -> V]], NEW x, NEW y, NEW v \in V
    PROVE  [f EXCEPT ![x][y] = v] \in [S -> [T -> V]]
OBVIOUS

LEMMA SomeTask ==
    ASSUME RowsTypeOK, NEW o \in Orders, NEW t \in Tasks, NEW K \in SUBSET Kinds,
           Has(o, t, K)
    PROVE  task[o][t] \in Reads
BY DEF RowsTypeOK, Has, Kinds, NoTask, None

LEMMA TaskEntry ==
    ASSUME RowsTypeOK, NEW o, NEW t, NEW v \in Reads \cup {NoTask}
    PROVE  [task EXCEPT ![o][t] = v] \in [Orders -> [Tasks -> Reads \cup {NoTask}]]
<1>1. task \in [Orders -> [Tasks -> Reads \cup {NoTask}]]
  BY DEF RowsTypeOK
<1> HIDE DEF Reads, NoTask
<1> QED
  BY <1>1, Entry

-----------------------------------------------------------------------------
(* What the parts of a step leave behind.                                  *)

LEMMA StartTaskType ==
    ASSUME RowsTypeOK, NEW o \in Orders, NEW t, NEW kind \in Kinds,
           StartTask(o, t, kind), faults' \in Nat
    PROVE  RowsTypeOK'
<1> DEFINE read == [kind |-> kind, status |-> status[o], exec |-> exec[o],
                    linked |-> linked[o]]
<1>1. read \in Reads
  BY DEF StartTask, RowsTypeOK, Reads
<1>2. task' = [task EXCEPT ![o][t] = read]
  BY DEF StartTask
<1>3. task' \in [Orders -> [Tasks -> Reads \cup {NoTask}]]
  BY <1>1, <1>2, TaskEntry
<1> QED
  BY <1>3 DEF StartTask, RowsTypeOK, rowVars, walletVars

LEMMA EndTaskType ==
    ASSUME RowsTypeOK, NEW o, NEW t, EndTask(o, t)
    PROVE  task' \in [Orders -> [Tasks -> Reads \cup {NoTask}]]
BY TaskEntry DEF EndTask

LEMMA SaveTaskType ==
    ASSUME RowsTypeOK, NEW o \in Orders, NEW t \in Tasks, task[o][t] \in Reads,
           NEW s \in Statuses, NEW e \in Nat, NEW causes \in SUBSET Causes,
           SaveTask(o, t, s, e, causes)
    PROVE  /\ status' \in [Orders -> Statuses \cup {None}]
           /\ exec' \in [Orders -> Nat]
           /\ linked' \in [Orders -> BOOLEAN]
           /\ blame' \in [Orders -> SUBSET Causes]
<1>1. Outdated(o, t) \in SUBSET Causes /\ task[o][t].linked \in BOOLEAN
  BY DEF Outdated, Causes, Reads
<1> HIDE DEF Causes
<1> QED
  BY <1>1 DEF SaveTask, RowsTypeOK

LEMMA SaveCreatedType ==
    ASSUME RowsTypeOK, NEW o \in Orders, NEW s \in Statuses, NEW e \in Nat,
           NEW causes \in SUBSET Causes, SaveCreated(o, s, e, causes)
    PROVE  /\ status' \in [Orders -> Statuses \cup {None}]
           /\ exec' \in [Orders -> Nat]
           /\ linked' \in [Orders -> BOOLEAN]
           /\ blame' \in [Orders -> SUBSET Causes]
<1>1. (IF status[o] = "PENDING" /\ exec[o] = 0 THEN {} ELSE {"stale"}) \in SUBSET Causes
  BY DEF Causes
<1> HIDE DEF Causes
<1> QED
  BY <1>1 DEF SaveCreated, RowsTypeOK

LEMMA ReleaseType ==
    ASSUME RowsTypeOK, NEW o \in Orders, NEW t \in Tasks, task[o][t] \in Reads,
           NEW s \in Statuses, Release(o, t, s), faults' \in Nat
    PROVE  RowsTypeOK'
<1> DEFINE n == RemainderOf(o, task[o][t].exec)
<1>1. task[o][t].exec \in Nat
  BY DEF Reads
<1>2. n \in Nat /\ -n \in Int /\ n \in Int /\ Paid(o) \in Wallets
  BY <1>1, RemainderAmount, WalletsOf
<1>3. locked' = Add(locked, Paid(o), -n) /\ free' = Add(free, Paid(o), n)
      /\ freedBy' = Add(freedBy, o, n)
  BY DEF Release, Unlock
<1>4. locked \in [Wallets -> Int] /\ free \in [Wallets -> Int] /\ freedBy \in [Orders -> Nat]
  BY DEF RowsTypeOK
<1> HIDE DEF n
<1>5. locked' \in [Wallets -> Int] /\ free' \in [Wallets -> Int] /\ freedBy' \in [Orders -> Nat]
  BY <1>2, <1>3, <1>4, AddInt, AddNat
<1>6. SaveTask(o, t, s, task[o][t].exec, {}) /\ EndTask(o, t)
      /\ UNCHANGED <<placing, lockedBy, usedBy>>
  BY DEF Release
<1>7. /\ status' \in [Orders -> Statuses \cup {None}] /\ exec' \in [Orders -> Nat]
      /\ linked' \in [Orders -> BOOLEAN] /\ blame' \in [Orders -> SUBSET Causes]
  BY <1>1, <1>6, SaveTaskType, {} \in SUBSET Causes
<1>8. task' \in [Orders -> [Tasks -> Reads \cup {NoTask}]]
  BY <1>6, EndTaskType
<1> QED
  BY <1>5, <1>6, <1>7, <1>8 DEF RowsTypeOK

-----------------------------------------------------------------------------
(* The steps of OrderRows.                                                 *)

LEMMA FreezeType ==
    ASSUME RowsTypeOK, NEW o \in Orders, Freeze(o), faults' \in Nat
    PROVE  RowsTypeOK'
<1>1. LockOf(o) \in Int /\ -LockOf(o) \in Int /\ LockOf(o) \in Nat /\ Paid(o) \in Wallets
  BY LockAmount, WalletsOf
<1>2. locked \in [Wallets -> Int] /\ free \in [Wallets -> Int] /\ lockedBy \in [Orders -> Nat]
  BY DEF RowsTypeOK
<1>3. locked' = Add(locked, Paid(o), LockOf(o)) /\ free' = Add(free, Paid(o), -LockOf(o))
      /\ lockedBy' = Add(lockedBy, o, LockOf(o))
  BY DEF Freeze
<1>4. locked' \in [Wallets -> Int] /\ free' \in [Wallets -> Int] /\ lockedBy' \in [Orders -> Nat]
  BY <1>1, <1>2, <1>3, AddInt, AddNat
<1> QED
  BY <1>4 DEF Freeze, RowsTypeOK, rowVars

LEMMA RowStepType ==
    ASSUME RowsTypeOK, NEW o \in Orders, RowStep(o), faults' \in Nat
    PROVE  RowsTypeOK'
<1>1. CASE Create(o)
  <2>1. "PENDING" \in Statuses
    BY DEF Statuses, Open
  <2> QED
    BY <1>1, <2>1 DEF Create, RowsTypeOK, walletVars
<1>2. CASE Freeze(o)
  BY <1>2, FreezeType
<1>3. CASE RefuseFreeze(o) \/ RefuseLink(o)
  <2>1. PICK causes \in SUBSET Causes : SaveCreated(o, "REJECTED", 0, causes)
    BY <1>3 DEF RefuseFreeze, RefuseLink, Causes
  <2>2. "REJECTED" \in Statuses /\ 0 \in Nat
    BY DEF Statuses, Terminal
  <2> HIDE DEF Causes
  <2>3. /\ status' \in [Orders -> Statuses \cup {None}] /\ exec' \in [Orders -> Nat]
        /\ linked' \in [Orders -> BOOLEAN] /\ blame' \in [Orders -> SUBSET Causes]
    BY <2>1, <2>2, SaveCreatedType
  <2>4. placing' \in [Orders -> {None, "saved", "frozen", "settling", "over"}]
        /\ UNCHANGED <<task, walletVars>>
    BY <1>3 DEF RefuseFreeze, RefuseLink, RowsTypeOK
  <2> QED
    BY <2>3, <2>4 DEF RowsTypeOK, walletVars
<1>4. ASSUME NEW t \in Tasks, FinishCancel(o, t)
      PROVE  RowsTypeOK'
  <2>1. task[o][t] \in Reads
    BY <1>4, SomeTask, {"cancel"} \in SUBSET Kinds DEF FinishCancel, Kinds
  <2>2. "CANCELLED" \in Statuses
    BY DEF Statuses, Terminal
  <2> QED
    BY <1>4, <2>1, <2>2, ReleaseType DEF FinishCancel
<1> QED
  BY <1>1, <1>2, <1>3, <1>4 DEF RowStep

LEMMA FailTaskType ==
    ASSUME RowsTypeOK, NEW o \in Orders, NEW t \in Tasks, FailTask(o, t)
    PROVE  RowsTypeOK'
<1>1. task' \in [Orders -> [Tasks -> Reads \cup {NoTask}]]
  BY EndTaskType DEF FailTask
<1>2. blame' \in [Orders -> SUBSET Causes]
  BY DEF FailTask, RowsTypeOK, Causes
<1> QED
  BY <1>1, <1>2 DEF FailTask, Fault, RowsTypeOK, rowVars, walletVars

LEMMA ForgetType ==
    ASSUME RowsTypeOK, ForgetRequests, faults' \in Nat
    PROVE  RowsTypeOK'
<1>1. blame' \in [Orders -> SUBSET Causes]
  BY DEF ForgetRequests, RowsTypeOK, Causes
<1>2. placing' \in [Orders -> {None, "saved", "frozen", "settling", "over"}]
  BY DEF ForgetRequests, RowsTypeOK
<1>3. task' \in [Orders -> [Tasks -> Reads \cup {NoTask}]]
  BY DEF ForgetRequests
<1> QED
  BY <1>1, <1>2, <1>3 DEF ForgetRequests, RowsTypeOK, rowVars, walletVars
-----------------------------------------------------------------------------
(* The steps of ProviderDeals.                                             *)

LEMMA BusType ==
    ASSUME DealsTypeOK, NEW o \in Market, NEW m \in Messages, Take(o, m) \/ Send(o, m)
    PROVE  bus' \in [Market -> [Messages -> Nat]]
<1>1. bus \in [Market -> [Messages -> Nat]] /\ bus[o][m] \in Nat
  BY DEF DealsTypeOK
<1>2. CASE Take(o, m)
  <2>1. bus' = [bus EXCEPT ![o][m] = bus[o][m] - 1] /\ bus[o][m] - 1 \in Nat
    BY <1>1, <1>2 DEF Take
  <2> QED
    BY <1>1, <2>1, Entry
<1>3. CASE Send(o, m)
  <2>1. bus' = [bus EXCEPT ![o][m] = bus[o][m] + 1] /\ bus[o][m] + 1 \in Nat
    BY <1>1, <1>3 DEF Send
  <2> QED
    BY <1>1, <2>1, Entry
<1> QED
  BY <1>2, <1>3

LEMMA RowsKept ==
    ASSUME RowsTypeOK, UNCHANGED orderVars, faults' \in Nat
    PROVE  RowsTypeOK'
BY DEF RowsTypeOK, orderVars, rowVars, walletVars

LEMMA EngineStepType ==
    ASSUME RowsTypeOK, DealsTypeOK, NEW o \in Market, EngineStep(o)
    PROVE  RowsTypeOK' /\ DealsTypeOK'
<1> USE DEF engineVars
<1>1. faults \in Nat /\ faults + 1 \in Nat
  BY DEF RowsTypeOK
<1>2. UNCHANGED orderVars /\ faults' \in Nat
  BY <1>1 DEF EngineStep, OnPlace, Accepted, Refused, Answer, Poll, Report, FetchDeals,
              OnQuery, Fault
<1>3. RowsTypeOK'
  BY <1>2, RowsKept
<1>4. CASE OnPlace(o)
  <2>1. bus' \in [Market -> [Messages -> Nat]]
    BY <1>4, BusType DEF OnPlace, Messages
  <2> QED
    BY <1>3, <1>4, <2>1 DEF OnPlace, DealsTypeOK
<1>5. CASE Accepted(o)
  <2>1. bus' \in [Market -> [Messages -> Nat]]
    BY <1>5, BusType DEF Accepted, Messages
  <2>2. deal' \in [Market -> DealStates \cup {None}]
        /\ provider' \in [Market -> DealStates \cup {None}]
    BY <1>5 DEF Accepted, DealsTypeOK, DealStates
  <2> QED
    BY <1>3, <1>5, <2>1, <2>2 DEF Accepted, DealsTypeOK
<1>6. CASE Refused(o)
  <2>1. bus' \in [Market -> [Messages -> Nat]]
    BY <1>6, BusType DEF Refused, Messages
  <2>2. provider' \in [Market -> DealStates \cup {None}]
    BY <1>6 DEF Refused, DealsTypeOK, DealStates
  <2> QED
    BY <1>3, <1>6, <2>1, <2>2 DEF Refused, DealsTypeOK
<1>7. CASE Answer(o)
  BY <1>3, <1>7 DEF Answer, DealsTypeOK, DealStates
<1>8. CASE Poll(o)
  BY <1>3, <1>8 DEF Poll, DealsTypeOK
<1>9. CASE Report(o)
  <2>1. AnswerOf(provider[o]) \in Messages
    BY DEF AnswerOf, Messages, Answers
  <2>2. bus' \in [Market -> [Messages -> Nat]]
    BY <1>9, <2>1, BusType DEF Report, DealsTypeOK
  <2>3. /\ deal' = deal \/ deal' = [deal EXCEPT ![o] = provider[o]]
        /\ ticking' = [ticking EXCEPT ![o] = @ - 1] /\ ticking[o] > 0
        /\ tracked' = tracked \/ tracked' = [tracked EXCEPT ![o] = FALSE]
        /\ submitting' = submitting /\ provider' = provider
    BY <1>9 DEF Report
  <2>4. deal' \in [Market -> DealStates \cup {None}]
    BY <2>3 DEF DealsTypeOK
  <2>5. ticking' \in [Market -> Nat]
    BY <2>3 DEF DealsTypeOK
  <2> QED
    BY <1>3, <2>2, <2>3, <2>4, <2>5 DEF DealsTypeOK
<1>10. CASE FetchDeals(o)
  BY <1>3, <1>10 DEF FetchDeals, DealsTypeOK
<1>11. CASE OnQuery(o)
  <2>1. bus' \in [Market -> [Messages -> Nat]]
    <3>1. CASE Take(o, "query")
      BY <3>1, BusType DEF Messages
    <3>2. ASSUME NEW m \in Answers,
                 bus' = [bus EXCEPT ![o] = Answered(bus[o], m)]
          PROVE  bus' \in [Market -> [Messages -> Nat]]
      <4>1. "query" \in Messages /\ m \in Messages /\ m # "query"
        BY DEF Messages, Answers
      <4>2. bus \in [Market -> [Messages -> Nat]] /\ bus[o] \in [Messages -> Nat]
        BY DEF DealsTypeOK
      <4>3. bus[o]["query"] - 1 \in Nat
        BY <1>11, <4>1, <4>2 DEF OnQuery
      <4>4. Answered(bus[o], m) \in [Messages -> Nat]
        BY <4>1, <4>2, <4>3 DEF Answered
      <4> QED
        BY <3>2, <4>2, <4>4
    <3>3. AnswerOf(deal[o]) \in Answers
      BY DEF AnswerOf, Answers
    <3> QED
      BY <1>11, <3>1, <3>2, <3>3 DEF OnQuery
  <2> QED
    BY <1>3, <1>11, <2>1 DEF OnQuery, DealsTypeOK
<1> QED
  BY <1>4, <1>5, <1>6, <1>7, <1>8, <1>9, <1>10, <1>11 DEF EngineStep
LEMMA BusOnly ==
    ASSUME DealsTypeOK, UNCHANGED engineVars, bus' \in [Market -> [Messages -> Nat]]
    PROVE  DealsTypeOK'
BY DEF DealsTypeOK, engineVars

LEMMA DealsKept ==
    ASSUME DealsTypeOK, UNCHANGED dealVars
    PROVE  DealsTypeOK'
BY DEF DealsTypeOK, dealVars, engineVars

LEMMA ConfirmType ==
    ASSUME RowsTypeOK, NEW o \in Market, NEW t \in Tasks, Confirm(o, t)
    PROVE  RowsTypeOK'
<1>1. /\ o \in Orders /\ LockOf(o) \in Nat /\ -LockOf(o) \in Int
      /\ Gets[o] \in Nat /\ Gets[o] \in Int /\ Qty[o] \in Nat
      /\ Paid(o) \in Wallets /\ Got(o) \in Wallets
  BY LockAmount, WalletsOf, DealsAssumption DEF Orders
<1>2. locked \in [Wallets -> Int] /\ free \in [Wallets -> Int] /\ usedBy \in [Orders -> Nat]
  BY DEF RowsTypeOK
<1>3. /\ locked' = Add(locked, Paid(o), -LockOf(o)) /\ free' = Add(free, Got(o), Gets[o])
      /\ usedBy' = Add(usedBy, o, LockOf(o))
      /\ SaveTask(o, t, "COMPLETED", Qty[o], {}) /\ EndTask(o, t)
      /\ UNCHANGED <<placing, lockedBy, freedBy, faults>>
  BY DEF Confirm
<1>4. locked' \in [Wallets -> Int] /\ free' \in [Wallets -> Int] /\ usedBy' \in [Orders -> Nat]
  BY <1>1, <1>2, <1>3, AddInt, AddNat
<1>5. task[o][t] \in Reads
  BY <1>1, SomeTask, {"done"} \in SUBSET Kinds DEF Confirm, Kinds, Answers
<1>6. "COMPLETED" \in Statuses /\ {} \in SUBSET Causes
  BY DEF Statuses, Terminal
<1>7. /\ status' \in [Orders -> Statuses \cup {None}] /\ exec' \in [Orders -> Nat]
      /\ linked' \in [Orders -> BOOLEAN] /\ blame' \in [Orders -> SUBSET Causes]
  BY <1>1, <1>3, <1>5, <1>6, SaveTaskType
<1>8. task' \in [Orders -> [Tasks -> Reads \cup {NoTask}]]
  BY <1>3, EndTaskType
<1> QED
  BY <1>3, <1>4, <1>7, <1>8 DEF RowsTypeOK

LEMMA FinishMatchType ==
    ASSUME RowsTypeOK, NEW o \in Market, NEW t \in Tasks, FinishMatch(o, t)
    PROVE  RowsTypeOK'
<1> DEFINE give == <<Requester[o], Got(o)[2]>>
           take == <<Requester[o], Paid(o)[2]>>
           cost == Cost(o, Qty[o])
           gain == Gain(o, Qty[o])
<1>1. o \in Orders /\ Qty[o] \in Nat /\ Paid(o) \in Wallets /\ Got(o) \in Wallets
  BY WalletsOf DEF Orders
<1>2. give \in Wallets /\ take \in Wallets
  BY DealsAssumption DEF FinishMatch, Got, Paid, Wallets, Assets
<1>3. cost \in Nat /\ gain \in Nat /\ cost \in Int /\ gain \in Int /\ -cost \in Int /\ -gain \in Int
  BY <1>1, Amounts
<1>4. locked \in [Wallets -> Int] /\ free \in [Wallets -> Int] /\ usedBy \in [Orders -> Nat]
  BY DEF RowsTypeOK
<1>5. /\ locked' = Add(locked, Paid(o), -cost)
      /\ free' = Add(Add(Add(free, give, -gain), take, cost), Got(o), gain)
      /\ usedBy' = Add(usedBy, o, cost)
      /\ SaveTask(o, t, "COMPLETED", Qty[o], IF Fee[o] > 0 THEN {"fee"} ELSE {})
      /\ EndTask(o, t)
      /\ UNCHANGED <<placing, lockedBy, freedBy, faults>>
  BY DEF FinishMatch
<1> HIDE DEF give, take, cost, gain
<1>6. locked' \in [Wallets -> Int] /\ usedBy' \in [Orders -> Nat]
  BY <1>1, <1>3, <1>4, <1>5, AddInt, AddNat
<1>7. free' \in [Wallets -> Int]
  BY <1>1, <1>2, <1>3, <1>4, <1>5, AddInt
<1>8. task[o][t] \in Reads
  BY <1>1, SomeTask, {"match"} \in SUBSET Kinds DEF FinishMatch, Kinds
<1>9. "COMPLETED" \in Statuses /\ (IF Fee[o] > 0 THEN {"fee"} ELSE {}) \in SUBSET Causes
  BY DEF Statuses, Terminal, Causes
<1> HIDE DEF Causes
<1>10. /\ status' \in [Orders -> Statuses \cup {None}] /\ exec' \in [Orders -> Nat]
       /\ linked' \in [Orders -> BOOLEAN] /\ blame' \in [Orders -> SUBSET Causes]
  BY <1>1, <1>5, <1>8, <1>9, SaveTaskType
<1>11. task' \in [Orders -> [Tasks -> Reads \cup {NoTask}]]
  BY <1>5, EndTaskType
<1> QED
  BY <1>5, <1>6, <1>7, <1>10, <1>11 DEF RowsTypeOK

LEMMA LinkType ==
    ASSUME RowsTypeOK, NEW o \in Market, NEW t \in Tasks, Link(o, t)
    PROVE  RowsTypeOK'
<1>1. o \in Orders /\ task[o][t] \in Reads
  BY SomeTask, Answers \in SUBSET Kinds DEF Link, Orders, Kinds, Answers
<1>2. task' \in [Orders -> [Tasks -> Reads \cup {NoTask}]]
  <2>1. [task[o][t] EXCEPT !.linked = TRUE] \in Reads
    BY <1>1 DEF Reads
  <2>2. task' = [task EXCEPT ![o][t] = [task[o][t] EXCEPT !.linked = TRUE]]
    BY DEF Link
  <2> QED
    BY <2>1, <2>2, TaskEntry
<1>3. blame' \in [Orders -> SUBSET Causes]
  <2>1. Outdated(o, t) \in SUBSET Causes
    BY DEF Outdated, Causes
  <2> HIDE DEF Causes
  <2> QED
    BY <2>1 DEF Link, RowsTypeOK
<1>4. task[o][t].status \in Statuses /\ task[o][t].exec \in Nat
  BY <1>1 DEF Reads, Statuses
<1> QED
  BY <1>2, <1>3, <1>4 DEF Link, RowsTypeOK, walletVars

LEMMA SettleStepType ==
    ASSUME RowsTypeOK, DealsTypeOK, NEW o \in Market, SettleStep(o)
    PROVE  RowsTypeOK' /\ DealsTypeOK'
<1>1. o \in Orders /\ faults \in Nat
  BY DEF RowsTypeOK, Orders
<1>2. CASE Dispatch(o)
  <2>1. bus' \in [Market -> [Messages -> Nat]]
    BY <1>2, BusType DEF Dispatch, Messages
  <2>2. DealsTypeOK'
    BY <1>2, <2>1, BusOnly DEF Dispatch
  <2> QED
    BY <1>2, <2>2 DEF Dispatch, RowsTypeOK, rowVars, walletVars
<1>3. CASE OnPlaced(o)
  <2>1. bus' \in [Market -> [Messages -> Nat]]
    BY <1>3, BusType DEF OnPlaced, Messages
  <2>2. DealsTypeOK'
    BY <1>3, <2>1, BusOnly DEF OnPlaced
  <2> QED
    BY <1>3, <2>2 DEF OnPlaced, RowsTypeOK, walletVars
<1>4. CASE AskAgain(o)
  <2>1. bus' \in [Market -> [Messages -> Nat]]
    BY <1>4, BusType DEF AskAgain, Messages
  <2> QED
    BY <1>1, <1>4, <2>1, BusOnly, RowsKept DEF AskAgain
<1>5. ASSUME NEW t \in Tasks, NEW answer \in Answers \cup {"refused"}, OnStatus(o, t, answer)
      PROVE  RowsTypeOK' /\ DealsTypeOK'
  <2>1. bus' \in [Market -> [Messages -> Nat]]
    BY <1>5, BusType DEF OnStatus, Messages
  <2>2. answer \in Kinds
    BY DEF Kinds, Answers
  <2>3. faults' \in Nat /\ DealsTypeOK'
    BY <1>1, <1>5, <2>1, BusOnly DEF OnStatus
  <2> QED
    BY <1>1, <1>5, <2>2, <2>3, StartTaskType, RowsKept DEF OnStatus
<1>6. ASSUME NEW t \in Tasks, Link(o, t)
      PROVE  RowsTypeOK' /\ DealsTypeOK'
  BY <1>6, LinkType, DealsKept DEF Link
<1>7. ASSUME NEW t \in Tasks, Confirm(o, t)
      PROVE  RowsTypeOK' /\ DealsTypeOK'
  BY <1>7, ConfirmType, DealsKept DEF Confirm
<1>8. ASSUME NEW t \in Tasks, Reject(o, t)
      PROVE  RowsTypeOK' /\ DealsTypeOK'
  <2>1. task[o][t] \in Reads
    BY <1>1, <1>8, SomeTask, {"failed", "refused"} \in SUBSET Kinds DEF Reject, Kinds
  <2>2. "REJECTED" \in Statuses
    BY DEF Statuses, Terminal
  <2> QED
    BY <1>1, <1>8, <2>1, <2>2, ReleaseType, DealsKept DEF Reject
<1>9. ASSUME NEW t \in Tasks, StartMatch(o, t)
      PROVE  RowsTypeOK' /\ DealsTypeOK'
  BY <1>1, <1>9, StartTaskType, DealsKept DEF StartMatch, Kinds
<1>10. ASSUME NEW t \in Tasks, FinishMatch(o, t)
       PROVE  RowsTypeOK' /\ DealsTypeOK'
  BY <1>10, FinishMatchType, DealsKept DEF FinishMatch
<1>11. ASSUME NEW t \in Tasks, RefuseMatch(o, t)
       PROVE  RowsTypeOK' /\ DealsTypeOK'
  <2>1. task' \in [Orders -> [Tasks -> Reads \cup {NoTask}]]
    BY <1>11, EndTaskType DEF RefuseMatch
  <2> QED
    BY <1>11, <2>1, DealsKept DEF RefuseMatch, RowsTypeOK, rowVars, walletVars
<1> QED
  BY <1>2, <1>3, <1>4, <1>5, <1>6, <1>7, <1>8, <1>9, <1>10, <1>11 DEF SettleStep
LEMMA DealStepType ==
    ASSUME RowsTypeOK, DealsTypeOK, DealStep
    PROVE  RowsTypeOK' /\ DealsTypeOK'
<1>1. ASSUME NEW o \in Market, NEW m \in Messages, Lose(o, m)
      PROVE  RowsTypeOK' /\ DealsTypeOK'
  <2>1. bus' \in [Market -> [Messages -> Nat]] /\ faults' \in Nat
    BY <1>1, BusType DEF Lose, Fault, RowsTypeOK
  <2> QED
    BY <1>1, <2>1, BusOnly, RowsKept DEF Lose
<1>2. CASE EngineCrash
  <2>1. provider' \in [Market -> DealStates \cup {None}]
    <3>1. "PENDING" \in DealStates
      BY DEF DealStates
    <3> QED
      BY <1>2, <3>1 DEF EngineCrash, DealsTypeOK
  <2>2. faults' \in Nat
    BY <1>2 DEF EngineCrash, Fault, RowsTypeOK
  <2>3. RowsTypeOK'
    BY <1>2, <2>2, RowsKept DEF EngineCrash
  <2> QED
    BY <1>2, <2>1, <2>3 DEF EngineCrash, DealsTypeOK
<1> QED
  BY <1>1, <1>2, EngineStepType, SettleStepType DEF DealStep

-----------------------------------------------------------------------------
(* The steps of LimitBook.                                                 *)

LEMMA MatchesShape ==
    ASSUME BookTypeOK, NEW o \in Limit, NEW f \in Matches(o)
    PROVE  /\ f \in [Limit -> 0..Qty[o]]
           /\ Size(f) \in 0..Qty[o]
           /\ \A m \in Limit : f[m] <= book[m]
           /\ \A m \in Limit : f[m] > 0 => m \in Crossing(o)
BY DEF Matches, BookTypeOK, Crossing

LEMMA LimitOrder ==
    ASSUME NEW o \in Limit
    PROVE  o \in Orders /\ Qty[o] \in Nat /\ Fee[o] = 0
<1>1. o \in Orders /\ Fee[o] \in Nat /\ o \notin Market
  BY OrdersAssumption DEF Orders
<1> QED
  BY <1>1, OrdersAssumption

LEMMA MatchBookType ==
    ASSUME RowsTypeOK, BookTypeOK, NEW o \in Limit, MatchBook(o), faults' \in Nat
    PROVE  RowsTypeOK' /\ BookTypeOK'
<1>1. PICK f \in Matches(o) :
          /\ fills' = [fills EXCEPT ![o] = f]
          /\ book' = [m \in Limit |-> IF m = o THEN Qty[o] - Size(f) ELSE book[m] - f[m]]
  BY DEF MatchBook
<1>2. f \in [Limit -> 0..Qty[o]] /\ Size(f) \in 0..Qty[o] /\ \A m \in Limit : f[m] <= book[m]
  BY MatchesShape
<1>3. Qty[o] \in Nat /\ o \in Orders
  BY LimitOrder
<1>4. Qty[o] - Size(f) \in Nat
  BY <1>2, <1>3
<1>5. \A m \in Limit : book[m] - f[m] \in Nat
  BY <1>2, <1>3 DEF BookTypeOK
<1>6. book' \in [Limit -> Nat]
  BY <1>1, <1>4, <1>5
<1>7. f \in [Limit -> Nat]
  BY <1>2, <1>3
<1>8. fills' \in [Limit -> [Limit -> Nat]]
  BY <1>1, <1>7 DEF BookTypeOK
<1>9. BookTypeOK'
  BY <1>6, <1>8 DEF MatchBook, BookTypeOK
<1>10. blame' \in [Orders -> SUBSET Causes]
  BY DEF MatchBook, RowsTypeOK, Causes
<1> QED
  BY <1>9, <1>10 DEF MatchBook, RowsTypeOK, rowVars, walletVars

LEMMA ReadMakerType ==
    ASSUME RowsTypeOK, BookTypeOK, NEW o \in Limit, NEW m \in Limit, ReadMaker(o, m),
           faults' \in Nat
    PROVE  RowsTypeOK' /\ BookTypeOK'
<1>1. [maker |-> m, status |-> status[m], exec |-> exec[m]] \in Legs
  BY LimitOrder DEF Legs, RowsTypeOK
<1>2. leg' \in [Limit -> Legs \cup {NoLeg}]
  BY <1>1 DEF ReadMaker, BookTypeOK
<1>3. BookTypeOK'
  BY <1>2 DEF ReadMaker, BookTypeOK
<1> QED
  BY <1>3, RowsKept DEF ReadMaker

LEMMA SettleLegType ==
    ASSUME RowsTypeOK, BookTypeOK, NEW o \in Limit, leg[o] \in Legs, SettleLeg(o), faults' \in Nat
    PROVE  RowsTypeOK' /\ BookTypeOK'
<1> DEFINE m == leg[o].maker
           q == fills[o][m]
           e == leg[o].exec + q
<1>1. m \in Limit /\ leg[o].exec \in Nat
  BY DEF Legs
<1>2. q \in Nat /\ e \in Nat
  BY <1>1 DEF BookTypeOK
<1>3. /\ o \in Orders /\ m \in Orders
      /\ Paid(o) \in Wallets /\ Got(o) \in Wallets /\ Paid(m) \in Wallets /\ Got(m) \in Wallets
      /\ Price[o] \in Nat /\ Price[m] \in Nat
  BY <1>1, LimitOrder, WalletsOf
<1>4. /\ Cost(o, q) \in Nat /\ Cost(m, q) \in Nat /\ Gain(o, q) \in Nat /\ Gain(m, q) \in Nat
  BY <1>2, <1>3, Amounts
<1>5. /\ Cost(o, q) \in Int /\ Cost(m, q) \in Int /\ Gain(o, q) \in Int /\ Gain(m, q) \in Int
      /\ -Cost(o, q) \in Int /\ -Cost(m, q) \in Int
  BY <1>4
<1>6. Spread(o, m, q) \in Int
  BY <1>2, <1>3 DEF Spread
<1>7. StaleMaker(o) \in SUBSET Causes
  BY DEF StaleMaker, Causes
<1>8. /\ locked' = Add(Add(locked, Paid(o), -Cost(o, q)), Paid(m), -Cost(m, q))
      /\ free' = Add(Add(free, Got(o), Gain(o, q)), Got(m), Gain(m, q))
      /\ usedBy' = Add(Add(usedBy, o, Cost(o, q)), m, Cost(m, q))
      /\ spread' = spread + Spread(o, m, q)
      /\ exec' = [exec EXCEPT ![m] = e]
      /\ status' = [status EXCEPT ![m] =
            IF e >= Qty[m] THEN "COMPLETED" ELSE "PARTIALLY_COMPLETED"]
      /\ blame' = [blame EXCEPT ![m] = @ \cup StaleMaker(o)]
      /\ fills' = [fills EXCEPT ![o][m] = 0]
      /\ filled' = [filled EXCEPT ![o] = @ + q]
      /\ leg' = [leg EXCEPT ![o] = NoLeg]
      /\ UNCHANGED <<linked, placing, task, lockedBy, freedBy, book>>
  BY DEF SettleLeg
<1> HIDE DEF m, q, e
<1>9. /\ locked \in [Wallets -> Int] /\ free \in [Wallets -> Int] /\ usedBy \in [Orders -> Nat]
  BY DEF RowsTypeOK
<1>10. locked' \in [Wallets -> Int] /\ free' \in [Wallets -> Int] /\ usedBy' \in [Orders -> Nat]
  BY <1>3, <1>4, <1>5, <1>8, <1>9, AddInt, AddNat
<1>11. status' \in [Orders -> Statuses \cup {None}]
  BY <1>8 DEF RowsTypeOK, Statuses, Open, Terminal
<1>12. exec' \in [Orders -> Nat]
  BY <1>2, <1>8 DEF RowsTypeOK
<1>13. blame' \in [Orders -> SUBSET Causes]
  BY <1>7, <1>8 DEF RowsTypeOK
<1>14. fills' \in [Limit -> [Limit -> Nat]]
  BY <1>8, Entry DEF BookTypeOK
<1>15. filled' \in [Limit -> Nat] /\ leg' \in [Limit -> Legs \cup {NoLeg}] /\ spread' \in Int
  BY <1>2, <1>6, <1>8 DEF BookTypeOK
<1> QED
  BY <1>8, <1>10, <1>11, <1>12, <1>13, <1>14, <1>15 DEF RowsTypeOK, BookTypeOK

LEMMA FinishLimitType ==
    ASSUME RowsTypeOK, BookTypeOK, NEW o \in Limit, FinishLimit(o), faults' \in Nat
    PROVE  RowsTypeOK' /\ BookTypeOK'
<1>1. BookTypeOK'
  BY DEF FinishLimit, BookTypeOK, limitVars
<1>2. o \in Orders /\ filled[o] \in Nat /\ {} \in SUBSET Causes
  BY LimitOrder DEF BookTypeOK
<1>3. (IF filled[o] >= Qty[o] THEN "COMPLETED" ELSE "PARTIALLY_COMPLETED") \in Statuses
  BY DEF Statuses, Open, Terminal
<1>4. /\ status' \in [Orders -> Statuses \cup {None}] /\ exec' \in [Orders -> Nat]
      /\ linked' \in [Orders -> BOOLEAN] /\ blame' \in [Orders -> SUBSET Causes]
  <2>1. CASE filled[o] > 0
    BY <1>2, <1>3, <2>1, SaveCreatedType DEF FinishLimit
  <2>2. CASE ~(filled[o] > 0)
    BY <2>2 DEF FinishLimit, RowsTypeOK, rowVars
  <2> QED
    BY <2>1, <2>2
<1> QED
  BY <1>1, <1>4 DEF FinishLimit, RowsTypeOK, walletVars

LEMMA FailLegType ==
    ASSUME RowsTypeOK, BookTypeOK, NEW o \in Limit, FailLeg(o)
    PROVE  RowsTypeOK' /\ BookTypeOK'
<1>1. BookTypeOK'
  BY DEF FailLeg, BookTypeOK, NoFills
<1>2. blame' \in [Orders -> SUBSET Causes]
  BY DEF FailLeg, RowsTypeOK, Causes
<1>3. status' \in [Orders -> Statuses \cup {None}]
  BY DEF FailLeg, RowsTypeOK, Statuses, Terminal
<1>4. faults' \in Nat
  BY DEF FailLeg, Fault, RowsTypeOK
<1> QED
  BY <1>1, <1>2, <1>3, <1>4 DEF FailLeg, RowsTypeOK, walletVars

LEMMA RestoreType ==
    ASSUME RowsTypeOK, BookTypeOK, RestoreBook
    PROVE  BookTypeOK'
<1>1. \A o \in Limit : exec[o] < Qty[o] => Qty[o] - exec[o] \in Nat
  BY LimitOrder DEF RowsTypeOK
<1> QED
  BY <1>1 DEF RestoreBook, BookTypeOK, NoFills
LEMMA LimitStepType ==
    ASSUME RowsTypeOK, BookTypeOK, NEW o \in Limit, LimitStep(o), faults' \in Nat
    PROVE  RowsTypeOK' /\ BookTypeOK'
<1>1. CASE SettleLeg(o)
  <2>1. leg[o] \in Legs
    BY <1>1 DEF SettleLeg, BookTypeOK
  <2> QED
    BY <1>1, <2>1, SettleLegType
<1> QED
  BY <1>1, MatchBookType, ReadMakerType, FinishLimitType DEF LimitStep

LEMMA BookKept ==
    ASSUME BookTypeOK, UNCHANGED limitVars
    PROVE  BookTypeOK'
BY DEF BookTypeOK, limitVars

-----------------------------------------------------------------------------
(* All of it.                                                              *)

LEMMA OrdersTypeInit == Init => OrdersTypeOK
<1> SUFFICES ASSUME Init PROVE OrdersTypeOK
  OBVIOUS
<1>1. RowsTypeOK
  BY OrdersAssumption DEF Init, RowsInit, RowsTypeOK, Wallets
<1>2. DealsTypeOK
  BY DEF Init, DealsInit, DealsTypeOK
<1>3. BookTypeOK
  BY DEF Init, BookInit, BookTypeOK, NoFills
<1> QED
  BY <1>1, <1>2, <1>3 DEF OrdersTypeOK

LEMMA OrdersTypeNext ==
    ASSUME OrdersTypeOK, [Next]_vars
    PROVE  OrdersTypeOK'
<1>1. RowsTypeOK /\ DealsTypeOK /\ BookTypeOK /\ faults \in Nat /\ faults + 1 \in Nat
  BY DEF OrdersTypeOK, RowsTypeOK
<1>2. CASE RowNext
  <2>1. faults' \in Nat /\ DealsTypeOK' /\ BookTypeOK'
    BY <1>1, <1>2, DealsKept, BookKept DEF RowNext
  <2> QED
    BY <1>1, <1>2, <2>1, RowStepType DEF RowNext, OrdersTypeOK
<1>3. CASE FailNext
  <2>1. DealsTypeOK' /\ BookTypeOK'
    BY <1>1, <1>3, DealsKept, BookKept DEF FailNext
  <2> QED
    BY <1>1, <1>3, <2>1, FailTaskType DEF FailNext, OrdersTypeOK
<1>4. CASE LimitNext
  <2>1. DealsTypeOK' /\ faults' \in Nat
    BY <1>1, <1>4, DealsKept DEF LimitNext
  <2> QED
    BY <1>1, <1>4, <2>1, LimitStepType DEF LimitNext, OrdersTypeOK
<1>5. CASE FailLimit
  BY <1>1, <1>5, DealsKept, FailLegType DEF FailLimit, OrdersTypeOK
<1>6. CASE DealNext
  BY <1>1, <1>6, DealStepType, BookKept DEF DealNext, OrdersTypeOK
<1>7. ASSUME NEW o \in Orders, NEW t \in Tasks, StartCancel(o, t)
      PROVE  OrdersTypeOK'
  <2>1. RowsTypeOK'
    BY <1>1, <1>7, StartTaskType DEF StartCancel, Kinds
  <2>2. BookTypeOK'
    BY <1>1, <1>7 DEF StartCancel, Evict, BookTypeOK
  <2> QED
    BY <1>1, <1>7, <2>1, <2>2, DealsKept DEF StartCancel, OrdersTypeOK
<1>8. CASE BackendCrash
  BY <1>1, <1>8, ForgetType, RestoreType, DealsKept DEF BackendCrash, Fault, OrdersTypeOK
<1>9. CASE UNCHANGED vars
  <2>1. RowsTypeOK'
    BY <1>1, <1>9, RowsKept DEF vars
  <2> QED
    BY <1>1, <1>9, <2>1, DealsKept, BookKept DEF vars, OrdersTypeOK
<1> QED
  BY <1>2, <1>3, <1>4, <1>5, <1>6, <1>7, <1>8, <1>9 DEF Next

(* The rows, wallets, messages, deals and the book of goldex-backend and   *)
(* the pricing engine keep their types; in particular no queue, poll or    *)
(* resting size is counted below zero.                                     *)
THEOREM OrderTypes == Spec => []OrdersTypeOK
BY OrdersTypeInit, OrdersTypeNext, PTL DEF Spec

-----------------------------------------------------------------------------
(* While an order is placed its row is behind the ledger in a known way;   *)
(* and only an order that is placed and locked can be in the book, in a    *)
(* match or in a handler.                                                  *)


Placed(o) == placing[o] \in {"settling", "over"}

Shape ==
    /\ \A o \in Orders : placing[o] = None <=> status[o] = None
    /\ \A o \in Orders, t \in Tasks : task[o][t] # NoTask => placing[o] # None
    /\ \A o \in Market : placing[o] # "settling"
    /\ \A o \in Limit : ~Placed(o) => book[o] = 0 /\ filled[o] = 0
    /\ \A o, m \in Limit : fills[o][m] > 0 => m # o /\ Placed(m)
    /\ \A o \in Limit :
          leg[o] # NoLeg => placing[o] = "settling" /\ fills[o][leg[o].maker] > 0

(* Of an order whose legs are settled the row knows what it was given as a *)
(* maker, and not yet what it has taken.                                   *)
SettlingAgrees(o) ==
    /\ lockedBy[o] = LockOf(o) /\ freedBy[o] = 0
    /\ usedBy[o] = Cost(o, filled[o] + exec[o])
    /\ \/ status[o] = "PENDING" /\ exec[o] = 0
       \/ status[o] = "PARTIALLY_COMPLETED" /\ exec[o] \in 1..(Qty[o] - 1)
       \/ status[o] = "COMPLETED" /\ exec[o] >= Qty[o]

NothingDone(o) == exec[o] = 0 /\ Unlocked(o)

Agreement(o) ==
    Clear(o) =>
        /\ placing[o] = None => NothingDone(o)
        /\ placing[o] = "saved" => status[o] = "PENDING" /\ NothingDone(o)
        /\ placing[o] = "settling" => SettlingAgrees(o)
        /\ placing[o] \in {"frozen", "over"} => RowAgrees(o)

OrdersInv == OrdersTypeOK /\ Shape /\ \A o \in Orders : Agreement(o)

-----------------------------------------------------------------------------
(* Arithmetic of locks.                                                    *)

LEMMA Distributes == \A x, y, z \in Nat : (x + y) * z = x * z + y * z
OBVIOUS

LEMMA CostOfNothing ==
    ASSUME NEW o \in Orders
    PROVE  Cost(o, 0) = 0
BY WalletsOf DEF Cost

LEMMA CostAdds ==
    ASSUME NEW o \in Orders, NEW x \in Nat, NEW y \in Nat
    PROVE  Cost(o, x + y) = Cost(o, x) + Cost(o, y)
BY WalletsOf, Distributes DEF Cost

LEMMA RemainderIsLeft ==
    ASSUME NEW o \in Orders, NEW e \in Nat, e < Qty[o]
    PROVE  Cost(o, e) + RemainderOf(o, e) = LockOf(o)
<1>1. Qty[o] \in Nat /\ Fee[o] \in Nat
  BY WalletsOf
<1> DEFINE r == Qty[o] - e
<1>2. r \in Nat /\ Qty[o] = e + r
  BY <1>1
<1>3. RemainderOf(o, e) = Cost(o, r) + Fee[o]
  BY DEF RemainderOf
<1> HIDE DEF r
<1>4. Cost(o, Qty[o]) = Cost(o, e) + Cost(o, r)
  BY <1>2, CostAdds
<1>5. Cost(o, e) \in Nat /\ Cost(o, r) \in Nat
  BY <1>2, Amounts
<1> QED
  BY <1>1, <1>3, <1>4, <1>5 DEF LockOf

-----------------------------------------------------------------------------
(* Initially.                                                              *)

LEMMA LedgerInit == Init => OrdersInv
<1> SUFFICES ASSUME Init PROVE OrdersInv
  OBVIOUS
<1>1. OrdersTypeOK
  BY OrdersTypeInit
<1>2. Shape
  BY LimitOrder DEF Init, RowsInit, BookInit, Shape, Placed, NoFills, None, Orders
<1>3. \A o \in Orders : Agreement(o)
  BY DEF Init, RowsInit, Agreement, NothingDone, Unlocked, None
<1> QED
  BY <1>1, <1>2, <1>3 DEF OrdersInv

-----------------------------------------------------------------------------
(* Steps that leave an order as it is.                                     *)

Same(o) ==
    /\ status'[o] = status[o] /\ exec'[o] = exec[o] /\ placing'[o] = placing[o]
    /\ lockedBy'[o] = lockedBy[o] /\ usedBy'[o] = usedBy[o] /\ freedBy'[o] = freedBy[o]
    /\ blame[o] \subseteq blame'[o]
    /\ o \in Limit => filled'[o] = filled[o]

LEMMA SameAgrees ==
    ASSUME NEW o \in Orders, Shape, Agreement(o), Same(o)
    PROVE  Agreement(o)'
<1>1. placing[o] = "settling" => o \in Limit
  BY DEF Shape, Orders
<1>2. CASE ~Clear(o)
  BY <1>2 DEF Same, Agreement, Clear
<1>3. CASE Clear(o)
  <2>1. (placing[o] = None => NothingDone(o)) => (placing'[o] = None => NothingDone(o)')
    BY DEF Same, NothingDone, Unlocked
  <2>2. (placing[o] = "saved" => status[o] = "PENDING" /\ NothingDone(o))
        => (placing'[o] = "saved" => status'[o] = "PENDING" /\ NothingDone(o)')
    BY DEF Same, NothingDone, Unlocked
  <2>3. (placing[o] = "settling" => SettlingAgrees(o))
        => (placing'[o] = "settling" => SettlingAgrees(o)')
    BY <1>1 DEF Same, SettlingAgrees
  <2>4. (placing[o] \in {"frozen", "over"} => RowAgrees(o))
        => (placing'[o] \in {"frozen", "over"} => RowAgrees(o)')
    BY DEF Same, RowAgrees, Unlocked
  <2> QED
    BY <1>3, <2>1, <2>2, <2>3, <2>4 DEF Agreement
<1> QED
  BY <1>2, <1>3
LEMMA ShapeKept ==
    ASSUME Shape,
           \A x \in Limit : book'[x] = book[x] \/ book'[x] = 0,
           UNCHANGED <<fills, filled, leg>>,
           \A x \in Orders :
              \/ placing'[x] = placing[x]
              \/ ~Placed(x) /\ placing'[x] \in {"saved", "frozen", "over"},
           \A x \in Orders : placing'[x] = None <=> status'[x] = None,
           \A x \in Orders, t \in Tasks :
              task'[x][t] # NoTask => task[x][t] # NoTask \/ placing[x] # None
    PROVE  Shape'
BY LimitOrder DEF Shape, Placed, None, Orders

LEMMA AddAt ==
    ASSUME NEW S, NEW f \in [S -> Nat], NEW w \in S, NEW n \in Nat
    PROVE  /\ Add(f, w, n)[w] = f[w] + n
           /\ \A x \in S \ {w} : Add(f, w, n)[x] = f[x]
BY DEF Add

LEMMA Named ==
    ASSUME OrdersInv
    PROVE  /\ RowsTypeOK /\ DealsTypeOK /\ BookTypeOK /\ Shape
           /\ \A o \in Orders : Agreement(o)
BY DEF OrdersInv, OrdersTypeOK

-----------------------------------------------------------------------------
(* Handlers that have read a row.                                          *)

(* What a handler may rely on when nothing is wrong with what it has read. *)
LEMMA FreshTask ==
    ASSUME OrdersInv, NEW o \in Orders, NEW t \in Tasks, task[o][t] \in Reads,
           Has(o, t, Kinds), Clear(o), Outdated(o, t) = {}
    PROVE  /\ status[o] = task[o][t].status /\ status[o] \in Open
           /\ exec[o] = task[o][t].exec
           /\ placing[o] \in {"frozen", "over"}
           /\ RowAgrees(o)
<1>1. /\ status[o] = task[o][t].status /\ exec[o] = task[o][t].exec
      /\ placing[o] \notin {"saved", "settling"}
  BY DEF Outdated
<1>2. task[o][t].status \in Open
  BY DEF Reads
<1>3. task[o][t] # NoTask
  BY DEF Has, Kinds, NoTask, None
<1>4. placing[o] # None
  BY <1>3, Named DEF Shape
<1>5. placing[o] \in {"frozen", "over"}
  BY <1>1, <1>4, Named DEF RowsTypeOK
<1> QED
  BY <1>1, <1>2, <1>5, Named DEF Agreement

(* Saving what a handler has read changes no other row.                    *)
LEMMA SaveTaskRows ==
    ASSUME OrdersInv, NEW o \in Orders, NEW t \in Tasks, task[o][t] \in Reads,
           NEW s \in Statuses, NEW e \in Nat, NEW causes,
           SaveTask(o, t, s, e, causes)
    PROVE  /\ status'[o] = s /\ exec'[o] = e
           /\ blame'[o] = blame[o] \cup causes \cup Outdated(o, t)
           /\ \A x \in Orders \ {o} :
                 status'[x] = status[x] /\ exec'[x] = exec[x] /\ blame'[x] = blame[x]
BY Named DEF SaveTask, RowsTypeOK

(* A handler that ends takes no part in the shape of things.               *)
LEMMA TaskEndsShape ==
    ASSUME OrdersInv, NEW o \in Orders, NEW t \in Tasks, EndTask(o, t),
           Has(o, t, Kinds),
           status'[o] \in Statuses \/ status'[o] = status[o],
           \A x \in Orders \ {o} : status'[x] = status[x],
           UNCHANGED <<placing, limitVars>>
    PROVE  Shape'
<1>1. \A x \in Orders, y \in Tasks : task'[x][y] # NoTask => task[x][y] # NoTask
  BY Named DEF EndTask, RowsTypeOK
<1>2. placing[o] # None
  BY Named DEF Shape, Has, Kinds, NoTask, None
<1>3. None \notin Statuses
  BY DEF None, Statuses, Open, Terminal
<1>4. \A x \in Orders : placing'[x] = None <=> status'[x] = None
  BY <1>2, <1>3, Named DEF Shape
<1> QED
  BY <1>1, <1>4, Named, ShapeKept DEF limitVars

LEMMA ReleaseKeeps ==
    ASSUME OrdersInv, NEW o \in Orders, NEW t \in Tasks, NEW s \in {"CANCELLED", "REJECTED"},
           Has(o, t, Kinds), Release(o, t, s), UNCHANGED limitVars
    PROVE  Shape' /\ \A x \in Orders : Agreement(x)'
<1>1. task[o][t] \in Reads /\ task[o][t].exec \in Nat
  <2>1. task[o][t] \in Reads
    BY SomeTask, Named, Kinds \in SUBSET Kinds
  <2> QED
    BY <2>1 DEF Reads
<1>2. /\ SaveTask(o, t, s, task[o][t].exec, {}) /\ EndTask(o, t)
      /\ freedBy' = Add(freedBy, o, RemainderOf(o, task[o][t].exec))
      /\ UNCHANGED <<placing, lockedBy, usedBy>>
  BY DEF Release, Unlock
<1>3. s \in Statuses
  BY DEF Statuses, Terminal
<1>4. /\ status'[o] = s /\ exec'[o] = task[o][t].exec
      /\ blame'[o] = blame[o] \cup Outdated(o, t)
      /\ \A x \in Orders \ {o} :
            status'[x] = status[x] /\ exec'[x] = exec[x] /\ blame'[x] = blame[x]
  BY <1>1, <1>2, <1>3, SaveTaskRows
<1>5. Shape'
  BY <1>2, <1>3, <1>4, TaskEndsShape
<1>6. RemainderOf(o, task[o][t].exec) \in Nat /\ freedBy \in [Orders -> Nat]
  BY <1>1, RemainderAmount, Named DEF RowsTypeOK
<1>7. /\ freedBy'[o] = freedBy[o] + RemainderOf(o, task[o][t].exec)
      /\ \A x \in Orders \ {o} : freedBy'[x] = freedBy[x]
  BY <1>2, <1>6, AddAt
<1>8. \A x \in Orders \ {o} : Agreement(x)'
  <2> TAKE x \in Orders \ {o}
  <2>1. Same(x)
    BY <1>2, <1>4, <1>7 DEF Same, limitVars
  <2> QED
    BY <2>1, Named, SameAgrees
<1>9. Agreement(o)'
  <2> SUFFICES ASSUME Clear(o)' PROVE Agreement(o)'
    BY DEF Agreement
  <2>1. Clear(o) /\ Outdated(o, t) = {}
    BY <1>4 DEF Clear
  <2>2. /\ status[o] \in Open /\ exec[o] = task[o][t].exec /\ RowAgrees(o)
        /\ placing[o] \in {"frozen", "over"}
    BY <1>1, <2>1, FreshTask
  <2>3. /\ lockedBy[o] = LockOf(o) /\ usedBy[o] = Cost(o, exec[o]) /\ freedBy[o] = 0
        /\ exec[o] < Qty[o]
    BY <2>2 DEF RowAgrees, Open
  <2>4. Cost(o, exec[o]) + RemainderOf(o, exec[o]) = LockOf(o)
    BY <1>1, <2>2, <2>3, RemainderIsLeft
  <2>5. freedBy'[o] = RemainderOf(o, exec[o]) /\ exec'[o] = exec[o]
    BY <1>4, <1>6, <1>7, <2>2, <2>3
  <2>6. RowAgrees(o)'
    BY <1>2, <1>4, <2>3, <2>4, <2>5 DEF RowAgrees
  <2> QED
    BY <1>2, <2>2, <2>6 DEF Agreement, None
<1> QED
  BY <1>5, <1>8, <1>9
(* Completing an order spends its lock, with the commission or with blame. *)
LEMMA CompleteKeeps ==
    ASSUME OrdersInv, NEW o \in Market, NEW t \in Tasks, Has(o, t, Kinds),
           NEW n \in Nat, NEW causes,
           n = LockOf(o) \/ (n = Cost(o, Qty[o]) /\ (Fee[o] > 0 => causes # {})),
           SaveTask(o, t, "COMPLETED", Qty[o], causes), EndTask(o, t),
           usedBy' = Add(usedBy, o, n),
           UNCHANGED <<placing, lockedBy, freedBy, limitVars>>
    PROVE  Shape' /\ \A x \in Orders : Agreement(x)'
<1>1. o \in Orders /\ Qty[o] \in Nat /\ Fee[o] \in Nat
  BY WalletsOf DEF Orders
<1>2. task[o][t] \in Reads
  BY <1>1, SomeTask, Named, Kinds \in SUBSET Kinds
<1>3. "COMPLETED" \in Statuses
  BY DEF Statuses, Terminal
<1>4. /\ status'[o] = "COMPLETED" /\ exec'[o] = Qty[o]
      /\ blame'[o] = blame[o] \cup causes \cup Outdated(o, t)
      /\ \A x \in Orders \ {o} :
            status'[x] = status[x] /\ exec'[x] = exec[x] /\ blame'[x] = blame[x]
  BY <1>1, <1>2, <1>3, SaveTaskRows
<1>5. Shape'
  BY <1>1, <1>3, <1>4, TaskEndsShape
<1>6. usedBy \in [Orders -> Nat]
  BY Named DEF RowsTypeOK
<1>7. usedBy'[o] = usedBy[o] + n /\ \A x \in Orders \ {o} : usedBy'[x] = usedBy[x]
  BY <1>1, <1>6, AddAt
<1>8. \A x \in Orders \ {o} : Agreement(x)'
  <2> TAKE x \in Orders \ {o}
  <2>1. Same(x)
    BY <1>4, <1>7 DEF Same, limitVars
  <2> QED
    BY <2>1, Named, SameAgrees
<1>9. Agreement(o)'
  <2> SUFFICES ASSUME Clear(o)' PROVE Agreement(o)'
    BY DEF Agreement
  <2>1. Clear(o) /\ Outdated(o, t) = {} /\ causes = {}
    BY <1>4 DEF Clear
  <2>2. status[o] \in Open /\ RowAgrees(o) /\ placing[o] \in {"frozen", "over"}
    BY <1>1, <1>2, <2>1, FreshTask
  <2>3. lockedBy[o] = LockOf(o) /\ usedBy[o] = Cost(o, 0) /\ freedBy[o] = 0
    BY <2>2 DEF RowAgrees, Open
  <2>4. usedBy[o] = 0
    BY <1>1, <2>3, CostOfNothing
  <2>5. Cost(o, Qty[o]) \in Nat
    BY <1>1, Amounts
  <2>6. n = Cost(o, Qty[o]) + Fee[o]
    BY <1>1, <2>1, <2>5 DEF LockOf
  <2>7. usedBy'[o] = Cost(o, Qty[o]) + Fee[o]
    BY <1>7, <2>4, <2>6
  <2>8. RowAgrees(o)'
    BY <1>1, <1>4, <2>3, <2>7 DEF RowAgrees
  <2> QED
    BY <2>2, <2>8 DEF Agreement, None
<1> QED
  BY <1>5, <1>8, <1>9

LEMMA ConfirmKeeps ==
    ASSUME OrdersInv, NEW o \in Market, NEW t \in Tasks, Confirm(o, t), UNCHANGED limitVars
    PROVE  Shape' /\ \A x \in Orders : Agreement(x)'
<1>1. LockOf(o) \in Nat /\ Has(o, t, Kinds)
  BY LockAmount DEF Confirm, Has, Kinds, Answers, Orders
<1>2. PICK n \in Nat, causes \in SUBSET Causes :
         /\ n = LockOf(o)
         /\ SaveTask(o, t, "COMPLETED", Qty[o], causes) /\ EndTask(o, t)
         /\ usedBy' = Add(usedBy, o, n)
         /\ UNCHANGED <<placing, lockedBy, freedBy>>
  <2>1. {} \in SUBSET Causes
    OBVIOUS
  <2> QED
    BY <1>1, <2>1 DEF Confirm
<1>3. UNCHANGED <<placing, lockedBy, freedBy, limitVars>>
  BY <1>2
<1>4. n = LockOf(o) \/ (n = Cost(o, Qty[o]) /\ (Fee[o] > 0 => causes # {}))
  BY <1>2
<1>5. /\ SaveTask(o, t, "COMPLETED", Qty[o], causes) /\ EndTask(o, t)
      /\ usedBy' = Add(usedBy, o, n)
  BY <1>2
<1> QED
  BY <1>1, <1>3, <1>4, <1>5, CompleteKeeps

LEMMA FinishMatchKeeps ==
    ASSUME OrdersInv, NEW o \in Market, NEW t \in Tasks, FinishMatch(o, t), UNCHANGED limitVars
    PROVE  Shape' /\ \A x \in Orders : Agreement(x)'
<1>1. Cost(o, Qty[o]) \in Nat /\ Has(o, t, Kinds)
  BY Amounts, WalletsOf DEF FinishMatch, Has, Kinds, Orders
<1>2. PICK n \in Nat, causes \in SUBSET Causes :
         /\ n = Cost(o, Qty[o]) /\ (Fee[o] > 0 => causes # {})
         /\ SaveTask(o, t, "COMPLETED", Qty[o], causes) /\ EndTask(o, t)
         /\ usedBy' = Add(usedBy, o, n)
         /\ UNCHANGED <<placing, lockedBy, freedBy>>
  <2> DEFINE C == IF Fee[o] > 0 THEN {"fee"} ELSE {}
  <2>1. /\ SaveTask(o, t, "COMPLETED", Qty[o], C) /\ EndTask(o, t)
        /\ usedBy' = Add(usedBy, o, Cost(o, Qty[o]))
        /\ UNCHANGED <<placing, lockedBy, freedBy>>
    BY DEF FinishMatch
  <2>2. C \in SUBSET Causes /\ (Fee[o] > 0 => C # {})
    BY DEF Causes
  <2> HIDE DEF C
  <2> QED
    BY <1>1, <2>1, <2>2
<1>3. UNCHANGED <<placing, lockedBy, freedBy, limitVars>>
  BY <1>2
<1> QED
  BY <1>1, <1>2, <1>3, CompleteKeeps

(* A link saves the row as it was read; that is the row, or blame.         *)
LEMMA LinkKeeps ==
    ASSUME OrdersInv, NEW o \in Market, NEW t \in Tasks, Link(o, t), UNCHANGED limitVars
    PROVE  Shape' /\ \A x \in Orders : Agreement(x)'
<1>1. o \in Orders /\ Has(o, t, Kinds)
  BY DEF Link, Has, Kinds, Answers, Orders
<1>2. task[o][t] \in Reads
  BY <1>1, SomeTask, Named, Kinds \in SUBSET Kinds
<1>3. /\ status'[o] = task[o][t].status /\ exec'[o] = task[o][t].exec
      /\ blame'[o] = blame[o] \cup Outdated(o, t)
      /\ \A x \in Orders \ {o} :
            status'[x] = status[x] /\ exec'[x] = exec[x] /\ blame'[x] = blame[x]
      /\ UNCHANGED <<placing, lockedBy, usedBy, freedBy>>
  BY <1>1, Named DEF Link, RowsTypeOK, walletVars
<1>4. task[o][t] # NoTask /\ placing[o] # None
  BY <1>1, Named DEF Has, Kinds, NoTask, None, Shape
<1>5. task[o][t].status # None
  BY <1>2 DEF Reads, Open, None
<1>6. Shape'
  <2>1. \A x \in Orders, y \in Tasks :
           task'[x][y] # NoTask => task[x][y] # NoTask \/ placing[x] # None
    BY <1>4, Named DEF Link, RowsTypeOK
  <2>2. \A x \in Orders : placing'[x] = None <=> status'[x] = None
    BY <1>3, <1>4, <1>5, Named DEF Shape
  <2> QED
    BY <1>3, <2>1, <2>2, Named, ShapeKept DEF limitVars
<1>7. \A x \in Orders : Agreement(x)'
  <2> TAKE x \in Orders
  <2>1. CASE x = o /\ Clear(o)'
    <3>1. Clear(o) /\ Outdated(o, t) = {}
      BY <1>3, <2>1 DEF Clear
    <3>2. status[o] = task[o][t].status /\ exec[o] = task[o][t].exec
      BY <1>1, <1>2, <3>1, FreshTask
    <3>3. Same(o)
      BY <1>3, <3>2 DEF Same, limitVars
    <3> QED
      BY <1>1, <2>1, <3>3, Named, SameAgrees
  <2>2. CASE x = o /\ ~Clear(o)'
    BY <2>2 DEF Agreement
  <2>3. CASE x # o
    <3>1. Same(x)
      BY <1>3, <2>3 DEF Same, limitVars
    <3> QED
      BY <3>1, Named, SameAgrees
  <2> QED
    BY <2>1, <2>2, <2>3
<1> QED
  BY <1>6, <1>7

(* Steps after which every row, wallet and placement is as it was.         *)
LEMMA QuietKeeps ==
    ASSUME OrdersInv,
           UNCHANGED <<status, exec, placing, walletVars, fills, filled, leg>>,
           \A x \in Orders : blame[x] \subseteq blame'[x],
           \A x \in Limit : book'[x] = book[x] \/ book'[x] = 0,
           \A x \in Orders, t \in Tasks :
              task'[x][t] # NoTask => task[x][t] # NoTask \/ status[x] \in Open
    PROVE  Shape' /\ \A x \in Orders : Agreement(x)'
<1>1. \A x \in Orders : status[x] \in Open => placing[x] # None
  BY Named DEF Shape, Open, None
<1>2. Shape'
  BY <1>1, Named, ShapeKept DEF Shape
<1>3. \A x \in Orders : Same(x)
  BY DEF Same, walletVars
<1> QED
  BY <1>2, <1>3, Named, SameAgrees

LEMMA StartTaskKeeps ==
    ASSUME OrdersInv, NEW o \in Orders, NEW t, NEW kind, StartTask(o, t, kind),
           UNCHANGED <<fills, filled, leg>>,
           \A x \in Limit : book'[x] = book[x] \/ book'[x] = 0
    PROVE  Shape' /\ \A x \in Orders : Agreement(x)'
<1>1. \A x \in Orders, y \in Tasks :
         task'[x][y] # NoTask => task[x][y] # NoTask \/ status[x] \in Open
  <2>1. \A x \in Orders : x # o => task'[x] = task[x]
    BY Named DEF StartTask, RowsTypeOK
  <2> QED
    BY <2>1 DEF StartTask
<1>2. UNCHANGED <<status, exec, placing, walletVars, blame>>
  BY DEF StartTask, rowVars
<1> QED
  BY <1>1, <1>2, QuietKeeps

LEMMA TaskGivesUpKeeps ==
    ASSUME OrdersInv, NEW o \in Orders, NEW t \in Tasks, EndTask(o, t),
           UNCHANGED <<rowVars, placing, walletVars, limitVars>>,
           \A x \in Orders : blame[x] \subseteq blame'[x]
    PROVE  Shape' /\ \A x \in Orders : Agreement(x)'
<1>1. \A x \in Orders, y \in Tasks : task'[x][y] # NoTask => task[x][y] # NoTask
  BY Named DEF EndTask, RowsTypeOK
<1> QED
  BY <1>1, QuietKeeps DEF rowVars, limitVars

-----------------------------------------------------------------------------
(* createOrder, until the order is sent on or matched.                     *)

LEMMA PlacingMoves ==
    ASSUME OrdersInv, NEW o \in Orders, NEW p \in {"saved", "frozen", "over"},
           ~Placed(o), placing' = [placing EXCEPT ![o] = p], status'[o] # None,
           \A x \in Orders \ {o} :
              /\ status'[x] = status[x] /\ exec'[x] = exec[x] /\ blame'[x] = blame[x]
              /\ lockedBy'[x] = lockedBy[x],
           UNCHANGED <<task, usedBy, freedBy, limitVars>>,
           Agreement(o)'
    PROVE  Shape' /\ \A x \in Orders : Agreement(x)'
<1>1. placing'[o] = p /\ \A x \in Orders \ {o} : placing'[x] = placing[x]
  BY Named DEF RowsTypeOK
<1>2. \A x \in Orders : placing'[x] = None <=> status'[x] = None
  BY <1>1, Named DEF Shape, None
<1>3. Shape'
  BY <1>1, <1>2, Named, ShapeKept DEF limitVars
<1>4. \A x \in Orders \ {o} : Agreement(x)'
  <2> TAKE x \in Orders \ {o}
  <2>1. Same(x)
    BY <1>1 DEF Same, limitVars
  <2> QED
    BY <2>1, Named, SameAgrees
<1> QED
  BY <1>3, <1>4

LEMMA CreateKeeps ==
    ASSUME OrdersInv, NEW o \in Orders, Create(o), UNCHANGED limitVars
    PROVE  Shape' /\ \A x \in Orders : Agreement(x)'
<1>1. placing[o] = None /\ ~Placed(o)
  BY Named DEF Create, Shape, Placed, None
<1>2. /\ status'[o] = "PENDING" /\ placing'[o] = "saved"
      /\ \A x \in Orders \ {o} : status'[x] = status[x]
  BY Named DEF Create, RowsTypeOK
<1>3. Agreement(o)'
  BY <1>1, <1>2, Named
     DEF Create, Agreement, Clear, NothingDone, Unlocked, walletVars, None
<1> QED
  BY <1>1, <1>2, <1>3, PlacingMoves DEF Create, walletVars, None

LEMMA FreezeKeeps ==
    ASSUME OrdersInv, NEW o \in Orders, Freeze(o), UNCHANGED limitVars
    PROVE  Shape' /\ \A x \in Orders : Agreement(x)'
<1>1. placing[o] = "saved" /\ ~Placed(o)
  BY DEF Freeze, Placed
<1>2. LockOf(o) \in Nat /\ lockedBy \in [Orders -> Nat]
  BY LockAmount, Named DEF RowsTypeOK
<1>3. /\ placing'[o] = "frozen" /\ lockedBy'[o] = lockedBy[o] + LockOf(o)
      /\ \A x \in Orders \ {o} : lockedBy'[x] = lockedBy[x]
  <2>1. lockedBy' = Add(lockedBy, o, LockOf(o))
    BY DEF Freeze
  <2>2. placing'[o] = "frozen"
    BY Named DEF Freeze, RowsTypeOK
  <2> QED
    BY <1>2, <2>1, <2>2, AddAt
<1>4. UNCHANGED <<status, exec, task, usedBy, freedBy, blame>>
  BY DEF Freeze, rowVars
<1>5. status[o] # None
  BY <1>1, Named DEF Shape, None
<1>6. Agreement(o)'
  <2> SUFFICES ASSUME Clear(o)' PROVE RowAgrees(o)'
    BY <1>3 DEF Agreement, None
  <2>1. status[o] = "PENDING" /\ exec[o] = 0 /\ Unlocked(o)
    BY <1>1, <1>4, Named DEF Agreement, Clear, NothingDone
  <2>2. lockedBy'[o] = LockOf(o) /\ usedBy'[o] = Cost(o, 0) /\ freedBy'[o] = 0
    BY <1>2, <1>3, <1>4, <2>1, CostOfNothing DEF Unlocked
  <2>3. 0 < Qty[o]
    BY OrdersAssumption
  <2> QED
    BY <1>4, <2>1, <2>2, <2>3 DEF RowAgrees, Open
<1> QED
  BY <1>1, <1>3, <1>4, <1>5, <1>6, PlacingMoves DEF Freeze

LEMMA SaveCreatedRows ==
    ASSUME OrdersInv, NEW o \in Orders, NEW s, NEW e, NEW causes,
           SaveCreated(o, s, e, causes)
    PROVE  /\ status'[o] = s /\ exec'[o] = e
           /\ blame[o] \cup causes \subseteq blame'[o]
           /\ Clear(o)' => status[o] = "PENDING" /\ exec[o] = 0
           /\ \A x \in Orders \ {o} :
                 status'[x] = status[x] /\ exec'[x] = exec[x] /\ blame'[x] = blame[x]
BY Named DEF SaveCreated, RowsTypeOK, Clear

LEMMA RefuseFreezeKeeps ==
    ASSUME OrdersInv, NEW o \in Orders, RefuseFreeze(o), UNCHANGED limitVars
    PROVE  Shape' /\ \A x \in Orders : Agreement(x)'
<1>1. placing[o] = "saved" /\ ~Placed(o)
  BY DEF RefuseFreeze, Placed
<1>2. /\ status'[o] = "REJECTED" /\ exec'[o] = 0 /\ blame[o] \subseteq blame'[o]
      /\ \A x \in Orders \ {o} :
            status'[x] = status[x] /\ exec'[x] = exec[x] /\ blame'[x] = blame[x]
  BY SaveCreatedRows DEF RefuseFreeze
<1>3. placing'[o] = "over"
  BY Named DEF RefuseFreeze, RowsTypeOK
<1>4. Agreement(o)'
  <2> SUFFICES ASSUME Clear(o)' PROVE RowAgrees(o)'
    BY <1>3 DEF Agreement, None
  <2>1. Unlocked(o)
    BY <1>1, <1>2, Named DEF Agreement, Clear, NothingDone
  <2> QED
    BY <1>2, <2>1 DEF RefuseFreeze, walletVars, RowAgrees, Unlocked
<1> QED
  BY <1>1, <1>2, <1>4, PlacingMoves DEF RefuseFreeze, walletVars, None

LEMMA RefuseLinkKeeps ==
    ASSUME OrdersInv, NEW o \in Orders, RefuseLink(o), UNCHANGED limitVars
    PROVE  Shape' /\ \A x \in Orders : Agreement(x)'
<1>1. placing[o] = "frozen" /\ ~Placed(o)
  BY DEF RefuseLink, Placed
<1>2. /\ status'[o] = "REJECTED" /\ "halfway" \in blame'[o]
      /\ \A x \in Orders \ {o} :
            status'[x] = status[x] /\ exec'[x] = exec[x] /\ blame'[x] = blame[x]
  BY SaveCreatedRows DEF RefuseLink
<1>3. Agreement(o)'
  BY <1>2 DEF Agreement, Clear
<1> QED
  BY <1>1, <1>2, <1>3, PlacingMoves DEF RefuseLink, walletVars, None

LEMMA RowStepKeeps ==
    ASSUME OrdersInv, NEW o \in Orders, RowStep(o), UNCHANGED limitVars
    PROVE  Shape' /\ \A x \in Orders : Agreement(x)'
<1>1. ASSUME NEW t \in Tasks, FinishCancel(o, t)
      PROVE  Shape' /\ \A x \in Orders : Agreement(x)'
  <2>1. Has(o, t, Kinds) /\ Release(o, t, "CANCELLED")
    BY <1>1 DEF FinishCancel, Has, Kinds
  <2> QED
    BY <2>1, ReleaseKeeps
<1> QED
  BY <1>1, CreateKeeps, FreezeKeeps, RefuseFreezeKeeps, RefuseLinkKeeps DEF RowStep

-----------------------------------------------------------------------------
(* Steps of orders that are settled with a provider.                       *)

LEMMA DispatchKeeps ==
    ASSUME OrdersInv, NEW o \in Market, Dispatch(o), UNCHANGED limitVars
    PROVE  Shape' /\ \A x \in Orders : Agreement(x)'
<1>1. o \in Orders /\ placing[o] = "frozen" /\ ~Placed(o)
  BY DEF Dispatch, Placed, Orders
<1>2. /\ placing' = [placing EXCEPT ![o] = "over"]
      /\ UNCHANGED <<status, exec, task, lockedBy, usedBy, freedBy, blame>>
  BY DEF Dispatch, rowVars, walletVars
<1>3. placing'[o] = "over"
  BY <1>1, <1>2, Named DEF RowsTypeOK
<1>4. RowAgrees(o) => RowAgrees(o)'
  BY <1>2 DEF RowAgrees, Unlocked
<1>5. Agreement(o)'
  BY <1>1, <1>2, <1>3, <1>4, Named DEF Agreement, Clear, None
<1>6. status'[o] # None
  BY <1>1, <1>2, Named DEF Shape, None
<1> QED
  BY <1>1, <1>2, <1>5, <1>6, PlacingMoves

(* The engine and the queues touch neither rows nor wallets.               *)
LEMMA NothingKeeps ==
    ASSUME OrdersInv, UNCHANGED <<orderVars, limitVars>>
    PROVE  Shape' /\ \A x \in Orders : Agreement(x)'
BY QuietKeeps DEF orderVars, rowVars, limitVars

LEMMA OnPlacedKeeps ==
    ASSUME OrdersInv, NEW o \in Market, OnPlaced(o), UNCHANGED limitVars
    PROVE  Shape' /\ \A x \in Orders : Agreement(x)'
<1>1. UNCHANGED <<status, exec, placing, walletVars, fills, filled, leg, book, task, blame>>
  BY DEF OnPlaced, limitVars
<1> QED
  BY <1>1, QuietKeeps

LEMMA OnStatusKeeps ==
    ASSUME OrdersInv, NEW o \in Market, NEW t \in Tasks, NEW answer,
           OnStatus(o, t, answer), UNCHANGED limitVars
    PROVE  Shape' /\ \A x \in Orders : Agreement(x)'
<1>1. CASE StartTask(o, t, answer)
  BY <1>1, StartTaskKeeps DEF limitVars, Orders
<1>2. CASE UNCHANGED orderVars
  BY <1>2, NothingKeeps
<1> QED
  BY <1>1, <1>2 DEF OnStatus

LEMMA DealStepKeeps ==
    ASSUME OrdersInv, DealStep, UNCHANGED limitVars
    PROVE  Shape' /\ \A x \in Orders : Agreement(x)'
<1>1. CASE EngineCrash
  BY <1>1, NothingKeeps DEF EngineCrash
<1>2. ASSUME NEW o \in Market, NEW m \in Messages, Lose(o, m)
      PROVE  Shape' /\ \A x \in Orders : Agreement(x)'
  BY <1>2, NothingKeeps DEF Lose
<1>3. ASSUME NEW o \in Market, EngineStep(o)
      PROVE  Shape' /\ \A x \in Orders : Agreement(x)'
  <2>1. UNCHANGED orderVars
    BY <1>3 DEF EngineStep, OnPlace, Accepted, Refused, Answer, Poll, Report,
                FetchDeals, OnQuery
  <2> QED
    BY <2>1, NothingKeeps
<1>4. ASSUME NEW o \in Market, SettleStep(o)
      PROVE  Shape' /\ \A x \in Orders : Agreement(x)'
  <2>1. o \in Orders
    BY DEF Orders
  <2>2. CASE Dispatch(o)
    BY <2>2, DispatchKeeps
  <2>3. CASE OnPlaced(o)
    BY <2>3, OnPlacedKeeps
  <2>4. CASE AskAgain(o)
    BY <2>4, NothingKeeps DEF AskAgain
  <2>5. ASSUME NEW t \in Tasks, NEW answer, OnStatus(o, t, answer)
        PROVE  Shape' /\ \A x \in Orders : Agreement(x)'
    BY <2>5, OnStatusKeeps
  <2>6. ASSUME NEW t \in Tasks, Link(o, t)
        PROVE  Shape' /\ \A x \in Orders : Agreement(x)'
    BY <2>6, LinkKeeps
  <2>7. ASSUME NEW t \in Tasks, Confirm(o, t)
        PROVE  Shape' /\ \A x \in Orders : Agreement(x)'
    BY <2>7, ConfirmKeeps
  <2>8. ASSUME NEW t \in Tasks, Reject(o, t)
        PROVE  Shape' /\ \A x \in Orders : Agreement(x)'
    <3>1. Has(o, t, Kinds) /\ Release(o, t, "REJECTED")
      BY <2>8 DEF Reject, Has, Kinds
    <3> QED
      BY <2>1, <3>1, ReleaseKeeps
  <2>9. ASSUME NEW t \in Tasks, StartMatch(o, t)
        PROVE  Shape' /\ \A x \in Orders : Agreement(x)'
    BY <2>1, <2>9, StartTaskKeeps DEF StartMatch, limitVars
  <2>10. ASSUME NEW t \in Tasks, FinishMatch(o, t)
         PROVE  Shape' /\ \A x \in Orders : Agreement(x)'
    BY <2>10, FinishMatchKeeps
  <2>11. ASSUME NEW t \in Tasks, RefuseMatch(o, t)
         PROVE  Shape' /\ \A x \in Orders : Agreement(x)'
    BY <2>1, <2>11, TaskGivesUpKeeps DEF RefuseMatch
  <2> QED
    BY <1>4, <2>2, <2>3, <2>4, <2>5, <2>6, <2>7, <2>8, <2>9, <2>10, <2>11
       DEF SettleStep
<1> QED
  BY <1>1, <1>2, <1>3, <1>4 DEF DealStep

LEMMA FailTaskKeeps ==
    ASSUME OrdersInv, NEW o \in Orders, NEW t \in Tasks, FailTask(o, t), UNCHANGED limitVars
    PROVE  Shape' /\ \A x \in Orders : Agreement(x)'
<1>1. \A x \in Orders : blame[x] \subseteq blame'[x]
  BY Named DEF FailTask, RowsTypeOK
<1> QED
  BY <1>1, TaskGivesUpKeeps DEF FailTask

LEMMA StartCancelKeeps ==
    ASSUME OrdersInv, NEW o \in Orders, NEW t \in Tasks, StartCancel(o, t)
    PROVE  Shape' /\ \A x \in Orders : Agreement(x)'
<1>1. \A x \in Limit : book'[x] = book[x] \/ book'[x] = 0
  BY Named DEF StartCancel, Evict, BookTypeOK
<1> QED
  BY <1>1, StartTaskKeeps DEF StartCancel

-----------------------------------------------------------------------------
(* Steps of the limit book.                                                *)

LEMMA MatchBookKeeps ==
    ASSUME OrdersInv, NEW o \in Limit, MatchBook(o)
    PROVE  Shape' /\ \A x \in Orders : Agreement(x)'
<1>1. o \in Orders /\ placing[o] = "frozen" /\ ~Placed(o)
  BY DEF MatchBook, Placed, Orders
<1>2. PICK f \in [Limit -> Nat] :
         /\ \A m \in Limit : f[m] > 0 => book[m] > 0 /\ m # o
         /\ \A m \in Limit : f[m] <= book[m]
         /\ fills' = [fills EXCEPT ![o] = f]
         /\ \A m \in Limit \ {o} : book'[m] = book[m] - f[m]
  <2>1. PICK f \in Matches(o) :
           /\ fills' = [fills EXCEPT ![o] = f]
           /\ book' = [m \in Limit |-> IF m = o THEN Qty[o] - Size(f)
                                                ELSE book[m] - f[m]]
    BY DEF MatchBook
  <2>2. /\ f \in [Limit -> 0..Qty[o]]
        /\ \A m \in Limit : f[m] <= book[m] /\ (f[m] > 0 => m \in Crossing(o))
    BY Named, MatchesShape
  <2>3. f \in [Limit -> Nat]
    BY <1>1, <2>2, WalletsOf
  <2>4. \A m \in Crossing(o) : book[m] > 0 /\ m # o
    BY DEF Crossing
  <2>5. \A m \in Limit \ {o} : book'[m] = book[m] - f[m]
    BY <2>1
  <2> QED
    BY <2>1, <2>2, <2>3, <2>4, <2>5
<1>3. /\ placing' = [placing EXCEPT ![o] = "settling"]
      /\ UNCHANGED <<status, exec, task, lockedBy, usedBy, freedBy, filled, leg>>
  BY DEF MatchBook, rowVars, walletVars
<1>4. placing'[o] = "settling" /\ \A x \in Orders \ {o} : placing'[x] = placing[x]
  BY <1>1, <1>3, Named DEF RowsTypeOK
<1>5. fills'[o] = f /\ \A x \in Limit \ {o} : fills'[x] = fills[x]
  BY <1>2, Named DEF BookTypeOK
<1>6. /\ \A x \in Orders : blame[x] \subseteq blame'[x]
      /\ Clear(o)' => status[o] = "PENDING"
  BY <1>1, Named DEF MatchBook, RowsTypeOK, Clear
<1>7. Shape'
  <2>1. \A x \in Orders : placing'[x] = None <=> status'[x] = None
    BY <1>1, <1>3, <1>4, Named DEF Shape, None
  <2>2. \A x \in Orders, t \in Tasks : task'[x][t] # NoTask => placing'[x] # None
    BY <1>3, <1>4, Named DEF Shape, None
  <2>3. \A x \in Market : placing'[x] # "settling"
    BY <1>4, Named, LimitOrder, OrdersAssumption DEF Shape, Orders
  <2>4. \A x \in Limit : ~Placed(x)' => book'[x] = 0 /\ filled'[x] = 0
    <3> SUFFICES ASSUME NEW x \in Limit, ~Placed(x)' PROVE book'[x] = 0 /\ filled'[x] = 0
      OBVIOUS
    <3>1. x # o /\ ~Placed(x)
      BY <1>4, LimitOrder DEF Placed
    <3>2. book[x] = 0 /\ filled[x] = 0 /\ f[x] \in Nat /\ f[x] <= book[x]
      BY <1>2, <3>1, Named DEF Shape
    <3> QED
      BY <1>2, <1>3, <3>1, <3>2
  <2>5. \A x, m \in Limit : fills'[x][m] > 0 => m # x /\ Placed(m)'
    <3> SUFFICES ASSUME NEW x \in Limit, NEW m \in Limit, fills'[x][m] > 0
                 PROVE  m # x /\ Placed(m)'
      OBVIOUS
    <3>1. m # x /\ Placed(m)
      <4>1. CASE x = o
        BY <1>2, <1>5, <4>1, Named DEF Shape, BookTypeOK
      <4>2. CASE x # o
        BY <1>5, <4>2, Named DEF Shape
      <4> QED
        BY <4>1, <4>2
    <3> QED
      BY <1>4, <3>1, LimitOrder DEF Placed
  <2>6. \A x \in Limit :
           leg'[x] # NoLeg => placing'[x] = "settling" /\ fills'[x][leg'[x].maker] > 0
    BY <1>1, <1>3, <1>4, <1>5, Named, LimitOrder DEF Shape
  <2> QED
    BY <2>1, <2>2, <2>3, <2>4, <2>5, <2>6 DEF Shape
<1>8. Agreement(o)'
  <2> SUFFICES ASSUME Clear(o)' PROVE SettlingAgrees(o)'
    BY <1>4 DEF Agreement, None
  <2>1. Clear(o) /\ status[o] = "PENDING" /\ RowAgrees(o)
    BY <1>1, <1>6, Named DEF Agreement, Clear
  <2>2. /\ lockedBy[o] = LockOf(o) /\ freedBy[o] = 0 /\ exec[o] = 0
        /\ usedBy[o] = Cost(o, exec[o])
    BY <2>1 DEF RowAgrees
  <2>3. filled[o] = 0
    BY <1>1, Named DEF Shape
  <2>4. filled'[o] + exec'[o] = 0
    BY <1>3, <2>2, <2>3
  <2> QED
    BY <1>3, <2>1, <2>2, <2>4 DEF SettlingAgrees
<1>9. \A x \in Orders \ {o} : Agreement(x)'
  <2> TAKE x \in Orders \ {o}
  <2>1. Same(x)
    BY <1>3, <1>4, <1>6 DEF Same
  <2> QED
    BY <2>1, Named, SameAgrees
<1> QED
  BY <1>7, <1>8, <1>9

LEMMA ReadMakerKeeps ==
    ASSUME OrdersInv, NEW o \in Limit, NEW m \in Limit, ReadMaker(o, m)
    PROVE  Shape' /\ \A x \in Orders : Agreement(x)'
<1>1. UNCHANGED <<status, exec, placing, task, lockedBy, usedBy, freedBy, blame,
                  book, fills, filled>>
  BY DEF ReadMaker, orderVars, rowVars, walletVars
<1>2. leg'[o].maker = m /\ \A x \in Limit \ {o} : leg'[x] = leg[x]
  BY Named DEF ReadMaker, BookTypeOK
<1>3. placing[o] = "settling" /\ fills[o][m] > 0
  BY DEF ReadMaker
<1>4. Shape'
  <2>1. \A x \in Limit :
           leg'[x] # NoLeg => placing'[x] = "settling" /\ fills'[x][leg'[x].maker] > 0
    BY <1>1, <1>2, <1>3, Named DEF Shape
  <2> QED
    BY <1>1, <2>1, Named DEF Shape, Placed
<1>5. \A x \in Orders : Same(x)
  BY <1>1 DEF Same
<1> QED
  BY <1>4, <1>5, Named, SameAgrees

LEMMA FailLegKeeps ==
    ASSUME OrdersInv, NEW o \in Limit, FailLeg(o)
    PROVE  Shape' /\ \A x \in Orders : Agreement(x)'
<1>1. o \in Orders /\ placing[o] = "settling"
  BY DEF FailLeg, Orders
<1>2. /\ status'[o] = "REJECTED" /\ placing'[o] = "over"
      /\ \A x \in Orders \ {o} :
            status'[x] = status[x] /\ exec'[x] = exec[x] /\ placing'[x] = placing[x]
  BY <1>1, Named DEF FailLeg, RowsTypeOK
<1>3. /\ \A x \in Orders : blame[x] \subseteq blame'[x]
      /\ "halfway" \in blame'[o]
  BY <1>1 DEF FailLeg
<1>4. UNCHANGED <<task, lockedBy, usedBy, freedBy, book, filled>>
  BY DEF FailLeg, walletVars
<1>5. /\ fills'[o] = NoFills /\ leg'[o] = NoLeg
      /\ \A x \in Limit \ {o} : fills'[x] = fills[x] /\ leg'[x] = leg[x]
  BY Named DEF FailLeg, BookTypeOK
<1>6. Shape'
  <2>1. \A x \in Limit, m \in Limit : fills'[x][m] > 0 => m # x /\ Placed(m)'
    BY <1>2, <1>5, Named, LimitOrder DEF Shape, NoFills, Placed
  <2>2. \A x \in Limit :
           leg'[x] # NoLeg => placing'[x] = "settling" /\ fills'[x][leg'[x].maker] > 0
    BY <1>2, <1>5, Named, LimitOrder DEF Shape
  <2>3. \A x \in Limit : ~Placed(x)' => book'[x] = 0 /\ filled'[x] = 0
    BY <1>2, <1>4, Named, LimitOrder DEF Shape, Placed
  <2>4. \A x \in Orders : placing'[x] = None <=> status'[x] = None
    BY <1>1, <1>2, Named DEF Shape, None
  <2>5. /\ \A x \in Orders, t \in Tasks : task'[x][t] # NoTask => placing'[x] # None
        /\ \A x \in Market : placing'[x] # "settling"
    BY <1>1, <1>2, <1>4, Named DEF Shape, None, Orders
  <2> QED
    BY <2>1, <2>2, <2>3, <2>4, <2>5 DEF Shape
<1>7. Agreement(o)'
  BY <1>3 DEF Agreement, Clear
<1>8. \A x \in Orders \ {o} : Agreement(x)'
  <2> TAKE x \in Orders \ {o}
  <2>1. Same(x)
    BY <1>2, <1>3, <1>4 DEF Same
  <2> QED
    BY <2>1, Named, SameAgrees
<1> QED
  BY <1>6, <1>7, <1>8

LEMMA FinishLimitKeeps ==
    ASSUME OrdersInv, NEW o \in Limit, FinishLimit(o)
    PROVE  Shape' /\ \A x \in Orders : Agreement(x)'
<1>1. /\ o \in Orders /\ placing[o] = "settling" /\ fills[o] = NoFills
      /\ Qty[o] \in Nat /\ Fee[o] = 0 /\ filled[o] \in Nat
  BY LimitOrder, Named DEF FinishLimit, BookTypeOK
<1>2. /\ placing'[o] = "over" /\ \A x \in Orders \ {o} : placing'[x] = placing[x]
      /\ UNCHANGED <<task, lockedBy, usedBy, freedBy, book, fills, filled, leg>>
  BY <1>1, Named DEF FinishLimit, RowsTypeOK, walletVars, limitVars
<1> DEFINE Result == IF filled[o] >= Qty[o] THEN "COMPLETED" ELSE "PARTIALLY_COMPLETED"
<1>3. /\ filled[o] > 0 =>
            /\ status'[o] = Result /\ exec'[o] = filled[o]
            /\ Clear(o)' => status[o] = "PENDING" /\ exec[o] = 0
      /\ filled[o] = 0 => status'[o] = status[o] /\ exec'[o] = exec[o]
      /\ blame[o] \subseteq blame'[o]
      /\ \A x \in Orders \ {o} :
            status'[x] = status[x] /\ exec'[x] = exec[x] /\ blame'[x] = blame[x]
  <2>1. CASE filled[o] > 0
    <3>1. SaveCreated(o, Result, filled[o], {})
      BY <2>1 DEF FinishLimit
    <3> QED
      BY <1>1, <2>1, <3>1, SaveCreatedRows
  <2>2. CASE filled[o] = 0
    BY <1>1, <2>2 DEF FinishLimit, rowVars
  <2> QED
    BY <1>1, <2>1, <2>2
<1>4. Shape'
  <2>1. status'[o] # None
    BY <1>1, <1>3, Named DEF Shape, None
  <2>2. \A x \in Orders : placing'[x] = None <=> status'[x] = None
    BY <1>1, <1>2, <1>3, <2>1, Named DEF Shape, None
  <2>3. leg[o] = NoLeg
    <3> SUFFICES ASSUME leg[o] # NoLeg PROVE FALSE
      OBVIOUS
    <3>1. leg[o].maker \in Limit /\ fills[o][leg[o].maker] > 0
      BY Named DEF Shape, BookTypeOK, Legs
    <3> QED
      BY <1>1, <3>1 DEF NoFills
  <2>4. \A x \in Limit :
           leg'[x] # NoLeg => placing'[x] = "settling" /\ fills'[x][leg'[x].maker] > 0
    BY <1>2, <2>3, Named, LimitOrder DEF Shape
  <2>5. \A x \in Orders : Placed(x) <=> Placed(x)'
    BY <1>1, <1>2 DEF Placed
  <2>6. /\ \A x \in Limit : ~Placed(x)' => book'[x] = 0 /\ filled'[x] = 0
        /\ \A x, m \in Limit : fills'[x][m] > 0 => m # x /\ Placed(m)'
    BY <1>2, <2>5, Named, LimitOrder DEF Shape
  <2>7. /\ \A x \in Orders, t \in Tasks : task'[x][t] # NoTask => placing'[x] # None
        /\ \A x \in Market : placing'[x] # "settling"
    BY <1>1, <1>2, Named DEF Shape, None, Orders
  <2> QED
    BY <2>2, <2>4, <2>6, <2>7 DEF Shape
<1>5. Agreement(o)'
  <2> SUFFICES ASSUME Clear(o)' PROVE RowAgrees(o)'
    BY <1>2 DEF Agreement, None
  <2>1. SettlingAgrees(o)
    BY <1>1, <1>3, Named DEF Agreement, Clear
  <2>2. exec[o] \in Nat
    BY <1>1, Named DEF RowsTypeOK
  <2>3. lockedBy'[o] = LockOf(o) /\ freedBy'[o] = 0 /\ o \notin Market
    BY <1>2, <2>1, OrdersAssumption DEF SettlingAgrees
  <2>4. CASE filled[o] > 0
    <3>1. exec[o] = 0 /\ filled[o] + exec[o] = filled[o]
      BY <1>1, <1>3, <2>4
    <3>2. usedBy'[o] = Cost(o, exec'[o]) /\ exec'[o] = filled[o] /\ status'[o] = Result
      BY <1>2, <1>3, <2>1, <2>4, <3>1 DEF SettlingAgrees
    <3>3. Cost(o, exec'[o]) \in Nat
      BY <1>1, <3>2, Amounts
    <3>4. CASE filled[o] >= Qty[o]
      BY <1>1, <2>3, <3>2, <3>3, <3>4 DEF RowAgrees
    <3>5. CASE filled[o] < Qty[o]
      BY <1>1, <2>3, <2>4, <3>2, <3>5 DEF RowAgrees, Open
    <3> QED
      BY <1>1, <3>4, <3>5
  <2>5. CASE filled[o] = 0
    <3>1. status'[o] = status[o] /\ exec'[o] = exec[o] /\ filled[o] + exec[o] = exec[o]
      BY <1>3, <2>2, <2>5
    <3>2. usedBy'[o] = Cost(o, exec[o]) /\ Cost(o, exec[o]) \in Nat
      BY <1>1, <1>2, <2>1, <2>2, <3>1, Amounts DEF SettlingAgrees
    <3>3. \/ status[o] = "PENDING" /\ exec[o] = 0
          \/ status[o] = "PARTIALLY_COMPLETED" /\ exec[o] \in 1..(Qty[o] - 1)
          \/ status[o] = "COMPLETED" /\ exec[o] >= Qty[o]
      BY <2>1 DEF SettlingAgrees
    <3>4. 0 < Qty[o]
      BY <1>1, OrdersAssumption
    <3> HIDE DEF Result
    <3> QED
      BY <1>1, <2>2, <2>3, <3>1, <3>2, <3>3, <3>4 DEF RowAgrees, Open
  <2> QED
    BY <1>1, <2>4, <2>5
<1>6. \A x \in Orders \ {o} : Agreement(x)'
  <2> TAKE x \in Orders \ {o}
  <2>1. Same(x)
    BY <1>2, <1>3 DEF Same
  <2> QED
    BY <2>1, Named, SameAgrees
<1> QED
  BY <1>4, <1>5, <1>6

(* A leg is added to what the taker has filled and to the maker's row.     *)
LEMMA SettleLegKeeps ==
    ASSUME OrdersInv, NEW o \in Limit, SettleLeg(o)
    PROVE  Shape' /\ \A x \in Orders : Agreement(x)'
<1>0. PICK m \in Limit, q \in Nat, e \in Nat :
         m = leg[o].maker /\ q = fills[o][m] /\ e = leg[o].exec + q
  <2>1. leg[o] \in Legs
    BY Named DEF SettleLeg, BookTypeOK
  <2>2. leg[o].maker \in Limit /\ leg[o].exec \in Nat
    BY <2>1 DEF Legs
  <2>3. fills[o][leg[o].maker] \in Nat
    BY <2>2, Named DEF BookTypeOK
  <2>4. leg[o].exec + fills[o][leg[o].maker] \in Nat
    BY <2>2, <2>3
  <2> QED
    BY <2>2, <2>3, <2>4
<1>1. /\ q > 0 /\ m # o /\ Placed(m)
      /\ leg[o].exec \in Nat /\ leg[o] # NoLeg /\ placing[o] = "settling"
  <2>1. leg[o] \in Legs /\ leg[o] # NoLeg
    BY Named DEF SettleLeg, BookTypeOK
  <2>2. placing[o] = "settling" /\ q > 0
    BY <1>0, <2>1, Named DEF Shape
  <2> QED
    BY <1>0, <2>1, <2>2, Named DEF Shape, Legs
<1>2. /\ m \in Orders /\ o \in Orders /\ Qty[m] \in Nat /\ Fee[m] = 0 /\ e \in Nat
      /\ filled[o] \in Nat /\ filled[m] \in Nat /\ exec[o] \in Nat /\ exec[m] \in Nat
      /\ usedBy \in [Orders -> Nat]
  <2>1. m \in Orders /\ o \in Orders /\ Qty[m] \in Nat /\ Fee[m] = 0 /\ e \in Nat
    BY LimitOrder
  <2> QED
    BY <1>1, <2>1, Named DEF RowsTypeOK, BookTypeOK
<1>3. Cost(o, q) \in Nat /\ Cost(m, q) \in Nat
  BY <1>1, <1>2, Amounts
<1>4. /\ usedBy' = Add(Add(usedBy, o, Cost(o, q)), m, Cost(m, q))
      /\ UNCHANGED <<placing, task, lockedBy, freedBy, book>>
  BY <1>0 DEF SettleLeg
<1>5. /\ exec'[m] = e
      /\ status'[m] = IF e >= Qty[m] THEN "COMPLETED" ELSE "PARTIALLY_COMPLETED"
      /\ \A x \in Orders \ {m} : exec'[x] = exec[x] /\ status'[x] = status[x]
  BY <1>0, <1>2, Named DEF SettleLeg, RowsTypeOK
<1>6. /\ blame'[m] = blame[m] \cup StaleMaker(o)
      /\ \A x \in Orders \ {m} : blame'[x] = blame[x]
  BY <1>0, <1>2, Named DEF SettleLeg, RowsTypeOK
<1>7. /\ fills'[o][m] = 0 /\ leg'[o] = NoLeg
      /\ \A x \in Limit \ {m} : fills'[o][x] = fills[o][x]
      /\ \A x \in Limit \ {o} : fills'[x] = fills[x] /\ leg'[x] = leg[x]
  <2>1. leg'[o] = NoLeg /\ \A x \in Limit \ {o} : leg'[x] = leg[x]
    BY Named DEF SettleLeg, BookTypeOK
  <2>2. fills' = [fills EXCEPT ![o][m] = 0]
    BY <1>0 DEF SettleLeg
  <2>3. fills \in [Limit -> [Limit -> Nat]]
    BY Named DEF BookTypeOK
  <2> QED
    BY <1>1, <2>1, <2>2, <2>3
<1>8. filled'[o] = filled[o] + q /\ \A x \in Limit \ {o} : filled'[x] = filled[x]
  <2>1. filled' = [filled EXCEPT ![o] = @ + q]
    BY <1>0 DEF SettleLeg
  <2> QED
    BY <2>1, Named DEF BookTypeOK
<1>9. /\ usedBy'[o] = usedBy[o] + Cost(o, q) /\ usedBy'[m] = usedBy[m] + Cost(m, q)
      /\ \A x \in Orders \ {o, m} : usedBy'[x] = usedBy[x]
  <2> DEFINE g == Add(usedBy, o, Cost(o, q))
  <2>1. g \in [Orders -> Nat]
    BY <1>2, <1>3, AddNat
  <2>2. g[o] = usedBy[o] + Cost(o, q) /\ \A x \in Orders \ {o} : g[x] = usedBy[x]
    BY <1>2, <1>3, AddAt
  <2> HIDE DEF g
  <2>3. Add(g, m, Cost(m, q))[m] = g[m] + Cost(m, q)
        /\ \A x \in Orders \ {m} : Add(g, m, Cost(m, q))[x] = g[x]
    BY <1>2, <1>3, <2>1, AddAt
  <2>4. usedBy' = Add(g, m, Cost(m, q))
    BY <1>4 DEF g
  <2> QED
    BY <1>1, <1>2, <2>2, <2>3, <2>4
<1>10. Shape'
  <2>1. placing[m] # None
    BY <1>1 DEF Placed, None
  <2>2. \A x \in Orders : placing'[x] = None <=> status'[x] = None
    BY <1>2, <1>4, <1>5, <2>1, Named DEF Shape, None
  <2>3. \A x \in Limit : ~Placed(x)' => book'[x] = 0 /\ filled'[x] = 0
    BY <1>1, <1>4, <1>8, Named DEF Shape, Placed
  <2>4. \A x, y \in Limit : fills'[x][y] > 0 => fills[x][y] > 0
    BY <1>7
  <2>5. \A x, y \in Limit : fills'[x][y] > 0 => y # x /\ Placed(y)'
    BY <1>4, <2>4, Named DEF Shape, Placed
  <2>6. \A x \in Limit :
           leg'[x] # NoLeg => placing'[x] = "settling" /\ fills'[x][leg'[x].maker] > 0
    BY <1>4, <1>7, Named DEF Shape
  <2> QED
    BY <1>4, <2>2, <2>3, <2>5, <2>6, Named DEF Shape
<1>11. Agreement(o)'
  <2> SUFFICES ASSUME Clear(o)' PROVE SettlingAgrees(o)'
    BY <1>1, <1>4 DEF Agreement, None
  <2>1. SettlingAgrees(o)
    BY <1>1, <1>2, <1>6, Named DEF Agreement, Clear
  <2>2. exec'[o] = exec[o] /\ status'[o] = status[o]
    BY <1>1, <1>2, <1>5
  <2>3. usedBy'[o] = Cost(o, (filled[o] + exec[o]) + q)
    <3>1. filled[o] + exec[o] \in Nat
      BY <1>2
    <3> QED
      BY <1>1, <1>2, <1>9, <2>1, <3>1, CostAdds DEF SettlingAgrees
  <2>4. filled'[o] + exec'[o] = (filled[o] + exec[o]) + q
    BY <1>1, <1>2, <1>8, <2>2
  <2> QED
    BY <1>4, <2>1, <2>2, <2>3, <2>4 DEF SettlingAgrees
<1>12. Agreement(m)'
  <2> SUFFICES ASSUME Clear(m)' PROVE Agreement(m)'
    BY DEF Agreement
  <2>1. Clear(m) /\ StaleMaker(o) = {}
    BY <1>6 DEF Clear
  <2>2. status[m] \in Open /\ exec[m] = leg[o].exec
    BY <1>0, <2>1 DEF StaleMaker
  <2>3. e = exec[m] + q
    BY <1>0, <2>2
  <2>4. Cost(m, e) = Cost(m, exec[m]) + Cost(m, q) /\ Cost(m, e) \in Nat
    BY <1>1, <1>2, <2>3, CostAdds, Amounts
  <2>5. m \notin Market
    BY <1>1, OrdersAssumption
  <2>6. CASE placing[m] = "over"
    <3>1. RowAgrees(m)
      BY <1>2, <2>1, <2>6, Named DEF Agreement
    <3>2. lockedBy'[m] = LockOf(m) /\ freedBy'[m] = 0 /\ usedBy'[m] = Cost(m, e)
      BY <1>1, <1>2, <1>4, <1>9, <2>2, <2>4, <3>1 DEF RowAgrees, Open
    <3>3. e > 0
      BY <1>1, <1>2, <2>3
    <3>4. RowAgrees(m)'
      <4>1. CASE e >= Qty[m]
        BY <1>2, <1>5, <2>4, <3>2, <4>1 DEF RowAgrees
      <4>2. CASE e < Qty[m]
        BY <1>2, <1>5, <2>5, <3>2, <3>3, <4>2 DEF RowAgrees, Open
      <4> QED
        BY <1>2, <4>1, <4>2
    <3> QED
      BY <1>4, <2>6, <3>4 DEF Agreement, None
  <2>7. CASE placing[m] = "settling"
    <3>1. SettlingAgrees(m)
      BY <1>2, <2>1, <2>7, Named DEF Agreement
    <3>2. usedBy'[m] = Cost(m, (filled[m] + exec[m]) + q)
      <4>1. filled[m] + exec[m] \in Nat
        BY <1>2
      <4> QED
        BY <1>1, <1>2, <1>9, <3>1, <4>1, CostAdds DEF SettlingAgrees
    <3>3. filled'[m] + exec'[m] = (filled[m] + exec[m]) + q
      BY <1>1, <1>2, <1>5, <1>8, <2>3
    <3>4. \/ status'[m] = "PARTIALLY_COMPLETED" /\ exec'[m] \in 1..(Qty[m] - 1)
          \/ status'[m] = "COMPLETED" /\ exec'[m] >= Qty[m]
      BY <1>1, <1>2, <1>5, <2>3
    <3>5. SettlingAgrees(m)'
      BY <1>4, <3>1, <3>2, <3>3, <3>4 DEF SettlingAgrees
    <3> QED
      BY <1>4, <2>7, <3>5 DEF Agreement, None
  <2> QED
    BY <1>1, <2>6, <2>7 DEF Placed
<1>13. \A x \in Orders \ {o, m} : Agreement(x)'
  <2> TAKE x \in Orders \ {o, m}
  <2>1. Same(x)
    BY <1>4, <1>5, <1>6, <1>8, <1>9 DEF Same
  <2> QED
    BY <2>1, Named, SameAgrees
<1> QED
  BY <1>10, <1>11, <1>12, <1>13

LEMMA LimitStepKeeps ==
    ASSUME OrdersInv, NEW o \in Limit, LimitStep(o)
    PROVE  Shape' /\ \A x \in Orders : Agreement(x)'
BY SettleLegKeeps, ReadMakerKeeps, FinishLimitKeeps, MatchBookKeeps DEF LimitStep

-----------------------------------------------------------------------------
(* A restart of goldex-backend.                                            *)

LEMMA CrashKeeps ==
    ASSUME OrdersInv, BackendCrash
    PROVE  Shape' /\ \A x \in Orders : Agreement(x)'
<1>1. /\ \A x \in Orders, t \in Tasks : task'[x][t] = NoTask
      /\ \A x \in Orders : placing'[x] = IF placing[x] = None THEN None ELSE "over"
      /\ \A x \in Orders : blame[x] \subseteq blame'[x]
      /\ \A x \in Orders : placing[x] \in {"saved", "settling"} => "halfway" \in blame'[x]
      /\ UNCHANGED <<status, exec, lockedBy, usedBy, freedBy>>
  BY DEF BackendCrash, ForgetRequests, rowVars, walletVars
<1>2. /\ \A x \in Limit : status[x] = None => book'[x] = 0
      /\ \A x \in Limit : filled'[x] = 0 /\ leg'[x] = NoLeg
      /\ \A x, m \in Limit : fills'[x][m] = 0
  BY DEF BackendCrash, RestoreBook, NoFills, Open, None
<1>3. Shape'
  BY <1>1, <1>2, Named, LimitOrder DEF Shape, Placed, None, Orders
<1>4. ASSUME NEW x \in Orders, Clear(x)'
      PROVE  Agreement(x)'
  <2>1. Clear(x) /\ Agreement(x) /\ placing[x] \in {None, "frozen", "over"}
    BY <1>1, <1>4, Named DEF Clear, RowsTypeOK
  <2>2. CASE placing[x] = None
    BY <1>1, <2>1, <2>2 DEF Agreement, NothingDone, Unlocked, None
  <2>3. CASE placing[x] # None
    <3>1. RowAgrees(x)
      BY <2>1, <2>3 DEF Agreement
    <3>2. RowAgrees(x)'
      BY <1>1, <3>1 DEF RowAgrees, Unlocked
    <3> QED
      BY <1>1, <2>3, <3>2 DEF Agreement, None
  <2> QED
    BY <2>2, <2>3
<1> QED
  BY <1>3, <1>4 DEF Agreement

-----------------------------------------------------------------------------
(* Together.                                                               *)

LEMMA LedgerNext ==
    ASSUME OrdersInv, [Next]_vars
    PROVE  OrdersInv'
<1>1. OrdersTypeOK'
  BY OrdersTypeNext DEF OrdersInv
<1>2. Shape' /\ \A x \in Orders : Agreement(x)'
  <2>1. CASE RowNext
    BY <2>1, RowStepKeeps DEF RowNext
  <2>2. CASE FailNext
    BY <2>2, FailTaskKeeps DEF FailNext
  <2>3. CASE LimitNext
    BY <2>3, LimitStepKeeps DEF LimitNext
  <2>4. CASE FailLimit
    BY <2>4, FailLegKeeps DEF FailLimit
  <2>5. CASE DealNext
    BY <2>5, DealStepKeeps DEF DealNext
  <2>6. CASE \E o \in Orders, t \in Tasks : StartCancel(o, t)
    BY <2>6, StartCancelKeeps
  <2>7. CASE BackendCrash
    BY <2>7, CrashKeeps
  <2>8. CASE UNCHANGED vars
    BY <2>8, NothingKeeps DEF vars
  <2> QED
    BY <2>1, <2>2, <2>3, <2>4, <2>5, <2>6, <2>7, <2>8 DEF Next
<1> QED
  BY <1>1, <1>2 DEF OrdersInv

LEMMA LedgerIsRow == OrdersInv => RowTellsLedger
BY DEF OrdersInv, Agreement, RowTellsLedger

(* However cancels, answers, matches, legs, refusals and restarts of       *)
(* goldex-backend and the pricing engine interleave, and for every set of  *)
(* orders, prices and amounts: the row of an order that met none of the    *)
(* causes tells exactly what was locked, spent and given back for it.      *)
THEOREM RowsTellLedger == Spec => []RowTellsLedger
<1>1. Spec => []OrdersInv
  BY LedgerInit, LedgerNext, PTL DEF Spec
<1> QED
  BY <1>1, LedgerIsRow, PTL
=============================================================================
