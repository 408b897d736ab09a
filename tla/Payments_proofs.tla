--------------------------- MODULE Payments_proofs ---------------------------
(***************************************************************************)
(* What is proved of the payments for every number of rows, payments,      *)
(* faults and running tasks.                                               *)
(***************************************************************************)
EXTENDS PaymentPromises, SumTheorems, TLAPS

USE DEF None, Open, Terminal, RowStates, PayStates

-----------------------------------------------------------------------------
(* Types.                                                                  *)

LEMMA TypeInit == Init => TypeOK
BY PaymentsAssumption DEF Init, TypeOK

LEMMA MsgType ==
    ASSUME NEW kind \in Commands \cup Callbacks \cup Events, NEW r \in Rows,
           NEW n \in 0..MaxCopies
    PROVE  Msg(kind, r, n) \in Messages
BY DEF Msg, Messages

(* A consumer's queue stays a set of messages, its counter a number.       *)
LEMMA TakeType ==
    ASSUME TypeOK, NEW m, NEW new \in SUBSET Messages, Take(m, new)
    PROVE  /\ bus' \subseteq Messages
           /\ bus' \subseteq bus \cup new
           /\ lost' \in Nat
           /\ repeated' \in Nat
BY DEF TypeOK, Take

(* Every copy of a payment may be named in a message.                      *)
LEMMA CopiesAreNamed == Copies \subseteq 0..MaxCopies /\ 0 \in 0..MaxCopies
BY PaymentsAssumption DEF Copies

(* One entry of a table of tables is replaced.                             *)
LEMMA NestedEntry ==
    ASSUME NEW S, NEW T, NEW V, NEW f \in [S -> [T -> V]], NEW x \in S, NEW y, NEW v \in V
    PROVE  [f EXCEPT ![x][y] = v] \in [S -> [T -> V]]
OBVIOUS

(* A counter in a table of tables goes down.                               *)
LEMMA NestedCount ==
    ASSUME NEW S, NEW T, NEW f \in [S -> [T -> Nat]], NEW x \in S, NEW y \in T, f[x][y] > 0
    PROVE  [f EXCEPT ![x][y] = @ - 1] \in [S -> [T -> Nat]]
<1>1. f[x][y] - 1 \in Nat
  BY f[x][y] \in Nat
<1> QED
  BY <1>1

LEMMA PayEntry ==
    ASSUME TypeOK, NEW r \in Rows, NEW n, NEW v \in PayStates
    PROVE  [pay EXCEPT ![r][n] = v] \in [Rows -> [Copies -> PayStates \cup {None}]]
<1>1. pay \in [Rows -> [Copies -> PayStates \cup {None}]] /\ v \in PayStates \cup {None}
  BY DEF TypeOK
<1> HIDE DEF PayStates, None
<1> QED
  BY <1>1, NestedEntry

LEMMA TaskEntry ==
    ASSUME TypeOK, NEW r \in Rows, NEW t, NEW v \in Open \cup {None}
    PROVE  [task EXCEPT ![r][t] = v] \in [Rows -> [Tasks -> Open \cup {None}]]
<1>1. task \in [Rows -> [Tasks -> Open \cup {None}]]
  BY DEF TypeOK
<1> HIDE DEF Open, None
<1> QED
  BY <1>1, NestedEntry

LEMMA WalletType ==
    ASSUME TypeOK, NEW r \in Rows, BookWallet(r)
    PROVE  wallet' \in [Users -> Int]
<1>1. Owner[r] \in Users /\ Amount[r] \in Nat /\ wallet \in [Users -> Int]
  BY PaymentsAssumption DEF TypeOK
<1>2. wallet[Owner[r]] + Amount[r] \in Int /\ wallet[Owner[r]] - Amount[r] \in Int
  BY <1>1
<1> QED
  BY <1>1, <1>2 DEF BookWallet

LEMMA BackendTypes ==
    ASSUME TypeOK, NEW r \in Rows, BackendStep(r)
    PROVE  TypeOK'
<1> USE DEF TypeOK, vars, backendVars, cbpVars, askVars, faultVars
<1>1. CASE Create(r)
  <2>1. Msg("request", r, 0) \in Messages
    BY MsgType, CopiesAreNamed DEF Commands
  <2> QED
    BY <1>1, <2>1 DEF Create, Send
<1>2. CASE ApproveGatewayWithdraw(r)
  <2>1. Msg("approve", r, 0) \in Messages
    BY MsgType, CopiesAreNamed DEF Commands
  <2> QED
    BY <1>2, <2>1 DEF ApproveGatewayWithdraw, Send
<1>3. ASSUME NEW name, row[r] \in Open, StartHumanTask(r, name)
      PROVE  TypeOK'
  BY <1>3 DEF StartHumanTask, StartTask
<1>4. CASE StartCancel(r) \/ StartSet(r) \/ \E a \in Admins : StartComplete(r, a)
  BY <1>3, <1>4 DEF StartCancel, StartSet, StartComplete
<1>5. ASSUME NEW t, NEW s \in RowStates, Save(r, t, s),
             pages' \in [Rows -> SUBSET Copies], wallet' \in [Users -> Int],
             byAdmin' \in [Rows -> Nat],
             UNCHANGED <<byEvent, cbpVars, moved, bus, askVars, faultVars>>
      PROVE  TypeOK'
  <2>1. task' \in [Rows -> [Tasks -> Open \cup {None}]]
    <3>1. task' = [task EXCEPT ![r][t] = None]
      BY <1>5 DEF Save, EndTask
    <3> QED
      BY <3>1
  <2>2. row' \in [Rows -> RowStates \cup {None}] /\ stale' \in [Rows -> Nat]
    BY <1>5 DEF Save
  <2> QED
    BY <1>5, <2>1, <2>2
<1>6. CASE FinishCancel(r)
  BY <1>5, <1>6 DEF FinishCancel
<1>7. CASE FinishSet(r)
  BY <1>5, <1>7 DEF FinishSet
<1>8. ASSUME NEW a \in Admins, FinishComplete(r, a)
      PROVE  TypeOK'
  <2>1. wallet' \in [Users -> Int] /\ byAdmin' \in [Rows -> Nat]
    BY <1>8, WalletType DEF FinishComplete
  <2> QED
    BY <1>5, <1>8, <2>1 DEF FinishComplete
<1>9. ASSUME NEW a \in Admins, RefuseComplete(r, a)
      PROVE  TypeOK'
  BY <1>9 DEF RefuseComplete, EndTask
<1>10. ASSUME NEW n \in Copies, OnSucceeded(r, n)
       PROVE  TypeOK'
  <2>1. bus' \subseteq Messages /\ lost' \in Nat /\ repeated' \in Nat
    BY <1>10, TakeType DEF OnSucceeded
  <2>2. CASE IsOpen(r) /\ CanBook(r)
    <3>1. BookWallet(r) /\ byEvent' = [byEvent EXCEPT ![r] = @ + 1]
      BY <1>10, <2>2 DEF OnSucceeded
    <3>2. wallet' \in [Users -> Int] /\ byEvent' \in [Rows -> Nat]
      BY <3>1, WalletType
    <3> QED
      BY <1>10, <2>1, <2>2, <3>2 DEF OnSucceeded
  <2>3. CASE ~(IsOpen(r) /\ CanBook(r))
    BY <1>10, <2>1, <2>3 DEF OnSucceeded
  <2> QED
    BY <2>2, <2>3
<1>11. ASSUME NEW n \in Copies, NEW kind \in Events \ {"succeeded"}, OnEvent(r, n, kind)
       PROVE  TypeOK'
  <2>1. bus' \subseteq Messages /\ lost' \in Nat /\ repeated' \in Nat
    BY <1>11, TakeType DEF OnEvent
  <2>2. ~Ignores(r, kind) => row[r] \in Open \cup {None}
    BY DEF Ignores, IsOpen
  <2>3. task' \in [Rows -> [Tasks -> Open \cup {None}]]
    <3>1. task' = task \/ task' = [task EXCEPT ![r][<<kind, n>>] = row[r]]
      BY <1>11 DEF OnEvent, StartTask
    <3>2. task' = task \/ row[r] \in Open \cup {None}
      BY <1>11, <2>2 DEF OnEvent
    <3>3. CASE row[r] \in Open \cup {None}
      <4>1. [task EXCEPT ![r][<<kind, n>>] = row[r]] \in [Rows -> [Tasks -> Open \cup {None}]]
        BY <3>3, TaskEntry
      <4> QED
        BY <3>1, <4>1
    <3> QED
      BY <3>2, <3>3
  <2> QED
    BY <1>11, <2>1, <2>3 DEF OnEvent, StartTask
<1>12. ASSUME NEW n \in Copies, NEW kind \in Events \ {"succeeded"}, SaveEvent(r, n, kind)
       PROVE  TypeOK'
  <2>1. StatusOf(kind) \in RowStates
    BY DEF StatusOf, Events
  <2>2. pages' \in [Rows -> SUBSET Copies]
    BY <1>12 DEF SaveEvent
  <2> QED
    BY <1>5, <1>12, <2>1, <2>2 DEF SaveEvent
<1> QED
  BY <1>1, <1>2, <1>4, <1>6, <1>7, <1>8, <1>9, <1>10, <1>11, <1>12 DEF BackendStep

LEMMA CbpTypes ==
    ASSUME TypeOK, NEW r \in Rows, CbpStep(r)
    PROVE  TypeOK'
<1> USE DEF TypeOK, backendVars, cbpVars, askVars, faultVars
<1>1. \A n \in Copies : \A kind \in Events \cup Callbacks : Msg(kind, r, n) \in Messages
  BY MsgType, CopiesAreNamed
<1>2. CASE RefuseRequest(r)
  <2>1. PICK n \in NextCopy(r) : /\ pay' = [pay EXCEPT ![r][n] = "FAILED"]
                                 /\ Take(Msg("request", r, 0), {Msg("failed", r, n)})
    BY <1>2 DEF RefuseRequest
  <2>2. n \in Copies
    BY DEF NextCopy
  <2>3. bus' \subseteq Messages /\ lost' \in Nat /\ repeated' \in Nat
    BY <1>1, <2>1, <2>2, TakeType DEF Events
  <2> QED
    BY <1>2, <2>1, <2>2, <2>3 DEF RefuseRequest
<1>3. CASE StartCharge(r)
  BY <1>3, TakeType DEF StartCharge
<1>4. CASE FinishCharge(r)
  <2>1. PICK n \in NextCopy(r), answered \in BOOLEAN :
            /\ pay' = [pay EXCEPT ![r][n] = IF answered THEN "PROCESSING" ELSE "FAILED"]
            /\ Send({Msg(IF answered THEN "processing" ELSE "failed", r, n)})
    BY <1>4 DEF FinishCharge
  <2>2. n \in Copies
    BY DEF NextCopy
  <2>3. pay' \in [Rows -> [Copies -> PayStates \cup {None}]]
    <3>1. PICK v : v = IF answered THEN "PROCESSING" ELSE "FAILED"
      OBVIOUS
    <3>2. v \in PayStates \cup {None} /\ pay' = [pay EXCEPT ![r][n] = v]
      BY <2>1, <3>1 DEF PayStates
    <3>3. pay \in [Rows -> [Copies -> PayStates \cup {None}]] /\ r \in Rows
      OBVIOUS
    <3> QED
      BY ONLY <3>2, <3>3, NestedEntry
  <2>4. bus' \subseteq Messages
    BY <1>1, <2>1, <2>2 DEF Send, Events
  <2> QED
    BY <1>4, <2>3, <2>4 DEF FinishCharge
<1>5. CASE KeepWithdraw(r)
  <2>1. PICK n \in NextCopy(r) : pay' = [pay EXCEPT ![r][n] = "PENDING"]
    BY <1>5 DEF KeepWithdraw
  <2>2. n \in Copies
    BY DEF NextCopy
  <2>3. pay' \in [Rows -> [Copies -> PayStates \cup {None}]]
    <3>1. "PENDING" \in PayStates \cup {None}
      BY DEF PayStates
    <3>2. pay \in [Rows -> [Copies -> PayStates \cup {None}]] /\ r \in Rows
      OBVIOUS
    <3> QED
      BY ONLY <2>1, <3>1, <3>2, NestedEntry
  <2> QED
    BY <1>5, <2>3, TakeType DEF KeepWithdraw
<1>6. CASE OnApprove(r)
  BY <1>6, TakeType DEF OnApprove
<1>7. CASE DropApprove(r)
  BY <1>7, TakeType DEF DropApprove
<1>8. ASSUME NEW n \in Copies, FinishTransfer(r, n)
      PROVE  TypeOK'
  <2>1. PICK sent \in {0, 1}, answered \in BOOLEAN :
            /\ moved' = [moved EXCEPT ![r][n] = @ + sent]
            /\ pay' = [pay EXCEPT ![r][n] = IF answered THEN "PROCESSING" ELSE "FAILED"]
            /\ Send({Msg(IF answered THEN "processing" ELSE "failed", r, n)})
    BY <1>8 DEF FinishTransfer
  <2> QED
    BY <1>1, <1>8, <2>1 DEF FinishTransfer, Send, Events
<1>9. ASSUME NEW n \in Copies, OnUnpaid(r, n)
      PROVE  TypeOK'
  <2>1. bus' \subseteq Messages /\ lost' \in Nat /\ repeated' \in Nat
    BY <1>1, <1>9, TakeType DEF OnUnpaid, Events
  <2>2. pay' \in [Rows -> [Copies -> PayStates \cup {None}]]
    <3>1. pay' = pay \/ pay' = [pay EXCEPT ![r][n] = "REJECTED"]
      BY <1>9 DEF OnUnpaid
    <3>2. [pay EXCEPT ![r][n] = "REJECTED"] \in [Rows -> [Copies -> PayStates \cup {None}]]
      BY PayEntry, "REJECTED" \in PayStates
    <3> QED
      BY <3>1, <3>2
  <2> QED
    BY <1>9, <2>1, <2>2 DEF OnUnpaid
<1>10. ASSUME NEW n \in Copies, OnPaid(r, n)
       PROVE  TypeOK'
  BY <1>10, TakeType DEF OnPaid
<1>11. ASSUME NEW n \in Copies, FinishVerify(r, n)
       PROVE  TypeOK'
  <2>1. checking' \in [Rows -> [Copies -> Nat]]
    BY <1>11, NestedCount DEF FinishVerify
  <2>2. pay' \in [Rows -> [Copies -> PayStates \cup {None}]]
    <3>1. pay' = pay \/ pay' = [pay EXCEPT ![r][n] = "SUCCEEDED"]
      BY <1>11 DEF FinishVerify
    <3>2. [pay EXCEPT ![r][n] = "SUCCEEDED"] \in [Rows -> [Copies -> PayStates \cup {None}]]
      BY PayEntry, "SUCCEEDED" \in PayStates
    <3> QED
      BY <3>1, <3>2
  <2>3. bus' \subseteq Messages
    BY <1>1, <1>11 DEF FinishVerify, Send, Events
  <2>4. lost' \in Nat /\ repeated' \in Nat
    BY <1>11 DEF FinishVerify
  <2> QED
    BY <1>11, <2>1, <2>2, <2>3, <2>4 DEF FinishVerify
<1> QED
  BY <1>2, <1>3, <1>4, <1>5, <1>6, <1>7, <1>8, <1>9, <1>10, <1>11 DEF CbpStep

LEMMA TypeStep == TypeOK /\ [Next]_vars => TypeOK'
<1> SUFFICES ASSUME TypeOK, [Next]_vars
             PROVE  TypeOK'
  OBVIOUS
<1> USE DEF TypeOK, backendVars, cbpVars, askVars, faultVars
<1>1. ASSUME NEW r \in Rows, OutsideStep(r)
      PROVE  TypeOK'
  <2>1. ASSUME NEW n \in Copies, PayCharge(r, n)
        PROVE  TypeOK'
    BY <2>1 DEF PayCharge
  <2>2. ASSUME NEW n \in Copies, NEW result \in Callbacks, ForwardCallback(r, n, result)
        PROVE  TypeOK'
    <3>1. Msg(result, r, n) \in Messages
      BY MsgType, CopiesAreNamed
    <3> QED
      BY <2>2, <3>1 DEF ForwardCallback, Send
  <2> QED
    BY <1>1, <2>1, <2>2 DEF OutsideStep
<1>2. ASSUME NEW m, Lose(m)
      PROVE  TypeOK'
  BY <1>2 DEF Lose
<1>3. CASE BackendCrash
  BY <1>3 DEF BackendCrash
<1>4. CASE CbpCrash
  BY <1>4 DEF CbpCrash
<1>5. CASE UNCHANGED vars
  BY <1>5 DEF vars
<1> QED
  BY <1>1, <1>2, <1>3, <1>4, <1>5, BackendTypes, CbpTypes DEF Next

(* Every row, payment, task and message has its type in every state.       *)
THEOREM PaymentTypes == Spec => []TypeOK
BY TypeInit, TypeStep, PTL DEF Spec

-----------------------------------------------------------------------------
(* A second booking needs a stale save.                                    *)

LEMMA BookingInit == Init => SecondBookingIsStale
BY DEF Init, SecondBookingIsStale, Booked

(* A save counts as stale if it hides a status that was not read: what was *)
(* read is open, so a COMPLETED row is never hidden for free.              *)
LEMMA SaveKeepsBookings ==
    ASSUME TypeOK, SecondBookingIsStale, NEW r \in Rows, NEW t \in Tasks,
           NEW s \in RowStates, Save(r, t, s)
    PROVE  /\ \A x \in Rows \ {r} : row'[x] = row[x] /\ stale'[x] = stale[x]
           /\ row'[r] = s
           /\ Booked(r) <= stale'[r]
<1>1. task[r][t] \in Open
  BY DEF Save, TypeOK
<1>2. /\ \A x \in Rows \ {r} : row'[x] = row[x] /\ stale'[x] = stale[x]
      /\ row'[r] = s
      /\ stale'[r] = IF row[r] = task[r][t] THEN stale[r] ELSE stale[r] + 1
  BY DEF Save, TypeOK
<1>3. Booked(r) \in Nat /\ stale[r] \in Nat
  BY DEF TypeOK, Booked
<1>4. Booked(r) <= stale[r] + (IF row[r] = "COMPLETED" THEN 1 ELSE 0)
  BY DEF SecondBookingIsStale
<1>5. row[r] = task[r][t] => row[r] # "COMPLETED"
  BY <1>1
<1> QED
  BY <1>2, <1>3, <1>4, <1>5

LEMMA BookingStep ==
    TypeOK /\ SecondBookingIsStale /\ [Next]_vars => SecondBookingIsStale'
<1> SUFFICES ASSUME TypeOK, SecondBookingIsStale, [Next]_vars
             PROVE  SecondBookingIsStale'
  OBVIOUS
<1>1. ASSUME UNCHANGED <<row, byEvent, byAdmin, stale>>
      PROVE  SecondBookingIsStale'
  BY <1>1 DEF SecondBookingIsStale, Booked
<1>2. ASSUME NEW r \in Rows, NEW t \in Tasks, NEW s \in RowStates, Save(r, t, s),
             UNCHANGED <<byEvent, byAdmin>>
      PROVE  SecondBookingIsStale'
  <2>1. /\ \A x \in Rows \ {r} : row'[x] = row[x] /\ stale'[x] = stale[x]
        /\ Booked(r) <= stale'[r]
    BY <1>2, SaveKeepsBookings
  <2>2. \A x \in Rows : Booked(x)' = Booked(x)
    BY <1>2 DEF Booked
  <2>3. stale'[r] \in Nat /\ Booked(r) \in Nat
    BY <1>2, TypeStep DEF TypeOK, Booked
  <2> QED
    BY <2>1, <2>2, <2>3 DEF SecondBookingIsStale
<1>3. ASSUME NEW r \in Rows, BackendStep(r)
      PROVE  SecondBookingIsStale'
  <2>1. CASE Create(r)
    <3>1. \A x \in Rows : Booked(x)' = Booked(x) /\ stale'[x] = stale[x]
      BY <2>1 DEF Create, Booked
    <3>2. \A x \in Rows : row'[x] = "COMPLETED" <=> row[x] = "COMPLETED"
      BY <2>1 DEF Create, TypeOK
    <3> QED
      BY <3>1, <3>2 DEF SecondBookingIsStale
  <2>2. CASE ApproveGatewayWithdraw(r)
    BY <1>1, <2>2 DEF ApproveGatewayWithdraw, backendVars
  <2>3. CASE StartCancel(r) \/ StartSet(r) \/ \E a \in Admins : StartComplete(r, a)
    BY <1>1, <2>3 DEF StartCancel, StartSet, StartComplete, StartHumanTask, StartTask
  <2>4. CASE FinishCancel(r)
    BY <1>2, <2>4 DEF FinishCancel, Tasks, HumanTasks
  <2>5. CASE FinishSet(r)
    BY <1>2, <2>5 DEF FinishSet, Tasks, HumanTasks
  <2>6. ASSUME NEW a \in Admins, FinishComplete(r, a)
        PROVE  SecondBookingIsStale'
    <3>1. <<a, 0>> \in Tasks
      BY DEF Tasks, HumanTasks
    <3>2. /\ \A x \in Rows \ {r} : row'[x] = row[x] /\ stale'[x] = stale[x]
          /\ row'[r] = "COMPLETED"
          /\ Booked(r) <= stale'[r]
      BY <2>6, <3>1, SaveKeepsBookings DEF FinishComplete
    <3>3. /\ \A x \in Rows \ {r} : Booked(x)' = Booked(x)
          /\ Booked(r)' = Booked(r) + 1
      BY <2>6 DEF FinishComplete, Booked, TypeOK
    <3>4. stale'[r] \in Nat /\ Booked(r) \in Nat
      BY <1>3, BackendTypes DEF TypeOK, Booked
    <3> QED
      BY <3>2, <3>3, <3>4 DEF SecondBookingIsStale
  <2>7. ASSUME NEW a \in Admins, RefuseComplete(r, a)
        PROVE  SecondBookingIsStale'
    BY <1>1, <2>7 DEF RefuseComplete
  <2>8. ASSUME NEW n \in Copies, OnSucceeded(r, n)
        PROVE  SecondBookingIsStale'
    <3>1. CASE IsOpen(r) /\ CanBook(r)
      <4>1. /\ \A x \in Rows \ {r} : row'[x] = row[x] /\ Booked(x)' = Booked(x)
            /\ row'[r] = "COMPLETED" /\ row[r] # "COMPLETED"
            /\ Booked(r)' = Booked(r) + 1
            /\ stale' = stale
        <5>1. /\ row' = [row EXCEPT ![r] = "COMPLETED"]
              /\ byEvent' = [byEvent EXCEPT ![r] = @ + 1]
              /\ stale' = stale /\ byAdmin' = byAdmin
          BY <2>8, <3>1 DEF OnSucceeded
        <5>2. row[r] # "COMPLETED"
          BY <3>1 DEF IsOpen
        <5> QED
          BY <5>1, <5>2 DEF Booked, TypeOK
      <4>2. stale[r] \in Nat /\ Booked(r) \in Nat
        BY DEF TypeOK, Booked
      <4> QED
        BY <4>1, <4>2 DEF SecondBookingIsStale
    <3>2. CASE ~(IsOpen(r) /\ CanBook(r))
      BY <1>1, <2>8, <3>2 DEF OnSucceeded, backendVars
    <3> QED
      BY <3>1, <3>2
  <2>9. ASSUME NEW n \in Copies, NEW kind \in Events \ {"succeeded"}, OnEvent(r, n, kind)
        PROVE  SecondBookingIsStale'
    BY <1>1, <2>9 DEF OnEvent, StartTask, backendVars
  <2>10. ASSUME NEW n \in Copies, NEW kind \in Events \ {"succeeded"}, SaveEvent(r, n, kind)
         PROVE  SecondBookingIsStale'
    BY <1>2, <2>10 DEF SaveEvent, Tasks, EventTasks, StatusOf, Events
  <2> QED
    BY <1>3, <2>1, <2>2, <2>3, <2>4, <2>5, <2>6, <2>7, <2>8, <2>9, <2>10 DEF BackendStep
<1>4. ASSUME NEW r \in Rows, CbpStep(r)
      PROVE  SecondBookingIsStale'
  BY <1>1, <1>4 DEF CbpStep, RefuseRequest, StartCharge, FinishCharge, KeepWithdraw,
     OnApprove, DropApprove, FinishTransfer, OnUnpaid, OnPaid, FinishVerify, backendVars
<1>5. ASSUME NEW r \in Rows, OutsideStep(r)
      PROVE  SecondBookingIsStale'
  BY <1>1, <1>5 DEF OutsideStep, PayCharge, ForwardCallback, backendVars
<1>6. CASE BackendCrash \/ CbpCrash \/ \E m \in bus : Lose(m)
  BY <1>1, <1>6 DEF BackendCrash, CbpCrash, Lose, backendVars
<1>7. CASE UNCHANGED vars
  BY <1>1, <1>7 DEF vars, backendVars
<1> QED
  BY <1>3, <1>4, <1>5, <1>6, <1>7 DEF Next

(* Repeated messages, two admins, crashes: a row is booked a second time   *)
(* only after a task has saved over a status it had not read.              *)
THEOREM BookedTwiceOnlyIfStale == Spec => []SecondBookingIsStale
BY TypeInit, TypeStep, BookingInit, BookingStep, PTL DEF Spec

-----------------------------------------------------------------------------
(* Only paid deposits are credited.                                        *)

(* A succeeded event speaks of money that the gateway has moved.           *)
EventsAreTrue ==
    \A r \in Rows : \A n \in Copies :
        Msg("succeeded", r, n) \in bus => moved[r][n] > 0

PaidInv == EventsAreTrue /\ CreditWasPaid

LEMMA PaidInit == Init => PaidInv
BY DEF Init, PaidInv, EventsAreTrue, CreditWasPaid

(* No succeeded event is sent, no money comes back, nothing is booked.     *)
LEMMA PaidStays ==
    ASSUME PaidInv, TypeOK, TypeOK',
           \A r \in Rows : \A n \in Copies : moved'[r][n] >= moved[r][n],
           \A r \in Rows : \A n \in Copies :
               Msg("succeeded", r, n) \in bus' => Msg("succeeded", r, n) \in bus,
           byEvent' = byEvent
    PROVE  PaidInv'
<1>1. \A r \in Rows : \A n \in Copies : moved[r][n] \in Nat /\ moved'[r][n] \in Nat
  BY DEF TypeOK
<1>2. \A r \in Rows : \A n \in Copies : moved[r][n] > 0 => moved'[r][n] > 0
  BY <1>1
<1> QED
  BY <1>2 DEF PaidInv, EventsAreTrue, CreditWasPaid

(* Only the messages named are new, and they are not succeeded events.     *)
LEMMA OtherKinds ==
    ASSUME NEW kind, kind # "succeeded", NEW r, NEW n, NEW x, NEW k
    PROVE  Msg("succeeded", x, k) # Msg(kind, r, n)
BY DEF Msg

LEMMA PaidStep == PaidInv /\ TypeOK /\ [Next]_vars => PaidInv'
<1> SUFFICES ASSUME PaidInv, TypeOK, [Next]_vars
             PROVE  PaidInv'
  OBVIOUS
<1>t. TypeOK'
  BY TypeStep
<1>m. \A r \in Rows : \A n \in Copies : moved[r][n] \in Nat
  BY DEF TypeOK
<1>1. ASSUME UNCHANGED <<moved, byEvent>>, bus' \subseteq bus
      PROVE  PaidInv'
  BY <1>1, <1>t, <1>m, PaidStays
<1>2. ASSUME NEW r \in Rows, BackendStep(r)
      PROVE  PaidInv'
  <2>1. CASE Create(r) \/ ApproveGatewayWithdraw(r)
    <3>1. \A x \in Rows : \A k \in Copies :
             Msg("succeeded", x, k) \in bus' => Msg("succeeded", x, k) \in bus
      BY <2>1, OtherKinds DEF Create, ApproveGatewayWithdraw, Send
    <3>2. UNCHANGED <<moved, byEvent>>
      BY <2>1 DEF Create, ApproveGatewayWithdraw, backendVars
    <3> QED
      BY <1>t, <1>m, <3>1, <3>2, PaidStays
  <2>2. CASE StartCancel(r) \/ StartSet(r) \/ \E a \in Admins : StartComplete(r, a)
    BY <1>1, <2>2 DEF StartCancel, StartSet, StartComplete, StartHumanTask, StartTask
  <2>3. CASE FinishCancel(r) \/ FinishSet(r)
    BY <1>1, <2>3 DEF FinishCancel, FinishSet
  <2>4. ASSUME NEW a \in Admins, FinishComplete(r, a) \/ RefuseComplete(r, a)
        PROVE  PaidInv'
    BY <1>1, <2>4 DEF FinishComplete, RefuseComplete
  <2>5. ASSUME NEW n \in Copies, OnSucceeded(r, n)
        PROVE  PaidInv'
    <3>1. bus' \subseteq bus /\ moved' = moved /\ Msg("succeeded", r, n) \in bus
      BY <2>5 DEF OnSucceeded, Take
    <3>2. moved[r][n] > 0
      BY <3>1 DEF PaidInv, EventsAreTrue
    <3>3. \A x \in Rows \ {r} : byEvent'[x] = byEvent[x]
      BY <2>5 DEF OnSucceeded, backendVars, TypeOK
    <3> QED
      BY <3>1, <3>2, <3>3 DEF PaidInv, EventsAreTrue, CreditWasPaid
  <2>6. ASSUME NEW n \in Copies, NEW kind \in Events \ {"succeeded"}, OnEvent(r, n, kind)
        PROVE  PaidInv'
    BY <1>1, <2>6 DEF OnEvent, StartTask, Take, backendVars
  <2>7. ASSUME NEW n \in Copies, NEW kind \in Events \ {"succeeded"}, SaveEvent(r, n, kind)
        PROVE  PaidInv'
    BY <1>1, <2>7 DEF SaveEvent
  <2> QED
    BY <1>2, <2>1, <2>2, <2>3, <2>4, <2>5, <2>6, <2>7 DEF BackendStep
<1>3. ASSUME NEW r \in Rows, CbpStep(r)
      PROVE  PaidInv'
  <2>1. ASSUME UNCHANGED <<moved, byEvent>>, NEW kind, NEW n, kind # "succeeded",
               bus' \subseteq bus \cup {Msg(kind, r, n)}
        PROVE  PaidInv'
    <3>1. \A x \in Rows : \A k \in Copies :
             Msg("succeeded", x, k) \in bus' => Msg("succeeded", x, k) \in bus
      BY <2>1, OtherKinds
    <3> QED
      BY <1>t, <1>m, <2>1, <3>1, PaidStays
  <2>2. CASE RefuseRequest(r)
    BY <2>1, <2>2 DEF RefuseRequest, Take, backendVars
  <2>3. CASE FinishCharge(r)
    BY <2>1, <2>3 DEF FinishCharge, Send, backendVars
  <2>4. CASE StartCharge(r) \/ KeepWithdraw(r) \/ OnApprove(r) \/ DropApprove(r)
    BY <1>1, <2>4 DEF StartCharge, KeepWithdraw, OnApprove, DropApprove, Take, backendVars
  <2>5. ASSUME NEW n \in Copies, FinishTransfer(r, n)
        PROVE  PaidInv'
    <3>1. \A x \in Rows : \A k \in Copies : moved'[x][k] >= moved[x][k]
      BY <1>m, <2>5 DEF FinishTransfer, TypeOK
    <3>2. \A x \in Rows : \A k \in Copies :
             Msg("succeeded", x, k) \in bus' => Msg("succeeded", x, k) \in bus
      BY <2>5, OtherKinds DEF FinishTransfer, Send
    <3>3. byEvent' = byEvent
      BY <2>5 DEF FinishTransfer, backendVars
    <3> QED
      BY <1>t, <3>1, <3>2, <3>3, PaidStays
  <2>6. ASSUME NEW n \in Copies, OnUnpaid(r, n)
        PROVE  PaidInv'
    BY <2>1, <2>6 DEF OnUnpaid, Take, backendVars
  <2>7. ASSUME NEW n \in Copies, OnPaid(r, n)
        PROVE  PaidInv'
    BY <1>1, <2>7 DEF OnPaid, Take, backendVars
  <2>8. ASSUME NEW n \in Copies, FinishVerify(r, n)
        PROVE  PaidInv'
    <3>1. UNCHANGED <<moved, byEvent>>
      BY <2>8 DEF FinishVerify, backendVars
    <3>2. bus' = bus \/ (moved[r][n] > 0 /\ bus' = bus \cup {Msg("succeeded", r, n)})
      BY <2>8 DEF FinishVerify, Send
    <3>3. \A x, k : Msg("succeeded", x, k) = Msg("succeeded", r, n) => x = r /\ k = n
      BY DEF Msg
    <3> QED
      BY <3>1, <3>2, <3>3 DEF PaidInv, EventsAreTrue, CreditWasPaid
  <2> QED
    BY <1>3, <2>2, <2>3, <2>4, <2>5, <2>6, <2>7, <2>8 DEF CbpStep
<1>4. ASSUME NEW r \in Rows, OutsideStep(r)
      PROVE  PaidInv'
  <2>1. ASSUME NEW n \in Copies, PayCharge(r, n)
        PROVE  PaidInv'
    <3>1. \A x \in Rows : \A k \in Copies : moved'[x][k] >= moved[x][k]
      BY <1>m, <2>1 DEF PayCharge, TypeOK
    <3>2. bus' = bus /\ byEvent' = byEvent
      BY <2>1 DEF PayCharge, backendVars
    <3> QED
      BY <1>t, <3>1, <3>2, PaidStays
  <2>2. ASSUME NEW n \in Copies, NEW result \in Callbacks, ForwardCallback(r, n, result)
        PROVE  PaidInv'
    <3>1. \A x \in Rows : \A k \in Copies :
             Msg("succeeded", x, k) \in bus' => Msg("succeeded", x, k) \in bus
      BY <2>2, OtherKinds DEF ForwardCallback, Send, Callbacks
    <3>2. moved' = moved /\ byEvent' = byEvent
      BY <2>2 DEF ForwardCallback, backendVars
    <3> QED
      BY <1>t, <1>m, <3>1, <3>2, PaidStays
  <2> QED
    BY <1>4, <2>1, <2>2 DEF OutsideStep
<1>5. CASE BackendCrash \/ \E m \in bus : Lose(m)
  BY <1>1, <1>5 DEF BackendCrash, Lose, backendVars
<1>6. CASE CbpCrash
  <2>1. \A x \in Rows : \A k \in Copies : moved'[x][k] >= moved[x][k]
    BY <1>m, <1>6 DEF CbpCrash, TypeOK
  <2>2. bus' = bus /\ byEvent' = byEvent
    BY <1>6 DEF CbpCrash, backendVars
  <2> QED
    BY <1>t, <2>1, <2>2, PaidStays
<1>7. CASE UNCHANGED vars
  BY <1>1, <1>7 DEF vars, backendVars
<1> QED
  BY <1>2, <1>3, <1>4, <1>5, <1>6, <1>7 DEF Next

(* No callback, repeated message or crash credits a deposit by an event    *)
(* whose money the gateway does not have.                                  *)
THEOREM CreditsArePaid == Spec => []CreditWasPaid
<1>1. PaidInv => CreditWasPaid
  BY DEF PaidInv
<1> QED
  BY <1>1, TypeInit, TypeStep, PaidInit, PaidStep, PTL DEF Spec

-----------------------------------------------------------------------------
(* What a wallet is explained by.                                          *)

LEMMA OwnedRows ==
    ASSUME NEW S \in SUBSET Rows, NEW u
    PROVE  IsFiniteSet(OwnedBy(u, S)) /\ OwnedBy(u, S) \subseteq Rows
BY FS_Subset, PaymentsAssumption DEF OwnedBy

(* Every wallet movement books one row, and only what the wallet covers.   *)
Books(r) ==
    /\ CanBook(r)
    /\ BookWallet(r)
    /\ Booked(r)' = Booked(r) + 1
    /\ \A x \in Rows \ {r} : Booked(x)' = Booked(x)

BookingMove ==
    \/ \E r \in Rows : Books(r)
    \/ UNCHANGED <<wallet, byEvent, byAdmin>>

LEMMA StepBooks ==
    ASSUME TypeOK, [Next]_vars
    PROVE  BookingMove
<1>1. ASSUME NEW r \in Rows, NEW a \in Admins, FinishComplete(r, a)
      PROVE  Books(r)
  BY <1>1 DEF FinishComplete, Books, Booked, TypeOK
<1>2. ASSUME NEW r \in Rows, NEW n \in Copies, OnSucceeded(r, n)
      PROVE  Books(r) \/ UNCHANGED <<wallet, byEvent, byAdmin>>
  <2>1. CASE IsOpen(r) /\ CanBook(r)
    <3>1. /\ byEvent' = [byEvent EXCEPT ![r] = @ + 1] /\ byAdmin' = byAdmin
          /\ BookWallet(r)
      BY <1>2, <2>1 DEF OnSucceeded
    <3>2. Booked(r)' = Booked(r) + 1 /\ \A x \in Rows \ {r} : Booked(x)' = Booked(x)
      BY <3>1 DEF Booked, TypeOK
    <3> QED
      BY <2>1, <3>1, <3>2 DEF Books
  <2>2. CASE ~(IsOpen(r) /\ CanBook(r))
    BY <1>2, <2>2 DEF OnSucceeded, backendVars
  <2> QED
    BY <2>1, <2>2
<1>3. ASSUME NEW r \in Rows, BackendStep(r)
      PROVE  Books(r) \/ UNCHANGED <<wallet, byEvent, byAdmin>>
  <2>1. CASE \/ Create(r) \/ ApproveGatewayWithdraw(r) \/ FinishCancel(r) \/ FinishSet(r)
             \/ \E a \in Admins : RefuseComplete(r, a)
    BY <2>1 DEF Create, ApproveGatewayWithdraw, FinishCancel, FinishSet, RefuseComplete, backendVars
  <2>2. CASE StartCancel(r) \/ StartSet(r) \/ \E a \in Admins : StartComplete(r, a)
    BY <2>2 DEF StartCancel, StartSet, StartComplete, StartHumanTask, StartTask
  <2>3. ASSUME NEW n \in Copies, NEW kind \in Events \ {"succeeded"},
               OnEvent(r, n, kind) \/ SaveEvent(r, n, kind)
        PROVE  UNCHANGED <<wallet, byEvent, byAdmin>>
    BY <2>3 DEF OnEvent, SaveEvent, StartTask, backendVars
  <2> QED
    BY <1>1, <1>2, <1>3, <2>1, <2>2, <2>3 DEF BackendStep
<1>4. ASSUME NEW r \in Rows, CbpStep(r)
      PROVE  UNCHANGED <<wallet, byEvent, byAdmin>>
  BY <1>4 DEF CbpStep, RefuseRequest, StartCharge, FinishCharge, KeepWithdraw,
     OnApprove, DropApprove, FinishTransfer, OnUnpaid, OnPaid, FinishVerify, backendVars
<1>5. ASSUME NEW r \in Rows, OutsideStep(r)
      PROVE  UNCHANGED <<wallet, byEvent, byAdmin>>
  BY <1>5 DEF OutsideStep, PayCharge, ForwardCallback, backendVars
<1>6. CASE BackendCrash \/ CbpCrash \/ \E m \in bus : Lose(m)
  BY <1>6 DEF BackendCrash, CbpCrash, Lose, BookingMove, backendVars
<1>7. CASE UNCHANGED vars
  BY <1>7 DEF vars, backendVars, BookingMove
<1> QED
  BY <1>3, <1>4, <1>5, <1>6, <1>7 DEF Next, BookingMove

LEMMA EntriesAreWhole ==
    ASSUME TypeOK
    PROVE  \A r \in Rows : Entries[r] \in Int /\ Booked(r) \in Int /\ Amount[r] \in Nat
BY PaymentsAssumption DEF TypeOK, Entries, Booked

LEMMA OneMore == \A a, b \in Int : (a + 1) * b = a * b + b
OBVIOUS

(* Booking a row adds its amount to the sum of any set of rows with it.    *)
LEMMA EntriesMoved ==
    ASSUME TypeOK, TypeOK', NEW r \in Rows, Books(r), NEW S \in SUBSET Rows, NEW u
    PROVE  SumFunctionOnSet(Entries', OwnedBy(u, S)) =
              SumFunctionOnSet(Entries, OwnedBy(u, S)) + (IF r \in OwnedBy(u, S) THEN Amount[r] ELSE 0)
<1> DEFINE T == OwnedBy(u, S)
<1>1. PICK e, f : e = Entries /\ f = Entries'
  OBVIOUS
<1>2. IsFiniteSet(T) /\ T \subseteq Rows
  BY OwnedRows
<1>3. /\ \A x \in Rows : e[x] \in Int /\ f[x] \in Int
      /\ f[r] = e[r] + Amount[r]
      /\ \A x \in Rows \ {r} : f[x] = e[x]
      /\ Amount[r] \in Nat
  <2>1. \A x \in Rows : e[x] \in Int /\ f[x] \in Int
    <3>1. \A x \in Rows : e[x] \in Int
      BY <1>1, EntriesAreWhole
    <3>2. \A x \in Rows : f[x] = Booked(x)' * Amount[x] /\ Booked(x)' \in Int /\ Amount[x] \in Int
      BY <1>1, PaymentsAssumption DEF Entries, Booked, TypeOK
    <3> HIDE DEF Booked
    <3>3. \A x \in Rows : f[x] \in Int
      BY <3>2
    <3> QED
      BY <3>1, <3>3
  <2>2. f[r] = (Booked(r) + 1) * Amount[r] /\ e[r] = Booked(r) * Amount[r]
    BY <1>1 DEF Entries, Books
  <2>3. f[r] = e[r] + Amount[r]
    <3>1. Booked(r) \in Int /\ Amount[r] \in Int
      BY EntriesAreWhole
    <3> QED
      BY ONLY <2>2, <3>1, OneMore
  <2>4. \A x \in Rows \ {r} : f[x] = e[x]
    BY <1>1 DEF Entries, Books
  <2> QED
    BY <2>1, <2>3, <2>4, EntriesAreWhole
<1> HIDE DEF T
<1>4. CASE r \in T
  <2>1. SumFunctionOnSet(f, T) = SumFunctionOnSet(e, T) + f[r] - e[r]
    BY <1>2, <1>3, <1>4, SumMove
  <2>2. SumFunctionOnSet(e, T) \in Int
    BY <1>2, <1>3, SumInt
  <2> QED
    BY <1>1, <1>3, <1>4, <2>1, <2>2 DEF T
<1>5. CASE r \notin T
  <2>1. SumFunctionOnSet(f, T) = SumFunctionOnSet(e, T)
    BY <1>2, <1>3, <1>5, SumSame
  <2>2. SumFunctionOnSet(e, T) \in Int
    BY <1>2, <1>3, SumInt
  <2> QED
    BY <1>1, <1>5, <2>1, <2>2 DEF T
<1> QED
  BY <1>4, <1>5

LEMMA WalletInit == Init => WalletIsExplained
<1> SUFFICES ASSUME Init, NEW u \in Users
             PROVE  /\ wallet[u] = Funds[u] + SumFunctionOnSet(Entries, OwnedBy(u, Deposits))
                                            - SumFunctionOnSet(Entries, OwnedBy(u, Withdrawals))
                    /\ wallet[u] >= 0
  BY DEF WalletIsExplained
<1>1. \A r \in Rows : Entries[r] = 0
  BY PaymentsAssumption DEF Init, Entries, Booked
<1>2. ASSUME NEW S \in SUBSET Rows
      PROVE  SumFunctionOnSet(Entries, OwnedBy(u, S)) = 0
  BY <1>1, OwnedRows, SumZero
<1>3. SumFunctionOnSet(Entries, OwnedBy(u, Deposits)) = 0
  BY <1>2 DEF Rows
<1>4. SumFunctionOnSet(Entries, OwnedBy(u, Withdrawals)) = 0
  BY <1>2 DEF Rows
<1>5. wallet[u] = Funds[u] /\ Funds[u] \in Nat
  BY PaymentsAssumption DEF Init
<1> QED
  BY <1>3, <1>4, <1>5

LEMMA WalletStep ==
    ASSUME TypeOK, TypeOK', WalletIsExplained, BookingMove
    PROVE  WalletIsExplained'
<1>1. CASE UNCHANGED <<wallet, byEvent, byAdmin>>
  <2>1. Entries' = Entries
    BY <1>1 DEF Entries, Booked
  <2> QED
    BY <1>1, <2>1 DEF WalletIsExplained, OwnedBy
<1>2. ASSUME NEW r \in Rows, Books(r), NEW u \in Users
      PROVE  /\ wallet'[u] = Funds[u] + SumFunctionOnSet(Entries', OwnedBy(u, Deposits))
                                      - SumFunctionOnSet(Entries', OwnedBy(u, Withdrawals))
             /\ wallet'[u] >= 0
  <2>1. PICK p, q, p1, q1 :
            /\ p = SumFunctionOnSet(Entries, OwnedBy(u, Deposits))
            /\ q = SumFunctionOnSet(Entries, OwnedBy(u, Withdrawals))
            /\ p1 = SumFunctionOnSet(Entries', OwnedBy(u, Deposits))
            /\ q1 = SumFunctionOnSet(Entries', OwnedBy(u, Withdrawals))
    OBVIOUS
  <2>2. /\ p1 = p + (IF r \in OwnedBy(u, Deposits) THEN Amount[r] ELSE 0)
        /\ q1 = q + (IF r \in OwnedBy(u, Withdrawals) THEN Amount[r] ELSE 0)
    <3>1. Deposits \in SUBSET Rows /\ Withdrawals \in SUBSET Rows
      BY DEF Rows
    <3> QED
      BY <1>2, <2>1, <3>1, EntriesMoved
  <2>3. p \in Int /\ q \in Int
    <3>1. /\ IsFiniteSet(OwnedBy(u, Deposits)) /\ OwnedBy(u, Deposits) \subseteq Rows
          /\ IsFiniteSet(OwnedBy(u, Withdrawals)) /\ OwnedBy(u, Withdrawals) \subseteq Rows
      BY OwnedRows DEF Rows
    <3>2. PICK e : e = Entries
      OBVIOUS
    <3>3. \A x \in Rows : e[x] \in Int
      BY <3>2, EntriesAreWhole
    <3> QED
      BY <2>1, <3>1, <3>2, <3>3, SumInt
  <2>4. wallet[u] = Funds[u] + p - q /\ wallet[u] >= 0
    BY <2>1 DEF WalletIsExplained
  <2>5. /\ Funds[u] \in Nat /\ Amount[r] \in Nat /\ wallet[u] \in Int
        /\ r \in Deposits <=> r \notin Withdrawals
        /\ Owner[r] \in Users
    BY PaymentsAssumption DEF Rows, TypeOK
  <2>6. wallet'[u] = IF u # Owner[r] THEN wallet[u]
                     ELSE IF r \in Deposits THEN wallet[u] + Amount[r] ELSE wallet[u] - Amount[r]
    BY <1>2, <2>5 DEF Books, BookWallet, TypeOK
  <2>7. r \notin Deposits /\ u = Owner[r] => wallet[u] >= Amount[r]
    BY <1>2, <2>5 DEF Books, CanBook
  <2>8. /\ r \in OwnedBy(u, Deposits) <=> u = Owner[r] /\ r \in Deposits
        /\ r \in OwnedBy(u, Withdrawals) <=> u = Owner[r] /\ r \notin Deposits
    BY <2>5 DEF OwnedBy
  <2> HIDE DEF Books
  <2>9. wallet'[u] = Funds[u] + p1 - q1 /\ wallet'[u] >= 0
    BY <2>2, <2>3, <2>4, <2>5, <2>6, <2>7, <2>8
  <2> QED
    BY <2>1, <2>9
<1> QED
  BY <1>1, <1>2 DEF BookingMove, WalletIsExplained, OwnedBy

(* Whatever is lost, repeated or overtaken, a wallet holds what it started *)
(* with and what was booked on it, and no withdrawal overdraws it.         *)
THEOREM WalletsAreExplained == Spec => []WalletIsExplained
<1>1. TypeOK /\ TypeOK' /\ WalletIsExplained /\ [Next]_vars => WalletIsExplained'
  BY StepBooks, WalletStep
<1> QED
  BY <1>1, WalletInit, PaymentTypes, PTL DEF Spec

-----------------------------------------------------------------------------
(* No transfer without an approval.                                        *)

(* What has left for a withdrawal, and what may still leave: calls of the  *)
(* gateway that run, and an approval that is on its way.                   *)
Transfers(r) == [n \in Copies |-> moved[r][n] + sending[r][n]]

OnItsWay(r) == IF Msg("approve", r, 0) \in bus THEN 1 ELSE 0

ApprovedInv ==
    \A r \in Withdrawals :
        SumFunctionOnSet(Transfers(r), Copies) + OnItsWay(r) <= approvals[r] + repeated

LEMMA CopiesAreFinite == IsFiniteSet(Copies)
BY FS_Interval, PaymentsAssumption DEF Copies

LEMMA TransfersAreWhole ==
    ASSUME TypeOK, NEW r \in Rows
    PROVE  /\ \A n \in Copies : Transfers(r)[n] \in Nat /\ moved[r][n] \in Nat /\ sending[r][n] \in Nat
           /\ \A n \in Copies : Transfers(r)[n] = moved[r][n] + sending[r][n]
           /\ SumFunctionOnSet(Transfers(r), Copies) \in Nat
<1>1. \A n \in Copies : Transfers(r)[n] = moved[r][n] + sending[r][n]
  BY DEF Transfers
<1>2. \A n \in Copies : Transfers(r)[n] \in Nat /\ moved[r][n] \in Nat /\ sending[r][n] \in Nat
  BY <1>1 DEF TypeOK
<1> QED
  BY <1>1, <1>2, CopiesAreFinite, SumNat

LEMMA ApprovedInit == Init => ApprovedInv
<1> SUFFICES ASSUME Init, NEW r \in Withdrawals
             PROVE  SumFunctionOnSet(Transfers(r), Copies) + OnItsWay(r) <= approvals[r] + repeated
  BY DEF ApprovedInv
<1>1. \A n \in Copies : Transfers(r)[n] = 0
  BY DEF Init, Transfers, Rows
<1>2. SumFunctionOnSet(Transfers(r), Copies) = 0
  BY <1>1, CopiesAreFinite, SumZero
<1> QED
  BY <1>2 DEF Init, OnItsWay, Rows

(* What a step may do to a withdrawal: nothing new leaves (Quiet), or an   *)
(* approval turns into one call of the gateway (Turns).                    *)
Quiet(r) ==
    /\ \A n \in Copies : Transfers(r)'[n] <= Transfers(r)[n]
    /\ OnItsWay(r)' - OnItsWay(r) <= approvals'[r] - approvals[r] + repeated' - repeated

Turns(r) ==
    /\ \E k \in Copies :
        /\ Transfers(r)'[k] = Transfers(r)[k] + 1
        /\ \A n \in Copies \ {k} : Transfers(r)'[n] = Transfers(r)[n]
    /\ OnItsWay(r)' - OnItsWay(r) + 1 <= approvals'[r] - approvals[r] + repeated' - repeated

LEMMA ApprovedKept ==
    ASSUME TypeOK, TypeOK', NEW r \in Rows, Quiet(r) \/ Turns(r),
           SumFunctionOnSet(Transfers(r), Copies) + OnItsWay(r) <= approvals[r] + repeated
    PROVE  SumFunctionOnSet(Transfers(r)', Copies) + OnItsWay(r)' <= approvals'[r] + repeated'
<1>1. PICK f, g : f = Transfers(r) /\ g = Transfers(r)'
  OBVIOUS
<1>2. PICK a, b : a = OnItsWay(r) /\ b = OnItsWay(r)'
  OBVIOUS
<1>3. /\ \A n \in Copies : f[n] \in Nat /\ g[n] \in Nat
      /\ approvals[r] \in Nat /\ approvals'[r] \in Nat /\ repeated \in Nat /\ repeated' \in Nat
      /\ a \in Int /\ b \in Int
  <2>1. \A n \in Copies : f[n] \in Nat /\ g[n] \in Nat
    BY <1>1 DEF Transfers, TypeOK
  <2> QED
    BY <1>2, <2>1 DEF TypeOK, OnItsWay
<1>4. /\ SumFunctionOnSet(f, Copies) \in Int /\ SumFunctionOnSet(g, Copies) \in Int
  BY <1>3, CopiesAreFinite, SumNat
<1>5. CASE Quiet(r)
  <2>1. SumFunctionOnSet(g, Copies) <= SumFunctionOnSet(f, Copies)
    BY <1>1, <1>3, <1>5, CopiesAreFinite, SumBelow DEF Quiet
  <2>2. b - a <= approvals'[r] - approvals[r] + repeated' - repeated
    BY <1>2, <1>5 DEF Quiet
  <2> QED
    BY <1>1, <1>2, <1>3, <1>4, <2>1, <2>2
<1>6. CASE Turns(r)
  <2>1. PICK k \in Copies : /\ g[k] = f[k] + 1
                            /\ \A n \in Copies \ {k} : g[n] = f[n]
    BY <1>1, <1>6 DEF Turns
  <2>2. SumFunctionOnSet(g, Copies) = SumFunctionOnSet(f, Copies) + g[k] - f[k]
    <3>1. k \in Copies /\ g[k] \in Int
      BY <1>3
    <3>2. \A n \in Copies : f[n] \in Int
      BY <1>3
    <3>3. \A n \in Copies \ {k} : g[n] = f[n]
      BY <2>1
    <3> QED
      BY ONLY <3>1, <3>2, <3>3, CopiesAreFinite, SumMove
  <2>3. b - a + 1 <= approvals'[r] - approvals[r] + repeated' - repeated
    BY <1>2, <1>6 DEF Turns
  <2> QED
    BY <1>1, <1>2, <1>3, <1>4, <2>1, <2>2, <2>3
<1> QED
  BY <1>5, <1>6

(* Taking a message never sends an approval again; one that stays in the   *)
(* queue is counted as repeated.                                           *)
LEMMA TakeApproval ==
    ASSUME TypeOK, NEW m, NEW new \in SUBSET Messages, Take(m, new), NEW r \in Rows,
           \A x \in new : x.kind # "approve"
    PROVE  /\ OnItsWay(r)' - OnItsWay(r) <= repeated' - repeated
           /\ m = Msg("approve", r, 0) => OnItsWay(r)' - OnItsWay(r) + 1 <= repeated' - repeated
<1> DEFINE ap == Msg("approve", r, 0)
<1>1. ap \notin new
  BY DEF Msg
<1>2. repeated \in Nat
  BY DEF TypeOK
<1> HIDE DEF ap
<1>3. /\ m \in bus
      /\ \/ bus' = (bus \ {m}) \cup new /\ repeated' = repeated
         \/ bus' = bus \cup new /\ repeated' = repeated + 1
  BY DEF Take
<1>4. OnItsWay(r) = (IF ap \in bus THEN 1 ELSE 0) /\ OnItsWay(r)' = (IF ap \in bus' THEN 1 ELSE 0)
  BY DEF OnItsWay, ap
<1>5. /\ OnItsWay(r)' - OnItsWay(r) <= repeated' - repeated
      /\ m = ap => OnItsWay(r)' - OnItsWay(r) + 1 <= repeated' - repeated
  BY <1>1, <1>2, <1>3, <1>4
<1> QED
  BY <1>5 DEF ap

(* Steps that start or end no call of the gateway and approve nothing.     *)
LEMMA QuietTake ==
    ASSUME TypeOK, NEW m, NEW new \in SUBSET Messages, Take(m, new),
           \A x \in new : x.kind # "approve", UNCHANGED <<moved, sending, approvals>>
    PROVE  \A r \in Rows : Quiet(r)
<1> SUFFICES ASSUME NEW r \in Rows PROVE Quiet(r)
  OBVIOUS
<1>1. OnItsWay(r)' - OnItsWay(r) <= repeated' - repeated
  BY TakeApproval
<1>2. Transfers(r)' = Transfers(r)
  BY DEF Transfers
<1>3. /\ approvals[r] \in Nat /\ repeated \in Nat /\ repeated' \in Nat
      /\ OnItsWay(r) \in Int /\ OnItsWay(r)' \in Int
  BY TakeType DEF TypeOK, OnItsWay
<1>4. \A n \in Copies : Transfers(r)[n] \in Nat
  BY TransfersAreWhole
<1> QED
  BY <1>1, <1>2, <1>3, <1>4 DEF Quiet

LEMMA QuietSend ==
    ASSUME TypeOK, UNCHANGED <<moved, sending, approvals, repeated>>,
           \A x \in bus' : x \in bus \/ x.kind # "approve"
    PROVE  \A r \in Rows : Quiet(r)
<1> SUFFICES ASSUME NEW r \in Rows PROVE Quiet(r)
  OBVIOUS
<1>1. OnItsWay(r)' <= OnItsWay(r) /\ OnItsWay(r) \in Int /\ OnItsWay(r)' \in Int
  BY DEF OnItsWay, Msg
<1>2. Transfers(r)' = Transfers(r)
  BY DEF Transfers
<1>3. approvals[r] \in Nat /\ repeated \in Nat
  BY DEF TypeOK
<1>4. \A n \in Copies : Transfers(r)[n] \in Nat
  BY TransfersAreWhole
<1> QED
  BY <1>1, <1>2, <1>3, <1>4 DEF Quiet

LEMMA ApprovalTurns ==
    ASSUME TypeOK, TypeOK', NEW q \in Rows, OnApprove(q), NEW r \in Rows
    PROVE  Quiet(r) \/ Turns(r)
<1>1. PICK k \in Copies : sending' = [sending EXCEPT ![q][k] = @ + 1]
  BY DEF OnApprove
<1>2. UNCHANGED <<moved, approvals>> /\ Take(Msg("approve", q, 0), {})
  BY DEF OnApprove, askVars
<1>3. /\ approvals[r] \in Nat /\ repeated \in Nat /\ repeated' \in Nat
      /\ OnItsWay(r) \in Int /\ OnItsWay(r)' \in Int
  BY DEF TypeOK, OnItsWay
<1>4. /\ OnItsWay(r)' - OnItsWay(r) <= repeated' - repeated
      /\ q = r => OnItsWay(r)' - OnItsWay(r) + 1 <= repeated' - repeated
  BY <1>2, TakeApproval
<1>5. \A n \in Copies : /\ Transfers(r)[n] = moved[r][n] + sending[r][n]
                         /\ Transfers(r)'[n] = moved[r][n] + sending'[r][n]
                         /\ moved[r][n] \in Nat /\ sending[r][n] \in Nat
  BY <1>2 DEF Transfers, TypeOK
<1>6. CASE q = r
  <2>1. /\ sending'[r][k] = sending[r][k] + 1
        /\ \A n \in Copies \ {k} : sending'[r][n] = sending[r][n]
    BY <1>1, <1>6 DEF TypeOK
  <2>2. /\ Transfers(r)'[k] = Transfers(r)[k] + 1
        /\ \A n \in Copies \ {k} : Transfers(r)'[n] = Transfers(r)[n]
    BY <1>5, <2>1
  <2> QED
    BY <1>2, <1>3, <1>4, <1>6, <2>2 DEF Turns
<1>7. CASE q # r
  <2>1. sending'[r] = sending[r]
    BY <1>1, <1>7 DEF TypeOK
  <2>2. \A n \in Copies : Transfers(r)'[n] <= Transfers(r)[n]
    BY <1>5, <2>1
  <2> QED
    BY <1>2, <1>3, <1>4, <2>2 DEF Quiet
<1> QED
  BY <1>6, <1>7

LEMMA BackendApproves ==
    ASSUME TypeOK, TypeOK', NEW q \in Rows, BackendStep(q), NEW r \in Withdrawals
    PROVE  Quiet(r)
<1>1. r \in Rows
  BY DEF Rows
<1>2. ASSUME UNCHANGED <<cbpVars, moved, bus, askVars, faultVars>>
      PROVE  Quiet(r)
  BY <1>1, <1>2, QuietSend DEF cbpVars, askVars, faultVars
<1>3. CASE Create(q)
  <2>1. UNCHANGED <<moved, sending, approvals, repeated>> /\ \E S : Send(S) /\ S \subseteq {Msg("request", q, 0)}
    BY <1>3 DEF Create, cbpVars, askVars, faultVars
  <2> QED
    BY <1>1, <2>1, QuietSend DEF Send, Msg
<1>4. CASE ApproveGatewayWithdraw(q)
  <2>1. /\ UNCHANGED <<moved, sending, repeated>>
        /\ approvals' = [approvals EXCEPT ![q] = @ + 1]
        /\ bus' = bus \cup {Msg("approve", q, 0)}
    BY <1>4 DEF ApproveGatewayWithdraw, Send, cbpVars, faultVars
  <2>2. OnItsWay(r) \in {0, 1} /\ OnItsWay(r)' \in {0, 1} /\ (q # r => OnItsWay(r)' = OnItsWay(r))
    BY <2>1 DEF OnItsWay, Msg
  <2>3. approvals'[r] = approvals[r] + (IF q = r THEN 1 ELSE 0) /\ approvals[r] \in Nat /\ repeated \in Nat
    BY <1>1, <2>1 DEF TypeOK
  <2>4. Transfers(r)' = Transfers(r)
    BY <2>1 DEF Transfers
  <2>5. \A n \in Copies : Transfers(r)[n] \in Nat
    BY <1>1, TransfersAreWhole
  <2> QED
    BY <2>1, <2>2, <2>3, <2>4, <2>5 DEF Quiet
<1>5. CASE StartCancel(q) \/ StartSet(q) \/ \E a \in Admins : StartComplete(q, a)
  BY <1>2, <1>5 DEF StartCancel, StartSet, StartComplete, StartHumanTask
<1>6. CASE FinishCancel(q) \/ FinishSet(q)
  BY <1>2, <1>6 DEF FinishCancel, FinishSet
<1>7. ASSUME NEW a \in Admins, FinishComplete(q, a) \/ RefuseComplete(q, a)
      PROVE  Quiet(r)
  BY <1>2, <1>7 DEF FinishComplete, RefuseComplete
<1>8. ASSUME NEW n \in Copies, OnSucceeded(q, n) \/ \E kind \in Events : OnEvent(q, n, kind)
      PROVE  Quiet(r)
  <2>1. /\ UNCHANGED <<moved, sending, approvals>>
        /\ \E m : Take(m, {})
    BY <1>8 DEF OnSucceeded, OnEvent, cbpVars, askVars
  <2> QED
    BY <1>1, <2>1, QuietTake
<1>9. ASSUME NEW n \in Copies, NEW kind \in Events, SaveEvent(q, n, kind)
      PROVE  Quiet(r)
  BY <1>2, <1>9 DEF SaveEvent
<1> QED
  <2>1. \/ \E a \in Admins : FinishComplete(q, a) \/ RefuseComplete(q, a)
        \/ \E n \in Copies : OnSucceeded(q, n) \/ \E kind \in Events : OnEvent(q, n, kind)
        \/ \E n \in Copies, kind \in Events : SaveEvent(q, n, kind)
        \/ Create(q) \/ ApproveGatewayWithdraw(q)
        \/ StartCancel(q) \/ StartSet(q) \/ (\E a \in Admins : StartComplete(q, a))
        \/ FinishCancel(q) \/ FinishSet(q)
    BY DEF BackendStep
  <2> QED
    BY <2>1, <1>3, <1>4, <1>5, <1>6, <1>7, <1>8, <1>9

LEMMA CbpApproves ==
    ASSUME TypeOK, TypeOK', NEW q \in Rows, CbpStep(q) \/ OutsideStep(q), NEW r \in Withdrawals
    PROVE  Quiet(r) \/ Turns(r)
<1>1. r \in Rows
  BY DEF Rows
<1> DEFINE Takes(kinds) ==
              /\ UNCHANGED <<moved, sending, approvals>>
              /\ \E m, n, kind : /\ kind \in kinds /\ n \in 0..MaxCopies
                                 /\ Take(m, {Msg(kind, q, n)}) \/ Take(m, {})
           Sends(kinds) ==
              /\ UNCHANGED <<moved, sending, approvals, repeated>>
              /\ \E n, kind : kind \in kinds /\ (Send({Msg(kind, q, n)}) \/ UNCHANGED bus)
<1>2. ASSUME Takes({"failed", "rejected"})
      PROVE  Quiet(r)
  <2>1. PICK m, n, kind : /\ kind \in {"failed", "rejected"} /\ n \in 0..MaxCopies
                          /\ Take(m, {Msg(kind, q, n)}) \/ Take(m, {})
    BY <1>2
  <2>2. Msg(kind, q, n) \in Messages /\ Msg(kind, q, n).kind # "approve"
    BY <2>1, MsgType DEF Events, Msg
  <2>3. \E new \in SUBSET Messages : Take(m, new) /\ \A x \in new : x.kind # "approve"
    BY <2>1, <2>2
  <2> QED
    BY <1>1, <1>2, <2>3, QuietTake
<1>3. ASSUME Sends({"processing", "failed", "paid", "unpaid", "succeeded"})
      PROVE  Quiet(r)
  <2>1. \A x \in bus' : x \in bus \/ x.kind # "approve"
    BY <1>3 DEF Send, Msg
  <2> QED
    BY <1>1, <1>3, <2>1, QuietSend
<1>4. 0 \in 0..MaxCopies /\ Copies \subseteq 0..MaxCopies
  BY CopiesAreNamed
<1>5. CASE RefuseRequest(q)
  <2>1. Takes({"failed", "rejected"})
    BY <1>4, <1>5 DEF RefuseRequest, NextCopy, askVars
  <2> QED
    BY <1>2, <2>1
<1>6. CASE StartCharge(q) \/ KeepWithdraw(q) \/ DropApprove(q)
  <2>1. Takes({"failed", "rejected"})
    BY <1>4, <1>6 DEF StartCharge, KeepWithdraw, DropApprove, cbpVars, askVars
  <2> QED
    BY <1>2, <2>1
<1>7. ASSUME NEW n \in Copies, OnUnpaid(q, n) \/ OnPaid(q, n)
      PROVE  Quiet(r)
  <2>1. Takes({"failed", "rejected"})
    BY <1>4, <1>7 DEF OnUnpaid, OnPaid, askVars
  <2> QED
    BY <1>2, <2>1
<1>8. CASE FinishCharge(q)
  <2>1. Sends({"processing", "failed", "paid", "unpaid", "succeeded"})
    BY <1>8 DEF FinishCharge, faultVars, askVars
  <2> QED
    BY <1>3, <2>1
<1>9. ASSUME NEW n \in Copies, FinishVerify(q, n) \/ \E result \in Callbacks : ForwardCallback(q, n, result)
      PROVE  Quiet(r)
  <2>1. Sends({"processing", "failed", "paid", "unpaid", "succeeded"})
    BY <1>9 DEF FinishVerify, ForwardCallback, Callbacks, cbpVars, faultVars, askVars
  <2> QED
    BY <1>3, <2>1
<1>10. CASE OnApprove(q)
  BY <1>1, <1>10, ApprovalTurns
<1>11. ASSUME NEW n \in Copies, PayCharge(q, n)
       PROVE  Quiet(r)
  <2>1. q # r
    BY <1>11, PaymentsAssumption DEF PayCharge
  <2>2. /\ moved'[r] = moved[r]
        /\ UNCHANGED <<sending, bus, approvals, repeated>>
    BY <1>1, <1>11, <2>1 DEF PayCharge, TypeOK, cbpVars, askVars, faultVars
  <2>3. Transfers(r)' = Transfers(r) /\ OnItsWay(r)' = OnItsWay(r) /\ OnItsWay(r) \in Int
    BY <2>2 DEF Transfers, OnItsWay
  <2>4. \A k \in Copies : Transfers(r)[k] \in Nat
    BY <1>1, TransfersAreWhole
  <2> QED
    BY <1>1, <2>2, <2>3, <2>4 DEF Quiet, TypeOK
<1>12. ASSUME NEW n \in Copies, FinishTransfer(q, n)
       PROVE  Quiet(r)
  <2>1. PICK sent \in {0, 1}, answered \in BOOLEAN :
            /\ sending[q][n] > 0
            /\ sending' = [sending EXCEPT ![q][n] = @ - 1]
            /\ moved' = [moved EXCEPT ![q][n] = @ + sent]
            /\ Send({Msg(IF answered THEN "processing" ELSE "failed", q, n)})
            /\ UNCHANGED <<approvals, repeated>>
    BY <1>12 DEF FinishTransfer, askVars, faultVars
  <2>2. \A k \in Copies : Transfers(r)'[k] <= Transfers(r)[k]
    <3>1. \A k \in Copies : /\ Transfers(r)[k] = moved[r][k] + sending[r][k]
                             /\ Transfers(r)'[k] = moved'[r][k] + sending'[r][k]
                             /\ moved[r][k] \in Nat /\ sending[r][k] \in Nat
      BY <1>1 DEF Transfers, TypeOK
    <3>2. \A k \in Copies :
            /\ moved'[r][k] = IF q = r /\ k = n THEN moved[r][k] + sent ELSE moved[r][k]
            /\ sending'[r][k] = IF q = r /\ k = n THEN sending[r][k] - 1 ELSE sending[r][k]
      BY <1>1, <2>1 DEF TypeOK
    <3> QED
      BY <2>1, <3>1, <3>2
  <2>3. OnItsWay(r)' = OnItsWay(r) /\ OnItsWay(r) \in Int
    BY <2>1 DEF OnItsWay, Send, Msg
  <2> QED
    BY <1>1, <2>1, <2>2, <2>3 DEF Quiet, TypeOK
<1> QED
  BY <1>5, <1>6, <1>7, <1>8, <1>9, <1>10, <1>11, <1>12 DEF CbpStep, OutsideStep

LEMMA ApprovedStep ==
    ASSUME TypeOK, TypeOK', ApprovedInv, [Next]_vars
    PROVE  ApprovedInv'
<1> SUFFICES ASSUME NEW r \in Withdrawals PROVE Quiet(r) \/ Turns(r)
  BY ApprovedKept DEF ApprovedInv, Rows
<1>1. r \in Rows
  BY DEF Rows
<1>2. CASE BackendCrash \/ UNCHANGED vars \/ \E m \in bus : Lose(m)
  <2>1. UNCHANGED <<moved, sending, approvals, repeated>> /\ bus' \subseteq bus
    BY <1>2 DEF BackendCrash, Lose, vars, cbpVars, askVars, faultVars
  <2> QED
    BY <1>1, <2>1, QuietSend
<1>3. CASE CbpCrash
  <2>1. \A n \in Copies : /\ Transfers(r)[n] = moved[r][n] + sending[r][n]
                           /\ Transfers(r)'[n] = moved'[r][n] + sending'[r][n]
                           /\ moved[r][n] \in Nat /\ sending[r][n] \in Nat
    BY <1>1 DEF Transfers, TypeOK
  <2>2. \A n \in Copies : /\ sending'[r][n] = 0
                           /\ moved'[r][n] \in {moved[r][n], moved[r][n] + sending[r][n]}
    BY <1>1, <1>3 DEF CbpCrash
  <2>3. \A n \in Copies : Transfers(r)'[n] <= Transfers(r)[n]
    BY <2>1, <2>2
  <2>4. UNCHANGED <<bus, approvals, repeated>> /\ OnItsWay(r)' = OnItsWay(r) /\ OnItsWay(r) \in Int
    BY <1>3 DEF CbpCrash, askVars, OnItsWay
  <2> QED
    BY <1>1, <2>3, <2>4 DEF Quiet, TypeOK
<1> QED
  BY <1>2, <1>3, BackendApproves, CbpApproves DEF Next

(* Money leaves for a withdrawal at most once for each approval that was   *)
(* given and each message that was delivered again.                        *)
THEOREM TransfersAreApproved == Spec => []TransfersWereApproved
<1>1. TypeOK /\ ApprovedInv => TransfersWereApproved
  <2> SUFFICES ASSUME TypeOK, ApprovedInv, NEW r \in Withdrawals
               PROVE  SumFunctionOnSet(moved[r], Copies) <= approvals[r] + repeated
    BY DEF TransfersWereApproved
  <2>1. r \in Rows /\ OnItsWay(r) \in {0, 1} /\ approvals[r] \in Nat /\ repeated \in Nat
    BY DEF Rows, OnItsWay, TypeOK
  <2>2. PICK f, g : f = Transfers(r) /\ g = moved[r]
    OBVIOUS
  <2>3. \A n \in Copies : f[n] \in Int /\ g[n] \in Int /\ g[n] <= f[n]
    BY <2>1, <2>2, TransfersAreWhole
  <2>4. SumFunctionOnSet(g, Copies) <= SumFunctionOnSet(f, Copies)
    BY <2>3, CopiesAreFinite, SumBelow
  <2>5. SumFunctionOnSet(g, Copies) \in Int /\ SumFunctionOnSet(f, Copies) \in Int
    BY <2>3, CopiesAreFinite, SumInt
  <2>6. SumFunctionOnSet(f, Copies) + OnItsWay(r) <= approvals[r] + repeated
    BY <2>2 DEF ApprovedInv
  <2> QED
    BY <2>1, <2>2, <2>4, <2>5, <2>6
<1> QED
  BY <1>1, ApprovedInit, ApprovedStep, PaymentTypes, PTL DEF Spec
=============================================================================
