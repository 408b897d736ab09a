--------------------------- MODULE GatewayPayments ---------------------------
(***************************************************************************)
(* Deposits and withdrawals outside the p2p market: the rows and wallets   *)
(* of goldex-backend, the payments of goldex-cbp, and the RabbitMQ queue   *)
(* between them.  A consumer acknowledges a message before its handler has *)
(* run, handlers await databases and gateways, and the queue may lose or   *)
(* repeat what it carries.                                                 *)
(*                                                                         *)
(* A backend handler that reads a row and saves it later is a "task": it   *)
(* writes the entity it has read, whatever others did in between.          *)
(*                                                                         *)
(* Two equal messages in flight are one here; a repetition stands for the  *)
(* second.                                                                 *)
(***************************************************************************)
EXTENDS Integers, FiniteSets, Functions

CONSTANTS
    Deposits, Withdrawals,  \* rows of the two tables
    Bound,                  \* rows whose type is in GATEWAY_BOUND_TYPES
    Users, Owner, Amount, Funds,
    DailyLimit,             \* WALLET_DAILY_DEPOSIT_LIMIT per user, 0: none
    Admins,                 \* admins who may be completing a row
    MaxRows,                \* rows created
    MaxCopies,              \* payments made for one row
    MaxRunning,             \* users' and admins' tasks running on one row
    MaxFaults,              \* messages lost or repeated, crashes
    MaxApprovals,           \* approvals per row
    MaxCallbacks            \* callbacks per row

Rows == Deposits \cup Withdrawals
Copies == 1..MaxCopies

ASSUME PaymentsAssumption ==
    /\ Deposits \cap Withdrawals = {}
    /\ Bound \subseteq Rows
    /\ Owner \in [Rows -> Users]
    /\ Amount \in [Rows -> Nat]
    /\ Funds \in [Users -> Nat]
    /\ DailyLimit \in [Users -> Nat]
    /\ Admins \cap {"cancel", "set"} = {}
    /\ IsFiniteSet(Rows)
    /\ {MaxRows, MaxCopies, MaxRunning, MaxFaults, MaxApprovals,
        MaxCallbacks} \subseteq Nat

None == "none"
Open == {"PENDING", "PROCESSING"}
Terminal == {"COMPLETED", "FAILED", "CANCELLED"}
RowStates == Open \cup Terminal
PayStates == {"PENDING", "PROCESSING", "SUCCEEDED", "FAILED", "REJECTED"}

Commands == {"request", "approve"}
Callbacks == {"paid", "unpaid"}
Events == {"processing", "succeeded", "failed", "rejected"}

(* The tasks of a row: a cancel, a process that books or does not, and     *)
(* the events of its payments that are not a success.                      *)
HumanTasks == ({"cancel", "set"} \cup Admins) \X {0}
EventTasks == (Events \ {"succeeded"}) \X Copies
Tasks == HumanTasks \cup EventTasks

Messages == [kind : Commands \cup Callbacks \cup Events, row : Rows,
             copy : 0..MaxCopies]
Msg(kind, r, n) == [kind |-> kind, row |-> r, copy |-> n]

VARIABLES
    row,        \* status of a deposit or withdraw row
    pages,      \* payments whose pay page the row has shown
    task,       \* status read by a running task
    wallet,     \* free balance of the user's deposit wallet
    byEvent,    \* transactions written for a row by a succeeded event
    byAdmin,    \* transactions written for a row by process
    stale,      \* saves of a task over a status it had not read
    pay,        \* payments of goldex-cbp
    charging,   \* request handlers that await gateway.deposit
    sending,    \* approvals that await gateway.withdraw
    checking,   \* callbacks that await gateway.verify
    moved,      \* times the gateway took or sent the money of a payment
    bus,        \* messages in flight
    approvals, callbacks,   \* how often they were sent for a row
    lost, repeated          \* faults so far

backendVars == <<row, pages, task, wallet, byEvent, byAdmin, stale>>
cbpVars == <<pay, charging, sending, checking>>
askVars == <<approvals, callbacks>>
faultVars == <<lost, repeated>>
vars == <<backendVars, cbpVars, moved, bus, askVars, faultVars>>

TypeOK ==
    /\ row \in [Rows -> RowStates \cup {None}]
    /\ pages \in [Rows -> SUBSET Copies]
    /\ task \in [Rows -> [Tasks -> Open \cup {None}]]
    /\ wallet \in [Users -> Int]
    /\ byEvent \in [Rows -> Nat] /\ byAdmin \in [Rows -> Nat]
    /\ stale \in [Rows -> Nat]
    /\ pay \in [Rows -> [Copies -> PayStates \cup {None}]]
    /\ charging \in [Rows -> Nat]
    /\ sending \in [Rows -> [Copies -> Nat]]
    /\ checking \in [Rows -> [Copies -> Nat]]
    /\ moved \in [Rows -> [Copies -> Nat]]
    /\ bus \subseteq Messages
    /\ approvals \in [Rows -> Nat] /\ callbacks \in [Rows -> Nat]
    /\ lost \in Nat /\ repeated \in Nat

Init ==
    /\ row = [r \in Rows |-> None]
    /\ pages = [r \in Rows |-> {}]
    /\ task = [r \in Rows |-> [t \in Tasks |-> None]]
    /\ wallet = Funds
    /\ byEvent = [r \in Rows |-> 0] /\ byAdmin = [r \in Rows |-> 0]
    /\ stale = [r \in Rows |-> 0]
    /\ pay = [r \in Rows |-> [n \in Copies |-> None]]
    /\ charging = [r \in Rows |-> 0]
    /\ sending = [r \in Rows |-> [n \in Copies |-> 0]]
    /\ checking = [r \in Rows |-> [n \in Copies |-> 0]]
    /\ moved = [r \in Rows |-> [n \in Copies |-> 0]]
    /\ bus = {}
    /\ approvals = [r \in Rows |-> 0] /\ callbacks = [r \in Rows |-> 0]
    /\ lost = 0 /\ repeated = 0

-----------------------------------------------------------------------------
(* The queue.                                                              *)

MayFail == lost + repeated < MaxFaults

(* A consumer takes m and sends new.  If the connection drops before the   *)
(* acknowledgement, m will be delivered again.                             *)
Take(m, new) ==
    /\ m \in bus
    /\ \/ /\ bus' = (bus \ {m}) \cup new
          /\ UNCHANGED repeated
       \/ /\ MayFail
          /\ bus' = bus \cup new
          /\ repeated' = repeated + 1
    /\ UNCHANGED lost

Send(new) == bus' = bus \cup new

(* publish skips a message while the channel is down.                      *)
Lose(m) ==
    /\ MayFail
    /\ m \in bus
    /\ bus' = bus \ {m}
    /\ lost' = lost + 1
    /\ UNCHANGED <<backendVars, cbpVars, moved, askVars, repeated>>

-----------------------------------------------------------------------------
(* Users and admins at goldex-backend.                                     *)

(* The row is saved; a gateway-bound one asks goldex-cbp for a payment.    *)
Create(r) ==
    /\ row[r] = None
    /\ Cardinality({x \in Rows : row[x] # None}) < MaxRows
    /\ row' = [row EXCEPT ![r] = "PENDING"]
    /\ Send(IF r \in Bound THEN {Msg("request", r, 0)} ELSE {})
    /\ UNCHANGED <<pages, task, wallet, byEvent, byAdmin, stale, cbpVars, moved,
                   askVars, faultVars>>

(* The row stays PENDING, so an approval can be given again.               *)
ApproveGatewayWithdraw(r) ==
    /\ r \in Withdrawals \cap Bound
    /\ row[r] = "PENDING"
    /\ approvals[r] < MaxApprovals
    /\ approvals' = [approvals EXCEPT ![r] = @ + 1]
    /\ Send({Msg("approve", r, 0)})
    /\ UNCHANGED <<backendVars, cbpVars, moved, callbacks, faultVars>>

(* A task reads the row.                                                   *)
StartTask(r, t) ==
    /\ task[r][t] = None
    /\ task' = [task EXCEPT ![r][t] = row[r]]
    /\ UNCHANGED <<row, pages, wallet, byEvent, byAdmin, stale>>

StartHumanTask(r, name) ==
    /\ Cardinality({t \in HumanTasks : task[r][t] # None}) < MaxRunning
    /\ StartTask(r, <<name, 0>>)
    /\ UNCHANGED <<cbpVars, moved, bus, askVars, faultVars>>

StartCancel(r) == row[r] = "PENDING" /\ StartHumanTask(r, "cancel")

(* process with a status other than COMPLETED.                             *)
StartSet(r) == row[r] \in Open /\ StartHumanTask(r, "set")

(* What the transactions written for a row amount to.                      *)
Booked(r) == byEvent[r] + byAdmin[r]
Entries == [r \in Rows |-> Booked(r) * Amount[r]]
OwnedBy(u, S) == {r \in S : Owner[r] = u}

(* What was deposited for u, by any path, in transactions of today.        *)
Deposited(u) == SumFunctionOnSet(Entries, OwnedBy(u, Deposits))

(* The daily limit is read before the wallet is locked.                    *)
WithinLimit(r) ==
    r \in Deposits /\ DailyLimit[Owner[r]] > 0 =>
        Deposited(Owner[r]) + Amount[r] <= DailyLimit[Owner[r]]

(* process with COMPLETED by admin a.                                      *)
StartComplete(r, a) ==
    row[r] \in Open /\ WithinLimit(r) /\ StartHumanTask(r, a)

EndTask(r, t) == task' = [task EXCEPT ![r][t] = None]

(* The save of task t: the row as it was read, with status s.              *)
Save(r, t, s) ==
    /\ task[r][t] # None
    /\ EndTask(r, t)
    /\ row' = [row EXCEPT ![r] = s]
    /\ stale' = [stale EXCEPT ![r] = IF row[r] = task[r][t] THEN @ ELSE @ + 1]

FinishCancel(r) ==
    /\ Save(r, <<"cancel", 0>>, "CANCELLED")
    /\ UNCHANGED <<pages, wallet, byEvent, byAdmin, cbpVars, moved, bus,
                   askVars, faultVars>>

(* ProcessDepositDto lets the admin choose any status of the enum.         *)
FinishSet(r) ==
    /\ \E s \in RowStates \ {"COMPLETED"} : Save(r, <<"set", 0>>, s)
    /\ UNCHANGED <<pages, wallet, byEvent, byAdmin, cbpVars, moved, bus,
                   askVars, faultVars>>

(* Mutant: the balance is not compared with the amount.                    *)
NeverRefused(r) == TRUE

CanBook(r) == r \in Withdrawals => wallet[Owner[r]] >= Amount[r]

BookWallet(r) ==
    wallet' = [wallet EXCEPT ![Owner[r]] =
                  IF r \in Deposits THEN @ + Amount[r] ELSE @ - Amount[r]]

FinishComplete(r, a) ==
    /\ CanBook(r)
    /\ Save(r, <<a, 0>>, "COMPLETED")
    /\ BookWallet(r)
    /\ byAdmin' = [byAdmin EXCEPT ![r] = @ + 1]
    /\ UNCHANGED <<pages, byEvent, cbpVars, moved, bus, askVars, faultVars>>

(* The balance does not cover the withdrawal: rolled back.                 *)
RefuseComplete(r, a) ==
    /\ task[r][<<a, 0>>] # None
    /\ ~CanBook(r)
    /\ EndTask(r, <<a, 0>>)
    /\ UNCHANGED <<row, pages, wallet, byEvent, byAdmin, stale, cbpVars, moved,
                   bus, askVars, faultVars>>

-----------------------------------------------------------------------------
(* Payment events at goldex-backend.                                       *)

(* Mutant: a completed row is not taken for a closed one.                  *)
IsOpenOrCompleted(r) == row[r] \notin {"FAILED", "CANCELLED"}

IsOpen(r) == row[r] \notin Terminal

Ignores(r, kind) ==
    \/ ~IsOpen(r)
    \/ kind = "processing" /\ row[r] # "PENDING"

(* A processing, failed or rejected event is read, and later saved.        *)
OnEvent(r, n, kind) ==
    /\ Take(Msg(kind, r, n), {})
    /\ IF Ignores(r, kind) THEN UNCHANGED backendVars
                           ELSE StartTask(r, <<kind, n>>)
    /\ UNCHANGED <<cbpVars, moved, askVars>>

(* Mutant: the status of the payment is written to the row.                *)
StatusAsSent(kind) == CASE kind = "processing" -> "PROCESSING"
                        [] kind = "failed" -> "FAILED"
                        [] kind = "rejected" -> "REJECTED"

StatusOf(kind) == CASE kind = "processing" -> "PROCESSING"
                    [] kind = "failed" -> "FAILED"
                    [] kind = "rejected" -> "CANCELLED"

(* mergePaymentMeta gives the row the pay page of the payment.             *)
SaveEvent(r, n, kind) ==
    /\ Save(r, <<kind, n>>, StatusOf(kind))
    /\ pages' = IF kind = "failed" THEN pages
                ELSE [pages EXCEPT ![r] = @ \cup {n}]
    /\ UNCHANGED <<wallet, byEvent, byAdmin, cbpVars, moved, bus, askVars,
                   faultVars>>

(* completeGatewayDeposit, completeGatewayWithdraw: the row is read again  *)
(* under its lock.  An uncovered withdrawal throws; the message is gone.   *)
OnSucceeded(r, n) ==
    /\ Take(Msg("succeeded", r, n), {})
    /\ IF IsOpen(r) /\ CanBook(r)
       THEN /\ row' = [row EXCEPT ![r] = "COMPLETED"]
            /\ BookWallet(r)
            /\ byEvent' = [byEvent EXCEPT ![r] = @ + 1]
            /\ UNCHANGED <<pages, task, byAdmin, stale>>
       ELSE UNCHANGED backendVars
    /\ UNCHANGED <<cbpVars, moved, askVars>>

(* The tasks of the process are gone, their messages acknowledged.         *)
BackendCrash ==
    /\ MayFail
    /\ lost' = lost + 1
    /\ task' = [r \in Rows |-> [t \in Tasks |-> None]]
    /\ UNCHANGED <<row, pages, wallet, byEvent, byAdmin, stale, cbpVars, moved,
                   bus, askVars, repeated>>

-----------------------------------------------------------------------------
(* Commands at goldex-cbp.                                                 *)

(* The place of a row's next payment; two may have the same reference.     *)
NextCopy(r) == {n \in Copies : /\ pay[r][n] = None
                               /\ \A k \in 1..(n - 1) : pay[r][k] # None}

(* Mutant: a refusal is logged and the command is gone.                    *)
RefuseSilently(r) ==
    /\ \E n \in NextCopy(r) : pay' = [pay EXCEPT ![r][n] = "FAILED"]
    /\ Take(Msg("request", r, 0), {})
    /\ UNCHANGED <<backendVars, charging, sending, checking, moved, askVars>>

(* Refused while it is prepared: recordSetupFailure.                       *)
RefuseRequest(r) ==
    /\ \E n \in NextCopy(r) :
        /\ pay' = [pay EXCEPT ![r][n] = "FAILED"]
        /\ Take(Msg("request", r, 0), {Msg("failed", r, n)})
    /\ UNCHANGED <<backendVars, charging, sending, checking, moved, askVars>>

(* createDepositCore: nothing is saved before the gateway has answered.    *)
StartCharge(r) ==
    /\ r \in Deposits
    /\ Take(Msg("request", r, 0), {})
    /\ charging' = [charging EXCEPT ![r] = @ + 1]
    /\ UNCHANGED <<backendVars, pay, sending, checking, moved, askVars>>

FinishCharge(r) ==
    /\ charging[r] > 0
    /\ charging' = [charging EXCEPT ![r] = @ - 1]
    /\ \E n \in NextCopy(r), answered \in BOOLEAN :
        /\ pay' = [pay EXCEPT ![r][n] =
                      IF answered THEN "PROCESSING" ELSE "FAILED"]
        /\ Send({Msg(IF answered THEN "processing" ELSE "failed", r, n)})
    /\ UNCHANGED <<backendVars, sending, checking, moved, askVars, faultVars>>

(* Mutant: a withdrawal is sent as soon as it is requested.                *)
SendWithdraw(r) ==
    /\ r \in Withdrawals
    /\ Take(Msg("request", r, 0), {})
    /\ \E n \in NextCopy(r) :
        /\ pay' = [pay EXCEPT ![r][n] = "PENDING"]
        /\ sending' = [sending EXCEPT ![r][n] = @ + 1]
    /\ UNCHANGED <<backendVars, charging, checking, moved, askVars>>

(* createWithdrawCore: saved, and nothing is said to the backend.          *)
KeepWithdraw(r) ==
    /\ r \in Withdrawals
    /\ Take(Msg("request", r, 0), {})
    /\ \E n \in NextCopy(r) : pay' = [pay EXCEPT ![r][n] = "PENDING"]
    /\ UNCHANGED <<backendVars, charging, sending, checking, moved, askVars>>

(* approveWithdraw takes any payment of the row.                           *)
OnApprove(r) ==
    /\ Take(Msg("approve", r, 0), {})
    /\ \E n \in Copies :
        /\ pay[r][n] = "PENDING"
        /\ sending' = [sending EXCEPT ![r][n] = @ + 1]
    /\ UNCHANGED <<backendVars, pay, charging, checking, moved, askVars>>

(* The payment found is not PENDING, or there is none yet: dropped.        *)
DropApprove(r) ==
    /\ Take(Msg("approve", r, 0), {})
    /\ \/ \A n \in Copies : pay[r][n] = None
       \/ \E n \in Copies : pay[r][n] \notin {"PENDING", None}
    /\ UNCHANGED <<backendVars, cbpVars, moved, askVars>>

(* gateway.withdraw answers, or throws with or without having sent money.  *)
FinishTransfer(r, n) ==
    /\ sending[r][n] > 0
    /\ sending' = [sending EXCEPT ![r][n] = @ - 1]
    /\ \E sent \in {0, 1}, answered \in BOOLEAN :
        /\ answered => sent = 1
        /\ moved' = [moved EXCEPT ![r][n] = @ + sent]
        /\ pay' = [pay EXCEPT ![r][n] =
                      IF answered THEN "PROCESSING" ELSE "FAILED"]
        /\ Send({Msg(IF answered THEN "processing" ELSE "failed", r, n)})
    /\ UNCHANGED <<backendVars, charging, checking, askVars, faultVars>>

-----------------------------------------------------------------------------
(* The payer and the callbacks.                                            *)

(* The payer pays on a page the row has shown, once.                       *)
PayCharge(r, n) ==
    /\ r \in Deposits
    /\ n \in pages[r]
    /\ moved[r][n] = 0
    /\ moved' = [moved EXCEPT ![r][n] = 1]
    /\ UNCHANGED <<backendVars, cbpVars, bus, askVars, faultVars>>

(* The payer comes back from the page, saying that he paid or not; the     *)
(* backend relays it.                                                      *)
ForwardCallback(r, n, result) ==
    /\ n \in pages[r]
    /\ callbacks[r] < MaxCallbacks
    /\ callbacks' = [callbacks EXCEPT ![r] = @ + 1]
    /\ Send({Msg(result, r, n)})
    /\ UNCHANGED <<backendVars, cbpVars, moved, approvals, faultVars>>

(* handleKainoCallback: an unpaid one rejects the payment, at once.        *)
OnUnpaid(r, n) ==
    /\ IF pay[r][n] \in {"SUCCEEDED", "REJECTED"}
       THEN /\ Take(Msg("unpaid", r, n), {})
            /\ UNCHANGED pay
       ELSE /\ Take(Msg("unpaid", r, n), {Msg("rejected", r, n)})
            /\ pay' = [pay EXCEPT ![r][n] = "REJECTED"]
    /\ UNCHANGED <<backendVars, charging, sending, checking, moved, askVars>>

(* A paid one is verified, unless the payment has SUCCEEDED already.       *)
OnPaid(r, n) ==
    /\ Take(Msg("paid", r, n), {})
    /\ checking' = IF pay[r][n] = "SUCCEEDED" THEN checking
                   ELSE [checking EXCEPT ![r][n] = @ + 1]
    /\ UNCHANGED <<backendVars, pay, charging, sending, moved, askVars>>

(* Mutant: what the callback says is not verified.                         *)
BelieveCallback(r, n) ==
    /\ checking[r][n] > 0
    /\ checking' = [checking EXCEPT ![r][n] = @ - 1]
    /\ pay' = [pay EXCEPT ![r][n] = "SUCCEEDED"]
    /\ Send({Msg("succeeded", r, n)})
    /\ UNCHANGED <<backendVars, charging, sending, moved, askVars, faultVars>>

(* verify says whether the gateway has moved the money; it may also throw. *)
FinishVerify(r, n) ==
    /\ checking[r][n] > 0
    /\ checking' = [checking EXCEPT ![r][n] = @ - 1]
    /\ \/ /\ moved[r][n] = 0
          /\ UNCHANGED <<pay, bus, faultVars>>
       \/ /\ moved[r][n] > 0
          /\ pay' = [pay EXCEPT ![r][n] = "SUCCEEDED"]
          /\ Send({Msg("succeeded", r, n)})
          /\ UNCHANGED faultVars
       \/ /\ MayFail
          /\ lost' = lost + 1
          /\ UNCHANGED <<pay, bus, repeated>>
    /\ UNCHANGED <<backendVars, charging, sending, moved, askVars>>

(* Gateway calls that were running may still move the money.               *)
CbpCrash ==
    /\ MayFail
    /\ lost' = lost + 1
    /\ charging' = [r \in Rows |-> 0]
    /\ sending' = [r \in Rows |-> [n \in Copies |-> 0]]
    /\ checking' = [r \in Rows |-> [n \in Copies |-> 0]]
    /\ moved' \in {moved, [r \in Rows |-> [n \in Copies |->
                                moved[r][n] + sending[r][n]]]}
    /\ UNCHANGED <<backendVars, pay, bus, askVars, repeated>>

-----------------------------------------------------------------------------
BackendStep(r) ==
    \/ Create(r) \/ ApproveGatewayWithdraw(r)
    \/ StartCancel(r) \/ FinishCancel(r)
    \/ StartSet(r) \/ FinishSet(r)
    \/ \E a \in Admins :
        StartComplete(r, a) \/ FinishComplete(r, a) \/ RefuseComplete(r, a)
    \/ \E n \in Copies :
        \/ OnSucceeded(r, n)
        \/ \E kind \in Events \ {"succeeded"} :
            OnEvent(r, n, kind) \/ SaveEvent(r, n, kind)

CbpStep(r) ==
    \/ RefuseRequest(r) \/ StartCharge(r) \/ FinishCharge(r) \/ KeepWithdraw(r)
    \/ OnApprove(r) \/ DropApprove(r)
    \/ \E n \in Copies :
        FinishTransfer(r, n) \/ OnUnpaid(r, n) \/ OnPaid(r, n) \/ FinishVerify(r, n)

OutsideStep(r) ==
    \E n \in Copies :
        \/ PayCharge(r, n)
        \/ \E result \in Callbacks : ForwardCallback(r, n, result)

Next ==
    \/ \E r \in Rows : BackendStep(r) \/ CbpStep(r) \/ OutsideStep(r)
    \/ \E m \in bus : Lose(m)
    \/ BackendCrash \/ CbpCrash

Spec == Init /\ [][Next]_vars

(* Queues deliver, and running handlers go on: event loops do not stop.    *)
(* Stated for what the answers to a deposit need.                          *)
Delivery ==
    /\ \A r \in Deposits :
        /\ WF_vars(RefuseRequest(r) \/ StartCharge(r))
        /\ WF_vars(FinishCharge(r))
        /\ \A n \in Copies :
            /\ WF_vars(OnSucceeded(r, n))
            /\ \A kind \in {"processing", "failed"} :
                WF_vars(OnEvent(r, n, kind)) /\ WF_vars(SaveEvent(r, n, kind))

FairSpec == Spec /\ Delivery
=============================================================================
