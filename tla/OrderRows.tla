----------------------------- MODULE OrderRows -----------------------------
(***************************************************************************)
(* Customer orders at goldex-backend: their rows, the wallets they lock,   *)
(* and what every kind of order goes through.  createOrder saves the row,  *)
(* locks the wallet in a second transaction and only then sends the order  *)
(* on; cancelOrder, cancelOrderAsAdmin and closePool read the row without  *)
(* a lock and unlock later.                                                *)
(*                                                                         *)
(* A "task" is a handler that has read an order and will save that entity. *)
(* What an order locks, uses and gets back is kept per order as well, as   *)
(* the transactions of its wallets record it.                              *)
(***************************************************************************)
EXTENDS Integers, FiniteSets, Functions

CONSTANTS
    Market,         \* MARKET and QUOTE orders, settled with a provider
    Quote,          \* the QUOTE orders: offered to other users as well
    Limit,          \* LIMIT orders, matched with each other
    Credit,         \* orders of users with a credit facility
    Users, Owner, Side, Qty, Price,
    Fee,            \* commission locked on top, by a QUOTE order that buys
    Funds,          \* free balance of a user in an asset
    Tasks,          \* handlers that may have read one order
    Together,       \* sets of orders that may be created together
    Slots,          \* those that may run at once, for an order
    MaxFaults       \* crashes, losses, refused transactions

Orders == Market \cup Limit
Assets == {"gold", "rial"}
Wallets == Users \X Assets

ASSUME OrdersAssumption ==
    /\ Market \cap Limit = {}
    /\ Quote \subseteq Market /\ Credit \subseteq Orders
    /\ Owner \in [Orders -> Users]
    /\ Side \in [Orders -> {"BUY", "SELL"}]
    /\ Qty \in [Orders -> Nat \ {0}]
    /\ Price \in [Orders -> Nat \ {0}]
    /\ Fee \in [Orders -> Nat]
    /\ \A o \in Orders : Fee[o] > 0 => o \in Quote /\ Side[o] = "BUY"
    /\ Funds \in [Wallets -> Nat]
    /\ IsFiniteSet(Orders) /\ IsFiniteSet(Users)
    /\ Together \subseteq SUBSET Orders
    /\ Slots \in [Orders -> SUBSET Tasks] /\ MaxFaults \in Nat

None == "none"
Open == {"PENDING", "PARTIALLY_COMPLETED"}
Terminal == {"COMPLETED", "REJECTED", "CANCELLED"}
Statuses == Open \cup Terminal

(* What a task is about to do: unlock the order as cancelled, complete it  *)
(* with the user who took the quote, or settle the provider's answer,      *)
(* which for a refused placement names no deal.                            *)
Kinds == {"cancel", "match", "done", "failed", "refused"}
Reads == [kind : Kinds, status : Open, exec : Nat, linked : BOOLEAN]

NoTask == [kind |-> None, status |-> "PENDING", exec |-> 0, linked |-> FALSE]

(* What can leave a row saying something else than its transactions:       *)
(* saved over what was not read; unlocked before it was locked; left off   *)
(* half way; matched without the commission; dropped by the taker.         *)
Causes == {"stale", "early", "halfway", "fee", "dropped"}

VARIABLES
    status, exec,   \* of the row; exec is executedQuantity
    linked,         \* the row has a providerOrderId
    placing,        \* where createOrder is
    task,           \* what the handlers of an order have read
    free, locked,   \* balances of the wallets
    lockedBy, usedBy, freedBy,  \* amounts locked, spent, unlocked for an order
    blame,          \* causes met by an order
    faults

rowVars == <<status, exec, linked>>
walletVars == <<free, locked, lockedBy, usedBy, freedBy>>
orderVars == <<rowVars, placing, task, walletVars, blame>>

RowsTypeOK ==
    /\ status \in [Orders -> Statuses \cup {None}]
    /\ exec \in [Orders -> Nat]
    /\ linked \in [Orders -> BOOLEAN]
    /\ placing \in [Orders -> {None, "saved", "frozen", "settling", "over"}]
    /\ task \in [Orders -> [Tasks -> Reads \cup {NoTask}]]
    /\ free \in [Wallets -> Int] /\ locked \in [Wallets -> Int]
    /\ lockedBy \in [Orders -> Nat]
    /\ usedBy \in [Orders -> Nat] /\ freedBy \in [Orders -> Nat]
    /\ blame \in [Orders -> SUBSET Causes]
    /\ faults \in Nat

RowsInit ==
    /\ status = [o \in Orders |-> None]
    /\ exec = [o \in Orders |-> 0]
    /\ linked = [o \in Orders |-> FALSE]
    /\ placing = [o \in Orders |-> None]
    /\ task = [o \in Orders |-> [t \in Tasks |-> NoTask]]
    /\ free = Funds /\ locked = [w \in Wallets |-> 0]
    /\ lockedBy = [o \in Orders |-> 0]
    /\ usedBy = [o \in Orders |-> 0] /\ freedBy = [o \in Orders |-> 0]
    /\ blame = [o \in Orders |-> {}]
    /\ faults = 0

MayFail == faults < MaxFaults
Fault == MayFail /\ faults' = faults + 1

-----------------------------------------------------------------------------
(* Wallets.                                                                *)

(* The wallet an order pays from, and the one it is paid into.             *)
Paid(o) == <<Owner[o], IF Side[o] = "BUY" THEN "rial" ELSE "gold">>
Got(o) == <<Owner[o], IF Side[o] = "BUY" THEN "gold" ELSE "rial">>

(* What q grams of an order cost, and bring, its owner.                    *)
Cost(o, q) == IF Side[o] = "BUY" THEN q * Price[o] ELSE q
Gain(o, q) == IF Side[o] = "BUY" THEN q ELSE q * Price[o]

LockOf(o) == Cost(o, Qty[o]) + Fee[o]

Add(f, w, n) == [f EXCEPT ![w] = @ + n]

(* Mutant: the whole order is unlocked, whatever was executed of it.       *)
WholeOf(o, e) == LockOf(o)

(* unlockOrder: what was not executed, and all of the commission.          *)
RemainderOf(o, e) == (IF e < Qty[o] THEN Cost(o, Qty[o] - e) ELSE 0) + Fee[o]

Unlock(o, e) ==
    LET n == RemainderOf(o, e) IN
    /\ locked' = Add(locked, Paid(o), -n)
    /\ free' = Add(free, Paid(o), n)
    /\ freedBy' = Add(freedBy, o, n)

-----------------------------------------------------------------------------
(* createOrder.                                                            *)

Create(o) ==
    /\ status[o] = None
    /\ \E s \in Together : {o} \cup {x \in Orders : status[x] # None} \subseteq s
    /\ status' = [status EXCEPT ![o] = "PENDING"]
    /\ placing' = [placing EXCEPT ![o] = "saved"]
    /\ UNCHANGED <<exec, linked, task, walletVars, blame>>

(* Mutant: the lock is not covered by a balance.                           *)
FreezeAnyway(o) ==
    /\ placing[o] = "saved"
    /\ free' = Add(free, Paid(o), -LockOf(o))
    /\ locked' = Add(locked, Paid(o), LockOf(o))
    /\ lockedBy' = Add(lockedBy, o, LockOf(o))
    /\ placing' = [placing EXCEPT ![o] = "frozen"]
    /\ UNCHANGED <<rowVars, task, usedBy, freedBy, blame>>

(* freezeForOrder.                                                         *)
Freeze(o) ==
    /\ placing[o] = "saved"
    /\ free[Paid(o)] >= LockOf(o)
    /\ free' = Add(free, Paid(o), -LockOf(o))
    /\ locked' = Add(locked, Paid(o), LockOf(o))
    /\ lockedBy' = Add(lockedBy, o, LockOf(o))
    /\ placing' = [placing EXCEPT ![o] = "frozen"]
    /\ UNCHANGED <<rowVars, task, usedBy, freedBy, blame>>

(* The entity of createOrder is saved as it was created, with status s and *)
(* e grams executed.                                                       *)
SaveCreated(o, s, e, causes) ==
    /\ status' = [status EXCEPT ![o] = s]
    /\ exec' = [exec EXCEPT ![o] = e]
    /\ blame' = [blame EXCEPT ![o] = @ \cup causes \cup
                    IF status[o] = "PENDING" /\ exec[o] = 0 THEN {} ELSE {"stale"}]
    /\ UNCHANGED linked

(* The catch of createOrder rejects the order; a lock it has is kept.      *)
RefuseFreeze(o) ==
    /\ placing[o] = "saved"
    /\ free[Paid(o)] < LockOf(o)
    /\ SaveCreated(o, "REJECTED", 0, {})
    /\ placing' = [placing EXCEPT ![o] = "over"]
    /\ UNCHANGED <<task, walletVars>>

(* The link or the collateral of a credit order cannot be saved.           *)
RefuseLink(o) ==
    /\ o \in Credit
    /\ placing[o] = "frozen"
    /\ SaveCreated(o, "REJECTED", 0, {"halfway"})
    /\ placing' = [placing EXCEPT ![o] = "over"]
    /\ UNCHANGED <<task, walletVars>>

-----------------------------------------------------------------------------
(* Tasks.                                                                  *)

(* An order that has met one of the causes is left to the handlers it has. *)
StartTask(o, t, kind) ==
    /\ t \in Slots[o]
    /\ task[o][t] = NoTask
    /\ blame[o] = {}
    /\ status[o] \in Open
    /\ task' = [task EXCEPT ![o][t] =
                   [kind |-> kind, status |-> status[o], exec |-> exec[o],
                    linked |-> linked[o]]]
    /\ UNCHANGED <<rowVars, placing, walletVars, blame>>

Has(o, t, kinds) == task[o][t].kind \in kinds

EndTask(o, t) == task' = [task EXCEPT ![o][t] = NoTask]

(* What is wrong with acting on what task t has read.                      *)
Outdated(o, t) ==
    (IF status[o] = task[o][t].status /\ exec[o] = task[o][t].exec
     THEN {} ELSE {"stale"})
    \cup (IF placing[o] \in {"saved", "settling"} THEN {"early"} ELSE {})

(* The entity of task t is saved with status s and e grams executed.       *)
SaveTask(o, t, s, e, causes) ==
    /\ status' = [status EXCEPT ![o] = s]
    /\ exec' = [exec EXCEPT ![o] = e]
    /\ linked' = [linked EXCEPT ![o] = task[o][t].linked]
    /\ blame' = [blame EXCEPT ![o] = @ \cup causes \cup Outdated(o, t)]

(* rejectOrder with what the task has read.                                *)
Release(o, t, s) ==
    /\ Unlock(o, task[o][t].exec)
    /\ SaveTask(o, t, s, task[o][t].exec, {})
    /\ EndTask(o, t)
    /\ UNCHANGED <<placing, lockedBy, usedBy>>

FinishCancel(o, t) ==
    /\ Has(o, t, {"cancel"})
    /\ Release(o, t, "CANCELLED")

(* The transaction of a task is rolled back: a deadlock, a frozen wallet.  *)
(* A limit order that was to be cancelled has left the book already.       *)
FailTask(o, t) ==
    /\ Has(o, t, Kinds)
    /\ Fault
    /\ EndTask(o, t)
    /\ blame' = IF o \in Limit THEN [blame EXCEPT ![o] = @ \cup {"dropped"}]
                ELSE blame
    /\ UNCHANGED <<rowVars, placing, walletVars>>

(* A restart forgets the tasks and the orders that are being placed.       *)
ForgetRequests ==
    /\ task' = [o \in Orders |-> [t \in Tasks |-> NoTask]]
    /\ placing' = [o \in Orders |-> IF placing[o] = None THEN None ELSE "over"]
    /\ blame' = [o \in Orders |->
                    IF placing[o] \in {"saved", "settling"}
                    THEN blame[o] \cup {"halfway"} ELSE blame[o]]
    /\ UNCHANGED <<rowVars, walletVars>>

RowStep(o) ==
    \/ Create(o) \/ Freeze(o) \/ RefuseFreeze(o) \/ RefuseLink(o)
    \/ \E t \in Tasks : FinishCancel(o, t)
=============================================================================
