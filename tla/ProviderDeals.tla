--------------------------- MODULE ProviderDeals ---------------------------
(***************************************************************************)
(* MARKET and QUOTE orders: placed by the pricing engine with a provider,  *)
(* settled by the answer it reports, chased by the backend when no answer  *)
(* comes.  The engine keeps a deal row in its database and the tracking of *)
(* the provider's answer in memory.  Consumers on both sides acknowledge a *)
(* message and run its handler without waiting for the one before.         *)
(***************************************************************************)
EXTENDS OrderRows

CONSTANTS
    Zaryar,     \* orders whose provider can be asked for its deals again
    Requester,  \* the user who takes a quote
    Gets,       \* what a provider's fill brings the customer
    MaxCopies,  \* equal messages in flight
    MaxTicks    \* polls of one deal that overlap

ASSUME DealsAssumption ==
    /\ Zaryar \subseteq Market
    /\ Requester \in [Quote -> Users]
    /\ \A o \in Quote : Requester[o] # Owner[o]
    /\ Gets \in [Market -> Nat]
    /\ MaxCopies \in Nat /\ MaxTicks \in Nat

Answers == {"done", "failed"}
Messages == {"place", "placed", "query", "refused"} \cup Answers
DealStates == {"PENDING", "DONE", "CANCELLED"}

VARIABLES
    bus,        \* messages in flight, per order
    submitting, \* placement requests that await the provider
    provider,   \* what the provider has done with an order
    deal,       \* dealStatus of the provider_deals row
    tracked,    \* the engine polls the provider about the order
    ticking     \* polls that have seen an answer and not reported it yet

engineVars == <<submitting, provider, deal, tracked, ticking>>
dealVars == <<bus, engineVars>>

DealsTypeOK ==
    /\ bus \in [Market -> [Messages -> Nat]]
    /\ submitting \in [Market -> BOOLEAN]
    /\ provider \in [Market -> DealStates \cup {None}]
    /\ deal \in [Market -> DealStates \cup {None}]
    /\ tracked \in [Market -> BOOLEAN]
    /\ ticking \in [Market -> Nat]

DealsInit ==
    /\ bus = [o \in Market |-> [m \in Messages |-> 0]]
    /\ submitting = [o \in Market |-> FALSE]
    /\ provider = [o \in Market |-> None] /\ deal = [o \in Market |-> None]
    /\ tracked = [o \in Market |-> FALSE] /\ ticking = [o \in Market |-> 0]

-----------------------------------------------------------------------------
(* The queues.                                                             *)

CanSend(o, m) == bus[o][m] < MaxCopies

Send(o, m) == CanSend(o, m) /\ bus' = [bus EXCEPT ![o][m] = @ + 1]

(* Mutant: a message is taken once too often.                              *)
TakeAgain(o, m) == bus' = [bus EXCEPT ![o][m] = @ - 1]

Take(o, m) == bus[o][m] > 0 /\ bus' = [bus EXCEPT ![o][m] = @ - 1]

(* The channel is down when m is published.                                *)
Lose(o, m) ==
    /\ Fault /\ Take(o, m)
    /\ UNCHANGED <<orderVars, engineVars>>

-----------------------------------------------------------------------------
(* The pricing engine.                                                     *)

(* createOrder ends by sending the order on, whatever became of its row.   *)
Dispatch(o) ==
    /\ placing[o] = "frozen"
    /\ placing' = [placing EXCEPT ![o] = "over"]
    /\ Send(o, "place")
    /\ UNCHANGED <<rowVars, task, walletVars, blame, engineVars, faults>>

OnPlace(o) ==
    /\ Take(o, "place")
    /\ submitting' = [submitting EXCEPT ![o] = TRUE]
    /\ UNCHANGED <<orderVars, provider, deal, tracked, ticking, faults>>

(* The deal is saved, or not; then it is announced and tracked.            *)
Accepted(o) ==
    /\ submitting[o]
    /\ submitting' = [submitting EXCEPT ![o] = FALSE]
    /\ provider' = [provider EXCEPT ![o] = "PENDING"]
    /\ \/ deal' = [deal EXCEPT ![o] = "PENDING"] /\ UNCHANGED faults
       \/ Fault /\ UNCHANGED deal
    /\ tracked' = [tracked EXCEPT ![o] = TRUE]
    /\ Send(o, "placed")
    /\ UNCHANGED <<orderVars, ticking>>

(* The provider refuses, or the request throws after it has accepted.      *)
Refused(o) ==
    /\ submitting[o]
    /\ submitting' = [submitting EXCEPT ![o] = FALSE]
    /\ \/ UNCHANGED <<provider, faults>>
       \/ Fault /\ provider' = [provider EXCEPT ![o] = "PENDING"]
    /\ Send(o, "refused")
    /\ UNCHANGED <<orderVars, deal, tracked, ticking>>

(* External: the provider carries the deal out, or cancels it.             *)
Answer(o) ==
    /\ provider[o] = "PENDING"
    /\ \E s \in {"DONE", "CANCELLED"} : provider' = [provider EXCEPT ![o] = s]
    /\ UNCHANGED <<orderVars, bus, submitting, deal, tracked, ticking, faults>>

(* A poll of the tracker sees an answer; the next one comes 5 s later,     *)
(* whether or not this one has been reported.                              *)
Poll(o) ==
    /\ tracked[o]
    /\ provider[o] \in {"DONE", "CANCELLED"}
    /\ ticking[o] < MaxTicks
    /\ ticking' = [ticking EXCEPT ![o] = @ + 1]
    /\ UNCHANGED <<orderVars, bus, submitting, provider, deal, tracked, faults>>

AnswerOf(s) == IF s = "DONE" THEN "done" ELSE "failed"

(* settleTrackedOrder: recorded first; tracked until the broker has it.    *)
Report(o) ==
    /\ ticking[o] > 0
    /\ ticking' = [ticking EXCEPT ![o] = @ - 1]
    /\ deal' = IF deal[o] = None THEN deal ELSE [deal EXCEPT ![o] = provider[o]]
    /\ \/ /\ Send(o, AnswerOf(provider[o]))
          /\ tracked' = [tracked EXCEPT ![o] = FALSE]
          /\ UNCHANGED faults
       \/ /\ Fault
          /\ UNCHANGED <<bus, tracked>>
    /\ UNCHANGED <<orderVars, submitting, provider>>

(* An admin has the provider's deals fetched again.                        *)
FetchDeals(o) ==
    /\ o \in Zaryar
    /\ provider[o] # None
    /\ deal' = [deal EXCEPT ![o] = provider[o]]
    /\ UNCHANGED <<orderVars, bus, submitting, provider, tracked, ticking, faults>>

Answered(queues, m) == [queues EXCEPT !["query"] = @ - 1, ![m] = @ + 1]

(* Mutant: a deal without an answer is reported as failed.                 *)
PendingIsFailed(o) ==
    /\ bus[o]["query"] > 0
    /\ deal[o] # None
    /\ LET m == IF deal[o] = "DONE" THEN "done" ELSE "failed" IN
          /\ CanSend(o, m)
          /\ bus' = [bus EXCEPT ![o] = Answered(bus[o], m)]
    /\ UNCHANGED <<orderVars, engineVars, faults>>

(* handleOrderStatusQuery: an answer is repeated, no answer is none.       *)
OnQuery(o) ==
    /\ bus[o]["query"] > 0
    /\ IF deal[o] \in {"DONE", "CANCELLED"}
       THEN LET m == AnswerOf(deal[o]) IN
            /\ CanSend(o, m)
            /\ bus' = [bus EXCEPT ![o] = Answered(bus[o], m)]
       ELSE Take(o, "query")
    /\ UNCHANGED <<orderVars, engineVars, faults>>

(* A restart forgets what it was submitting and tracking.                  *)
EngineCrash ==
    /\ Fault
    /\ submitting' = [o \in Market |-> FALSE]
    /\ provider' \in {provider, [o \in Market |->
                        IF submitting[o] THEN "PENDING" ELSE provider[o]]}
    /\ tracked' = [o \in Market |-> FALSE]
    /\ ticking' = [o \in Market |-> 0]
    /\ UNCHANGED <<orderVars, bus, deal>>

-----------------------------------------------------------------------------
(* goldex-backend.                                                         *)

(* handleOrderPlaced updates one column, whatever the status.              *)
OnPlaced(o) ==
    /\ Take(o, "placed")
    /\ linked' = [linked EXCEPT ![o] = TRUE]
    /\ UNCHANGED <<status, exec, placing, task, walletVars, blame, engineVars,
                   faults>>

(* Mutant: orders are skipped that are not terminal.                       *)
SkipOpen(o, t, answer) ==
    /\ status[o] \in Open
    /\ Take(o, answer)
    /\ UNCHANGED <<orderVars, engineVars, faults>>

(* handleStatusChanged reads the row.                                      *)
OnStatus(o, t, answer) ==
    /\ Take(o, answer)
    /\ IF status[o] \in Open
       THEN StartTask(o, t, answer)
       ELSE UNCHANGED orderVars
    /\ UNCHANGED <<engineVars, faults>>

(* It then links an order that was not linked, saving all it has read.     *)
Link(o, t) ==
    /\ Has(o, t, Answers)
    /\ ~task[o][t].linked
    /\ status' = [status EXCEPT ![o] = task[o][t].status]
    /\ exec' = [exec EXCEPT ![o] = task[o][t].exec]
    /\ linked' = [linked EXCEPT ![o] = TRUE]
    /\ task' = [task EXCEPT ![o][t].linked = TRUE]
    /\ blame' = [blame EXCEPT ![o] = @ \cup Outdated(o, t)]
    /\ UNCHANGED <<placing, walletVars, dealVars, faults>>

(* confirmOrderExecution: the lock is spent, the fill credited.            *)
Confirm(o, t) ==
    /\ Has(o, t, {"done"}) /\ task[o][t].linked
    /\ locked' = Add(locked, Paid(o), -LockOf(o))
    /\ free' = Add(free, Got(o), Gets[o])
    /\ usedBy' = Add(usedBy, o, LockOf(o))
    /\ SaveTask(o, t, "COMPLETED", Qty[o], {})
    /\ EndTask(o, t)
    /\ UNCHANGED <<placing, lockedBy, freedBy, dealVars, faults>>

Reject(o, t) ==
    /\ Has(o, t, {"failed", "refused"})
    /\ task[o][t].kind = "refused" \/ task[o][t].linked
    /\ Release(o, t, "REJECTED")
    /\ UNCHANGED <<dealVars, faults>>

(* StuckOrderReconciler: pending orders a provider has acknowledged, 3     *)
(* minutes old.                                                            *)
AskAgain(o) ==
    /\ status[o] = "PENDING" /\ linked[o]
    /\ Send(o, "query")
    /\ UNCHANGED <<orderVars, engineVars, faults>>

(* requestMatch reads a quote for the user who takes it.                   *)
StartMatch(o, t) ==
    /\ o \in Quote
    /\ status[o] = "PENDING"
    /\ StartTask(o, t, "match")
    /\ UNCHANGED <<dealVars, faults>>

(* It pays what the requester gives, and the order's lock, to each other.  *)
FinishMatch(o, t) ==
    LET give == <<Requester[o], Got(o)[2]>>
        take == <<Requester[o], Paid(o)[2]>>
        cost == Cost(o, Qty[o])
        gain == Gain(o, Qty[o])
    IN  /\ o \in Quote /\ Has(o, t, {"match"})
        /\ free[give] >= gain /\ locked[Paid(o)] >= cost
        /\ locked' = Add(locked, Paid(o), -cost)
        /\ free' = Add(Add(Add(free, give, -gain), take, cost), Got(o), gain)
        /\ usedBy' = Add(usedBy, o, cost)
        /\ SaveTask(o, t, "COMPLETED", Qty[o], IF Fee[o] > 0 THEN {"fee"} ELSE {})
        /\ EndTask(o, t)
        /\ UNCHANGED <<placing, lockedBy, freedBy, dealVars, faults>>

RefuseMatch(o, t) ==
    /\ o \in Quote /\ Has(o, t, {"match"})
    /\ \/ free[<<Requester[o], Got(o)[2]>>] < Gain(o, Qty[o])
       \/ locked[Paid(o)] < Cost(o, Qty[o])
    /\ EndTask(o, t)
    /\ UNCHANGED <<rowVars, placing, walletVars, blame, dealVars, faults>>

-----------------------------------------------------------------------------
EngineStep(o) ==
    \/ OnPlace(o) \/ Accepted(o) \/ Refused(o) \/ Answer(o)
    \/ Poll(o) \/ Report(o) \/ FetchDeals(o) \/ OnQuery(o)

SettleStep(o) ==
    \/ Dispatch(o) \/ OnPlaced(o) \/ AskAgain(o)
    \/ \E t \in Tasks :
        \/ \E answer \in Answers \cup {"refused"} : OnStatus(o, t, answer)
        \/ Link(o, t) \/ Confirm(o, t) \/ Reject(o, t)
        \/ StartMatch(o, t) \/ FinishMatch(o, t) \/ RefuseMatch(o, t)

DealStep ==
    \/ \E o \in Market : EngineStep(o) \/ SettleStep(o)
    \/ \E o \in Market, m \in Messages : Lose(o, m)
    \/ EngineCrash
=============================================================================
