--------------------------- MODULE OrderPromises ---------------------------
(***************************************************************************)
(* What customers are owed by the order handlers.  An order that has met   *)
(* none of the causes of OrderRows is clear: its row can be trusted.       *)
(***************************************************************************)
EXTENDS CustomerOrders

Clear(o) == blame[o] = {}

(* The rows, wallets, messages and the book stay within their types.       *)
OrdersTypeOK == RowsTypeOK /\ DealsTypeOK /\ BookTypeOK

(* What the row of an order says has happened in the wallets: an open      *)
(* order is locked but for what was executed, a completed one is spent, a  *)
(* cancelled or rejected one has its remainder back.                       *)
Unlocked(o) == lockedBy[o] = 0 /\ usedBy[o] = 0 /\ freedBy[o] = 0

RowAgrees(o) ==
    \/ /\ status[o] \in Open
       /\ lockedBy[o] = LockOf(o)
       /\ usedBy[o] = Cost(o, exec[o]) /\ freedBy[o] = 0
       /\ exec[o] < Qty[o]
       /\ status[o] = "PENDING" <=> exec[o] = 0
       /\ o \in Market => exec[o] = 0
    \/ /\ status[o] = "COMPLETED"
       /\ lockedBy[o] = LockOf(o)
       /\ usedBy[o] = Cost(o, exec[o]) + Fee[o] /\ freedBy[o] = 0
       /\ exec[o] >= Qty[o]
    \/ /\ status[o] \in {"REJECTED", "CANCELLED"}
       /\ lockedBy[o] = LockOf(o)
       /\ usedBy[o] = Cost(o, exec[o])
       /\ usedBy[o] + freedBy[o] = lockedBy[o]
    \/ status[o] = "REJECTED" /\ exec[o] = 0 /\ Unlocked(o)

(* Every handler that settles, matches or unlocks an order leaves a row    *)
(* that tells what its wallets have been through.                          *)
RowTellsLedger ==
    \A o \in Orders : placing[o] = "over" /\ Clear(o) => RowAgrees(o)

(* The book offers an order that is not open to nobody; what it offers of  *)
(* an open one, with what running matches hold of it, is what is left.     *)
Waiting(m) == SumFunctionOnSet([o \in Limit |-> fills[o][m]], Limit)

Quiet(o) ==
    placing[o] = "over" /\ Clear(o) /\ \A t \in Tasks : task[o][t] = NoTask

BookFollowsRows ==
    \A o \in Limit : Quiet(o) =>
        IF status[o] \in Open THEN book[o] + Waiting(o) + exec[o] = Qty[o]
        ELSE book[o] = 0

(* No free balance goes below zero; a locked one only for an order that is *)
(* not clear.                                                              *)
BalancesAreBacked ==
    \A w \in Wallets :
        /\ free[w] >= 0
        /\ locked[w] < 0 => \E o \in Orders : Paid(o) = w /\ ~Clear(o)

(* Cancelling, rejecting and trading with each other, however stale, makes *)
(* and loses nothing: what a buyer pays over the seller's price is in the  *)
(* ledger, and is never owed by it.                                        *)
Balance == [w \in Wallets |-> free[w] + locked[w]]
Held(a) == SumFunctionOnSet(Balance, Users \X {a})
Brought(a) == SumFunctionOnSet(Funds, Users \X {a})

TradesConserve ==
    /\ spread >= 0
    /\ (\A o \in Market : Clear(o) /\ status[o] # "COMPLETED") =>
          \A a \in Assets :
              Held(a) + (IF a = "rial" THEN spread ELSE 0) = Brought(a)

(* A completed order was carried out by the provider, unless another user  *)
(* has taken it: a quote without commission, or one that is not clear.     *)
(* While nothing is lost the provider does not carry out a refused order.  *)
RowsFollowProvider ==
    \A o \in Market :
        /\ status[o] = "COMPLETED" /\ (o \in Quote => Clear(o) /\ Fee[o] > 0)
              => provider[o] = "DONE"
        /\ status[o] = "REJECTED" /\ faults = 0 => provider[o] # "DONE"

(* An answer that the engine has recorded reaches the row, whichever       *)
(* messages were lost.                                                     *)
AnswersArrive ==
    \A o \in Market :
        deal[o] \in {"DONE", "CANCELLED"} /\ linked[o]
            ~> status[o] \in Terminal \/ ~Clear(o)
=============================================================================
