--------------------------- MODULE CustomerOrders ---------------------------
(***************************************************************************)
(* The orders of goldex-backend together: provider deals and the limit     *)
(* book over the same rows and wallets, crashes of both programs, and the  *)
(* fairness of their handlers.                                             *)
(***************************************************************************)
EXTENDS ProviderDeals, LimitBook

vars == <<orderVars, faults, dealVars, limitVars>>

Init == RowsInit /\ DealsInit /\ BookInit

(* cancelOrder and cancelOrderAsAdmin; closePool does the same to every     *)
(* order of a market, one after another.                                   *)
StartCancel(o, t) ==
    /\ StartTask(o, t, "cancel")
    /\ Evict(o)
    /\ UNCHANGED <<dealVars, fills, filled, leg, spread, faults>>

BackendCrash ==
    /\ Fault
    /\ ForgetRequests
    /\ RestoreBook
    /\ UNCHANGED dealVars

RowNext ==
    /\ \E o \in Orders : RowStep(o)
    /\ UNCHANGED <<dealVars, limitVars, faults>>

FailNext ==
    /\ \E o \in Orders, t \in Tasks : FailTask(o, t)
    /\ UNCHANGED <<dealVars, limitVars>>

LimitNext ==
    /\ \E o \in Limit : LimitStep(o)
    /\ UNCHANGED <<dealVars, faults>>

FailLimit ==
    /\ \E o \in Limit : FailLeg(o)
    /\ UNCHANGED dealVars

DealNext == DealStep /\ UNCHANGED limitVars

Next ==
    \/ RowNext \/ FailNext \/ LimitNext \/ FailLimit \/ DealNext
    \/ \E o \in Orders, t \in Tasks : StartCancel(o, t)
    \/ BackendCrash

Spec == Init /\ [][Next]_vars

(* Handlers that have begun run to their end; polls, the reconciler's      *)
(* cron and the consumers come again and again.  A message may find every  *)
(* task taken, which is a bound of the model: hence SF.                    *)
Begun(o, t) ==
    /\ \/ Link(o, t) \/ Confirm(o, t) \/ Reject(o, t)
       \/ FinishMatch(o, t) \/ RefuseMatch(o, t)
       \/ FinishCancel(o, t) /\ UNCHANGED <<dealVars, faults>>
    /\ UNCHANGED limitVars

Consumed(o) ==
    /\ \E t \in Tasks, answer \in Answers : OnStatus(o, t, answer)
    /\ UNCHANGED limitVars

FairSpec ==
    /\ Spec
    /\ \A o \in Market :
          /\ WF_vars(AskAgain(o) /\ UNCHANGED limitVars)
          /\ WF_vars(OnQuery(o) /\ UNCHANGED limitVars)
          /\ SF_vars(Consumed(o))
          /\ \A t \in Tasks : WF_vars(Begun(o, t))
=============================================================================
