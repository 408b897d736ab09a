----------------------------- MODULE P2pPromises -----------------------------
(***************************************************************************)
(* What the p2p market owes its users, stated over P2pMarket: invariants   *)
(* of its rows and wallets, what no step may do, what must happen in the   *)
(* end, the abstract specifications it implements, and the promises of the *)
(* documents that the code does not keep.                                  *)
(***************************************************************************)
EXTENDS P2pMarket

-----------------------------------------------------------------------------
(* Safety.                                                                 *)

TakenMatch == LiveMatch \cup {"CONFIRMED"}

(* A live match holds its part alone: the part names the match, is set     *)
(* aside before the proof and pinned after it, and a part that is set      *)
(* aside or pinned always has that match behind it.  A part is confirmed   *)
(* with its match (services reservePart, releasePart, settle, expiry).     *)
ReservationIsExclusive ==
    /\ \A m \in Matches : matchPart[m] # NoPart =>
        LET p == matchPart[m] IN
        /\ matchStatus[m] \in HeldMatch =>
                partStatus[p] = "RESERVED" /\ partRes[p] = m
        /\ matchStatus[m] \in PaidMatch =>
                partStatus[p] = "PAID_PENDING" /\ partRes[p] = m
        /\ matchStatus[m] = "CONFIRMED" => partStatus[p] = "CONFIRMED"
    /\ \A p \in Parts :
        IF partStatus[p] \in BusyPart
        THEN /\ partRes[p] \in Matches
             /\ matchPart[partRes[p]] = p
             /\ matchStatus[partRes[p]] \in LiveMatch
        ELSE partRes[p] = NoMatch

(* "Allowed only while nothing is reserved - someone may already be        *)
(* paying": a cancelled request has nobody left holding or paying a part.  *)
CancelledIsQuiet ==
    \A m \in Matches :
        matchStatus[m] \in LiveMatch /\ matchPart[m] # NoPart
        => reqState[RequestOf[matchPart[m]]] # "CANCELLED"

(* The intent states that go with a match that is live or confirmed.       *)
InStep(match, intent) ==
    \/ match = "RESERVED" /\ intent = "RESERVED"
    \/ match = "AWAITING_PAYMENT" /\ intent = "AWAITING_PAYMENT"
    \/ match = "PROOF_SUBMITTED" /\ intent = "PAYMENT_PROOF_SUBMITTED"
    \/ match = "WAITING_CONFIRMATION" /\ intent = "WAITING_WITHDRAWER_CONFIRMATION"
    \/ match = "REJECTED_BY_WITHDRAWER" /\ intent = "REJECTED_BY_WITHDRAWER"
    \/ match = "RESPONSE_TIMEOUT" /\ intent = "WITHDRAWER_RESPONSE_TIMEOUT"
    \/ match = "ESCALATED" /\ intent \in {"ESCALATED_TO_ADMIN", "MORE_INFO_REQUESTED"}
    \/ match = "CONFIRMED" /\ intent = "CONFIRMED"

(* An intent and its match walk in step, and an intent has at most one     *)
(* match that is live or confirmed: one deposit is credited at most once.  *)
IntentFollowsMatch ==
    /\ \A m \in Matches : matchStatus[m] \in TakenMatch =>
        /\ matchIntent[m] \in Intents
        /\ InStep(matchStatus[m], intentState[matchIntent[m]])
    /\ \A m, n \in Matches :
        /\ matchStatus[m] \in TakenMatch
        /\ matchStatus[n] \in TakenMatch
        /\ matchIntent[m] = matchIntent[n]
        => m = n

(* A part of a withdrawal is paid for at most once.                        *)
PartPaidOnce ==
    \A m, n \in Matches :
        /\ matchStatus[m] = "CONFIRMED"
        /\ matchStatus[n] = "CONFIRMED"
        /\ matchPart[m] = matchPart[n]
        /\ matchPart[m] # NoPart
        => m = n

(* A match is escalated exactly while a case about it is open, and a       *)
(* resolved case has ended its match one way or the other.                 *)
CaseFollowsMatch ==
    \A m \in Matches :
        /\ caseState[m] \in OpenCase <=> matchStatus[m] = "ESCALATED"
        /\ caseState[m] = "RESOLVED" => matchStatus[m] \in {"CONFIRMED", "CANCELLED"}

(* The deposit and withdraw rows the rest of the backend reads say what    *)
(* the p2p rows say: paid exactly when confirmed, and so on.               *)
DepositAgrees(i) ==
    /\ depositRow[i] = "COMPLETED" <=> intentState[i] = "CONFIRMED"
    /\ depositRow[i] = "FAILED" <=> intentState[i] = "REJECTED"
    /\ depositRow[i] = "CANCELLED" <=> intentState[i] = "CANCELLED"
    /\ depositRow[i] = "PENDING" =>
            intentState[i] \in Queueing \cup {"RESERVED", "AWAITING_PAYMENT"}

WithdrawalAgrees(r) ==
    /\ withdrawRow[r] = "COMPLETED" <=> reqState[r] = "COMPLETED"
    /\ withdrawRow[r] = "FAILED" <=> reqState[r] = "EXPIRED"
    /\ withdrawRow[r] = "CANCELLED" <=> reqState[r] = "CANCELLED"
    /\ withdrawRow[r] = "PROCESSING" <=> reqState[r] \in ActiveRequest

EnvelopesAgree ==
    /\ \A i \in Intents : DepositAgrees(i)
    /\ \A r \in Requests : WithdrawalAgrees(r)

(* What makes the invariants above inductive: a match that was inserted    *)
(* names its intent, and the parts of a request come into being with it.   *)
RowsAreLinked ==
    \A m \in Matches : matchStatus[m] # None => matchIntent[m] \in Intents

PartsAreNew ==
    \A p \in Parts : reqState[RequestOf[p]] = None => partStatus[p] = None

(* The inductive invariant of the rows, while nobody cancels late.         *)
RowsInv ==
    /\ TypeOK
    /\ RowsAreLinked
    /\ PartsAreNew
    /\ ReservationIsExclusive
    /\ PartPaidOnce
    /\ IntentFollowsMatch
    /\ CaseFollowsMatch

ConfirmedParts(r) == {p \in PartsOf(r) : partStatus[p] = "CONFIRMED"}

(* A request's completed amount is the sum of its confirmed parts; what it *)
(* still owes stays locked while it is active and nothing does afterwards  *)
(* (the two conditions the hourly reconciliation job looks for).           *)
BooksBalance ==
    \A r \in Requests :
        /\ reqCompleted[r] = SumFunctionOnSet(Target, ConfirmedParts(r))
        /\ reqLocked[r] = IF reqState[r] \in ActiveRequest
                          THEN Total[r] - reqCompleted[r] ELSE 0

(* A wallet's locked balance is what its owner's requests have locked.     *)
LocksAreBacked ==
    \A u \in Users :
        held[u] = SumFunctionOnSet(reqLocked, {r \in Requests : Withdrawer[r] = u})

(* What makes the sums inductive: a completed request is paid in full.     *)
CompletedInFull ==
    \A r \in Requests : reqState[r] = "COMPLETED" => reqCompleted[r] = Total[r]

(* The inductive invariant of rows, requests and locks together.           *)
MarketInv ==
    /\ RowsInv
    /\ CancelledIsQuiet
    /\ CompletedInFull
    /\ BooksBalance
    /\ LocksAreBacked

(* No step creates or destroys rial: "platform-wide rial is conserved".    *)
RialIsConserved ==
    SumFunctionOnSet([u \in Users |-> free[u] + held[u] - Funds[u]], Users) = 0

(* What confirmed matches brought to their depositors, and the parts that  *)
(* were paid out of a withdrawer's lock.                                   *)
Credit == [m \in Matches |-> IF matchStatus[m] = "CONFIRMED" THEN MatchAmount(m) ELSE 0]

CreditedTo(u) ==
    {m \in Matches : matchStatus[m] = "CONFIRMED" /\ Depositor[matchIntent[m]] = u}

PaidBy(u) ==
    {p \in Parts : partStatus[p] = "CONFIRMED" /\ Withdrawer[RequestOf[p]] = u}

(* A customer's wallet holds what it started with, plus the deposits that  *)
(* were confirmed to it, less the parts of its withdrawals that were paid. *)
LedgerExplained ==
    \A u \in Users \ {Company} :
        free[u] + held[u] = Funds[u] + SumFunctionOnSet(Credit, CreditedTo(u))
                                     - SumFunctionOnSet(Target, PaidBy(u))

-----------------------------------------------------------------------------
(* What a step may never do.                                               *)

(* Once a depositor has paid, the part never returns to the pool and the   *)
(* match is never dropped except by the admin decision that resolves its   *)
(* case: no timeout, cancellation or expiry does it (plan, decision 6).    *)
PaymentStep ==
    \A m \in Matches :
        matchStatus[m] \in PaidMatch /\ matchStatus'[m] \notin TakenMatch
        => caseState[m] \in OpenCase /\ caseState'[m] = "RESOLVED"

PaymentLeavesByDecision == [][PaymentStep]_vars

(* A deposit is credited because the withdrawer of the part answered yes,  *)
(* or because an admin decided a case; never by silence or by the clock.   *)
CreditStep ==
    \A i \in Intents :
        depositRow[i] # "COMPLETED" /\ depositRow'[i] = "COMPLETED" =>
        \E m \in Matches :
            /\ matchIntent[m] = i
            /\ matchStatus'[m] = "CONFIRMED"
            /\ \/ matchStatus[m] = "WAITING_CONFIRMATION" /\ matchPart[m] # NoPart
               \/ caseState[m] \in OpenCase /\ caseState'[m] = "RESOLVED"

CreditNeedsAnAnswer == [][CreditStep]_vars

(* Nothing that was settled is touched again (plan, acceptance test 11).   *)
SettledStep ==
    /\ \A m \in Matches : matchStatus[m] = "CONFIRMED" =>
        /\ matchStatus'[m] = "CONFIRMED"
        /\ intentState'[matchIntent[m]] = "CONFIRMED"
        /\ depositRow'[matchIntent[m]] = "COMPLETED"
    /\ \A p \in Parts : partStatus[p] = "CONFIRMED" =>
        partStatus'[p] = "CONFIRMED"

SettledIsFinal == [][SettledStep]_vars

-----------------------------------------------------------------------------
(* The abstract specifications this module implements.                     *)

PartPhase(p) ==
    IF partStatus[p] = "OPEN" THEN "offered"
    ELSE IF partStatus[p] = "RESERVED" THEN "held"
    ELSE IF partStatus[p] = "PAID_PENDING" THEN "paid"
    ELSE IF partStatus[p] = "CONFIRMED" THEN "settled"
    ELSE "off"

MatchPhase(m) ==
    IF matchStatus[m] = None THEN "new"
    ELSE IF matchStatus[m] \in HeldMatch THEN "held"
    ELSE IF matchStatus[m] \in PaidMatch THEN "paid"
    ELSE IF matchStatus[m] = "CONFIRMED" THEN "settled"
    ELSE "dropped"

Ledger == INSTANCE RialLedger WITH Owners <- Users

Reservation == INSTANCE PartReservation WITH
    part <- [p \in Parts |-> PartPhase(p)],
    taker <- partRes,
    phase <- [m \in Matches |-> MatchPhase(m)],
    target <- matchPart

(* Every wallet movement is one of the ledger's four.                      *)
ImplementsLedger == Ledger!Spec

(* Parts and matches move only as the reservation protocol allows.         *)
ImplementsReservation == Reservation!Spec

-----------------------------------------------------------------------------
(* What must eventually happen.                                            *)

(* A reservation nobody pays does not hold the part for ever.              *)
ReservationEnds ==
    \A m \in Matches :
        matchStatus[m] \in HeldMatch ~> matchStatus[m] \notin HeldMatch

(* A submitted payment is confirmed or reaches an admin, whatever the      *)
(* withdrawer does or fails to do.                                         *)
PaymentIsAttended ==
    \A m \in Matches :
        matchStatus[m] \in PaidMatch ~>
            matchStatus[m] \in {"CONFIRMED", "CANCELLED"} \/ caseState[m] \in OpenCase

(* A queued deposit is served in the end: by a part, or by a company       *)
(* account once the retry budget is spent.                                 *)
QueuedIntentIsServed ==
    \A i \in Intents : intentState[i] = "NO_MATCH" ~> intentState[i] = "RESERVED"

(* A request does not outlive its window in the pool: it is filled, taken  *)
(* back, expired, or handed to the admins.                                 *)
WindowBringsAnEnd ==
    \A r \in Requests :
        reqState[r] \in MatchableRequest ~> reqState[r] \notin MatchableRequest

-----------------------------------------------------------------------------
(* What the documents promise and the code does not keep.                  *)

(* "[Otherwise the] withdrawer [could] spend the rial while depositors are *)
(* paying real money against the promise of it": a part somebody is paying *)
(* into belongs to a request that still has its amount locked.             *)
PromiseStaysLocked ==
    \A p \in Parts : partStatus[p] \in BusyPart =>
        reqLocked[RequestOf[p]] >= Target[p]

(* Cancelling a match "gives up the reservation and goes back to the       *)
(* queue": a deposit waiting for a match is served again.                  *)
WaitingIntentIsServed ==
    \A i \in Intents :
        intentState[i] = "MATCHING" ~> intentState[i] # "MATCHING"

(* "At most one live reservation per part": "two depositors racing the     *)
(* same part resolve to exactly one winner".                               *)
OneLiveMatchPerPart ==
    \A m, n \in Matches :
        /\ matchStatus[m] \in LiveMatch
        /\ matchStatus[n] \in LiveMatch
        /\ matchPart[m] = matchPart[n]
        /\ matchPart[m] # NoPart
        => m = n

(* A request handed to admin settlement can be finished by a person: what  *)
(* was paid into it can be confirmed.                                      *)
PaidPartCanSettle ==
    \A m \in Matches :
        /\ matchStatus[m] = "ESCALATED"
        /\ matchPart[m] # NoPart
        /\ reqState[RequestOf[matchPart[m]]] = "ADMIN_SETTLEMENT"
        => WithdrawMay("ADMIN_SETTLEMENT",
                       StateAfter(RequestOf[matchPart[m]], MatchAmount(m)))
=============================================================================
