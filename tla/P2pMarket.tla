------------------------------ MODULE P2pMarket ------------------------------
(***************************************************************************)
(* The rial p2p settlement market of the backend (goldex-backend/src/p2p). *)
(* Withdrawers lock rial and split it into parts; depositors file intents; *)
(* the matcher reserves one part (or a company bank account) per intent;   *)
(* the depositor pays outside the platform and submits a proof; the        *)
(* withdrawer, or an admin through an escalation case, confirms it; and    *)
(* settlement moves the withdrawer's locked rial to the depositor.         *)
(*                                                                         *)
(* Every database transaction of the services is one action here.  A       *)
(* handler that goes on to call another service after its commit leaves    *)
(* that call in owedOpen or owedMatching, where other handlers, or a crash *)
(* (LoseOpen, LoseMatching), may come first.  An assertion that throws     *)
(* rolls the transaction back: it is a conjunct of the action's guard.     *)
(* Clocks are abstracted to "the deadline may have passed", except the     *)
(* withdrawal window, which matching reads too (windowOver).               *)
(***************************************************************************)
EXTENDS Integers, FiniteSets, Functions, P2pStates

CONSTANTS
    Users,          \* wallet owners, the company's system user among them
    Company,        \* owner of the company p2p wallet
    Requests,       \* p2p_withdraw_request rows that may be created
    Parts,          \* p2p_withdraw_part rows
    Intents,        \* p2p_deposit_intent rows
    Matches,        \* p2p_match rows: bounds how many reservations are made
    NoPart,         \* withdrawPartId = null: filled from a company account
    NoMatch,        \* activeReservationId = null
    Withdrawer,     \* owner of a request
    RequestOf,      \* request a part belongs to
    Total,          \* totalAmount of a request
    Target,         \* targetAmount of a part
    Depositor,      \* owner of an intent
    Amount,         \* requestedAmount of an intent
    Funds,          \* free balance every wallet starts with
    AdminFirst,     \* setting sourcePriority.deposit = ADMIN_FIRST
    MaxRetry,       \* setting matchingMaxRetry
    AccountAnswers, \* may pickAccount find an eligible company account?
    LateCancel,     \* may a depositor cancel a match that is no longer held?
    MayCrash        \* may a handler die between two transactions?

ASSUME MarketAssumption ==
    /\ Company \in Users
    /\ NoPart \notin Parts
    /\ NoMatch \notin Matches
    /\ Withdrawer \in [Requests -> Users]
    /\ RequestOf \in [Parts -> Requests]
    /\ Total \in [Requests -> Nat \ {0}]
    /\ Target \in [Parts -> Nat \ {0}]
    /\ Depositor \in [Intents -> Users \ {Company}]
    /\ Amount \in [Intents -> Nat \ {0}]
    /\ Funds \in [Users -> Nat]
    /\ AdminFirst \in BOOLEAN
    /\ MaxRetry \in Nat
    /\ AccountAnswers \subseteq BOOLEAN
    /\ LateCancel \in BOOLEAN
    /\ MayCrash \in BOOLEAN

(* The rows of a table are finitely many.                                  *)
ASSUME FiniteTables ==
    /\ IsFiniteSet(Users)
    /\ IsFiniteSet(Requests)
    /\ IsFiniteSet(Parts)
    /\ IsFiniteSet(Matches)

PartsOf(r) == {p \in Parts : RequestOf[p] = r}

(* The total of a request is split without loss (splitAmounts).            *)
ASSUME SplitAssumption ==
    \A r \in Requests : Total[r] = SumFunctionOnSet(Target, PartsOf(r))

VARIABLES
    reqState, reqLocked, reqCompleted, \* the withdrawal request row
    withdrawRow,                       \* status of its envelope, `withdraw`
    windowOver,                        \* expiresAt of the request has passed
    partStatus, partRes,               \* the part row; partRes is its match
    intentState, retries,              \* the deposit intent row
    depositRow,                        \* status of its envelope, `deposit`
    matchStatus, matchIntent, matchPart,
    caseState,                         \* escalation case of a match
    owedOpen,                          \* escalations.open calls to be made
    owedMatching,                      \* reserveForIntent calls to be made
    free, held                         \* wallet freeBalance, lockedBalance

requestVars == <<reqState, reqLocked, reqCompleted, withdrawRow>>
partVars == <<partStatus, partRes>>
intentVars == <<intentState, retries, depositRow>>
matchVars == <<matchStatus, matchIntent, matchPart>>
owedVars == <<owedOpen, owedMatching>>
walletVars == <<free, held>>
vars == <<requestVars, windowOver, partVars, intentVars, matchVars, caseState,
          owedVars, walletVars>>

-----------------------------------------------------------------------------
(* Vocabulary.                                                             *)

Queueing == {"CREATED", "MATCHING", "NO_MATCH"}
HeldMatch == {"RESERVED", "AWAITING_PAYMENT"}
PaidMatch == {"PROOF_SUBMITTED", "WAITING_CONFIRMATION",
              "REJECTED_BY_WITHDRAWER", "RESPONSE_TIMEOUT", "ESCALATED"}
LiveMatch == HeldMatch \cup PaidMatch
BusyPart == {"RESERVED", "PAID_PENDING"}
OpenCase == {"OPEN", "ASSIGNED"}
MatchableRequest == {"PENDING_MATCHING", "PARTIALLY_MATCHED"}
ActiveRequest == MatchableRequest \cup {"ADMIN_SETTLEMENT"}

MatchAmount(m) ==
    IF matchPart[m] = NoPart THEN Amount[matchIntent[m]] ELSE Target[matchPart[m]]

TypeOK ==
    /\ reqState \in [Requests -> WithdrawStates \cup {None}]
    /\ reqLocked \in [Requests -> Int]
    /\ reqCompleted \in [Requests -> Int]
    /\ withdrawRow \in [Requests -> {None, "PROCESSING", "COMPLETED", "FAILED", "CANCELLED"}]
    /\ windowOver \in [Requests -> BOOLEAN]
    /\ partStatus \in [Parts -> PartStates \cup {None}]
    /\ partRes \in [Parts -> Matches \cup {NoMatch}]
    /\ intentState \in [Intents -> IntentStates \cup {None}]
    /\ retries \in [Intents -> 0 .. MaxRetry]
    /\ depositRow \in [Intents -> {None, "PENDING", "PROCESSING", "COMPLETED",
                                   "FAILED", "CANCELLED"}]
    /\ matchStatus \in [Matches -> MatchStates \cup {None}]
    /\ matchIntent \in [Matches -> Intents \cup {None}]
    /\ matchPart \in [Matches -> Parts \cup {NoPart}]
    /\ caseState \in [Matches -> CaseStates \cup {None}]
    /\ owedOpen \subseteq Matches
    /\ owedMatching \subseteq Intents
    /\ free \in [Users -> Int]
    /\ held \in [Users -> Int]

Init ==
    /\ reqState = [r \in Requests |-> None]
    /\ reqLocked = [r \in Requests |-> 0]
    /\ reqCompleted = [r \in Requests |-> 0]
    /\ withdrawRow = [r \in Requests |-> None]
    /\ windowOver = [r \in Requests |-> FALSE]
    /\ partStatus = [p \in Parts |-> None]
    /\ partRes = [p \in Parts |-> NoMatch]
    /\ intentState = [i \in Intents |-> None]
    /\ retries = [i \in Intents |-> 0]
    /\ depositRow = [i \in Intents |-> None]
    /\ matchStatus = [m \in Matches |-> None]
    /\ matchIntent = [m \in Matches |-> None]
    /\ matchPart = [m \in Matches |-> NoPart]
    /\ caseState = [m \in Matches |-> None]
    /\ owedOpen = {}
    /\ owedMatching = {}
    /\ free = Funds
    /\ held = [u \in Users |-> 0]

-----------------------------------------------------------------------------
(* P2pWithdrawService                                                      *)

(* createForWithdraw: lock the total, insert the request and its parts.    *)
CreateForWithdraw(r) ==
    LET u == Withdrawer[r] IN
    /\ reqState[r] = None
    /\ free[u] >= Total[r]
    /\ free' = [free EXCEPT ![u] = @ - Total[r]]
    /\ held' = [held EXCEPT ![u] = @ + Total[r]]
    /\ reqState' = [reqState EXCEPT ![r] = "PENDING_MATCHING"]
    /\ reqLocked' = [reqLocked EXCEPT ![r] = Total[r]]
    /\ withdrawRow' = [withdrawRow EXCEPT ![r] = "PROCESSING"]
    /\ partStatus' = [p \in Parts |-> IF RequestOf[p] = r THEN "OPEN" ELSE partStatus[p]]
    /\ UNCHANGED <<reqCompleted, windowOver, partRes, intentVars, matchVars,
                   caseState, owedVars>>

(* The request's expiresAt passes.                                         *)
WindowElapses(r) ==
    /\ reqState[r] # None
    /\ ~windowOver[r]
    /\ windowOver' = [windowOver EXCEPT ![r] = TRUE]
    /\ UNCHANGED <<requestVars, partVars, intentVars, matchVars, caseState,
                   owedVars, walletVars>>

(* releaseLock, as closeRequest calls it with the whole lockedAmount.      *)
ReleaseLock(r) ==
    LET u == Withdrawer[r]
        release == IF reqLocked[r] > 0 THEN reqLocked[r] ELSE 0
    IN  /\ free' = [free EXCEPT ![u] = @ + release]
        /\ held' = [held EXCEPT ![u] = @ - release]
        /\ reqLocked' = [reqLocked EXCEPT ![r] = @ - release]

(* Mutant: every part is closed, confirmed ones too.                       *)
CloseRequestAllParts(r, state) ==
    /\ WithdrawMay(reqState[r], state)
    /\ ReleaseLock(r)
    /\ partStatus' = [p \in Parts |-> IF RequestOf[p] = r THEN state ELSE partStatus[p]]
    /\ reqState' = [reqState EXCEPT ![r] = state]
    /\ withdrawRow' = [withdrawRow EXCEPT ![r] =
                        IF state = "CANCELLED" THEN "CANCELLED" ELSE "FAILED"]
    /\ UNCHANGED <<reqCompleted, windowOver, partRes, intentVars, matchVars,
                   caseState, owedVars>>

(* closeRequest: release the lock, close the parts that are still OPEN,    *)
(* close the request and its envelope.                                     *)
CloseRequest(r, state) ==
    /\ WithdrawMay(reqState[r], state)
    /\ ReleaseLock(r)
    /\ partStatus' = [p \in Parts |->
                        IF RequestOf[p] = r /\ partStatus[p] = "OPEN"
                        THEN state ELSE partStatus[p]]
    /\ reqState' = [reqState EXCEPT ![r] = state]
    /\ withdrawRow' = [withdrawRow EXCEPT ![r] =
                        IF state = "CANCELLED" THEN "CANCELLED" ELSE "FAILED"]
    /\ UNCHANGED <<reqCompleted, windowOver, partRes, intentVars, matchVars,
                   caseState, owedVars>>

(* Mutant: only paid parts stand in the way.                               *)
CancelUnderReservation(r) ==
    /\ reqState[r] # None
    /\ \A p \in PartsOf(r) : partStatus[p] # "PAID_PENDING"
    /\ CloseRequest(r, "CANCELLED")

(* cancel: the withdrawer takes back a request nobody is paying into.      *)
Cancel(r) ==
    /\ reqState[r] # None
    /\ \A p \in PartsOf(r) : partStatus[p] \notin BusyPart
    /\ CloseRequest(r, "CANCELLED")

-----------------------------------------------------------------------------
(* P2pDepositService.createForDeposit and P2pMatchingService               *)

(* The intent is inserted by one statement; matching is called after it.   *)
CreateForDeposit(i) ==
    /\ intentState[i] = None
    /\ intentState' = [intentState EXCEPT ![i] = "CREATED"]
    /\ depositRow' = [depositRow EXCEPT ![i] = "PENDING"]
    /\ owedMatching' = owedMatching \cup {i}
    /\ UNCHANGED <<requestVars, windowOver, partVars, retries, matchVars,
                   caseState, owedOpen, walletVars>>

(* Mutant: the query forgets that a RESERVED part is taken.                *)
CandidatesInUse(i) ==
    {p \in Parts :
        /\ partStatus[p] \in {"OPEN", "RESERVED"}
        /\ reqState[RequestOf[p]] \in MatchableRequest
        /\ Withdrawer[RequestOf[p]] # Depositor[i]
        /\ Target[p] = Amount[i]
        /\ ~windowOver[RequestOf[p]]}

(* loadCandidates: the open parts this intent may fill.                    *)
Candidates(i) ==
    {p \in Parts :
        LET r == RequestOf[p] IN
        /\ partStatus[p] = "OPEN"
        /\ reqState[r] \in MatchableRequest
        /\ Withdrawer[r] # Depositor[i]
        /\ Target[p] = Amount[i]
        /\ ~windowOver[r]}

(* A new p2p_match row in RESERVED, for part p or for a company account.   *)
InsertMatch(i, p, m) ==
    /\ matchStatus[m] = None
    /\ matchStatus' = [matchStatus EXCEPT ![m] = "RESERVED"]
    /\ matchIntent' = [matchIntent EXCEPT ![m] = i]
    /\ matchPart' = [matchPart EXCEPT ![m] = p]
    /\ intentState' = [intentState EXCEPT ![i] = "RESERVED"]
    /\ UNCHANGED retries

(* Mutant: the part is reserved under the id of the intent.                *)
ReservePartUnderIntent(i) ==
    \E p \in Candidates(i), m \in Matches :
        /\ InsertMatch(i, p, m)
        /\ partStatus' = [partStatus EXCEPT ![p] = "RESERVED"]
        /\ partRes' = [partRes EXCEPT ![p] = i]

ReservePart(i) ==
    \E p \in Candidates(i), m \in Matches :
        /\ InsertMatch(i, p, m)
        /\ partStatus' = [partStatus EXCEPT ![p] = "RESERVED"]
        /\ partRes' = [partRes EXCEPT ![p] = m]

ReserveFromAdminAccount(i) ==
    \E m \in Matches : InsertMatch(i, NoPart, m) /\ UNCHANGED partVars

(* Mutant: the retries are not counted.                                    *)
QueueIntentUncounted(i) ==
    /\ intentState' = [intentState EXCEPT ![i] = "NO_MATCH"]
    /\ UNCHANGED <<retries, partVars, matchVars>>

(* retryCount only matters as "has reached the budget": it saturates.      *)
QueueIntent(i) ==
    /\ intentState' = [intentState EXCEPT ![i] = "NO_MATCH"]
    /\ retries' = [retries EXCEPT ![i] = IF @ < MaxRetry THEN @ + 1 ELSE @]
    /\ UNCHANGED <<partVars, matchVars>>

(* reserveForIntent.  SKIP LOCKED hides parts that another transaction is  *)
(* looking at, so "no candidate" is possible whatever Candidates(i) holds; *)
(* the score decides between the visible ones and is left open.            *)
ReserveForIntent(i) ==
    LET companyTurn == AdminFirst \/ retries[i] >= MaxRetry IN
    /\ intentState[i] \in Queueing
    /\ \/ /\ companyTurn
          /\ TRUE \in AccountAnswers
          /\ ReserveFromAdminAccount(i)
       \/ /\ AdminFirst => FALSE \in AccountAnswers
          /\ ReservePart(i)
       \/ /\ companyTurn => FALSE \in AccountAnswers
          /\ QueueIntent(i)
    /\ UNCHANGED <<requestVars, windowOver, depositRow, caseState, owedOpen,
                   walletVars>>

(* The call createForDeposit makes inline.                                 *)
MatchNewIntent(i) ==
    /\ i \in owedMatching
    /\ ReserveForIntent(i)
    /\ owedMatching' = owedMatching \ {i}

(* matchingRetry, one queued intent of the batch.                          *)
MatchingRetry(i) ==
    /\ intentState[i] = "NO_MATCH"
    /\ ReserveForIntent(i)
    /\ UNCHANGED owedMatching

-----------------------------------------------------------------------------
(* Rows that several handlers move together.                               *)

MoveMatch(m, to) ==
    /\ MatchMay(matchStatus[m], to)
    /\ matchStatus' = [matchStatus EXCEPT ![m] = to]
    /\ UNCHANGED <<matchIntent, matchPart>>

MoveIntent(i, to) ==
    /\ IntentMay(intentState[i], to)
    /\ intentState' = [intentState EXCEPT ![i] = to]
    /\ UNCHANGED retries

(* releasePart: nothing to do for a company match or a confirmed part.     *)
ReleasePart(p, to) ==
    IF p = NoPart
    THEN UNCHANGED partVars
    ELSE IF partStatus[p] = "CONFIRMED"
    THEN UNCHANGED partVars
    ELSE /\ PartMay(partStatus[p], to)
         /\ partStatus' = [partStatus EXCEPT ![p] = to]
         /\ partRes' = [partRes EXCEPT ![p] = NoMatch]

-----------------------------------------------------------------------------
(* P2pDepositService: the depositor and the reservation                    *)

AcceptMatch(m) ==
    /\ matchStatus[m] = "RESERVED"
    /\ MoveMatch(m, "AWAITING_PAYMENT")
    /\ MoveIntent(matchIntent[m], "AWAITING_PAYMENT")
    /\ UNCHANGED <<requestVars, windowOver, partVars, depositRow, caseState,
                   owedVars, walletVars>>

(* cancelMatch checks the transition tables only, and they let a match go  *)
(* from ESCALATED, or from CANCELLED itself, to CANCELLED.  The panel      *)
(* offers the button while the payment is awaited; a stale screen or a     *)
(* repeated request comes later (LateCancel).                              *)
CancelMatch(m) ==
    /\ matchStatus[m] # None
    /\ LateCancel \/ matchStatus[m] \in HeldMatch
    /\ MoveMatch(m, "CANCELLED")
    /\ ReleasePart(matchPart[m], "OPEN")
    /\ MoveIntent(matchIntent[m], "MATCHING")
    /\ UNCHANGED <<requestVars, windowOver, depositRow, caseState, owedVars,
                   walletVars>>

(* Mutant: the part is left RESERVED.                                      *)
SubmitWithoutPinning(m, mismatch) ==
    LET i == matchIntent[m] IN
    /\ matchStatus[m] \in HeldMatch
    /\ matchStatus' = [matchStatus EXCEPT ![m] =
            IF mismatch THEN "PROOF_SUBMITTED" ELSE "WAITING_CONFIRMATION"]
    /\ intentState' = [intentState EXCEPT ![i] =
            IF mismatch THEN "PAYMENT_PROOF_SUBMITTED"
                        ELSE "WAITING_WITHDRAWER_CONFIRMATION"]
    /\ depositRow' = [depositRow EXCEPT ![i] = "PROCESSING"]
    /\ owedOpen' = IF mismatch THEN owedOpen \cup {m} ELSE owedOpen
    /\ UNCHANGED <<requestVars, windowOver, partVars, retries, matchIntent,
                   matchPart, caseState, owedMatching, walletVars>>

(* submitPaymentProof: a matching amount is handed to the withdrawer, a    *)
(* mismatch stays PROOF_SUBMITTED and owes an escalation.                  *)
SubmitPaymentProof(m, mismatch) ==
    LET i == matchIntent[m]
        p == matchPart[m]
    IN  /\ matchStatus[m] \in HeldMatch
        /\ IntentMay(intentState[i], "PAYMENT_PROOF_SUBMITTED")
        /\ matchStatus' = [matchStatus EXCEPT ![m] =
                IF mismatch THEN "PROOF_SUBMITTED" ELSE "WAITING_CONFIRMATION"]
        /\ intentState' = [intentState EXCEPT ![i] =
                IF mismatch THEN "PAYMENT_PROOF_SUBMITTED"
                            ELSE "WAITING_WITHDRAWER_CONFIRMATION"]
        /\ depositRow' = [depositRow EXCEPT ![i] = "PROCESSING"]
        /\ \/ p = NoPart /\ UNCHANGED partStatus
           \/ /\ p # NoPart
              /\ PartMay(partStatus[p], "PAID_PENDING")
              /\ partStatus' = [partStatus EXCEPT ![p] = "PAID_PENDING"]
        /\ owedOpen' = IF mismatch THEN owedOpen \cup {m} ELSE owedOpen
        /\ UNCHANGED <<requestVars, windowOver, partRes, retries, matchIntent,
                       matchPart, caseState, owedMatching, walletVars>>

-----------------------------------------------------------------------------
(* P2pSettlementService                                                    *)

(* Mutant: the request keeps its lockedAmount.                             *)
PayFromLockUnbooked(r, payee, amount) ==
    LET u == Withdrawer[r] IN
    /\ held[u] >= amount
    /\ held' = [held EXCEPT ![u] = @ - amount]
    /\ free' = [free EXCEPT ![payee] = @ + amount]
    /\ UNCHANGED reqLocked

(* Mutant: the credit is written, the debit is not.                        *)
PayFromLockUndebited(r, payee, amount) ==
    LET u == Withdrawer[r] IN
    /\ held[u] >= amount
    /\ free' = [free EXCEPT ![payee] = @ + amount]
    /\ reqLocked' = [reqLocked EXCEPT ![r] = @ - amount]
    /\ UNCHANGED held

(* debitWithdrawerLock, then the credit of whoever is owed the amount.     *)
PayFromLock(r, payee, amount) ==
    LET u == Withdrawer[r] IN
    /\ held[u] >= amount
    /\ held' = [held EXCEPT ![u] = @ - amount]
    /\ free' = [free EXCEPT ![payee] = @ + amount]
    /\ reqLocked' = [reqLocked EXCEPT ![r] = @ - amount]

(* The request's state after `amount` more of it is confirmed.             *)
StateAfter(r, amount) ==
    IF Total[r] - (reqCompleted[r] + amount) <= 0 THEN "COMPLETED"
                                                  ELSE "PARTIALLY_MATCHED"

(* advancePart: roll the part and its request forward.                     *)
AdvancePart(p) ==
    LET r == RequestOf[p]
        next == StateAfter(r, Target[p])
    IN  /\ PartMay(partStatus[p], "CONFIRMED")
        /\ partStatus' = [partStatus EXCEPT ![p] = "CONFIRMED"]
        /\ partRes' = [partRes EXCEPT ![p] = NoMatch]
        /\ WithdrawMay(reqState[r], next)
        /\ reqCompleted' = [reqCompleted EXCEPT ![r] = @ + Target[p]]
        /\ reqState' = [reqState EXCEPT ![r] = next]
        /\ withdrawRow' = [withdrawRow EXCEPT ![r] =
                IF next = "COMPLETED" THEN "COMPLETED" ELSE @]

(* Mutant: the rial goes back to the withdrawer.                           *)
SettleToWithdrawer(m) ==
    LET p == matchPart[m] IN
    /\ p # NoPart
    /\ PayFromLock(RequestOf[p], Withdrawer[RequestOf[p]], MatchAmount(m))
    /\ AdvancePart(p)

(* A customer's part pays the depositor.                                   *)
SettleFromPart(m) ==
    LET p == matchPart[m] IN
    /\ p # NoPart
    /\ PayFromLock(RequestOf[p], Depositor[matchIntent[m]], MatchAmount(m))
    /\ AdvancePart(p)

(* Mutant: the company's leg is missing.                                   *)
SettleFromNobody(m) ==
    LET u == Depositor[matchIntent[m]] IN
    /\ matchPart[m] = NoPart
    /\ free' = [free EXCEPT ![u] = @ + MatchAmount(m)]
    /\ UNCHANGED <<held, requestVars, partVars>>

(* The depositor paid a company account: the company wallet pays.          *)
SettleFromCompany(m) ==
    LET amount == MatchAmount(m) IN
    /\ matchPart[m] = NoPart
    /\ free[Company] >= amount
    /\ free' = [free EXCEPT ![Company] = @ - amount,
                            ![Depositor[matchIntent[m]]] = @ + amount]
    /\ UNCHANGED <<held, requestVars, partVars>>

(* settle: idempotent once the match is confirmed.                         *)
Settle(m) ==
    LET i == matchIntent[m] IN
    IF matchStatus[m] = "CONFIRMED"
    THEN UNCHANGED <<requestVars, partVars, intentVars, matchVars, walletVars>>
    ELSE /\ SettleFromPart(m) \/ SettleFromCompany(m)
         /\ MoveMatch(m, "CONFIRMED")
         /\ MoveIntent(i, "CONFIRMED")
         /\ depositRow' = [depositRow EXCEPT ![i] = "COMPLETED"]

(* settlePartFromAdmin: the company paid the withdrawer's bank account.    *)
SettlePartFromAdmin(p) ==
    IF partStatus[p] = "CONFIRMED"
    THEN UNCHANGED <<requestVars, partVars, walletVars>>
    ELSE /\ PayFromLock(RequestOf[p], Company, Target[p])
         /\ AdvancePart(p)

-----------------------------------------------------------------------------
(* The withdrawer's answer (P2pWithdrawService)                            *)

(* Mutant: the match is found without its part.                            *)
ConfirmByMatch(m) ==
    /\ matchStatus[m] = "WAITING_CONFIRMATION"
    /\ Settle(m)
    /\ UNCHANGED <<windowOver, caseState, owedVars>>

ConfirmPayment(m) ==
    /\ matchPart[m] # NoPart
    /\ matchStatus[m] = "WAITING_CONFIRMATION"
    /\ Settle(m)
    /\ UNCHANGED <<windowOver, caseState, owedVars>>

(* Mutant: a rejection owes no escalation.                                 *)
RejectQuietly(m) ==
    /\ matchPart[m] # NoPart
    /\ matchStatus[m] = "WAITING_CONFIRMATION"
    /\ MoveMatch(m, "REJECTED_BY_WITHDRAWER")
    /\ MoveIntent(matchIntent[m], "REJECTED_BY_WITHDRAWER")
    /\ UNCHANGED <<requestVars, windowOver, partVars, depositRow, caseState,
                   owedVars, walletVars>>

(* Mutant: a rejection drops the match and reopens the part.               *)
RejectOutright(m) ==
    /\ matchPart[m] # NoPart
    /\ matchStatus[m] = "WAITING_CONFIRMATION"
    /\ matchStatus' = [matchStatus EXCEPT ![m] = "CANCELLED"]
    /\ ReleasePart(matchPart[m], "OPEN")
    /\ MoveIntent(matchIntent[m], "REJECTED_BY_WITHDRAWER")
    /\ UNCHANGED <<requestVars, windowOver, matchIntent, matchPart, depositRow,
                   caseState, owedVars, walletVars>>

RejectPayment(m) ==
    /\ matchPart[m] # NoPart
    /\ matchStatus[m] = "WAITING_CONFIRMATION"
    /\ MoveMatch(m, "REJECTED_BY_WITHDRAWER")
    /\ MoveIntent(matchIntent[m], "REJECTED_BY_WITHDRAWER")
    /\ owedOpen' = owedOpen \cup {m}
    /\ UNCHANGED <<requestVars, windowOver, partVars, depositRow, caseState,
                   owedMatching, walletVars>>

-----------------------------------------------------------------------------
(* P2pEscalationService                                                    *)

MayOpen(m) ==
    /\ caseState[m] \notin OpenCase
    /\ matchStatus[m] # None
    /\ MatchMay(matchStatus[m], "ESCALATED")
    /\ IntentMay(intentState[matchIntent[m]], "ESCALATED_TO_ADMIN")

(* open, for a match without an open case.                                 *)
OpenEscalation(m) ==
    LET i == matchIntent[m] IN
    /\ MayOpen(m)
    /\ MoveMatch(m, "ESCALATED")
    /\ MoveIntent(i, "ESCALATED_TO_ADMIN")
    /\ depositRow' = [depositRow EXCEPT ![i] = "PROCESSING"]
    /\ caseState' = [caseState EXCEPT ![m] = "OPEN"]
    /\ UNCHANGED <<requestVars, windowOver, partVars, owedMatching, walletVars>>

(* The call a handler makes after its transaction; open returns the open   *)
(* case or throws when the match has moved on, and changes nothing then.   *)
EscalateOwed(m) ==
    /\ m \in owedOpen
    /\ owedOpen' = owedOpen \ {m}
    /\ \/ OpenEscalation(m)
       \/ /\ ~MayOpen(m)
          /\ UNCHANGED <<requestVars, windowOver, partVars, intentVars,
                         matchVars, caseState, owedMatching, walletVars>>

(* POST matches/:id/escalate, at any time.                                 *)
EscalateByAdmin(m) == OpenEscalation(m) /\ UNCHANGED owedOpen

Assign(m) ==
    /\ caseState[m] # None
    /\ CaseMay(caseState[m], "ASSIGNED")
    /\ caseState' = [caseState EXCEPT ![m] = "ASSIGNED"]
    /\ UNCHANGED <<requestVars, windowOver, partVars, intentVars, matchVars,
                   owedVars, walletVars>>

(* Mutant: the deposit row is forgotten.                                   *)
FailIntentOnly(m, state) ==
    /\ MoveIntent(matchIntent[m], state)
    /\ MoveMatch(m, "CANCELLED")
    /\ UNCHANGED depositRow

(* failIntent: the intent and its envelope fail, the match is cancelled.   *)
FailIntent(m, state) ==
    LET i == matchIntent[m] IN
    /\ MoveIntent(i, state)
    /\ depositRow' = [depositRow EXCEPT ![i] =
            IF state = "CANCELLED" THEN "CANCELLED" ELSE "FAILED"]
    /\ MoveMatch(m, "CANCELLED")

(* What each decision does to the rows behind the case.                    *)
Decide(m, d) ==
    LET p == matchPart[m]
        i == matchIntent[m]
    IN  \/ /\ d = "CONFIRM_PAYMENT"
           /\ Settle(m)
        \/ /\ d = "SETTLE_FROM_ADMIN"
           /\ p # NoPart
           /\ SettlePartFromAdmin(p)
           /\ FailIntent(m, "REJECTED")
        \/ /\ d \in {"REJECT_PAYMENT", "CANCEL_REQUEST"}
           /\ ReleasePart(p, IF d = "CANCEL_REQUEST" THEN "CANCELLED" ELSE "OPEN")
           /\ FailIntent(m, IF d = "CANCEL_REQUEST" THEN "CANCELLED" ELSE "REJECTED")
           /\ UNCHANGED <<requestVars, walletVars>>
        \/ /\ d = "REOPEN_MATCHING"
           /\ ReleasePart(p, "OPEN")
           /\ MoveIntent(i, "MATCHING")
           /\ MoveMatch(m, "CANCELLED")
           /\ UNCHANGED <<requestVars, depositRow, walletVars>>
        \/ /\ d = "REQUEST_MORE_EVIDENCE"
           /\ MoveIntent(i, "MORE_INFO_REQUESTED")
           /\ UNCHANGED <<requestVars, partVars, depositRow, matchVars, walletVars>>

(* Mutant: the case is never closed.                                       *)
ResolveKeepsCase(m, d) ==
    /\ caseState[m] \in OpenCase
    /\ Decide(m, d)
    /\ UNCHANGED <<caseState, windowOver, owedVars>>

(* resolve, by an admin whose decision is final: the decision's            *)
(* transaction and the save of the case that follows it.                   *)
Resolve(m, d) ==
    /\ caseState[m] \in OpenCase
    /\ Decide(m, d)
    /\ caseState' = [caseState EXCEPT ![m] =
            IF d = "REQUEST_MORE_EVIDENCE" THEN @ ELSE "RESOLVED"]
    /\ UNCHANGED <<windowOver, owedVars>>

-----------------------------------------------------------------------------
(* P2pCronService                                                          *)

(* Mutant: an accepted match does not expire.                              *)
ExpiryOfReserved(m) ==
    /\ matchStatus[m] = "RESERVED"
    /\ MoveMatch(m, "RESERVATION_EXPIRED")
    /\ ReleasePart(matchPart[m], "OPEN")
    /\ MoveIntent(matchIntent[m], "MATCHING")
    /\ UNCHANGED <<requestVars, windowOver, depositRow, caseState, owedVars,
                   walletVars>>

ReservationExpiry(m) ==
    LET i == matchIntent[m]
        p == matchPart[m]
    IN  /\ matchStatus[m] \in HeldMatch
        /\ MoveMatch(m, "RESERVATION_EXPIRED")
        /\ IF p # NoPart /\ partStatus[p] = "RESERVED"
           THEN ReleasePart(p, "OPEN")
           ELSE UNCHANGED partVars
        /\ MoveIntent(i, "MATCHING")
        /\ UNCHANGED <<requestVars, windowOver, depositRow, caseState,
                       owedVars, walletVars>>

(* Mutant: the intent is not moved.                                        *)
TimeoutKeepsIntent(m) ==
    /\ matchStatus[m] = "WAITING_CONFIRMATION"
    /\ MoveMatch(m, "RESPONSE_TIMEOUT")
    /\ owedOpen' = owedOpen \cup {m}
    /\ UNCHANGED <<requestVars, windowOver, partVars, intentVars, caseState,
                   owedMatching, walletVars>>

(* The withdrawer did not answer: never "payment accepted".                *)
WithdrawerResponseTimeout(m) ==
    /\ matchStatus[m] = "WAITING_CONFIRMATION"
    /\ MoveMatch(m, "RESPONSE_TIMEOUT")
    /\ MoveIntent(matchIntent[m], "WITHDRAWER_RESPONSE_TIMEOUT")
    /\ owedOpen' = owedOpen \cup {m}
    /\ UNCHANGED <<requestVars, windowOver, partVars, depositRow, caseState,
                   owedMatching, walletVars>>

(* settlementTimeout: proofs nobody picked up, ...                         *)
SettlementTimeout(m) ==
    /\ matchStatus[m] = "PROOF_SUBMITTED"
    /\ OpenEscalation(m)
    /\ UNCHANGED owedOpen

(* Mutant: a request with an open part is left alone.                      *)
MoveWhenAllTaken(r) ==
    /\ windowOver[r]
    /\ reqState[r] = "PARTIALLY_MATCHED"
    /\ \A p \in PartsOf(r) : partStatus[p] # "OPEN"
    /\ reqState' = [reqState EXCEPT ![r] = "ADMIN_SETTLEMENT"]
    /\ UNCHANGED <<reqLocked, reqCompleted, withdrawRow, windowOver, partVars,
                   intentVars, matchVars, caseState, owedVars, walletVars>>

(* ... and partly filled requests past their window.                       *)
MoveToAdminSettlement(r) ==
    /\ windowOver[r]
    /\ reqState[r] = "PARTIALLY_MATCHED"
    /\ reqState' = [reqState EXCEPT ![r] = "ADMIN_SETTLEMENT"]
    /\ UNCHANGED <<reqLocked, reqCompleted, withdrawRow, windowOver, partVars,
                   intentVars, matchVars, caseState, owedVars, walletVars>>

RequestExpiry(r) ==
    /\ windowOver[r]
    /\ reqState[r] = "PENDING_MATCHING"
    /\ CloseRequest(r, "EXPIRED")

-----------------------------------------------------------------------------
(* A replica dies between a handler's transaction and the call after it.   *)

LoseOpen(m) ==
    /\ MayCrash
    /\ m \in owedOpen
    /\ owedOpen' = owedOpen \ {m}
    /\ UNCHANGED <<requestVars, windowOver, partVars, intentVars, matchVars,
                   caseState, owedMatching, walletVars>>

LoseMatching(i) ==
    /\ MayCrash
    /\ i \in owedMatching
    /\ owedMatching' = owedMatching \ {i}
    /\ UNCHANGED <<requestVars, windowOver, partVars, intentVars, matchVars,
                   caseState, owedOpen, walletVars>>

RequestStep(r) ==
    \/ CreateForWithdraw(r) \/ WindowElapses(r) \/ Cancel(r)
    \/ MoveToAdminSettlement(r) \/ RequestExpiry(r)

IntentStep(i) ==
    \/ CreateForDeposit(i) \/ MatchNewIntent(i) \/ MatchingRetry(i)
    \/ LoseMatching(i)

MatchStep(m) ==
    \/ AcceptMatch(m) \/ CancelMatch(m)
    \/ \E mismatch \in BOOLEAN : SubmitPaymentProof(m, mismatch)
    \/ ConfirmPayment(m) \/ RejectPayment(m)
    \/ EscalateOwed(m) \/ EscalateByAdmin(m) \/ Assign(m)
    \/ \E d \in Resolutions : Resolve(m, d)
    \/ ReservationExpiry(m) \/ WithdrawerResponseTimeout(m)
    \/ SettlementTimeout(m) \/ LoseOpen(m)

Next ==
    \/ \E r \in Requests : RequestStep(r)
    \/ \E i \in Intents : IntentStep(i)
    \/ \E m \in Matches : MatchStep(m)

Spec == Init /\ [][Next]_vars

(* The cron workers run every few minutes under a Redis lock and a handler *)
(* that has not crashed makes its calls.  Users and admins owe nothing.    *)
Fairness ==
    /\ \A r \in Requests :
        WF_vars(WindowElapses(r)) /\ WF_vars(MoveToAdminSettlement(r))
                                  /\ WF_vars(RequestExpiry(r))
    /\ \A i \in Intents : WF_vars(MatchNewIntent(i)) /\ WF_vars(MatchingRetry(i))
    /\ \A m \in Matches :
        /\ WF_vars(EscalateOwed(m))
        /\ WF_vars(ReservationExpiry(m))
        /\ WF_vars(WithdrawerResponseTimeout(m))
        /\ WF_vars(SettlementTimeout(m))

FairSpec == Spec /\ Fairness
=============================================================================
