---------------------------- MODULE P2pRows_proofs ----------------------------
(***************************************************************************)
(* The rows of the p2p market: they keep their types whatever the services *)
(* do, and they agree with each other as long as nobody cancels late.      *)
(***************************************************************************)
EXTENDS P2pPromises, TLAPS

-----------------------------------------------------------------------------
(* The tables.                                                             *)

(* No table lets a row that was never inserted move.                       *)
LEMMA NoneStays ==
    /\ \A t : MatchMay(None, t) => t = None
    /\ \A t : IntentMay(None, t) => t = None
    /\ \A t : PartMay(None, t) => t = None
    /\ \A t : WithdrawMay(None, t) => t = None
BY DEF MatchMay, MatchTable, IntentMay, IntentTable, PartMay, PartTable,
       WithdrawMay, WithdrawTable, None

-----------------------------------------------------------------------------
(* Types.                                                                  *)

TypeInv == TypeOK /\ RowsAreLinked

LEMMA TypeInit == Init => TypeInv
BY MarketAssumption DEF Init, TypeInv, TypeOK, RowsAreLinked, None, PartStates, WithdrawStates, IntentStates, MatchStates, CaseStates

USE DEF TypeInv, RowsAreLinked

LEMMA RequestTypes ==
    ASSUME TypeInv, NEW r \in Requests, RequestStep(r)
    PROVE  TypeInv'
<1> USE MarketAssumption DEF TypeOK, vars, requestVars, partVars, intentVars, matchVars, owedVars, walletVars, None
<1>1. CASE CreateForWithdraw(r)
  BY <1>1 DEF CreateForWithdraw, WithdrawStates, PartStates
<1>2. CASE WindowElapses(r)
  BY <1>2 DEF WindowElapses
<1>3. ASSUME NEW s \in {"CANCELLED", "EXPIRED"}, CloseRequest(r, s)
      PROVE  TypeInv'
  BY <1>3 DEF CloseRequest, ReleaseLock, WithdrawStates, PartStates
<1>4. CASE Cancel(r)
  BY <1>3, <1>4 DEF Cancel
<1>5. CASE MoveToAdminSettlement(r)
  BY <1>5 DEF MoveToAdminSettlement, WithdrawStates
<1>6. CASE RequestExpiry(r)
  BY <1>3, <1>6 DEF RequestExpiry
<1> QED
  BY <1>1, <1>2, <1>4, <1>5, <1>6 DEF RequestStep

LEMMA IntentTypes ==
    ASSUME TypeInv, NEW i \in Intents, IntentStep(i)
    PROVE  TypeInv'
<1> USE MarketAssumption DEF TypeOK, vars, requestVars, partVars, intentVars, matchVars, owedVars, walletVars, None
<1>1. CASE CreateForDeposit(i)
  BY <1>1 DEF CreateForDeposit, IntentStates
<1>2. ASSUME ReserveForIntent(i), owedMatching' \subseteq Intents
      PROVE  TypeInv'
  <2>1. CASE ReservePart(i)
    BY <1>2, <2>1 DEF ReserveForIntent, ReservePart, InsertMatch, Candidates, IntentStates, MatchStates, PartStates
  <2>2. CASE ReserveFromAdminAccount(i)
    BY <1>2, <2>2 DEF ReserveForIntent, ReserveFromAdminAccount, InsertMatch, IntentStates, MatchStates
  <2>3. CASE QueueIntent(i)
    BY <1>2, <2>3 DEF ReserveForIntent, QueueIntent, IntentStates
  <2> QED
    BY <1>2, <2>1, <2>2, <2>3 DEF ReserveForIntent
<1>3. CASE MatchNewIntent(i)
  BY <1>2, <1>3 DEF MatchNewIntent
<1>4. CASE MatchingRetry(i)
  BY <1>2, <1>4 DEF MatchingRetry
<1>5. CASE LoseMatching(i)
  BY <1>5 DEF LoseMatching
<1> QED
  BY <1>1, <1>3, <1>4, <1>5 DEF IntentStep

(* The moves that handlers share keep their rows typed.                    *)
LEMMA MoveTypes ==
    ASSUME TypeInv, NEW m \in Matches, NEW s \in MatchStates, MoveMatch(m, s),
           NEW i, NEW t \in IntentStates, MoveIntent(i, t)
    PROVE  /\ matchStatus' \in [Matches -> MatchStates \cup {None}]
           /\ matchIntent' \in [Matches -> Intents \cup {None}]
           /\ matchPart' \in [Matches -> Parts \cup {NoPart}]
           /\ intentState' \in [Intents -> IntentStates \cup {None}]
           /\ retries' \in [Intents -> 0 .. MaxRetry]
           /\ RowsAreLinked'
<1>1. s # None
  BY DEF MatchStates, None
<1>2. matchStatus[m] # None
  BY <1>1, NoneStays DEF MoveMatch
<1> QED
  BY <1>1, <1>2 DEF MoveMatch, MoveIntent, TypeOK

LEMMA ReleaseTypes ==
    ASSUME TypeInv, NEW p \in Parts \cup {NoPart}, NEW s \in PartStates,
           ReleasePart(p, s)
    PROVE  /\ partStatus' \in [Parts -> PartStates \cup {None}]
           /\ partRes' \in [Parts -> Matches \cup {NoMatch}]
BY DEF ReleasePart, TypeOK, partVars

(* Adding to, or taking from, one of a family of amounts.                  *)
LEMMA AmountMoved ==
    ASSUME NEW S, NEW f \in [S -> Int], NEW x \in S, NEW a \in Int
    PROVE  /\ [f EXCEPT ![x] = @ + a] \in [S -> Int]
           /\ [f EXCEPT ![x] = @ - a] \in [S -> Int]
<1>1. f[x] + a \in Int /\ f[x] - a \in Int
  OBVIOUS
<1> QED
  BY <1>1

LEMMA PaymentTypes ==
    ASSUME TypeInv, NEW p \in Parts, NEW payee \in Users, NEW a \in Int,
           PayFromLock(RequestOf[p], payee, a), AdvancePart(p)
    PROVE  /\ reqState' \in [Requests -> WithdrawStates \cup {None}]
           /\ reqLocked' \in [Requests -> Int]
           /\ reqCompleted' \in [Requests -> Int]
           /\ withdrawRow' \in [Requests -> {None, "PROCESSING", "COMPLETED",
                                            "FAILED", "CANCELLED"}]
           /\ partStatus' \in [Parts -> PartStates \cup {None}]
           /\ partRes' \in [Parts -> Matches \cup {NoMatch}]
           /\ free' \in [Users -> Int]
           /\ held' \in [Users -> Int]
<1> USE MarketAssumption DEF TypeOK
<1>1. /\ reqLocked' \in [Requests -> Int]
      /\ free' \in [Users -> Int]
      /\ held' \in [Users -> Int]
  <2>1. RequestOf[p] \in Requests /\ Withdrawer[RequestOf[p]] \in Users
    OBVIOUS
  <2> QED
    BY <2>1, AmountMoved DEF PayFromLock
<1>2. /\ partStatus' \in [Parts -> PartStates \cup {None}]
      /\ partRes' \in [Parts -> Matches \cup {NoMatch}]
  BY DEF AdvancePart, PartStates
<1>3. StateAfter(RequestOf[p], Target[p]) \in WithdrawStates
  BY DEF StateAfter, WithdrawStates
<1>4. /\ reqState' \in [Requests -> WithdrawStates \cup {None}]
      /\ withdrawRow' \in [Requests -> {None, "PROCESSING", "COMPLETED",
                                       "FAILED", "CANCELLED"}]
  BY <1>3 DEF AdvancePart
<1>5. reqCompleted' \in [Requests -> Int]
  <2>1. RequestOf[p] \in Requests /\ Target[p] \in Int
    OBVIOUS
  <2> QED
    BY <2>1, AmountMoved DEF AdvancePart
<1> QED
  BY <1>1, <1>2, <1>4, <1>5

LEMMA SettleTypes ==
    ASSUME TypeInv, NEW m \in Matches, Settle(m),
           caseState' \in [Matches -> CaseStates \cup {None}],
           UNCHANGED <<windowOver, owedVars>>
    PROVE  TypeInv'
<1> USE MarketAssumption, NoneStays
    DEF TypeOK, vars, requestVars, partVars, intentVars, matchVars, owedVars, walletVars
<1>1. CASE matchStatus[m] = "CONFIRMED"
  BY <1>1 DEF Settle
<1>2. CASE matchStatus[m] # "CONFIRMED"
  <2>1. /\ MoveMatch(m, "CONFIRMED")
        /\ MoveIntent(matchIntent[m], "CONFIRMED")
        /\ depositRow' = [depositRow EXCEPT ![matchIntent[m]] = "COMPLETED"]
    BY <1>2 DEF Settle
  <2>2. matchIntent[m] \in Intents
    BY <2>1 DEF MoveMatch, None
  <2>3. MatchAmount(m) \in Int /\ Depositor[matchIntent[m]] \in Users
    BY <2>2 DEF MatchAmount
  <2>4. /\ matchStatus' \in [Matches -> MatchStates \cup {None}]
        /\ intentState' \in [Intents -> IntentStates \cup {None}]
        /\ depositRow' \in [Intents -> {None, "PENDING", "PROCESSING",
                               "COMPLETED", "FAILED", "CANCELLED"}]
        /\ UNCHANGED <<matchIntent, matchPart, retries>>
        /\ RowsAreLinked'
    BY <2>1, MoveTypes DEF MoveMatch, MoveIntent, MatchStates, IntentStates
  <2>5. CASE SettleFromPart(m)
    <3>1. matchPart[m] \in Parts
      BY <2>5 DEF SettleFromPart
    <3>2. /\ PayFromLock(RequestOf[matchPart[m]], Depositor[matchIntent[m]],
                          MatchAmount(m))
          /\ AdvancePart(matchPart[m])
      BY <2>5 DEF SettleFromPart
    <3> QED
      BY <2>3, <2>4, <3>1, <3>2, PaymentTypes
  <2>6. CASE SettleFromCompany(m)
    <3>1. free' \in [Users -> Int]
      BY <2>3, <2>6, AmountMoved DEF SettleFromCompany
    <3> QED
      BY <2>4, <2>6, <3>1 DEF SettleFromCompany
  <2> QED
    BY <1>2, <2>5, <2>6 DEF Settle
<1> QED
  BY <1>1, <1>2

LEMMA DecideTypes ==
    ASSUME TypeInv, NEW m \in Matches, NEW d \in Resolutions, Decide(m, d),
           caseState' \in [Matches -> CaseStates \cup {None}],
           UNCHANGED <<windowOver, owedVars>>
    PROVE  TypeInv'
<1> USE MarketAssumption, NoneStays
    DEF TypeOK, vars, requestVars, partVars, intentVars, matchVars, owedVars, walletVars
<1>1. CASE d = "CONFIRM_PAYMENT"
  BY SettleTypes, <1>1 DEF Decide
<1>2. CASE d = "SETTLE_FROM_ADMIN"
  <2> DEFINE p == matchPart[m]
  <2>1. /\ p \in Parts
        /\ SettlePartFromAdmin(p)
        /\ FailIntent(m, "REJECTED")
    BY <1>2 DEF Decide
  <2>2. CASE partStatus[p] = "CONFIRMED"
    <3>1. UNCHANGED <<reqState, reqLocked, reqCompleted, withdrawRow, partStatus, partRes,
                      free, held>>
      BY <2>1, <2>2 DEF SettlePartFromAdmin
    <3> QED
      BY <2>1, <3>1, MoveTypes DEF FailIntent, IntentStates, MatchStates
  <2>3. CASE partStatus[p] # "CONFIRMED"
    <3>1. PayFromLock(RequestOf[p], Company, Target[p]) /\ AdvancePart(p)
      BY <2>1, <2>3 DEF SettlePartFromAdmin
    <3>2. Target[p] \in Int
      BY <2>1
    <3> QED
      BY <2>1, <3>1, <3>2, PaymentTypes, MoveTypes
         DEF FailIntent, IntentStates, MatchStates
  <2> QED
    BY <2>2, <2>3
<1>3. CASE d \in {"REJECT_PAYMENT", "CANCEL_REQUEST"}
  <2>1. PICK s \in {"OPEN", "CANCELLED"}, t \in {"REJECTED", "CANCELLED"} :
          ReleasePart(matchPart[m], s) /\ FailIntent(m, t)
    BY <1>3 DEF Decide
  <2>2. UNCHANGED <<requestVars, walletVars>>
    BY <1>3 DEF Decide
  <2>3. s \in PartStates /\ t \in IntentStates /\ "CANCELLED" \in MatchStates
    BY DEF PartStates, IntentStates, MatchStates
  <2>4. depositRow' \in [Intents -> {None, "PENDING", "PROCESSING",
                                   "COMPLETED", "FAILED", "CANCELLED"}]
    BY <2>1 DEF FailIntent
  <2> QED
    BY <2>1, <2>2, <2>3, <2>4, MoveTypes, ReleaseTypes DEF FailIntent
<1>4. CASE d = "REOPEN_MATCHING"
  BY <1>4, MoveTypes, ReleaseTypes
     DEF Decide, IntentStates, MatchStates, PartStates
<1>5. CASE d = "REQUEST_MORE_EVIDENCE"
  BY <1>5
     DEF Decide, MoveIntent, IntentStates, None
<1> QED
  BY <1>1, <1>2, <1>3, <1>4, <1>5 DEF Resolutions

LEMMA MatchTypes ==
    ASSUME TypeInv, NEW m \in Matches, MatchStep(m)
    PROVE  TypeInv'
<1> USE MarketAssumption, NoneStays
    DEF TypeOK, vars, requestVars, partVars, intentVars, matchVars, owedVars, walletVars
<1>1. CASE AcceptMatch(m)
  BY <1>1, MoveTypes DEF AcceptMatch, IntentStates, MatchStates
<1>2. CASE CancelMatch(m)
  BY <1>2, MoveTypes, ReleaseTypes
     DEF CancelMatch, IntentStates, MatchStates, PartStates
<1>3. ASSUME NEW mismatch \in BOOLEAN, SubmitPaymentProof(m, mismatch)
      PROVE  TypeInv'
  BY <1>3 DEF SubmitPaymentProof, IntentStates, MatchStates, PartStates,
              HeldMatch, None
<1>5. CASE ConfirmPayment(m)
  BY <1>5, SettleTypes DEF ConfirmPayment
<1>6. CASE RejectPayment(m)
  BY <1>6, MoveTypes DEF RejectPayment, IntentStates, MatchStates
<1>7. ASSUME OpenEscalation(m), owedOpen' \subseteq Matches
      PROVE  TypeInv'
  BY <1>7, MoveTypes DEF OpenEscalation, IntentStates, MatchStates, CaseStates
<1>8. CASE EscalateOwed(m)
  BY <1>7, <1>8 DEF EscalateOwed
<1>9. CASE EscalateByAdmin(m)
  BY <1>7, <1>9 DEF EscalateByAdmin
<1>10. CASE Assign(m)
  BY <1>10 DEF Assign, CaseStates
<1>11. ASSUME NEW d \in Resolutions, Resolve(m, d)
       PROVE  TypeInv'
  <2>1. caseState' \in [Matches -> CaseStates \cup {None}]
    BY <1>11 DEF Resolve, CaseStates
  <2> QED
    BY <1>11, <2>1, DecideTypes DEF Resolve
<1>12. CASE ReservationExpiry(m)
  BY <1>12, MoveTypes, ReleaseTypes
     DEF ReservationExpiry, IntentStates, MatchStates, PartStates
<1>13. CASE WithdrawerResponseTimeout(m)
  BY <1>13, MoveTypes DEF WithdrawerResponseTimeout, IntentStates, MatchStates
<1>14. CASE SettlementTimeout(m)
  BY <1>7, <1>14 DEF SettlementTimeout
<1>15. CASE LoseOpen(m)
  BY <1>15 DEF LoseOpen
<1> QED
  BY <1>1, <1>2, <1>3, <1>5, <1>6, <1>8, <1>9, <1>10, <1>11, <1>12, <1>13,
     <1>14, <1>15 DEF MatchStep

LEMMA TypeStep == TypeInv /\ [Next]_vars => TypeInv'
<1> SUFFICES ASSUME TypeInv, [Next]_vars
             PROVE  TypeInv'
  OBVIOUS
<1>1. CASE Next
  BY <1>1, RequestTypes, IntentTypes, MatchTypes DEF Next
<1>2. CASE UNCHANGED vars
  BY <1>2 DEF TypeOK, vars, requestVars, partVars, intentVars, matchVars,
              owedVars, walletVars
<1> QED
  BY <1>1, <1>2

(* Every row and every wallet keeps its type, whatever the services do.    *)
THEOREM TypeCorrect == Spec => []TypeOK
<1>1. Spec => []TypeInv
  BY TypeInit, TypeStep, PTL DEF Spec
<1> QED
  BY <1>1, PTL

-----------------------------------------------------------------------------
(* The rows agree.                                                         *)

LEMMA RowsInit == Init => RowsInv
BY TypeInit, MarketAssumption
   DEF Init, RowsInv, TypeInv, PartsAreNew, ReservationIsExclusive, PartPaidOnce,
       IntentFollowsMatch, CaseFollowsMatch, HeldMatch, PaidMatch, LiveMatch,
       BusyPart, OpenCase, TakenMatch, None

(* The part of the invariant that a step may break besides types.          *)
Agree ==
    /\ PartsAreNew
    /\ ReservationIsExclusive
    /\ PartPaidOnce
    /\ IntentFollowsMatch
    /\ CaseFollowsMatch

LEMMA RequestRows ==
    ASSUME RowsInv, NEW r \in Requests, RequestStep(r), TypeInv'
    PROVE  Agree'
<1> USE MarketAssumption
    DEF RowsInv, TypeOK, partVars, intentVars, matchVars
<1>1. CASE CreateForWithdraw(r)
  <2>1. \A p \in Parts : partStatus[p] # None => partStatus'[p] = partStatus[p]
    BY <1>1 DEF CreateForWithdraw, PartsAreNew
  <2>2. \A p \in Parts : partStatus[p] = None => partStatus'[p] \in {None, "OPEN"}
    BY <1>1 DEF CreateForWithdraw, PartsAreNew
  <2>3. UNCHANGED <<partRes, matchStatus, matchPart, matchIntent, intentState, caseState>>
    BY <1>1 DEF CreateForWithdraw
  <2>4. PartsAreNew'
    BY <1>1 DEF CreateForWithdraw, PartsAreNew, None
  <2>5. ReservationIsExclusive'
    BY <2>1, <2>2, <2>3 DEF ReservationIsExclusive, HeldMatch, PaidMatch, BusyPart, None
  <2> QED
    BY <2>3, <2>4, <2>5 DEF Agree, PartPaidOnce, IntentFollowsMatch, CaseFollowsMatch
<1>2. CASE WindowElapses(r)
  BY <1>2 DEF WindowElapses, requestVars, Agree, PartsAreNew, ReservationIsExclusive, PartPaidOnce, IntentFollowsMatch, CaseFollowsMatch
<1>3. ASSUME NEW s \in {"CANCELLED", "EXPIRED"}, CloseRequest(r, s)
      PROVE  Agree'
  <2>1. \A p \in Parts :
            \/ partStatus'[p] = partStatus[p]
            \/ partStatus[p] = "OPEN" /\ partStatus'[p] = s
    BY <1>3 DEF CloseRequest
  <2>2. UNCHANGED <<partRes, matchStatus, matchPart, matchIntent, intentState, caseState>>
    BY <1>3 DEF CloseRequest
  <2>3. PartsAreNew'
    <3>1. reqState' = [reqState EXCEPT ![r] = s] /\ s # None
      BY <1>3 DEF CloseRequest, None
    <3>2. \A p \in Parts : RequestOf[p] # r => partStatus'[p] = partStatus[p]
      BY <1>3 DEF CloseRequest
    <3>3. ASSUME NEW p \in Parts, reqState'[RequestOf[p]] = None
          PROVE  partStatus'[p] = None
      <4>1. RequestOf[p] \in Requests
        OBVIOUS
      <4>2. RequestOf[p] # r /\ reqState[RequestOf[p]] = None
        BY <3>1, <3>3, <4>1
      <4> QED
        BY <3>2, <4>2 DEF PartsAreNew
    <3> QED
      BY <3>3 DEF PartsAreNew
  <2>4. ReservationIsExclusive'
    BY <2>1, <2>2 DEF ReservationIsExclusive, HeldMatch, PaidMatch, BusyPart
  <2> QED
    BY <2>2, <2>3, <2>4 DEF Agree, PartPaidOnce, IntentFollowsMatch, CaseFollowsMatch
<1>4. CASE Cancel(r)
  BY <1>3, <1>4 DEF Cancel
<1>5. CASE MoveToAdminSettlement(r)
  BY <1>5 DEF MoveToAdminSettlement, Agree, PartsAreNew, ReservationIsExclusive, PartPaidOnce, IntentFollowsMatch, CaseFollowsMatch, None
<1>6. CASE RequestExpiry(r)
  BY <1>3, <1>6 DEF RequestExpiry
<1> QED
  BY <1>1, <1>2, <1>4, <1>5, <1>6 DEF RequestStep

LEMMA IntentRows ==
    ASSUME RowsInv, NEW i \in Intents, IntentStep(i), TypeInv'
    PROVE  Agree'
<1> USE MarketAssumption
    DEF RowsInv, TypeOK, partVars, intentVars, matchVars, requestVars
<1> DEFINE Untaken == \A m \in Matches : matchStatus[m] \in TakenMatch => matchIntent[m] # i
<1>1. CASE CreateForDeposit(i)
  <2>1. Untaken
    BY <1>1 DEF CreateForDeposit, IntentFollowsMatch, InStep, None
  <2>2. IntentFollowsMatch'
    BY <1>1, <2>1 DEF CreateForDeposit, IntentFollowsMatch
  <2> QED
    BY <1>1, <2>2 DEF CreateForDeposit, Agree, PartsAreNew, ReservationIsExclusive, PartPaidOnce, CaseFollowsMatch
<1>2. ASSUME ReserveForIntent(i)
      PROVE  Agree'
  <2>1. Untaken
    BY <1>2 DEF ReserveForIntent, Queueing, IntentFollowsMatch, InStep
  <2>2. UNCHANGED <<reqState, caseState>>
    BY <1>2 DEF ReserveForIntent
  <2>3. ASSUME NEW p \in Parts \cup {NoPart}, NEW m \in Matches, InsertMatch(i, p, m)
        PROVE  IntentFollowsMatch' /\ CaseFollowsMatch' /\ PartPaidOnce'
    <3>1. IntentFollowsMatch'
      BY <2>1, <2>3 DEF InsertMatch, IntentFollowsMatch, InStep, TakenMatch, LiveMatch, HeldMatch
    <3>2. CaseFollowsMatch'
      BY <2>2, <2>3 DEF InsertMatch, CaseFollowsMatch, None, OpenCase
    <3>3. PartPaidOnce'
      BY <2>3 DEF InsertMatch, PartPaidOnce
    <3> QED BY <3>1, <3>2, <3>3
  <2>4. CASE ReservePart(i)
    <3>1. PICK p \in Candidates(i), m \in Matches :
            /\ InsertMatch(i, p, m)
            /\ partStatus' = [partStatus EXCEPT ![p] = "RESERVED"]
            /\ partRes' = [partRes EXCEPT ![p] = m]
      BY <2>4 DEF ReservePart
    <3>2. p \in Parts /\ partStatus[p] = "OPEN" /\ reqState[RequestOf[p]] # None
      BY <3>1 DEF Candidates, MatchableRequest, None
    <3>3. ReservationIsExclusive'
      BY <3>1, <3>2 DEF InsertMatch, ReservationIsExclusive, HeldMatch, PaidMatch, LiveMatch, BusyPart, None
    <3>4. PartsAreNew'
      BY <2>2, <3>1, <3>2 DEF PartsAreNew, None
    <3> QED
      BY <2>3, <3>1, <3>2, <3>3, <3>4 DEF Agree
  <2>5. CASE ReserveFromAdminAccount(i)
    <3>1. PICK m \in Matches : InsertMatch(i, NoPart, m) /\ UNCHANGED partVars
      BY <2>5 DEF ReserveFromAdminAccount
    <3>2. ReservationIsExclusive'
      BY <3>1 DEF InsertMatch, ReservationIsExclusive, HeldMatch, PaidMatch, LiveMatch, BusyPart, None
    <3> QED
      BY <2>2, <2>3, <3>1, <3>2 DEF Agree, PartsAreNew
  <2>6. CASE QueueIntent(i)
    <3>1. IntentFollowsMatch'
      BY <2>1, <2>6 DEF QueueIntent, IntentFollowsMatch
    <3> QED
      BY <2>2, <2>6, <3>1 DEF QueueIntent, Agree, PartsAreNew, ReservationIsExclusive, PartPaidOnce, CaseFollowsMatch
  <2> QED
    BY <1>2, <2>4, <2>5, <2>6 DEF ReserveForIntent
<1>3. CASE MatchNewIntent(i)
  BY <1>2, <1>3 DEF MatchNewIntent
<1>4. CASE MatchingRetry(i)
  BY <1>2, <1>4 DEF MatchingRetry
<1>5. CASE LoseMatching(i)
  BY <1>5 DEF LoseMatching, Agree, PartsAreNew, ReservationIsExclusive, PartPaidOnce, IntentFollowsMatch, CaseFollowsMatch
<1> QED
  BY <1>1, <1>3, <1>4, <1>5 DEF IntentStep

-----------------------------------------------------------------------------
(* The moves of a match, whichever handler makes them.                     *)

(* It stays held, or stays paid, and its intent moves with it.             *)
Advances(m, s, t) ==
    /\ MoveMatch(m, s)
    /\ MoveIntent(matchIntent[m], t)
    /\ InStep(s, t)
    /\ \/ matchStatus[m] \in HeldMatch /\ s \in HeldMatch
       \/ matchStatus[m] \in PaidMatch /\ s \in PaidMatch
    /\ matchStatus[m] # "ESCALATED"
    /\ \/ /\ s # "ESCALATED"
          /\ UNCHANGED <<depositRow, caseState>>
       \/ /\ s = "ESCALATED"
          /\ depositRow' = [depositRow EXCEPT ![matchIntent[m]] = "PROCESSING"]
          /\ caseState' = [caseState EXCEPT ![m] = "OPEN"]
    /\ UNCHANGED <<requestVars, partVars>>

(* The depositor pays.                                                     *)
Submits(m) == \E mismatch \in BOOLEAN : SubmitPaymentProof(m, mismatch)

(* It is dropped, before the payment or by the decision that resolves its  *)
(* case; its part goes to s, its intent to u.                              *)
Drops(m, s, t, u) ==
    /\ MoveMatch(m, t) /\ t \in {"CANCELLED", "RESERVATION_EXPIRED"}
    /\ MoveIntent(matchIntent[m], u)
    /\ \/ matchStatus[m] \in HeldMatch /\ u = "MATCHING" /\ UNCHANGED caseState
       \/ /\ matchStatus[m] = "ESCALATED"
          /\ t = "CANCELLED"
          /\ caseState' = [caseState EXCEPT ![m] = "RESOLVED"]
    /\ \/ u = "MATCHING" /\ UNCHANGED depositRow
       \/ /\ u = "REJECTED"
          /\ depositRow' = [depositRow EXCEPT ![matchIntent[m]] = "FAILED"]
       \/ /\ u = "CANCELLED"
          /\ depositRow' = [depositRow EXCEPT ![matchIntent[m]] = "CANCELLED"]
    /\ \/ matchPart[m] = NoPart /\ UNCHANGED <<requestVars, partVars>>
       \/ /\ matchPart[m] # NoPart
          /\ s \in {"OPEN", "CANCELLED"} /\ (s = "OPEN" \/ matchStatus[m] = "ESCALATED")
          /\ partStatus' = [partStatus EXCEPT ![matchPart[m]] = s]
          /\ partRes' = [partRes EXCEPT ![matchPart[m]] = NoMatch]
          /\ UNCHANGED requestVars
       \/ /\ matchPart[m] # NoPart
          /\ s = "CONFIRMED" /\ matchStatus[m] = "ESCALATED"
          /\ AdvancePart(matchPart[m])

(* It is confirmed, by the withdrawer or by the decision on its case.      *)
Confirms(m) ==
    /\ MoveMatch(m, "CONFIRMED")
    /\ MoveIntent(matchIntent[m], "CONFIRMED")
    /\ depositRow' = [depositRow EXCEPT ![matchIntent[m]] = "COMPLETED"]
    /\ \/ /\ matchStatus[m] = "WAITING_CONFIRMATION"
          /\ matchPart[m] # NoPart
          /\ UNCHANGED caseState
       \/ /\ matchStatus[m] = "ESCALATED"
          /\ caseState' = [caseState EXCEPT ![m] = "RESOLVED"]
    /\ \/ matchPart[m] = NoPart /\ UNCHANGED <<requestVars, partVars>>
       \/ matchPart[m] # NoPart /\ AdvancePart(matchPart[m])

(* An open case changes hands, or waits for the depositor's evidence.      *)
Attends(m) ==
    /\ matchStatus[m] = "ESCALATED"
    /\ \/ /\ caseState' = [caseState EXCEPT ![m] = "ASSIGNED"]
          /\ UNCHANGED intentState
       \/ /\ MoveIntent(matchIntent[m], "MORE_INFO_REQUESTED")
          /\ UNCHANGED caseState
    /\ UNCHANGED <<requestVars, partVars, matchVars, depositRow>>

Idles == UNCHANGED <<requestVars, partVars, matchVars, intentState, depositRow, caseState>>

MatchMove(m) ==
    \/ \E s, t : Advances(m, s, t)
    \/ Submits(m)
    \/ \E s, t, u : Drops(m, s, t, u)
    \/ Confirms(m)
    \/ Attends(m)
    \/ Idles

(* Every handler makes one of these moves.                                 *)
LEMMA MatchMoves ==
    ASSUME ~LateCancel, RowsInv, NEW m \in Matches, MatchStep(m)
    PROVE  MatchMove(m)
<1> USE DEF RowsInv
<1>1. CASE AcceptMatch(m)
  <2>1. Advances(m, "AWAITING_PAYMENT", "AWAITING_PAYMENT")
    BY <1>1 DEF AcceptMatch, Advances, HeldMatch, InStep
  <2> QED
    BY <2>1 DEF MatchMove
<1>2. ASSUME matchStatus[m] \in LiveMatch, NEW s, ReleasePart(matchPart[m], s)
      PROVE  \/ matchPart[m] = NoPart /\ UNCHANGED partVars
             \/ /\ matchPart[m] # NoPart
                /\ partStatus' = [partStatus EXCEPT ![matchPart[m]] = s]
                /\ partRes' = [partRes EXCEPT ![matchPart[m]] = NoMatch]
  BY <1>2 DEF ReleasePart, ReservationIsExclusive, LiveMatch, HeldMatch, PaidMatch
<1>3. CASE CancelMatch(m)
  <2>1. matchStatus[m] \in HeldMatch /\ matchStatus[m] \in LiveMatch
    BY <1>3 DEF CancelMatch, LiveMatch
  <2>2. Drops(m, "OPEN", "CANCELLED", "MATCHING")
    BY <1>2, <1>3, <2>1 DEF CancelMatch, Drops
  <2> QED
    BY <2>2 DEF MatchMove
<1>4. ASSUME NEW mismatch \in BOOLEAN, SubmitPaymentProof(m, mismatch)
      PROVE  MatchMove(m)
  BY <1>4 DEF Submits, MatchMove
<1>5. ASSUME Settle(m), matchStatus[m] # "CONFIRMED"
      PROVE  /\ MoveMatch(m, "CONFIRMED")
             /\ MoveIntent(matchIntent[m], "CONFIRMED")
             /\ depositRow' = [depositRow EXCEPT ![matchIntent[m]] = "COMPLETED"]
             /\ \/ matchPart[m] = NoPart /\ UNCHANGED <<requestVars, partVars>>
                \/ matchPart[m] # NoPart /\ AdvancePart(matchPart[m])
  BY <1>5 DEF Settle, SettleFromPart, SettleFromCompany
<1>6. CASE ConfirmPayment(m)
  <2>1. Confirms(m)
    BY <1>5, <1>6 DEF ConfirmPayment, Confirms
  <2> QED
    BY <2>1 DEF MatchMove
<1>7. CASE RejectPayment(m)
  <2>1. Advances(m, "REJECTED_BY_WITHDRAWER", "REJECTED_BY_WITHDRAWER")
    BY <1>7 DEF RejectPayment, Advances, PaidMatch, InStep
  <2> QED
    BY <2>1 DEF MatchMove
<1>8. ASSUME OpenEscalation(m)
      PROVE  MatchMove(m)
  <2>1. matchStatus[m] \in PaidMatch /\ matchStatus[m] # "ESCALATED"
    BY <1>8 DEF OpenEscalation, MayOpen, MatchMay, MatchTable, CaseFollowsMatch,
          PaidMatch
  <2>2. Advances(m, "ESCALATED", "ESCALATED_TO_ADMIN")
    BY <1>8, <2>1 DEF OpenEscalation, Advances, PaidMatch, InStep
  <2> QED
    BY <2>2 DEF MatchMove
<1>9. CASE EscalateOwed(m)
  BY <1>8, <1>9 DEF EscalateOwed, MatchMove, Idles, intentVars
<1>10. CASE EscalateByAdmin(m)
  BY <1>8, <1>10 DEF EscalateByAdmin
<1>11. CASE Assign(m)
  <2>1. caseState[m] \in OpenCase
    BY <1>11 DEF Assign, CaseMay, CaseTable, OpenCase, None
  <2>2. Attends(m)
    BY <1>11, <2>1 DEF Assign, Attends, CaseFollowsMatch, intentVars
  <2> QED
    BY <2>2 DEF MatchMove
<1>12. ASSUME NEW d \in Resolutions, Resolve(m, d)
       PROVE  MatchMove(m)
  <2> DEFINE p == matchPart[m]
  <2>1. matchStatus[m] = "ESCALATED" /\ matchStatus[m] \in LiveMatch
    BY <1>12 DEF Resolve, CaseFollowsMatch, PaidMatch, LiveMatch
  <2>2. d # "REQUEST_MORE_EVIDENCE" => caseState' = [caseState EXCEPT ![m] = "RESOLVED"]
    BY <1>12 DEF Resolve
  <2>3. CASE d = "CONFIRM_PAYMENT"
    <3>1. Settle(m)
      BY <1>12, <2>3 DEF Resolve, Decide
    <3>2. Confirms(m)
      BY <1>5, <2>1, <2>2, <2>3, <3>1 DEF Confirms
    <3> QED
      BY <3>2 DEF MatchMove
  <2>4. CASE d = "SETTLE_FROM_ADMIN"
    <3>1. p # NoPart /\ SettlePartFromAdmin(p) /\ FailIntent(m, "REJECTED")
      BY <1>12, <2>4 DEF Resolve, Decide
    <3>2. AdvancePart(p)
      BY <2>1, <3>1 DEF SettlePartFromAdmin, ReservationIsExclusive, TypeOK, PaidMatch
    <3>3. Drops(m, "CONFIRMED", "CANCELLED", "REJECTED")
      BY <2>1, <2>2, <2>4, <3>1, <3>2 DEF Drops, FailIntent
    <3> QED
      BY <3>3 DEF MatchMove
  <2>5. CASE d \in {"REJECT_PAYMENT", "CANCEL_REQUEST"}
    <3>1. PICK s \in {"OPEN", "CANCELLED"}, u \in {"REJECTED", "CANCELLED"} :
            ReleasePart(p, s) /\ FailIntent(m, u) /\ UNCHANGED requestVars
      BY <1>12, <2>5 DEF Resolve, Decide
    <3>2. Drops(m, s, "CANCELLED", u)
      BY <1>2, <2>1, <2>2, <2>5, <3>1 DEF Drops, FailIntent
    <3> QED
      BY <3>2 DEF MatchMove
  <2>6. CASE d = "REOPEN_MATCHING"
    <3>1. /\ ReleasePart(p, "OPEN")
          /\ MoveIntent(matchIntent[m], "MATCHING")
          /\ MoveMatch(m, "CANCELLED")
          /\ UNCHANGED <<requestVars, depositRow>>
      BY <1>12, <2>6 DEF Resolve, Decide
    <3>2. Drops(m, "OPEN", "CANCELLED", "MATCHING")
      BY <1>2, <2>1, <2>2, <2>6, <3>1 DEF Drops
    <3> QED
      BY <3>2 DEF MatchMove
  <2>7. CASE d = "REQUEST_MORE_EVIDENCE"
    <3>1. /\ MoveIntent(matchIntent[m], "MORE_INFO_REQUESTED")
          /\ UNCHANGED <<requestVars, partVars, matchVars, depositRow>>
      BY <1>12, <2>7 DEF Resolve, Decide
    <3>2. UNCHANGED caseState
      <4>1. caseState' = [caseState EXCEPT ![m] = caseState[m]]
        BY <1>12, <2>7 DEF Resolve
      <4>2. caseState \in [Matches -> CaseStates \cup {None}]
        BY DEF TypeOK
      <4> QED
        BY <4>1, <4>2
    <3>3. Attends(m)
      BY <2>1, <3>1, <3>2 DEF Attends
    <3> QED
      BY <3>3 DEF MatchMove
  <2> QED
    BY <1>12, <2>3, <2>4, <2>5, <2>6, <2>7 DEF Resolutions
<1>13. CASE ReservationExpiry(m)
  <2>1. matchStatus[m] \in HeldMatch /\ matchStatus[m] \in LiveMatch
    BY <1>13 DEF ReservationExpiry, LiveMatch
  <2>2. ReleasePart(matchPart[m], "OPEN")
    BY <1>13 DEF ReservationExpiry, ReleasePart, ReservationIsExclusive, TypeOK
  <2>3. Drops(m, "OPEN", "RESERVATION_EXPIRED", "MATCHING")
    BY <1>2, <1>13, <2>1, <2>2 DEF ReservationExpiry, Drops
  <2> QED
    BY <2>3 DEF MatchMove
<1>14. CASE WithdrawerResponseTimeout(m)
  <2>1. Advances(m, "RESPONSE_TIMEOUT", "WITHDRAWER_RESPONSE_TIMEOUT")
    BY <1>14 DEF WithdrawerResponseTimeout, Advances, PaidMatch, InStep
  <2> QED
    BY <2>1 DEF MatchMove
<1>15. CASE SettlementTimeout(m)
  BY <1>8, <1>15 DEF SettlementTimeout
<1>16. CASE LoseOpen(m)
  BY <1>16 DEF LoseOpen, MatchMove, Idles, intentVars
<1> QED
  BY <1>1, <1>3, <1>4, <1>6, <1>7, <1>9, <1>10, <1>11, <1>12, <1>13, <1>14,
     <1>15, <1>16 DEF MatchStep

-----------------------------------------------------------------------------
(* Each move keeps the rows in agreement.                                  *)

LEMMA AdvanceRows ==
    ASSUME RowsInv, NEW m \in Matches, NEW s, NEW t, Advances(m, s, t)
    PROVE  Agree'
<1> USE DEF RowsInv, TypeOK, partVars, requestVars, Advances
<1>1. ReservationIsExclusive'
  BY DEF MoveMatch, ReservationIsExclusive, HeldMatch, PaidMatch, LiveMatch
<1>2. PartPaidOnce'
  BY DEF MoveMatch, PartPaidOnce, HeldMatch, PaidMatch
<1>3. IntentFollowsMatch'
  BY DEF MoveMatch, MoveIntent, IntentFollowsMatch, TakenMatch, LiveMatch
<1>4. CaseFollowsMatch'
  BY DEF MoveMatch, CaseFollowsMatch, OpenCase, HeldMatch, PaidMatch
<1> QED
  BY <1>1, <1>2, <1>3, <1>4 DEF Agree, PartsAreNew

LEMMA SubmitRows ==
    ASSUME RowsInv, NEW m \in Matches, Submits(m)
    PROVE  Agree'
<1>0. PICK mismatch \in BOOLEAN : SubmitPaymentProof(m, mismatch)
  BY DEF Submits
<1> USE <1>0, MarketAssumption DEF RowsInv, TypeOK, SubmitPaymentProof
<1>1. ReservationIsExclusive'
  BY DEF ReservationIsExclusive, HeldMatch, PaidMatch, LiveMatch, BusyPart
<1>2. PartPaidOnce'
  BY DEF PartPaidOnce
<1>3. IntentFollowsMatch'
  BY DEF IntentFollowsMatch, TakenMatch, LiveMatch, HeldMatch, PaidMatch, InStep
<1>4. CaseFollowsMatch'
  BY DEF CaseFollowsMatch, HeldMatch
<1>5. PartsAreNew'
  BY DEF PartsAreNew, ReservationIsExclusive, requestVars, None
<1> QED
  BY <1>1, <1>2, <1>3, <1>4, <1>5 DEF Agree

(* What a confirmed part does to its request and to the other parts.       *)
LEMMA PartAdvanced ==
    ASSUME TypeOK, NEW p \in Parts, AdvancePart(p)
    PROVE  /\ partStatus' = [partStatus EXCEPT ![p] = "CONFIRMED"]
           /\ partRes' = [partRes EXCEPT ![p] = NoMatch]
           /\ \A q \in Parts : reqState'[RequestOf[q]] = None => reqState[RequestOf[q]] = None
           /\ reqState'[RequestOf[p]] # None
<1>1. StateAfter(RequestOf[p], Target[p]) # None
  BY DEF StateAfter, None
<1> QED
  BY <1>1, MarketAssumption DEF AdvancePart, TypeOK

LEMMA DropRows ==
    ASSUME RowsInv, NEW m \in Matches, NEW s, NEW t, NEW u, Drops(m, s, t, u)
    PROVE  Agree'
<1> USE MarketAssumption DEF RowsInv, TypeOK, partVars, requestVars
<1>1. matchStatus[m] \in LiveMatch
  BY DEF Drops, LiveMatch, PaidMatch
<1>2. /\ MoveMatch(m, t) /\ t \in {"CANCELLED", "RESERVATION_EXPIRED"}
      /\ MoveIntent(matchIntent[m], u)
      /\ \/ matchStatus[m] \in HeldMatch /\ UNCHANGED caseState
         \/ /\ matchStatus[m] = "ESCALATED" /\ t = "CANCELLED"
            /\ caseState' = [caseState EXCEPT ![m] = "RESOLVED"]
  BY DEF Drops
<1>3. /\ \/ matchPart[m] = NoPart /\ UNCHANGED partVars
         \/ /\ matchPart[m] \in Parts
            /\ s \in {"OPEN", "CANCELLED", "CONFIRMED"}
            /\ partStatus' = [partStatus EXCEPT ![matchPart[m]] = s]
            /\ partRes' = [partRes EXCEPT ![matchPart[m]] = NoMatch]
      /\ \A q \in Parts : reqState'[RequestOf[q]] = None => reqState[RequestOf[q]] = None
  BY PartAdvanced DEF Drops
<1>4. ReservationIsExclusive'
  BY <1>1, <1>2, <1>3 DEF MoveMatch, ReservationIsExclusive, HeldMatch, PaidMatch,
        LiveMatch, BusyPart
<1>5. PartPaidOnce'
  BY <1>2 DEF MoveMatch, PartPaidOnce
<1>6. IntentFollowsMatch'
  BY <1>1, <1>2 DEF MoveMatch, MoveIntent, IntentFollowsMatch, TakenMatch,
        LiveMatch, HeldMatch, PaidMatch
<1>7. CaseFollowsMatch'
  BY <1>1, <1>2 DEF MoveMatch, CaseFollowsMatch, OpenCase, HeldMatch
<1>8. PartsAreNew'
  <2>1. matchPart[m] # NoPart => partStatus[matchPart[m]] # None
    BY <1>1 DEF ReservationIsExclusive, LiveMatch, HeldMatch, PaidMatch, None
  <2>2. ASSUME NEW p \in Parts, reqState'[RequestOf[p]] = None
        PROVE  partStatus'[p] = None
    <3>1. partStatus[p] = None
      BY <1>3, <2>2 DEF PartsAreNew
    <3>2. p # matchPart[m]
      BY <2>1, <3>1
    <3> QED
      BY <1>3, <3>1, <3>2
  <2> QED
    BY <2>2 DEF PartsAreNew
<1> QED
  BY <1>4, <1>5, <1>6, <1>7, <1>8 DEF Agree

LEMMA ConfirmRows ==
    ASSUME RowsInv, NEW m \in Matches, Confirms(m)
    PROVE  Agree'
<1> USE MarketAssumption DEF RowsInv, TypeOK, partVars, requestVars
<1>1. matchStatus[m] \in PaidMatch
  BY DEF Confirms, PaidMatch
<1>2. /\ MoveMatch(m, "CONFIRMED")
      /\ MoveIntent(matchIntent[m], "CONFIRMED")
      /\ \/ matchStatus[m] # "ESCALATED" /\ UNCHANGED caseState
         \/ caseState' = [caseState EXCEPT ![m] = "RESOLVED"]
  BY DEF Confirms
<1>3. \/ matchPart[m] = NoPart /\ UNCHANGED <<reqState, partVars>>
      \/ /\ matchPart[m] \in Parts
         /\ partStatus' = [partStatus EXCEPT ![matchPart[m]] = "CONFIRMED"]
         /\ partRes' = [partRes EXCEPT ![matchPart[m]] = NoMatch]
         /\ \A q \in Parts : reqState'[RequestOf[q]] = None => reqState[RequestOf[q]] = None
         /\ reqState'[RequestOf[matchPart[m]]] # None
         /\ partStatus[matchPart[m]] = "PAID_PENDING"
         /\ partRes[matchPart[m]] = m
  BY <1>1, PartAdvanced DEF Confirms, ReservationIsExclusive
<1>4. ReservationIsExclusive'
  BY <1>1, <1>2, <1>3 DEF MoveMatch, ReservationIsExclusive, HeldMatch, PaidMatch,
        LiveMatch, BusyPart
<1>5. PartPaidOnce'
  BY <1>2, <1>3 DEF MoveMatch, PartPaidOnce, ReservationIsExclusive
<1>6. IntentFollowsMatch'
  BY <1>1, <1>2 DEF MoveMatch, MoveIntent, IntentFollowsMatch, TakenMatch,
        LiveMatch, HeldMatch, PaidMatch, InStep
<1>7. CaseFollowsMatch'
  BY <1>1, <1>2 DEF MoveMatch, CaseFollowsMatch, OpenCase, PaidMatch
<1>8. PartsAreNew'
  BY <1>3 DEF PartsAreNew
<1> QED
  BY <1>4, <1>5, <1>6, <1>7, <1>8 DEF Agree

LEMMA AttendRows ==
    ASSUME RowsInv, NEW m \in Matches, Attends(m)
    PROVE  Agree'
<1> USE DEF RowsInv, TypeOK, Attends, matchVars, partVars, requestVars
<1>1. IntentFollowsMatch'
  <2>1. matchStatus[m] \in TakenMatch
    BY DEF TakenMatch, LiveMatch, PaidMatch
  <2>2. CASE UNCHANGED intentState
    BY <2>2 DEF IntentFollowsMatch
  <2>3. CASE MoveIntent(matchIntent[m], "MORE_INFO_REQUESTED")
    BY <2>1, <2>3 DEF MoveIntent, IntentFollowsMatch, InStep
  <2> QED
    BY <2>2, <2>3
<1>2. CaseFollowsMatch'
  BY DEF CaseFollowsMatch, OpenCase
<1> QED
  BY <1>1, <1>2 DEF Agree, PartsAreNew, ReservationIsExclusive, PartPaidOnce

LEMMA IdleRows == ASSUME RowsInv, Idles PROVE Agree'
BY DEF Idles, matchVars, partVars, requestVars, RowsInv, Agree, PartsAreNew,
       ReservationIsExclusive, PartPaidOnce, IntentFollowsMatch, CaseFollowsMatch

LEMMA RowsStep ==
    ASSUME ~LateCancel
    PROVE  RowsInv /\ [Next]_vars => RowsInv'
<1> SUFFICES ASSUME RowsInv, [Next]_vars
             PROVE  RowsInv'
  OBVIOUS
<1>1. TypeInv'
  BY TypeStep DEF RowsInv, TypeInv
<1>2. ASSUME NEW m \in Matches, MatchStep(m)
      PROVE  Agree'
  BY <1>2, MatchMoves, AdvanceRows, SubmitRows, DropRows, ConfirmRows, AttendRows,
     IdleRows DEF MatchMove
<1>3. CASE Next
  BY <1>1, <1>2, <1>3, RequestRows, IntentRows DEF Next, Agree, RowsInv, TypeInv
<1>4. CASE UNCHANGED vars
  BY <1>1, <1>4, IdleRows DEF vars, intentVars, Idles, Agree, RowsInv, TypeInv
<1> QED
  BY <1>3, <1>4

(* While nobody cancels late, the rows agree in every state.               *)
THEOREM RowsAlwaysAgree ==
    ASSUME ~LateCancel
    PROVE  Spec => []RowsInv
BY RowsInit, RowsStep, PTL DEF Spec

(* ... so a part is never held for two depositors, ...                     *)
THEOREM PartsAreTakenAlone ==
    ASSUME ~LateCancel
    PROVE  Spec => []ReservationIsExclusive
BY RowsAlwaysAgree, PTL DEF RowsInv

-----------------------------------------------------------------------------
(* The market implements PartReservation while nobody cancels late: every  *)
(* step of it is a step of the reservation protocol, or leaves parts,      *)
(* reservations and matches as they are.                                   *)

PartPhases == [p \in Parts |-> PartPhase(p)]
MatchPhases == [m \in Matches |-> MatchPhase(m)]

LEMMA ReservationInit == Init => Reservation!Init
BY DEF Init, Reservation!Init, PartPhase, MatchPhase, None

(* What moving one match or one part does to the phases.                   *)
LEMMA MatchPhaseMoved ==
    ASSUME TypeOK, NEW m \in Matches, NEW s,
           matchStatus' = [matchStatus EXCEPT ![m] = s]
    PROVE  MatchPhases' = [MatchPhases EXCEPT ![m] = MatchPhase(m)']
BY DEF TypeOK, MatchPhases, MatchPhase

LEMMA PartPhaseMoved ==
    ASSUME TypeOK, NEW p \in Parts, NEW s,
           partStatus' = [partStatus EXCEPT ![p] = s]
    PROVE  PartPhases' = [PartPhases EXCEPT ![p] = PartPhase(p)']
BY DEF TypeOK, PartPhases, PartPhase

LEMMA PhasesStay ==
    /\ UNCHANGED partStatus => UNCHANGED PartPhases
    /\ UNCHANGED matchStatus => UNCHANGED MatchPhases
BY DEF PartPhases, PartPhase, MatchPhases, MatchPhase

Stutter == UNCHANGED <<PartPhases, partRes, MatchPhases, matchPart>>

LEMMA StutterIsStutter == Stutter => UNCHANGED Reservation!vars
BY DEF Stutter, Reservation!vars, PartPhases, MatchPhases

-----------------------------------------------------------------------------

LEMMA RequestRefines ==
    ASSUME RowsInv, NEW r \in Requests, RequestStep(r)
    PROVE  Reservation!OfferOrClose
<1> USE DEF RowsInv, TypeOK
<1>1. UNCHANGED <<partRes, matchStatus, matchPart>>
  BY DEF RequestStep, CreateForWithdraw, WindowElapses, Cancel, CloseRequest,
         MoveToAdminSettlement, RequestExpiry, matchVars, partVars
<1>2. \A p \in Parts :
        \/ partStatus'[p] = partStatus[p]
        \/ partStatus[p] = None /\ partStatus'[p] = "OPEN"
        \/ partStatus[p] = "OPEN" /\ partStatus'[p] \in {"CANCELLED", "EXPIRED"}
  <2>1. CASE CreateForWithdraw(r)
    BY <2>1 DEF CreateForWithdraw, PartsAreNew
  <2>2. ASSUME NEW s \in {"CANCELLED", "EXPIRED"}, CloseRequest(r, s)
        PROVE  \A p \in Parts :
                 \/ partStatus'[p] = partStatus[p]
                 \/ partStatus[p] = "OPEN" /\ partStatus'[p] \in {"CANCELLED", "EXPIRED"}
    BY <2>2 DEF CloseRequest
  <2>3. CASE WindowElapses(r) \/ MoveToAdminSettlement(r)
    BY <2>3 DEF WindowElapses, MoveToAdminSettlement, partVars
  <2> QED
    BY <2>1, <2>2, <2>3 DEF RequestStep, Cancel, RequestExpiry
<1>3. \A p \in Parts :
        PartPhase(p)' # PartPhase(p) => {PartPhase(p), PartPhase(p)'} = {"off", "offered"}
  BY <1>2 DEF PartPhase, None
<1>4. \A p \in Parts : PartPhase(p)' \in {"off", "offered", "held", "paid", "settled"}
  BY DEF PartPhase
<1>5. UNCHANGED MatchPhases
  BY <1>1, PhasesStay
<1> QED
  BY <1>1, <1>3, <1>4, <1>5 DEF Reservation!OfferOrClose, MatchPhases

LEMMA IntentRefines ==
    ASSUME RowsInv, NEW i \in Intents, IntentStep(i)
    PROVE  Reservation!Next \/ Stutter
<1> USE DEF RowsInv
<1>1. CASE CreateForDeposit(i) \/ LoseMatching(i)
  BY <1>1, PhasesStay DEF CreateForDeposit, LoseMatching, Stutter, partVars, matchVars
<1>2. ASSUME ReserveForIntent(i)
      PROVE  Reservation!Next \/ Stutter
  <2>1. ASSUME NEW m \in Matches, NEW p \in Parts \cup {NoPart}, InsertMatch(i, p, m)
        PROVE  /\ MatchPhases[m] = "new"
               /\ MatchPhases' = [MatchPhases EXCEPT ![m] = "held"]
               /\ matchPart' = [matchPart EXCEPT ![m] = p]
    <3>1. MatchPhase(m) = "new"
      BY <2>1 DEF InsertMatch, MatchPhase
    <3>2. MatchPhase(m)' = "held"
      BY <2>1 DEF InsertMatch, MatchPhase, HeldMatch, TypeOK, None
    <3> QED
      BY <2>1, <3>1, <3>2, MatchPhaseMoved DEF InsertMatch, MatchPhases
  <2>2. CASE ReservePart(i)
    <3>1. PICK p \in Candidates(i), m \in Matches :
            /\ InsertMatch(i, p, m)
            /\ partStatus' = [partStatus EXCEPT ![p] = "RESERVED"]
            /\ partRes' = [partRes EXCEPT ![p] = m]
      BY <2>2 DEF ReservePart
    <3>2. p \in Parts /\ partStatus[p] = "OPEN"
      BY <3>1 DEF Candidates
    <3>3. PartPhases[p] = "offered" /\ PartPhases' = [PartPhases EXCEPT ![p] = "held"]
      BY <3>1, <3>2, PartPhaseMoved DEF PartPhases, PartPhase, TypeOK
    <3>4. Reservation!Take(m, p)
      BY <2>1, <3>1, <3>2, <3>3, MarketAssumption
         DEF Reservation!Take, PartPhases, MatchPhases
    <3> QED
      BY <3>2, <3>4 DEF Reservation!Next
  <2>3. CASE ReserveFromAdminAccount(i)
    <3>1. PICK m \in Matches : InsertMatch(i, NoPart, m) /\ UNCHANGED partVars
      BY <2>3 DEF ReserveFromAdminAccount
    <3>2. Reservation!Take(m, NoPart)
      BY <2>1, <3>1, PhasesStay DEF Reservation!Take, PartPhases, MatchPhases, partVars
    <3> QED
      BY <3>2 DEF Reservation!Next
  <2>4. CASE QueueIntent(i)
    BY <2>4, PhasesStay DEF QueueIntent, Stutter, partVars, matchVars
  <2> QED
    BY <1>2, <2>2, <2>3, <2>4 DEF ReserveForIntent
<1> QED
  BY <1>1, <1>2 DEF IntentStep, MatchNewIntent, MatchingRetry

(* A match moves to status s; its part, if it has one, to status t.        *)
LEMMA PhasesMoved ==
    ASSUME RowsInv, NEW m \in Matches, NEW s, NEW t,
           matchStatus' = [matchStatus EXCEPT ![m] = s], UNCHANGED matchPart,
           \/ matchPart[m] = NoPart /\ UNCHANGED partVars
           \/ /\ matchPart[m] # NoPart
              /\ partStatus' = [partStatus EXCEPT ![matchPart[m]] = t]
              /\ partRes' = [partRes EXCEPT ![matchPart[m]] = NoMatch]
    PROVE  /\ MatchPhases' = [MatchPhases EXCEPT ![m] = MatchPhase(m)']
           /\ matchStatus'[m] = s
           /\ IF matchPart[m] = NoPart
              THEN UNCHANGED <<PartPhases, partRes>>
              ELSE /\ matchPart[m] \in Parts
                   /\ PartPhases' = [PartPhases EXCEPT ![matchPart[m]] = PartPhase(matchPart[m])']
                   /\ partStatus'[matchPart[m]] = t
                   /\ partRes' = [partRes EXCEPT ![matchPart[m]] = NoMatch]
<1>1. MatchPhases' = [MatchPhases EXCEPT ![m] = MatchPhase(m)'] /\ matchStatus'[m] = s
  BY MatchPhaseMoved DEF RowsInv, TypeOK
<1>2. CASE matchPart[m] = NoPart
  BY <1>1, <1>2, PhasesStay DEF partVars
<1>3. CASE matchPart[m] # NoPart
  <2>1. matchPart[m] \in Parts
    BY <1>3 DEF RowsInv, TypeOK
  <2> QED
    BY <1>1, <1>3, <2>1, PartPhaseMoved DEF RowsInv, TypeOK
<1> QED
  BY <1>2, <1>3

(* The abstract effect of a match leaving its part in phase x.             *)
LEMMA Freed ==
    ASSUME RowsInv, NEW m \in Matches, matchStatus[m] \in LiveMatch, NEW x,
           IF matchPart[m] = NoPart
           THEN UNCHANGED <<PartPhases, partRes>>
           ELSE /\ PartPhases' = [PartPhases EXCEPT ![matchPart[m]] = x]
                /\ partRes' = [partRes EXCEPT ![matchPart[m]] = NoMatch]
    PROVE  Reservation!Free(m, x)
<1>1. matchPart[m] # NoPart => partRes[matchPart[m]] = m
  BY DEF RowsInv, ReservationIsExclusive, LiveMatch
<1> QED
  BY <1>1 DEF Reservation!Free, PartPhases

LEMMA AdvanceRefines ==
    ASSUME RowsInv, NEW m \in Matches, NEW s, NEW t, Advances(m, s, t)
    PROVE  Stutter
<1>1. matchStatus' = [matchStatus EXCEPT ![m] = s] /\ UNCHANGED <<matchPart, partVars>>
  BY DEF Advances, MoveMatch
<1>2. MatchPhases' = [MatchPhases EXCEPT ![m] = MatchPhase(m)']
  BY <1>1, MatchPhaseMoved DEF RowsInv
<1>3. MatchPhase(m)' = MatchPhase(m)
  BY <1>1 DEF Advances, MatchPhase, HeldMatch, PaidMatch, RowsInv, TypeOK, None
<1>4. MatchPhases' = MatchPhases
  BY <1>2, <1>3 DEF MatchPhases
<1> QED
  BY <1>1, <1>4, PhasesStay DEF Stutter, partVars

LEMMA SubmitRefines ==
    ASSUME RowsInv, NEW m \in Matches, Submits(m)
    PROVE  Reservation!Pay(m)
<1>1. PICK s \in {"PROOF_SUBMITTED", "WAITING_CONFIRMATION"} :
        /\ matchStatus[m] \in HeldMatch
        /\ matchStatus' = [matchStatus EXCEPT ![m] = s]
        /\ UNCHANGED <<matchPart, partRes>>
        /\ \/ matchPart[m] = NoPart /\ UNCHANGED partStatus
           \/ /\ matchPart[m] # NoPart
              /\ partStatus' = [partStatus EXCEPT ![matchPart[m]] = "PAID_PENDING"]
  BY DEF Submits, SubmitPaymentProof
<1>2. MatchPhase(m) = "held" /\ MatchPhase(m)' = "paid"
  BY <1>1 DEF MatchPhase, HeldMatch, PaidMatch, RowsInv, TypeOK, None
<1>3. MatchPhases[m] = "held" /\ MatchPhases' = [MatchPhases EXCEPT ![m] = "paid"]
  BY <1>1, <1>2, MatchPhaseMoved DEF RowsInv, MatchPhases
<1>4. CASE matchPart[m] = NoPart
  BY <1>1, <1>3, <1>4, PhasesStay DEF Reservation!Pay, MatchPhases, PartPhases
<1>5. CASE matchPart[m] # NoPart
  <2>1. matchPart[m] \in Parts /\ partRes[matchPart[m]] = m
    BY <1>1, <1>5 DEF RowsInv, TypeOK, ReservationIsExclusive
  <2>2. PartPhase(matchPart[m])' = "paid"
    BY <1>1, <1>5, <2>1 DEF PartPhase, RowsInv, TypeOK
  <2>3. PartPhases' = [PartPhases EXCEPT ![matchPart[m]] = "paid"]
    BY <1>1, <1>5, <2>1, <2>2, PartPhaseMoved DEF RowsInv
  <2> QED
    BY <1>1, <1>3, <1>5, <2>1, <2>3 DEF Reservation!Pay, MatchPhases, PartPhases
<1> QED
  BY <1>4, <1>5

LEMMA DropRefines ==
    ASSUME RowsInv, NEW m \in Matches, NEW s, NEW t, NEW u, Drops(m, s, t, u)
    PROVE  Reservation!Return(m) \/ Reservation!Dismiss(m)
<1>1. /\ matchStatus' = [matchStatus EXCEPT ![m] = t]
      /\ t \in {"CANCELLED", "RESERVATION_EXPIRED"}
      /\ UNCHANGED matchPart
      /\ matchStatus[m] \in HeldMatch \/ matchStatus[m] = "ESCALATED"
      /\ matchPart[m] # NoPart =>
            /\ s \in {"OPEN", "CANCELLED", "CONFIRMED"}
            /\ s = "OPEN" \/ matchStatus[m] = "ESCALATED"
      /\ \/ matchPart[m] = NoPart /\ UNCHANGED partVars
         \/ /\ matchPart[m] # NoPart
            /\ partStatus' = [partStatus EXCEPT ![matchPart[m]] = s]
            /\ partRes' = [partRes EXCEPT ![matchPart[m]] = NoMatch]
  BY DEF Drops, MoveMatch, AdvancePart
<1>2. matchStatus[m] \in LiveMatch
  BY <1>1 DEF LiveMatch, PaidMatch
<1>3. /\ MatchPhases' = [MatchPhases EXCEPT ![m] = MatchPhase(m)']
      /\ matchStatus'[m] = t
      /\ IF matchPart[m] = NoPart
         THEN UNCHANGED <<PartPhases, partRes>>
         ELSE /\ matchPart[m] \in Parts
              /\ PartPhases' = [PartPhases EXCEPT ![matchPart[m]] = PartPhase(matchPart[m])']
              /\ partStatus'[matchPart[m]] = s
              /\ partRes' = [partRes EXCEPT ![matchPart[m]] = NoMatch]
  <2>1. CASE matchPart[m] = NoPart /\ UNCHANGED partVars
    BY <1>1, <2>1, PhasesMoved
  <2>2. CASE /\ matchPart[m] # NoPart
             /\ partStatus' = [partStatus EXCEPT ![matchPart[m]] = s]
             /\ partRes' = [partRes EXCEPT ![matchPart[m]] = NoMatch]
    BY <1>1, <2>2, PhasesMoved
  <2> QED
    BY <1>1, <2>1, <2>2
<1>4. MatchPhases' = [MatchPhases EXCEPT ![m] = "dropped"]
  BY <1>1, <1>3 DEF MatchPhase, HeldMatch, PaidMatch, None
<1> DEFINE x == IF s = "OPEN" THEN "offered" ELSE IF s = "CONFIRMED" THEN "settled" ELSE "off"
<1>5. matchPart[m] # NoPart => PartPhase(matchPart[m])' = x
  BY <1>1, <1>3 DEF PartPhase
<1>6. Reservation!Free(m, x)
  BY <1>2, <1>3, <1>5, Freed
<1>7. CASE matchStatus[m] \in HeldMatch
  <2>1. MatchPhases[m] = "held"
    BY <1>7 DEF MatchPhases, MatchPhase, HeldMatch, None
  <2>2. Reservation!Free(m, "offered")
    BY <1>1, <1>6, <1>7 DEF Reservation!Free, HeldMatch
  <2> QED
    BY <1>1, <1>4, <2>1, <2>2 DEF Reservation!Return, MatchPhases
<1>8. CASE matchStatus[m] = "ESCALATED"
  <2>1. MatchPhase(m) = "paid"
    BY <1>8 DEF MatchPhase, HeldMatch, PaidMatch, None
  <2>2. MatchPhases[m] = "paid"
    BY <2>1 DEF MatchPhases
  <2>3. x \in {"offered", "off", "settled"}
    OBVIOUS
  <2> HIDE DEF x
  <2>4. \E y \in {"offered", "off", "settled"} : Reservation!Free(m, y)
    BY <1>6, <2>3
  <2> QED
    BY <1>1, <1>4, <2>2, <2>4 DEF Reservation!Dismiss, MatchPhases
<1> QED
  BY <1>1, <1>7, <1>8

LEMMA ConfirmRefines ==
    ASSUME RowsInv, NEW m \in Matches, Confirms(m)
    PROVE  Reservation!Confirm(m)
<1> DEFINE c == "CONFIRMED"
<1>1. /\ matchStatus' = [matchStatus EXCEPT ![m] = c]
      /\ matchStatus[m] \in PaidMatch
      /\ UNCHANGED matchPart
      /\ \/ matchPart[m] = NoPart /\ UNCHANGED partVars
         \/ /\ matchPart[m] # NoPart
            /\ partStatus' = [partStatus EXCEPT ![matchPart[m]] = c]
            /\ partRes' = [partRes EXCEPT ![matchPart[m]] = NoMatch]
  BY DEF Confirms, MoveMatch, AdvancePart, PaidMatch
<1> HIDE DEF c
<1>2. /\ MatchPhases' = [MatchPhases EXCEPT ![m] = MatchPhase(m)']
      /\ matchStatus'[m] = c
      /\ IF matchPart[m] = NoPart
         THEN UNCHANGED <<PartPhases, partRes>>
         ELSE /\ PartPhases' = [PartPhases EXCEPT ![matchPart[m]] = PartPhase(matchPart[m])']
              /\ partStatus'[matchPart[m]] = c
              /\ partRes' = [partRes EXCEPT ![matchPart[m]] = NoMatch]
  <2>1. RowsInv /\ m \in Matches
    OBVIOUS
  <2>2. PICK p : p = matchPart[m]
    OBVIOUS
  <2>3. CASE p = NoPart
    <3>1. matchPart[m] = NoPart /\ UNCHANGED partVars
      BY <1>1, <2>2, <2>3
    <3> QED
      BY ONLY <1>1, <2>1, <3>1, PhasesMoved
  <2>4. CASE p # NoPart
    <3>1. /\ matchPart[m] # NoPart
          /\ partStatus' = [partStatus EXCEPT ![matchPart[m]] = c]
          /\ partRes' = [partRes EXCEPT ![matchPart[m]] = NoMatch]
      BY <1>1, <2>2, <2>4
    <3> QED
      BY ONLY <1>1, <2>1, <3>1, PhasesMoved
  <2> QED
    BY <2>3, <2>4
<1> USE DEF c
<1>3. MatchPhase(m) = "paid" /\ MatchPhase(m)' = "settled"
  BY <1>1, <1>2 DEF MatchPhase, HeldMatch, PaidMatch, None
<1>4. MatchPhases' = [MatchPhases EXCEPT ![m] = "settled"] /\ MatchPhases[m] = "paid"
  BY <1>2, <1>3 DEF MatchPhases
<1>5. matchPart[m] # NoPart => PartPhase(matchPart[m])' = "settled"
  BY <1>1, <1>2 DEF PartPhase
<1>6. Reservation!Free(m, "settled")
  BY <1>1, <1>2, <1>5, Freed DEF LiveMatch
<1> QED
  BY <1>1, <1>4, <1>6 DEF Reservation!Confirm, MatchPhases

LEMMA StepRefines ==
    ASSUME ~LateCancel, RowsInv, [Next]_vars
    PROVE  [Reservation!Next]_Reservation!vars
<1>1. ASSUME NEW m \in Matches, MatchStep(m)
      PROVE  Reservation!Next \/ Stutter
  <2>1. MatchMove(m)
    BY <1>1, MatchMoves
  <2>2. CASE Attends(m) \/ Idles
    BY <2>2, PhasesStay DEF Attends, Idles, Stutter, partVars, matchVars
  <2> QED
    BY <2>1, <2>2, AdvanceRefines, SubmitRefines, DropRefines, ConfirmRefines
       DEF MatchMove, Reservation!Next
<1>2. ASSUME UNCHANGED vars
      PROVE  Stutter
  BY <1>2, PhasesStay DEF vars, partVars, matchVars, Stutter
<1>3. Reservation!Next \/ Stutter
  <2>1. CASE \E r \in Requests : RequestStep(r)
    BY <2>1, RequestRefines DEF Reservation!Next
  <2>2. CASE \E i \in Intents : IntentStep(i)
    BY <2>2, IntentRefines
  <2>3. CASE \E m \in Matches : MatchStep(m)
    BY <2>3, <1>1
  <2> QED
    BY <1>2, <2>1, <2>2, <2>3 DEF Next
<1> QED
  BY <1>3, StutterIsStutter

(* The market implements the reservation protocol.                         *)
THEOREM MarketReserves ==
    ASSUME ~LateCancel
    PROVE  Spec => ImplementsReservation
<1>1. RowsInv /\ [Next]_vars => [Reservation!Next]_Reservation!vars
  BY StepRefines
<1> QED
  BY <1>1, ReservationInit, RowsAlwaysAgree, PTL
     DEF Spec, ImplementsReservation, Reservation!Spec
=============================================================================
