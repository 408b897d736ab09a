--------------------------- MODULE P2pBooks_proofs ---------------------------
(***************************************************************************)
(* The money of the p2p market: what requests and wallets say of it adds   *)
(* up in every state, and its wallets implement the ledger.                *)
(***************************************************************************)
EXTENDS P2pRows_proofs, SumTheorems

-----------------------------------------------------------------------------
(* The moves of money, whichever handler makes them.                       *)

(* Nothing is paid, set aside or handed back: balances and books stay, and *)
(* no part and no match becomes or ceases to be confirmed.                 *)
SameMatches ==
    \A m \in Matches :
        /\ matchStatus'[m] = "CONFIRMED" <=> matchStatus[m] = "CONFIRMED"
        /\ matchStatus[m] = "CONFIRMED" =>
                matchIntent'[m] = matchIntent[m] /\ matchPart'[m] = matchPart[m]

SameParts ==
    \A p \in Parts : partStatus'[p] = "CONFIRMED" <=> partStatus[p] = "CONFIRMED"

Quiet ==
    /\ UNCHANGED <<reqLocked, reqCompleted, free, held>>
    /\ \A r \in Requests :
        \/ reqState'[r] = reqState[r]
        \/ reqState[r] \in ActiveRequest /\ reqState'[r] \in ActiveRequest
    /\ SameParts
    /\ SameMatches

(* One match becomes confirmed and keeps its rows.                         *)
Credits(m) ==
    /\ matchStatus[m] # "CONFIRMED"
    /\ matchStatus' = [matchStatus EXCEPT ![m] = "CONFIRMED"]
    /\ UNCHANGED <<matchIntent, matchPart>>

(* The lock of part p pays user u.                                         *)
PaysPart(p, u) ==
    /\ partStatus[p] = "PAID_PENDING"
    /\ PayFromLock(RequestOf[p], u, Target[p])
    /\ AdvancePart(p)

MoneyMove ==
    \/ Quiet
    \/ \E r \in Requests : CreateForWithdraw(r)
    \/ \E r \in Requests, s \in {"CANCELLED", "EXPIRED"} : CloseRequest(r, s)
    \/ \E m \in Matches :
        /\ Credits(m)
        /\ matchPart[m] \in Parts
        /\ matchIntent[m] \in Intents
        /\ PaysPart(matchPart[m], Depositor[matchIntent[m]])
    \/ \E p \in Parts : PaysPart(p, Company) /\ SameMatches
    \/ \E m \in Matches :
        /\ Credits(m)
        /\ matchIntent[m] \in Intents
        /\ SettleFromCompany(m)

(* A match that moves elsewhere, and a part that is released, are quiet.   *)
LEMMA MoveIsQuiet ==
    ASSUME TypeOK, NEW m \in Matches, NEW s, s # "CONFIRMED", MoveMatch(m, s)
    PROVE  SameMatches
BY DEF MoveMatch, MatchMay, MatchTable, SameMatches, TypeOK

LEMMA ReleaseIsQuiet ==
    ASSUME TypeOK, NEW p \in Parts \cup {NoPart}, NEW s, s # "CONFIRMED", ReleasePart(p, s)
    PROVE  SameParts
BY MarketAssumption DEF ReleasePart, PartMay, PartTable, SameParts, TypeOK, partVars

LEMMA RequestMoney ==
    ASSUME RowsInv, NEW r \in Requests, RequestStep(r)
    PROVE  MoneyMove
<1>1. CASE WindowElapses(r) \/ MoveToAdminSettlement(r)
  <2>1. Quiet
    BY <1>1 DEF WindowElapses, MoveToAdminSettlement, Quiet, requestVars, partVars,
        matchVars, walletVars, SameParts, SameMatches, RowsInv, TypeOK, ActiveRequest, MatchableRequest
  <2> QED
    BY <2>1 DEF MoneyMove
<1>2. CASE Cancel(r) \/ RequestExpiry(r)
  BY <1>2 DEF Cancel, RequestExpiry, MoneyMove
<1> QED
  BY <1>1, <1>2 DEF RequestStep, MoneyMove

LEMMA IntentMoney ==
    ASSUME RowsInv, NEW i \in Intents, IntentStep(i)
    PROVE  Quiet
<1> USE DEF RowsInv, TypeOK
<1>1. UNCHANGED <<reqState, reqLocked, reqCompleted, free, held>>
  BY DEF IntentStep, CreateForDeposit, MatchNewIntent, MatchingRetry, LoseMatching,
         ReserveForIntent, requestVars, walletVars
<1>2. ASSUME NEW m \in Matches, NEW p, InsertMatch(i, p, m)
      PROVE  SameMatches
  BY <1>2 DEF InsertMatch, SameMatches, None
<1>3. ASSUME ReserveForIntent(i)
      PROVE  SameMatches /\ SameParts
  <2>1. CASE ReservePart(i)
    BY <1>2, <2>1 DEF ReservePart, Candidates, SameParts
  <2>2. CASE ReserveFromAdminAccount(i)
    BY <1>2, <2>2 DEF ReserveFromAdminAccount, SameParts, partVars
  <2>3. CASE QueueIntent(i)
    BY <2>3 DEF QueueIntent, SameMatches, SameParts, partVars, matchVars
  <2> QED
    BY <1>3, <2>1, <2>2, <2>3 DEF ReserveForIntent
<1>4. CASE CreateForDeposit(i) \/ LoseMatching(i)
  BY <1>4, <1>1 DEF CreateForDeposit, LoseMatching, Quiet, SameMatches, SameParts, partVars, matchVars
<1> QED
  BY <1>1, <1>3, <1>4 DEF IntentStep, MatchNewIntent, MatchingRetry, Quiet

LEMMA MatchMoney ==
    ASSUME ~LateCancel, RowsInv, NEW m \in Matches, MatchStep(m)
    PROVE  MoneyMove
<1> USE DEF RowsInv
<1> USE MarketAssumption
<1>1. Quiet => MoneyMove
  BY DEF MoneyMove
<1>2. matchPart[m] \in Parts \cup {NoPart}
  BY DEF TypeOK
<1>3. ASSUME UNCHANGED <<requestVars, walletVars>>, SameMatches, SameParts
      PROVE  Quiet
  BY <1>3 DEF Quiet, requestVars, walletVars
<1>4. ASSUME UNCHANGED partVars PROVE SameParts
  BY <1>4 DEF SameParts, partVars
<1>5. ASSUME UNCHANGED matchVars PROVE SameMatches
  BY <1>5 DEF SameMatches, matchVars
<1>6. ASSUME Settle(m), matchStatus[m] \in PaidMatch
      PROVE  MoneyMove
  <2>1. /\ matchStatus[m] # "CONFIRMED"
        /\ MoveMatch(m, "CONFIRMED")
        /\ SettleFromPart(m) \/ SettleFromCompany(m)
    BY <1>6 DEF Settle, PaidMatch
  <2>2. Credits(m)
    BY <2>1 DEF Credits, MoveMatch
  <2>3. matchIntent[m] \in Intents
    BY <1>6 DEF RowsAreLinked, PaidMatch, None
  <2>4. CASE SettleFromPart(m)
    <3>1. matchPart[m] \in Parts /\ MatchAmount(m) = Target[matchPart[m]]
      BY <1>2, <2>4 DEF SettleFromPart, MatchAmount
    <3>2. partStatus[matchPart[m]] = "PAID_PENDING"
      BY <1>6, <2>4 DEF SettleFromPart, ReservationIsExclusive
    <3>3. PaysPart(matchPart[m], Depositor[matchIntent[m]])
      BY <2>4, <3>1, <3>2 DEF SettleFromPart, PaysPart
    <3> QED
      BY <2>2, <2>3, <3>1, <3>3 DEF MoneyMove
  <2>5. CASE SettleFromCompany(m)
    BY <2>2, <2>3, <2>5 DEF MoneyMove
  <2> QED
    BY <2>1, <2>4, <2>5
<1>7. CASE AcceptMatch(m)
  BY <1>1, <1>3, <1>4, <1>7, MoveIsQuiet DEF AcceptMatch
<1>8. CASE CancelMatch(m)
  <2>1. SameMatches /\ SameParts
    BY <1>2, <1>8, MoveIsQuiet, ReleaseIsQuiet DEF CancelMatch
  <2> QED
    BY <1>1, <1>3, <1>8, <2>1 DEF CancelMatch
<1>9. ASSUME NEW mismatch \in BOOLEAN, SubmitPaymentProof(m, mismatch)
      PROVE  Quiet
  <2>1. SameMatches
    BY <1>9 DEF SubmitPaymentProof, SameMatches, HeldMatch, TypeOK
  <2>2. SameParts
    BY <1>9 DEF SubmitPaymentProof, SameParts, PartMay, PartTable, TypeOK
  <2> QED
    BY <1>3, <1>9, <2>1, <2>2 DEF SubmitPaymentProof
<1>10. CASE ConfirmPayment(m)
  BY <1>6, <1>10 DEF ConfirmPayment, PaidMatch
<1>11. CASE RejectPayment(m)
  BY <1>1, <1>3, <1>4, <1>11, MoveIsQuiet DEF RejectPayment
<1>12. ASSUME OpenEscalation(m)
       PROVE  Quiet
  BY <1>3, <1>4, <1>12, MoveIsQuiet DEF OpenEscalation
<1>13. CASE EscalateOwed(m)
  BY <1>1, <1>3, <1>4, <1>5, <1>12, <1>13 DEF EscalateOwed
<1>14. CASE EscalateByAdmin(m)
  BY <1>1, <1>12, <1>14 DEF EscalateByAdmin
<1>15. CASE Assign(m)
  BY <1>1, <1>3, <1>4, <1>5, <1>15 DEF Assign
<1>16. ASSUME NEW d \in Resolutions, Resolve(m, d)
       PROVE  MoneyMove
  <2>1. matchStatus[m] = "ESCALATED" /\ matchStatus[m] \in PaidMatch /\ Decide(m, d)
    BY <1>16 DEF Resolve, CaseFollowsMatch, PaidMatch
  <2>2. CASE d = "CONFIRM_PAYMENT"
    BY <1>6, <2>1, <2>2 DEF Decide
  <2>3. CASE d = "SETTLE_FROM_ADMIN"
    <3> DEFINE p == matchPart[m]
    <3>1. p # NoPart /\ SettlePartFromAdmin(p) /\ FailIntent(m, "REJECTED")
      BY <2>1, <2>3 DEF Decide
    <3>2. p \in Parts /\ partStatus[p] = "PAID_PENDING"
      BY <1>2, <2>1, <3>1 DEF ReservationIsExclusive
    <3>3. PaysPart(p, Company)
      BY <3>1, <3>2 DEF SettlePartFromAdmin, PaysPart
    <3>4. SameMatches
      BY <3>1, MoveIsQuiet DEF FailIntent
    <3> QED
      BY <3>2, <3>3, <3>4 DEF MoneyMove
  <2>4. CASE d \in {"REJECT_PAYMENT", "CANCEL_REQUEST"}
    <3>1. PICK s \in {"OPEN", "CANCELLED"}, u \in {"REJECTED", "CANCELLED"} :
            /\ ReleasePart(matchPart[m], s) /\ FailIntent(m, u)
            /\ UNCHANGED <<requestVars, walletVars>>
      BY <2>1, <2>4 DEF Decide
    <3>2. SameMatches /\ SameParts
      BY <1>2, <3>1, MoveIsQuiet, ReleaseIsQuiet DEF FailIntent
    <3> QED
      BY <1>1, <1>3, <3>1, <3>2
  <2>5. CASE d = "REOPEN_MATCHING"
    <3>1. /\ ReleasePart(matchPart[m], "OPEN") /\ MoveMatch(m, "CANCELLED")
          /\ UNCHANGED <<requestVars, walletVars>>
      BY <2>1, <2>5 DEF Decide
    <3>2. SameMatches /\ SameParts
      BY <1>2, <3>1, MoveIsQuiet, ReleaseIsQuiet
    <3> QED
      BY <1>1, <1>3, <3>1, <3>2
  <2>6. CASE d = "REQUEST_MORE_EVIDENCE"
    <3>1. UNCHANGED <<requestVars, partVars, matchVars, walletVars>>
      BY <2>1, <2>6 DEF Decide
    <3> QED
      BY <1>1, <1>3, <1>4, <1>5, <3>1
  <2> QED
    BY <2>2, <2>3, <2>4, <2>5, <2>6 DEF Resolutions
<1>17. CASE ReservationExpiry(m)
  <2>1. SameMatches
    BY <1>17, MoveIsQuiet DEF ReservationExpiry
  <2>2. SameParts
    BY <1>2, <1>4, <1>17, ReleaseIsQuiet DEF ReservationExpiry
  <2> QED
    BY <1>1, <1>3, <1>17, <2>1, <2>2 DEF ReservationExpiry
<1>18. CASE WithdrawerResponseTimeout(m)
  BY <1>1, <1>3, <1>4, <1>18, MoveIsQuiet DEF WithdrawerResponseTimeout
<1>19. CASE SettlementTimeout(m)
  BY <1>1, <1>12, <1>19 DEF SettlementTimeout
<1>20. CASE LoseOpen(m)
  BY <1>1, <1>3, <1>4, <1>5, <1>20 DEF LoseOpen
<1> QED
  BY <1>1, <1>7, <1>8, <1>9, <1>10, <1>11, <1>13, <1>14, <1>15, <1>16, <1>17, <1>18,
     <1>19, <1>20 DEF MatchStep

(* Every step of the market makes one of these moves.                      *)
LEMMA MoneyMoves ==
    ASSUME ~LateCancel, RowsInv, [Next]_vars
    PROVE  MoneyMove
<1>1. CASE Next
  BY <1>1, RequestMoney, IntentMoney, MatchMoney DEF Next, MoneyMove
<1>2. CASE UNCHANGED vars
  BY <1>2 DEF MoneyMove, Quiet, SameMatches, SameParts, vars, requestVars, partVars,
     matchVars, walletVars
<1> QED
  BY <1>1, <1>2

-----------------------------------------------------------------------------
(* The books of the requests.                                              *)

LEMMA AmountTypes ==
    /\ \A r \in Requests : Total[r] \in Int /\ Withdrawer[r] \in Users
    /\ \A p \in Parts : Target[p] \in Int /\ Target[p] > 0 /\ RequestOf[p] \in Requests
BY MarketAssumption

LEMMA PartsFinite ==
    \A r \in Requests :
        /\ IsFiniteSet(PartsOf(r))
        /\ \A p \in PartsOf(r) : Target[p] \in Nat
BY FiniteTables, MarketAssumption, FS_Subset DEF PartsOf

(* No set of a request's parts sums to more than its total.                *)
LEMMA PartsWithinTotal ==
    ASSUME NEW r \in Requests, NEW T, T \subseteq PartsOf(r)
    PROVE  /\ SumFunctionOnSet(Target, T) \in Nat
           /\ SumFunctionOnSet(Target, T) <= Total[r]
<1>1. IsFiniteSet(PartsOf(r)) /\ \A p \in PartsOf(r) : Target[p] \in Nat
  BY PartsFinite
<1>2. IsFiniteSet(T) /\ \A p \in T : Target[p] \in Nat
  BY <1>1, FS_Subset
<1>3. SumFunctionOnSet(Target, T) \in Nat
  BY <1>2, SumNat
<1>4. SumFunctionOnSet(Target, T) <= SumFunctionOnSet(Target, PartsOf(r))
  BY <1>1, SumSubset
<1> QED
  BY <1>3, <1>4, SplitAssumption

LEMMA LockedIsNatural ==
    ASSUME TypeOK, BooksBalance, NEW r \in Requests
    PROVE  /\ reqCompleted[r] \in Nat /\ reqCompleted[r] <= Total[r]
           /\ reqLocked[r] \in Nat
<1>1. ConfirmedParts(r) \subseteq PartsOf(r)
  BY DEF ConfirmedParts
<1>2. SumFunctionOnSet(Target, ConfirmedParts(r)) \in Nat
      /\ SumFunctionOnSet(Target, ConfirmedParts(r)) <= Total[r]
  BY <1>1, PartsWithinTotal
<1> QED
  BY <1>2, MarketAssumption DEF BooksBalance

(* One more part is paid: its request completes exactly when that was all. *)
LEMMA PartBooked ==
    ASSUME TypeOK, NEW p \in Parts, partStatus[p] = "PAID_PENDING",
           BooksBalance, CompletedInFull, AdvancePart(p),
           reqLocked' = [reqLocked EXCEPT ![RequestOf[p]] = @ - Target[p]]
    PROVE  BooksBalance' /\ CompletedInFull'
<1> DEFINE r == RequestOf[p]
           before == ConfirmedParts(r)
<1> USE MarketAssumption DEF TypeOK
<1>1. r \in Requests /\ p \in PartsOf(r) /\ p \notin before
  BY DEF PartsOf, ConfirmedParts
<1>2. /\ partStatus' = [partStatus EXCEPT ![p] = "CONFIRMED"]
      /\ reqCompleted' = [reqCompleted EXCEPT ![r] = @ + Target[p]]
      /\ reqState' = [reqState EXCEPT ![r] = StateAfter(r, Target[p])]
      /\ WithdrawMay(reqState[r], StateAfter(r, Target[p]))
  BY DEF AdvancePart
<1>3. ConfirmedParts(r)' = before \cup {p}
  BY <1>1, <1>2 DEF ConfirmedParts, PartsOf
<1>4. \A q \in Requests : q # r => ConfirmedParts(q)' = ConfirmedParts(q)
  BY <1>1, <1>2 DEF ConfirmedParts, PartsOf
<1>5. before \subseteq PartsOf(r) /\ before \cup {p} \subseteq PartsOf(r)
  BY <1>1 DEF ConfirmedParts
<1>6. SumFunctionOnSet(Target, before \cup {p}) = Target[p] + SumFunctionOnSet(Target, before)
  <2> HIDE DEF before
  <2>1. IsFiniteSet(before) /\ \A q \in before : Target[q] \in Int
    BY <1>1, <1>5, PartsFinite, FS_Subset
  <2>2. Target[p] \in Int
    OBVIOUS
  <2> QED
    BY <1>1, <2>1, <2>2, SumAdd
<1>7. /\ reqCompleted[r] \in Nat
      /\ reqCompleted[r] + Target[p] <= Total[r]
      /\ reqCompleted'[r] = reqCompleted[r] + Target[p]
      /\ reqCompleted'[r] = SumFunctionOnSet(Target, before \cup {p})
  <2>1. reqCompleted[r] = SumFunctionOnSet(Target, before)
    BY <1>1 DEF BooksBalance
  <2>2. SumFunctionOnSet(Target, before \cup {p}) <= Total[r]
        /\ SumFunctionOnSet(Target, before) \in Nat
    <3> HIDE DEF before
    <3> QED
      BY <1>1, <1>5, PartsWithinTotal
  <2> HIDE DEF before
  <2> QED
    BY <1>1, <1>2, <1>6, <2>1, <2>2
<1>8. reqState[r] \in ActiveRequest
  <2>1. reqState[r] # "COMPLETED"
    BY <1>1, <1>7 DEF CompletedInFull
  <2> QED
    BY <1>2, <2>1 DEF WithdrawMay, WithdrawTable, StateAfter, ActiveRequest, MatchableRequest
<1>9. reqLocked[r] = Total[r] - reqCompleted[r]
  BY <1>1, <1>8 DEF BooksBalance
<1>10. reqLocked'[r] = Total[r] - reqCompleted'[r]
  <2>1. reqLocked'[r] = reqLocked[r] - Target[p]
    BY <1>1
  <2>2. Total[r] \in Int /\ Target[p] \in Int
    BY ONLY <1>1, AmountTypes, p \in Parts
  <2> HIDE DEF before, r, TypeOK
  <2> QED
    BY <1>7, <1>9, <2>1, <2>2
<1>11. /\ reqState'[r] \in {"COMPLETED", "PARTIALLY_MATCHED"}
       /\ reqState'[r] = "COMPLETED" <=> reqCompleted'[r] = Total[r]
  <2>1. reqState'[r] = StateAfter(r, Target[p])
    BY <1>1, <1>2
  <2>2. Total[r] \in Int /\ Target[p] \in Int
    BY ONLY <1>1, AmountTypes, p \in Parts
  <2> HIDE DEF before, r, TypeOK
  <2> QED
    BY <1>7, <2>1, <2>2 DEF StateAfter
<1>12. reqLocked'[r] = IF reqState'[r] \in ActiveRequest
                       THEN Total[r] - reqCompleted'[r] ELSE 0
  BY <1>1, <1>7, <1>10, <1>11 DEF ActiveRequest, MatchableRequest
<1>13. ASSUME NEW q \in Requests
       PROVE  /\ reqState'[q] = "COMPLETED" => reqCompleted'[q] = Total[q]
              /\ reqCompleted'[q] = SumFunctionOnSet(Target, ConfirmedParts(q)')
              /\ reqLocked'[q] = IF reqState'[q] \in ActiveRequest
                                 THEN Total[q] - reqCompleted'[q] ELSE 0
  <2>1. CASE q = r
    <3> HIDE DEF before, r
    <3> QED
      BY <1>3, <1>7, <1>11, <1>12, <2>1
  <2>2. CASE q # r
    <3>1. /\ reqState'[q] = reqState[q] /\ reqCompleted'[q] = reqCompleted[q]
          /\ reqLocked'[q] = reqLocked[q] /\ ConfirmedParts(q)' = ConfirmedParts(q)
      BY <1>2, <1>4, <2>2
    <3> HIDE DEF before, r
    <3> QED
      BY <3>1 DEF BooksBalance, CompletedInFull
  <2> QED
    BY <2>1, <2>2
<1> QED
  BY <1>13 DEF BooksBalance, CompletedInFull

LEMMA BooksStep ==
    ASSUME RowsInv, BooksBalance, CompletedInFull, MoneyMove
    PROVE  BooksBalance' /\ CompletedInFull'
<1> USE MarketAssumption DEF RowsInv, TypeOK
<1>1. CASE Quiet
  <2>1. \A r \in Requests : ConfirmedParts(r)' = ConfirmedParts(r)
    BY <1>1 DEF Quiet, SameParts, ConfirmedParts, PartsOf
  <2> QED
    BY <1>1, <2>1 DEF Quiet, BooksBalance, CompletedInFull, ActiveRequest, MatchableRequest
<1>2. ASSUME NEW r \in Requests, CreateForWithdraw(r)
      PROVE  BooksBalance' /\ CompletedInFull'
  <2>1. \A q \in Requests : ConfirmedParts(q)' = ConfirmedParts(q)
    BY <1>2 DEF CreateForWithdraw, PartsAreNew, ConfirmedParts, PartsOf, None
  <2>2. ConfirmedParts(r) = {}
    BY <1>2 DEF CreateForWithdraw, PartsAreNew, ConfirmedParts, PartsOf, None
  <2>3. reqCompleted[r] = 0 /\ UNCHANGED reqCompleted
    BY <1>2, <2>2, SumEmpty DEF BooksBalance, CreateForWithdraw
  <2>4. reqState' = [reqState EXCEPT ![r] = "PENDING_MATCHING"]
        /\ reqLocked' = [reqLocked EXCEPT ![r] = Total[r]]
    BY <1>2 DEF CreateForWithdraw
  <2> QED
    BY <2>1, <2>3, <2>4 DEF BooksBalance, CompletedInFull, ActiveRequest, MatchableRequest
<1>3. ASSUME NEW r \in Requests, NEW s \in {"CANCELLED", "EXPIRED"}, CloseRequest(r, s)
      PROVE  BooksBalance' /\ CompletedInFull'
  <2>1. \A q \in Requests : ConfirmedParts(q)' = ConfirmedParts(q)
    BY <1>3 DEF CloseRequest, ConfirmedParts, PartsOf
  <2>2. reqLocked[r] \in Nat
    BY LockedIsNatural
  <2>3. reqLocked' = [reqLocked EXCEPT ![r] = 0]
    <3> DEFINE x == reqLocked[r]
    <3>1. x - (IF x > 0 THEN x ELSE 0) = 0
      BY <2>2
    <3> QED
      BY <1>3, <3>1 DEF CloseRequest, ReleaseLock
  <2>4. reqState' = [reqState EXCEPT ![r] = s] /\ UNCHANGED reqCompleted
    BY <1>3 DEF CloseRequest
  <2> QED
    BY <2>1, <2>3, <2>4 DEF BooksBalance, CompletedInFull, ActiveRequest, MatchableRequest
<1>4. ASSUME NEW p \in Parts, NEW u, PaysPart(p, u)
      PROVE  BooksBalance' /\ CompletedInFull'
  BY <1>4, PartBooked DEF PaysPart, PayFromLock
<1>5. ASSUME NEW m \in Matches, SettleFromCompany(m), Credits(m)
      PROVE  BooksBalance' /\ CompletedInFull'
  <2>1. UNCHANGED <<requestVars, partVars>>
    BY <1>5 DEF SettleFromCompany
  <2> QED
    BY <2>1 DEF requestVars, partVars, BooksBalance, CompletedInFull, ConfirmedParts
<1> QED
  BY <1>1, <1>2, <1>3, <1>4, <1>5 DEF MoneyMove

-----------------------------------------------------------------------------
(* The moves of the wallets, late cancellations or not.                    *)

(* A company wallet, or the lock of a request, pays.                       *)
CompanyPays(u, x) ==
    /\ u # Company
    /\ free[Company] >= x
    /\ free' = [free EXCEPT ![Company] = @ - x, ![u] = @ + x]
    /\ UNCHANGED <<held, reqLocked>>

LockPays(r, u, x) == PayFromLock(r, u, x) /\ reqState'[r] # None

WalletMove ==
    \/ UNCHANGED <<reqLocked, free, held>>
    \/ \E r \in Requests : CreateForWithdraw(r)
    \/ \E r \in Requests : ReleaseLock(r) /\ reqState'[r] # None
    \/ \E r \in Requests, u \in Users, x \in Nat \ {0} : LockPays(r, u, x)
    \/ \E u \in Users, x \in Nat \ {0} : CompanyPays(u, x)

(* A request that exists does not cease to.                                *)
RequestsStay ==
    \A r \in Requests : reqState'[r] = None => reqState[r] = None

LEMMA AdvanceKeeps ==
    ASSUME TypeOK, NEW p \in Parts, AdvancePart(p)
    PROVE  RequestsStay /\ reqState'[RequestOf[p]] # None
<1>1. StateAfter(RequestOf[p], Target[p]) # None
  BY DEF StateAfter, None
<1> QED
  BY <1>1, MarketAssumption DEF AdvancePart, TypeOK, RequestsStay

LEMMA SettleWallets ==
    ASSUME TypeInv, NEW m \in Matches, Settle(m)
    PROVE  WalletMove /\ RequestsStay
<1> USE MarketAssumption DEF TypeInv, TypeOK
<1>1. CASE matchStatus[m] = "CONFIRMED"
  BY <1>1 DEF Settle, WalletMove, RequestsStay, requestVars, walletVars
<1>2. CASE matchStatus[m] # "CONFIRMED"
  <2>1. MoveMatch(m, "CONFIRMED")
    BY <1>2 DEF Settle
  <2>2. matchIntent[m] \in Intents
    BY <2>1, NoneStays DEF MoveMatch, RowsAreLinked, None
  <2>3. MatchAmount(m) \in Nat \ {0} /\ Depositor[matchIntent[m]] \in Users \ {Company}
    BY <2>2 DEF MatchAmount
  <2>4. CASE SettleFromPart(m)
    <3>1. matchPart[m] \in Parts /\ AdvancePart(matchPart[m])
      BY <2>4 DEF SettleFromPart
    <3>2. LockPays(RequestOf[matchPart[m]], Depositor[matchIntent[m]], MatchAmount(m))
      BY <2>4, <3>1, AdvanceKeeps DEF SettleFromPart, LockPays
    <3>3. RequestOf[matchPart[m]] \in Requests
      BY <3>1
    <3> QED
      BY <2>3, <3>1, <3>2, <3>3, AdvanceKeeps DEF WalletMove
  <2>5. CASE SettleFromCompany(m)
    <3>1. CompanyPays(Depositor[matchIntent[m]], MatchAmount(m))
      BY <2>3, <2>5 DEF SettleFromCompany, CompanyPays, requestVars
    <3>2. RequestsStay
      BY <2>5 DEF SettleFromCompany, RequestsStay, requestVars
    <3> QED
      BY <2>3, <3>1, <3>2 DEF WalletMove
  <2> QED
    BY <1>2, <2>4, <2>5 DEF Settle
<1> QED
  BY <1>1, <1>2

LEMMA DecideWallets ==
    ASSUME TypeInv, NEW m \in Matches, NEW d \in Resolutions, Decide(m, d)
    PROVE  WalletMove /\ RequestsStay
<1> USE DEF TypeInv
<1>1. CASE d = "CONFIRM_PAYMENT"
  BY <1>1, SettleWallets DEF Decide
<1>2. CASE d = "SETTLE_FROM_ADMIN"
  <2> DEFINE p == matchPart[m]
  <2>1. p \in Parts /\ SettlePartFromAdmin(p)
    BY <1>2 DEF Decide, TypeOK
  <2>2. CASE partStatus[p] = "CONFIRMED"
    BY <2>1, <2>2 DEF SettlePartFromAdmin, WalletMove, RequestsStay, requestVars, walletVars
  <2>3. CASE partStatus[p] # "CONFIRMED"
    <3>1. PayFromLock(RequestOf[p], Company, Target[p]) /\ AdvancePart(p)
      BY <2>1, <2>3 DEF SettlePartFromAdmin
    <3>2. LockPays(RequestOf[p], Company, Target[p]) /\ RequestsStay
      BY <2>1, <3>1, AdvanceKeeps DEF LockPays
    <3>3. RequestOf[p] \in Requests /\ Company \in Users /\ Target[p] \in Nat \ {0}
      BY <2>1, MarketAssumption
    <3> QED
      BY <3>2, <3>3 DEF WalletMove
  <2> QED
    BY <2>2, <2>3
<1>3. CASE d \notin {"CONFIRM_PAYMENT", "SETTLE_FROM_ADMIN"}
  BY <1>3 DEF Decide, WalletMove, RequestsStay, requestVars, walletVars
<1> QED
  BY <1>1, <1>2, <1>3

LEMMA StepWallets ==
    ASSUME TypeInv, [Next]_vars
    PROVE  WalletMove /\ RequestsStay
<1> USE DEF TypeInv
<1>1. ASSUME UNCHANGED <<requestVars, walletVars>>
      PROVE  WalletMove /\ RequestsStay
  BY <1>1 DEF WalletMove, RequestsStay, requestVars, walletVars
<1>2. ASSUME NEW r \in Requests, RequestStep(r)
      PROVE  WalletMove /\ RequestsStay
  <2>1. CASE CreateForWithdraw(r)
    <3>1. reqState' = [reqState EXCEPT ![r] = "PENDING_MATCHING"]
      BY <2>1 DEF CreateForWithdraw
    <3> QED
      BY <2>1, <3>1 DEF WalletMove, RequestsStay, TypeOK, None
  <2>2. ASSUME NEW s \in {"CANCELLED", "EXPIRED"}, CloseRequest(r, s)
        PROVE  WalletMove /\ RequestsStay
    BY <2>2 DEF CloseRequest, WalletMove, RequestsStay, TypeOK, None
  <2>3. CASE MoveToAdminSettlement(r)
    BY <2>3 DEF MoveToAdminSettlement, WalletMove, RequestsStay, TypeOK, None, walletVars
  <2>4. CASE WindowElapses(r)
    BY <1>1, <2>4 DEF WindowElapses
  <2> QED
    BY <1>2, <2>1, <2>2, <2>3, <2>4 DEF RequestStep, Cancel, RequestExpiry
<1>3. ASSUME NEW i \in Intents, IntentStep(i)
      PROVE  WalletMove /\ RequestsStay
  BY <1>1, <1>3 DEF IntentStep, CreateForDeposit, MatchNewIntent, MatchingRetry,
      LoseMatching, ReserveForIntent
<1>4. ASSUME NEW m \in Matches, MatchStep(m)
      PROVE  WalletMove /\ RequestsStay
  <2>1. CASE ConfirmPayment(m)
    BY <2>1, SettleWallets DEF ConfirmPayment
  <2>2. ASSUME NEW d \in Resolutions, Resolve(m, d)
        PROVE  WalletMove /\ RequestsStay
    BY <2>2, DecideWallets DEF Resolve
  <2>3. CASE ~ ConfirmPayment(m) /\ \A d \in Resolutions : ~ Resolve(m, d)
    BY <1>1, <1>4, <2>3 DEF MatchStep, AcceptMatch, CancelMatch, SubmitPaymentProof,
       RejectPayment, EscalateOwed, EscalateByAdmin, OpenEscalation, Assign,
       ReservationExpiry, WithdrawerResponseTimeout, SettlementTimeout, LoseOpen
  <2> QED
    BY <2>1, <2>2, <2>3
<1>5. CASE UNCHANGED vars
  BY <1>1, <1>5 DEF vars
<1> QED
  BY <1>2, <1>3, <1>4, <1>5 DEF Next

-----------------------------------------------------------------------------
(* The locks of the wallets.                                               *)

LocksOf(u) == {r \in Requests : Withdrawer[r] = u}

(* A wallet's lock and one of its owner's requests change by as much.      *)
LEMMA LockMoved ==
    ASSUME TypeOK, LocksAreBacked, NEW r \in Requests, NEW x \in Int,
           reqLocked' = [reqLocked EXCEPT ![r] = @ + x],
           held' = [held EXCEPT ![Withdrawer[r]] = @ + x]
    PROVE  LocksAreBacked'
<1> USE MarketAssumption DEF TypeOK
<1>1. SUFFICES ASSUME NEW u \in Users
               PROVE  held'[u] = SumFunctionOnSet(reqLocked', LocksOf(u))
  BY DEF LocksAreBacked, LocksOf
<1>2. held[u] = SumFunctionOnSet(reqLocked, LocksOf(u))
  BY DEF LocksAreBacked, LocksOf
<1>3. IsFiniteSet(LocksOf(u)) /\ LocksOf(u) \subseteq Requests
  BY FiniteTables, FS_Subset DEF LocksOf
<1>4. CASE u = Withdrawer[r]
  <2>1. r \in LocksOf(u)
    BY <1>4 DEF LocksOf
  <2>2. /\ \A q \in LocksOf(u) : reqLocked[q] \in Int
        /\ \A q \in LocksOf(u) \ {r} : reqLocked'[q] = reqLocked[q]
        /\ reqLocked'[r] = reqLocked[r] + x /\ reqLocked'[r] \in Int /\ reqLocked[r] \in Int
    BY <1>3
  <2>3. SumFunctionOnSet(reqLocked', LocksOf(u)) =
          SumFunctionOnSet(reqLocked, LocksOf(u)) + reqLocked'[r] - reqLocked[r]
    <3> DEFINE f == reqLocked  g == reqLocked'  S == LocksOf(u)
    <3>1. (\A q \in S : f[q] \in Int) /\ g[r] \in Int /\ r \in S
          /\ (\A q \in S \ {r} : g[q] = f[q]) /\ IsFiniteSet(S)
      BY <1>3, <2>1, <2>2
    <3> HIDE DEF f, g, S
    <3>2. SumFunctionOnSet(g, S) = SumFunctionOnSet(f, S) + g[r] - f[r]
      BY ONLY <3>1, SumMove
    <3> QED
      BY <3>2 DEF f, g, S
  <2>4. held'[u] = held[u] + x /\ held[u] \in Int
    BY <1>4
  <2> QED
    BY <1>2, <2>2, <2>3, <2>4
<1>5. CASE u # Withdrawer[r]
  <2>1. \A q \in LocksOf(u) : reqLocked[q] = reqLocked'[q]
    BY <1>5 DEF LocksOf
  <2>2. SumFunctionOnSet(reqLocked', LocksOf(u)) = SumFunctionOnSet(reqLocked, LocksOf(u))
    BY <1>3, <2>1, SumSame
  <2> QED
    BY <1>2, <1>5, <2>2
<1> QED
  BY <1>4, <1>5

(* A request that was not created has nothing locked.                      *)
NewIsUnlocked == \A r \in Requests : reqState[r] = None => reqLocked[r] = 0

LEMMA LocksStep ==
    ASSUME TypeOK, NewIsUnlocked, LocksAreBacked, WalletMove
    PROVE  LocksAreBacked'
<1> USE MarketAssumption DEF TypeOK
<1>1. ASSUME UNCHANGED <<held, reqLocked>> PROVE LocksAreBacked'
  BY <1>1 DEF LocksAreBacked
<1>2. ASSUME NEW r \in Requests, CreateForWithdraw(r)
      PROVE  LocksAreBacked'
  <2>1. reqLocked[r] = 0
    BY <1>2 DEF CreateForWithdraw, NewIsUnlocked
  <2>2. reqLocked' = [reqLocked EXCEPT ![r] = @ + Total[r]]
        /\ held' = [held EXCEPT ![Withdrawer[r]] = @ + Total[r]]
    <3>1. Total[r] = reqLocked[r] + Total[r]
      BY <2>1
    <3> QED
      BY <1>2, <3>1 DEF CreateForWithdraw
  <2>3. Total[r] \in Int
    BY AmountTypes
  <2> HIDE DEF TypeOK
  <2> QED
    BY <2>2, <2>3, LockMoved
<1>3. ASSUME NEW r \in Requests, NEW x \in Int, NEW u \in Users, u = Withdrawer[r],
             reqLocked' = [reqLocked EXCEPT ![r] = @ - x],
             held' = [held EXCEPT ![u] = @ - x]
      PROVE  LocksAreBacked'
  <2>1. -x \in Int /\ (\A y \in Int : y - x = y + (-x))
    BY <1>3
  <2>2. reqLocked' = [reqLocked EXCEPT ![r] = @ + (-x)]
    BY <1>3, <2>1
  <2>3. held' = [held EXCEPT ![Withdrawer[r]] = @ + (-x)]
    BY <1>3, <2>1
  <2> QED
    BY <2>1, <2>2, <2>3, LockMoved
<1>4. ASSUME NEW r \in Requests, ReleaseLock(r)
      PROVE  LocksAreBacked'
  <2> DEFINE x == IF reqLocked[r] > 0 THEN reqLocked[r] ELSE 0
  <2>1. x \in Int /\ Withdrawer[r] \in Users
    OBVIOUS
  <2>2. /\ reqLocked' = [reqLocked EXCEPT ![r] = @ - x]
        /\ held' = [held EXCEPT ![Withdrawer[r]] = @ - x]
    BY <1>4 DEF ReleaseLock
  <2> HIDE DEF x
  <2> QED
    BY <1>3, <2>1, <2>2
<1>5. ASSUME NEW r \in Requests, NEW u, NEW x \in Nat \ {0}, LockPays(r, u, x)
      PROVE  LocksAreBacked'
  <2>1. /\ reqLocked' = [reqLocked EXCEPT ![r] = @ - x]
        /\ held' = [held EXCEPT ![Withdrawer[r]] = @ - x]
    BY <1>5 DEF LockPays, PayFromLock
  <2>2. Withdrawer[r] \in Users /\ x \in Int
    OBVIOUS
  <2> QED
    BY <1>3, <2>1, <2>2
<1>6. ASSUME NEW u, NEW x, CompanyPays(u, x)
      PROVE  LocksAreBacked'
  BY <1>1, <1>6 DEF CompanyPays
<1> QED
  BY <1>1, <1>2, <1>4, <1>5, <1>6 DEF WalletMove

LEMMA UnlockedStep ==
    ASSUME TypeOK, NewIsUnlocked, WalletMove, RequestsStay
    PROVE  NewIsUnlocked'
<1> USE DEF TypeOK
<1>1. ASSUME UNCHANGED reqLocked PROVE NewIsUnlocked'
  BY <1>1 DEF NewIsUnlocked, RequestsStay
<1>2. ASSUME NEW r \in Requests, reqState'[r] # None,
             \A q \in Requests : q # r => reqLocked'[q] = reqLocked[q]
      PROVE  NewIsUnlocked'
  BY <1>2 DEF NewIsUnlocked, RequestsStay
<1>3. ASSUME NEW r \in Requests, CreateForWithdraw(r)
      PROVE  NewIsUnlocked'
  BY <1>2, <1>3 DEF CreateForWithdraw, None
<1>4. ASSUME NEW r \in Requests, ReleaseLock(r), reqState'[r] # None
      PROVE  NewIsUnlocked'
  BY <1>2, <1>4 DEF ReleaseLock
<1>5. ASSUME NEW r \in Requests, NEW u, NEW x, LockPays(r, u, x)
      PROVE  NewIsUnlocked'
  BY <1>2, <1>5 DEF LockPays, PayFromLock
<1> QED
  BY <1>1, <1>3, <1>4, <1>5 DEF WalletMove, CompanyPays

LEMMA LocksInit == Init => LocksAreBacked /\ NewIsUnlocked
<1> SUFFICES ASSUME Init PROVE LocksAreBacked /\ NewIsUnlocked
  OBVIOUS
<1>1. ASSUME NEW u \in Users
      PROVE  held[u] = SumFunctionOnSet(reqLocked, LocksOf(u))
  <2>1. IsFiniteSet(LocksOf(u)) /\ \A r \in LocksOf(u) : reqLocked[r] = 0
    BY FiniteTables, FS_Subset DEF LocksOf, Init
  <2>2. SumFunctionOnSet(reqLocked, LocksOf(u)) = 0
    BY <2>1, SumZero
  <2> QED
    BY <2>2 DEF Init
<1> QED
  BY <1>1 DEF LocksAreBacked, LocksOf, NewIsUnlocked, Init

(* What a wallet has locked is what its owner's requests have locked, late *)
(* cancellations or not.                                                   *)
THEOREM LocksStayBacked == Spec => []LocksAreBacked
<1> DEFINE Inv == TypeInv /\ NewIsUnlocked /\ LocksAreBacked
<1>1. Init => Inv
  BY TypeInit, LocksInit
<1>2. Inv /\ [Next]_vars => Inv'
  BY TypeStep, StepWallets, UnlockedStep, LocksStep DEF TypeInv
<1>3. Spec => []Inv
  <2> HIDE DEF Inv
  <2> QED
    BY <1>1, <1>2, PTL DEF Spec
<1> QED
  BY <1>3, PTL

-----------------------------------------------------------------------------
(* Rial is conserved.                                                      *)

(* The same amount leaves one wallet and arrives at another, or stays.     *)
Passes(u, v, x) ==
    \A y \in Users :
        free'[y] + held'[y] = free[y] + held[y] - (IF y = u THEN x ELSE 0)
                                                + (IF y = v THEN x ELSE 0)

LEMMA WalletsPass ==
    ASSUME TypeOK, WalletMove \/ UNCHANGED <<free, held>>
    PROVE  \E u, v \in Users, x \in Int : Passes(u, v, x)
<1> USE MarketAssumption DEF TypeOK
<1>1. ASSUME \A y \in Users : free'[y] + held'[y] = free[y] + held[y]
      PROVE  \E u, v \in Users, x \in Int : Passes(u, v, x)
  <2>1. Company \in Users /\ 0 \in Int
    OBVIOUS
  <2>2. \A y \in Users : free[y] + held[y] \in Int
    OBVIOUS
  <2>3. Passes(Company, Company, 0)
    BY <1>1, <2>1, <2>2 DEF Passes
  <2> QED
    BY <2>1, <2>3
<1>2. CASE UNCHANGED <<free, held>>
  BY <1>1, <1>2
<1>3. ASSUME NEW r \in Requests, CreateForWithdraw(r)
      PROVE  \E u, v \in Users, x \in Int : Passes(u, v, x)
  <2>1. \A y \in Users : free'[y] + held'[y] = free[y] + held[y]
    BY <1>3 DEF CreateForWithdraw
  <2> QED
    BY <1>1, <2>1
<1>4. ASSUME NEW r \in Requests, ReleaseLock(r)
      PROVE  \E u, v \in Users, x \in Int : Passes(u, v, x)
  <2>1. \A y \in Users : free'[y] + held'[y] = free[y] + held[y]
    BY <1>4 DEF ReleaseLock
  <2> QED
    BY <1>1, <2>1
<1>5. ASSUME NEW r \in Requests, NEW u \in Users, NEW x \in Nat \ {0}, LockPays(r, u, x)
      PROVE  \E a, b \in Users, z \in Int : Passes(a, b, z)
  <2>1. Withdrawer[r] \in Users /\ x \in Int
    OBVIOUS
  <2>2. Passes(Withdrawer[r], u, x)
    BY <1>5, <2>1 DEF LockPays, PayFromLock, Passes
  <2> QED
    BY <2>1, <2>2
<1>6. ASSUME NEW u \in Users, NEW x \in Nat \ {0}, CompanyPays(u, x)
      PROVE  \E a, b \in Users, z \in Int : Passes(a, b, z)
  <2>1. Company \in Users /\ x \in Int
    OBVIOUS
  <2>2. Passes(Company, u, x)
    BY <1>6, <2>1 DEF CompanyPays, Passes
  <2> QED
    BY <2>1, <2>2
<1> QED
  BY <1>2, <1>3, <1>4, <1>5, <1>6 DEF WalletMove

LEMMA ConservedInit == Init => RialIsConserved
<1> SUFFICES ASSUME Init PROVE RialIsConserved
  OBVIOUS
<1> DEFINE g == [u \in Users |-> free[u] + held[u] - Funds[u]]
<1>1. \A u \in Users : g[u] = 0
  BY MarketAssumption DEF Init
<1> HIDE DEF g
<1>2. SumFunctionOnSet(g, Users) = 0
  BY ONLY <1>1, FiniteTables, SumZero
<1> QED
  BY <1>2 DEF g, RialIsConserved

LEMMA ConservedStep ==
    ASSUME TypeOK, TypeOK', RialIsConserved, WalletMove \/ UNCHANGED <<free, held>>
    PROVE  RialIsConserved'
<1> DEFINE f == [u \in Users |-> free[u] + held[u] - Funds[u]]
           g == [u \in Users |-> free'[u] + held'[u] - Funds[u]]
<1>1. PICK a \in Users, b \in Users, x \in Int : Passes(a, b, x)
  BY WalletsPass
<1>2. \A y \in Users : f[y] \in Int
  BY MarketAssumption DEF TypeOK
<1>3. ASSUME NEW y \in Users
      PROVE  g[y] = f[y] - (IF y = a THEN x ELSE 0) + (IF y = b THEN x ELSE 0)
  <2>1. free[y] \in Int /\ held[y] \in Int /\ Funds[y] \in Int
    BY MarketAssumption DEF TypeOK
  <2>2. free'[y] \in Int /\ held'[y] \in Int
    BY DEF TypeOK
  <2>3. free'[y] + held'[y] = free[y] + held[y] - (IF y = a THEN x ELSE 0)
                                                + (IF y = b THEN x ELSE 0)
    BY <1>1 DEF Passes
  <2> QED
    BY <2>1, <2>2, <2>3
<1> HIDE DEF f, g
<1>4. SumFunctionOnSet(g, Users) = SumFunctionOnSet(f, Users)
  <2>1. Shifts(f, g, Users, a, b, x)
    BY <1>3 DEF Shifts
  <2>2. IsFiniteSet(Users)
    BY FiniteTables
  <2> QED
    BY ONLY <1>2, <2>1, <2>2, SumKept, a \in Users, b \in Users, x \in Int
<1> QED
  BY <1>4 DEF f, g, RialIsConserved

(* No step of the market makes or destroys rial.                           *)
THEOREM RialStays == Spec => []RialIsConserved
<1>1. TypeInv /\ RialIsConserved /\ [Next]_vars => RialIsConserved'
  BY TypeStep, StepWallets, ConservedStep DEF TypeInv
<1>2. Spec => [](TypeInv /\ RialIsConserved)
  BY <1>1, TypeInit, TypeStep, ConservedInit, PTL DEF Spec
<1> QED
  BY <1>2, PTL

-----------------------------------------------------------------------------
(* The books always balance.                                               *)

LEMMA BooksInit == Init => BooksBalance /\ CompletedInFull /\ CancelledIsQuiet
<1> SUFFICES ASSUME Init
             PROVE  BooksBalance /\ CompletedInFull /\ CancelledIsQuiet
  OBVIOUS
<1>1. \A r \in Requests : ConfirmedParts(r) = {}
  BY DEF Init, ConfirmedParts, PartsOf, None
<1>2. BooksBalance /\ CompletedInFull
  BY <1>1, SumEmpty DEF Init, BooksBalance, CompletedInFull, ActiveRequest, MatchableRequest, None
<1>3. CancelledIsQuiet
  BY DEF Init, CancelledIsQuiet, LiveMatch, HeldMatch, PaidMatch, None
<1> QED
  BY <1>2, <1>3

(* A match that becomes live takes a part of a request that is not         *)
(* cancelled, and a request is not cancelled under a live match.           *)
LiveStep ==
    \A m \in Matches :
        /\ matchStatus'[m] \in LiveMatch
        /\ matchPart'[m] # NoPart
        => \/ /\ matchStatus[m] \in LiveMatch
              /\ matchPart'[m] = matchPart[m]
           \/ reqState'[RequestOf[matchPart'[m]]] \in MatchableRequest

CancelStep ==
    \A r \in Requests :
        reqState'[r] = "CANCELLED" /\ reqState[r] # "CANCELLED"
        => \A p \in PartsOf(r) : partStatus[p] \notin BusyPart

LEMMA QuietStep ==
    ASSUME RowsInv, CancelledIsQuiet, LiveStep, CancelStep, TypeOK'
    PROVE  CancelledIsQuiet'
<1> SUFFICES ASSUME NEW m \in Matches, matchStatus'[m] \in LiveMatch, matchPart'[m] # NoPart,
                    reqState'[RequestOf[matchPart'[m]]] = "CANCELLED"
             PROVE  FALSE
  BY DEF CancelledIsQuiet
<1>1. matchStatus[m] \in LiveMatch /\ matchPart'[m] = matchPart[m]
  BY DEF LiveStep, MatchableRequest
<1> DEFINE p == matchPart[m]
<1>2. p \in Parts /\ RequestOf[p] \in Requests /\ p # NoPart
  BY <1>1, MarketAssumption DEF RowsInv, TypeOK
<1>3. partStatus[p] \in BusyPart
  BY <1>1, <1>2 DEF RowsInv, ReservationIsExclusive, LiveMatch, BusyPart
<1>4. reqState[RequestOf[p]] # "CANCELLED"
  BY <1>1, <1>2 DEF CancelledIsQuiet
<1> QED
  BY <1>1, <1>2, <1>3, <1>4 DEF CancelStep, PartsOf

LEMMA LiveMoves ==
    ASSUME TypeOK, NEW m \in Matches, NEW s, MoveMatch(m, s)
    PROVE  LiveStep
BY DEF MoveMatch, MatchMay, MatchTable, LiveStep, LiveMatch, HeldMatch, PaidMatch, TypeOK

LEMMA CancelKept ==
    ASSUME TypeOK, UNCHANGED reqState \/ \E p \in Parts : AdvancePart(p)
    PROVE  CancelStep
<1>1. ASSUME NEW p \in Parts, AdvancePart(p)
      PROVE  CancelStep
  <2>1. StateAfter(RequestOf[p], Target[p]) # "CANCELLED"
    BY DEF StateAfter
  <2> QED
    BY <1>1, <2>1, MarketAssumption DEF AdvancePart, CancelStep, TypeOK
<1> QED
  BY <1>1 DEF CancelStep

LEMMA SettleLives ==
    ASSUME TypeOK, NEW m \in Matches, Settle(m)
    PROVE  LiveStep /\ CancelStep
<1>1. CASE matchStatus[m] = "CONFIRMED"
  BY <1>1, CancelKept DEF Settle, LiveStep, requestVars, matchVars
<1>2. CASE matchStatus[m] # "CONFIRMED"
  <2>1. MoveMatch(m, "CONFIRMED") /\ (SettleFromPart(m) \/ SettleFromCompany(m))
    BY <1>2 DEF Settle
  <2>2. UNCHANGED reqState \/ \E p \in Parts : AdvancePart(p)
    BY <2>1 DEF SettleFromPart, SettleFromCompany, requestVars, TypeOK
  <2> QED
    BY <2>1, <2>2, LiveMoves, CancelKept
<1> QED
  BY <1>1, <1>2

LEMMA DecideLives ==
    ASSUME TypeOK, NEW m \in Matches, NEW d \in Resolutions, Decide(m, d)
    PROVE  LiveStep /\ CancelStep
<1>1. CASE d = "CONFIRM_PAYMENT"
  BY <1>1, SettleLives DEF Decide
<1>2. CASE d = "SETTLE_FROM_ADMIN"
  <2>1. /\ matchPart[m] \in Parts
        /\ SettlePartFromAdmin(matchPart[m])
        /\ MoveMatch(m, "CANCELLED")
    BY <1>2 DEF Decide, FailIntent, TypeOK
  <2>2. UNCHANGED reqState \/ \E p \in Parts : AdvancePart(p)
    BY <2>1 DEF SettlePartFromAdmin, requestVars
  <2> QED
    BY <2>1, <2>2, LiveMoves, CancelKept
<1>3. CASE d \in {"REJECT_PAYMENT", "CANCEL_REQUEST", "REOPEN_MATCHING"}
  <2>1. MoveMatch(m, "CANCELLED") /\ UNCHANGED reqState
    BY <1>3 DEF Decide, FailIntent, requestVars
  <2> QED
    BY <2>1, LiveMoves, CancelKept
<1>4. CASE d = "REQUEST_MORE_EVIDENCE"
  BY <1>4, CancelKept DEF Decide, LiveStep, requestVars, matchVars
<1> QED
  BY <1>1, <1>2, <1>3, <1>4 DEF Resolutions

LEMMA StepLives ==
    ASSUME TypeInv, [Next]_vars
    PROVE  LiveStep /\ CancelStep
<1> USE DEF TypeInv
<1>1. ASSUME UNCHANGED matchVars PROVE LiveStep
  BY <1>1 DEF LiveStep, matchVars
<1>2. ASSUME UNCHANGED requestVars PROVE CancelStep
  BY <1>2, CancelKept DEF requestVars
<1>3. ASSUME NEW r \in Requests, RequestStep(r)
      PROVE  LiveStep /\ CancelStep
  <2>1. UNCHANGED matchVars
    BY <1>3 DEF RequestStep, CreateForWithdraw, WindowElapses, Cancel, RequestExpiry,
       CloseRequest, MoveToAdminSettlement
  <2>2. CancelStep
    BY <1>3 DEF RequestStep, CreateForWithdraw, WindowElapses, Cancel, RequestExpiry,
       CloseRequest, MoveToAdminSettlement, CancelStep, TypeOK, requestVars
  <2> QED
    BY <1>1, <2>1, <2>2
<1>4. ASSUME NEW i \in Intents, IntentStep(i)
      PROVE  LiveStep /\ CancelStep
  <2>1. UNCHANGED requestVars
    BY <1>4 DEF IntentStep, CreateForDeposit, MatchNewIntent, MatchingRetry,
       LoseMatching, ReserveForIntent
  <2>2. ASSUME ReserveForIntent(i)
        PROVE  LiveStep
    <3>1. CASE ReservePart(i)
      <4>1. PICK p \in Candidates(i), m \in Matches : InsertMatch(i, p, m)
        BY <3>1 DEF ReservePart
      <4>2. reqState'[RequestOf[p]] \in MatchableRequest
        BY <2>1, <4>1 DEF Candidates, requestVars
      <4>3. \A n \in Matches : n # m =>
                matchStatus'[n] = matchStatus[n] /\ matchPart'[n] = matchPart[n]
        BY <4>1 DEF InsertMatch, TypeOK
      <4>4. matchPart'[m] = p
        BY <4>1 DEF InsertMatch, TypeOK
      <4> QED
        BY <4>2, <4>3, <4>4 DEF LiveStep
    <3>2. CASE ReserveFromAdminAccount(i)
      BY <3>2 DEF ReserveFromAdminAccount, InsertMatch, LiveStep, TypeOK
    <3>3. CASE QueueIntent(i)
      BY <1>1, <3>3 DEF QueueIntent
    <3> QED
      BY <2>2, <3>1, <3>2, <3>3 DEF ReserveForIntent
  <2> QED
    BY <1>1, <1>2, <1>4, <2>1, <2>2 DEF IntentStep, CreateForDeposit, MatchNewIntent,
       MatchingRetry, LoseMatching
<1>5. ASSUME NEW m \in Matches, MatchStep(m)
      PROVE  LiveStep /\ CancelStep
  <2>1. CASE ConfirmPayment(m)
    BY <2>1, SettleLives DEF ConfirmPayment
  <2>2. ASSUME NEW d \in Resolutions, Resolve(m, d)
        PROVE  LiveStep /\ CancelStep
    BY <2>2, DecideLives DEF Resolve
  <2>3. ASSUME NEW mismatch \in BOOLEAN, SubmitPaymentProof(m, mismatch)
        PROVE  LiveStep
    BY <2>3 DEF SubmitPaymentProof, LiveStep, LiveMatch, HeldMatch, TypeOK
  <2>4. CASE ~ ConfirmPayment(m) /\ \A d \in Resolutions : ~ Resolve(m, d)
    <3>1. CancelStep
      BY <1>2, <1>5, <2>4 DEF MatchStep, AcceptMatch, CancelMatch, SubmitPaymentProof,
         RejectPayment, EscalateOwed, EscalateByAdmin, OpenEscalation, Assign,
         ReservationExpiry, WithdrawerResponseTimeout, SettlementTimeout, LoseOpen
    <3>2. LiveStep
      BY <1>1, <1>5, <2>3, <2>4, LiveMoves DEF MatchStep, AcceptMatch, CancelMatch,
         RejectPayment, EscalateOwed, EscalateByAdmin, OpenEscalation, Assign,
         ReservationExpiry, WithdrawerResponseTimeout, SettlementTimeout, LoseOpen
    <3> QED
      BY <3>1, <3>2
  <2> QED
    BY <2>1, <2>2, <2>4
<1>6. CASE UNCHANGED vars
  BY <1>1, <1>2, <1>6 DEF vars
<1> QED
  BY <1>3, <1>4, <1>5, <1>6 DEF Next

(* While nobody cancels late, rows, books and locks agree in every state.  *)
THEOREM BooksAlwaysBalance ==
    ASSUME ~LateCancel
    PROVE  Spec => []MarketInv
<1>1. Init => MarketInv
  BY RowsInit, BooksInit, LocksInit DEF MarketInv
<1>2. MarketInv /\ [Next]_vars => MarketInv'
  <2> SUFFICES ASSUME MarketInv, [Next]_vars
               PROVE  MarketInv'
    OBVIOUS
  <2>1. RowsInv /\ RowsInv'
    BY RowsStep DEF MarketInv
  <2>2. TypeInv /\ TypeOK'
    BY <2>1 DEF RowsInv, TypeInv
  <2>3. MoneyMove
    BY <2>1, MoneyMoves
  <2>4. BooksBalance' /\ CompletedInFull'
    BY <2>1, <2>3, BooksStep DEF MarketInv
  <2>5. CancelledIsQuiet'
    BY <2>1, <2>2, StepLives, QuietStep DEF MarketInv
  <2>6. NewIsUnlocked
    BY DEF MarketInv, BooksBalance, NewIsUnlocked, ActiveRequest, MatchableRequest, None
  <2>7. LocksAreBacked'
    BY <2>2, <2>6, StepWallets, LocksStep DEF MarketInv, TypeInv
  <2> QED
    BY <2>1, <2>4, <2>5, <2>7 DEF MarketInv
<1> QED
  BY <1>1, <1>2, PTL DEF Spec

(* ... so a request's columns say what its parts were paid, ...            *)
THEOREM RequestsBalance ==
    ASSUME ~LateCancel
    PROVE  Spec => []BooksBalance
BY BooksAlwaysBalance, PTL DEF MarketInv

(* ... and nobody is paying into a request that was taken back.            *)
THEOREM CancellationsAreQuiet ==
    ASSUME ~LateCancel
    PROVE  Spec => []CancelledIsQuiet
BY BooksAlwaysBalance, PTL DEF MarketInv

-----------------------------------------------------------------------------
(* The wallets implement the ledger.                                       *)

(* A request's lock is part of what its owner's wallet has locked.         *)
LEMMA LockWithin ==
    ASSUME MarketInv, NEW r \in Requests
    PROVE  reqLocked[r] \in Nat /\ reqLocked[r] <= held[Withdrawer[r]]
<1> DEFINE u == Withdrawer[r]
<1>1. TypeOK /\ BooksBalance
  BY DEF MarketInv, RowsInv
<1>2. \A q \in Requests : reqLocked[q] \in Nat
  BY <1>1, LockedIsNatural
<1>3. IsFiniteSet(LocksOf(u)) /\ r \in LocksOf(u) /\ \A q \in LocksOf(u) : reqLocked[q] \in Nat
  BY <1>2, FiniteTables, FS_Subset DEF LocksOf
<1>4. reqLocked[r] <= SumFunctionOnSet(reqLocked, LocksOf(u))
  BY <1>3, SumBounds
<1>5. held[u] = SumFunctionOnSet(reqLocked, LocksOf(u))
  BY AmountTypes DEF MarketInv, LocksAreBacked, LocksOf
<1> QED
  BY <1>2, <1>4, <1>5

LEMMA LedgerInit == Init => Ledger!Init
BY DEF Init, Ledger!Init

LEMMA LedgerStep ==
    ASSUME MarketInv, WalletMove
    PROVE  [Ledger!Next]_<<free, held>>
<1> USE MarketAssumption
<1>1. TypeOK
  BY DEF MarketInv, RowsInv
<1>2. ASSUME NEW r \in Requests, CreateForWithdraw(r)
      PROVE  Ledger!Next
  <2>1. PICK u \in Users : u = Withdrawer[r]
    OBVIOUS
  <2>2. Total[r] \in 1 .. free[u]
    BY <1>1, <1>2, <2>1 DEF CreateForWithdraw, TypeOK
  <2>3. Ledger!Hold(u)
    BY <1>2, <2>1, <2>2 DEF CreateForWithdraw, Ledger!Hold
  <2> QED
    BY <2>3 DEF Ledger!Next
<1>3. ASSUME NEW r \in Requests, ReleaseLock(r)
      PROVE  [Ledger!Next]_<<free, held>>
  <2>1. PICK u \in Users : u = Withdrawer[r]
    OBVIOUS
  <2>2. reqLocked[r] \in Nat /\ reqLocked[r] <= held[u] /\ held[u] \in Int
        /\ free \in [Users -> Int] /\ held \in [Users -> Int]
    BY <1>1, <2>1, LockWithin DEF TypeOK
  <2>3. CASE reqLocked[r] > 0
    <3>1. reqLocked[r] \in 1 .. held[u]
      BY <2>2, <2>3
    <3>2. Ledger!Release(u)
      BY <1>3, <2>1, <2>3, <3>1 DEF ReleaseLock, Ledger!Release
    <3> QED
      BY <3>2 DEF Ledger!Next
  <2>4. CASE ~(reqLocked[r] > 0)
    BY <1>3, <2>1, <2>2, <2>4 DEF ReleaseLock
  <2> QED
    BY <2>3, <2>4
<1>4. ASSUME NEW r \in Requests, NEW v \in Users, NEW x \in Nat \ {0}, LockPays(r, v, x)
      PROVE  Ledger!Next
  <2>1. PICK u \in Users : u = Withdrawer[r]
    OBVIOUS
  <2>2. x \in 1 .. held[u]
    BY <1>1, <1>4, <2>1 DEF LockPays, PayFromLock, TypeOK
  <2>3. Ledger!Settle(u, v)
    BY <1>4, <2>1, <2>2 DEF LockPays, PayFromLock, Ledger!Settle
  <2> QED
    BY <2>3 DEF Ledger!Next
<1>5. ASSUME NEW v \in Users, NEW x \in Nat \ {0}, CompanyPays(v, x)
      PROVE  Ledger!Next
  <2>1. x \in 1 .. free[Company] /\ Company \in Users
    BY <1>1, <1>5 DEF CompanyPays, TypeOK
  <2>2. Ledger!Pay(Company, v)
    BY <1>5, <2>1 DEF CompanyPays, Ledger!Pay
  <2> QED
    BY <2>1, <2>2 DEF Ledger!Next
<1> QED
  BY <1>2, <1>3, <1>4, <1>5 DEF WalletMove

(* Every wallet movement of the market is one of the ledger's four.        *)
THEOREM MarketKeepsLedger ==
    ASSUME ~LateCancel
    PROVE  Spec => ImplementsLedger
<1>1. MarketInv /\ [Next]_vars => [Ledger!Next]_<<free, held>>
  BY StepWallets, LedgerStep DEF MarketInv, RowsInv, TypeInv
<1>2. Spec => []MarketInv
  BY BooksAlwaysBalance
<1> QED
  BY <1>1, <1>2, LedgerInit, PTL DEF Spec, ImplementsLedger, Ledger!Spec

-----------------------------------------------------------------------------
(* Every customer's wallet is explained by deposits and paid parts.        *)

LEMMA SumTypes ==
    ASSUME RowsInv, NEW u \in Users
    PROVE  /\ IsFiniteSet(CreditedTo(u)) /\ IsFiniteSet(PaidBy(u))
           /\ \A m \in CreditedTo(u) : Credit[m] \in Int
           /\ SumFunctionOnSet(Credit, CreditedTo(u)) \in Int
           /\ SumFunctionOnSet(Target, PaidBy(u)) \in Int
<1>1. IsFiniteSet(CreditedTo(u)) /\ IsFiniteSet(PaidBy(u))
  BY FiniteTables, FS_Subset DEF CreditedTo, PaidBy
<1>2. \A m \in CreditedTo(u) : Credit[m] \in Int
  BY MarketAssumption DEF CreditedTo, Credit, MatchAmount, RowsInv, TypeOK, RowsAreLinked, None
<1>3. \A p \in PaidBy(u) : Target[p] \in Int
  BY MarketAssumption DEF PaidBy
<1> QED
  BY <1>1, <1>2, <1>3, SumInt

LEMMA CreditsSame ==
    ASSUME RowsInv, SameMatches, NEW u \in Users
    PROVE  SumFunctionOnSet(Credit', CreditedTo(u)') = SumFunctionOnSet(Credit, CreditedTo(u))
<1>1. CreditedTo(u)' = CreditedTo(u)
  BY DEF CreditedTo, SameMatches
<1>2. \A m \in CreditedTo(u) : Credit[m] = Credit'[m]
  BY DEF CreditedTo, Credit, MatchAmount, SameMatches
<1>3. IsFiniteSet(CreditedTo(u))
  BY SumTypes
<1>4. SumFunctionOnSet(Credit, CreditedTo(u)) = SumFunctionOnSet(Credit', CreditedTo(u))
  BY <1>2, <1>3, SumSame
<1> QED
  BY <1>1, <1>4

(* A match that is confirmed brings its amount to its depositor.           *)
LEMMA CreditGrows ==
    ASSUME RowsInv, NEW m \in Matches, Credits(m), matchIntent[m] \in Intents, NEW u \in Users
    PROVE  SumFunctionOnSet(Credit', CreditedTo(u)') =
              SumFunctionOnSet(Credit, CreditedTo(u))
                + (IF u = Depositor[matchIntent[m]] THEN MatchAmount(m) ELSE 0)
<1> DEFINE S == CreditedTo(u)
<1>1. /\ IsFiniteSet(S) /\ m \notin S
      /\ \A n \in S : Credit[n] \in Int
      /\ SumFunctionOnSet(Credit, S) \in Int
  BY SumTypes DEF CreditedTo, Credits
<1>2. /\ \A n \in S : Credit[n] = Credit'[n]
      /\ Credit'[m] = MatchAmount(m) /\ MatchAmount(m) \in Int
  BY MarketAssumption DEF CreditedTo, Credit, MatchAmount, Credits, RowsInv, TypeOK
<1>3. SumFunctionOnSet(Credit', S) = SumFunctionOnSet(Credit, S)
  <2>1. SumFunctionOnSet(Credit, S) = SumFunctionOnSet(Credit', S)
    BY <1>1, <1>2, SumSame
  <2> QED
    BY <2>1
<1>4. CASE u = Depositor[matchIntent[m]]
  <2>1. CreditedTo(u)' = S \cup {m}
    BY <1>4 DEF CreditedTo, Credits, RowsInv, TypeOK
  <2>2. SumFunctionOnSet(Credit', S \cup {m}) = Credit'[m] + SumFunctionOnSet(Credit', S)
    <3> DEFINE f == Credit'
    <3>1. (\A n \in S : f[n] \in Int) /\ f[m] \in Int
      BY <1>1, <1>2
    <3> HIDE DEF f, S
    <3>2. SumFunctionOnSet(f, S \cup {m}) = f[m] + SumFunctionOnSet(f, S)
      BY ONLY <1>1, <3>1, SumAdd
    <3> QED
      BY <3>2 DEF f
  <2> QED
    BY <1>1, <1>2, <1>3, <1>4, <2>1, <2>2
<1>5. CASE u # Depositor[matchIntent[m]]
  <2>1. CreditedTo(u)' = S
    BY <1>5 DEF CreditedTo, Credits, RowsInv, TypeOK
  <2> QED
    BY <1>1, <1>3, <1>5, <2>1
<1> QED
  BY <1>4, <1>5

LEMMA PaidSame ==
    ASSUME SameParts, NEW u
    PROVE  PaidBy(u)' = PaidBy(u)
BY DEF SameParts, PaidBy

(* A part that is paid takes its amount from its withdrawer.               *)
LEMMA PaidGrows ==
    ASSUME RowsInv, NEW p \in Parts, partStatus[p] = "PAID_PENDING", AdvancePart(p),
           NEW u \in Users
    PROVE  SumFunctionOnSet(Target, PaidBy(u)') =
              SumFunctionOnSet(Target, PaidBy(u))
                + (IF u = Withdrawer[RequestOf[p]] THEN Target[p] ELSE 0)
<1> DEFINE S == PaidBy(u)
<1>1. /\ IsFiniteSet(S) /\ p \notin S
      /\ \A q \in S : Target[q] \in Int
      /\ Target[p] \in Int
      /\ SumFunctionOnSet(Target, S) \in Int
  <2>1. IsFiniteSet(S) /\ SumFunctionOnSet(Target, S) \in Int
    BY SumTypes
  <2>2. p \notin S /\ (\A q \in S : Target[q] \in Int) /\ Target[p] \in Int
    BY MarketAssumption DEF PaidBy
  <2> QED
    BY <2>1, <2>2
<1>2. CASE u = Withdrawer[RequestOf[p]]
  <2>1. PaidBy(u)' = S \cup {p}
    BY <1>2 DEF PaidBy, AdvancePart, RowsInv, TypeOK
  <2>2. SumFunctionOnSet(Target, S \cup {p}) = Target[p] + SumFunctionOnSet(Target, S)
    BY <1>1, SumAdd
  <2> QED
    BY <1>1, <1>2, <2>1, <2>2
<1>3. CASE u # Withdrawer[RequestOf[p]]
  <2>1. PaidBy(u)' = S
    BY <1>3 DEF PaidBy, AdvancePart, RowsInv, TypeOK
  <2> QED
    BY <1>1, <1>3, <2>1
<1> QED
  BY <1>2, <1>3

(* Balances move by x credited and y paid; so do the sums.                 *)
LEMMA ExplainedMove ==
    ASSUME RowsInv, RowsInv', LedgerExplained, NEW x, NEW y,
           \A u \in Users \ {Company} :
              /\ x[u] \in Int /\ y[u] \in Int
              /\ free'[u] + held'[u] = free[u] + held[u] + x[u] - y[u]
              /\ SumFunctionOnSet(Credit', CreditedTo(u)') =
                    SumFunctionOnSet(Credit, CreditedTo(u)) + x[u]
              /\ SumFunctionOnSet(Target, PaidBy(u)') =
                    SumFunctionOnSet(Target, PaidBy(u)) + y[u]
    PROVE  LedgerExplained'
<1> SUFFICES ASSUME NEW u \in Users \ {Company}
             PROVE  free'[u] + held'[u] = Funds[u] + SumFunctionOnSet(Credit', CreditedTo(u)')
                                                   - SumFunctionOnSet(Target, PaidBy(u)')
  BY DEF LedgerExplained
<1>1. free[u] + held[u] = Funds[u] + SumFunctionOnSet(Credit, CreditedTo(u))
                                   - SumFunctionOnSet(Target, PaidBy(u))
  BY DEF LedgerExplained
<1>2. /\ SumFunctionOnSet(Credit, CreditedTo(u)) \in Int
      /\ SumFunctionOnSet(Target, PaidBy(u)) \in Int
  BY SumTypes
<1>3. Funds[u] \in Int /\ free[u] \in Int /\ held[u] \in Int
  BY MarketAssumption DEF RowsInv, TypeOK
<1> QED
  BY <1>1, <1>2, <1>3

(* Wallets, credited matches and paid parts move together.                 *)
LEMMA ExplainedStep ==
    ASSUME RowsInv, RowsInv', LedgerExplained, MoneyMove
    PROVE  LedgerExplained'
<1> USE MarketAssumption
<1> DEFINE None0 == [u \in Users |-> 0]
           To(v, a) == [u \in Users |-> IF u = v THEN a ELSE 0]
<1>1. TypeOK
  BY DEF RowsInv
<1>2. ASSUME \A u \in Users : free'[u] + held'[u] = free[u] + held[u],
             SameMatches, SameParts
      PROVE  LedgerExplained'
  <2>1. ASSUME NEW u \in Users \ {Company}
        PROVE  /\ None0[u] \in Int
               /\ free'[u] + held'[u] = free[u] + held[u] + None0[u] - None0[u]
               /\ SumFunctionOnSet(Credit', CreditedTo(u)') =
                     SumFunctionOnSet(Credit, CreditedTo(u)) + None0[u]
               /\ SumFunctionOnSet(Target, PaidBy(u)') =
                     SumFunctionOnSet(Target, PaidBy(u)) + None0[u]
    <3>1. /\ SumFunctionOnSet(Credit, CreditedTo(u)) \in Int
          /\ SumFunctionOnSet(Target, PaidBy(u)) \in Int
      BY SumTypes
    <3>2. free[u] \in Int /\ held[u] \in Int
      BY <1>1 DEF TypeOK
    <3>3. SumFunctionOnSet(Credit', CreditedTo(u)') = SumFunctionOnSet(Credit, CreditedTo(u))
      BY <1>2, CreditsSame
    <3>4. PaidBy(u)' = PaidBy(u)
      BY <1>2, PaidSame
    <3> QED
      BY <1>2, <3>1, <3>2, <3>3, <3>4
  <2> HIDE DEF None0
  <2> QED
    BY <2>1, ExplainedMove
<1>3. CASE Quiet
  BY <1>2, <1>3 DEF Quiet
<1>4. ASSUME NEW r \in Requests, CreateForWithdraw(r)
      PROVE  LedgerExplained'
  <2>1. SameMatches
    BY <1>4 DEF CreateForWithdraw, SameMatches, matchVars
  <2>2. SameParts
    BY <1>4 DEF CreateForWithdraw, SameParts, RowsInv, PartsAreNew, TypeOK, None
  <2>3. \A u \in Users : free'[u] + held'[u] = free[u] + held[u]
    BY <1>1, <1>4 DEF CreateForWithdraw, TypeOK
  <2> QED
    BY <1>2, <2>1, <2>2, <2>3
<1>5. ASSUME NEW r \in Requests, NEW s \in {"CANCELLED", "EXPIRED"}, CloseRequest(r, s)
      PROVE  LedgerExplained'
  <2>1. SameMatches
    BY <1>5 DEF CloseRequest, SameMatches, matchVars
  <2>2. SameParts
    BY <1>5 DEF CloseRequest, SameParts, RowsInv, TypeOK
  <2>3. \A u \in Users : free'[u] + held'[u] = free[u] + held[u]
    BY <1>1, <1>5 DEF CloseRequest, ReleaseLock, TypeOK
  <2> QED
    BY <1>2, <2>1, <2>2, <2>3
<1>6. ASSUME NEW p \in Parts, NEW v \in Users, PaysPart(p, v)
      PROVE  /\ \A u \in Users : free'[u] + held'[u] = free[u] + held[u]
                    + To(v, Target[p])[u] - To(Withdrawer[RequestOf[p]], Target[p])[u]
             /\ \A u \in Users : SumFunctionOnSet(Target, PaidBy(u)') =
                    SumFunctionOnSet(Target, PaidBy(u))
                        + To(Withdrawer[RequestOf[p]], Target[p])[u]
  <2>1. Withdrawer[RequestOf[p]] \in Users /\ Target[p] \in Int
    OBVIOUS
  <2>2. \A u \in Users : free'[u] + held'[u] = free[u] + held[u]
                    + To(v, Target[p])[u] - To(Withdrawer[RequestOf[p]], Target[p])[u]
    BY <1>1, <1>6, <2>1 DEF PaysPart, PayFromLock, TypeOK
  <2>3. \A u \in Users : SumFunctionOnSet(Target, PaidBy(u)') =
            SumFunctionOnSet(Target, PaidBy(u)) + To(Withdrawer[RequestOf[p]], Target[p])[u]
    BY <1>6, PaidGrows DEF PaysPart
  <2> QED
    BY <2>2, <2>3
<1>7. ASSUME NEW m \in Matches, Credits(m), matchPart[m] \in Parts,
             matchIntent[m] \in Intents, PaysPart(matchPart[m], Depositor[matchIntent[m]])
      PROVE  LedgerExplained'
  <2>1. PICK p \in Parts, v \in Users, w \in Users :
            p = matchPart[m] /\ v = Depositor[matchIntent[m]] /\ w = Withdrawer[RequestOf[p]]
    BY <1>7
  <2>2. MatchAmount(m) = Target[p] /\ Target[p] \in Int
    BY <2>1 DEF MatchAmount
  <2>3. \A u \in Users : SumFunctionOnSet(Credit', CreditedTo(u)') =
                SumFunctionOnSet(Credit, CreditedTo(u)) + To(v, Target[p])[u]
    BY <1>7, <2>1, <2>2, CreditGrows
  <2>4. /\ \A u \in Users : free'[u] + held'[u] = free[u] + held[u]
                    + To(v, Target[p])[u] - To(w, Target[p])[u]
        /\ \A u \in Users : SumFunctionOnSet(Target, PaidBy(u)') =
                    SumFunctionOnSet(Target, PaidBy(u)) + To(w, Target[p])[u]
    BY <1>6, <1>7, <2>1
  <2>5. \A u \in Users : To(v, Target[p])[u] \in Int /\ To(w, Target[p])[u] \in Int
    BY <2>2
  <2> HIDE DEF To
  <2> QED
    BY <2>3, <2>4, <2>5, ExplainedMove
<1>8. ASSUME NEW p \in Parts, PaysPart(p, Company), SameMatches
      PROVE  LedgerExplained'
  <2>1. PICK w \in Users : w = Withdrawer[RequestOf[p]]
    OBVIOUS
  <2>2. ASSUME NEW u \in Users \ {Company}
        PROVE  /\ To(Company, Target[p])[u] \in Int /\ To(w, Target[p])[u] \in Int
               /\ SumFunctionOnSet(Credit', CreditedTo(u)') =
                    SumFunctionOnSet(Credit, CreditedTo(u)) + To(Company, Target[p])[u]
    <3>1. SumFunctionOnSet(Credit, CreditedTo(u)) \in Int
      BY SumTypes
    <3>2. SumFunctionOnSet(Credit', CreditedTo(u)') = SumFunctionOnSet(Credit, CreditedTo(u))
      BY <1>8, CreditsSame
    <3>3. Target[p] \in Int
      OBVIOUS
    <3> QED
      BY <3>1, <3>2, <3>3
  <2>3. /\ \A u \in Users : free'[u] + held'[u] = free[u] + held[u]
                    + To(Company, Target[p])[u] - To(w, Target[p])[u]
        /\ \A u \in Users : SumFunctionOnSet(Target, PaidBy(u)') =
                    SumFunctionOnSet(Target, PaidBy(u)) + To(w, Target[p])[u]
    BY <1>6, <1>8, <2>1
  <2> HIDE DEF To
  <2> QED
    BY <2>2, <2>3, ExplainedMove
<1>9. ASSUME NEW m \in Matches, Credits(m), matchIntent[m] \in Intents, SettleFromCompany(m)
      PROVE  LedgerExplained'
  <2>1. PICK v \in Users \ {Company} : v = Depositor[matchIntent[m]]
    BY <1>9
  <2>2. PICK a \in Int : a = MatchAmount(m)
    BY <1>9 DEF MatchAmount, SettleFromCompany
  <2>3. \A u \in Users : SumFunctionOnSet(Credit', CreditedTo(u)') =
                SumFunctionOnSet(Credit, CreditedTo(u)) + To(v, a)[u]
    BY <1>9, <2>1, <2>2, CreditGrows
  <2>4. ASSUME NEW u \in Users \ {Company}
        PROVE  /\ To(v, a)[u] \in Int /\ None0[u] \in Int
               /\ free'[u] + held'[u] = free[u] + held[u] + To(v, a)[u] - None0[u]
               /\ SumFunctionOnSet(Target, PaidBy(u)') =
                    SumFunctionOnSet(Target, PaidBy(u)) + None0[u]
    <3>1. PaidBy(u)' = PaidBy(u) /\ SumFunctionOnSet(Target, PaidBy(u)) \in Int
      BY <1>9, SumTypes DEF SettleFromCompany, partVars, PaidBy
    <3>2. free'[u] + held'[u] = free[u] + held[u] + To(v, a)[u]
      BY <1>1, <1>9, <2>1, <2>2 DEF SettleFromCompany, TypeOK
    <3>3. free[u] + held[u] + To(v, a)[u] \in Int
      BY <1>1 DEF TypeOK
    <3> QED
      BY <3>1, <3>2, <3>3
  <2> HIDE DEF To, None0
  <2> QED
    BY <2>3, <2>4, ExplainedMove
<1> QED
  BY <1>3, <1>4, <1>5, <1>7, <1>8, <1>9 DEF MoneyMove

LEMMA ExplainedInit == Init => LedgerExplained
<1> SUFFICES ASSUME Init, NEW u \in Users \ {Company}
             PROVE  free[u] + held[u] = Funds[u] + SumFunctionOnSet(Credit, CreditedTo(u))
                                                 - SumFunctionOnSet(Target, PaidBy(u))
  BY DEF LedgerExplained
<1>1. CreditedTo(u) = {} /\ PaidBy(u) = {}
  BY DEF Init, CreditedTo, PaidBy, None
<1> QED
  BY <1>1, SumEmpty, MarketAssumption DEF Init

(* While nobody cancels late, a customer's wallet holds what it started    *)
(* with, plus its confirmed deposits, less its paid parts.                 *)
THEOREM WalletsAreExplained ==
    ASSUME ~LateCancel
    PROVE  Spec => []LedgerExplained
<1>1. RowsInv /\ LedgerExplained /\ [Next]_vars => LedgerExplained'
  BY RowsStep, MoneyMoves, ExplainedStep
<1>2. Spec => []RowsInv
  BY RowsAlwaysAgree
<1> QED
  BY <1>1, <1>2, ExplainedInit, PTL DEF Spec
=============================================================================
