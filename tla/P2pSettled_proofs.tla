--------------------------- MODULE P2pSettled_proofs ---------------------------
(***************************************************************************)
(* What stays true of the p2p rows whatever the callers do: envelopes tell *)
(* the truth, an intent walks with one match, what was settled stays       *)
(* settled - also when handlers write what they had read before others     *)
(* came in between (P2pRaces).                                             *)
(***************************************************************************)
EXTENDS P2pBooks_proofs, P2pRaces

(* No part and no intent is settled twice.                                 *)
THEOREM PartsArePaidOnce ==
    ASSUME ~LateCancel
    PROVE  Spec => []PartPaidOnce
BY RowsAlwaysAgree, PTL DEF RowsInv

(* A case is open exactly while its match is escalated.                    *)
THEOREM CasesFollow ==
    ASSUME ~LateCancel
    PROVE  Spec => []CaseFollowsMatch
BY RowsAlwaysAgree, PTL DEF RowsInv

-----------------------------------------------------------------------------
(* The envelopes.                                                          *)

LEMMA EnvelopesInit == Init => EnvelopesAgree
BY DEF Init, EnvelopesAgree, DepositAgrees, WithdrawalAgrees, Queueing,
       ActiveRequest, MatchableRequest, None

LEMMA RequestEnvelopes ==
    ASSUME TypeOK, NEW r \in Requests, RequestStep(r),
           \A q \in Requests : WithdrawalAgrees(q)
    PROVE  \A q \in Requests : WithdrawalAgrees(q)'
<1> USE DEF TypeOK, WithdrawalAgrees, ActiveRequest, MatchableRequest
<1>1. CASE CreateForWithdraw(r)
  BY <1>1 DEF CreateForWithdraw, None
<1>2. CASE WindowElapses(r)
  BY <1>2 DEF WindowElapses, requestVars
<1>3. ASSUME NEW s \in {"CANCELLED", "EXPIRED"}, CloseRequest(r, s)
      PROVE  \A q \in Requests : WithdrawalAgrees(q)'
  BY <1>3 DEF CloseRequest
<1>4. CASE Cancel(r)
  BY <1>3, <1>4 DEF Cancel
<1>5. CASE MoveToAdminSettlement(r)
  BY <1>5 DEF MoveToAdminSettlement
<1>6. CASE RequestExpiry(r)
  BY <1>3, <1>6 DEF RequestExpiry
<1> QED
  BY <1>1, <1>2, <1>4, <1>5, <1>6 DEF RequestStep

LEMMA RequestDeposits ==
    ASSUME NEW r \in Requests, RequestStep(r)
    PROVE  UNCHANGED <<intentState, depositRow>>
BY DEF RequestStep, CreateForWithdraw, WindowElapses, Cancel, CloseRequest,
       MoveToAdminSettlement, RequestExpiry, intentVars

LEMMA IntentEnvelopes ==
    ASSUME TypeOK, NEW i \in Intents, IntentStep(i), EnvelopesAgree
    PROVE  EnvelopesAgree'
<1> USE DEF TypeOK, EnvelopesAgree
<1>1. UNCHANGED <<reqState, withdrawRow>>
  BY DEF IntentStep, CreateForDeposit, MatchNewIntent, MatchingRetry, LoseMatching,
         ReserveForIntent, requestVars
<1>2. CASE CreateForDeposit(i)
  BY <1>1, <1>2 DEF CreateForDeposit, DepositAgrees, WithdrawalAgrees, Queueing, None
<1>3. ASSUME ReserveForIntent(i)
      PROVE  EnvelopesAgree'
  <2>1. /\ intentState[i] \in Queueing
        /\ \E s \in {"RESERVED", "NO_MATCH"} : intentState' = [intentState EXCEPT ![i] = s]
        /\ UNCHANGED depositRow
    BY <1>3 DEF ReserveForIntent, ReservePart, ReserveFromAdminAccount, QueueIntent,
          InsertMatch
  <2> QED
    BY <1>1, <2>1 DEF DepositAgrees, WithdrawalAgrees, Queueing
<1>4. CASE MatchNewIntent(i) \/ MatchingRetry(i)
  BY <1>3, <1>4 DEF MatchNewIntent, MatchingRetry
<1>5. CASE LoseMatching(i)
  BY <1>1, <1>5 DEF LoseMatching, intentVars, DepositAgrees, WithdrawalAgrees
<1> QED
  BY <1>2, <1>4, <1>5 DEF IntentStep

(* A part moves forward: its request is paid in full, or goes on.          *)
LEMMA PartEnvelopes ==
    ASSUME TypeOK, NEW p \in Parts, AdvancePart(p),
           \A q \in Requests : WithdrawalAgrees(q)
    PROVE  \A q \in Requests : WithdrawalAgrees(q)'
<1> DEFINE r == RequestOf[p]
           next == StateAfter(r, Target[p])
<1>1. r \in Requests
  BY MarketAssumption
<1>2. /\ next \in {"COMPLETED", "PARTIALLY_MATCHED"}
      /\ WithdrawMay(reqState[r], next)
      /\ reqState' = [reqState EXCEPT ![r] = next]
      /\ withdrawRow' = [withdrawRow EXCEPT ![r] =
                            IF next = "COMPLETED" THEN "COMPLETED" ELSE @]
  BY DEF AdvancePart, StateAfter
<1>3. WithdrawalAgrees(r)'
  <2>1. CASE next = "COMPLETED"
    BY <1>1, <1>2, <2>1 DEF TypeOK, WithdrawalAgrees, ActiveRequest, MatchableRequest
  <2>2. CASE next = "PARTIALLY_MATCHED"
    <3>1. reqState[r] \in {"DRAFT", "PENDING_MATCHING", "PARTIALLY_MATCHED"}
      BY <1>2, <2>2 DEF WithdrawMay, WithdrawTable
    <3>2. reqState[r] # "DRAFT" => withdrawRow[r] = "PROCESSING"
      BY <1>1, <3>1 DEF WithdrawalAgrees, ActiveRequest, MatchableRequest
    <3> QED
      BY <1>1, <1>2, <2>2, <3>1, <3>2
         DEF TypeOK, WithdrawalAgrees, ActiveRequest, MatchableRequest,
             WithdrawMay, WithdrawTable
  <2> QED
    BY <1>2, <2>1, <2>2
<1>4. ASSUME NEW q \in Requests, q # r
      PROVE  WithdrawalAgrees(q)'
  BY <1>1, <1>2, <1>4 DEF TypeOK, WithdrawalAgrees
<1> QED
  BY <1>3, <1>4

(* An intent and its envelope are moved together.                          *)
LEMMA DepositMoved ==
    ASSUME TypeOK, NEW i, NEW s, NEW d,
           \A j \in Intents : DepositAgrees(j),
           intentState' = [intentState EXCEPT ![i] = s],
           depositRow' = [depositRow EXCEPT ![i] = d],
           d = "COMPLETED" <=> s = "CONFIRMED",
           d = "FAILED" <=> s = "REJECTED",
           d = "CANCELLED" <=> s = "CANCELLED",
           d = "PENDING" => s \in Queueing \cup {"RESERVED", "AWAITING_PAYMENT"}
    PROVE  \A j \in Intents : DepositAgrees(j)'
BY DEF TypeOK, DepositAgrees

(* An intent moves along its table, and its envelope with it.              *)
LEMMA AgreeMoved ==
    ASSUME TypeOK, NEW i, NEW s, MoveIntent(i, s), \A j \in Intents : DepositAgrees(j),
           \/ /\ UNCHANGED depositRow
              /\ s \in {"AWAITING_PAYMENT", "MATCHING", "REJECTED_BY_WITHDRAWER",
                        "WITHDRAWER_RESPONSE_TIMEOUT", "MORE_INFO_REQUESTED"}
           \/ \E d : /\ depositRow' = [depositRow EXCEPT ![i] = d]
                     /\ \/ s = "ESCALATED_TO_ADMIN" /\ d = "PROCESSING"
                        \/ s = "CONFIRMED" /\ d = "COMPLETED"
                        \/ s = "REJECTED" /\ d = "FAILED"
                        \/ s = "CANCELLED" /\ d = "CANCELLED"
    PROVE  \A j \in Intents : DepositAgrees(j)'
<1>1. intentState' = [intentState EXCEPT ![i] = s] /\ IntentMay(intentState[i], s)
  BY DEF MoveIntent
<1>2. CASE \E d : depositRow' = [depositRow EXCEPT ![i] = d]
                  /\ \/ s = "ESCALATED_TO_ADMIN" /\ d = "PROCESSING"
                     \/ s = "CONFIRMED" /\ d = "COMPLETED"
                     \/ s = "REJECTED" /\ d = "FAILED"
                     \/ s = "CANCELLED" /\ d = "CANCELLED"
  BY <1>1, <1>2, DepositMoved
<1>3. CASE /\ UNCHANGED depositRow
           /\ s \in {"AWAITING_PAYMENT", "MATCHING", "REJECTED_BY_WITHDRAWER",
                     "WITHDRAWER_RESPONSE_TIMEOUT", "MORE_INFO_REQUESTED"}
  <2>1. intentState[i] \notin {"CONFIRMED", "REJECTED", "CANCELLED"}
    BY <1>1, <1>3 DEF IntentMay, IntentTable
  <2>2. \/ s \in {"AWAITING_PAYMENT", "MATCHING"}
        \/ intentState[i] \notin Queueing \cup {"RESERVED", "AWAITING_PAYMENT"}
    BY <1>1, <1>3 DEF IntentMay, IntentTable, Queueing
  <2> QED
    BY <1>1, <1>3, <2>1, <2>2 DEF TypeOK, DepositAgrees, Queueing
<1> QED
  BY <1>2, <1>3

LEMMA WithdrawalsKept ==
    ASSUME UNCHANGED requestVars, \A q \in Requests : WithdrawalAgrees(q)
    PROVE  \A q \in Requests : WithdrawalAgrees(q)'
BY DEF requestVars, WithdrawalAgrees

LEMMA DepositsKept ==
    ASSUME UNCHANGED intentVars, \A i \in Intents : DepositAgrees(i)
    PROVE  \A i \in Intents : DepositAgrees(i)'
BY DEF intentVars, DepositAgrees

LEMMA SettleEnvelopes ==
    ASSUME TypeOK, EnvelopesAgree, NEW m \in Matches, Settle(m)
    PROVE  EnvelopesAgree'
<1> USE DEF EnvelopesAgree
<1>1. CASE matchStatus[m] = "CONFIRMED"
  BY <1>1, WithdrawalsKept, DepositsKept DEF Settle
<1>2. CASE matchStatus[m] # "CONFIRMED"
  <2>1. /\ SettleFromPart(m) \/ SettleFromCompany(m)
        /\ MoveIntent(matchIntent[m], "CONFIRMED")
        /\ depositRow' = [depositRow EXCEPT ![matchIntent[m]] = "COMPLETED"]
    BY <1>2 DEF Settle
  <2>2. \A j \in Intents : DepositAgrees(j)'
    BY <2>1, AgreeMoved
  <2>3. \A q \in Requests : WithdrawalAgrees(q)'
    BY <2>1, WithdrawalsKept, PartEnvelopes DEF SettleFromPart, SettleFromCompany, TypeOK
  <2> QED
    BY <2>2, <2>3
<1> QED
  BY <1>1, <1>2

LEMMA DecideEnvelopes ==
    ASSUME TypeOK, EnvelopesAgree, NEW m \in Matches, NEW d \in Resolutions, Decide(m, d)
    PROVE  EnvelopesAgree'
<1> USE DEF EnvelopesAgree
<1>1. ASSUME NEW s \in {"REJECTED", "CANCELLED"}, FailIntent(m, s)
      PROVE  \A j \in Intents : DepositAgrees(j)'
  BY <1>1, AgreeMoved DEF FailIntent
<1>2. CASE d = "CONFIRM_PAYMENT"
  BY <1>2, SettleEnvelopes DEF Decide
<1>3. CASE d = "SETTLE_FROM_ADMIN"
  <2> DEFINE p == matchPart[m]
  <2>1. p \in Parts /\ SettlePartFromAdmin(p) /\ FailIntent(m, "REJECTED")
    BY <1>3 DEF Decide, TypeOK
  <2>2. \A q \in Requests : WithdrawalAgrees(q)'
    BY <2>1, WithdrawalsKept, PartEnvelopes DEF SettlePartFromAdmin
  <2> QED
    BY <1>1, <2>1, <2>2
<1>4. CASE d \in {"REJECT_PAYMENT", "CANCEL_REQUEST"}
  <2>1. PICK s \in {"REJECTED", "CANCELLED"} : FailIntent(m, s)
    BY <1>4 DEF Decide
  <2> QED
    BY <1>1, <1>4, <2>1, WithdrawalsKept DEF Decide
<1>5. CASE d = "REOPEN_MATCHING"
  BY <1>5, WithdrawalsKept, AgreeMoved DEF Decide
<1>6. CASE d = "REQUEST_MORE_EVIDENCE"
  BY <1>6, WithdrawalsKept, AgreeMoved DEF Decide
<1> QED
  BY <1>2, <1>3, <1>4, <1>5, <1>6 DEF Resolutions

LEMMA MatchEnvelopes ==
    ASSUME TypeOK, EnvelopesAgree, NEW m \in Matches, MatchStep(m)
    PROVE  EnvelopesAgree'
<1> USE DEF EnvelopesAgree
<1>1. ASSUME UNCHANGED <<requestVars, intentVars>> PROVE EnvelopesAgree'
  BY <1>1, WithdrawalsKept, DepositsKept
<1>2. CASE AcceptMatch(m)
  BY <1>2, WithdrawalsKept, AgreeMoved DEF AcceptMatch
<1>3. CASE CancelMatch(m)
  BY <1>3, WithdrawalsKept, AgreeMoved DEF CancelMatch
<1>4. ASSUME NEW mismatch \in BOOLEAN, SubmitPaymentProof(m, mismatch)
      PROVE  EnvelopesAgree'
  <2>1. PICK t \in {"PAYMENT_PROOF_SUBMITTED", "WAITING_WITHDRAWER_CONFIRMATION"} :
            /\ intentState' = [intentState EXCEPT ![matchIntent[m]] = t]
            /\ depositRow' = [depositRow EXCEPT ![matchIntent[m]] = "PROCESSING"]
            /\ UNCHANGED requestVars
    BY <1>4 DEF SubmitPaymentProof
  <2> QED
    BY <2>1, WithdrawalsKept, DepositMoved
<1>5. CASE ConfirmPayment(m)
  BY <1>5, SettleEnvelopes DEF ConfirmPayment
<1>6. CASE RejectPayment(m)
  BY <1>6, WithdrawalsKept, AgreeMoved DEF RejectPayment
<1>7. ASSUME OpenEscalation(m)
      PROVE  EnvelopesAgree'
  BY <1>7, WithdrawalsKept, AgreeMoved DEF OpenEscalation
<1>8. CASE EscalateOwed(m)
  BY <1>1, <1>7, <1>8 DEF EscalateOwed
<1>9. ASSUME NEW d \in Resolutions, Resolve(m, d)
      PROVE  EnvelopesAgree'
  BY <1>9, DecideEnvelopes DEF Resolve
<1>10. CASE ReservationExpiry(m)
  BY <1>10, WithdrawalsKept, AgreeMoved DEF ReservationExpiry
<1>11. CASE WithdrawerResponseTimeout(m)
  BY <1>11, WithdrawalsKept, AgreeMoved DEF WithdrawerResponseTimeout
<1>12. CASE Assign(m) \/ LoseOpen(m)
  BY <1>1, <1>12 DEF Assign, LoseOpen
<1> QED
  BY <1>2, <1>3, <1>4, <1>5, <1>6, <1>7, <1>8, <1>9, <1>10, <1>11, <1>12
     DEF MatchStep, EscalateByAdmin, SettlementTimeout

LEMMA EnvelopesStep == TypeOK /\ EnvelopesAgree /\ [Next]_vars => EnvelopesAgree'
<1> SUFFICES ASSUME TypeOK, EnvelopesAgree, [Next]_vars
             PROVE  EnvelopesAgree'
  OBVIOUS
<1>1. ASSUME NEW r \in Requests, RequestStep(r)
      PROVE  EnvelopesAgree'
  BY <1>1, RequestEnvelopes, RequestDeposits DEF EnvelopesAgree, DepositAgrees
<1>2. CASE UNCHANGED vars
  BY <1>2 DEF vars, requestVars, intentVars, EnvelopesAgree, DepositAgrees, WithdrawalAgrees
<1> QED
  BY <1>1, <1>2, IntentEnvelopes, MatchEnvelopes DEF Next

(* The deposit and withdraw rows agree with the p2p rows, late             *)
(* cancellations or not.                                                   *)
THEOREM EnvelopesAlwaysAgree == Spec => []EnvelopesAgree
<1>1. Spec => [](TypeInv /\ EnvelopesAgree)
  BY TypeInit, EnvelopesInit, TypeStep, EnvelopesStep, PTL DEF Spec, TypeInv
<1> QED
  BY <1>1, PTL

-----------------------------------------------------------------------------
(* What no handler undoes, whoever calls it and however late: an intent    *)
(* that was confirmed, a part that was confirmed, a match that was.        *)

IntentsFinal ==
    \A i \in Intents : intentState[i] = "CONFIRMED" =>
        /\ intentState'[i] = "CONFIRMED"
        /\ depositRow[i] = "COMPLETED" => depositRow'[i] = "COMPLETED"

(* A part is confirmed with the books of its request.                      *)
PartsFinal ==
    /\ \A p \in Parts : partStatus[p] = "CONFIRMED" => partStatus'[p] = "CONFIRMED"
    /\ \A p \in Parts : partStatus[p] # "CONFIRMED" /\ partStatus'[p] = "CONFIRMED"
        => reqCompleted'[RequestOf[p]] = reqCompleted[RequestOf[p]] + Target[p]
    /\ PartsAreNew'

MatchesFinal ==
    \A m \in Matches :
        /\ matchStatus[m] # None =>
            matchStatus'[m] # None /\ matchIntent'[m] = matchIntent[m]
        /\ matchStatus[m] = "CONFIRMED" => matchStatus'[m] = "CONFIRMED"
        /\ matchStatus[m] # "CONFIRMED" /\ matchStatus'[m] = "CONFIRMED" =>
            /\ matchStatus[m] # None
            /\ intentState'[matchIntent[m]] = "CONFIRMED"
            /\ depositRow'[matchIntent[m]] = "COMPLETED"

Final == IntentsFinal /\ PartsFinal /\ MatchesFinal

(* Moving an intent, with its envelope or without.                         *)
LEMMA MoveIntentFinal ==
    ASSUME TypeOK, NEW i, NEW s, MoveIntent(i, s),
           \/ UNCHANGED depositRow
           \/ \E d : depositRow' = [depositRow EXCEPT ![i] = d] /\ (s = "CONFIRMED" => d = "COMPLETED")
    PROVE  IntentsFinal
BY DEF MoveIntent, IntentMay, IntentTable, IntentsFinal, TypeOK

LEMMA MoveMatchFinal ==
    ASSUME TypeOK, NEW m \in Matches, NEW s, MoveMatch(m, s), s \notin {"CONFIRMED", None}
    PROVE  MatchesFinal
BY NoneStays DEF MoveMatch, MatchMay, MatchTable, MatchesFinal, TypeOK

LEMMA PartsKept ==
    ASSUME PartsAreNew, RequestsStay, UNCHANGED partStatus
    PROVE  PartsFinal
BY MarketAssumption DEF PartsFinal, PartsAreNew, RequestsStay

LEMMA ReleaseFinal ==
    ASSUME TypeOK, PartsAreNew, RequestsStay, NEW p \in Parts \cup {NoPart},
           NEW s, s # "CONFIRMED", ReleasePart(p, s)
    PROVE  PartsFinal
<1>1. CASE UNCHANGED partVars
  BY <1>1, PartsKept DEF partVars
<1>2. CASE /\ p \in Parts
           /\ partStatus[p] # "CONFIRMED"
           /\ PartMay(partStatus[p], s)
           /\ partStatus' = [partStatus EXCEPT ![p] = s]
  <2>1. \A q \in Parts : q # p => partStatus'[q] = partStatus[q]
    BY <1>2 DEF TypeOK
  <2>2. partStatus'[p] = s
    BY <1>2 DEF TypeOK
  <2>3. partStatus[p] = None => s = None
    BY <1>2, NoneStays
  <2> QED
    BY <1>2, <2>1, <2>2, <2>3, MarketAssumption DEF PartsFinal, PartsAreNew, RequestsStay
<1> QED
  BY <1>1, <1>2 DEF ReleasePart

LEMMA AdvanceFinal ==
    ASSUME TypeOK, PartsAreNew, NEW p \in Parts, AdvancePart(p)
    PROVE  PartsFinal
<1>1. RequestsStay /\ reqState'[RequestOf[p]] # None
  BY AdvanceKeeps
<1>2. /\ partStatus' = [partStatus EXCEPT ![p] = "CONFIRMED"]
      /\ reqCompleted' = [reqCompleted EXCEPT ![RequestOf[p]] = @ + Target[p]]
  BY DEF AdvancePart
<1> QED
  BY <1>1, <1>2, MarketAssumption DEF TypeOK, PartsFinal, PartsAreNew, RequestsStay

LEMMA SettleFinal ==
    ASSUME TypeInv, PartsAreNew, NEW m \in Matches, Settle(m)
    PROVE  Final
<1> USE DEF TypeInv
<1>1. RequestsStay
  BY SettleWallets
<1>2. CASE matchStatus[m] = "CONFIRMED"
  BY <1>1, <1>2, PartsKept DEF Settle, Final, IntentsFinal, MatchesFinal, intentVars, matchVars, partVars
<1>3. CASE matchStatus[m] # "CONFIRMED"
  <2> DEFINE i == matchIntent[m]
  <2>1. /\ SettleFromPart(m) \/ SettleFromCompany(m)
        /\ MoveMatch(m, "CONFIRMED")
        /\ MoveIntent(i, "CONFIRMED")
        /\ depositRow' = [depositRow EXCEPT ![i] = "COMPLETED"]
    BY <1>3 DEF Settle
  <2>2. IntentsFinal
    BY <2>1, MoveIntentFinal
  <2>3. PartsFinal
    <3>1. CASE SettleFromPart(m)
      <4>1. matchPart[m] \in Parts /\ AdvancePart(matchPart[m])
        BY <3>1 DEF SettleFromPart, TypeOK
      <4> QED
        BY <4>1, AdvanceFinal
    <3>2. CASE SettleFromCompany(m)
      BY <1>1, <3>2, PartsKept DEF SettleFromCompany, partVars
    <3> QED
      BY <2>1, <3>1, <3>2
  <2>4. MatchesFinal
    <3>1. matchStatus[m] # None /\ i \in Intents
      BY <2>1, NoneStays DEF MoveMatch, RowsAreLinked, None
    <3>2. intentState'[i] = "CONFIRMED" /\ depositRow'[i] = "COMPLETED"
      BY <2>1, <3>1 DEF MoveIntent, TypeOK
    <3> QED
      BY <2>1, <3>1, <3>2 DEF MoveMatch, MatchesFinal, TypeOK, None
  <2> QED
    BY <2>2, <2>3, <2>4 DEF Final
<1> QED
  BY <1>2, <1>3

LEMMA DecideFinal ==
    ASSUME TypeInv, PartsAreNew, NEW m \in Matches, NEW d \in Resolutions, Decide(m, d)
    PROVE  Final
<1> USE DEF TypeInv, Final, None
<1> DEFINE i == matchIntent[m]
           p == matchPart[m]
<1>1. RequestsStay /\ p \in Parts \cup {NoPart}
  BY DecideWallets DEF TypeOK
<1>2. ASSUME NEW s \in {"REJECTED", "CANCELLED"}, FailIntent(m, s)
      PROVE  IntentsFinal /\ MatchesFinal
  BY <1>2, MoveIntentFinal, MoveMatchFinal DEF FailIntent
<1>3. CASE d = "CONFIRM_PAYMENT"
  BY <1>3, SettleFinal DEF Decide
<1>4. CASE d = "SETTLE_FROM_ADMIN"
  <2>1. p \in Parts /\ SettlePartFromAdmin(p) /\ FailIntent(m, "REJECTED")
    BY <1>1, <1>4 DEF Decide
  <2>2. PartsFinal
    BY <1>1, <2>1, PartsKept, AdvanceFinal DEF SettlePartFromAdmin, partVars
  <2> QED
    BY <1>2, <2>1, <2>2
<1>5. CASE d \in {"REJECT_PAYMENT", "CANCEL_REQUEST"}
  <2>1. PICK s \in {"OPEN", "CANCELLED"}, t \in {"REJECTED", "CANCELLED"} :
          ReleasePart(p, s) /\ FailIntent(m, t)
    BY <1>5 DEF Decide
  <2> QED
    BY <1>1, <1>2, <2>1, ReleaseFinal
<1>6. CASE d = "REOPEN_MATCHING"
  BY <1>1, <1>6, ReleaseFinal, MoveIntentFinal, MoveMatchFinal DEF Decide
<1>7. CASE d = "REQUEST_MORE_EVIDENCE"
  BY <1>1, <1>7, PartsKept, MoveIntentFinal DEF Decide, partVars, matchVars, MatchesFinal
<1> QED
  BY <1>3, <1>4, <1>5, <1>6, <1>7 DEF Resolutions

LEMMA RequestFinal ==
    ASSUME TypeInv, PartsAreNew, NEW r \in Requests, RequestStep(r), RequestsStay
    PROVE  Final
<1> USE MarketAssumption DEF TypeInv, Final
<1>1. IntentsFinal /\ MatchesFinal
  BY DEF RequestStep, CreateForWithdraw, WindowElapses, Cancel, CloseRequest,
         MoveToAdminSettlement, RequestExpiry, intentVars, matchVars, IntentsFinal, MatchesFinal
<1>2. CASE CreateForWithdraw(r)
  BY <1>1, <1>2 DEF CreateForWithdraw, PartsFinal, PartsAreNew, TypeOK, None
<1>3. ASSUME NEW s \in {"CANCELLED", "EXPIRED"}, CloseRequest(r, s)
      PROVE  Final
  BY <1>1, <1>3 DEF CloseRequest, PartsFinal, PartsAreNew, RequestsStay, TypeOK, None
<1>4. CASE WindowElapses(r) \/ MoveToAdminSettlement(r)
  BY <1>1, <1>4, PartsKept DEF WindowElapses, MoveToAdminSettlement, partVars
<1> QED
  BY <1>2, <1>3, <1>4 DEF RequestStep, Cancel, RequestExpiry

LEMMA IntentFinal ==
    ASSUME TypeInv, PartsAreNew, NEW i \in Intents, IntentStep(i), RequestsStay
    PROVE  Final
<1> USE DEF TypeInv, Final
<1>1. CASE CreateForDeposit(i)
  BY <1>1, PartsKept DEF CreateForDeposit, IntentsFinal, MatchesFinal, partVars, matchVars, TypeOK, None
<1>2. CASE LoseMatching(i)
  BY <1>2, PartsKept DEF LoseMatching, IntentsFinal, MatchesFinal, partVars, matchVars, intentVars
<1>3. ASSUME ReserveForIntent(i)
      PROVE  Final
  <2>1. intentState[i] # "CONFIRMED" /\ UNCHANGED depositRow
    BY <1>3 DEF ReserveForIntent, Queueing
  <2>2. ASSUME NEW m \in Matches, NEW p, InsertMatch(i, p, m)
        PROVE  IntentsFinal /\ MatchesFinal
    BY <2>1, <2>2 DEF InsertMatch, IntentsFinal, MatchesFinal, TypeOK, None
  <2>3. CASE ReservePart(i)
    <3>1. PICK p \in Candidates(i), m \in Matches :
              InsertMatch(i, p, m) /\ partStatus' = [partStatus EXCEPT ![p] = "RESERVED"]
      BY <2>3 DEF ReservePart
    <3>2. p \in Parts /\ partStatus[p] = "OPEN"
      BY DEF Candidates
    <3>3. PartsFinal
      <4>1. \A x \in Parts : partStatus'[x] = IF x = p THEN "RESERVED" ELSE partStatus[x]
        BY <3>1 DEF TypeOK
      <4> QED
        BY <3>2, <4>1, MarketAssumption DEF PartsFinal, PartsAreNew, RequestsStay, None
    <3> QED
      BY <2>2, <3>1, <3>3
  <2>4. CASE ReserveFromAdminAccount(i)
    BY <2>2, <2>4, PartsKept DEF ReserveFromAdminAccount, partVars
  <2>5. CASE QueueIntent(i)
    BY <2>1, <2>5, PartsKept DEF QueueIntent, IntentsFinal, MatchesFinal, partVars, matchVars, TypeOK
  <2> QED
    BY <1>3, <2>3, <2>4, <2>5 DEF ReserveForIntent
<1> QED
  BY <1>1, <1>2, <1>3 DEF IntentStep, MatchNewIntent, MatchingRetry

LEMMA MatchFinal ==
    ASSUME TypeInv, PartsAreNew, NEW m \in Matches, MatchStep(m), RequestsStay
    PROVE  Final
<1> USE DEF TypeInv, Final, None
<1>1. matchPart[m] \in Parts \cup {NoPart}
  BY DEF TypeOK
<1>2. ASSUME UNCHANGED partVars PROVE PartsFinal
  BY <1>2, PartsKept DEF partVars
<1>3. ASSUME UNCHANGED <<partVars, intentVars, matchVars>> PROVE Final
  BY <1>2, <1>3 DEF IntentsFinal, MatchesFinal, intentVars, matchVars
<1>4. CASE AcceptMatch(m)
  BY <1>2, <1>4, MoveIntentFinal, MoveMatchFinal DEF AcceptMatch
<1>5. CASE CancelMatch(m)
  BY <1>1, <1>5, ReleaseFinal, MoveIntentFinal, MoveMatchFinal DEF CancelMatch
<1>6. ASSUME NEW mismatch \in BOOLEAN, SubmitPaymentProof(m, mismatch)
      PROVE  Final
  <2>1. IntentsFinal
    BY <1>6 DEF SubmitPaymentProof, IntentsFinal, IntentMay, IntentTable, TypeOK
  <2>2. MatchesFinal
    BY <1>6 DEF SubmitPaymentProof, MatchesFinal, HeldMatch, TypeOK
  <2>3. PartsFinal
    <3>1. CASE UNCHANGED partStatus
      BY <3>1, PartsKept
    <3>2. CASE /\ matchPart[m] \in Parts
               /\ PartMay(partStatus[matchPart[m]], "PAID_PENDING")
               /\ partStatus' = [partStatus EXCEPT ![matchPart[m]] = "PAID_PENDING"]
      <4> DEFINE p == matchPart[m]
      <4>1. partStatus[p] \notin {"CONFIRMED", None}
        BY <3>2, NoneStays DEF PartMay, PartTable
      <4>2. partStatus'[p] = "PAID_PENDING" /\ p \in Parts
            /\ \A q \in Parts : q # p => partStatus'[q] = partStatus[q]
        BY <3>2 DEF TypeOK
      <4>3. \A q \in Parts : RequestOf[q] \in Requests
        BY MarketAssumption
      <4> QED
        BY <4>1, <4>2, <4>3 DEF PartsFinal, PartsAreNew, RequestsStay
    <3> QED
      BY <1>1, <1>6, <3>1, <3>2 DEF SubmitPaymentProof
  <2> QED
    BY <2>1, <2>2, <2>3
<1>7. CASE ConfirmPayment(m)
  BY <1>7, SettleFinal DEF ConfirmPayment
<1>8. CASE RejectPayment(m)
  BY <1>2, <1>8, MoveIntentFinal, MoveMatchFinal DEF RejectPayment
<1>9. ASSUME OpenEscalation(m)
      PROVE  Final
  BY <1>2, <1>9, MoveIntentFinal, MoveMatchFinal DEF OpenEscalation
<1>10. CASE EscalateOwed(m)
  BY <1>3, <1>9, <1>10 DEF EscalateOwed
<1>11. ASSUME NEW d \in Resolutions, Resolve(m, d)
       PROVE  Final
  BY <1>11, DecideFinal DEF Resolve
<1>12. CASE ReservationExpiry(m)
  BY <1>1, <1>2, <1>12, ReleaseFinal, MoveIntentFinal, MoveMatchFinal DEF ReservationExpiry
<1>13. CASE WithdrawerResponseTimeout(m)
  BY <1>2, <1>13, MoveIntentFinal, MoveMatchFinal DEF WithdrawerResponseTimeout
<1>14. CASE Assign(m) \/ LoseOpen(m)
  BY <1>3, <1>14 DEF Assign, LoseOpen
<1> QED
  BY <1>4, <1>5, <1>6, <1>7, <1>8, <1>9, <1>10, <1>11, <1>12, <1>13, <1>14
     DEF MatchStep, EscalateByAdmin, SettlementTimeout

LEMMA StepFinal ==
    ASSUME TypeInv, PartsAreNew, [Next]_vars
    PROVE  Final
<1>1. RequestsStay
  BY StepWallets
<1>2. CASE Next
  BY <1>1, <1>2, RequestFinal, IntentFinal, MatchFinal DEF Next
<1>3. CASE UNCHANGED vars
  BY <1>1, <1>3, PartsKept DEF Final, IntentsFinal, MatchesFinal, TypeInv, vars, partVars, matchVars, intentVars
<1> QED
  BY <1>2, <1>3

(* What a confirmed match credited stands.                                 *)
CreditsStand ==
    \A m \in Matches : matchStatus[m] = "CONFIRMED" =>
        /\ intentState[matchIntent[m]] = "CONFIRMED"
        /\ depositRow[matchIntent[m]] = "COMPLETED"

LEMMA FinalSettles ==
    ASSUME TypeInv, CreditsStand, Final
    PROVE  CreditsStand' /\ SettledStep
<1>1. \A m \in Matches : matchStatus[m] = "CONFIRMED" => matchIntent[m] \in Intents
  BY DEF TypeInv, RowsAreLinked, None
<1>2. CreditsStand'
  BY <1>1 DEF Final, MatchesFinal, IntentsFinal, CreditsStand, None
<1>3. SettledStep
  BY <1>1 DEF Final, MatchesFinal, IntentsFinal, PartsFinal, CreditsStand, SettledStep
<1> QED
  BY <1>2, <1>3

(* Nothing that was settled is touched again, late cancellations or not.   *)
THEOREM SettledForGood == Spec => SettledIsFinal
<1> DEFINE Inv == TypeInv /\ PartsAreNew /\ CreditsStand
<1>1. Init => Inv
  BY TypeInit DEF Init, PartsAreNew, CreditsStand, None
<1>2. Inv /\ [Next]_vars => Inv' /\ SettledStep
  BY TypeStep, StepFinal, FinalSettles DEF Final, PartsFinal
<1>3. Inv /\ [Next]_vars => [SettledStep]_vars
  BY <1>2
<1>4. Spec => []Inv
  <2> HIDE DEF Inv
  <2> QED
    BY <1>1, <1>2, PTL DEF Spec
<1> HIDE DEF Inv
<1> QED
  BY <1>3, <1>4, PTL DEF Spec, SettledIsFinal

-----------------------------------------------------------------------------
(* An intent and its match.  A match that is dropped leaves its intent to  *)
(* a decision or MATCHING, which nothing matches again: an intent never    *)
(* has a second match, and only new intents wait for a first.              *)

Follows(match, intent) ==
    \/ InStep(match, intent)
    \/ /\ match \in {"RESERVATION_EXPIRED", "CANCELLED"}
       /\ intent \in {"MATCHING", "REJECTED", "CANCELLED"}

Paired ==
    /\ \A m \in Matches : matchStatus[m] # None =>
        Follows(matchStatus[m], intentState[matchIntent[m]])
    /\ \A m, n \in Matches :
        matchStatus[m] # None /\ matchStatus[n] # None /\ matchIntent[m] = matchIntent[n]
        => m = n
    /\ \A i \in owedMatching : intentState[i] = "CREATED"

PastTheCase == {"ESCALATED", "CONFIRMED", "CANCELLED"}

(* Match and intent move to states that go together, or stay; what was     *)
(* escalated can only be decided.                                          *)
Walks(m) ==
    /\ UNCHANGED matchIntent
    /\ \/ UNCHANGED <<matchStatus, intentState>>
       \/ /\ matchStatus[m] # None
          /\ \E s, t :
                /\ Follows(s, t)
                /\ matchStatus' = [matchStatus EXCEPT ![m] = s]
                /\ intentState' = [intentState EXCEPT ![matchIntent[m]] = t]
                /\ matchStatus[m] \in PastTheCase => s \in PastTheCase

LEMMA FollowsFacts ==
    ASSUME NEW s, NEW t, Follows(s, t)
    PROVE  /\ s # None
           /\ t \notin {"CREATED", "NO_MATCH", None}
           /\ t \in {"ESCALATED_TO_ADMIN", "MORE_INFO_REQUESTED"} => s = "ESCALATED"
BY DEF Follows, InStep, None

LEMMA WalksPaired ==
    ASSUME TypeInv, Paired, NEW m \in Matches, Walks(m), UNCHANGED owedMatching
    PROVE  Paired'
<1>1. CASE UNCHANGED <<matchStatus, intentState>>
  BY <1>1 DEF Walks, Paired
<1>2. ASSUME matchStatus[m] # None, NEW s, NEW t, Follows(s, t),
             matchStatus' = [matchStatus EXCEPT ![m] = s],
             intentState' = [intentState EXCEPT ![matchIntent[m]] = t]
      PROVE  Paired'
  <2> DEFINE i == matchIntent[m]
  <2>1. UNCHANGED matchIntent /\ i \in Intents /\ s # None
    BY <1>2, FollowsFacts DEF Walks, TypeInv, RowsAreLinked
  <2>2. \A n \in Matches : matchStatus'[n] # None => matchStatus[n] # None
    BY <1>2 DEF TypeInv, TypeOK
  <2>3. \A n \in Matches : matchStatus[n] # None /\ matchIntent[n] = i => n = m
    BY <1>2 DEF Paired
  <2>4. matchStatus'[m] = s /\ intentState'[i] = t
    BY <1>2, <2>1 DEF TypeInv, TypeOK
  <2>5. ASSUME NEW n \in Matches, matchStatus'[n] # None
        PROVE  Follows(matchStatus[n], intentState[matchIntent[n]])'
    <3>1. CASE n = m
      BY <1>2, <2>1, <2>4, <3>1
    <3>2. CASE n # m
      <4>1. matchIntent[n] \in Intents /\ matchIntent[n] # i
        BY <2>2, <2>3, <2>5, <3>2 DEF TypeInv, RowsAreLinked
      <4>2. matchStatus'[n] = matchStatus[n] /\ intentState'[matchIntent[n]] = intentState[matchIntent[n]]
        BY <1>2, <3>2, <4>1 DEF TypeInv, TypeOK
      <4>3. Follows(matchStatus[n], intentState[matchIntent[n]])
        BY <2>2, <2>5 DEF Paired
      <4> QED
        BY <2>1, <4>2, <4>3
    <3> QED
      BY <3>1, <3>2
  <2>6. i \notin owedMatching
    BY <1>2, FollowsFacts DEF Paired
  <2>7. \A j \in owedMatching' : intentState'[j] = "CREATED"
    BY <1>2, <2>6 DEF Paired, TypeInv, TypeOK
  <2> QED
    BY <2>1, <2>2, <2>5, <2>7 DEF Paired
<1> QED
  BY <1>1, <1>2 DEF Walks

(* MoveMatch and MoveIntent together.                                      *)
LEMMA BothWalk ==
    ASSUME NEW m \in Matches, matchStatus[m] # None, NEW s, NEW t, Follows(s, t),
           MoveMatch(m, s), MoveIntent(matchIntent[m], t)
    PROVE  Walks(m)
BY DEF MoveMatch, MoveIntent, MatchMay, MatchTable, Walks, PastTheCase

LEMMA SettleWalks ==
    ASSUME NEW m \in Matches, Settle(m)
    PROVE  Walks(m)
<1>1. CASE matchStatus[m] = "CONFIRMED"
  BY <1>1 DEF Settle, Walks, intentVars, matchVars
<1>2. CASE matchStatus[m] # "CONFIRMED"
  <2>1. MoveMatch(m, "CONFIRMED") /\ MoveIntent(matchIntent[m], "CONFIRMED")
    BY <1>2 DEF Settle
  <2>2. matchStatus[m] # None
    BY <2>1, NoneStays DEF MoveMatch, None
  <2> QED
    BY <2>1, <2>2, BothWalk DEF Follows, InStep
<1> QED
  BY <1>1, <1>2

(* An intent that may ask for more evidence belongs to an escalated match. *)
LEMMA MoreEvidenceWalks ==
    ASSUME TypeInv, Paired, NEW m \in Matches, matchStatus[m] # None,
           MoveIntent(matchIntent[m], "MORE_INFO_REQUESTED"), UNCHANGED matchVars
    PROVE  Walks(m)
<1>1. matchStatus[m] = "ESCALATED"
  <2>1. intentState[matchIntent[m]] \in {"ESCALATED_TO_ADMIN", "MORE_INFO_REQUESTED"}
    BY DEF MoveIntent, IntentMay, IntentTable
  <2> QED
    BY <2>1, FollowsFacts DEF Paired
<1>2. matchStatus' = [matchStatus EXCEPT ![m] = "ESCALATED"] /\ UNCHANGED matchIntent
  BY <1>1 DEF matchVars, TypeInv, TypeOK
<1>3. Follows("ESCALATED", "MORE_INFO_REQUESTED")
  BY DEF Follows, InStep
<1> QED
  BY <1>1, <1>2, <1>3 DEF MoveIntent, Walks, PastTheCase

LEMMA DecideWalks ==
    ASSUME TypeInv, Paired, NEW m \in Matches, matchStatus[m] # None,
           NEW d \in Resolutions, Decide(m, d)
    PROVE  Walks(m)
<1>1. ASSUME NEW s \in {"REJECTED", "CANCELLED"}, FailIntent(m, s)
      PROVE  Walks(m)
  BY <1>1, BothWalk DEF FailIntent, Follows
<1>2. CASE d = "CONFIRM_PAYMENT"
  BY <1>2, SettleWalks DEF Decide
<1>3. CASE d \in {"SETTLE_FROM_ADMIN", "REJECT_PAYMENT", "CANCEL_REQUEST"}
  BY <1>1, <1>3 DEF Decide
<1>4. CASE d = "REOPEN_MATCHING"
  BY <1>4, BothWalk DEF Decide, Follows
<1>5. CASE d = "REQUEST_MORE_EVIDENCE"
  BY <1>5, MoreEvidenceWalks DEF Decide
<1> QED
  BY <1>2, <1>3, <1>4, <1>5 DEF Resolutions

LEMMA MatchWalks ==
    ASSUME TypeInv, Paired, NEW m \in Matches, MatchStep(m),
           caseState[m] # None => matchStatus[m] # None
    PROVE  Walks(m) /\ UNCHANGED owedMatching
<1> USE DEF Follows, InStep
<1>1. UNCHANGED owedMatching
  BY DEF MatchStep, AcceptMatch, CancelMatch, SubmitPaymentProof, ConfirmPayment,
         RejectPayment, OpenEscalation, EscalateOwed, EscalateByAdmin, Resolve, Assign,
         LoseOpen, ReservationExpiry, WithdrawerResponseTimeout, SettlementTimeout, owedVars
<1> SUFFICES Walks(m)
  BY <1>1
<1>2. ASSUME UNCHANGED <<intentVars, matchVars>> PROVE Walks(m)
  BY <1>2 DEF Walks, intentVars, matchVars
<1>3. CASE AcceptMatch(m)
  BY <1>3, BothWalk DEF AcceptMatch, None
<1>4. CASE CancelMatch(m)
  BY <1>4, BothWalk DEF CancelMatch
<1>5. ASSUME NEW mismatch \in BOOLEAN, SubmitPaymentProof(m, mismatch)
      PROVE  Walks(m)
  BY <1>5 DEF SubmitPaymentProof, Walks, HeldMatch, PastTheCase, None
<1>6. CASE ConfirmPayment(m)
  BY <1>6, SettleWalks DEF ConfirmPayment
<1>7. CASE RejectPayment(m)
  BY <1>7, BothWalk DEF RejectPayment, None
<1>8. ASSUME OpenEscalation(m)
      PROVE  Walks(m)
  BY <1>8, BothWalk DEF OpenEscalation, MayOpen
<1>9. CASE EscalateOwed(m)
  BY <1>2, <1>8, <1>9 DEF EscalateOwed
<1>10. ASSUME NEW d \in Resolutions, Resolve(m, d)
       PROVE  Walks(m)
  BY <1>10, DecideWalks DEF Resolve, OpenCase, None
<1>11. CASE ReservationExpiry(m)
  BY <1>11, BothWalk DEF ReservationExpiry, HeldMatch, None
<1>12. CASE WithdrawerResponseTimeout(m)
  BY <1>12, BothWalk DEF WithdrawerResponseTimeout, None
<1>13. CASE Assign(m) \/ LoseOpen(m)
  BY <1>2, <1>13 DEF Assign, LoseOpen
<1> QED
  BY <1>3, <1>4, <1>5, <1>6, <1>7, <1>8, <1>9, <1>10, <1>11, <1>12, <1>13
     DEF MatchStep, EscalateByAdmin, SettlementTimeout

LEMMA IntentPairs ==
    ASSUME TypeInv, Paired, NEW i \in Intents, IntentStep(i)
    PROVE  Paired'
<1> USE DEF TypeInv, TypeOK, None
<1>1. CASE CreateForDeposit(i)
  <2>1. /\ intentState[i] = None
        /\ intentState' = [intentState EXCEPT ![i] = "CREATED"]
        /\ owedMatching' = owedMatching \cup {i}
        /\ UNCHANGED <<matchStatus, matchIntent>>
    BY <1>1 DEF CreateForDeposit, matchVars
  <2>2. \A m \in Matches : matchStatus[m] # None =>
            matchIntent[m] \in Intents /\ matchIntent[m] # i
    BY <2>1, FollowsFacts DEF Paired, RowsAreLinked
  <2>3. \A m \in Matches : matchStatus[m] # None =>
            intentState'[matchIntent[m]] = intentState[matchIntent[m]]
    BY <2>1, <2>2
  <2>4. \A j \in owedMatching' : intentState'[j] = "CREATED"
    BY <2>1 DEF Paired
  <2> QED
    BY <2>1, <2>3, <2>4 DEF Paired
<1>2. CASE LoseMatching(i)
  BY <1>2 DEF LoseMatching, Paired, intentVars, matchVars
<1>3. CASE MatchNewIntent(i) \/ MatchingRetry(i)
  <2>1. /\ intentState[i] \in {"CREATED", "NO_MATCH"}
        /\ ReserveForIntent(i)
        /\ owedMatching' \subseteq owedMatching \ {i}
    BY <1>3 DEF MatchNewIntent, MatchingRetry, Paired
  <2>2. \A m \in Matches : matchStatus[m] # None =>
            matchIntent[m] \in Intents /\ matchIntent[m] # i
    BY <2>1, FollowsFacts DEF Paired, RowsAreLinked
  <2>3. ASSUME NEW s, intentState' = [intentState EXCEPT ![i] = s]
        PROVE  /\ \A m \in Matches : matchStatus[m] # None =>
                    intentState'[matchIntent[m]] = intentState[matchIntent[m]]
               /\ \A j \in owedMatching' : intentState'[j] = "CREATED"
    BY <2>1, <2>2, <2>3 DEF Paired
  <2>4. CASE QueueIntent(i)
    <3>1. intentState' = [intentState EXCEPT ![i] = "NO_MATCH"] /\ UNCHANGED <<matchStatus, matchIntent>>
      BY <2>4 DEF QueueIntent, matchVars
    <3>2. /\ \A m \in Matches : matchStatus[m] # None =>
                intentState'[matchIntent[m]] = intentState[matchIntent[m]]
          /\ \A j \in owedMatching' : intentState'[j] = "CREATED"
      BY <2>3, <3>1
    <3>3. \A m \in Matches : matchStatus'[m] # None =>
            Follows(matchStatus'[m], intentState'[matchIntent'[m]])
      BY <3>1, <3>2 DEF Paired
    <3> QED
      BY <3>1, <3>2, <3>3 DEF Paired
  <2>5. ASSUME NEW m \in Matches, NEW p, InsertMatch(i, p, m)
        PROVE  Paired'
    <3>1. /\ matchStatus[m] = None
          /\ matchStatus' = [matchStatus EXCEPT ![m] = "RESERVED"]
          /\ matchIntent' = [matchIntent EXCEPT ![m] = i]
          /\ intentState' = [intentState EXCEPT ![i] = "RESERVED"]
      BY <2>5 DEF InsertMatch
    <3>2. matchStatus'[m] = "RESERVED" /\ matchIntent'[m] = i /\ intentState'[i] = "RESERVED"
      BY <3>1
    <3>3. \A n \in Matches \ {m} :
              matchStatus'[n] = matchStatus[n] /\ matchIntent'[n] = matchIntent[n]
      BY <3>1
    <3>4. \A n \in Matches : matchStatus'[n] # None =>
              Follows(matchStatus'[n], intentState'[matchIntent'[n]])
      <4>1. Follows("RESERVED", "RESERVED")
        BY DEF Follows, InStep
      <4>2. \A n \in Matches \ {m} : matchStatus[n] # None =>
                /\ Follows(matchStatus[n], intentState[matchIntent[n]])
                /\ intentState'[matchIntent[n]] = intentState[matchIntent[n]]
        BY <2>3, <3>1 DEF Paired
      <4>3. \A n \in Matches \ {m} : matchStatus'[n] # None =>
                Follows(matchStatus'[n], intentState'[matchIntent'[n]])
        BY ONLY <3>3, <4>2
      <4> QED
        BY <3>2, <4>1, <4>3
    <3>5. \A k, n \in Matches :
              matchStatus'[k] # None /\ matchStatus'[n] # None /\ matchIntent'[k] = matchIntent'[n]
              => k = n
      BY <2>2, <3>2, <3>3 DEF Paired
    <3> QED
      BY <2>3, <3>1, <3>4, <3>5 DEF Paired
  <2> QED
    BY <2>1, <2>4, <2>5 DEF ReserveForIntent, ReservePart, ReserveFromAdminAccount
<1> QED
  BY <1>1, <1>2, <1>3 DEF IntentStep

(* A case is about a match that exists.                                    *)
CasesAreNamed == \A m \in Matches : caseState[m] # None => matchStatus[m] # None

PairInv == TypeInv /\ PartsAreNew /\ CasesAreNamed /\ Paired

LEMMA CasesNamedStep ==
    ASSUME TypeInv, CasesAreNamed, MatchesFinal,
           \A m \in Matches : caseState[m] = None /\ caseState'[m] # None => matchStatus[m] # None
    PROVE  CasesAreNamed'
BY DEF CasesAreNamed, MatchesFinal

LEMMA NewCases ==
    ASSUME TypeInv, [Next]_vars
    PROVE  \A m \in Matches : caseState[m] = None /\ caseState'[m] # None => matchStatus[m] # None
<1> USE DEF TypeInv, TypeOK
<1>1. ASSUME NEW r \in Requests, RequestStep(r)
      PROVE  UNCHANGED caseState
  BY <1>1 DEF RequestStep, CreateForWithdraw, WindowElapses, Cancel, CloseRequest,
     MoveToAdminSettlement, RequestExpiry
<1>2. ASSUME NEW i \in Intents, IntentStep(i)
      PROVE  UNCHANGED caseState
  BY <1>2 DEF IntentStep, CreateForDeposit, MatchNewIntent, MatchingRetry, LoseMatching,
     ReserveForIntent
<1>3. ASSUME NEW n \in Matches, MatchStep(n)
      PROVE  \/ UNCHANGED caseState
             \/ /\ caseState[n] # None \/ matchStatus[n] # None
                /\ \E c : caseState' = [caseState EXCEPT ![n] = c]
  <2>1. CASE EscalateOwed(n) \/ EscalateByAdmin(n) \/ SettlementTimeout(n)
    BY <2>1 DEF EscalateOwed, EscalateByAdmin, SettlementTimeout, OpenEscalation, MayOpen
  <2>2. CASE Assign(n) \/ \E d \in Resolutions : Resolve(n, d)
    BY <2>2 DEF Assign, Resolve, OpenCase, None
  <2>3. CASE \/ AcceptMatch(n) \/ CancelMatch(n) \/ ConfirmPayment(n) \/ RejectPayment(n)
             \/ \E mismatch \in BOOLEAN : SubmitPaymentProof(n, mismatch)
             \/ ReservationExpiry(n) \/ WithdrawerResponseTimeout(n) \/ LoseOpen(n)
    BY <2>3 DEF AcceptMatch, CancelMatch, ConfirmPayment, RejectPayment, SubmitPaymentProof,
       ReservationExpiry, WithdrawerResponseTimeout, LoseOpen
  <2> QED
    BY <1>3, <2>1, <2>2, <2>3 DEF MatchStep
<1>4. CASE UNCHANGED vars
  BY <1>4 DEF vars
<1> QED
  BY <1>1, <1>2, <1>3, <1>4 DEF Next

LEMMA PairStep ==
    ASSUME PairInv, [Next]_vars
    PROVE  PairInv'
<1> USE DEF PairInv
<1>1. TypeInv' /\ Final
  BY TypeStep, StepFinal
<1>2. CasesAreNamed'
  BY <1>1, NewCases, CasesNamedStep DEF Final
<1>3. ASSUME NEW r \in Requests, RequestStep(r)
      PROVE  Paired'
  BY <1>3 DEF RequestStep, CreateForWithdraw, WindowElapses, Cancel, CloseRequest,
     MoveToAdminSettlement, RequestExpiry, intentVars, matchVars, owedVars, Paired
<1>4. ASSUME NEW m \in Matches, MatchStep(m)
      PROVE  Paired'
  BY <1>4, MatchWalks, WalksPaired DEF CasesAreNamed
<1>5. ASSUME UNCHANGED vars
      PROVE  Paired'
  BY <1>5 DEF vars, intentVars, matchVars, owedVars, Paired
<1>6. Paired'
  BY <1>3, <1>4, <1>5, IntentPairs DEF Next
<1> QED
  BY <1>1, <1>2, <1>6 DEF Final, PartsFinal

LEMMA PairInit == Init => PairInv
BY TypeInit DEF Init, PairInv, PartsAreNew, CasesAreNamed, Paired, None

LEMMA PairsFollow == PairInv => IntentFollowsMatch
<1> SUFFICES ASSUME PairInv PROVE IntentFollowsMatch
  OBVIOUS
<1>1. \A m \in Matches : matchStatus[m] \in TakenMatch => matchStatus[m] # None
  BY DEF TakenMatch, LiveMatch, HeldMatch, PaidMatch, None
<1>2. ASSUME NEW m \in Matches, matchStatus[m] \in TakenMatch
      PROVE  /\ matchIntent[m] \in Intents
             /\ InStep(matchStatus[m], intentState[matchIntent[m]])
  <2>1. matchStatus[m] # None /\ matchStatus[m] \notin {"RESERVATION_EXPIRED", "CANCELLED"}
    BY <1>2 DEF TakenMatch, LiveMatch, HeldMatch, PaidMatch, None
  <2> QED
    BY <2>1 DEF PairInv, TypeInv, RowsAreLinked, Paired, Follows
<1> QED
  BY <1>1, <1>2 DEF IntentFollowsMatch, PairInv, Paired

(* An intent and its match walk in step and one deposit is credited at     *)
(* most once, late cancellations or not.                                   *)
THEOREM IntentsFollow == Spec => []IntentFollowsMatch
<1>1. Spec => []PairInv
  BY PairInit, PairStep, PTL DEF Spec
<1> QED
  BY <1>1, PairsFollow, PTL

-----------------------------------------------------------------------------
(* Payments, while nobody cancels late, and credits.                       *)

(* A request's or an intent's step leaves matches and confirmed parts as   *)
(* they are.                                                               *)
Undisturbed ==
    /\ \A m \in Matches : matchStatus[m] # None =>
        /\ matchStatus'[m] = matchStatus[m]
        /\ matchIntent'[m] = matchIntent[m]
    /\ \A p \in Parts : partStatus[p] = "CONFIRMED" => partStatus'[p] = "CONFIRMED"

LEMMA RequestLeaves ==
    ASSUME RowsInv, NEW r \in Requests, RequestStep(r)
    PROVE  Undisturbed
<1> USE MarketAssumption DEF RowsInv, TypeOK, Undisturbed
<1>1. UNCHANGED <<matchStatus, matchIntent, depositRow>>
  BY DEF RequestStep, CreateForWithdraw, WindowElapses, Cancel, CloseRequest,
         MoveToAdminSettlement, RequestExpiry, intentVars, matchVars
<1>2. CASE CreateForWithdraw(r)
  BY <1>1, <1>2 DEF CreateForWithdraw, PartsAreNew, None
<1>3. ASSUME NEW s, CloseRequest(r, s)
      PROVE  Undisturbed
  BY <1>1, <1>3 DEF CloseRequest
<1>4. CASE WindowElapses(r) \/ MoveToAdminSettlement(r)
  BY <1>1, <1>4 DEF WindowElapses, MoveToAdminSettlement, partVars
<1> QED
  BY <1>2, <1>3, <1>4 DEF RequestStep, Cancel, RequestExpiry

LEMMA IntentLeaves ==
    ASSUME RowsInv, NEW i \in Intents, IntentStep(i)
    PROVE  Undisturbed
<1> USE DEF RowsInv, TypeOK, Undisturbed, matchVars, partVars, intentVars
<1>1. CASE CreateForDeposit(i)
  BY <1>1 DEF CreateForDeposit
<1>2. CASE LoseMatching(i)
  BY <1>2 DEF LoseMatching
<1>3. ASSUME ReserveForIntent(i)
      PROVE  Undisturbed
  <2>1. UNCHANGED depositRow
    BY <1>3 DEF ReserveForIntent
  <2>2. CASE ReservePart(i)
    BY <2>1, <2>2 DEF ReservePart, InsertMatch, Candidates, None
  <2>3. CASE ReserveFromAdminAccount(i)
    BY <2>1, <2>3 DEF ReserveFromAdminAccount, InsertMatch, None
  <2>4. CASE QueueIntent(i)
    BY <2>1, <2>4 DEF QueueIntent
  <2> QED
    BY <1>3, <2>2, <2>3, <2>4 DEF ReserveForIntent
<1> QED
  BY <1>1, <1>2, <1>3 DEF IntentStep, MatchNewIntent, MatchingRetry

LEMMA MoveLeaves ==
    ASSUME RowsInv, NEW m \in Matches, MatchMove(m)
    PROVE  /\ \A n \in Matches \ {m} : matchStatus'[n] = matchStatus[n]
           /\ UNCHANGED matchIntent
           /\ matchStatus[m] = "CONFIRMED" => matchStatus'[m] = "CONFIRMED"
           /\ \A p \in Parts : partStatus[p] = "CONFIRMED" => partStatus'[p] = "CONFIRMED"
<1> USE DEF RowsInv, TypeOK, partVars, matchVars, MoveMatch, MatchMay, MatchTable
<1>1. ASSUME NEW s, NEW t, Advances(m, s, t)
      PROVE  /\ UNCHANGED <<matchIntent, partStatus>>
             /\ matchStatus' = [matchStatus EXCEPT ![m] = s]
             /\ matchStatus[m] # "CONFIRMED"
  BY <1>1 DEF Advances, HeldMatch, PaidMatch
<1>2. ASSUME Submits(m)
      PROVE  /\ UNCHANGED matchIntent
             /\ \A n \in Matches \ {m} : matchStatus'[n] = matchStatus[n]
             /\ matchStatus[m] # "CONFIRMED"
             /\ \A p \in Parts : partStatus[p] = "CONFIRMED" => partStatus'[p] = "CONFIRMED"
  BY <1>2 DEF Submits, SubmitPaymentProof, HeldMatch, ReservationIsExclusive
<1>3. ASSUME NEW s, NEW t, NEW u, Drops(m, s, t, u)
      PROVE  /\ UNCHANGED matchIntent
             /\ matchStatus' = [matchStatus EXCEPT ![m] = t]
             /\ matchStatus[m] # "CONFIRMED"
             /\ \A p \in Parts : partStatus[p] = "CONFIRMED" => partStatus'[p] = "CONFIRMED"
  <2>1. /\ matchStatus[m] \in HeldMatch \cup PaidMatch
        /\ matchStatus[m] # "CONFIRMED"
        /\ UNCHANGED matchIntent
        /\ matchStatus' = [matchStatus EXCEPT ![m] = t]
    BY <1>3 DEF Drops, HeldMatch, PaidMatch
  <2>2. matchPart[m] # NoPart => partStatus[matchPart[m]] # "CONFIRMED"
    BY <2>1 DEF ReservationIsExclusive
  <2>3. \A p \in Parts : p # matchPart[m] => partStatus'[p] = partStatus[p]
    BY <1>3 DEF Drops, AdvancePart
  <2> QED
    BY <2>1, <2>2, <2>3, MarketAssumption
<1>4. ASSUME Confirms(m)
      PROVE  /\ UNCHANGED matchIntent
             /\ matchStatus' = [matchStatus EXCEPT ![m] = "CONFIRMED"]
             /\ \A p \in Parts : partStatus[p] = "CONFIRMED" => partStatus'[p] = "CONFIRMED"
  <2>1. /\ UNCHANGED matchIntent
        /\ matchStatus' = [matchStatus EXCEPT ![m] = "CONFIRMED"]
    BY <1>4 DEF Confirms
  <2>2. \/ UNCHANGED partStatus
        \/ partStatus' = [partStatus EXCEPT ![matchPart[m]] = "CONFIRMED"]
    BY <1>4 DEF Confirms, AdvancePart
  <2> QED
    BY <2>1, <2>2
<1>5. ASSUME Attends(m) \/ Idles
      PROVE  UNCHANGED <<matchStatus, matchIntent, partStatus>>
  BY <1>5 DEF Attends, Idles
<1> QED
  BY <1>1, <1>2, <1>3, <1>4, <1>5 DEF MatchMove

LEMMA PaymentSteps ==
    ASSUME ~LateCancel, RowsInv, [Next]_vars
    PROVE  PaymentStep
<1> USE DEF PaymentStep
<1>1. ASSUME Undisturbed
      PROVE  PaymentStep
  BY <1>1 DEF Undisturbed, PaidMatch, TakenMatch, LiveMatch, None
<1>2. ASSUME NEW m \in Matches, MatchStep(m)
      PROVE  PaymentStep
  <2>1. MatchMove(m)
    BY <1>2, MatchMoves
  <2>2. ASSUME matchStatus[m] \in PaidMatch, matchStatus'[m] \notin TakenMatch
        PROVE  caseState[m] \in OpenCase /\ caseState'[m] = "RESOLVED"
    <3>1. \E s, t, u : Drops(m, s, t, u)
      BY <2>1, <2>2
         DEF MatchMove, Advances, Submits, SubmitPaymentProof, Confirms, Attends,
             Idles, MoveMatch, RowsInv, TypeOK, TakenMatch, LiveMatch, matchVars,
             HeldMatch, PaidMatch
    <3>2. matchStatus[m] = "ESCALATED" /\ caseState' = [caseState EXCEPT ![m] = "RESOLVED"]
      BY <2>2, <3>1 DEF Drops, HeldMatch, PaidMatch
    <3> QED
      BY <3>2 DEF RowsInv, TypeOK, CaseFollowsMatch
  <2>3. \A n \in Matches \ {m} : matchStatus'[n] = matchStatus[n]
    BY <2>1, MoveLeaves
  <2> QED
    BY <2>2, <2>3 DEF TakenMatch, LiveMatch
<1>3. CASE UNCHANGED vars
  BY <1>3 DEF vars, matchVars, TakenMatch, LiveMatch
<1> QED
  BY <1>1, <1>2, <1>3, RequestLeaves, IntentLeaves DEF Next

(* Once a depositor has paid, only a decision on the case drops the match. *)
THEOREM PaymentsAreKept ==
    ASSUME ~LateCancel
    PROVE  Spec => PaymentLeavesByDecision
<1>1. RowsInv /\ [Next]_vars => [PaymentStep]_vars
  BY PaymentSteps
<1> QED
  BY <1>1, RowsAlwaysAgree, PTL DEF Spec, PaymentLeavesByDecision

LEMMA SettleCredits ==
    ASSUME TypeOK, NEW m \in Matches, Settle(m), NEW i \in Intents,
           depositRow[i] # "COMPLETED", depositRow'[i] = "COMPLETED"
    PROVE  matchIntent[m] = i /\ matchStatus'[m] = "CONFIRMED"
<1>1. matchStatus[m] # "CONFIRMED"
  BY DEF Settle, intentVars
<1>2. /\ MoveMatch(m, "CONFIRMED")
      /\ depositRow' = [depositRow EXCEPT ![matchIntent[m]] = "COMPLETED"]
  BY <1>1 DEF Settle
<1> QED
  BY <1>2 DEF MoveMatch, TypeOK

(* Only an answer and a decision write COMPLETED; the others write another *)
(* value or nothing.                                                       *)
LEMMA CreditSteps ==
    ASSUME TypeOK, [Next]_vars
    PROVE  CreditStep
<1> USE DEF TypeOK
<1> SUFFICES ASSUME NEW i \in Intents,
                    depositRow[i] # "COMPLETED", depositRow'[i] = "COMPLETED"
             PROVE  \E m \in Matches :
                /\ matchIntent[m] = i
                /\ matchStatus'[m] = "CONFIRMED"
                /\ \/ matchStatus[m] = "WAITING_CONFIRMATION" /\ matchPart[m] # NoPart
                   \/ caseState[m] \in OpenCase /\ caseState'[m] = "RESOLVED"
  BY DEF CreditStep
<1>1. depositRow' # depositRow
  OBVIOUS
<1>2. \A r \in Requests : ~RequestStep(r)
  BY <1>1, RequestDeposits
<1>3. ASSUME NEW j \in Intents, IntentStep(j)
      PROVE  FALSE
  <2>1. CreateForDeposit(j)
    BY <1>1, <1>3 DEF IntentStep, LoseMatching, MatchNewIntent, MatchingRetry,
                      ReserveForIntent, intentVars
  <2> QED
    BY <2>1 DEF CreateForDeposit
<1>4. PICK m \in Matches : MatchStep(m)
  BY <1>1, <1>2, <1>3 DEF Next, vars, intentVars
<1>5. CASE ConfirmPayment(m)
  BY <1>5, SettleCredits DEF ConfirmPayment
<1>6. ASSUME NEW d \in Resolutions, Resolve(m, d)
      PROVE  /\ matchIntent[m] = i
             /\ matchStatus'[m] = "CONFIRMED"
             /\ caseState[m] \in OpenCase
             /\ caseState'[m] = "RESOLVED"
  <2>1. d = "CONFIRM_PAYMENT" /\ Settle(m)
    BY <1>6 DEF Resolve, Decide, FailIntent
  <2> QED
    BY <1>6, <2>1, SettleCredits DEF Resolve
<1>7. ConfirmPayment(m) \/ \E d \in Resolutions : Resolve(m, d)
  <2>1. ~(\E mismatch \in BOOLEAN : SubmitPaymentProof(m, mismatch))
    BY DEF SubmitPaymentProof
  <2>2. ~OpenEscalation(m)
    BY DEF OpenEscalation
  <2> QED
    BY <1>1, <1>4, <2>1, <2>2
       DEF MatchStep, AcceptMatch, CancelMatch, RejectPayment, EscalateOwed,
           EscalateByAdmin, Assign, ReservationExpiry, SettlementTimeout,
           WithdrawerResponseTimeout, LoseOpen, intentVars
<1> QED
  BY <1>5, <1>6, <1>7

(* A deposit is credited by an answer, never by silence, late              *)
(* cancellations or not.                                                   *)
THEOREM CreditsAreAnswered == Spec => CreditNeedsAnAnswer
<1>1. TypeOK /\ [Next]_vars => [CreditStep]_vars
  BY CreditSteps
<1> QED
  BY <1>1, TypeCorrect, PTL DEF Spec, CreditNeedsAnAnswer

-----------------------------------------------------------------------------
(* The handlers that write what they had read.                             *)

(* What the interrupted handlers remember: a match they found exists, and  *)
(* a part they found open is not confirmed while they hold its request.    *)
RaceReads ==
    /\ openSeen \in [Matches -> MatchStates \cup {None}]
    /\ secondCase \in [Matches -> CaseStates \cup {None}]
    /\ resolveSeen \in [Matches -> CaseStates \cup {None}]
    /\ stuckSeen \in [Requests -> SUBSET [locked : Int, completed : Int]]
    /\ \A r \in Requests : stuckSeen[r] = {} \/ \E x : stuckSeen[r] = {x}
    /\ cancelSeen \in [Requests -> SUBSET SUBSET Parts]
    /\ \A m \in Matches : openSeen[m] # None => matchStatus[m] # None
    /\ \A r \in Requests : \A S \in cancelSeen[r] :
        /\ S \subseteq PartsOf(r)
        /\ \A p \in S : partStatus[p] # "CONFIRMED"

RaceInv == TypeInv /\ PartsAreNew /\ CreditsStand /\ RaceReads

Fine == TypeInv' /\ Final /\ RaceReads'

(* The parts a cancel has found stay as they were while it holds the       *)
(* request: confirming one would change the request's books.               *)
LEMMA CancelReads ==
    ASSUME RaceInv, Final, LockedRequestsStay \/ UNCHANGED partStatus,
           NEW r \in Requests, NEW S \in cancelSeen[r]
    PROVE  S \subseteq PartsOf(r) /\ \A p \in S : partStatus'[p] # "CONFIRMED"
<1>1. S \subseteq PartsOf(r) /\ \A p \in S : partStatus[p] # "CONFIRMED"
  BY DEF RaceInv, RaceReads
<1>2. ASSUME NEW p \in S, partStatus'[p] = "CONFIRMED" PROVE FALSE
  <2>1. p \in Parts /\ RequestOf[p] = r /\ partStatus[p] # "CONFIRMED"
    BY <1>1 DEF PartsOf
  <2>2. reqCompleted'[r] = reqCompleted[r] + Target[p]
    BY <1>2, <2>1 DEF Final, PartsFinal
  <2>3. reqCompleted'[r] = reqCompleted[r]
    BY <1>2, <2>1 DEF LockedRequestsStay
  <2>4. Target[p] \in Nat \ {0} /\ reqCompleted[r] \in Int
    BY <2>1, MarketAssumption DEF RaceInv, TypeInv, TypeOK
  <2> QED
    BY <2>2, <2>3, <2>4
<1> QED
  BY <1>1, <1>2

LEMMA ReadsKept ==
    ASSUME RaceInv, Final, LockedRequestsStay \/ UNCHANGED partStatus, UNCHANGED raceVars
    PROVE  RaceReads'
<1>1. \A m \in Matches : openSeen[m] # None => matchStatus'[m] # None
  BY DEF RaceInv, RaceReads, Final, MatchesFinal
<1> QED
  BY <1>1, CancelReads DEF RaceInv, RaceReads, raceVars

LEMMA UndisturbedReads ==
    ASSUME RaceInv, UNCHANGED vars
    PROVE  TypeInv' /\ Final
BY StepFinal, TypeStep DEF RaceInv

LEMMA OpenRaces ==
    ASSUME RaceInv, NEW m \in Matches, ReadForOpen(m) \/ WriteOpen(m)
    PROVE  Fine
<1> USE DEF RaceInv
<1>1. CASE ReadForOpen(m)
  <2>1. TypeInv' /\ Final /\ UNCHANGED <<matchStatus, partStatus>>
    BY <1>1, UndisturbedReads DEF ReadForOpen, vars, matchVars, partVars
  <2>2. matchStatus[m] # None
    BY <1>1 DEF ReadForOpen, MayOpen
  <2>3. RaceReads'
    BY <1>1, <2>1, <2>2 DEF ReadForOpen, RaceReads, TypeInv, TypeOK
  <2> QED
    BY <2>1, <2>3 DEF Fine
<1>2. CASE WriteOpen(m)
  <2> DEFINE i == matchIntent[m]
  <2>1. /\ openSeen[m] # None /\ matchStatus[m] # None /\ i \in Intents
        /\ MoveIntent(i, "ESCALATED_TO_ADMIN")
        /\ openSeen' = [openSeen EXCEPT ![m] = None]
        /\ \/ UNCHANGED matchStatus
           \/ matchStatus' = [matchStatus EXCEPT ![m] = "ESCALATED"]
        /\ \/ UNCHANGED depositRow
           \/ depositRow' = [depositRow EXCEPT ![i] = "PROCESSING"]
        /\ \/ UNCHANGED <<caseState, secondCase>>
           \/ caseState' = [caseState EXCEPT ![m] = "OPEN"] /\ UNCHANGED secondCase
           \/ secondCase' = [secondCase EXCEPT ![m] = "OPEN"] /\ UNCHANGED caseState
        /\ UNCHANGED <<requestVars, windowOver, partVars, matchIntent, matchPart,
                       owedVars, walletVars, resolveSeen, stuckSeen, cancelSeen>>
    BY <1>2 DEF WriteOpen, RaceReads, TypeInv, RowsAreLinked
  <2>2. TypeInv'
    BY <2>1 DEF TypeInv, RowsAreLinked, TypeOK, MoveIntent, IntentStates, MatchStates, CaseStates,
       requestVars, partVars, owedVars, walletVars, None
  <2>3. matchStatus[m] # "CONFIRMED"
    BY <2>1 DEF CreditsStand, MoveIntent, IntentMay, IntentTable
  <2>4. IntentsFinal
    BY <2>1, MoveIntentFinal DEF TypeInv
  <2>5. PartsFinal
    BY <2>1, PartsKept DEF requestVars, partVars, RequestsStay
  <2>6. MatchesFinal
    BY <2>1, <2>3 DEF MatchesFinal, TypeInv, TypeOK, None
  <2>7. Final
    BY <2>4, <2>5, <2>6 DEF Final
  <2>8. RaceReads'
    <3>1. \A n \in Matches : openSeen'[n] # None => matchStatus'[n] # None
      BY <2>1, <2>6 DEF RaceReads, MatchesFinal
    <3>2. UNCHANGED partStatus
      BY <2>1 DEF partVars
    <3>3. /\ openSeen' \in [Matches -> MatchStates \cup {None}]
          /\ secondCase' \in [Matches -> CaseStates \cup {None}]
      BY <2>1 DEF RaceReads, CaseStates
    <3> QED
      BY <2>1, <3>1, <3>2, <3>3 DEF RaceReads
  <2> QED
    BY <2>2, <2>7, <2>8 DEF Fine
<1> QED
  BY <1>1, <1>2

LEMMA CaseRaces ==
    ASSUME RaceInv, NEW m \in Matches,
           \/ ReadCase(m)
           \/ \E d \in Resolutions : WriteDecision(m, d) \/ ResolveSecond(m, d)
    PROVE  Fine
<1> USE DEF RaceInv
<1>1. CASE ReadCase(m)
  <2>1. TypeInv' /\ Final /\ UNCHANGED <<matchStatus, partStatus>>
    BY <1>1, UndisturbedReads DEF ReadCase, vars, matchVars, partVars
  <2>2. RaceReads'
    BY <1>1, <2>1 DEF ReadCase, RaceReads, TypeInv, TypeOK
  <2> QED
    BY <2>1, <2>2 DEF Fine
<1>2. ASSUME NEW d \in Resolutions, Decide(m, d), LockedRequestsStay,
             UNCHANGED <<windowOver, owedVars, openSeen, stuckSeen, cancelSeen>>,
             caseState' \in [Matches -> CaseStates \cup {None}],
             secondCase' \in [Matches -> CaseStates \cup {None}],
             resolveSeen' \in [Matches -> CaseStates \cup {None}]
      PROVE  Fine
  <2>1. TypeInv'
    BY <1>2, DecideTypes
  <2>2. Final
    BY <1>2, DecideFinal
  <2>3. \A n \in Matches : openSeen[n] # None => matchStatus'[n] # None
    BY <2>2 DEF RaceReads, Final, MatchesFinal
  <2>4. \A r \in Requests : \A S \in cancelSeen[r] :
            S \subseteq PartsOf(r) /\ \A p \in S : partStatus'[p] # "CONFIRMED"
    BY <1>2, <2>2, CancelReads
  <2>5. RaceReads'
    BY <1>2, <2>3, <2>4 DEF RaceReads
  <2> QED
    BY <2>1, <2>2, <2>5 DEF Fine
<1>3. ASSUME NEW d \in Resolutions, WriteDecision(m, d)
      PROVE  Fine
  <2>1. StatusAfter(d, resolveSeen[m]) \in CaseStates
    BY <1>3 DEF WriteDecision, StatusAfter, RaceReads, CaseStates, None
  <2>2. /\ caseState' \in [Matches -> CaseStates \cup {None}]
        /\ resolveSeen' \in [Matches -> CaseStates \cup {None}]
    BY <1>3, <2>1 DEF WriteDecision, RaceReads, TypeInv, TypeOK
  <2> QED
    BY <1>2, <1>3, <2>2 DEF WriteDecision, RaceReads
<1>4. ASSUME NEW d \in Resolutions, ResolveSecond(m, d)
      PROVE  Fine
  <2>1. StatusAfter(d, secondCase[m]) \in CaseStates
    BY <1>4 DEF ResolveSecond, StatusAfter, OpenCase, CaseStates
  <2>2. secondCase' \in [Matches -> CaseStates \cup {None}]
    BY <1>4, <2>1 DEF ResolveSecond, RaceReads
  <2> QED
    BY <1>2, <1>4, <2>2 DEF ResolveSecond, RaceReads, TypeInv, TypeOK
<1> QED
  BY <1>1, <1>3, <1>4

LEMMA StuckRaces ==
    ASSUME RaceInv, NEW r \in Requests, ReadStuck(r) \/ SaveStuck(r)
    PROVE  Fine
<1> USE DEF RaceInv
<1>1. CASE ReadStuck(r)
  <2>1. TypeInv' /\ Final /\ UNCHANGED <<matchStatus, partStatus>>
    BY <1>1, UndisturbedReads DEF ReadStuck, vars, matchVars, partVars
  <2>2. stuckSeen' \in [Requests -> SUBSET [locked : Int, completed : Int]]
    <3>1. reqLocked[r] \in Int /\ reqCompleted[r] \in Int
      BY DEF TypeInv, TypeOK
    <3> QED
      BY <1>1, <3>1 DEF ReadStuck, RaceReads
  <2>3. \A q \in Requests : stuckSeen'[q] = {} \/ \E x : stuckSeen'[q] = {x}
    BY <1>1 DEF ReadStuck, RaceReads
  <2>4. RaceReads'
    BY <1>1, <2>1, <2>2, <2>3 DEF ReadStuck, RaceReads
  <2> QED
    BY <2>1, <2>4 DEF Fine
<1>2. CASE SaveStuck(r)
  <2>1. PICK seen \in stuckSeen[r] :
            /\ stuckSeen' = [stuckSeen EXCEPT ![r] = {}]
            /\ reqState' = [reqState EXCEPT ![r] = "ADMIN_SETTLEMENT"]
            /\ reqLocked' = [reqLocked EXCEPT ![r] = seen.locked]
            /\ reqCompleted' = [reqCompleted EXCEPT ![r] = seen.completed]
            /\ UNCHANGED <<withdrawRow, windowOver, partVars, intentVars, matchVars,
                           caseState, owedVars, walletVars, openSeen, secondCase,
                           resolveSeen, cancelSeen>>
    BY <1>2 DEF SaveStuck
  <2>2. seen.locked \in Int /\ seen.completed \in Int
    BY DEF RaceReads
  <2>3. TypeInv'
    BY <2>1, <2>2 DEF TypeInv, RowsAreLinked, TypeOK, WithdrawStates, partVars, intentVars,
       matchVars, owedVars, walletVars
  <2>4. RequestsStay
    BY <2>1 DEF RequestsStay, TypeInv, TypeOK, None
  <2>5. Final
    BY <2>1, <2>4, PartsKept DEF Final, IntentsFinal, MatchesFinal, partVars, intentVars, matchVars
  <2>6. stuckSeen' \in [Requests -> SUBSET [locked : Int, completed : Int]]
    BY <2>1 DEF RaceReads
  <2>7. RaceReads'
    BY <2>1, <2>6 DEF RaceReads, partVars, matchVars
  <2> QED
    BY <2>3, <2>5, <2>7 DEF Fine
<1> QED
  BY <1>1, <1>2

LEMMA CancelRaces ==
    ASSUME RaceInv, NEW r \in Requests, CountBusy(r) \/ SaveCancelled(r)
    PROVE  Fine
<1> USE DEF RaceInv
<1>1. CASE CountBusy(r)
  <2>1. TypeInv' /\ Final /\ UNCHANGED <<matchStatus, partStatus>>
    BY <1>1, UndisturbedReads DEF CountBusy, vars, matchVars, partVars
  <2>2. PICK S : /\ S = {p \in PartsOf(r) : partStatus[p] = "OPEN"}
                 /\ cancelSeen' = [cancelSeen EXCEPT ![r] = {S}]
    BY <1>1 DEF CountBusy
  <2>3. S \subseteq PartsOf(r) /\ S \subseteq Parts /\ \A p \in S : partStatus[p] # "CONFIRMED"
    BY <2>2 DEF PartsOf
  <2>4. cancelSeen' \in [Requests -> SUBSET SUBSET Parts]
    BY <2>2, <2>3 DEF RaceReads
  <2>5. \A q \in Requests : \A T \in cancelSeen'[q] : T \in cancelSeen[q] \/ (q = r /\ T = S)
    BY <2>2 DEF RaceReads
  <2>6. \A q \in Requests : \A T \in cancelSeen'[q] :
            T \subseteq PartsOf(q) /\ \A p \in T : partStatus[p] # "CONFIRMED"
    BY <2>3, <2>5 DEF RaceReads
  <2>7. RaceReads'
    <3>1. UNCHANGED <<matchStatus, partStatus, openSeen, secondCase, resolveSeen, stuckSeen>>
      BY <1>1, <2>1 DEF CountBusy
    <3>2. RaceReads
      OBVIOUS
    <3> QED
      BY ONLY <2>4, <2>6, <3>1, <3>2 DEF RaceReads, PartsOf
  <2> QED
    BY <2>1, <2>7 DEF Fine
<1>2. CASE SaveCancelled(r)
  <2>1. PICK open \in cancelSeen[r] :
        /\ ReleaseLock(r)
        /\ partStatus' = [p \in Parts |-> IF p \in open THEN "CANCELLED" ELSE partStatus[p]]
        /\ partRes' = [p \in Parts |-> IF p \in open THEN NoMatch ELSE partRes[p]]
        /\ reqState' = [reqState EXCEPT ![r] = "CANCELLED"]
        /\ withdrawRow' = [withdrawRow EXCEPT ![r] = "CANCELLED"]
        /\ cancelSeen' = [cancelSeen EXCEPT ![r] = {}]
        /\ UNCHANGED <<reqCompleted, windowOver, intentVars, matchVars, caseState,
                       owedVars, openSeen, secondCase, resolveSeen, stuckSeen>>
    BY <1>2 DEF SaveCancelled
  <2>2. open \subseteq PartsOf(r) /\ \A p \in open : partStatus[p] # "CONFIRMED"
    BY DEF RaceReads
  <2>3. TypeInv'
    <3>1. /\ free' \in [Users -> Int] /\ held' \in [Users -> Int]
          /\ reqLocked' \in [Requests -> Int]
      <4>1. (IF reqLocked[r] > 0 THEN reqLocked[r] ELSE 0) \in Int /\ Withdrawer[r] \in Users
        BY MarketAssumption DEF TypeInv, TypeOK
      <4> QED
        BY <2>1, <4>1, AmountMoved DEF ReleaseLock, TypeInv, TypeOK
    <3> QED
      BY <2>1, <3>1 DEF TypeInv, RowsAreLinked, TypeOK, WithdrawStates, PartStates, intentVars,
         matchVars, owedVars
  <2>4. Final
    <3>1. \A q \in Requests : reqState'[q] = None => reqState[q] = None /\ q # r
      BY <2>1 DEF TypeInv, TypeOK, None
    <3>2. \A p \in Parts : /\ p \in open => partStatus'[p] = "CANCELLED" /\ RequestOf[p] = r
                           /\ p \notin open => partStatus'[p] = partStatus[p]
      BY <2>1, <2>2 DEF PartsOf
    <3>3. PartsFinal
      BY <2>2, <3>1, <3>2, MarketAssumption DEF PartsFinal, PartsAreNew
    <3> QED
      BY <2>1, <3>3 DEF Final, IntentsFinal, MatchesFinal, intentVars, matchVars
  <2>5. \A q \in Requests : \A S \in cancelSeen'[q] :
            S \subseteq PartsOf(q) /\ \A p \in S : partStatus'[p] # "CONFIRMED"
    <3>1. ASSUME NEW q \in Requests, NEW S \in cancelSeen'[q]
          PROVE  S \subseteq PartsOf(q) /\ \A p \in S : partStatus'[p] # "CONFIRMED"
      <4>1. S \in cancelSeen[q]
        BY <2>1, <3>1 DEF RaceReads
      <4>2. S \subseteq PartsOf(q) /\ \A p \in S : partStatus[p] # "CONFIRMED"
        BY <4>1 DEF RaceReads
      <4> QED
        BY <2>1, <4>2 DEF PartsOf
    <3> QED
      BY <3>1
  <2>6. cancelSeen' \in [Requests -> SUBSET SUBSET Parts]
    BY <2>1 DEF RaceReads
  <2>7. RaceReads'
    <3>1. UNCHANGED <<matchStatus, openSeen, secondCase, resolveSeen, stuckSeen>>
      BY <2>1 DEF matchVars
    <3>2. RaceReads
      OBVIOUS
    <3> QED
      BY ONLY <2>5, <2>6, <3>1, <3>2 DEF RaceReads, PartsOf
  <2> QED
    BY <2>3, <2>4, <2>7 DEF Fine
<1> QED
  BY <1>1, <1>2

LEMMA RaceStep ==
    ASSUME RaceInv, [RaceNext]_allVars
    PROVE  Fine
<1>1. CASE WholeStep
  <2>1. TypeInv' /\ Final
    BY <1>1, TypeStep, StepFinal DEF WholeStep, RaceInv
  <2> QED
    BY <1>1, <2>1, ReadsKept DEF WholeStep, Fine
<1>2. CASE UNCHANGED allVars
  <2>1. UNCHANGED vars /\ UNCHANGED raceVars /\ UNCHANGED partStatus
    BY <1>2 DEF allVars, vars, partVars
  <2>2. TypeInv' /\ Final
    BY <2>1, UndisturbedReads
  <2> QED
    BY <2>1, <2>2, ReadsKept DEF Fine
<1> QED
  BY <1>1, <1>2, OpenRaces, CaseRaces, StuckRaces, CancelRaces DEF RaceNext

LEMMA RaceInvStep ==
    ASSUME RaceInv, [RaceNext]_allVars
    PROVE  RaceInv' /\ SettledStep
<1>1. TypeInv' /\ Final /\ RaceReads'
  BY RaceStep DEF Fine
<1>2. CreditsStand' /\ SettledStep
  BY <1>1, FinalSettles DEF RaceInv
<1> QED
  BY <1>1, <1>2 DEF RaceInv, Final, PartsFinal

LEMMA RaceInvInit == RaceInit => RaceInv
<1> SUFFICES ASSUME RaceInit PROVE RaceInv
  OBVIOUS
<1>1. TypeInv
  BY TypeInit DEF RaceInit
<1>2. PartsAreNew /\ CreditsStand
  BY DEF RaceInit, Init, PartsAreNew, CreditsStand, None
<1>3. RaceReads
  BY DEF RaceInit, RaceReads
<1> QED
  BY <1>1, <1>2, <1>3 DEF RaceInv

LEMMA RacesAreSound == RaceSpec => []RaceInv
BY RaceInvInit, RaceInvStep, PTL DEF RaceSpec

(* However the handlers interleave, rows keep their types and the          *)
(* interrupted ones remember one request and one cancellation at most.     *)
THEOREM RaceTypesCorrect == RaceSpec => []RaceTypeOK
<1>1. ASSUME RaceInv PROVE RaceTypeOK
  <2>1. \A r \in Requests : Cardinality(stuckSeen[r]) <= 1
    <3>1. Cardinality({}) = 0 /\ \A x : Cardinality({x}) = 1
      BY FS_EmptySet, FS_Singleton
    <3> SUFFICES ASSUME NEW r \in Requests PROVE Cardinality(stuckSeen[r]) <= 1
      OBVIOUS
    <3>2. stuckSeen[r] = {} \/ \E x : stuckSeen[r] = {x}
      BY <1>1 DEF RaceInv, RaceReads
    <3>3. Cardinality(stuckSeen[r]) = 0 \/ Cardinality(stuckSeen[r]) = 1
      BY ONLY <3>1, <3>2
    <3> QED
      BY <3>3
  <2>2. \A r \in Requests : cancelSeen[r] \subseteq SUBSET PartsOf(r)
    BY <1>1 DEF RaceInv, RaceReads
  <2> QED
    BY <1>1, <2>1, <2>2 DEF RaceInv, RaceReads, RaceTypeOK, TypeInv
<1> QED
  BY <1>1, RacesAreSound, PTL

(* Nothing that was settled is touched again, however late a handler       *)
(* writes what it had read and however late a depositor cancels.           *)
THEOREM SettledIsSafe == RaceSpec => SettledStays
<1>1. RaceInv /\ [RaceNext]_allVars => [SettledStep]_allVars
  BY RaceInvStep
<1> QED
  BY <1>1, RacesAreSound, PTL DEF RaceSpec, SettledStays

-----------------------------------------------------------------------------
(* The money of the interrupted handlers.                                  *)

LEMMA RaceWallets ==
    ASSUME RaceInv, [RaceNext]_allVars
    PROVE  /\ WalletMove \/ UNCHANGED <<free, held>>
           /\ RequestsStay
           /\ WalletMove \/ \E r \in Requests : SaveStuck(r)
<1> USE DEF RaceInv
<1>1. ASSUME UNCHANGED <<requestVars, walletVars>>
      PROVE  WalletMove /\ RequestsStay
  BY <1>1 DEF WalletMove, RequestsStay, requestVars, walletVars
<1>2. CASE WholeStep
  BY <1>2, StepWallets DEF WholeStep
<1>3. ASSUME NEW m \in Matches, ReadForOpen(m) \/ WriteOpen(m) \/ ReadCase(m)
      PROVE  WalletMove /\ RequestsStay
  BY <1>1, <1>3 DEF ReadForOpen, WriteOpen, ReadCase, vars
<1>4. ASSUME NEW m \in Matches, NEW d \in Resolutions, WriteDecision(m, d) \/ ResolveSecond(m, d)
      PROVE  WalletMove /\ RequestsStay
  BY <1>4, DecideWallets DEF WriteDecision, ResolveSecond
<1>5. ASSUME NEW r \in Requests, ReadStuck(r) \/ CountBusy(r)
      PROVE  WalletMove /\ RequestsStay
  BY <1>1, <1>5 DEF ReadStuck, CountBusy, vars
<1>6. ASSUME NEW r \in Requests, SaveStuck(r)
      PROVE  UNCHANGED <<free, held>> /\ RequestsStay
  BY <1>6 DEF SaveStuck, walletVars, RequestsStay, TypeInv, TypeOK, None
<1>7. ASSUME NEW r \in Requests, SaveCancelled(r)
      PROVE  WalletMove /\ RequestsStay
  BY <1>7 DEF SaveCancelled, WalletMove, RequestsStay, TypeInv, TypeOK, None
<1>8. CASE UNCHANGED allVars
  BY <1>1, <1>8 DEF allVars, vars
<1> QED
  BY <1>2, <1>3, <1>4, <1>5, <1>6, <1>7, <1>8 DEF RaceNext

(* No interleaving of the handlers makes or destroys rial.                 *)
THEOREM RacesConserve == RaceSpec => []RialIsConserved
<1>1. RaceInit => RialIsConserved
  BY ConservedInit DEF RaceInit
<1>2. RaceInv /\ RaceInv' /\ RialIsConserved /\ [RaceNext]_allVars => RialIsConserved'
  BY RaceWallets, ConservedStep DEF RaceInv, TypeInv
<1> QED
  BY <1>1, <1>2, RacesAreSound, PTL DEF RaceSpec

(* Without the unlocked save of the settlement timeout, what a wallet has  *)
(* locked is what its owner's requests have locked.                        *)
THEOREM RacesKeepLocks ==
    ASSUME "timeout" \notin Slow
    PROVE  RaceSpec => []LocksAreBacked
<1> DEFINE Inv == /\ NewIsUnlocked /\ LocksAreBacked
                  /\ \A r \in Requests : stuckSeen[r] = {}
<1>1. RaceInit => Inv
  BY LocksInit DEF RaceInit
<1>2. RaceInv /\ RaceInv' /\ Inv /\ [RaceNext]_allVars => Inv'
  <2> SUFFICES ASSUME RaceInv, RaceInv', Inv, [RaceNext]_allVars
               PROVE  Inv'
    OBVIOUS
  <2>1. WalletMove /\ RequestsStay
    BY RaceWallets DEF SaveStuck
  <2>2. TypeOK
    BY DEF RaceInv, TypeInv
  <2>3. NewIsUnlocked' /\ LocksAreBacked'
    BY <2>1, <2>2, UnlockedStep, LocksStep
  <2>4. UNCHANGED stuckSeen
    BY DEF RaceNext, WholeStep, ReadForOpen, WriteOpen, ReadCase, WriteDecision, ResolveSecond,
       ReadStuck, SaveStuck, CountBusy, SaveCancelled, raceVars, allVars
  <2> QED
    BY <2>3, <2>4
<1> HIDE DEF Inv
<1>3. RaceSpec => []Inv
  BY <1>1, <1>2, RacesAreSound, PTL DEF RaceSpec
<1>4. Inv => LocksAreBacked
  BY DEF Inv
<1> QED
  BY <1>3, <1>4, PTL

-----------------------------------------------------------------------------
(* Intents and matches under the interrupted handlers.  A match that open  *)
(* found escalated can only have been decided since; a case that resolve   *)
(* found, and a second case, are about matches that exist.                 *)

RacePairs ==
    /\ CasesAreNamed
    /\ Paired
    /\ \A m \in Matches :
        /\ secondCase[m] # None => matchStatus[m] # None
        /\ resolveSeen[m] # None => matchStatus[m] # None
        /\ openSeen[m] = "ESCALATED" => matchStatus[m] \in PastTheCase

DecidedStay ==
    \A m \in Matches : matchStatus[m] \in PastTheCase => matchStatus'[m] \in PastTheCase

LEMMA WalksDecided ==
    ASSUME TypeInv, NEW m \in Matches, Walks(m)
    PROVE  DecidedStay
BY DEF Walks, DecidedStay, TypeInv, TypeOK

LEMMA StepDecided ==
    ASSUME PairInv, [Next]_vars
    PROVE  DecidedStay
<1> USE DEF PairInv
<1>1. ASSUME NEW r \in Requests, RequestStep(r)
      PROVE  DecidedStay
  BY <1>1 DEF RequestStep, CreateForWithdraw, WindowElapses, Cancel, CloseRequest,
     MoveToAdminSettlement, RequestExpiry, matchVars, DecidedStay
<1>2. ASSUME NEW i \in Intents, IntentStep(i)
      PROVE  DecidedStay
  <2>1. UNCHANGED matchStatus \/ \E m \in Matches : \E p : InsertMatch(i, p, m)
    BY <1>2 DEF IntentStep, CreateForDeposit, MatchNewIntent, MatchingRetry, LoseMatching,
       ReserveForIntent, ReservePart, ReserveFromAdminAccount, QueueIntent, matchVars
  <2> QED
    BY <2>1 DEF InsertMatch, DecidedStay, PastTheCase, None, TypeInv, TypeOK
<1>3. ASSUME NEW m \in Matches, MatchStep(m)
      PROVE  DecidedStay
  BY <1>3, MatchWalks, WalksDecided DEF CasesAreNamed
<1>4. ASSUME UNCHANGED vars
      PROVE  DecidedStay
  BY <1>4 DEF vars, matchVars, DecidedStay
<1> QED
  BY <1>1, <1>2, <1>3, <1>4 DEF Next

LEMMA OpenWalks ==
    ASSUME RaceInv, RacePairs, NEW m \in Matches, WriteOpen(m)
    PROVE  Walks(m)
<1> DEFINE i == matchIntent[m]
<1>1. /\ openSeen[m] # None /\ matchStatus[m] # None
      /\ MoveIntent(i, "ESCALATED_TO_ADMIN")
      /\ UNCHANGED matchIntent
      /\ matchStatus' = IF openSeen[m] = "ESCALATED" THEN matchStatus
                        ELSE [matchStatus EXCEPT ![m] = "ESCALATED"]
  BY DEF WriteOpen, RaceInv, RaceReads
<1>2. Follows("ESCALATED", "ESCALATED_TO_ADMIN")
  BY DEF Follows, InStep
<1>3. matchStatus' = [matchStatus EXCEPT ![m] = "ESCALATED"]
  <2>1. CASE openSeen[m] = "ESCALATED"
    <3>1. matchStatus[m] \in PastTheCase /\ Follows(matchStatus[m], intentState[i])
      BY <1>1, <2>1 DEF RacePairs, Paired
    <3>2. intentState[i] \notin {"CONFIRMED", "MATCHING", "REJECTED", "CANCELLED"}
      BY <1>1 DEF MoveIntent, IntentMay, IntentTable
    <3>3. matchStatus[m] = "ESCALATED"
      BY <3>1, <3>2 DEF Follows, InStep, PastTheCase
    <3> QED
      BY <1>1, <2>1, <3>3 DEF RaceInv, TypeInv, TypeOK
  <2> QED
    BY <1>1, <2>1
<1> QED
  BY <1>1, <1>2, <1>3 DEF MoveIntent, Walks, PastTheCase

LEMMA RacePairStep ==
    ASSUME RaceInv, RacePairs, [RaceNext]_allVars
    PROVE  RacePairs'
<1> USE DEF RaceInv
<1>1. Final /\ TypeInv'
  BY RaceStep DEF Fine
<1>2. ASSUME Paired', DecidedStay,
             \A m \in Matches :
                /\ caseState[m] = None /\ caseState'[m] # None => matchStatus[m] # None
                /\ secondCase[m] = None /\ secondCase'[m] # None => matchStatus[m] # None
                /\ resolveSeen[m] = None /\ resolveSeen'[m] # None => matchStatus[m] # None
                /\ openSeen[m] # "ESCALATED" /\ openSeen'[m] = "ESCALATED"
                    => matchStatus'[m] \in PastTheCase
      PROVE  RacePairs'
  <2>1. CasesAreNamed'
    BY <1>1, <1>2, CasesNamedStep DEF RacePairs, Final
  <2>2. \A m \in Matches : matchStatus[m] # None => matchStatus'[m] # None
    BY <1>1 DEF Final, MatchesFinal
  <2>3. \A m \in Matches :
          /\ secondCase'[m] # None => matchStatus'[m] # None
          /\ resolveSeen'[m] # None => matchStatus'[m] # None
          /\ openSeen'[m] = "ESCALATED" => matchStatus'[m] \in PastTheCase
    BY <1>2, <2>2 DEF RacePairs, DecidedStay
  <2> QED
    BY <1>2, <2>1, <2>3 DEF RacePairs
<1>3. ASSUME UNCHANGED vars
      PROVE  Paired' /\ DecidedStay
  BY <1>3 DEF vars, matchVars, intentVars, owedVars, DecidedStay, Paired, RacePairs
<1>4. CASE WholeStep
  <2>1. PairInv /\ [Next]_vars /\ UNCHANGED raceVars
    BY <1>4 DEF WholeStep, PairInv, RacePairs
  <2>2. Paired' /\ DecidedStay
    BY <2>1, PairStep, StepDecided DEF PairInv
  <2>3. \A m \in Matches : caseState[m] = None /\ caseState'[m] # None => matchStatus[m] # None
    BY <2>1, NewCases
  <2> QED
    BY <1>2, <2>1, <2>2, <2>3 DEF raceVars
<1>5. ASSUME NEW m \in Matches, ReadForOpen(m)
      PROVE  RacePairs'
  <2>1. /\ UNCHANGED <<vars, secondCase, resolveSeen>>
        /\ openSeen' = [openSeen EXCEPT ![m] = matchStatus[m]]
    BY <1>5 DEF ReadForOpen
  <2>2. \A n \in Matches : openSeen[n] # "ESCALATED" /\ openSeen'[n] = "ESCALATED"
                            => matchStatus'[n] \in PastTheCase
    BY <2>1 DEF vars, matchVars, PastTheCase, RaceReads
  <2> QED
    BY <1>2, <1>3, <2>1, <2>2 DEF vars
<1>6. ASSUME NEW m \in Matches, WriteOpen(m)
      PROVE  RacePairs'
  <2>1. Paired' /\ DecidedStay
    BY <1>6, OpenWalks, WalksPaired, WalksDecided DEF WriteOpen, owedVars, RacePairs
  <2>2. /\ matchStatus[m] # None
        /\ openSeen' = [openSeen EXCEPT ![m] = None]
        /\ \/ UNCHANGED <<caseState, secondCase>>
           \/ caseState' = [caseState EXCEPT ![m] = "OPEN"] /\ UNCHANGED secondCase
           \/ secondCase' = [secondCase EXCEPT ![m] = "OPEN"] /\ UNCHANGED caseState
        /\ UNCHANGED resolveSeen
    BY <1>6 DEF WriteOpen, RaceReads
  <2>3. \A n \in Matches : openSeen'[n] = "ESCALATED" => openSeen[n] = "ESCALATED"
    BY <2>2 DEF RaceReads, None
  <2>4. \A n \in Matches :
          /\ caseState[n] = None /\ caseState'[n] # None => matchStatus[n] # None
          /\ secondCase[n] = None /\ secondCase'[n] # None => matchStatus[n] # None
    BY <2>2 DEF RaceReads, TypeInv, TypeOK
  <2> QED
    BY <1>2, <2>1, <2>2, <2>3, <2>4
<1>7. ASSUME NEW m \in Matches, ReadCase(m)
      PROVE  RacePairs'
  <2>1. /\ UNCHANGED <<vars, secondCase, openSeen>>
        /\ resolveSeen' = [resolveSeen EXCEPT ![m] = caseState[m]]
        /\ caseState[m] # None
    BY <1>7 DEF ReadCase, OpenCase, None
  <2>2. \A n \in Matches : resolveSeen[n] = None /\ resolveSeen'[n] # None => matchStatus[n] # None
    BY <2>1 DEF RacePairs, CasesAreNamed, RaceReads
  <2> QED
    BY <1>2, <1>3, <2>1, <2>2 DEF vars
<1>8. ASSUME NEW m \in Matches, NEW d \in Resolutions, WriteDecision(m, d) \/ ResolveSecond(m, d)
      PROVE  RacePairs'
  <2>1. /\ matchStatus[m] # None /\ Decide(m, d)
        /\ UNCHANGED <<owedMatching, openSeen>>
    BY <1>8 DEF WriteDecision, ResolveSecond, RacePairs, OpenCase, None, owedVars
  <2>2. Paired' /\ DecidedStay
    BY <2>1, DecideWalks, WalksPaired, WalksDecided DEF RacePairs
  <2>3. \A n \in Matches : n # m => caseState'[n] = caseState[n] /\ secondCase'[n] = secondCase[n]
    BY <1>8 DEF WriteDecision, ResolveSecond, RaceReads, TypeInv, TypeOK
  <2>4. \A n \in Matches : resolveSeen[n] = None => resolveSeen'[n] = None
    BY <1>8 DEF WriteDecision, ResolveSecond, RaceReads
  <2> QED
    BY <1>2, <2>1, <2>2, <2>3, <2>4
<1>9. ASSUME NEW r \in Requests, ReadStuck(r) \/ SaveStuck(r) \/ CountBusy(r) \/ SaveCancelled(r)
      PROVE  RacePairs'
  <2>1. UNCHANGED <<intentVars, matchVars, caseState, owedVars, openSeen, secondCase, resolveSeen>>
    BY <1>9 DEF ReadStuck, SaveStuck, CountBusy, SaveCancelled, vars
  <2>2. Paired' /\ DecidedStay
    BY <2>1 DEF matchVars, intentVars, owedVars, DecidedStay, Paired, RacePairs
  <2> QED
    BY <1>2, <2>1, <2>2
<1>10. CASE UNCHANGED allVars
  BY <1>2, <1>3, <1>10 DEF allVars, raceVars, vars
<1> QED
  BY <1>4, <1>5, <1>6, <1>7, <1>8, <1>9, <1>10 DEF RaceNext

(* However escalations, decisions, timeouts and cancellations interleave,  *)
(* an intent walks with one match and a deposit is credited at most once.  *)
THEOREM RacesKeepIntents == RaceSpec => []IntentFollowsMatch
<1>1. RaceInit => RacePairs
  BY PairInit DEF RaceInit, PairInv, RacePairs, None
<1>2. RaceInv /\ RacePairs /\ [RaceNext]_allVars => RacePairs'
  BY RacePairStep
<1>3. RaceSpec => [](RaceInv /\ RacePairs)
  BY <1>1, <1>2, RacesAreSound, PTL DEF RaceSpec
<1>4. RaceInv /\ RacePairs => IntentFollowsMatch
  BY PairsFollow DEF RaceInv, RacePairs, PairInv
<1> QED
  BY <1>3, <1>4, PTL

(* Without the unlocked save of the settlement timeout, the deposit and    *)
(* withdraw rows agree with the p2p rows under the interrupted handlers.   *)
THEOREM RacesKeepEnvelopes ==
    ASSUME "timeout" \notin Slow
    PROVE  RaceSpec => []EnvelopesAgree
<1> DEFINE Inv == EnvelopesAgree /\ \A r \in Requests : stuckSeen[r] = {}
<1>1. RaceInit => Inv
  BY EnvelopesInit DEF RaceInit
<1>2. RaceInv /\ Inv /\ [RaceNext]_allVars => Inv'
  <2> SUFFICES ASSUME RaceInv, Inv, [RaceNext]_allVars
               PROVE  Inv'
    OBVIOUS
  <2>1. TypeOK
    BY DEF RaceInv, TypeInv
  <2>2. UNCHANGED stuckSeen
    BY DEF RaceNext, WholeStep, ReadForOpen, WriteOpen, ReadCase, WriteDecision, ResolveSecond,
       ReadStuck, SaveStuck, CountBusy, SaveCancelled, raceVars, allVars
  <2>3. ASSUME UNCHANGED vars
        PROVE  EnvelopesAgree'
    BY <2>1, <2>3, EnvelopesStep
  <2>4. ASSUME WholeStep
        PROVE  EnvelopesAgree'
    BY <2>1, <2>4, EnvelopesStep DEF WholeStep
  <2>5. ASSUME NEW m \in Matches, WriteOpen(m)
        PROVE  EnvelopesAgree'
    <3>1. /\ MoveIntent(matchIntent[m], "ESCALATED_TO_ADMIN")
          /\ UNCHANGED requestVars
          /\ depositRow' = IF intentState[matchIntent[m]] = "ESCALATED_TO_ADMIN" THEN depositRow
                           ELSE [depositRow EXCEPT ![matchIntent[m]] = "PROCESSING"]
      BY <2>5 DEF WriteOpen
    <3>2. CASE intentState[matchIntent[m]] = "ESCALATED_TO_ADMIN"
      <4>1. UNCHANGED <<intentState, depositRow>>
        BY <2>1, <3>1, <3>2 DEF MoveIntent, TypeOK
      <4> QED
        BY <3>1, <4>1, WithdrawalsKept DEF EnvelopesAgree, DepositAgrees
    <3>3. CASE intentState[matchIntent[m]] # "ESCALATED_TO_ADMIN"
      BY <2>1, <3>1, <3>3, AgreeMoved, WithdrawalsKept DEF EnvelopesAgree
    <3> QED
      BY <3>2, <3>3
  <2>6. ASSUME NEW m \in Matches, NEW d \in Resolutions, WriteDecision(m, d) \/ ResolveSecond(m, d)
        PROVE  EnvelopesAgree'
    BY <2>1, <2>6, DecideEnvelopes DEF WriteDecision, ResolveSecond
  <2>7. ASSUME NEW r \in Requests, SaveCancelled(r)
        PROVE  EnvelopesAgree'
    <3>1. /\ reqState' = [reqState EXCEPT ![r] = "CANCELLED"]
          /\ withdrawRow' = [withdrawRow EXCEPT ![r] = "CANCELLED"]
          /\ UNCHANGED intentVars
      BY <2>7 DEF SaveCancelled
    <3>2. \A q \in Requests : WithdrawalAgrees(q)'
      BY <2>1, <3>1 DEF EnvelopesAgree, WithdrawalAgrees, TypeOK, ActiveRequest, MatchableRequest
    <3> QED
      BY <3>1, <3>2, DepositsKept DEF EnvelopesAgree
  <2>8. EnvelopesAgree'
    <3>1. ASSUME NEW m \in Matches, ReadForOpen(m) \/ ReadCase(m)
          PROVE  EnvelopesAgree'
      BY <2>3, <3>1 DEF ReadForOpen, ReadCase
    <3>2. ASSUME NEW r \in Requests, ReadStuck(r) \/ CountBusy(r)
          PROVE  EnvelopesAgree'
      BY <2>3, <3>2 DEF ReadStuck, CountBusy
    <3>3. ASSUME NEW r \in Requests
          PROVE  ~SaveStuck(r)
      BY DEF SaveStuck
    <3> QED
      BY <2>3, <2>4, <2>5, <2>6, <2>7, <3>1, <3>2, <3>3 DEF RaceNext, allVars
  <2> QED
    BY <2>2, <2>8
<1> HIDE DEF Inv
<1>3. RaceSpec => []Inv
  BY <1>1, <1>2, RacesAreSound, PTL DEF RaceSpec
<1>4. Inv => EnvelopesAgree
  BY DEF Inv
<1> QED
  BY <1>3, <1>4, PTL
=============================================================================
