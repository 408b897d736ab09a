------------------------------ MODULE P2pRaces ------------------------------
(***************************************************************************)
(* The p2p handlers that read rows, do something else, and write what they *)
(* had read: P2pMarket takes each of them as one step, this module lets    *)
(* other steps come in between.  An entity is saved as it was read, with   *)
(* the handler's changes: columns that others have written since go back.  *)
(*                                                                         *)
(* The handlers named in Slow may be so interrupted, one call of each at a *)
(* time per row; whole steps of P2pMarket stand for the other callers.     *)
(***************************************************************************)
EXTENDS P2pPromises

CONSTANT Slow   \* subset of {"open", "resolve", "timeout", "cancel"}

ASSUME SlowAssumption == Slow \subseteq {"open", "resolve", "timeout", "cancel"}

VARIABLES
    openSeen,       \* match status read by a running escalations.open
    secondCase,     \* status of a second case row of the match
    resolveSeen,    \* case status read by a running resolve
    stuckSeen,      \* request columns read by a running settlementTimeout
    cancelSeen      \* open parts found by a running cancel

raceVars == <<openSeen, secondCase, resolveSeen, stuckSeen, cancelSeen>>
allVars == <<vars, raceVars>>

RaceTypeOK ==
    /\ TypeOK
    /\ openSeen \in [Matches -> MatchStates \cup {None}]
    /\ secondCase \in [Matches -> CaseStates \cup {None}]
    /\ resolveSeen \in [Matches -> CaseStates \cup {None}]
    /\ \A r \in Requests : Cardinality(stuckSeen[r]) <= 1
    /\ \A r \in Requests : cancelSeen[r] \subseteq SUBSET PartsOf(r)

RaceInit ==
    /\ Init
    /\ openSeen = [m \in Matches |-> None]
    /\ secondCase = [m \in Matches |-> None]
    /\ resolveSeen = [m \in Matches |-> None]
    /\ stuckSeen = [r \in Requests |-> {}]
    /\ cancelSeen = [r \in Requests |-> {}]

-----------------------------------------------------------------------------
(* A running cancel holds the lock of its request's row.                   *)
LockedRequestsStay ==
    \A r \in Requests : cancelSeen[r] # {} =>
        UNCHANGED <<reqState[r], reqLocked[r], reqCompleted[r]>>

-----------------------------------------------------------------------------
(* P2pEscalationService.open reads "no open case" and the match outside    *)
(* its transaction; the intent is read inside.                             *)

ReadForOpen(m) ==
    /\ "open" \in Slow
    /\ openSeen[m] = None
    /\ secondCase[m] \notin OpenCase
    /\ MayOpen(m)
    /\ openSeen' = [openSeen EXCEPT ![m] = matchStatus[m]]
    /\ UNCHANGED <<vars, secondCase, resolveSeen, stuckSeen, cancelSeen>>

(* Mutant: the intent is escalated without looking at its state.           *)
WriteOpenUnchecked(m) ==
    LET i == matchIntent[m] IN
    /\ openSeen[m] # None
    /\ openSeen' = [openSeen EXCEPT ![m] = None]
    /\ matchStatus' = [matchStatus EXCEPT ![m] = "ESCALATED"]
    /\ intentState' = [intentState EXCEPT ![i] = "ESCALATED_TO_ADMIN"]
    /\ depositRow' = [depositRow EXCEPT ![i] = "PROCESSING"]
    /\ caseState' = [caseState EXCEPT ![m] = "OPEN"]
    /\ UNCHANGED <<requestVars, windowOver, partVars, retries, matchIntent,
                   matchPart, owedVars, walletVars, secondCase, resolveSeen,
                   stuckSeen, cancelSeen>>

(* The match is judged and saved as it was read.                           *)
WriteOpen(m) ==
    LET i == matchIntent[m] IN
    /\ openSeen[m] # None
    /\ MatchMay(openSeen[m], "ESCALATED")
    /\ MoveIntent(i, "ESCALATED_TO_ADMIN")
    /\ openSeen' = [openSeen EXCEPT ![m] = None]
    /\ matchStatus' = IF openSeen[m] = "ESCALATED" THEN matchStatus
                      ELSE [matchStatus EXCEPT ![m] = "ESCALATED"]
    /\ depositRow' = IF intentState[i] = "ESCALATED_TO_ADMIN" THEN depositRow
                     ELSE [depositRow EXCEPT ![i] = "PROCESSING"]
    /\ IF caseState[m] = None
       THEN /\ caseState' = [caseState EXCEPT ![m] = "OPEN"]
            /\ UNCHANGED secondCase
       ELSE /\ secondCase' = [secondCase EXCEPT ![m] = "OPEN"]
            /\ UNCHANGED caseState
    /\ UNCHANGED <<requestVars, windowOver, partVars, matchIntent, matchPart,
                   owedVars, walletVars, resolveSeen, stuckSeen, cancelSeen>>

-----------------------------------------------------------------------------
(* P2pEscalationService.resolve reads the case outside its transaction and *)
(* saves it after it.                                                      *)

ReadCase(m) ==
    /\ "resolve" \in Slow
    /\ resolveSeen[m] = None
    /\ caseState[m] \in OpenCase
    /\ resolveSeen' = [resolveSeen EXCEPT ![m] = caseState[m]]
    /\ UNCHANGED <<vars, openSeen, secondCase, stuckSeen, cancelSeen>>

StatusAfter(d, seen) == IF d = "REQUEST_MORE_EVIDENCE" THEN seen ELSE "RESOLVED"

WriteDecision(m, d) ==
    /\ resolveSeen[m] # None
    /\ Decide(m, d)
    /\ LockedRequestsStay
    /\ caseState' = [caseState EXCEPT ![m] = StatusAfter(d, resolveSeen[m])]
    /\ resolveSeen' = [resolveSeen EXCEPT ![m] = None]
    /\ UNCHANGED <<windowOver, owedVars, openSeen, secondCase, stuckSeen,
                   cancelSeen>>

(* The second case of a match is resolved like the first.                  *)
ResolveSecond(m, d) ==
    /\ secondCase[m] \in OpenCase
    /\ Decide(m, d)
    /\ LockedRequestsStay
    /\ secondCase' = [secondCase EXCEPT ![m] = StatusAfter(d, @)]
    /\ UNCHANGED <<windowOver, owedVars, caseState, openSeen, resolveSeen,
                   stuckSeen, cancelSeen>>

-----------------------------------------------------------------------------
(* P2pCronService.settlementTimeout finds the stuck requests, then saves   *)
(* them one by one with no lock.                                           *)

ReadStuck(r) ==
    /\ "timeout" \in Slow
    /\ stuckSeen[r] = {}
    /\ windowOver[r]
    /\ reqState[r] = "PARTIALLY_MATCHED"
    /\ stuckSeen' = [stuckSeen EXCEPT ![r] =
                        {[locked |-> reqLocked[r], completed |-> reqCompleted[r]]}]
    /\ UNCHANGED <<vars, openSeen, secondCase, resolveSeen, cancelSeen>>

SaveStuck(r) ==
    \E seen \in stuckSeen[r] :
        /\ cancelSeen[r] = {}
        /\ stuckSeen' = [stuckSeen EXCEPT ![r] = {}]
        /\ reqState' = [reqState EXCEPT ![r] = "ADMIN_SETTLEMENT"]
        /\ reqLocked' = [reqLocked EXCEPT ![r] = seen.locked]
        /\ reqCompleted' = [reqCompleted EXCEPT ![r] = seen.completed]
        /\ UNCHANGED <<withdrawRow, windowOver, partVars, intentVars, matchVars,
                       caseState, owedVars, walletVars, openSeen, secondCase,
                       resolveSeen, cancelSeen>>

-----------------------------------------------------------------------------
(* P2pWithdrawService.cancel locks the request row only: a reservation     *)
(* locks the part row and comes between the count and the saves.           *)

CountBusy(r) ==
    /\ "cancel" \in Slow
    /\ cancelSeen[r] = {}
    /\ WithdrawMay(reqState[r], "CANCELLED") /\ reqState[r] # "CANCELLED"
    /\ \A p \in PartsOf(r) : partStatus[p] \notin BusyPart
    /\ cancelSeen' = [cancelSeen EXCEPT ![r] =
                        {{p \in PartsOf(r) : partStatus[p] = "OPEN"}}]
    /\ UNCHANGED <<vars, openSeen, secondCase, resolveSeen, stuckSeen>>

(* Mutant: every part is closed, confirmed ones too.                       *)
SaveCancelledAll(r) ==
    /\ cancelSeen[r] # {}
    /\ ReleaseLock(r)
    /\ partStatus' = [p \in Parts |->
            IF RequestOf[p] = r THEN "CANCELLED" ELSE partStatus[p]]
    /\ reqState' = [reqState EXCEPT ![r] = "CANCELLED"]
    /\ withdrawRow' = [withdrawRow EXCEPT ![r] = "CANCELLED"]
    /\ cancelSeen' = [cancelSeen EXCEPT ![r] = {}]
    /\ UNCHANGED <<reqCompleted, windowOver, partRes, intentVars, matchVars,
                   caseState, owedVars, openSeen, secondCase, resolveSeen,
                   stuckSeen>>

SaveCancelled(r) ==
    \E open \in cancelSeen[r] :
        /\ ReleaseLock(r)
        /\ partStatus' = [p \in Parts |-> IF p \in open THEN "CANCELLED" ELSE partStatus[p]]
        /\ partRes' = [p \in Parts |-> IF p \in open THEN NoMatch ELSE partRes[p]]
        /\ reqState' = [reqState EXCEPT ![r] = "CANCELLED"]
        /\ withdrawRow' = [withdrawRow EXCEPT ![r] = "CANCELLED"]
        /\ cancelSeen' = [cancelSeen EXCEPT ![r] = {}]
        /\ UNCHANGED <<reqCompleted, windowOver, intentVars, matchVars, caseState,
                       owedVars, openSeen, secondCase, resolveSeen, stuckSeen>>

-----------------------------------------------------------------------------
(* A step of another caller; open finds the second case like the first.    *)
WholeStep ==
    /\ Next
    /\ LockedRequestsStay
    /\ \A m \in Matches : secondCase[m] \in OpenCase =>
        (caseState'[m] \in OpenCase => caseState[m] \in OpenCase)
    /\ UNCHANGED raceVars

RaceNext ==
    \/ WholeStep
    \/ \E m \in Matches :
        \/ ReadForOpen(m) \/ WriteOpen(m) \/ ReadCase(m)
        \/ \E d \in Resolutions : WriteDecision(m, d) \/ ResolveSecond(m, d)
    \/ \E r \in Requests :
        ReadStuck(r) \/ SaveStuck(r) \/ CountBusy(r) \/ SaveCancelled(r)

RaceSpec == RaceInit /\ [][RaceNext]_allVars

-----------------------------------------------------------------------------

(* "Idempotent: a match that already has an open case is not escalated     *)
(* twice, which matters because reject and response-timeout can race."     *)
EscalatedOnce ==
    \A m \in Matches :
        ~(caseState[m] \in OpenCase /\ secondCase[m] \in OpenCase)

(* However escalations and decisions interleave, nothing that was settled  *)
(* is touched again: the intent's own state stops every late writer.       *)
SettledStays == [][SettledStep]_allVars
=============================================================================
