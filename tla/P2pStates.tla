------------------------------ MODULE P2pStates ------------------------------
(***************************************************************************)
(* The state machines of the rial p2p market, as the tables that every     *)
(* service consults before it moves a row: withdrawal requests, their      *)
(* parts, deposit intents, the matches between an intent and a part, and   *)
(* the escalation cases.  "NONE" is the state of a row that has not been   *)
(* inserted yet; it appears in no table.                                   *)
(***************************************************************************)

None == "NONE"

WithdrawStates ==
    {"DRAFT", "PENDING_MATCHING", "PARTIALLY_MATCHED", "ADMIN_SETTLEMENT",
     "COMPLETED", "EXPIRED", "CANCELLED"}

IntentStates ==
    {"CREATED", "MATCHING", "NO_MATCH", "RESERVED", "AWAITING_PAYMENT",
     "PAYMENT_PROOF_SUBMITTED", "WAITING_WITHDRAWER_CONFIRMATION",
     "REJECTED_BY_WITHDRAWER", "WITHDRAWER_RESPONSE_TIMEOUT",
     "ESCALATED_TO_ADMIN", "CONFIRMED", "REJECTED", "REFUNDED",
     "MORE_INFO_REQUESTED", "EXPIRED", "CANCELLED"}

PartStates ==
    {"OPEN", "RESERVED", "PAID_PENDING", "CONFIRMED", "CANCELLED", "EXPIRED"}

MatchStates ==
    {"RESERVED", "AWAITING_PAYMENT", "PROOF_SUBMITTED", "WAITING_CONFIRMATION",
     "CONFIRMED", "REJECTED_BY_WITHDRAWER", "RESPONSE_TIMEOUT", "ESCALATED",
     "RESERVATION_EXPIRED", "CANCELLED"}

CaseStates == {"OPEN", "ASSIGNED", "RESOLVED", "VOID"}

Resolutions ==
    {"CONFIRM_PAYMENT", "REJECT_PAYMENT", "REQUEST_MORE_EVIDENCE",
     "SETTLE_FROM_ADMIN", "REOPEN_MATCHING", "CANCEL_REQUEST"}

-----------------------------------------------------------------------------

WithdrawTable(from, to) ==
    \/ from = "DRAFT" /\ to \in {"PENDING_MATCHING", "CANCELLED"}
    \/ /\ from = "PENDING_MATCHING"
       /\ to \in {"PARTIALLY_MATCHED", "COMPLETED", "ADMIN_SETTLEMENT",
                  "EXPIRED", "CANCELLED"}
    \/ /\ from = "PARTIALLY_MATCHED"
       /\ to \in {"PARTIALLY_MATCHED", "COMPLETED", "ADMIN_SETTLEMENT",
                  "EXPIRED"}
    \/ /\ from = "ADMIN_SETTLEMENT"
       /\ to \in {"COMPLETED", "CANCELLED", "EXPIRED"}
    \/ from = "EXPIRED" /\ to \in {"PENDING_MATCHING"}

IntentTable(from, to) ==
    \/ from = "CREATED" /\ to \in {"MATCHING", "CANCELLED", "EXPIRED"}
    \/ /\ from = "MATCHING"
       /\ to \in {"RESERVED", "NO_MATCH", "CANCELLED", "EXPIRED"}
    \/ from = "NO_MATCH" /\ to \in {"MATCHING", "CANCELLED", "EXPIRED"}
    \/ /\ from = "RESERVED"
       /\ to \in {"AWAITING_PAYMENT", "PAYMENT_PROOF_SUBMITTED",
                  "MATCHING", "CANCELLED", "EXPIRED"}
    \/ /\ from = "AWAITING_PAYMENT"
       /\ to \in {"PAYMENT_PROOF_SUBMITTED", "MATCHING", "CANCELLED",
                  "EXPIRED"}
    \/ /\ from = "PAYMENT_PROOF_SUBMITTED"
       /\ to \in {"WAITING_WITHDRAWER_CONFIRMATION", "ESCALATED_TO_ADMIN"}
    \/ /\ from = "WAITING_WITHDRAWER_CONFIRMATION"
       /\ to \in {"CONFIRMED", "REJECTED_BY_WITHDRAWER",
                  "WITHDRAWER_RESPONSE_TIMEOUT", "ESCALATED_TO_ADMIN"}
    \/ /\ from \in {"REJECTED_BY_WITHDRAWER", "WITHDRAWER_RESPONSE_TIMEOUT"}
       /\ to \in {"ESCALATED_TO_ADMIN"}
    \/ /\ from = "ESCALATED_TO_ADMIN"
       /\ to \in {"CONFIRMED", "REJECTED", "REFUNDED",
                  "MORE_INFO_REQUESTED", "MATCHING", "CANCELLED"}
    \/ /\ from = "MORE_INFO_REQUESTED"
       /\ to \in {"ESCALATED_TO_ADMIN", "CONFIRMED", "REJECTED",
                  "REFUNDED"}

PartTable(from, to) ==
    \/ from = "OPEN" /\ to \in {"RESERVED", "CANCELLED", "EXPIRED"}
    \/ /\ from = "RESERVED"
       /\ to \in {"PAID_PENDING", "OPEN", "CANCELLED", "EXPIRED"}
    \/ from = "PAID_PENDING" /\ to \in {"CONFIRMED", "OPEN", "CANCELLED"}
    \/ from = "EXPIRED" /\ to \in {"OPEN"}

MatchTable(from, to) ==
    \/ /\ from = "RESERVED"
       /\ to \in {"AWAITING_PAYMENT", "PROOF_SUBMITTED", "CANCELLED",
                  "RESERVATION_EXPIRED"}
    \/ /\ from = "AWAITING_PAYMENT"
       /\ to \in {"PROOF_SUBMITTED", "CANCELLED", "RESERVATION_EXPIRED"}
    \/ /\ from = "PROOF_SUBMITTED"
       /\ to \in {"WAITING_CONFIRMATION", "ESCALATED"}
    \/ /\ from = "WAITING_CONFIRMATION"
       /\ to \in {"CONFIRMED", "REJECTED_BY_WITHDRAWER",
                  "RESPONSE_TIMEOUT", "ESCALATED"}
    \/ /\ from \in {"REJECTED_BY_WITHDRAWER", "RESPONSE_TIMEOUT"}
       /\ to \in {"ESCALATED"}
    \/ from = "ESCALATED" /\ to \in {"CONFIRMED", "CANCELLED"}

CaseTable(from, to) ==
    \/ from = "OPEN" /\ to \in {"ASSIGNED", "RESOLVED", "VOID"}
    \/ from = "ASSIGNED" /\ to \in {"RESOLVED", "VOID"}

(* assert(): a move to the state the row is already in always passes.      *)
WithdrawMay(from, to) == from = to \/ WithdrawTable(from, to)
IntentMay(from, to)   == from = to \/ IntentTable(from, to)
PartMay(from, to)     == from = to \/ PartTable(from, to)
MatchMay(from, to)    == from = to \/ MatchTable(from, to)
CaseMay(from, to)     == from = to \/ CaseTable(from, to)
=============================================================================
