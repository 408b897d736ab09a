--------------------------- MODULE PaymentPromises ---------------------------
(***************************************************************************)
(* What GatewayPayments must keep although its tasks overwrite each other, *)
(* messages are lost or repeated, and either program may crash.            *)
(***************************************************************************)
EXTENDS GatewayPayments

(* completeGatewayX and process book a row's amount and close the row in   *)
(* one transaction.  A row is booked a second time only if a task has      *)
(* saved a status over one it had not read: without such a save, COMPLETED *)
(* means booked once, and every other status not booked.                   *)
SecondBookingIsStale ==
    \A r \in Rows : Booked(r) <= stale[r] + (IF row[r] = "COMPLETED" THEN 1 ELSE 0)

(* Whatever is repeated or overtaken, a wallet is explained by the         *)
(* transactions booked on it, and no withdrawal has overdrawn it.          *)
WalletIsExplained ==
    \A u \in Users :
        /\ wallet[u] = Funds[u] + SumFunctionOnSet(Entries, OwnedBy(u, Deposits))
                                - SumFunctionOnSet(Entries, OwnedBy(u, Withdrawals))
        /\ wallet[u] >= 0

(* A succeeded event is only believed about money the gateway has moved:   *)
(* no callback, early or repeated, credits a deposit that nobody paid.      *)
CreditWasPaid ==
    \A r \in Rows : byEvent[r] > 0 => \E n \in Copies : moved[r][n] > 0

(* Money leaves for a withdrawal at most once per approval that reached    *)
(* goldex-cbp, repeated deliveries included.                               *)
TransfersWereApproved ==
    \A r \in Withdrawals :
        SumFunctionOnSet(moved[r], Copies) <= approvals[r] + repeated

(* Every failure is reported, so that nobody waits on a pending row: the   *)
(* request of a gateway deposit is answered, and a payment that succeeded  *)
(* closes its row, unless something was lost.                              *)
RequestsAreAnswered ==
    /\ \A r \in Deposits :
        (Msg("request", r, 0) \in bus \/ charging[r] > 0)
            ~> (row[r] # "PENDING" \/ lost > 0)
    /\ \A r \in Deposits : \A n \in Copies :
        pay[r][n] = "SUCCEEDED" ~> (row[r] \in Terminal \/ lost > 0 \/ stale[r] > 0)
=============================================================================
