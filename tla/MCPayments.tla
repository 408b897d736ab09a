----------------------------- MODULE MCPayments -----------------------------
(* Instances of GatewayPayments for TLC: a deposit or a withdrawal of a user *)
(* whose wallet covers the withdrawal once.                                  *)
EXTENDS PaymentPromises, TLC

CONSTANTS d, w, u

OwnerDef == [r \in {d, w} |-> u]
AmountDef == [r \in {d, w} |-> 1]
FundsDef == [x \in {u} |-> 1]
LimitDef == [x \in {u} |-> 1]
=============================================================================
