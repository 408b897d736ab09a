------------------------------ MODULE MCOrders ------------------------------
(***************************************************************************)
(* Instance of OrderPromises for TLC: a quote of alice that buys and bob   *)
(* may take; her limit orders rival and bid, which her balance does not    *)
(* cover together; or bid and bob's ask and cross, which may rest before   *)
(* bid or come while the legs of bid are settled.                          *)
(***************************************************************************)
EXTENDS OrderPromises

CONSTANTS quote, rival, bid, ask, cross, alice, bob, t1, t2

OwnerDef == [o \in Orders |-> IF o \in {ask, cross} THEN bob ELSE alice]
SideDef == [o \in Orders |-> IF o \in {ask, cross} THEN "SELL" ELSE "BUY"]
QtyDef == [o \in Orders |-> IF o = bid THEN 2 ELSE 1]
PriceDef == [o \in Orders |-> IF o = bid THEN 2 ELSE IF o = rival THEN 3 ELSE 1]
FeeDef == [o \in Orders |-> IF o = quote THEN 1 ELSE 0]
FundsDef == [w \in Wallets |-> IF w = <<alice, "rial">> THEN 4 ELSE 2]
RequesterDef == [o \in Quote |-> bob]
GetsDef == [o \in Market |-> 1]

SlotsDef == [o \in Orders |->
    IF o = quote THEN Tasks ELSE IF o \in {bid, ask} THEN {t1} ELSE {}]

TogetherDef == {{quote}, {rival, bid}, {bid, ask, cross}}
=============================================================================
