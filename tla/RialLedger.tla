------------------------------ MODULE RialLedger ------------------------------
(***************************************************************************)
(* What the p2p market promises about money, whatever its rows say: a      *)
(* wallet is a free and a held amount; rial is set aside, handed back,     *)
(* paid out of what was set aside, or paid by one owner to another.  No    *)
(* step makes rial or takes an amount the wallet does not have.            *)
(* P2pMarket implements this module with its wallets (ImplementsLedger).   *)
(***************************************************************************)
EXTENDS Integers

CONSTANTS Owners, Funds

VARIABLES free, held

TypeOK ==
    /\ free \in [Owners -> Nat]
    /\ held \in [Owners -> Nat]

Init ==
    /\ free = Funds
    /\ held = [u \in Owners |-> 0]

(* A withdrawal sets its total aside.                                      *)
Hold(u) ==
    \E a \in 1 .. free[u] :
        /\ free' = [free EXCEPT ![u] = @ - a]
        /\ held' = [held EXCEPT ![u] = @ + a]

(* Cancelling or expiring it hands back what is left.                      *)
Release(u) ==
    \E a \in 1 .. held[u] :
        /\ free' = [free EXCEPT ![u] = @ + a]
        /\ held' = [held EXCEPT ![u] = @ - a]

(* A confirmed payment moves held rial of u to the free balance of v.      *)
Settle(u, v) ==
    \E a \in 1 .. held[u] :
        /\ held' = [held EXCEPT ![u] = @ - a]
        /\ free' = [free EXCEPT ![v] = @ + a]

(* The company pays v out of its free balance.                             *)
Pay(u, v) ==
    \E a \in 1 .. free[u] :
        /\ free' = [free EXCEPT ![u] = @ - a, ![v] = @ + a]
        /\ UNCHANGED held

Next ==
    \/ \E u \in Owners : Hold(u) \/ Release(u)
    \/ \E u, v \in Owners : Settle(u, v) \/ Pay(u, v)

Spec == Init /\ [][Next]_<<free, held>>
=============================================================================
