---------------------------- MODULE PartReservation ----------------------------
(***************************************************************************)
(* What the market promises about reservations.  A part of a withdrawal is *)
(* on offer or not; a match takes a part alone (or an account of the       *)
(* company, NoPart); while the match is held the part comes back by itself *)
(* at any time; once it is paid, nothing but a confirmation or a decision  *)
(* ends it, and a settled match or part stays settled.                     *)
(* P2pMarket implements this module (ImplementsReservation).               *)
(***************************************************************************)
CONSTANTS Parts, Matches, NoPart, NoMatch

VARIABLES
    part,   \* of a part: "off", "offered", "held", "paid" or "settled"
    taker,  \* the match that has the part, or NoMatch
    phase,  \* of a match: "new", "held", "paid", "settled" or "dropped"
    target  \* the part a match is for

vars == <<part, taker, phase, target>>

TypeOK ==
    /\ part \in [Parts -> {"off", "offered", "held", "paid", "settled"}]
    /\ taker \in [Parts -> Matches \cup {NoMatch}]
    /\ phase \in [Matches -> {"new", "held", "paid", "settled", "dropped"}]
    /\ target \in [Matches -> Parts \cup {NoPart}]

Init ==
    /\ part = [p \in Parts |-> "off"]
    /\ taker = [p \in Parts |-> NoMatch]
    /\ phase = [m \in Matches |-> "new"]
    /\ target = [m \in Matches |-> NoPart]

(* Parts go on offer with their request and off with it; a part somebody   *)
(* has taken is left alone.                                                *)
OfferOrClose ==
    /\ part' \in [Parts -> {"off", "offered", "held", "paid", "settled"}]
    /\ \A p \in Parts :
        part'[p] # part[p] => {part[p], part'[p]} = {"off", "offered"}
    /\ UNCHANGED <<taker, phase, target>>

Take(m, p) ==
    /\ phase[m] = "new"
    /\ phase' = [phase EXCEPT ![m] = "held"]
    /\ target' = [target EXCEPT ![m] = p]
    /\ IF p = NoPart
       THEN UNCHANGED <<part, taker>>
       ELSE /\ part[p] = "offered"
            /\ part' = [part EXCEPT ![p] = "held"]
            /\ taker' = [taker EXCEPT ![p] = m]

(* The part of m leaves the match for state s.                             *)
Free(m, s) ==
    LET p == target[m] IN
    IF p = NoPart
    THEN UNCHANGED <<part, taker>>
    ELSE /\ taker[p] = m
         /\ part' = [part EXCEPT ![p] = s]
         /\ taker' = [taker EXCEPT ![p] = NoMatch]

Return(m) ==
    /\ phase[m] = "held"
    /\ phase' = [phase EXCEPT ![m] = "dropped"]
    /\ Free(m, "offered")
    /\ UNCHANGED target

Pay(m) ==
    /\ phase[m] = "held"
    /\ phase' = [phase EXCEPT ![m] = "paid"]
    /\ IF target[m] = NoPart
       THEN UNCHANGED part
       ELSE /\ taker[target[m]] = m
            /\ part' = [part EXCEPT ![target[m]] = "paid"]
    /\ UNCHANGED <<taker, target>>

Confirm(m) ==
    /\ phase[m] = "paid"
    /\ phase' = [phase EXCEPT ![m] = "settled"]
    /\ Free(m, "settled")
    /\ UNCHANGED target

(* An admin's decision against the payment: the part is offered again,     *)
(* taken off, or settled by the company.                                   *)
Dismiss(m) ==
    /\ phase[m] = "paid"
    /\ phase' = [phase EXCEPT ![m] = "dropped"]
    /\ \E s \in {"offered", "off", "settled"} : Free(m, s)
    /\ UNCHANGED target

Next ==
    \/ OfferOrClose
    \/ \E m \in Matches :
        \/ \E p \in Parts \cup {NoPart} : Take(m, p)
        \/ Return(m) \/ Pay(m) \/ Confirm(m) \/ Dismiss(m)

Spec == Init /\ [][Next]_vars
=============================================================================
