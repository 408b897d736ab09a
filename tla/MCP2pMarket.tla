----------------------------- MODULE MCP2pMarket -----------------------------
(***************************************************************************)
(* Instances of P2pMarket for TLC.  One or two withdrawal requests in      *)
(* parts of size 1, deposits of size 1 (matching wants equal amounts, so   *)
(* sizes only matter to the sums), a company wallet that can cover them.   *)
(***************************************************************************)
EXTENDS P2pPromises, TLC

CONSTANTS w, d1, d2, co,    \* a withdrawer, two depositors, the company
          r1, r2, p1, p2, p3, i1, i2, i3, m1, m2, m3

UsersDef == {w, d1, d2, co}

\* One request in two parts, two depositors.
OneRequest == [r \in {r1} |-> w]
TwoParts == [p \in {p1, p2} |-> r1]
TwoPartsTotal == [r \in {r1} |-> 2]
TwoPartsTarget == [p \in {p1, p2} |-> 1]
TwoDepositors == (i1 :> d1) @@ (i2 :> d2)
TwoAmounts == [i \in {i1, i2} |-> 1]
FundsDef == (w :> 2) @@ (d1 :> 0) @@ (d2 :> 0) @@ (co :> 1)

\* Two requests: w's in two parts, and one of d1, who deposits as well.
TwoRequests == (r1 :> w) @@ (r2 :> d1)
TwoAndOneParts == (p1 :> r1) @@ (p2 :> r1) @@ (p3 :> r2)
TwoAndOneTotal == (r1 :> 2) @@ (r2 :> 1)
TwoAndOneTarget == [p \in {p1, p2, p3} |-> 1]
TwoAndOneFunds == (w :> 2) @@ (d1 :> 1) @@ (d2 :> 0) @@ (co :> 1)

\* One request in one part, two deposits of one depositor.
OnePart == [p \in {p1} |-> r1]
OnePartTotal == [r \in {r1} |-> 1]
OnePartTarget == [p \in {p1} |-> 1]
SameDepositor == [i \in {i1, i2} |-> d1]

\* One request in three parts, three deposits.
ThreeParts == [p \in {p1, p2, p3} |-> r1]
ThreePartsTotal == [r \in {r1} |-> 3]
ThreePartsTarget == [p \in {p1, p2, p3} |-> 1]
ThreeDepositors == [i \in {i1, i2, i3} |-> d1]
ThreeAmounts == [i \in {i1, i2, i3} |-> 1]
ThreeFunds == (w :> 3) @@ (d1 :> 0) @@ (d2 :> 0) @@ (co :> 0)

Both == {TRUE, FALSE}
Always == {TRUE}
Never == {FALSE}

\* Match ids are fresh uuids; with one depositor and equal amounts the
\* intents and the parts of the one request are alike as well; and so are
\* the two parts of r1 next to a request of another owner.
MatchesAreAlike == Permutations(Matches)
PartsAreAlike == Permutations(Matches) \cup Permutations({p1, p2})
RowsAreAlike == Permutations(Matches) \cup Permutations(Intents) \cup Permutations(Parts)
=============================================================================
