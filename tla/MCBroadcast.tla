---------------------------- MODULE MCBroadcast ----------------------------
(* Two payments over two coins, one of them signed up to twice. *)
EXTENDS Broadcast, TLC
CONSTANTS x1, x2, x3, p1, p2, k1, k2, t1, t2

\* x1 and x2 pay the same over different coins; x3 contends for the coin of x2, and
\* pushes a record of either out of the journal.
MCPaysFor == x1 :> p1 @@ x2 :> p1 @@ x3 :> p2
MCSpends == x1 :> {k1} @@ x2 :> {k2} @@ x3 :> {k2}

Symmetry == Permutations({t1, t2})
=============================================================================
