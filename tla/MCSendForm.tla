----------------------------- MODULE MCSendForm -----------------------------
(* A form under two prices, one of which the other's sats are floored at. *)
EXTENDS SendForm, TLC
CONSTANTS r1, r2

\* The slots of reviews are interchangeable.
Symmetry == Permutations({r1, r2})
=============================================================================
