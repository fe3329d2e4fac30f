------------------------------ MODULE MCFaucet ------------------------------
(* The faucet with a few claims, addresses and IPs. *)
EXTENDS Faucet, TLC
CONSTANTS a1, a2, a3, i1, i2, q1, q2

Symmetry == Permutations({a1, a2}) \cup Permutations({i1, i2}) \cup Permutations({q1, q2})
=============================================================================
