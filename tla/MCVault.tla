------------------------------ MODULE MCVault ------------------------------
(* Vault on small instances: two tabs of one profile. *)
EXTENDS VaultRefinement, TLC
CONSTANTS s1, s2, s3, n1, n2, n3, t1, t2, c1, c2

\* Tabs, calls, seeds and names are interchangeable.
Symmetry == Permutations({t1, t2}) \cup Permutations({c1, c2})
              \cup Permutations({s1, s2, s3}) \cup Permutations({n1, n2, n3})
=============================================================================
