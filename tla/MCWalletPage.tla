---------------------------- MODULE MCWalletPage ----------------------------
(* WalletPage on a small instance: a restored wallet, paid past an unused address,
   and a fresh one that may be paid at its first address meanwhile. *)
EXTENDS WalletPage
CONSTANTS w1, w2

MCPaid == [w \in {w1, w2} |-> IF w = w1 THEN {1} ELSE {}]
MCPaidLater == [w \in {w1, w2} |-> IF w = w1 THEN {} ELSE {0}]
MCFirstHeld == {{w1}, {w1, w2}}
ASSUME PaymentsAreInReach == PaidWithinGap
=============================================================================
