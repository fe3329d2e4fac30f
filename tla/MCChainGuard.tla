---------------------------- MODULE MCChainGuard ----------------------------
(* One guarded server and a backend that may be one of two chains. *)
EXTENDS ChainGuard
CONSTANTS main, test, r1
=============================================================================
