------------------------------ MODULE MCIndexer ------------------------------
(* Two requests over at most two sessions: for positions, the first one perhaps
   for the details of the redeeming transaction. *)
EXTENDS Indexer
MCKinds == <<{"positions", "tx"}, {"positions"}>>
=============================================================================
