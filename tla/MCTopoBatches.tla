---------------------------- MODULE MCTopoBatches ----------------------------
(* Every dependency graph on four nodes. *)
EXTENDS TopoBatches
MCNodes == 1..4
=============================================================================
