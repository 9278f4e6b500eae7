---------------------------- MODULE MCSnapshots -----------------------------
(* Constants for model checking Snapshots. *)
EXTENDS Snapshots
=============================================================================
