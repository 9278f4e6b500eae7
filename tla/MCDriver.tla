------------------------------ MODULE MCDriver ------------------------------
(* Constants for model checking Driver. *)
EXTENDS Driver
=============================================================================
