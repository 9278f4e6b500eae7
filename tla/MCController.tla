---------------------------- MODULE MCController ----------------------------
(* Constants for model checking Controller. *)
EXTENDS Controller, TLC

\* Handlers and share IDs are interchangeable.
Symmetry == Permutations(Handlers) \cup Permutations(ShareIds)
=============================================================================
