-------------------------- MODULE MCStunnelManager --------------------------
(* Constants for model checking StunnelManager. *)
EXTENDS StunnelManager, TLC

\* Handlers and volumes are interchangeable: the code never compares them.
Symmetry == Permutations(Procs) \cup Permutations(Volumes)
=============================================================================
