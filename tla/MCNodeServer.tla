---------------------------- MODULE MCNodeServer ----------------------------
(* Constants for model checking NodeServer. *)
EXTENDS NodeServer, TLC

CONSTANTS v1, v2, t1, t2, t3

\* One pod, two pods that use one share, and three pods of which two have an
\* encrypted RFS share each and the third a share that is mounted directly.
OnlyOne  == t1 :> v1
OneShare == t1 :> v1 @@ t2 :> v1
AllKinds == t1 :> v1 @@ t2 :> v2 @@ t3 :> NoVolume

Handlers == Permutations(Procs)
=============================================================================
