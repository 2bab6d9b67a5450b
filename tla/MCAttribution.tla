---------------------------- MODULE MCAttribution ---------------------------
(* Attribution for TLC: cgroup ids are interchangeable, and the wall clock *)
(* has been set forward between a cgroup's creation and the daemon's start.*)
EXTENDS Attribution, TLC

Symmetry == Permutations(Ids)

SteppedForward == -2
=============================================================================
