-------------------------- MODULE MCResponseSession --------------------------
(* Symmetry for the runs of ResponseSession: tasks and members are         *)
(* interchangeable, and no safety property or liveness run depends on one. *)
EXTENDS ResponseSession, TLC

Symmetry == Permutations(Tasks) \cup Permutations(Sessions)
=============================================================================
