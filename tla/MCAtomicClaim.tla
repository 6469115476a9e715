---------------------------- MODULE MCAtomicClaim ----------------------------
(* Workers and tasks are interchangeable. *)
EXTENDS AtomicClaim, TLC

Symmetry == Permutations(Workers) \cup Permutations(Tasks)
=============================================================================
