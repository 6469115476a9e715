------------------------------ MODULE MCStorage -----------------------------
(***************************************************************************)
(* DurableStorage for TLC.  Keys, values and threads are model values that *)
(* the specification only compares: permuting them is a symmetry.          *)
(***************************************************************************)
EXTENDS DurableStorage, TLC

Symmetry == Permutations(Keys) \cup Permutations(Values) \cup Permutations(Threads)
=============================================================================
