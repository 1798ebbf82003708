---------------------------- MODULE MCKeyedLock -----------------------------
(* Instances of KeyedLock for TLC. *)
EXTENDS KeyedLock, TLC

Symmetry == Permutations(Callers) \cup Permutations(Keys)
=============================================================================
