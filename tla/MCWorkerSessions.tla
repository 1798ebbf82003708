-------------------------- MODULE MCWorkerSessions --------------------------
(* Instances of WorkerSessions for TLC. *)
EXTENDS WorkerSessions, TLC

Symmetry == Permutations(Sessions) \cup Permutations(Calls)
=============================================================================
