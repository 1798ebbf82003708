------------------------------ MODULE MCLease -------------------------------
(* Instances of Lease for TLC. *)
EXTENDS Lease, TLC

Symmetry == Permutations(Owners)
=============================================================================
