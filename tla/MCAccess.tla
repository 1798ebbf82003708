------------------------------ MODULE MCAccess ------------------------------
(* Instances of Access for TLC. *)
EXTENDS Access, TLC

Symmetry == Permutations(Users) \cup Permutations(Calls)

(* No step of the tokens reads or writes what a step of the users does, so *)
(* a behaviour stays one without either: they are explored apart.          *)
Apart ==
  \/ tokens = <<>> /\ \A c \in Calls : ~At(c, "token:insert")
  \/ joining = [u \in Users |-> "no"] /\ Registered = {}
=============================================================================
