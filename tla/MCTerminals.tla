---------------------------- MODULE MCTerminals -----------------------------
(* Instances of Terminals for TLC. *)
EXTENDS Terminals, TLC

Symmetry == Permutations(Calls)

(* The bytes that have left the buffer are kept for the proofs only: no    *)
(* step and no property of the run looks at them.                          *)
View == <<workspace, terminals, ignored, buffer, min, Len(text), client, calls>>
=============================================================================
