----------------------------- MODULE MCPrRepair -----------------------------
(* Instances of PrRepair for TLC. *)
EXTENDS PrRepair, TLC

Symmetry == Permutations(Calls)

(* No guard and no property of the instance that uses this view tells two  *)
(* states apart that are neither REPAIRING nor BLOCKED, and evidence only  *)
(* chooses between two of these: rows that differ in nothing else are one. *)
Seen(row) ==
  [row EXCEPT !.state = IF @ \in {"REPAIRING", "BLOCKED"} THEN @ ELSE "other"]
View == <<remote, worker, [r \in Repairs |-> <<Seen(mem[r]), Seen(disk[r])>>],
          bound, calls, told, commits, faults>>
=============================================================================
