---------------------------- MODULE RepairBudget ----------------------------
(***************************************************************************)
(* What the repair budget of a coding task promises to a client: repair    *)
(* attempts happen one at a time, each one is charged exactly once when it *)
(* is completed, and none is opened when the budget is spent.  The         *)
(* detailed behaviour of the tool calls is in module CodingTask.           *)
(***************************************************************************)
EXTENDS Naturals

CONSTANT Limit     \* repairCycleLimit

VARIABLES spent,   \* completed attempts
          open     \* is an attempt open?

budget == <<spent, open>>

Init == spent = 0 /\ open = FALSE

Open == /\ ~open
        /\ spent < Limit
        /\ open' = TRUE
        /\ UNCHANGED spent

Charge == /\ open
          /\ open' = FALSE
          /\ spent' = spent + 1

Next == Open \/ Charge

Spec == Init /\ [][Next]_budget
=============================================================================
