---------------------------- MODULE MCCodingTask ----------------------------
(* Instances of CodingTask for TLC. *)
EXTENDS CodingTask, TLC

(* Calls are interchangeable. *)
Symmetry == Permutations(Calls)

(* Everything the verdict of the completion gate depends on. *)
GateTools == { "repository_intelligence_scan", "coding_plan_set",
               "coding_plan_update_step", "execution_record_command",
               "validation_cycle_complete", "repair_attempt_start",
               "repair_attempt_complete", "coding_task_resume",
               "coding_completion_gate" }

(* Commands and attempts, and everything that may block, validate or end   *)
(* the task.                                                               *)
BudgetTools == { "execution_record_command", "repair_attempt_start",
                 "repair_attempt_complete", "validation_cycle_start",
                 "coding_task_resume", "coding_task_abandon" }

(* None of these tools looks at the branch, at the worktree or into the    *)
(* evidence, and MaxHead is 0: states that differ only in the checkout or  *)
(* in what the evidence says have the same futures.                        *)
BudgetView == <<task, attempts, Len(evidence), calls>>
=============================================================================
