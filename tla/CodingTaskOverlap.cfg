\* Two calls in flight record commands, start cycles, open and complete repair
\* attempts, resume and abandon the task: both budgets.
SPECIFICATION Spec
CONSTANTS
  Calls = {c1, c2}
  Tools <- BudgetTools
  UseDb = FALSE
  RepairLimit = 1
  CommandLimit = 1
  Window = 2
  GitReliable = TRUE
  Background = FALSE
  RealExecution = TRUE
  MaxHead = 0
  MaxEvidence = 3
  MaxAttempts = 3
SYMMETRY Symmetry
VIEW BudgetView
INVARIANT CommandOvershoot
INVARIANT CountedHasEvidence
INVARIANT RepairOvershoot
INVARIANT BlockedHasReason
CHECK_DEADLOCK FALSE
