\* One tool call at a time, Git answers: the gate and the repair budget.
SPECIFICATION Spec
CONSTANTS
  Calls = {c1}
  Tools <- GateTools
  UseDb = TRUE
  RepairLimit = 1
  CommandLimit = 2
  Window = 1
  GitReliable = TRUE
  Background = FALSE
  RealExecution = TRUE
  MaxHead = 1
  MaxEvidence = 2
  MaxAttempts = 3
PROPERTY GateSound
PROPERTY ChangeClearsEvidence
PROPERTY BudgetSpec
CHECK_DEADLOCK FALSE
