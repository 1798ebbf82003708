\* One pull request: two calls at a time, other people's pushes, a save that
\* throws, restarts.
SPECIFICATION Spec
CONSTANTS
  Tasks = {t1}
  Repairs = {1, 2}
  None = None
  Calls = {c1, c2}
  CycleLimit = 1
  MaxCommits = 2
  MaxPushes = 1
  MaxMishaps = 1
SYMMETRY Symmetry
VIEW View
CHECK_DEADLOCK FALSE
INVARIANT PreflightIsSafe
INVARIANT RecordedWasRemote
INVARIANT CycleAccounts
INVARIANT OneRepairPerTask
INVARIANT CreatedOvershoot
