\* Any order of jobs: tasks that end at once, two jobs queued per turn.
SPECIFICATION Spec
CONSTANTS
  Callers = {c1, c2, c3, c4}
  Keys = {k1, k2}
  None = None
  Prompt = TRUE
  Burst = 2
SYMMETRY Symmetry
INVARIANT Exclusive
INVARIANT NoLostWakeup
