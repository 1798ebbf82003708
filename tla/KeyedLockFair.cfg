\* Tasks that wait for I/O, one job per event: first come, first served, and
\* every call gets the lock.
SPECIFICATION FairSpec
CONSTANTS
  Callers = {c1, c2, c3, c4}
  Keys = {k1, k2}
  None = None
  Prompt = FALSE
  Burst = 1
PROPERTY FifoSpec
PROPERTY EveryCallEnters
