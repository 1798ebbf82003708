\* A registry in files, requests that do not fail, restarts: one session, two
\* clients and two passes of the reconciler, which may overlap.
SPECIFICATION FairSpec
CONSTANTS
  Sessions = {s1}
  Calls = {c1, c2}
  Passes = {p1, p2}
  NoSession = NoSession
  MaxActive = 1
  UseDb = FALSE
  Reliable = TRUE
  Restarts = TRUE
PROPERTY NoOrphan
PROPERTY LeftForGood
PROPERTY DeadIsNoticed
