\* A registry in Postgres, requests that fail, restarts, two clients, one pass.
SPECIFICATION Spec
CONSTANTS
  Sessions = {s1, s2, s3}
  Calls = {c1, c2}
  Passes = {p1}
  NoSession = NoSession
  MaxActive = 1
  UseDb = TRUE
  Reliable = FALSE
  Restarts = TRUE
SYMMETRY Symmetry
INVARIANT ActiveOvershoot
