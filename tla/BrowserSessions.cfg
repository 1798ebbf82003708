\* Three sessions under a limit of one, two tool calls in flight, two pages ever
\* under a limit of one; a page with two listeners, lists of three entries, a
\* window of two and three snapshots; two cycles completed twice each, on two
\* commits.  When all sessions are gone for good nothing happens.
SPECIFICATION BrowserSpec
CONSTANTS
  Sessions = {s1, s2, s3}
  Calls = {c1, c2}
  None = None
  MaxSessions = 1
  MaxPages = 1
  MaxOpened = 2
  MaxItems = 3
  Window = 2
  ReadLimit = 1
  MaxAttached = 2
  MaxRecorded = 5
  MaxSnapshots = 3
  Heads = {h1, h2}
  NoHead = NoHead
  MaxCycles = 2
  MaxCompletions = 2
SYMMETRY Symmetry
VIEW View
CHECK_DEADLOCK FALSE
INVARIANT SessionOvershoot
INVARIANT NoLeakedBrowser
INVARIANT NoStuckState
INVARIANT ChainMoves
INVARIANT OverlookedErrors
INVARIANT RefsOfTheLatest
INVARIANT VerifiedByLatest
PROPERTY OneAtATime
PROPERTY ReadsOn
