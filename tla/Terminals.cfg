\* Two tool calls in flight, two terminals at most, seven bytes of output, a buffer that overflows.
SPECIFICATION Spec
CONSTANTS
  Calls = {c1, c2}
  MaxTerminals = 2
  Capacity = 4
  MaxBytes = 3
  Nowhere = Nowhere
  MaxOpened = 3
  MaxOutput = 7
SYMMETRY Symmetry
VIEW View
CHECK_DEADLOCK FALSE
INVARIANT NothingStranded
INVARIANT ClosedIsForgotten
INVARIANT ReadsFollowOn
