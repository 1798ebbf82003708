\* Two tool calls at a time on one session, with shells in the worker.
SPECIFICATION Spec
CONSTANTS
  Branches = {b1}
  Base = base
  Records = {v1}
  Calls = {c1, c2}
  MaxCommits = 1
VIEW View
SYMMETRY Symmetry
CHECK_DEADLOCK FALSE
INVARIANT PublishedWasPushed
PROPERTY PublishesWhatWasConfirmed
PROPERTY NothingForgotten
