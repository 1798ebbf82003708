\* Two users and one client, two tokens, two requests at a time, any of which
\* may fail; an administrator sets one role and two statuses.
SPECIFICATION Spec
CONSTANTS
  Users = {u1, u2}
  Calls = {c1, c2}
  NewRoles = {"viewer"}
  NewStatuses = {"active", "suspended"}
  Nobody = Nobody
  MaxTokens = 2
SYMMETRY Symmetry
CONSTRAINT Apart
CHECK_DEADLOCK FALSE
INVARIANT LateIsRefused
INVARIANT SomeOwner
INVARIANT ConsentIsConnected
