\* The checked instance: users and threads are interchangeable.
CONSTANTS
  Users = {u1, u2, u3, u4}
  Workers = {w1, w2}
  NoUser = NoUser
  PartyCap = 2
  MaxParty = 2
  MaxRequests = 3
  MaxErrors = 1
  IdleGo = FALSE
SPECIFICATION Spec
SYMMETRY Symmetry
INVARIANT TypeOK
INVARIANT Overbooked
INVARIANT UndefinedNeedsOverlap
PROPERTY LoginRepairs
PROPERTY OpensForIdleHost
CHECK_DEADLOCK FALSE
