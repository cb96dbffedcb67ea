\* Two users, two objects, two Redis threads and two IOCP workers; two tokens, so that a
\* user can log in twice.
CONSTANTS
  Users = {u1, u2}
  Objs = {o1, o2}
  Threads = {t1, t2}
  Workers = {w1, w2}
  Tokens = {k1, k2}
  Items = {i1, i2}
  NoUser = NoUser
  NoObj = NoObj
  NoToken = NoToken
  NoItem = NoItem
  Unset = Unset
  MaxConns = 2
  MaxRequests = 2
  MaxFaults = 2
SPECIFICATION Spec
SYMMETRY Symmetry
INVARIANT TokenReuse
INVARIANT NoMisroute
INVARIANT FriendsLearn
INVARIANT EquipFollows
INVARIANT LobbyIsLimited
CHECK_DEADLOCK FALSE
