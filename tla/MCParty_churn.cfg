SPECIFICATION Spec
CONSTANTS
  Users = {u1, u2}
  Servers = {s1}
  Objs = {o0, o1}
  Obj0 = o0
  NoUser = NoUser
  NoLeader = NoLeader
  NoServer = NoServer
  PartyCap = 2
  SessMod = 2
  MaxParty = 2
  MaxMsgs = 1
  KeysExpire = TRUE
  Relogin = TRUE
  SelfRequests = TRUE
  Strangers = FALSE
SYMMETRY Symmetry
INVARIANT TypeOK
INVARIANT PartyPointsHome
