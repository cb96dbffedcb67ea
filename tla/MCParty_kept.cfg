SPECIFICATION Spec
CONSTANTS
  Users = {u1, u2, u3}
  Servers = {s1}
  Objs = {o0, o1, o2}
  Obj0 = o0
  NoUser = NoUser
  NoLeader = NoLeader
  NoServer = NoServer
  PartyCap = 3
  SessMod = 65536
  MaxParty = 2
  MaxMsgs = 1
  KeysExpire = FALSE
  Relogin = FALSE
  SelfRequests = FALSE
  Strangers = FALSE
SYMMETRY Symmetry
PROPERTY KeptPartyKeepsSessions
