SPECIFICATION Spec
CONSTANTS
  Users = {u1, u2, u3}
  Workers = {w1, w2, w3}
  NoRequest = NoRequest
SYMMETRY Symmetry
INVARIANT TypeOK
INVARIANT Paired
PROPERTY FriendsStay
