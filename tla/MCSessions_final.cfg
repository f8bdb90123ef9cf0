CONSTANTS
  Users = {u1}
  NoUser = NoUser
  Jtis = {j1, j2, j3, j4}
  NoJti = NoJti
  Clients = {c1, c2}
  Stores = {"memory"}
SYMMETRY Perms
SPECIFICATION Spec
INVARIANT EndingIsFinal
