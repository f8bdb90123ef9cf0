CONSTANTS
  Users = {u1, u2}
  NoUser = NoUser
  Jtis = {j1, j2, j3, j4}
  NoJti = NoJti
  Clients = {c1, c2, c3}
  Stores = {"memory", "postgres"}
SYMMETRY Perms
SPECIFICATION Spec
INVARIANTS
  TypeOK
  SessionNeverForks
  OpenSessionGoesOn
  EndedSessionStaysEnded
PROPERTIES
  TokensRevokedByTheirUser
  ImplementsSessionBook
