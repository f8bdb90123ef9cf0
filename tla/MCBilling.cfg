CONSTANTS
  Users = {u1, u2}
  Externals = {x1, x2}
  Hooks = {h1, h2}
  Stores = {"memory", "postgres"}
  Configs <- AllConfigs
  Unset = Unset
  Statuses <- Spoken
  TTL = 0
  Window = 0
  None = None
  k1 = k1
  k2 = k2
  MaxTime = 1
  MaxTokens = 2
  MaxEvents = 3
SYMMETRY Perms
SPECIFICATION Spec
INVARIANTS
  TypeOK
  RowsVouched
PROPERTY ActiveKept
