CONSTANTS
  Users = {u1, u2}
  Externals = {x1, x2}
  Hooks = {h1}
  Stores = {"memory"}
  Configs <- Shared
  Unset = Unset
  Statuses <- Plain
  TTL = 1
  Window = 0
  None = None
  k1 = k1
  k2 = k2
  MaxTime = 2
  MaxTokens = 2
  MaxEvents = 3
SYMMETRY Perms
SPECIFICATION Spec
INVARIANT SubscriptionsSynced
