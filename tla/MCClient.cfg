CONSTANTS
  Flows = {f1, f2, f3}
  Keys = {k1, k2, k3}
  Nodes = {sgp, fsn}
  Sgp = sgp
  None = None
SYMMETRY Perms
SPECIFICATION Spec
INVARIANTS
  TypeOK
  PairStored
  OwnKeyTunnel
  NeverStuck
PROPERTY PairKept
