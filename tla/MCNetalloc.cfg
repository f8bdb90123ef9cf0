CONSTANTS
  Pools = {p1, p2}
  Owners = {u1, u2}
  NoOwner = NoOwner
  FirstHost = 2
  LastHost = 4
SPECIFICATION Spec
INVARIANTS
  TypeOK
  FreeListSound
  CursorAtFrontier
PROPERTY ImplementsLeasePool
