CONSTANTS
  u1 = u1
  u2 = u2
  d1 = d1
  d2 = d2
  d3 = d3
  Users = {u1, u2}
  Devices = {d1, d2, d3}
  UserOf <- Owner
  Pools = {sgpwg}
  FirstHost = 2
  LastHost = 3
  NoOwner = NoOwner
  Keys = {k1}
  BadKey = BadKey
  PeerIDs = {i1, i2, i3}
  NoPeer = NoPeer
  SubStates = {"active"}
  MaxPeersPerUser = 2
  StoreFails = TRUE
SYMMETRY Perms
SPECIFICATION Spec
INVARIANTS
  TypeOK
  NoLeaseLeak
PROPERTY OwnPeersOnly
