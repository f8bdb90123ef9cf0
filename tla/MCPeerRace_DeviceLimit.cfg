CONSTANTS
  u1 = u1
  Users = {u1}
  Devices = {d1, d2}
  UserOf <- Owner
  Pools = {sgpwg}
  FirstHost = 2
  LastHost = 5
  NoOwner = NoOwner
  Keys = {k1, k2, k3}
  BadKey = BadKey
  PeerIDs = {i1, i2, i3, i4}
  NoPeer = NoPeer
  SubStates = {"active"}
  MaxPeersPerUser = 3
  StoreFails = FALSE
SYMMETRY Perms
SPECIFICATION Spec
INVARIANT DeviceLimit
