CONSTANTS
  u1 = u1
  u2 = u2
  d1 = d1
  d2 = d2
  Users = {u1, u2}
  Devices = {d1, d2}
  UserOf <- Owner
  Pools = {sgpwg, sgpawg}
  FirstHost = 2
  LastHost = 3
  NoOwner = NoOwner
  Keys = {k1, k2}
  BadKey = BadKey
  PeerIDs = {i1, i2, i3}
  NoPeer = NoPeer
  SubStates = {"trialing", "cancelled"}
  MaxPeersPerUser = 2
  StoreFails = FALSE
SYMMETRY Perms
SPECIFICATION Spec
INVARIANTS
  LivePeersHoldTheirLease
  OnePeerPerKey
PROPERTY ImplementsTunnelBook
