------------------------------ MODULE TunnelBook -----------------------------
(***************************************************************************)
(* What the peer service promises its users, as one indivisible book of    *)
(* open tunnels: a tunnel is entered only under a free address, only once  *)
(* per user, pool and key, and only while the user is below the device     *)
(* limit; it stays in the book until it is closed.                         *)
(***************************************************************************)
EXTENDS Naturals, FiniteSets

CONSTANTS
  Users, Pools, Addresses, Keys,
  MaxPeersPerUser

VARIABLE tunnels   \* the open tunnels

Tunnel == [user : Users, pool : Pools, addr : Addresses, key : Keys]

Init == tunnels = {}

AddressFree(t) == \A s \in tunnels : ~(s.pool = t.pool /\ s.addr = t.addr)

DeviceNew(t) ==
  \A s \in tunnels : ~(s.user = t.user /\ s.pool = t.pool /\ s.key = t.key)

BelowLimit(t) == Cardinality({s \in tunnels : s.user = t.user}) < MaxPeersPerUser

Open(t) ==
  /\ AddressFree(t)
  /\ DeviceNew(t)
  /\ BelowLimit(t)
  /\ tunnels' = tunnels \cup {t}

Close(t) ==
  /\ t \in tunnels
  /\ tunnels' = tunnels \ {t}

Next == \E t \in Tunnel : Open(t) \/ Close(t)

Spec == Init /\ [][Next]_tunnels
=============================================================================
