-------------------------- MODULE PeerSerialProofs ---------------------------
(***************************************************************************)
(* Theorems about the peer service when no store call fails.  They are     *)
(* about the case in which the calls of one user do not overlap, which is  *)
(* how service_test.go drives it, those of different users overlapping as  *)
(* they like; and about how far the device limit is exceeded otherwise.    *)
(***************************************************************************)
EXTENDS PeerServiceProofs, FiniteSetTheorems

\* Each user has one device, and a device has one call in flight.
Serial == \A d, e \in Devices : UserOf[d] = UserOf[e] => d = e

SameAddress(i, p, x) == peers[i].pool = p /\ peers[i].addr = x

-----------------------------------------------------------------------------
(***************************************************************************)
(* The inductive invariant of the serial case, on top of IInv.  A live     *)
(* peer keeps its lease because its address is on no other live peer       *)
(* (LiveApart) and with no Connect about to insert one (SaversApart), so   *)
(* that no Release but its own can free it.  Admitted carries what Connect *)
(* saw when it listed the peers to the moment it inserts one.              *)
(***************************************************************************)
SaversHold ==
  \A d \in Devices :
    call[d].at = "save" => held[call[d].pool][call[d].addr] = UserOf[d]

NothingUndone == \A d \in Devices : call[d].at # "undo"

LiveApart ==
  \A i, j \in PeerIDs :
    Live(i) /\ Live(j) /\ SameAddress(i, peers[j].pool, peers[j].addr) => i = j

SaversApart ==
  \A i \in PeerIDs, d \in Devices :
    Live(i) /\ call[d].at = "save" => ~SameAddress(i, call[d].pool, call[d].addr)

TargetsActive ==
  \A d \in Devices : call[d].at = "release" => Active(call[d].target)

Admits(u, c) ==
  /\ \A i \in PeersByUser(u) : ~Matches(i, c)
  /\ Cardinality(PeersByUser(u)) < MaxPeersPerUser

Admitted ==
  \A d \in Devices :
    call[d].at \in {"allocate", "save"} => Admits(UserOf[d], call[d])

SInv ==
  /\ LivePeersHoldTheirLease
  /\ SaversHold
  /\ NothingUndone
  /\ LiveApart
  /\ SaversApart
  /\ TargetsActive
  /\ Admitted

(* At the start there is no peer and no call.                               *)
LEMMA InitSInv == Init => SInv
<1> SUFFICES ASSUME Init PROVE SInv
  OBVIOUS
<1>1. \A i \in PeerIDs : ~Live(i)
  BY DEF Init, Live, Active
<1>2. \A d \in Devices : call[d].at = "idle"
  BY DEF Init, Idle
<1> QED
  BY <1>1, <1>2 DEF SInv, LivePeersHoldTheirLease, SaversHold, NothingUndone,
     LiveApart, SaversApart, TargetsActive, Admitted

(* A step that moves one call, not into or out of a stage that counts, and  *)
(* touches neither table nor lease.                                         *)
LEMMA QuietSInv ==
  ASSUME IInv, SInv, NEW d \in Devices, NEW c,
         Goes(d, c), held' = held, peers' = peers,
         call[d].at # "revoke",
         c.at \notin {"save", "undo", "revoke"},
         c.at = "release" => Active(c.target),
         c.at = "allocate" => Admits(UserOf[d], c)
  PROVE  SInv' /\ Tunnels' = Tunnels
<1>1. \A e \in Devices : call'[e] = IF e = d THEN c ELSE call[e]
  BY DEF IInv, TablesOK, Goes
<1>2. \A i \in PeerIDs : (Live(i)' <=> Live(i)) /\ (Active(i)' <=> Active(i))
  BY <1>1 DEF Live, Active, Revoking
<1>3. \A u : PeersByUser(u)' = PeersByUser(u)
  BY DEF PeersByUser, Active
<1>4. LivePeersHoldTheirLease' /\ LiveApart'
  BY <1>2 DEF SInv, LivePeersHoldTheirLease, LiveApart, SameAddress
<1>5. SaversHold' /\ NothingUndone'
  BY <1>1 DEF SInv, SaversHold, NothingUndone
<1>6. SaversApart'
  BY <1>1, <1>2 DEF SInv, SaversApart, SameAddress
<1>7. TargetsActive'
  BY <1>1 DEF SInv, TargetsActive, Active
<1>8. Admitted'
  BY <1>1, <1>3 DEF SInv, Admitted, Admits, Matches
<1>9. Tunnels' = Tunnels
  BY <1>2 DEF Tunnels
<1> QED
  BY <1>4, <1>5, <1>6, <1>7, <1>8, <1>9 DEF SInv

(* An address that is taken was no live peer's, and no other Connect's.     *)
LEMMA ConnectAllocatesSInv ==
  ASSUME IInv, SInv, NEW d \in Devices, ConnectAllocates(d)
  PROVE  SInv' /\ Tunnels' = Tunnels
<1>1. /\ call[d] \in [at : {"list", "allocate"}, pool : Pools, key : Keys]
      /\ call[d].at = "allocate"
  BY CallFields DEF IInv, ConnectAllocates
<1>2. PICK x \in Octets :
        /\ NA!Allocate(call[d].pool, UserOf[d], x)
        /\ Goes(d, [at |-> "save", pool |-> call[d].pool, key |-> call[d].key,
                    addr |-> x])
  BY DEF ConnectAllocates
<1> DEFINE p == call[d].pool
           c == [at |-> "save", pool |-> p, key |-> call[d].key, addr |-> x]
<1>3. /\ held[p][x] = NoOwner
      /\ \A q \in Pools, y \in Octets :
           held'[q][y] = IF q = p /\ y = x THEN UserOf[d] ELSE held[q][y]
  BY <1>1, <1>2, UserOfAssumption, AllocateEffect DEF IInv
<1>4. /\ c.at = "save" /\ c.pool = p /\ c.addr = x /\ c.key = call[d].key
      /\ \A e \in Devices : call'[e] = IF e = d THEN c ELSE call[e]
      /\ peers' = peers
  BY <1>2 DEF IInv, TablesOK, Goes, ConnectAllocates
<1> HIDE DEF c
<1>5. \A i \in PeerIDs : (Live(i)' <=> Live(i)) /\ (Active(i)' <=> Active(i))
  BY <1>1, <1>4 DEF Live, Active, Revoking
<1>6. \A i \in PeerIDs : Live(i) => /\ peers[i] \in Peer
                                    /\ ~SameAddress(i, p, x)
  <2> SUFFICES ASSUME NEW i \in PeerIDs, Live(i)
               PROVE  peers[i] \in Peer /\ ~SameAddress(i, p, x)
    OBVIOUS
  <2>1. peers[i] \in Peer
    BY DEF Live, Active, IInv, TablesOK
  <2>2. held[peers[i].pool][peers[i].addr] \in Users
    BY <2>1 DEF SInv, LivePeersHoldTheirLease, Peer
  <2> QED
    BY <1>3, <2>1, <2>2, NoOwnerAssumption DEF SameAddress
<1>7. LivePeersHoldTheirLease'
  BY <1>3, <1>4, <1>5, <1>6 DEF SInv, LivePeersHoldTheirLease, SameAddress, Peer
<1>8. SaversHold'
  <2> SUFFICES ASSUME NEW e \in Devices, call'[e].at = "save"
               PROVE  held'[call'[e].pool][call'[e].addr] = UserOf[e]
    BY DEF SaversHold
  <2>1. CASE e = d
    BY <1>1, <1>2, <1>3, <1>4, <2>1
  <2>2. CASE e # d
    <3>1. /\ call'[e] = call[e] /\ call[e].pool \in Pools /\ call[e].addr \in Octets
          /\ held[call[e].pool][call[e].addr] = UserOf[e] /\ UserOf[e] \in Users
      BY <1>4, <2>2, CallFields, UserOfAssumption DEF IInv, SInv, SaversHold
    <3> QED
      BY <1>3, <3>1, NoOwnerAssumption
  <2> QED
    BY <2>1, <2>2
<1>9. NothingUndone' /\ LiveApart'
  BY <1>4, <1>5 DEF SInv, NothingUndone, LiveApart, SameAddress
<1>10. SaversApart'
  BY <1>4, <1>5, <1>6 DEF SInv, SaversApart, SameAddress
<1>11. TargetsActive'
  BY <1>4 DEF SInv, TargetsActive, Active
<1>12. Admitted'
  <2>1. \A u : PeersByUser(u)' = PeersByUser(u)
    BY <1>4 DEF PeersByUser, Active
  <2>2. Admits(UserOf[d], call[d])
    BY <1>1 DEF SInv, Admitted
  <2> QED
    BY <1>4, <2>1, <2>2 DEF SInv, Admitted, Admits, Matches
<1>13. Tunnels' = Tunnels
  BY <1>4, <1>5 DEF Tunnels
<1> QED
  BY <1>7, <1>8, <1>9, <1>10, <1>11, <1>12, <1>13 DEF SInv

-----------------------------------------------------------------------------
(* The book.                                                                *)

TunnelOf(i) == [user |-> peers[i].user, pool |-> peers[i].pool,
                addr |-> peers[i].addr, key |-> peers[i].key]

(* Which tunnels are open, in terms of the peers.                           *)
LEMMA TunnelsAre ==
  ASSUME TablesOK
  PROVE  /\ Tunnels = {TunnelOf(i) : i \in {j \in PeerIDs : Live(j)}}
         /\ \A i \in PeerIDs : Live(i) =>
              peers[i] \in Peer /\ TunnelOf(i) \in TB!Tunnel
<1>1. ASSUME NEW i \in PeerIDs, Live(i) PROVE peers[i] \in Peer
  BY <1>1 DEF TablesOK, Live, Active
<1> QED
  BY <1>1 DEF Tunnels, TunnelOf, TB!Tunnel, Peer

(* A user has no more open tunnels than active peers.                       *)
LEMMA TunnelCount ==
  ASSUME TablesOK, NEW u \in Users
  PROVE  /\ Cardinality({t \in Tunnels : t.user = u}) \in Nat
         /\ Cardinality({t \in Tunnels : t.user = u}) <= Cardinality(PeersByUser(u))
         /\ Cardinality(PeersByUser(u)) \in Nat
<1> DEFINE S == {i \in PeersByUser(u) : Live(i)}
           T == {t \in Tunnels : t.user = u}
           f == [i \in S |-> TunnelOf(i)]
<1>1. IsFiniteSet(PeersByUser(u))
  BY PeerIDsAssumption, FS_Subset DEF PeersByUser
<1>2. IsFiniteSet(S) /\ Cardinality(S) <= Cardinality(PeersByUser(u))
  BY <1>1, FS_Subset
<1>3. \A i \in S : TunnelOf(i) \in T
  BY TunnelsAre DEF PeersByUser, TunnelOf
<1>4. \A t \in T : \E i \in S : t = TunnelOf(i)
  BY TunnelsAre DEF PeersByUser, TunnelOf, Live
<1>5. f \in Surjection(S, T)
  BY <1>3, <1>4 DEF Surjection
<1> HIDE DEF S, T, f
<1>6. IsFiniteSet(T) /\ Cardinality(T) <= Cardinality(S)
  BY <1>2, <1>5, FS_Surjection
<1>7. /\ Cardinality(T) \in Nat /\ Cardinality(S) \in Nat
      /\ Cardinality(PeersByUser(u)) \in Nat
  BY <1>1, <1>2, <1>6, FS_CardinalityType
<1>8. Cardinality(T) <= Cardinality(PeersByUser(u))
  BY <1>2, <1>6, <1>7
<1> QED
  BY <1>7, <1>8 DEF T

(* The book counts as the service does.                                     *)
LEMMA SameCardinality == \A S : TB!Cardinality(S) = Cardinality(S)
BY DEF Cardinality, TB!Cardinality

(* Other users' peers are what a device's step leaves to the others.        *)
LEMMA OthersAdmitted ==
  ASSUME Serial, Admitted, NEW d \in Devices,
         \A e \in Devices \ {d} :
           call'[e] = call[e] /\ PeersByUser(UserOf[e])' = PeersByUser(UserOf[e]),
         \A e \in Devices \ {d} :
           \A i \in PeersByUser(UserOf[e]) :
             peers'[i].pool = peers[i].pool /\ peers'[i].key = peers[i].key,
         call'[d].at \notin {"allocate", "save"}
  PROVE  Admitted'
BY DEF Admitted, Admits, Matches

(* An insert opens a tunnel that the book allows.                           *)
LEMMA ConnectSavesStep ==
  ASSUME Serial, IInv, SInv, NEW d \in Devices, ConnectSaves(d)
  PROVE  SInv' /\ TB!Next
<1>1. /\ call[d] \in [at : {"save", "undo"}, pool : Pools, key : Keys, addr : Octets]
      /\ call[d].at = "save"
  BY CallFields DEF IInv, ConnectSaves
<1>2. PICK i \in PeerIDs :
        peers[i] = NoPeer /\ peers' = [peers EXCEPT ![i] = NewPeer(d)]
  BY DEF ConnectSaves
<1> DEFINE u == UserOf[d]
           p == call[d].pool
           x == call[d].addr
<1>3. u \in Users /\ p \in Pools /\ x \in Octets /\ call[d].key \in Keys
  BY <1>1, UserOfAssumption
<1>4. /\ peers'[i].user = u /\ peers'[i].pool = p /\ peers'[i].addr = x
      /\ peers'[i].key = call[d].key /\ peers'[i].active
      /\ peers'[i] \in Peer /\ peers'[i] # NoPeer
      /\ \A j \in PeerIDs \ {i} : peers'[j] = peers[j]
  <2>1. NewPeer(d) = [user |-> u, pool |-> p, addr |-> x, key |-> call[d].key,
                      active |-> TRUE]
    BY DEF NewPeer
  <2>2. NewPeer(d) \in Peer
    BY <1>3, <2>1 DEF Peer
  <2>3. peers'[i] = NewPeer(d) /\ \A j \in PeerIDs \ {i} : peers'[j] = peers[j]
    BY <1>2 DEF IInv, TablesOK
  <2>4. NewPeer(d) # NoPeer
    BY <2>2, NoPeerAssumption
  <2> QED
    BY <2>1, <2>2, <2>3, <2>4
<1>5. /\ held' = held
      /\ \A e \in Devices : call'[e] = IF e = d THEN Idle ELSE call[e]
  BY DEF ConnectSaves, leases, Goes, IInv, TablesOK
<1>6. \A e \in Devices : ~Revoking(e, i)
  BY <1>2 DEF Revoking, IInv, TargetsOwn
<1>7. /\ ~Live(i) /\ Live(i)'
      /\ \A j \in PeerIDs \ {i} : Live(j)' <=> Live(j)
  BY <1>1, <1>2, <1>4, <1>5, <1>6 DEF Live, Active, Revoking, Idle
<1>8. held[p][x] = u
  BY <1>1 DEF SInv, SaversHold
<1>9. \A j \in PeerIDs : Live(j) => ~SameAddress(j, p, x)
  BY <1>1 DEF SInv, SaversApart
<1>10. LivePeersHoldTheirLease'
  BY <1>4, <1>5, <1>7, <1>8 DEF SInv, LivePeersHoldTheirLease
<1>11. SaversHold' /\ NothingUndone'
  BY <1>5 DEF SInv, SaversHold, NothingUndone, Idle
<1>12. LiveApart'
  BY <1>4, <1>7, <1>9 DEF SInv, LiveApart, SameAddress
<1>13. SaversApart'
  <2> SUFFICES ASSUME NEW j \in PeerIDs, NEW e \in Devices, Live(j)',
                      call'[e].at = "save"
               PROVE  ~SameAddress(j, call[e].pool, call[e].addr)'
    BY DEF SaversApart, SameAddress
  <2>1. e # d /\ call'[e] = call[e] /\ call[e].at = "save"
    BY <1>5 DEF Idle
  <2>2. CASE j = i
    BY <1>4, <1>8, <2>1, <2>2 DEF Serial, SInv, SaversHold, SameAddress
  <2>3. CASE j # i
    BY <1>4, <1>7, <2>1, <2>3 DEF SInv, SaversApart, SameAddress
  <2> QED
    BY <2>2, <2>3
<1>14. TargetsActive'
  <2> SUFFICES ASSUME NEW e \in Devices, call'[e].at = "release"
               PROVE  Active(call[e].target)'
    BY DEF TargetsActive
  <2>1. e # d /\ call'[e] = call[e] /\ call[e].target \in PeerIDs
    BY <1>5, CallFields DEF Idle, IInv
  <2>2. Active(call[e].target)
    BY <2>1 DEF SInv, TargetsActive
  <2> QED
    BY <1>2, <1>4, <2>1, <2>2 DEF Active
<1>15. Admitted'
  <2>1. ASSUME NEW e \in Devices \ {d}
        PROVE  /\ call'[e] = call[e]
               /\ PeersByUser(UserOf[e])' = PeersByUser(UserOf[e])
               /\ \A j \in PeersByUser(UserOf[e]) : peers'[j] = peers[j]
    BY <1>2, <1>4, <1>5 DEF Serial, PeersByUser, Active
  <2>2. call'[d].at = "idle"
    BY <1>5 DEF Idle
  <2> QED
    BY <2>1, <2>2, OthersAdmitted DEF SInv
<1> DEFINE t == [user |-> u, pool |-> p, addr |-> x, key |-> call[d].key]
<1>16. Tunnels' = Tunnels \cup {t}
  BY <1>4, <1>7 DEF Tunnels
<1>17. TB!AddressFree(t)
  BY <1>9 DEF TB!AddressFree, Tunnels, SameAddress
<1>18. Admits(u, call[d])
  BY <1>1 DEF SInv, Admitted
<1>19. TB!DeviceNew(t)
  BY <1>18 DEF TB!DeviceNew, Tunnels, Admits, Matches, PeersByUser, Live
<1>20. TB!BelowLimit(t)
  <2>1. t.user = u
    OBVIOUS
  <2> HIDE DEF t
  <2>2. t.user \in Users /\ Cardinality(PeersByUser(t.user)) < MaxPeersPerUser
    BY <1>3, <1>18, <2>1 DEF Admits
  <2>3. /\ Cardinality({s \in Tunnels : s.user = t.user}) \in Nat
        /\ Cardinality({s \in Tunnels : s.user = t.user})
             <= Cardinality(PeersByUser(t.user))
        /\ Cardinality(PeersByUser(t.user)) \in Nat
    BY <2>2, TunnelCount DEF IInv
  <2>4. Cardinality({s \in Tunnels : s.user = t.user}) < MaxPeersPerUser
    BY <2>2, <2>3, MaxPeersAssumption
  <2> QED
    BY <2>4, SameCardinality DEF TB!BelowLimit
<1>21. t \in TB!Tunnel
  BY <1>3 DEF TB!Tunnel
<1>22. TB!Next
  BY <1>16, <1>17, <1>19, <1>20, <1>21 DEF TB!Next, TB!Open
<1> QED
  BY <1>10, <1>11, <1>12, <1>13, <1>14, <1>15, <1>22 DEF SInv

(* A Release closes the tunnel of the peer being revoked, and no other.     *)
LEMMA RevokeReleasesStep ==
  ASSUME Serial, IInv, SInv, NEW d \in Devices, RevokeReleases(d)
  PROVE  SInv' /\ TB!Next
<1>1. PICK i \in PeerIDs :
        /\ call[d] \in [at : {"find", "release", "revoke"}, target : PeerIDs]
        /\ call[d].at = "release" /\ call[d].target = i
        /\ peers[i] # NoPeer /\ peers[i].user = UserOf[d]
  BY CallFields DEF IInv, TargetsOwn, RevokeReleases
<1>2. PICK p \in Pools, x \in Octets : peers[i].pool = p /\ peers[i].addr = x
  BY <1>1 DEF IInv, TablesOK, Peer
<1>3. /\ NA!Release(p, x, UserOf[d])
      /\ call' = [call EXCEPT ![d] = [call[d] EXCEPT !.at = "revoke"]]
      /\ peers' = peers
  BY <1>1, <1>2 DEF RevokeReleases, Target, Goes
<1>4. \A q \in Pools, y \in Octets :
        held'[q][y] = IF q = p /\ y = x /\ held[p][x] = UserOf[d]
                      THEN NoOwner ELSE held[q][y]
  BY <1>3, UserOfAssumption, ReleaseEffect DEF IInv
<1>5. /\ call'[d].at = "revoke" /\ call'[d].target = i
      /\ \A e \in Devices \ {d} : call'[e] = call[e]
  BY <1>1, <1>3 DEF IInv, TablesOK
<1>6. Live(i)
  <2>1. Active(i)
    BY <1>1 DEF SInv, TargetsActive
  <2>2. ASSUME NEW e \in Devices, Revoking(e, i) PROVE FALSE
    BY <1>1, <2>2 DEF Serial, Revoking, IInv, TargetsOwn
  <2> QED
    BY <2>1, <2>2 DEF Live
<1>7. /\ ~Live(i)'
      /\ \A j \in PeerIDs \ {i} : Live(j)' <=> Live(j)
  BY <1>1, <1>3, <1>5 DEF Live, Active, Revoking
<1>8. \A j \in PeerIDs \ {i} :
        Live(j) => /\ peers[j].pool \in Pools /\ peers[j].addr \in Octets
                   /\ ~SameAddress(j, p, x)
  <2> SUFFICES ASSUME NEW j \in PeerIDs \ {i}, Live(j)
               PROVE  /\ peers[j].pool \in Pools /\ peers[j].addr \in Octets
                      /\ ~SameAddress(j, p, x)
    OBVIOUS
  <2>1. peers[j] \in Peer
    BY TunnelsAre DEF IInv
  <2>2. ~SameAddress(j, p, x)
    BY <1>2, <1>6 DEF SInv, LiveApart, SameAddress
  <2> QED
    BY <2>1, <2>2 DEF Peer
<1>9. LivePeersHoldTheirLease'
  <2> SUFFICES ASSUME NEW j \in PeerIDs, Live(j)'
               PROVE  held'[peers[j].pool][peers[j].addr] = peers[j].user
    BY <1>3 DEF LivePeersHoldTheirLease
  <2>1. j \in PeerIDs \ {i} /\ Live(j)
    BY <1>7
  <2> QED
    BY <1>4, <1>8, <2>1 DEF SInv, LivePeersHoldTheirLease, SameAddress
<1>10. SaversHold'
  <2> SUFFICES ASSUME NEW e \in Devices, call'[e].at = "save"
               PROVE  held'[call'[e].pool][call'[e].addr] = UserOf[e]
    BY DEF SaversHold
  <2>1. /\ call'[e] = call[e] /\ call[e].at = "save"
        /\ call[e].pool \in Pools /\ call[e].addr \in Octets
    BY <1>5, CallFields DEF IInv
  <2>2. ~(call[e].pool = p /\ call[e].addr = x)
    BY <1>2, <1>6, <2>1 DEF SInv, SaversApart, SameAddress
  <2> QED
    BY <1>4, <2>1, <2>2 DEF SInv, SaversHold
<1>11. NothingUndone'
  BY <1>5 DEF SInv, NothingUndone
<1>12. LiveApart'
  BY <1>3, <1>7 DEF SInv, LiveApart, SameAddress
<1>13. SaversApart'
  BY <1>3, <1>5, <1>7 DEF SInv, SaversApart, SameAddress
<1>14. TargetsActive'
  BY <1>3, <1>5 DEF SInv, TargetsActive, Active
<1>15. Admitted'
  <2>1. \A u : PeersByUser(u)' = PeersByUser(u)
    BY <1>3 DEF PeersByUser, Active
  <2> QED
    BY <1>3, <1>5, <2>1, OthersAdmitted DEF SInv
<1>16. /\ TunnelOf(i) \in Tunnels /\ TunnelOf(i) \in TB!Tunnel
       /\ Tunnels' = Tunnels \ {TunnelOf(i)}
  <2>1. TunnelOf(i) \in Tunnels /\ TunnelOf(i) \in TB!Tunnel
    BY <1>6, TunnelsAre DEF IInv
  <2>2. TablesOK'
    BY NextIInv DEF IInv, Next, Revoke
  <2>3. Tunnels' = {TunnelOf(j) : j \in {k \in PeerIDs : Live(k) /\ k # i}}
    BY <1>3, <1>7 DEF Tunnels, TunnelOf
  <2>4. \A j \in PeerIDs \ {i} : Live(j) => TunnelOf(j) # TunnelOf(i)
    BY <1>2, <1>8 DEF TunnelOf, SameAddress
  <2> QED
    BY <1>6, <2>1, <2>3, <2>4, TunnelsAre DEF IInv
<1>17. TB!Next
  BY <1>16 DEF TB!Next, TB!Close
<1> QED
  BY <1>9, <1>10, <1>11, <1>12, <1>13, <1>14, <1>15, <1>17 DEF SInv

(* The peer deactivated afterwards is out of the book already.              *)
LEMMA RevokeDeactivatesStep ==
  ASSUME Serial, IInv, SInv, NEW d \in Devices, RevokeDeactivates(d)
  PROVE  SInv' /\ Tunnels' = Tunnels
<1>1. PICK i \in PeerIDs :
        /\ call[d].at = "revoke" /\ call[d].target = i
        /\ peers[i] # NoPeer /\ peers[i].user = UserOf[d]
  BY CallFields DEF IInv, TargetsOwn, RevokeDeactivates
<1>2. peers[i] \in Peer /\ peers' = [peers EXCEPT ![i].active = FALSE]
  BY <1>1 DEF IInv, TablesOK, RevokeDeactivates
<1>3. /\ peers'[i].user = peers[i].user /\ ~peers'[i].active
      /\ \A j \in PeerIDs \ {i} : peers'[j] = peers[j]
  BY <1>2 DEF IInv, TablesOK, Peer
<1>4. /\ held' = held
      /\ \A e \in Devices : call'[e] = IF e = d THEN Idle ELSE call[e]
  BY DEF RevokeDeactivates, leases, Goes, IInv, TablesOK
<1>5. /\ ~Live(i) /\ ~Live(i)'
      /\ \A j \in PeerIDs \ {i} : Live(j)' <=> Live(j)
  BY <1>1, <1>3, <1>4 DEF Live, Active, Revoking, Idle
<1>6. LivePeersHoldTheirLease' /\ LiveApart'
  BY <1>3, <1>4, <1>5 DEF SInv, LivePeersHoldTheirLease, LiveApart, SameAddress
<1>7. SaversHold' /\ NothingUndone'
  BY <1>4 DEF SInv, SaversHold, NothingUndone, Idle
<1>8. SaversApart'
  BY <1>3, <1>4, <1>5 DEF SInv, SaversApart, SameAddress, Idle
<1>9. TargetsActive'
  <2> SUFFICES ASSUME NEW e \in Devices, call'[e].at = "release"
               PROVE  Active(call[e].target)'
    BY DEF TargetsActive
  <2>1. /\ e # d /\ call'[e] = call[e] /\ call[e].target \in PeerIDs
        /\ Active(call[e].target) /\ peers[call[e].target].user = UserOf[e]
    BY <1>4, CallFields DEF Idle, IInv, TargetsOwn, SInv, TargetsActive
  <2>2. call[e].target # i
    BY <1>1, <2>1 DEF Serial
  <2> QED
    BY <1>3, <2>1, <2>2 DEF Active
<1>10. Admitted'
  <2>1. ASSUME NEW e \in Devices \ {d}
        PROVE  /\ call'[e] = call[e]
               /\ PeersByUser(UserOf[e])' = PeersByUser(UserOf[e])
               /\ \A j \in PeersByUser(UserOf[e]) : peers'[j] = peers[j]
    <3>1. UserOf[e] # peers[i].user
      BY <1>1 DEF Serial
    <3> QED
      BY <1>3, <1>4, <3>1 DEF PeersByUser, Active
  <2>2. call'[d].at = "idle"
    BY <1>4 DEF Idle
  <2> QED
    BY <2>1, <2>2, OthersAdmitted DEF SInv
<1>11. Tunnels' = Tunnels
  BY <1>3, <1>5 DEF Tunnels
<1> QED
  BY <1>6, <1>7, <1>8, <1>9, <1>10, <1>11 DEF SInv

(* The insert cannot fail, so a Connect past Allocate is not undone.        *)
LEMMA ConnectSInv ==
  ASSUME Serial, ~StoreFails, IInv, SInv, NEW d \in Devices, Connect(d)
  PROVE  SInv' /\ (TB!Next \/ Tunnels' = Tunnels)
<1>1. CASE \E p \in Pools, k \in Keys \cup {BadKey} : ConnectArrives(d, p, k)
  <2>1. PICK p \in Pools, k \in Keys \cup {BadKey} : ConnectArrives(d, p, k)
    BY <1>1
  <2>2. Goes(d, [at |-> "check", pool |-> p, key |-> k])
    BY <2>1 DEF ConnectArrives
  <2> QED
    BY <2>1, <2>2, QuietSInv DEF ConnectArrives, leases, Idle
<1>2. CASE ConnectRefused(d)
  BY <1>2, QuietSInv DEF ConnectRefused, leases, Idle
<1>3. CASE ConnectChecked(d)
  <2> DEFINE c == [call[d] EXCEPT !.at = "list"]
  <2>1. c.at = "list"
    BY <1>3, CallFields DEF IInv, ConnectChecked
  <2>2. Goes(d, c) /\ held' = held /\ peers' = peers /\ call[d].at = "check"
    BY <1>3 DEF ConnectChecked, leases
  <2> HIDE DEF c
  <2> QED
    BY <2>1, <2>2, QuietSInv
<1>4. CASE ConnectAnswered(d)
  BY <1>4, QuietSInv DEF ConnectAnswered, leases, Idle
<1>5. CASE ConnectProceeds(d)
  <2> DEFINE c == [call[d] EXCEPT !.at = "allocate"]
  <2>1. /\ call[d] \in [at : {"list", "allocate"}, pool : Pools, key : Keys]
        /\ call[d].at = "list"
    BY <1>5, CallFields DEF IInv, ConnectProceeds
  <2>2. c.at = "allocate" /\ c.pool = call[d].pool /\ c.key = call[d].key
    BY <2>1
  <2>3. Goes(d, c) /\ held' = held /\ peers' = peers
    BY <1>5 DEF ConnectProceeds, leases
  <2>4. ~ConnectSettled(d, PeersByUser(UserOf[d]))
    BY <1>5 DEF ConnectProceeds, Listings
  <2>5. Cardinality(PeersByUser(UserOf[d])) \in Nat
    BY UserOfAssumption, TunnelCount DEF IInv
  <2>6. Admits(UserOf[d], c)
    BY <2>2, <2>4, <2>5, MaxPeersAssumption DEF Admits, ConnectSettled, Matches
  <2> HIDE DEF c
  <2> QED
    BY <2>1, <2>2, <2>3, <2>6, QuietSInv
<1>6. CASE ConnectAllocates(d)
  BY <1>6, ConnectAllocatesSInv
<1>7. CASE ConnectExhausted(d)
  <2>1. call[d].pool \in Pools /\ call[d].at = "allocate"
    BY <1>7, CallFields DEF IInv, ConnectExhausted
  <2>2. held' = held
    BY <1>7, <2>1, ExhaustedEffect DEF IInv, ConnectExhausted
  <2> QED
    BY <1>7, <2>1, <2>2, QuietSInv DEF ConnectExhausted, Idle
<1>8. CASE ConnectSaves(d)
  BY <1>8, ConnectSavesStep
<1>9. CASE ConnectSaveFails(d)
  BY <1>9 DEF ConnectSaveFails
<1>10. CASE ConnectUndoes(d)
  BY <1>10 DEF ConnectUndoes, SInv, NothingUndone
<1> QED
  BY <1>1, <1>2, <1>3, <1>4, <1>5, <1>6, <1>7, <1>8, <1>9, <1>10 DEF Connect

(* A revocation that has found its peer goes on to the end.                 *)
LEMMA RevokeSInv ==
  ASSUME Serial, ~StoreFails, IInv, SInv, NEW d \in Devices, Revoke(d)
  PROVE  SInv' /\ (TB!Next \/ Tunnels' = Tunnels)
<1>1. CASE \E i \in PeerIDs : RevokeArrives(d, i)
  <2>1. PICK i \in PeerIDs : RevokeArrives(d, i)
    BY <1>1
  <2>2. Goes(d, [at |-> "find", target |-> i])
    BY <2>1 DEF RevokeArrives
  <2> QED
    BY <2>1, <2>2, QuietSInv DEF RevokeArrives, leases, Idle
<1>2. CASE RevokeUnknown(d)
  BY <1>2, QuietSInv DEF RevokeUnknown, leases, Idle
<1>3. CASE RevokeFinds(d)
  <2> DEFINE c == [call[d] EXCEPT !.at = "release"]
  <2>1. /\ call[d] \in [at : {"find", "release", "revoke"}, target : PeerIDs]
        /\ call[d].at = "find" /\ Active(call[d].target)
    BY <1>3, CallFields DEF IInv, RevokeFinds, PeersByUser
  <2>2. c.at = "release" /\ c.target = call[d].target
    BY <2>1
  <2>3. Goes(d, c) /\ held' = held /\ peers' = peers
    BY <1>3 DEF RevokeFinds, leases
  <2> HIDE DEF c
  <2> QED
    BY <2>1, <2>2, <2>3, QuietSInv
<1>4. CASE RevokeReleases(d)
  BY <1>4, RevokeReleasesStep
<1>5. CASE RevokeDeactivates(d)
  BY <1>5, RevokeDeactivatesStep
<1>6. CASE RevokeFails(d)
  BY <1>6, CallFields DEF RevokeFails, Target, IInv, TargetsOwn
<1> QED
  BY <1>1, <1>2, <1>3, <1>4, <1>5, <1>6 DEF Revoke

(* Every step keeps the invariant, and is a step of the book or none.       *)
LEMMA NextSInv ==
  ASSUME Serial, ~StoreFails, IInv, SInv, [Next]_vars
  PROVE  SInv' /\ [TB!Next]_Tunnels
<1>1. ASSUME NEW d \in Devices, Connect(d)
      PROVE  SInv' /\ [TB!Next]_Tunnels
  BY <1>1, ConnectSInv
<1>2. ASSUME NEW d \in Devices, Revoke(d)
      PROVE  SInv' /\ [TB!Next]_Tunnels
  BY <1>2, RevokeSInv
<1>3. ASSUME held' = held, peers' = peers, call' = call
      PROVE  SInv' /\ [TB!Next]_Tunnels
  <2>1. \A i \in PeerIDs : (Live(i)' <=> Live(i)) /\ (Active(i)' <=> Active(i))
    BY <1>3 DEF Live, Active, Revoking
  <2>2. \A u : PeersByUser(u)' = PeersByUser(u)
    BY <1>3 DEF PeersByUser, Active
  <2>3. Tunnels' = Tunnels
    BY <1>3, <2>1 DEF Tunnels
  <2>4. LivePeersHoldTheirLease' /\ LiveApart' /\ SaversApart'
    BY <1>3, <2>1 DEF SInv, LivePeersHoldTheirLease, LiveApart, SaversApart,
       SameAddress
  <2>5. SaversHold' /\ NothingUndone' /\ TargetsActive'
    BY <1>3 DEF SInv, SaversHold, NothingUndone, TargetsActive, Active
  <2>6. Admitted'
    BY <1>3, <2>2 DEF SInv, Admitted, Admits, Matches
  <2> QED
    BY <2>3, <2>4, <2>5, <2>6 DEF SInv
<1>4. ASSUME NEW u \in Users, NEW st \in SubStates, UpsertSubscription(u, st)
      PROVE  SInv' /\ [TB!Next]_Tunnels
  BY <1>3, <1>4 DEF UpsertSubscription, leases
<1>5. CASE UNCHANGED vars
  BY <1>3, <1>5 DEF vars
<1> QED
  BY <1>1, <1>2, <1>4, <1>5 DEF Next

-----------------------------------------------------------------------------
(***************************************************************************)
(* In the serial case a live peer holds its address: no overlap of calls   *)
(* of different users takes it away, although Connect and Revoke of one    *)
(* user do so when they overlap.                                           *)
(***************************************************************************)
THEOREM LiveLeases ==
  ASSUME Serial, ~StoreFails
  PROVE  Spec => []LivePeersHoldTheirLease
<1>1. Init => SInv
  BY InitSInv
<1>2. IInv /\ SInv /\ [Next]_vars => SInv'
  BY NextSInv
<1>3. SInv => LivePeersHoldTheirLease
  BY DEF SInv
<1> QED
  BY <1>1, <1>2, <1>3, Invariance, PTL DEF Spec

(***************************************************************************)
(* In the serial case the service implements the book of tunnels: whatever *)
(* the calls of different users do in between, a Connect is its SavePeer   *)
(* and a Revoke is its Release, the checks Connect made two locks earlier  *)
(* being still true when it inserts the peer.                              *)
(***************************************************************************)
THEOREM Implements ==
  ASSUME Serial, ~StoreFails
  PROVE  Spec => ImplementsTunnelBook
<1>1. Init => SInv /\ TB!Init
  <2>1. Init => \A i \in PeerIDs : ~Live(i)
    BY DEF Init, Live, Active
  <2> QED
    BY <2>1, InitSInv DEF TB!Init, Tunnels
<1>2. IInv /\ SInv /\ [Next]_vars => SInv' /\ [TB!Next]_Tunnels
  BY NextSInv
<1> QED
  BY <1>1, <1>2, Invariance, PTL DEF Spec, ImplementsTunnelBook, TB!Spec

-----------------------------------------------------------------------------
(***************************************************************************)
(* The device limit is checked two locks before the peer is inserted, so   *)
(* overlapping calls of a user may exceed it: by one peer for each call    *)
(* beyond the first that the user can have in flight, and no more.  With   *)
(* one call at a time this is DeviceLimit.                                 *)
(***************************************************************************)
DevicesOf(u) == {d \in Devices : UserOf[d] = u}

Served == {UserOf[d] : d \in Devices}

OvershootBounded ==
  \A u \in Served :
    Cardinality(PeersByUser(u)) < MaxPeersPerUser + Cardinality(DevicesOf(u))

(***************************************************************************)
(* The device limit when calls overlap.  A Connect past its count          *)
(* (Admissions) will insert at most one peer.  When one is admitted, the   *)
(* peers are below the limit and the user's other calls are all that may   *)
(* be admitted already; from then on an admission only turns into a peer   *)
(* or comes to nothing.                                                    *)
(***************************************************************************)
Admissions(u) == {d \in DevicesOf(u) : call[d].at \in {"allocate", "save"}}

Counted(u) ==
  Cardinality(PeersByUser(u)) + Cardinality(Admissions(u))
    < MaxPeersPerUser + Cardinality(DevicesOf(u))

LimitInv == \A u \in Served : Counted(u)

(* The sets the counts are of are finite, before and after a step.          *)
LEMMA CountsFinite ==
  ASSUME IsFiniteSet(Devices), NEW u
  PROVE  /\ IsFiniteSet(DevicesOf(u)) /\ Cardinality(DevicesOf(u)) \in Nat
         /\ IsFiniteSet(PeersByUser(u)) /\ Cardinality(PeersByUser(u)) \in Nat
         /\ IsFiniteSet(PeersByUser(u))' /\ Cardinality(PeersByUser(u))' \in Nat
         /\ IsFiniteSet(Admissions(u)) /\ Cardinality(Admissions(u)) \in Nat
         /\ IsFiniteSet(Admissions(u))' /\ Cardinality(Admissions(u))' \in Nat
<1>1. IsFiniteSet(DevicesOf(u))
  BY FS_Subset DEF DevicesOf
<1>2. Admissions(u) \subseteq DevicesOf(u) /\ Admissions(u)' \subseteq DevicesOf(u)
  BY DEF Admissions
<1>3. PeersByUser(u) \subseteq PeerIDs /\ PeersByUser(u)' \subseteq PeerIDs
  BY DEF PeersByUser
<1>4. /\ IsFiniteSet(PeersByUser(u)) /\ IsFiniteSet(PeersByUser(u)')
      /\ IsFiniteSet(Admissions(u)) /\ IsFiniteSet(Admissions(u)')
  BY <1>1, <1>2, <1>3, PeerIDsAssumption, FS_Subset
<1> QED
  BY <1>1, <1>4, FS_CardinalityType

(* Neither more peers nor more admissions: the count stays in its bound.    *)
LEMMA CountedShrinks ==
  ASSUME IsFiniteSet(Devices), NEW u, Counted(u),
         PeersByUser(u)' \subseteq PeersByUser(u), Admissions(u)' \subseteq Admissions(u)
  PROVE  Counted(u)'
<1>1. /\ Cardinality(PeersByUser(u))' <= Cardinality(PeersByUser(u))
      /\ Cardinality(Admissions(u))' <= Cardinality(Admissions(u))
  BY CountsFinite, FS_Subset
<1> HIDE DEF PeersByUser, Admissions
<1> QED
  BY <1>1, CountsFinite, MaxPeersAssumption DEF Counted, DevicesOf

(* A Connect is admitted below the limit.                                   *)
LEMMA ProceedsCounted ==
  ASSUME IsFiniteSet(Devices), ~StoreFails, IInv, LimitInv,
         NEW d \in Devices, ConnectProceeds(d), NEW u \in Served
  PROVE  Counted(u)'
<1>1. /\ PeersByUser(u)' = PeersByUser(u)
      /\ \A e \in Devices \ {d} : call'[e] = call[e]
  BY DEF ConnectProceeds, PeersByUser, Active, Goes, IInv, TablesOK
<1>2. CASE UserOf[d] # u
  <2>1. Admissions(u)' \subseteq Admissions(u)
    BY <1>1, <1>2 DEF Admissions, DevicesOf
  <2> QED
    BY <1>1, <2>1, CountedShrinks DEF LimitInv
<1>3. CASE UserOf[d] = u
  <2>1. Cardinality(PeersByUser(u)) < MaxPeersPerUser
    BY <1>3, CountsFinite, MaxPeersAssumption DEF ConnectProceeds, Listings, ConnectSettled
  <2>2. Cardinality(Admissions(u))' <= Cardinality(DevicesOf(u))
    <3>1. Admissions(u)' \subseteq DevicesOf(u)
      BY DEF Admissions
    <3> QED
      BY <3>1, CountsFinite, FS_Subset
  <2>3. DevicesOf(u)' = DevicesOf(u)
    BY DEF DevicesOf
  <2> QED
    BY <1>1, <2>1, <2>2, <2>3, CountsFinite, MaxPeersAssumption DEF Counted
<1> QED
  BY <1>2, <1>3

(* An insert turns an admission into a peer.                                *)
LEMMA SavesCounted ==
  ASSUME IsFiniteSet(Devices), IInv, LimitInv,
         NEW d \in Devices, ConnectSaves(d), NEW u \in Served
  PROVE  Counted(u)'
<1>1. call[d].at = "save" /\ call'[d].at = "idle" /\ \A e \in Devices \ {d} : call'[e] = call[e]
  BY DEF ConnectSaves, Goes, Idle, IInv, TablesOK
<1>2. PICK i \in PeerIDs : peers[i] = NoPeer /\ peers' = [peers EXCEPT ![i] = NewPeer(d)]
  BY DEF ConnectSaves
<1>3. /\ peers'[i].user = UserOf[d]
      /\ \A j \in PeerIDs \ {i} : peers'[j] = peers[j]
  BY <1>2 DEF NewPeer, IInv, TablesOK
<1>4. CASE UserOf[d] # u
  <2>1. PeersByUser(u)' = PeersByUser(u)
    BY <1>2, <1>3, <1>4 DEF PeersByUser, Active
  <2>2. Admissions(u)' = Admissions(u)
    BY <1>1, <1>4 DEF Admissions, DevicesOf
  <2> QED
    BY <2>1, <2>2, CountedShrinks DEF LimitInv
<1>5. CASE UserOf[d] = u
  <2>1. PeersByUser(u)' \subseteq PeersByUser(u) \cup {i} /\ i \notin PeersByUser(u)
    BY <1>2, <1>3 DEF PeersByUser, Active
  <2>2. Cardinality(PeersByUser(u))' <= Cardinality(PeersByUser(u)) + 1
    <3>1. /\ IsFiniteSet(PeersByUser(u) \cup {i})
          /\ Cardinality(PeersByUser(u) \cup {i}) = Cardinality(PeersByUser(u)) + 1
      BY <2>1, CountsFinite, FS_AddElement
    <3> QED
      BY <2>1, <3>1, FS_Subset
  <2>3. d \in Admissions(u) /\ Admissions(u)' = Admissions(u) \ {d}
    BY <1>1, <1>5 DEF Admissions, DevicesOf
  <2>4. Cardinality(Admissions(u))' = Cardinality(Admissions(u)) - 1
    BY <2>3, CountsFinite, FS_RemoveElement
  <2>5. DevicesOf(u)' = DevicesOf(u)
    BY DEF DevicesOf
  <2> QED
    BY <2>2, <2>4, <2>5, CountsFinite, MaxPeersAssumption DEF Counted, LimitInv
<1> QED
  BY <1>4, <1>5

(* Every other step leaves no more peers and no more admissions.            *)
LEMMA NextLimitInv ==
  ASSUME IsFiniteSet(Devices), ~StoreFails, IInv, LimitInv, [Next]_vars
  PROVE  LimitInv'
<1> SUFFICES ASSUME NEW u \in Served PROVE Counted(u)'
  BY DEF LimitInv, Served
<1>1. ASSUME peers' = peers,
             \A d \in Devices :
               call'[d].at \in {"allocate", "save"} => call[d].at \in {"allocate", "save"}
      PROVE  Counted(u)'
  <2>1. PeersByUser(u)' = PeersByUser(u)
    BY <1>1 DEF PeersByUser, Active
  <2>2. Admissions(u)' \subseteq Admissions(u)
    BY <1>1 DEF Admissions, DevicesOf
  <2> QED
    BY <2>1, <2>2, CountedShrinks DEF LimitInv
<1>2. ASSUME NEW d \in Devices, NEW c, Goes(d, c), peers' = peers,
             c.at \in {"allocate", "save"} => call[d].at \in {"allocate", "save"}
      PROVE  Counted(u)'
  <2>1. \A e \in Devices : call'[e] = IF e = d THEN c ELSE call[e]
    BY <1>2 DEF Goes, IInv, TablesOK
  <2> QED
    BY <1>1, <1>2, <2>1
<1>3. Idle.at = "idle"
  BY DEF Idle
<1>4. ASSUME NEW d \in Devices, Connect(d) PROVE Counted(u)'
  <2>1. CASE ConnectProceeds(d)
    BY <2>1, ProceedsCounted
  <2>2. CASE ConnectSaves(d)
    BY <2>2, SavesCounted
  <2>3. CASE \E p \in Pools, k \in Keys \cup {BadKey} : ConnectArrives(d, p, k)
    <3>1. PICK p \in Pools, k \in Keys \cup {BadKey} : ConnectArrives(d, p, k)
      BY <2>3
    <3>2. Goes(d, [at |-> "check", pool |-> p, key |-> k]) /\ peers' = peers
      BY <3>1 DEF ConnectArrives
    <3> QED
      BY <1>2, <3>2
  <2>4. CASE \/ ConnectRefused(d) \/ ConnectAnswered(d) \/ ConnectExhausted(d)
             \/ ConnectUndoes(d)
    <3>1. Goes(d, Idle) /\ peers' = peers
      BY <2>4 DEF ConnectRefused, ConnectAnswered, ConnectExhausted, ConnectUndoes
    <3> QED
      BY <1>2, <1>3, <3>1
  <2>5. CASE ConnectChecked(d)
    <3> DEFINE c == [call[d] EXCEPT !.at = "list"]
    <3>1. c.at = "list" /\ Goes(d, c) /\ peers' = peers
      BY <2>5, CallFields DEF ConnectChecked, IInv
    <3> HIDE DEF c
    <3> QED
      BY <1>2, <3>1
  <2>6. CASE ConnectAllocates(d)
    <3>1. PICK x \in Octets :
            Goes(d, [at |-> "save", pool |-> call[d].pool, key |-> call[d].key, addr |-> x])
      BY <2>6 DEF ConnectAllocates
    <3>2. call[d].at = "allocate" /\ peers' = peers
      BY <2>6 DEF ConnectAllocates
    <3> QED
      BY <1>2, <3>1, <3>2
  <2>7. CASE ConnectSaveFails(d)
    BY <2>7 DEF ConnectSaveFails
  <2> QED
    BY <1>4, <2>1, <2>2, <2>3, <2>4, <2>5, <2>6, <2>7 DEF Connect
<1>5. ASSUME NEW d \in Devices, Revoke(d) PROVE Counted(u)'
  <2>1. CASE \E i \in PeerIDs : RevokeArrives(d, i)
    <3>1. PICK i \in PeerIDs : RevokeArrives(d, i)
      BY <2>1
    <3>2. Goes(d, [at |-> "find", target |-> i]) /\ peers' = peers
      BY <3>1 DEF RevokeArrives
    <3> QED
      BY <1>2, <3>2
  <2>2. CASE RevokeUnknown(d) \/ RevokeFails(d)
    BY <1>2, <1>3, <2>2 DEF RevokeUnknown, RevokeFails
  <2>3. CASE RevokeFinds(d)
    <3> DEFINE c == [call[d] EXCEPT !.at = "release"]
    <3>1. c.at = "release" /\ Goes(d, c) /\ peers' = peers
      BY <2>3, CallFields DEF RevokeFinds, IInv
    <3> HIDE DEF c
    <3> QED
      BY <1>2, <3>1
  <2>4. CASE RevokeReleases(d)
    <3> DEFINE c == [call[d] EXCEPT !.at = "revoke"]
    <3>1. c.at = "revoke" /\ Goes(d, c) /\ peers' = peers
      BY <2>4, CallFields DEF RevokeReleases, IInv
    <3> HIDE DEF c
    <3> QED
      BY <1>2, <3>1
  <2>5. CASE RevokeDeactivates(d)
    <3>1. PICK i \in PeerIDs : peers[i] # NoPeer /\ peers' = [peers EXCEPT ![i].active = FALSE]
      BY <2>5, CallFields DEF RevokeDeactivates, IInv, TargetsOwn
    <3>2. PeersByUser(u)' \subseteq PeersByUser(u)
      BY <3>1 DEF PeersByUser, Active, IInv, TablesOK, Peer
    <3>3. Admissions(u)' \subseteq Admissions(u)
      BY <1>3, <2>5 DEF Admissions, DevicesOf, RevokeDeactivates, Goes, IInv, TablesOK
    <3> QED
      BY <3>2, <3>3, CountedShrinks DEF LimitInv
  <2> QED
    BY <1>5, <2>1, <2>2, <2>3, <2>4, <2>5 DEF Revoke
<1>6. ASSUME NEW v \in Users, NEW st \in SubStates, UpsertSubscription(v, st)
      PROVE  Counted(u)'
  BY <1>1, <1>6 DEF UpsertSubscription
<1>7. CASE UNCHANGED vars
  BY <1>1, <1>7 DEF vars
<1> QED
  BY <1>4, <1>5, <1>6, <1>7 DEF Next

(* No peer, no admission, and a device for each user served.                *)
LEMMA InitLimitInv ==
  ASSUME IsFiniteSet(Devices)
  PROVE  Init => LimitInv
<1> SUFFICES ASSUME Init, NEW u \in Served PROVE Counted(u)
  BY DEF LimitInv
<1>1. PeersByUser(u) = {} /\ Admissions(u) = {}
  <2>1. \A i \in PeerIDs : ~Active(i)
    BY DEF Init, Active
  <2>2. \A d \in Devices : call[d].at = "idle"
    BY DEF Init, Idle
  <2> QED
    BY <2>1, <2>2 DEF PeersByUser, Admissions, DevicesOf
<1>2. DevicesOf(u) # {}
  BY DEF Served, DevicesOf
<1>3. Cardinality(PeersByUser(u)) = 0 /\ Cardinality(Admissions(u)) = 0
  BY <1>1, FS_EmptySet
<1>4. Cardinality(DevicesOf(u)) # 0
  BY <1>2, CountsFinite, FS_EmptySet
<1> QED
  BY <1>3, <1>4, CountsFinite, MaxPeersAssumption DEF Counted

(***************************************************************************)
(* However the calls of a user overlap, the device limit is exceeded by    *)
(* less than the number of calls the user can have in flight at once.      *)
(***************************************************************************)
THEOREM Overshoot ==
  ASSUME IsFiniteSet(Devices), ~StoreFails
  PROVE  Spec => []OvershootBounded
<1>1. ASSUME LimitInv PROVE OvershootBounded
  <2> SUFFICES ASSUME NEW u \in Served
               PROVE  Cardinality(PeersByUser(u)) < MaxPeersPerUser + Cardinality(DevicesOf(u))
    BY DEF OvershootBounded, Served
  <2> QED
    BY <1>1, CountsFinite, MaxPeersAssumption DEF LimitInv, Counted
<1>2. IInv /\ LimitInv /\ [Next]_vars => LimitInv'
  BY NextLimitInv
<1> QED
  BY <1>1, <1>2, InitLimitInv, Invariance, PTL DEF Spec

(* The peer table changes only with an insert under a new identifier or by  *)
(* a peer losing its activity.                                              *)
LEMMA RowsChange ==
  ASSUME IInv, [Next]_vars
  PROVE  \/ \E d \in Devices, i \in PeerIDs :
              /\ call[d].at = "save"
              /\ peers[i] = NoPeer
              /\ peers' = [peers EXCEPT ![i] = NewPeer(d)]
         \/ \E i \in PeerIDs :
              /\ peers[i] # NoPeer
              /\ peers' = [peers EXCEPT ![i].active = FALSE]
         \/ peers' = peers
<1>1. ASSUME NEW d \in Devices, ConnectSaves(d)
      PROVE  /\ call[d].at = "save"
             /\ \E i \in PeerIDs :
                  peers[i] = NoPeer /\ peers' = [peers EXCEPT ![i] = NewPeer(d)]
  BY <1>1 DEF ConnectSaves
<1>2. ASSUME NEW d \in Devices, RevokeDeactivates(d)
      PROVE  \E i \in PeerIDs :
               peers[i] # NoPeer /\ peers' = [peers EXCEPT ![i].active = FALSE]
  BY <1>2, CallFields DEF RevokeDeactivates, IInv, TargetsOwn
<1>3. ASSUME NEW d \in Devices, Connect(d), ~ConnectSaves(d) PROVE peers' = peers
  BY <1>3 DEF Connect, ConnectArrives, ConnectRefused, ConnectChecked,
     ConnectAnswered, ConnectProceeds, ConnectAllocates, ConnectExhausted,
     ConnectSaveFails, ConnectUndoes
<1>4. ASSUME NEW d \in Devices, Revoke(d), ~RevokeDeactivates(d) PROVE peers' = peers
  BY <1>4 DEF Revoke, RevokeArrives, RevokeUnknown, RevokeFinds, RevokeReleases, RevokeFails
<1>5. ASSUME NEW u \in Users, NEW st \in SubStates, UpsertSubscription(u, st)
      PROVE  peers' = peers
  BY <1>5 DEF UpsertSubscription
<1> QED
  BY <1>1, <1>2, <1>3, <1>4, <1>5 DEF Next, vars

\* A peer is of a user who has a device.
NoStrangers == \A i \in PeerIDs : Active(i) => \E d \in Devices : peers[i].user = UserOf[d]

(* A peer is inserted by a device of its user.                              *)
LEMMA Strangers == Spec => []NoStrangers
<1>1. Init => NoStrangers
  BY DEF Init, NoStrangers, Active
<1>2. IInv /\ NoStrangers /\ [Next]_vars => NoStrangers'
  <2> SUFFICES ASSUME IInv, NoStrangers, [Next]_vars PROVE NoStrangers'
    OBVIOUS
  <2>1. ASSUME NEW d \in Devices, NEW i \in PeerIDs, peers' = [peers EXCEPT ![i] = NewPeer(d)]
        PROVE  NoStrangers'
    BY <2>1 DEF NewPeer, NoStrangers, Active, IInv, TablesOK
  <2>2. ASSUME NEW i \in PeerIDs, peers[i] # NoPeer, peers' = [peers EXCEPT ![i].active = FALSE]
        PROVE  NoStrangers'
    BY <2>2 DEF NoStrangers, Active, IInv, TablesOK, Peer
  <2>3. ASSUME peers' = peers PROVE NoStrangers'
    BY <2>3 DEF NoStrangers, Active
  <2> QED
    BY <2>1, <2>2, <2>3, RowsChange
<1> QED
  BY <1>1, <1>2, Invariance, PTL DEF Spec

(***************************************************************************)
(* A user whose calls do not overlap never has more active peers than the  *)
(* device limit (service.go:27), whatever the other users do.              *)
(***************************************************************************)
THEOREM LimitKept ==
  ASSUME Serial, IsFiniteSet(Devices), ~StoreFails
  PROVE  Spec => []DeviceLimit
<1>1. ASSUME IInv, OvershootBounded, NoStrangers PROVE DeviceLimit
  <2> SUFFICES ASSUME NEW u \in Users
               PROVE  Cardinality(PeersByUser(u)) <= MaxPeersPerUser
    BY DEF DeviceLimit
  <2>1. CASE u \in Served
    <3>1. PICK d \in Devices : UserOf[d] = u
      BY <2>1 DEF Served
    <3>2. DevicesOf(u) = {d}
      BY <3>1 DEF Serial, DevicesOf
    <3>3. Cardinality(DevicesOf(u)) = 1
      BY <3>2, FS_Singleton
    <3> QED
      BY <1>1, <2>1, <3>3, CountsFinite, MaxPeersAssumption DEF OvershootBounded, Served
  <2>2. CASE u \notin Served
    <3>1. PeersByUser(u) = {}
      BY <1>1, <2>2 DEF NoStrangers, PeersByUser, Served
    <3> QED
      BY <3>1, FS_EmptySet, MaxPeersAssumption
  <2> QED
    BY <2>1, <2>2
<1> QED
  BY <1>1, Overshoot, Invariance, Strangers, PTL

(***************************************************************************)
(* One tunnel address per peer (001_init.sql:20), while a user's calls do  *)
(* not overlap: an active peer nobody is revoking is live, and two live    *)
(* peers have different addresses.                                         *)
(***************************************************************************)
THEOREM OneAddress ==
  ASSUME Serial, ~StoreFails
  PROVE  Spec => []OneAddressPerPeer
<1>1. ASSUME SInv PROVE OneAddressPerPeer
  <2> SUFFICES ASSUME \A d \in Devices : call[d] = Idle
               PROVE  \A i, j \in PeerIDs :
                        /\ Active(i) /\ Active(j)
                        /\ peers[i].pool = peers[j].pool
                        /\ peers[i].addr = peers[j].addr
                        => i = j
    BY DEF OneAddressPerPeer
  <2>1. \A i \in PeerIDs : Active(i) => Live(i)
    BY DEF Live, Revoking, Idle
  <2> QED
    BY <1>1, <2>1 DEF SInv, LiveApart, SameAddress
<1>2. IInv /\ SInv /\ [Next]_vars => SInv'
  BY NextSInv
<1> QED
  BY <1>1, <1>2, InitSInv, Invariance, PTL DEF Spec

(***************************************************************************)
(* While a user's calls do not overlap, Connect is idempotent: whatever is *)
(* revoked and provisioned again, two active peers of a user differ in     *)
(* their pool or in their key.                                             *)
(***************************************************************************)
THEOREM OnePerKey ==
  ASSUME Serial, ~StoreFails
  PROVE  Spec => []OnePeerPerKey
<1>1. Init => OnePeerPerKey
  BY DEF Init, OnePeerPerKey, Active
<1>2. IInv /\ SInv /\ OnePeerPerKey /\ [Next]_vars => OnePeerPerKey'
  <2> SUFFICES ASSUME IInv, SInv, OnePeerPerKey, [Next]_vars PROVE OnePeerPerKey'
    OBVIOUS
  <2>1. ASSUME NEW d \in Devices, NEW i \in PeerIDs, call[d].at = "save",
               peers[i] = NoPeer, peers' = [peers EXCEPT ![i] = NewPeer(d)]
        PROVE  OnePeerPerKey'
    <3>1. /\ peers'[i].user = UserOf[d] /\ peers'[i].pool = call[d].pool
          /\ peers'[i].key = call[d].key
          /\ \A j \in PeerIDs \ {i} : peers'[j] = peers[j]
      BY <2>1 DEF NewPeer, IInv, TablesOK
    <3>2. \A j \in PeerIDs \ {i} :
            Active(j) /\ peers[j].user = UserOf[d] => ~Matches(j, call[d])
      BY <2>1 DEF SInv, Admitted, Admits, PeersByUser
    <3>3. ASSUME NEW j \in PeerIDs, NEW k \in PeerIDs, Active(j)', Active(k)',
                 peers'[j].user = peers'[k].user, peers'[j].pool = peers'[k].pool,
                 peers'[j].key = peers'[k].key
          PROVE  j = k
      <4>1. CASE j = i /\ k # i
        BY <3>1, <3>2, <3>3, <4>1 DEF Active, Matches
      <4>2. CASE j # i /\ k = i
        BY <3>1, <3>2, <3>3, <4>2 DEF Active, Matches
      <4>3. CASE j # i /\ k # i
        BY <3>1, <3>3, <4>3 DEF OnePeerPerKey, Active, Matches
      <4> QED
        BY <4>1, <4>2, <4>3
    <3> QED
      BY <3>3 DEF OnePeerPerKey, Matches
  <2>2. ASSUME NEW i \in PeerIDs, peers[i] # NoPeer, peers' = [peers EXCEPT ![i].active = FALSE]
        PROVE  OnePeerPerKey'
    <3>1. \A j \in PeerIDs : Active(j)' => Active(j) /\ peers'[j] = peers[j]
      BY <2>2 DEF Active, IInv, TablesOK, Peer
    <3> QED
      BY <3>1 DEF OnePeerPerKey, Matches
  <2>3. ASSUME peers' = peers PROVE OnePeerPerKey'
    BY <2>3 DEF OnePeerPerKey, Active, Matches
  <2> QED
    BY <2>1, <2>2, <2>3, RowsChange
<1>3. IInv /\ SInv /\ [Next]_vars => SInv'
  BY NextSInv
<1> QED
  BY <1>1, <1>2, <1>3, InitSInv, Invariance, PTL DEF Spec
=============================================================================
