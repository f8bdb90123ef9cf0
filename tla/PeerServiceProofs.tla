-------------------------- MODULE PeerServiceProofs --------------------------
(***************************************************************************)
(* Theorems about the peer service, for any users, devices, pools and      *)
(* keys, any number of overlapping calls, and a store that may fail.       *)
(***************************************************************************)
EXTENDS PeerService, Sequences, TLAPS

-----------------------------------------------------------------------------
(* What the service needs to know of its allocators, taken from the         *)
(* allocators' own theorems.                                                *)

NAP == INSTANCE NetallocProofs WITH Owners <- Users

PoolInv == NA!TypeOK /\ NA!FreeListSound /\ NA!CursorAtFrontier

(* The allocators' invariant is the one proved in NetallocProofs.           *)
LEMMA SamePoolInv == (PoolInv <=> NAP!IInv) /\ (PoolInv' <=> NAP!IInv')
<1>1. NA!Octets = NAP!Octets
  BY DEF NA!Octets, NAP!Octets
<1>2. \A p : /\ NA!Leased(p) = NAP!Leased(p)
             /\ NA!Touched(p) = NAP!Touched(p)
             /\ NA!Leased(p)' = NAP!Leased(p)'
             /\ NA!Touched(p)' = NAP!Touched(p)'
  BY <1>1 DEF NA!Leased, NAP!Leased, NA!Touched, NAP!Touched, NA!ToSet, NAP!ToSet
<1> QED
  BY <1>1, <1>2 DEF PoolInv, NAP!IInv, NA!TypeOK, NAP!TypeOK, NA!FreeListSound,
     NAP!FreeListSound, NA!CursorAtFrontier, NAP!CursorAtFrontier

(* So are the allocators' steps.                                            *)
LEMMA SamePoolNext == [NA!Next]_NA!vars => [NAP!Next]_NAP!vars
BY DEF NA!Next, NAP!Next, NA!vars, NAP!vars, NA!Allocate, NAP!Allocate,
   NA!Release, NAP!Release, NA!AllocateFails, NAP!AllocateFails,
   NA!AllocateReleased, NAP!AllocateReleased, NA!AllocateFresh, NAP!AllocateFresh,
   NA!ReleaseHeld, NAP!ReleaseHeld, NA!ReleaseRefused, NAP!ReleaseRefused,
   NA!Octets, NAP!Octets, NA!Tries, NAP!Tries, NA!Cursor, NAP!Cursor,
   NA!Taken, NAP!Taken, NA!SweepFails, NAP!SweepFails,
   NA!Last, NAP!Last, NA!Front, NAP!Front

(* A call of an allocator method keeps the allocators' invariant.           *)
LEMMA PoolStep == PoolInv /\ [NA!Next]_NA!vars => PoolInv'
BY SamePoolInv, SamePoolNext, NAP!NextIInv, HostAssumption, NoOwnerAssumption

(* The allocators start with their invariant.                               *)
LEMMA PoolInit == NA!Init => PoolInv
<1>1. NA!Init => NAP!Init
  BY DEF NA!Init, NAP!Init, NA!Octets, NAP!Octets
<1> QED
  BY <1>1, SamePoolInv, NAP!InitIInv, HostAssumption, NoOwnerAssumption

(* The service and its allocators speak of the same addresses.              *)
LEMMA SameOctets == Octets = NA!Octets
BY DEF Octets, NA!Octets

(* Allocate leases one free address and touches no other.                   *)
LEMMA AllocateEffect ==
  ASSUME PoolInv, NEW p \in Pools, NEW u \in Users, NEW x \in Octets,
         NA!Allocate(p, u, x)
  PROVE  /\ PoolInv'
         /\ held[p][x] = NoOwner
         /\ \A q \in Pools, y \in Octets :
              held'[q][y] = IF q = p /\ y = x THEN u ELSE held[q][y]
<1>1. NA!Next
  BY SameOctets DEF NA!Next
<1>2. PoolInv'
  BY <1>1, PoolStep
<1>3. held' = [held EXCEPT ![p][x] = u]
  BY DEF NA!Allocate, NA!AllocateReleased, NA!AllocateFresh
<1>4. held[p][x] = NoOwner
  <2>1. CASE NA!AllocateReleased(p, u, x)
    <3>1. free[p] \in Seq(Octets) /\ free[p] # <<>> /\ x = free[p][Len(free[p])]
      BY <2>1, SameOctets DEF PoolInv, NA!TypeOK, NA!AllocateReleased, NA!Last
    <3>2. Len(free[p]) \in DOMAIN free[p]
      BY <3>1
    <3>3. x \notin NA!Leased(p)
      BY <3>1, <3>2 DEF PoolInv, NA!FreeListSound
    <3> QED
      BY <3>3, SameOctets DEF NA!Leased
  <2>2. CASE NA!AllocateFresh(p, u, x)
    BY <2>2 DEF NA!AllocateFresh, NA!Taken
  <2> QED
    BY <2>1, <2>2 DEF NA!Allocate
<1>5. \A q \in Pools, y \in Octets :
        held'[q][y] = IF q = p /\ y = x THEN u ELSE held[q][y]
  BY <1>3, SameOctets DEF PoolInv, NA!TypeOK
<1> QED
  BY <1>2, <1>4, <1>5

(* Release frees the address if the caller holds it, and touches no other.  *)
LEMMA ReleaseEffect ==
  ASSUME PoolInv, NEW p \in Pools, NEW u \in Users, NEW x \in Octets,
         NA!Release(p, x, u)
  PROVE  /\ PoolInv'
         /\ \A q \in Pools, y \in Octets :
              held'[q][y] = IF q = p /\ y = x /\ held[p][x] = u
                            THEN NoOwner ELSE held[q][y]
<1>1. NA!Next
  BY SameOctets DEF NA!Next
<1>2. PoolInv'
  BY <1>1, PoolStep
<1>3. CASE NA!ReleaseHeld(p, x, u)
  <2>1. held[p][x] = u /\ held' = [held EXCEPT ![p][x] = NoOwner]
    BY <1>3 DEF NA!ReleaseHeld
  <2> QED
    BY <1>2, <2>1, SameOctets DEF PoolInv, NA!TypeOK
<1>4. CASE NA!ReleaseRefused(p, x, u)
  BY <1>2, <1>4 DEF NA!ReleaseRefused, NA!vars
<1> QED
  BY <1>3, <1>4 DEF NA!Release

(* A failed Allocate changes no lease.                                      *)
LEMMA ExhaustedEffect ==
  ASSUME PoolInv, NEW p \in Pools, NA!AllocateFails(p)
  PROVE  PoolInv' /\ held' = held
<1>1. NA!Next
  BY DEF NA!Next
<1> QED
  BY <1>1, PoolStep DEF NA!AllocateFails

(* A step that leaves the allocators alone keeps their invariant.           *)
LEMMA PoolUnchanged == PoolInv /\ UNCHANGED leases => PoolInv'
BY PoolStep DEF leases, NA!vars

-----------------------------------------------------------------------------
(***************************************************************************)
(* The inductive invariant.  To know that the Release of a Revoke takes    *)
(* away the lease of the peer it will deactivate, and of no other user's,  *)
(* one has to know that the peer it found is still in the table and its    *)
(* own user's (TargetsOwn).                                                *)
(***************************************************************************)
TargetsOwn ==
  \A d \in Devices :
    call[d].at \in {"release", "revoke"} =>
      peers[call[d].target] # NoPeer /\ peers[call[d].target].user = UserOf[d]

TablesOK ==
  /\ peers \in [PeerIDs -> Peer \cup {NoPeer}]
  /\ subs \in [Users -> SubStates \cup {"none"}]
  /\ call \in [Devices -> Call]

IInv == PoolInv /\ TablesOK /\ TargetsOwn /\ NoLeaseLeak

(* Nobody holds an address at the start, and no call is in flight.          *)
LEMMA InitIInv == Init => IInv
<1> SUFFICES ASSUME Init PROVE IInv
  OBVIOUS
<1>1. PoolInv
  BY PoolInit DEF Init
<1>2. TablesOK
  BY DEF Init, TablesOK, Call
<1>3. TargetsOwn
  BY DEF Init, TargetsOwn, Idle
<1>4. \A p \in Pools, x \in Octets : held[p][x] = NoOwner
  BY SameOctets DEF Init, NA!Init
<1>5. NoLeaseLeak
  BY <1>4 DEF NoLeaseLeak
<1> QED
  BY <1>1, <1>2, <1>3, <1>5 DEF IInv

(* What the stage of a call tells of its arguments.                         *)
LEMMA CallFields ==
  ASSUME TablesOK, NEW d \in Devices
  PROVE  /\ call[d].at = "check" =>
              call[d] \in [at : {"check"}, pool : Pools, key : Keys \cup {BadKey}]
         /\ call[d].at \in {"list", "allocate"} =>
              call[d] \in [at : {"list", "allocate"}, pool : Pools, key : Keys]
         /\ call[d].at \in {"save", "undo"} =>
              call[d] \in [at : {"save", "undo"}, pool : Pools, key : Keys,
                           addr : Octets]
         /\ call[d].at \in {"find", "release", "revoke"} =>
              call[d] \in [at : {"find", "release", "revoke"}, target : PeerIDs]
BY DEF TablesOK, Call, Idle

(***************************************************************************)
(* A step that moves one call and leaves peers and leases alone keeps the  *)
(* invariant, unless it drops an address it has taken or enters "release"  *)
(* or "revoke" without a target of its own.                                *)
(***************************************************************************)
LEMMA CallStepIInv ==
  ASSUME IInv, PoolInv', NEW d \in Devices, NEW c \in Call,
         Goes(d, c), held' = held, UNCHANGED <<peers, subs>>,
         call[d].at \in {"save", "undo"} =>
           c.at \in {"save", "undo"} /\ c.pool = call[d].pool /\ c.addr = call[d].addr,
         c.at # "revoke",
         c.at = "release" => peers[c.target] # NoPeer /\ peers[c.target].user = UserOf[d]
  PROVE  IInv'
<1>1. TablesOK'
  BY DEF IInv, TablesOK, Goes
<1>2. \A e \in Devices : call'[e] = IF e = d THEN c ELSE call[e]
  BY DEF IInv, TablesOK, Goes
<1>3. TargetsOwn'
  BY <1>2 DEF IInv, TargetsOwn
<1>4. NoLeaseLeak'
  <2> SUFFICES ASSUME NEW p \in Pools, NEW x \in Octets, held[p][x] # NoOwner
               PROVE  Backed(held[p][x], p, x)'
    BY DEF NoLeaseLeak
  <2>1. Backed(held[p][x], p, x)
    BY DEF IInv, NoLeaseLeak
  <2>2. \A e \in Devices : Provisioning(e, p, x) => Provisioning(e, p, x)'
    BY <1>2 DEF Provisioning
  <2>3. \A i \in PeerIDs : Live(i) => Live(i)'
    BY <1>2 DEF Live, Active, Revoking
  <2>4. \A i \in PeerIDs : PeerAt(i, held[p][x], p, x)' = PeerAt(i, held[p][x], p, x)
    BY DEF PeerAt
  <2> QED
    BY <2>1, <2>2, <2>3, <2>4 DEF Backed
<1> QED
  BY <1>1, <1>3, <1>4 DEF IInv

(* The steps of Connect before the address is taken, and after the insert   *)
(* has failed.                                                              *)
LEMMA ConnectQuietIInv ==
  ASSUME IInv, NEW d \in Devices,
         \/ \E p \in Pools, k \in Keys \cup {BadKey} : ConnectArrives(d, p, k)
         \/ ConnectRefused(d)
         \/ ConnectChecked(d)
         \/ ConnectAnswered(d)
         \/ ConnectProceeds(d)
         \/ ConnectSaveFails(d)
  PROVE  IInv'
<1>0. TablesOK
  BY DEF IInv
<1>1. CASE \E p \in Pools, k \in Keys \cup {BadKey} : ConnectArrives(d, p, k)
  <2>1. PICK p \in Pools, k \in Keys \cup {BadKey} : ConnectArrives(d, p, k)
    BY <1>1
  <2> DEFINE c == [at |-> "check", pool |-> p, key |-> k]
  <2>2. c \in Call /\ c.at = "check" /\ call[d].at = "idle"
    BY <2>1 DEF Call, ConnectArrives, Idle
  <2>3. Goes(d, c) /\ UNCHANGED <<leases, peers, subs>>
    BY <2>1 DEF ConnectArrives
  <2>4. PoolInv'
    BY <2>3, PoolUnchanged DEF IInv
  <2> HIDE DEF c
  <2> QED
    BY <2>2, <2>3, <2>4, CallStepIInv DEF leases
<1>2. CASE ConnectRefused(d) \/ ConnectAnswered(d)
  <2>1. Idle \in Call /\ Idle.at = "idle" /\ call[d].at \in {"check", "list"}
    BY <1>2 DEF Call, ConnectRefused, ConnectAnswered, Idle
  <2>2. Goes(d, Idle) /\ UNCHANGED <<leases, peers, subs>>
    BY <1>2 DEF ConnectRefused, ConnectAnswered
  <2>3. PoolInv'
    BY <2>2, PoolUnchanged DEF IInv
  <2> QED
    BY <2>1, <2>2, <2>3, CallStepIInv DEF leases
<1>3. CASE ConnectChecked(d)
  <2> DEFINE c == [call[d] EXCEPT !.at = "list"]
  <2>1. call[d] \in [at : {"check"}, pool : Pools, key : Keys \cup {BadKey}]
    BY <1>0, <1>3, CallFields DEF ConnectChecked
  <2>2. c \in Call /\ c.at = "list" /\ call[d].at = "check"
    BY <1>3, <2>1 DEF Call, ConnectChecked
  <2>3. Goes(d, c) /\ UNCHANGED <<leases, peers, subs>>
    BY <1>3 DEF ConnectChecked
  <2>4. PoolInv'
    BY <2>3, PoolUnchanged DEF IInv
  <2> HIDE DEF c
  <2> QED
    BY <2>2, <2>3, <2>4, CallStepIInv DEF leases
<1>4. CASE ConnectProceeds(d)
  <2> DEFINE c == [call[d] EXCEPT !.at = "allocate"]
  <2>1. call[d] \in [at : {"list", "allocate"}, pool : Pools, key : Keys]
    BY <1>0, <1>4, CallFields DEF ConnectProceeds
  <2>2. c \in Call /\ c.at = "allocate" /\ call[d].at = "list"
    BY <1>4, <2>1 DEF Call, ConnectProceeds
  <2>3. Goes(d, c) /\ UNCHANGED <<leases, peers, subs>>
    BY <1>4 DEF ConnectProceeds
  <2>4. PoolInv'
    BY <2>3, PoolUnchanged DEF IInv
  <2> HIDE DEF c
  <2> QED
    BY <2>2, <2>3, <2>4, CallStepIInv DEF leases
<1>5. CASE ConnectSaveFails(d)
  <2> DEFINE c == [call[d] EXCEPT !.at = "undo"]
  <2>1. call[d] \in [at : {"save", "undo"}, pool : Pools, key : Keys, addr : Octets]
    BY <1>0, <1>5, CallFields DEF ConnectSaveFails
  <2>2. c \in Call /\ c.at = "undo" /\ c.pool = call[d].pool /\ c.addr = call[d].addr
    BY <2>1 DEF Call
  <2>3. Goes(d, c) /\ UNCHANGED <<leases, peers, subs>>
    BY <1>5 DEF ConnectSaveFails
  <2>4. PoolInv'
    BY <2>3, PoolUnchanged DEF IInv
  <2> HIDE DEF c
  <2> QED
    BY <2>2, <2>3, <2>4, CallStepIInv DEF leases
<1> QED
  BY <1>1, <1>2, <1>3, <1>4, <1>5

(* A Connect that finds the pool exhausted.                                 *)
LEMMA ConnectExhaustedIInv ==
  ASSUME IInv, NEW d \in Devices, ConnectExhausted(d)
  PROVE  IInv'
<1>1. call[d].at = "allocate" /\ call[d].pool \in Pools
  BY CallFields DEF IInv, ConnectExhausted
<1>2. PoolInv' /\ held' = held
  BY <1>1, ExhaustedEffect DEF IInv, ConnectExhausted
<1>3. Idle \in Call /\ Idle.at = "idle"
  BY DEF Call, Idle
<1> QED
  BY <1>1, <1>2, <1>3, CallStepIInv DEF ConnectExhausted

(* The steps of Revoke that touch neither the allocator nor the table.      *)
LEMMA RevokeQuietIInv ==
  ASSUME IInv, NEW d \in Devices,
         \/ \E i \in PeerIDs : RevokeArrives(d, i)
         \/ RevokeUnknown(d)
         \/ RevokeFinds(d)
         \/ RevokeFails(d)
  PROVE  IInv'
<1>1. CASE \E i \in PeerIDs : RevokeArrives(d, i)
  <2>1. PICK i \in PeerIDs : RevokeArrives(d, i)
    BY <1>1
  <2> DEFINE c == [at |-> "find", target |-> i]
  <2>2. c \in Call /\ c.at = "find" /\ call[d].at = "idle"
    BY <2>1 DEF Call, RevokeArrives, Idle
  <2>3. Goes(d, c) /\ UNCHANGED <<leases, peers, subs>>
    BY <2>1 DEF RevokeArrives
  <2>4. PoolInv'
    BY <2>3, PoolUnchanged DEF IInv
  <2> HIDE DEF c
  <2> QED
    BY <2>2, <2>3, <2>4, CallStepIInv DEF leases
<1>2. CASE RevokeUnknown(d) \/ RevokeFails(d)
  <2>1. Idle \in Call /\ Idle.at = "idle" /\ call[d].at \in {"find", "revoke"}
    BY <1>2 DEF Call, RevokeUnknown, RevokeFails, Idle
  <2>2. Goes(d, Idle) /\ UNCHANGED <<leases, peers, subs>>
    BY <1>2 DEF RevokeUnknown, RevokeFails
  <2>3. PoolInv'
    BY <2>2, PoolUnchanged DEF IInv
  <2> QED
    BY <2>1, <2>2, <2>3, CallStepIInv DEF leases
<1>3. CASE RevokeFinds(d)
  <2> DEFINE c == [call[d] EXCEPT !.at = "release"]
  <2>1. call[d] \in [at : {"find", "release", "revoke"}, target : PeerIDs]
    BY <1>3, CallFields DEF IInv, RevokeFinds
  <2>2. /\ c \in Call /\ c.at = "release" /\ c.target = call[d].target
        /\ call[d].at = "find"
    BY <1>3, <2>1 DEF Call, RevokeFinds
  <2>3. peers[c.target] # NoPeer /\ peers[c.target].user = UserOf[d]
    BY <1>3, <2>2 DEF RevokeFinds, PeersByUser, Active
  <2>4. Goes(d, c) /\ UNCHANGED <<leases, peers, subs>>
    BY <1>3 DEF RevokeFinds
  <2>5. PoolInv'
    BY <2>4, PoolUnchanged DEF IInv
  <2> HIDE DEF c
  <2> QED
    BY <2>2, <2>3, <2>4, <2>5, CallStepIInv DEF leases
<1> QED
  BY <1>1, <1>2, <1>3

(* The address Connect takes is backed by the call itself.                  *)
LEMMA ConnectAllocatesIInv ==
  ASSUME IInv, NEW d \in Devices, ConnectAllocates(d)
  PROVE  IInv'
<1>1. PICK p \in Pools, k \in Keys :
        call[d].at = "allocate" /\ call[d].pool = p /\ call[d].key = k
  BY CallFields DEF IInv, ConnectAllocates
<1>2. PICK x \in Octets :
        /\ NA!Allocate(p, UserOf[d], x)
        /\ Goes(d, [at |-> "save", pool |-> p, key |-> k, addr |-> x])
  BY <1>1 DEF ConnectAllocates
<1> DEFINE c == [at |-> "save", pool |-> p, key |-> k, addr |-> x]
<1>3. c \in Call /\ c.at = "save" /\ c.pool = p /\ c.addr = x
  BY <1>1 DEF Call
<1>4. \A e \in Devices : call'[e] = IF e = d THEN c ELSE call[e]
  BY <1>2 DEF IInv, TablesOK, Goes
<1>5. /\ PoolInv'
      /\ \A q \in Pools, y \in Octets :
           held'[q][y] = IF q = p /\ y = x THEN UserOf[d] ELSE held[q][y]
  BY <1>2, UserOfAssumption, AllocateEffect DEF IInv
<1>6. peers' = peers /\ subs' = subs
  BY DEF ConnectAllocates
<1>7. TablesOK'
  BY <1>2, <1>3, <1>6 DEF IInv, TablesOK, Goes
<1> HIDE DEF c
<1>8. TargetsOwn'
  BY <1>3, <1>4, <1>6 DEF IInv, TargetsOwn
<1>9. NoLeaseLeak'
  <2> SUFFICES ASSUME NEW q \in Pools, NEW y \in Octets, held'[q][y] # NoOwner
               PROVE  Backed(held[q][y], q, y)'
    BY DEF NoLeaseLeak
  <2>1. CASE q = p /\ y = x
    <3>1. Provisioning(d, p, x)'
      BY <1>3, <1>4 DEF Provisioning
    <3> QED
      BY <2>1, <3>1, <1>5 DEF Backed
  <2>2. CASE ~(q = p /\ y = x)
    <3>1. held'[q][y] = held[q][y] /\ Backed(held[q][y], q, y)
      BY <2>2, <1>5 DEF IInv, NoLeaseLeak
    <3>2. \A e \in Devices : Provisioning(e, q, y) => Provisioning(e, q, y)'
      BY <1>1, <1>4 DEF Provisioning
    <3>3. \A i \in PeerIDs : Live(i) => Live(i)'
      BY <1>3, <1>4, <1>6 DEF Live, Active, Revoking
    <3> QED
      BY <3>1, <3>2, <3>3, <1>6 DEF Backed, PeerAt
  <2> QED
    BY <2>1, <2>2
<1> QED
  BY <1>5, <1>7, <1>8, <1>9 DEF IInv

(* The peer Connect inserts takes over the address from the call: nobody    *)
(* can be revoking a peer that was not in the table.                        *)
LEMMA ConnectSavesIInv ==
  ASSUME IInv, NEW d \in Devices, ConnectSaves(d)
  PROVE  IInv'
<1>1. PICK p \in Pools, x \in Octets :
        /\ call[d].at = "save" /\ call[d].pool = p /\ call[d].addr = x
        /\ call[d].key \in Keys /\ UserOf[d] \in Users
  BY CallFields, UserOfAssumption DEF IInv, ConnectSaves
<1>2. PICK i \in PeerIDs :
        peers[i] = NoPeer /\ peers' = [peers EXCEPT ![i] = NewPeer(d)]
  BY DEF ConnectSaves
<1>3. /\ NewPeer(d) \in Peer
      /\ NewPeer(d).active /\ NewPeer(d).user = UserOf[d]
      /\ NewPeer(d).pool = p /\ NewPeer(d).addr = x
  BY <1>1 DEF NewPeer, Peer
<1>4. NewPeer(d) # NoPeer
  BY <1>3, NoPeerAssumption
<1>5. \A j \in PeerIDs : peers'[j] = IF j = i THEN NewPeer(d) ELSE peers[j]
  BY <1>2 DEF IInv, TablesOK
<1>6. Idle \in Call /\ Idle.at = "idle"
  BY DEF Call, Idle
<1>7. \A e \in Devices : call'[e] = IF e = d THEN Idle ELSE call[e]
  BY DEF IInv, TablesOK, Goes, ConnectSaves
<1>8. UNCHANGED leases /\ held' = held /\ subs' = subs
  BY DEF ConnectSaves, leases
<1>9. PoolInv'
  BY <1>8, PoolUnchanged DEF IInv
<1>10. TablesOK'
  BY <1>2, <1>3, <1>6, <1>8 DEF IInv, TablesOK, Goes, ConnectSaves
<1>11. \A e \in Devices : call[e].at \in {"release", "revoke"} =>
         call[e].target \in PeerIDs /\ call[e].target # i
  BY <1>2, CallFields DEF IInv, TargetsOwn
<1>12. TargetsOwn'
  BY <1>5, <1>6, <1>7, <1>11 DEF IInv, TargetsOwn
<1>13. Live(i)' /\ PeerAt(i, UserOf[d], p, x)'
  <2>1. Active(i)' /\ PeerAt(i, UserOf[d], p, x)'
    BY <1>3, <1>4, <1>5 DEF Active, PeerAt
  <2>2. \A e \in Devices : ~Revoking(e, i)'
    BY <1>6, <1>7, <1>11 DEF Revoking
  <2> QED
    BY <2>1, <2>2 DEF Live
<1>14. NoLeaseLeak'
  <2> SUFFICES ASSUME NEW q \in Pools, NEW y \in Octets, held[q][y] # NoOwner
               PROVE  Backed(held[q][y], q, y)'
    BY <1>8 DEF NoLeaseLeak
  <2>1. Backed(held[q][y], q, y)
    BY DEF IInv, NoLeaseLeak
  <2>2. CASE \E e \in Devices : UserOf[e] = held[q][y] /\ Provisioning(e, q, y)
    <3>1. PICK e \in Devices : UserOf[e] = held[q][y] /\ Provisioning(e, q, y)
      BY <2>2
    <3>2. CASE e = d
      <4>1. q = p /\ y = x /\ held'[q][y] = UserOf[d]
        BY <3>1, <3>2, <1>1, <1>8 DEF Provisioning
      <4> QED
        BY <4>1, <1>13 DEF Backed
    <3>3. CASE e # d
      BY <3>1, <3>3, <1>7, <1>8 DEF Backed, Provisioning
    <3> QED
      BY <3>2, <3>3
  <2>3. CASE \E j \in PeerIDs : Live(j) /\ PeerAt(j, held[q][y], q, y)
    <3>1. PICK j \in PeerIDs : Live(j) /\ PeerAt(j, held[q][y], q, y)
      BY <2>3
    <3>2. j # i /\ peers'[j] = peers[j]
      BY <3>1, <1>2, <1>5 DEF Live, Active
    <3>3. Live(j)'
      BY <3>1, <3>2, <1>6, <1>7 DEF Live, Active, Revoking
    <3>4. PeerAt(j, held[q][y], q, y)'
      BY <3>1, <3>2, <1>8 DEF PeerAt
    <3> QED
      BY <3>3, <3>4, <1>8 DEF Backed
  <2> QED
    BY <2>1, <2>2, <2>3 DEF Backed
<1> QED
  BY <1>9, <1>10, <1>12, <1>14 DEF IInv

(* After a failed insert the address is given back, or was not the user's   *)
(* any more: either way the call no longer has to back it.                  *)
LEMMA ConnectUndoesIInv ==
  ASSUME IInv, NEW d \in Devices, ConnectUndoes(d)
  PROVE  IInv'
<1>1. PICK p \in Pools, x \in Octets :
        call[d].at = "undo" /\ call[d].pool = p /\ call[d].addr = x
  BY CallFields DEF IInv, ConnectUndoes
<1>2. NA!Release(p, x, UserOf[d])
  BY <1>1 DEF ConnectUndoes
<1>3. /\ PoolInv'
      /\ \A q \in Pools, y \in Octets :
           held'[q][y] = IF q = p /\ y = x /\ held[p][x] = UserOf[d]
                         THEN NoOwner ELSE held[q][y]
  BY <1>2, UserOfAssumption, ReleaseEffect DEF IInv
<1>4. Idle \in Call /\ Idle.at = "idle"
  BY DEF Call, Idle
<1>5. \A e \in Devices : call'[e] = IF e = d THEN Idle ELSE call[e]
  BY DEF IInv, TablesOK, Goes, ConnectUndoes
<1>6. peers' = peers /\ subs' = subs
  BY DEF ConnectUndoes
<1>7. TablesOK'
  BY <1>4, <1>6 DEF IInv, TablesOK, Goes, ConnectUndoes
<1>8. TargetsOwn'
  BY <1>4, <1>5, <1>6 DEF IInv, TargetsOwn
<1>9. NoLeaseLeak'
  <2> SUFFICES ASSUME NEW q \in Pools, NEW y \in Octets, held'[q][y] # NoOwner
               PROVE  Backed(held[q][y], q, y)'
    BY DEF NoLeaseLeak
  <2>1. /\ held'[q][y] = held[q][y]
        /\ ~(q = p /\ y = x /\ held[q][y] = UserOf[d])
    BY <1>3
  <2>2. Backed(held[q][y], q, y)
    BY <2>1 DEF IInv, NoLeaseLeak
  <2>3. \A e \in Devices :
          UserOf[e] = held[q][y] /\ Provisioning(e, q, y) => Provisioning(e, q, y)'
    BY <1>1, <1>5, <2>1 DEF Provisioning
  <2>4. \A i \in PeerIDs : Live(i) => Live(i)'
    BY <1>4, <1>5, <1>6 DEF Live, Active, Revoking
  <2> QED
    BY <2>1, <2>2, <2>3, <2>4, <1>6 DEF Backed, PeerAt
<1> QED
  BY <1>3, <1>7, <1>8, <1>9 DEF IInv

(* The peer whose address Revoke gives back stops being live in that step,  *)
(* so it does not have to back the address any more.                        *)
LEMMA RevokeReleasesIInv ==
  ASSUME IInv, NEW d \in Devices, RevokeReleases(d)
  PROVE  IInv'
<1>1. PICK i \in PeerIDs :
        /\ call[d] \in [at : {"find", "release", "revoke"}, target : PeerIDs]
        /\ call[d].at = "release" /\ call[d].target = i
        /\ peers[i] # NoPeer /\ peers[i].user = UserOf[d]
  BY CallFields DEF IInv, TargetsOwn, RevokeReleases
<1>2. PICK p \in Pools, x \in Octets : peers[i].pool = p /\ peers[i].addr = x
  BY <1>1 DEF IInv, TablesOK, Peer
<1>3. NA!Release(p, x, UserOf[d])
  BY <1>1, <1>2 DEF RevokeReleases, Target
<1>4. /\ PoolInv'
      /\ \A q \in Pools, y \in Octets :
           held'[q][y] = IF q = p /\ y = x /\ held[p][x] = UserOf[d]
                         THEN NoOwner ELSE held[q][y]
  BY <1>3, UserOfAssumption, ReleaseEffect DEF IInv
<1> DEFINE c == [call[d] EXCEPT !.at = "revoke"]
<1>5. c \in Call /\ c.at = "revoke" /\ c.target = i
  BY <1>1 DEF Call
<1>6. call' = [call EXCEPT ![d] = c] /\ peers' = peers /\ subs' = subs
  BY DEF RevokeReleases, Goes
<1> HIDE DEF c
<1>7. TablesOK'
  BY <1>5, <1>6 DEF IInv, TablesOK
<1>8. /\ call'[d].at = "revoke" /\ call'[d].target = i
      /\ \A e \in Devices \ {d} : call'[e] = call[e]
  BY <1>5, <1>6 DEF IInv, TablesOK
<1>9. TargetsOwn'
  BY <1>1, <1>6, <1>8 DEF IInv, TargetsOwn
<1>10. NoLeaseLeak'
  <2> SUFFICES ASSUME NEW q \in Pools, NEW y \in Octets, held'[q][y] # NoOwner
               PROVE  Backed(held[q][y], q, y)'
    BY DEF NoLeaseLeak
  <2>1. /\ held'[q][y] = held[q][y]
        /\ ~(q = p /\ y = x /\ held[q][y] = UserOf[d])
    BY <1>4
  <2>2. Backed(held[q][y], q, y)
    BY <2>1 DEF IInv, NoLeaseLeak
  <2>3. \A e \in Devices : Provisioning(e, q, y) => Provisioning(e, q, y)'
    BY <1>1, <1>8 DEF Provisioning
  <2>4. \A j \in PeerIDs :
          Live(j) /\ PeerAt(j, held[q][y], q, y) => j # i /\ Live(j)'
    <3> SUFFICES ASSUME NEW j \in PeerIDs, Live(j), PeerAt(j, held[q][y], q, y)
                 PROVE  j # i /\ Live(j)'
      OBVIOUS
    <3>1. j # i
      BY <2>1, <1>1, <1>2 DEF PeerAt
    <3> QED
      BY <3>1, <1>6, <1>8 DEF Live, Active, Revoking
  <2> QED
    BY <2>1, <2>2, <2>3, <2>4, <1>6 DEF Backed, PeerAt
<1> QED
  BY <1>4, <1>7, <1>9, <1>10 DEF IInv

(* The peer Revoke deactivates has not been live since its Release.         *)
LEMMA RevokeDeactivatesIInv ==
  ASSUME IInv, NEW d \in Devices, RevokeDeactivates(d)
  PROVE  IInv'
<1>1. PICK i \in PeerIDs :
        call[d].at = "revoke" /\ call[d].target = i /\ peers[i] # NoPeer
  BY CallFields DEF IInv, TargetsOwn, RevokeDeactivates
<1>2. peers[i] \in Peer /\ peers' = [peers EXCEPT ![i].active = FALSE]
  BY <1>1 DEF IInv, TablesOK, RevokeDeactivates
<1>3. /\ peers'[i] \in Peer /\ peers'[i].user = peers[i].user
      /\ \A j \in PeerIDs \ {i} : peers'[j] = peers[j]
  BY <1>2 DEF IInv, TablesOK, Peer
<1>4. peers'[i] # NoPeer
  BY <1>3, NoPeerAssumption
<1>5. Idle \in Call /\ Idle.at = "idle"
  BY DEF Call, Idle
<1>6. \A e \in Devices : call'[e] = IF e = d THEN Idle ELSE call[e]
  BY DEF IInv, TablesOK, Goes, RevokeDeactivates
<1>7. UNCHANGED leases /\ held' = held /\ subs' = subs
  BY DEF RevokeDeactivates, leases
<1>8. PoolInv'
  BY <1>7, PoolUnchanged DEF IInv
<1>9. TablesOK'
  BY <1>2, <1>3, <1>5, <1>7 DEF IInv, TablesOK, Goes, RevokeDeactivates
<1>10. TargetsOwn'
  <2> SUFFICES ASSUME NEW e \in Devices, call'[e].at \in {"release", "revoke"}
               PROVE  /\ peers'[call'[e].target] # NoPeer
                      /\ peers'[call'[e].target].user = UserOf[e]
    BY DEF TargetsOwn
  <2>1. e # d /\ call'[e] = call[e]
    BY <1>5, <1>6
  <2>2. /\ call[e].target \in PeerIDs /\ peers[call[e].target] # NoPeer
        /\ peers[call[e].target].user = UserOf[e]
    BY <2>1, CallFields DEF IInv, TargetsOwn
  <2> QED
    BY <2>1, <2>2, <1>3, <1>4
<1>11. NoLeaseLeak'
  <2> SUFFICES ASSUME NEW q \in Pools, NEW y \in Octets, held[q][y] # NoOwner
               PROVE  Backed(held[q][y], q, y)'
    BY <1>7 DEF NoLeaseLeak
  <2>1. Backed(held[q][y], q, y)
    BY DEF IInv, NoLeaseLeak
  <2>2. \A e \in Devices : Provisioning(e, q, y) => Provisioning(e, q, y)'
    BY <1>1, <1>6 DEF Provisioning
  <2>3. \A j \in PeerIDs : Live(j) => j # i /\ peers'[j] = peers[j] /\ Live(j)'
    <3> SUFFICES ASSUME NEW j \in PeerIDs, Live(j)
                 PROVE  j # i /\ peers'[j] = peers[j] /\ Live(j)'
      OBVIOUS
    <3>1. j # i
      BY <1>1 DEF Live, Revoking
    <3>2. peers'[j] = peers[j]
      BY <3>1, <1>3
    <3> QED
      BY <3>1, <3>2, <1>5, <1>6 DEF Live, Active, Revoking
  <2> QED
    BY <2>1, <2>2, <2>3, <1>7 DEF Backed, PeerAt
<1> QED
  BY <1>8, <1>9, <1>10, <1>11 DEF IInv

(* A webhook touches only the subscription table.                           *)
LEMMA UpsertSubscriptionIInv ==
  ASSUME IInv, NEW u \in Users, NEW st \in SubStates, UpsertSubscription(u, st)
  PROVE  IInv'
<1>1. UNCHANGED leases /\ held' = held /\ peers' = peers /\ call' = call
  BY DEF UpsertSubscription, leases
<1>2. PoolInv'
  BY <1>1, PoolUnchanged DEF IInv
<1>3. TablesOK'
  BY <1>1 DEF IInv, TablesOK, UpsertSubscription
<1>4. TargetsOwn' /\ NoLeaseLeak'
  BY <1>1 DEF IInv, TargetsOwn, NoLeaseLeak, Backed, Provisioning, Live, Active,
     Revoking, PeerAt
<1> QED
  BY <1>2, <1>3, <1>4 DEF IInv

(* The invariant is inductive.                                              *)
LEMMA NextIInv == IInv /\ [Next]_vars => IInv'
<1> SUFFICES ASSUME IInv, [Next]_vars PROVE IInv'
  OBVIOUS
<1>1. CASE UNCHANGED vars
  <2>1. UNCHANGED leases /\ held' = held /\ peers' = peers /\ call' = call
        /\ subs' = subs
    BY <1>1 DEF vars, leases
  <2>2. PoolInv'
    BY <2>1, PoolUnchanged DEF IInv
  <2> QED
    BY <2>1, <2>2 DEF IInv, TablesOK, TargetsOwn, NoLeaseLeak, Backed,
       Provisioning, Live, Active, Revoking, PeerAt
<1>2. ASSUME NEW d \in Devices, Connect(d) PROVE IInv'
  BY <1>2, ConnectQuietIInv, ConnectAllocatesIInv, ConnectExhaustedIInv,
     ConnectSavesIInv, ConnectUndoesIInv DEF Connect
<1>3. ASSUME NEW d \in Devices, Revoke(d) PROVE IInv'
  BY <1>3, RevokeQuietIInv, RevokeReleasesIInv, RevokeDeactivatesIInv DEF Revoke
<1>4. ASSUME NEW u \in Users, NEW st \in SubStates, UpsertSubscription(u, st)
      PROVE  IInv'
  BY <1>4, UpsertSubscriptionIInv
<1> QED
  BY <1>1, <1>2, <1>3, <1>4 DEF Next

-----------------------------------------------------------------------------
(* Every reachable state of the service satisfies the invariant.            *)
THEOREM Invariance == Spec => []IInv
BY InitIInv, NextIInv, PTL DEF Spec

(* The tables, the calls in flight and the allocators keep their types.     *)
THEOREM TypeCorrect == Spec => []TypeOK
<1>1. IInv => TypeOK
  BY DEF IInv, PoolInv, TablesOK, TypeOK
<1> QED
  BY Invariance, <1>1, PTL

(* No address is lost, whatever calls overlap and whichever store calls     *)
(* fail: each lease is backed by a live peer or a Connect under way.        *)
THEOREM NoLeak == Spec => []NoLeaseLeak
<1>1. IInv => NoLeaseLeak
  BY DEF IInv
<1> QED
  BY Invariance, <1>1, PTL

-----------------------------------------------------------------------------
(* A step that gives back an address does it for the user who holds it.     *)
LEMMA ReleaseOwn ==
  ASSUME IInv, NEW d \in Devices, ConnectUndoes(d) \/ RevokeReleases(d)
  PROVE  OwnLeasesEnded
<1>1. PICK p \in Pools, x \in Octets : NA!Release(p, x, UserOf[d])
  <2>1. CASE ConnectUndoes(d)
    BY <2>1, CallFields DEF IInv, ConnectUndoes
  <2>2. CASE RevokeReleases(d)
    <3>1. call[d].target \in PeerIDs /\ Target(d) \in Peer
      BY <2>2, CallFields DEF IInv, TargetsOwn, TablesOK, Target, RevokeReleases
    <3> QED
      BY <2>2, <3>1 DEF RevokeReleases, Peer
  <2> QED
    BY <2>1, <2>2
<1>2. \A q \in Pools, y \in Octets :
        held'[q][y] = IF q = p /\ y = x /\ held[p][x] = UserOf[d]
                      THEN NoOwner ELSE held[q][y]
  BY <1>1, UserOfAssumption, ReleaseEffect DEF IInv
<1>3. call[d].at \in {"release", "undo"} /\ call'[d] # call[d]
  <2>1. CASE ConnectUndoes(d)
    <3>1. call[d].at = "undo" /\ call'[d] = Idle
      BY <2>1 DEF ConnectUndoes, Goes, IInv, TablesOK
    <3> QED
      BY <3>1 DEF Idle
  <2>2. CASE RevokeReleases(d)
    <3>1. call[d].at = "release" /\ call'[d] = [call[d] EXCEPT !.at = "revoke"]
      BY <2>2 DEF RevokeReleases, Goes, IInv, TablesOK
    <3>2. call[d] \in [at : {"find", "release", "revoke"}, target : PeerIDs]
      BY <3>1, CallFields DEF IInv
    <3> QED
      BY <3>1, <3>2
  <2> QED
    BY <2>1, <2>2
<1> QED
  BY <1>2, <1>3 DEF OwnLeasesEnded

(* Each step touches only what belongs to the user of its call.             *)
LEMMA StepOwn == IInv /\ [Next]_vars => [OwnPeersDeactivated /\ OwnLeasesEnded]_vars
<1> SUFFICES ASSUME IInv, Next PROVE OwnPeersDeactivated /\ OwnLeasesEnded
  OBVIOUS
<1>1. ASSUME peers' = peers PROVE OwnPeersDeactivated
  BY <1>1 DEF OwnPeersDeactivated, Active
<1>2. ASSUME held' = held PROVE OwnLeasesEnded
  BY <1>2 DEF OwnLeasesEnded
<1>3. ASSUME NEW d \in Devices, ConnectAllocates(d)
      PROVE  OwnPeersDeactivated /\ OwnLeasesEnded
  <2>1. PICK p \in Pools, x \in Octets : NA!Allocate(p, UserOf[d], x)
    BY <1>3, CallFields DEF IInv, ConnectAllocates
  <2>2. /\ held[p][x] = NoOwner
        /\ \A q \in Pools, y \in Octets :
             held'[q][y] = IF q = p /\ y = x THEN UserOf[d] ELSE held[q][y]
    BY <2>1, UserOfAssumption, AllocateEffect DEF IInv
  <2>3. OwnLeasesEnded
    BY <2>2 DEF OwnLeasesEnded
  <2> QED
    BY <1>1, <1>3, <2>3 DEF ConnectAllocates
<1>4. ASSUME NEW d \in Devices, ConnectExhausted(d)
      PROVE  OwnPeersDeactivated /\ OwnLeasesEnded
  <2>1. call[d].pool \in Pools
    BY <1>4, CallFields DEF IInv, ConnectExhausted
  <2>2. held' = held
    BY <1>4, <2>1, ExhaustedEffect DEF IInv, ConnectExhausted
  <2> QED
    BY <1>1, <1>2, <1>4, <2>2 DEF ConnectExhausted
<1>5. ASSUME NEW d \in Devices, ConnectSaves(d)
      PROVE  OwnPeersDeactivated /\ OwnLeasesEnded
  <2>1. PICK i \in PeerIDs :
          peers[i] = NoPeer /\ peers' = [peers EXCEPT ![i] = NewPeer(d)]
    BY <1>5 DEF ConnectSaves
  <2>2. \A j \in PeerIDs : Active(j) => peers'[j] = peers[j]
    BY <2>1 DEF IInv, TablesOK, Active
  <2>3. OwnPeersDeactivated
    BY <2>2 DEF OwnPeersDeactivated, Active
  <2> QED
    BY <1>2, <1>5, <2>3 DEF ConnectSaves, leases
<1>6. ASSUME NEW d \in Devices, ConnectUndoes(d) \/ RevokeReleases(d)
      PROVE  OwnPeersDeactivated /\ OwnLeasesEnded
  BY <1>1, <1>6, ReleaseOwn DEF ConnectUndoes, RevokeReleases
<1>7. ASSUME NEW d \in Devices, RevokeDeactivates(d)
      PROVE  OwnPeersDeactivated /\ OwnLeasesEnded
  <2>1. PICK i \in PeerIDs :
          /\ Revoking(d, i) /\ peers[i].user = UserOf[d]
          /\ \A j \in PeerIDs \ {i} : peers'[j] = peers[j]
    BY <1>7, CallFields DEF IInv, TablesOK, RevokeDeactivates, Target, Revoking
  <2>2. OwnPeersDeactivated
    BY <2>1 DEF OwnPeersDeactivated, Active
  <2> QED
    BY <1>2, <1>7, <2>2 DEF RevokeDeactivates, leases
<1>8. ASSUME UNCHANGED <<leases, peers>>
      PROVE  OwnPeersDeactivated /\ OwnLeasesEnded
  BY <1>1, <1>2, <1>8 DEF leases
<1>9. ASSUME NEW d \in Devices, Connect(d)
      PROVE  OwnPeersDeactivated /\ OwnLeasesEnded
  BY <1>3, <1>4, <1>5, <1>6, <1>8, <1>9 DEF Connect, ConnectArrives,
     ConnectRefused, ConnectChecked, ConnectAnswered, ConnectProceeds,
     ConnectSaveFails
<1>10. ASSUME NEW d \in Devices, Revoke(d)
       PROVE  OwnPeersDeactivated /\ OwnLeasesEnded
  BY <1>6, <1>7, <1>8, <1>10 DEF Revoke, RevokeArrives, RevokeUnknown,
     RevokeFinds, RevokeFails
<1> QED
  BY <1>8, <1>9, <1>10 DEF Next, UpsertSubscription

(* Ownership: a peer is deactivated only by a revocation of its own user,   *)
(* and a lease ends only in a call of its holder.                           *)
THEOREM Ownership == Spec => OwnPeersOnly
BY Invariance, StepOwn, PTL DEF Spec, OwnPeersOnly
=============================================================================
