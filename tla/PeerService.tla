----------------------------- MODULE PeerService -----------------------------
(***************************************************************************)
(* Provisioning of tunnels: peer.Service (api/internal/peer/service.go),   *)
(* reached through POST /connect and DELETE /peers/:id (router.go), over   *)
(* the peer and subscription tables of store.Memory and one address        *)
(* allocator per node and protocol (Netalloc).                             *)
(*                                                                         *)
(* Every store method and every allocator method holds its own lock and    *)
(* is one step; Connect and Revoke hold none across them, so the calls of  *)
(* different devices interleave between any two such steps.  A device has  *)
(* at most one call in flight; two devices of one user make two of the     *)
(* same user's calls overlap.                                              *)
(*                                                                         *)
(* A pool stands for the pair (nodeID, stealth) of a request.  Both nodes  *)
(* have allocators (NewServer passes both public keys), so ErrNodeUnknown  *)
(* cannot happen behind the handler's oneof=sgp fsn.  Requests that are    *)
(* turned away before the service (no token, malformed body, keys not      *)
(* provisioned) read and change nothing that is modelled here.             *)
(***************************************************************************)
EXTENDS Naturals, FiniteSets

CONSTANTS
  Users, Devices,
  UserOf,           \* UserOf[d]: the user whose access token device d sends
  Pools,            \* (node, protocol) pairs
  FirstHost, LastHost, NoOwner,
  Keys,             \* well-formed client public keys
  BadKey,           \* any other string sent as public_key
  PeerIDs,          \* the identifiers newID draws from
  NoPeer,           \* what the peer table holds for an identifier not in use
  SubStates,        \* the subscription states the webhooks store
  MaxPeersPerUser,  \* 3
  StoreFails        \* FALSE for store.Memory; TRUE for a Store whose calls err

VARIABLES
  held, free, next,  \* the allocators
  peers,             \* the peer table: identifier -> row
  subs,              \* the subscription table: user -> state
  call               \* call[d]: the call device d has in flight

NA == INSTANCE Netalloc WITH Owners <- Users

ASSUME HostAssumption ==
  FirstHost \in Nat /\ LastHost \in Nat /\ FirstHost <= LastHost
ASSUME NoOwnerAssumption == NoOwner \notin Users
ASSUME UserOfAssumption == UserOf \in [Devices -> Users]
ASSUME BadKeyAssumption == BadKey \notin Keys
ASSUME StoreFailsAssumption == StoreFails \in BOOLEAN
ASSUME PeerIDsAssumption == IsFiniteSet(PeerIDs)
ASSUME MaxPeersAssumption == MaxPeersPerUser \in Nat

Octets == FirstHost .. LastHost

Peer == [user : Users, pool : Pools, addr : Octets, key : Keys, active : BOOLEAN]

ASSUME NoPeerAssumption == NoPeer \notin Peer

Idle == [at |-> "idle"]

(***************************************************************************)
(* A call, by the step it takes next:                                      *)
(*   check     decode the key and read the subscription                    *)
(*   list      read the user's peers, look for a match, count them         *)
(*   allocate  take an address                                             *)
(*   save      insert the peer                                             *)
(*   undo      give the address back, the insert having failed             *)
(*   find      look the peer up among the user's own                       *)
(*   release   give its address back                                       *)
(*   revoke    mark it inactive                                            *)
(***************************************************************************)
Call ==
  {Idle}
    \cup [at : {"check"}, pool : Pools, key : Keys \cup {BadKey}]
    \cup [at : {"list", "allocate"}, pool : Pools, key : Keys]
    \cup [at : {"save", "undo"}, pool : Pools, key : Keys, addr : Octets]
    \cup [at : {"find", "release", "revoke"}, target : PeerIDs]

leases == <<held, free, next>>

vars == <<held, free, next, peers, subs, call>>

Init ==
  /\ NA!Init
  /\ peers = [i \in PeerIDs |-> NoPeer]
  /\ subs = [u \in Users |-> "none"]
  /\ call = [d \in Devices |-> Idle]

Goes(d, c) == call' = [call EXCEPT ![d] = c]

-----------------------------------------------------------------------------
(* The tables, as the service reads them.                                   *)

Entitled(u) == subs[u] \in {"active", "trialing"}

Active(i) == peers[i] # NoPeer /\ peers[i].active

PeersByUser(u) == {i \in PeerIDs : Active(i) /\ peers[i].user = u}

\* Connect ignores the error of PeersByUser and goes on with a nil slice.
Listings(u) == {PeersByUser(u)} \cup (IF StoreFails THEN {{}} ELSE {})

Matches(i, c) == peers[i].pool = c.pool /\ peers[i].key = c.key

-----------------------------------------------------------------------------
(* Connect(userID, nodeID, clientPubKey, stealth)                           *)

ConnectArrives(d, p, k) ==
  /\ call[d] = Idle
  /\ Goes(d, [at |-> "check", pool |-> p, key |-> k])
  /\ UNCHANGED <<leases, peers, subs>>

\* ErrBadPublicKey, ErrNotSubscribed
ConnectRefused(d) ==
  /\ call[d].at = "check"
  /\ call[d].key = BadKey \/ ~Entitled(UserOf[d]) \/ StoreFails
  /\ Goes(d, Idle)
  /\ UNCHANGED <<leases, peers, subs>>

ConnectChecked(d) ==
  /\ call[d].at = "check"
  /\ call[d].key # BadKey
  /\ Entitled(UserOf[d])
  /\ Goes(d, [call[d] EXCEPT !.at = "list"])
  /\ UNCHANGED <<leases, peers, subs>>

\* Mutant: the limit admits one peer too many (> for >=, service.go:90).
ConnectSettledLate(d, existing) ==
  \/ \E i \in existing : Matches(i, call[d])
  \/ Cardinality(existing) > MaxPeersPerUser

\* Mutant: the exact match is not looked for (service.go:85 missing).
ConnectSettledUnmatched(d, existing) == Cardinality(existing) >= MaxPeersPerUser

\* The exact match is returned, and ErrTooManyPeers: nothing changes.
ConnectSettled(d, existing) ==
  \/ \E i \in existing : Matches(i, call[d])
  \/ Cardinality(existing) >= MaxPeersPerUser

ConnectAnswered(d) ==
  /\ call[d].at = "list"
  /\ \E existing \in Listings(UserOf[d]) : ConnectSettled(d, existing)
  /\ Goes(d, Idle)
  /\ UNCHANGED <<leases, peers, subs>>

ConnectProceeds(d) ==
  /\ call[d].at = "list"
  /\ \E existing \in Listings(UserOf[d]) : ~ConnectSettled(d, existing)
  /\ Goes(d, [call[d] EXCEPT !.at = "allocate"])
  /\ UNCHANGED <<leases, peers, subs>>

ConnectAllocates(d) ==
  /\ call[d].at = "allocate"
  /\ \E x \in Octets :
       /\ NA!Allocate(call[d].pool, UserOf[d], x)
       /\ Goes(d, [at |-> "save", pool |-> call[d].pool, key |-> call[d].key,
                   addr |-> x])
  /\ UNCHANGED <<peers, subs>>

ConnectExhausted(d) ==
  /\ call[d].at = "allocate"
  /\ NA!AllocateFails(call[d].pool)
  /\ Goes(d, Idle)
  /\ UNCHANGED <<peers, subs>>

NewPeer(d) ==
  [user |-> UserOf[d], pool |-> call[d].pool, addr |-> call[d].addr,
   key |-> call[d].key, active |-> TRUE]

\* newID is 96 random bits: the identifier is one never used.  Its set is the
\* bound on how many peers a behaviour creates.
ConnectSaves(d) ==
  /\ call[d].at = "save"
  /\ \E i \in PeerIDs :
       /\ peers[i] = NoPeer
       /\ peers' = [peers EXCEPT ![i] = NewPeer(d)]
  /\ Goes(d, Idle)
  /\ UNCHANGED <<leases, subs>>

\* Mutant: a failed insert does not give the address back (service.go:114
\* missing).
ConnectSaveAbandons(d) ==
  /\ StoreFails
  /\ call[d].at = "save"
  /\ Goes(d, Idle)
  /\ UNCHANGED <<leases, peers, subs>>

ConnectSaveFails(d) ==
  /\ StoreFails
  /\ call[d].at = "save"
  /\ Goes(d, [call[d] EXCEPT !.at = "undo"])
  /\ UNCHANGED <<leases, peers, subs>>

\* The error of Release is ignored.
ConnectUndoes(d) ==
  /\ call[d].at = "undo"
  /\ NA!Release(call[d].pool, call[d].addr, UserOf[d])
  /\ Goes(d, Idle)
  /\ UNCHANGED <<peers, subs>>

Connect(d) ==
  \/ \E p \in Pools, k \in Keys \cup {BadKey} : ConnectArrives(d, p, k)
  \/ ConnectRefused(d)
  \/ ConnectChecked(d)
  \/ ConnectAnswered(d)
  \/ ConnectProceeds(d)
  \/ ConnectAllocates(d)
  \/ ConnectExhausted(d)
  \/ ConnectSaves(d)
  \/ ConnectSaveFails(d)
  \/ ConnectUndoes(d)

-----------------------------------------------------------------------------
(* Revoke(userID, peerID).  Apart from active, the row of a peer never      *)
(* changes, so the copy Revoke works on is read from the table.             *)

RevokeArrives(d, i) ==
  /\ call[d] = Idle
  /\ Goes(d, [at |-> "find", target |-> i])
  /\ UNCHANGED <<leases, peers, subs>>

RevokeUnknown(d) ==
  /\ call[d].at = "find"
  /\ StoreFails \/ call[d].target \notin PeersByUser(UserOf[d])
  /\ Goes(d, Idle)
  /\ UNCHANGED <<leases, peers, subs>>

RevokeFinds(d) ==
  /\ call[d].at = "find"
  /\ call[d].target \in PeersByUser(UserOf[d])
  /\ Goes(d, [call[d] EXCEPT !.at = "release"])
  /\ UNCHANGED <<leases, peers, subs>>

Target(d) == peers[call[d].target]

\* The error of Release is ignored.
RevokeReleases(d) ==
  /\ call[d].at = "release"
  /\ NA!Release(Target(d).pool, Target(d).addr, UserOf[d])
  /\ Goes(d, [call[d] EXCEPT !.at = "revoke"])
  /\ UNCHANGED <<peers, subs>>

\* RevokePeer looks at the owner, not at whether the peer is still active.
RevokeDeactivates(d) ==
  /\ call[d].at = "revoke"
  /\ Target(d).user = UserOf[d]
  /\ peers' = [peers EXCEPT ![call[d].target].active = FALSE]
  /\ Goes(d, Idle)
  /\ UNCHANGED <<leases, subs>>

\* ErrNotFound, or the store's own error.
RevokeFails(d) ==
  /\ call[d].at = "revoke"
  /\ StoreFails \/ Target(d).user # UserOf[d]
  /\ Goes(d, Idle)
  /\ UNCHANGED <<leases, peers, subs>>

Revoke(d) ==
  \/ \E i \in PeerIDs : RevokeArrives(d, i)
  \/ RevokeUnknown(d)
  \/ RevokeFinds(d)
  \/ RevokeReleases(d)
  \/ RevokeDeactivates(d)
  \/ RevokeFails(d)

-----------------------------------------------------------------------------
(* The payment webhooks, seen from here: the state they store for a user.   *)

UpsertSubscription(u, st) ==
  /\ subs' = [subs EXCEPT ![u] = st]
  /\ UNCHANGED <<leases, peers, call>>

Next ==
  \/ \E d \in Devices : Connect(d) \/ Revoke(d)
  \/ \E u \in Users, st \in SubStates : UpsertSubscription(u, st)

Spec == Init /\ [][Next]_vars

-----------------------------------------------------------------------------
(* Properties.                                                              *)

TypeOK ==
  /\ NA!TypeOK
  /\ peers \in [PeerIDs -> Peer \cup {NoPeer}]
  /\ subs \in [Users -> SubStates \cup {"none"}]
  /\ call \in [Devices -> Call]

\* Device d has taken address x of pool p and not yet inserted the peer.
Provisioning(d, p, x) ==
  /\ call[d].at \in {"save", "undo"}
  /\ call[d].pool = p
  /\ call[d].addr = x

\* Device d has given back the address of peer i and not yet revoked it.
Revoking(d, i) == call[d].at = "revoke" /\ call[d].target = i

\* Peer i is in use: active, and no revocation of it has got past Release.
Live(i) == Active(i) /\ \A d \in Devices : ~Revoking(d, i)

PeerAt(i, u, p, x) == peers[i].user = u /\ peers[i].pool = p /\ peers[i].addr = x

(***************************************************************************)
(* No tunnel address is lost.  The lease of an address is not tied to its  *)
(* peer by anything but the order of the calls: it is taken before the     *)
(* peer exists, given back before the peer is revoked, and both errors of  *)
(* Release are dropped.  Whatever calls overlap and whichever store calls  *)
(* fail, an address a user holds is the address of a live peer of that     *)
(* user, or a Connect of the user is about to insert the peer or give the  *)
(* address back.  Otherwise the pool of a node would shrink until the      *)
(* process restarts.                                                       *)
(***************************************************************************)
Backed(u, p, x) ==
  \/ \E d \in Devices : UserOf[d] = u /\ Provisioning(d, p, x)
  \/ \E i \in PeerIDs : Live(i) /\ PeerAt(i, u, p, x)

NoLeaseLeak ==
  \A p \in Pools, x \in Octets :
    held[p][x] # NoOwner => Backed(held[p][x], p, x)

(***************************************************************************)
(* A user's calls touch only what is the user's: a peer is deactivated by  *)
(* a revocation of its own user, and a lease ends only in a step of a      *)
(* device of its holder, with no grant to anyone else in the same step.    *)
(* Release is called with a copy of the row read two locks earlier, so     *)
(* this is about what may have happened to the address in between.         *)
(***************************************************************************)
OwnPeersDeactivated ==
  \A i \in PeerIDs :
    Active(i) /\ ~Active(i)' =>
      \E d \in Devices : Revoking(d, i) /\ UserOf[d] = peers[i].user

OwnLeasesEnded ==
  \A p \in Pools, x \in Octets :
    held[p][x] # NoOwner /\ held'[p][x] # held[p][x] =>
      /\ held'[p][x] = NoOwner
      /\ \E d \in Devices :
           /\ UserOf[d] = held[p][x]
           /\ call[d].at \in {"release", "undo"}
           /\ call'[d] # call[d]

OwnPeersOnly == [][OwnPeersDeactivated /\ OwnLeasesEnded]_vars

(***************************************************************************)
(* A live peer holds its address, so nobody else is given it.              *)
(***************************************************************************)
LivePeersHoldTheirLease ==
  \A i \in PeerIDs :
    Live(i) => held[peers[i].pool][peers[i].addr] = peers[i].user

(***************************************************************************)
(* The service implements the book of tunnels: a Connect enters its tunnel *)
(* in one step, at SavePeer, under a free address, once, below the limit;  *)
(* a Revoke closes it in one step, at Release.                             *)
(***************************************************************************)
Tunnels ==
  {[user |-> peers[i].user, pool |-> peers[i].pool,
    addr |-> peers[i].addr, key |-> peers[i].key] : i \in {j \in PeerIDs : Live(j)}}

TB == INSTANCE TunnelBook WITH Addresses <- Octets, tunnels <- Tunnels

ImplementsTunnelBook == TB!Spec

(***************************************************************************)
(* Connect is idempotent on the exact pool and key (service.go:82): while  *)
(* a user's calls do not overlap, no two active peers of the user have     *)
(* both in common, whatever was revoked and provisioned again since.       *)
(***************************************************************************)
OnePeerPerKey ==
  \A i, j \in PeerIDs :
    /\ Active(i) /\ Active(j)
    /\ peers[i].user = peers[j].user
    /\ Matches(i, peers[j])
    => i = j

-----------------------------------------------------------------------------
(* Statements the repository makes which the service keeps only while a     *)
(* user's calls do not overlap.                                             *)

(***************************************************************************)
(* The device limit (MaxPeersPerUser, service.go:27): no user has more     *)
(* active peers than that.                                                 *)
(***************************************************************************)
DeviceLimit == \A u \in Users : Cardinality(PeersByUser(u)) <= MaxPeersPerUser

(***************************************************************************)
(* One tunnel address per peer (001_init.sql:20): while no call is in      *)
(* flight, two active peers have different addresses.                      *)
(***************************************************************************)
OneAddressPerPeer ==
  (\A d \in Devices : call[d] = Idle) =>
    \A i, j \in PeerIDs :
      /\ Active(i) /\ Active(j)
      /\ peers[i].pool = peers[j].pool
      /\ peers[i].addr = peers[j].addr
      => i = j
=============================================================================
