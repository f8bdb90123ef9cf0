------------------------------ MODULE Netalloc -------------------------------
(***************************************************************************)
(* The tunnel-address allocators of api/internal/netalloc/allocator.go.    *)
(*                                                                         *)
(* Each pool is one Allocator: a map of held leases, a LIFO list of        *)
(* released addresses and a cursor over the addresses of the /24.  Every   *)
(* method runs from Lock to the deferred Unlock, so a call is one step.    *)
(* An address is its host octet; the prefix is a constant of the pool.     *)
(***************************************************************************)
EXTENDS Naturals, SequencesExt

CONSTANTS
  Pools,      \* the allocators: one per node and per protocol (wg, awg)
  Owners,     \* the strings callers pass as peerID
  NoOwner,    \* "", what HeldBy reports for a free address
  FirstHost,  \* 2: octet 1 is the server's
  LastHost    \* 254

ASSUME NoOwnerAssumption == NoOwner \notin Owners
ASSUME HostAssumption ==
  FirstHost \in Nat /\ LastHost \in Nat /\ FirstHost <= LastHost

VARIABLES
  held,  \* held[p][x]: who holds address x of pool p, NoOwner when nobody
  free,  \* free[p]: released addresses, the last one is reused first
  next   \* next[p]: the next octet to try when free[p] is empty

vars == <<held, free, next>>

Octets == FirstHost .. LastHost

Init ==
  /\ held = [p \in Pools |-> [x \in Octets |-> NoOwner]]
  /\ free = [p \in Pools |-> <<>>]
  /\ next = [p \in Pools |-> FirstHost]

-----------------------------------------------------------------------------
(* The sweep: at most Tries octets, cyclically from the cursor.             *)

Tries == LastHost - FirstHost + 1

Cursor(n, i) == IF n + i <= LastHost THEN n + i ELSE n + i - Tries

Taken(p, i) == held[p][Cursor(next[p], i)] # NoOwner

SweepFails(p) ==
  /\ free[p] = <<>>
  /\ \A i \in 0 .. Tries - 1 : Taken(p, i)

-----------------------------------------------------------------------------
(* Allocate(peerID): the three ways it ends.                                *)

\* Mutant: the fast path reads the top of the free list and leaves it there
\* (allocator.go:81 missing).
AllocatePeeked(p, o, x) ==
  /\ free[p] # <<>>
  /\ x = Last(free[p])
  /\ held' = [held EXCEPT ![p][x] = o]
  /\ UNCHANGED <<free, next>>

AllocateReleased(p, o, x) ==
  /\ free[p] # <<>>
  /\ x = Last(free[p])
  /\ free' = [free EXCEPT ![p] = Front(@)]
  /\ held' = [held EXCEPT ![p][x] = o]
  /\ UNCHANGED next

\* Mutant: the cursor does not wrap (allocator.go:90-92 missing).
AllocateFreshNoWrap(p, o, x) ==
  /\ free[p] = <<>>
  /\ \E i \in 0 .. Tries - 1 :
       /\ ~Taken(p, i)
       /\ \A j \in 0 .. i - 1 : Taken(p, j)
       /\ x = Cursor(next[p], i)
       /\ next' = [next EXCEPT ![p] = @ + i + 1]
  /\ held' = [held EXCEPT ![p][x] = o]
  /\ UNCHANGED free

AllocateFresh(p, o, x) ==
  /\ free[p] = <<>>
  /\ \E i \in 0 .. Tries - 1 :
       /\ ~Taken(p, i)
       /\ \A j \in 0 .. i - 1 : Taken(p, j)
       /\ x = Cursor(next[p], i)
       /\ next' = [next EXCEPT ![p] = Cursor(@, i + 1)]
  /\ held' = [held EXCEPT ![p][x] = o]
  /\ UNCHANGED free

\* ErrPoolExhausted: the cursor has moved Tries steps, back to where it was.
AllocateFails(p) ==
  /\ SweepFails(p)
  /\ next' = [next EXCEPT ![p] = Cursor(@, Tries)]
  /\ UNCHANGED <<held, free>>

Allocate(p, o, x) == AllocateReleased(p, o, x) \/ AllocateFresh(p, o, x)

-----------------------------------------------------------------------------
(* Release(addr, peerID).                                                   *)

\* Mutant: any held address is released, whoever asks (the test of the owner
\* missing, allocator.go:113).
ReleaseAnyones(p, x, o) ==
  /\ held[p][x] # NoOwner
  /\ held' = [held EXCEPT ![p][x] = NoOwner]
  /\ free' = [free EXCEPT ![p] = Append(@, x)]
  /\ UNCHANGED next

\* Mutant: the lease is not deleted (allocator.go:116 missing).
ReleaseStillHeld(p, x, o) ==
  /\ held[p][x] = o
  /\ free' = [free EXCEPT ![p] = Append(@, x)]
  /\ UNCHANGED <<held, next>>

\* Mutant: the address is not put on the free list (allocator.go:117 missing).
ReleaseForgotten(p, x, o) ==
  /\ held[p][x] = o
  /\ held' = [held EXCEPT ![p][x] = NoOwner]
  /\ UNCHANGED <<free, next>>

ReleaseHeld(p, x, o) ==
  /\ held[p][x] = o
  /\ held' = [held EXCEPT ![p][x] = NoOwner]
  /\ free' = [free EXCEPT ![p] = Append(@, x)]
  /\ UNCHANGED next

\* ErrNotHeld
ReleaseRefused(p, x, o) ==
  /\ held[p][x] # o
  /\ UNCHANGED vars

Release(p, x, o) == ReleaseHeld(p, x, o) \/ ReleaseRefused(p, x, o)

-----------------------------------------------------------------------------
Next ==
  \E p \in Pools :
    \/ \E o \in Owners, x \in Octets : Allocate(p, o, x) \/ Release(p, x, o)
    \/ AllocateFails(p)

Spec == Init /\ [][Next]_vars

-----------------------------------------------------------------------------
Leased(p) == {x \in Octets : held[p][x] # NoOwner}

TypeOK ==
  /\ held \in [Pools -> [Octets -> Owners \cup {NoOwner}]]
  /\ free \in [Pools -> Seq(Octets)]
  /\ next \in [Pools -> Octets]

(***************************************************************************)
(* The fast path of Allocate hands out the top of the free list without    *)
(* looking at held.  It is right to do so: an address on the list is held  *)
(* by nobody, and is on the list once.                                     *)
(***************************************************************************)
FreeListSound ==
  \A p \in Pools :
    /\ \A i \in DOMAIN free[p] : free[p][i] \notin Leased(p)
    /\ \A i, j \in DOMAIN free[p] : free[p][i] = free[p][j] => i = j

(***************************************************************************)
(* No address is lost, and the cursor is where it should be: the addresses *)
(* that are leased or on the free list are exactly those below the cursor, *)
(* or, once the cursor has wrapped, all of them.  So the sweep either      *)
(* succeeds at its first octet or finds the whole pool leased.             *)
(***************************************************************************)
Touched(p) == Leased(p) \cup ToSet(free[p])

CursorAtFrontier ==
  \A p \in Pools :
    \/ Touched(p) = FirstHost .. next[p] - 1
    \/ next[p] = FirstHost /\ Touched(p) = Octets

(***************************************************************************)
(* The allocator implements the abstract pool: Allocate grants only        *)
(* addresses nobody holds, and a lease ends only by being released.        *)
(***************************************************************************)
LP == INSTANCE LeasePool WITH Addresses <- Octets, lease <- held

ImplementsLeasePool == LP!Spec
=============================================================================
