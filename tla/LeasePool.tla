------------------------------ MODULE LeasePool ------------------------------
(***************************************************************************)
(* What a tunnel-address pool promises its callers, with none of the       *)
(* allocator's bookkeeping: a lease is granted on an address nobody holds, *)
(* it stays with its holder until it is returned, and nothing else ever    *)
(* happens to it.  Which free address a caller gets is left open.          *)
(***************************************************************************)
CONSTANTS
  Pools,      \* the address pools, one per (node, protocol)
  Addresses,  \* the host addresses of a pool
  Owners,     \* who may hold a lease
  NoOwner     \* the holder of an address that is not leased

VARIABLE lease   \* lease[p][x]: the holder of address x of pool p

Init == lease = [p \in Pools |-> [x \in Addresses |-> NoOwner]]

Grant(p, x, o) ==
  /\ lease[p][x] = NoOwner
  /\ lease' = [lease EXCEPT ![p][x] = o]

Return(p, x) ==
  /\ lease[p][x] # NoOwner
  /\ lease' = [lease EXCEPT ![p][x] = NoOwner]

Next ==
  \E p \in Pools, x \in Addresses :
    \/ \E o \in Owners : Grant(p, x, o)
    \/ Return(p, x)

Spec == Init /\ [][Next]_lease
=============================================================================
