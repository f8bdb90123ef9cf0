---------------------------- MODULE MCPeerService ----------------------------
(* Two devices of one user, whose calls overlap, and one of another.        *)
EXTENDS PeerService, TLC

CONSTANTS u1, u2, d1, d2, d3

Owner == (d1 :> u1) @@ (d2 :> u1) @@ (d3 :> u2)

Perms == Permutations(PeerIDs)
=============================================================================
