---------------------------- MODULE MCPeerSerial -----------------------------
(* Two users with one device each: a user's calls do not overlap, those of  *)
(* different users do.                                                      *)
EXTENDS PeerService, TLC

CONSTANTS u1, u2, d1, d2

Owner == (d1 :> u1) @@ (d2 :> u2)

\* The users may be exchanged if their devices are.
Exchange == (u1 :> u2) @@ (u2 :> u1) @@ (d1 :> d2) @@ (d2 :> d1)

Perms ==
  {Exchange} \cup Permutations(PeerIDs) \cup Permutations(Pools)
    \cup Permutations(Keys)
=============================================================================
