----------------------------- MODULE MCPeerRace ------------------------------
(* One user with two devices, whose calls overlap, and store.Memory, which  *)
(* never fails.                                                             *)
EXTENDS PeerService, TLC

CONSTANTS u1

Owner == [d \in Devices |-> u1]

Perms ==
  Permutations(PeerIDs) \cup Permutations(Keys) \cup Permutations(Devices)
=============================================================================
