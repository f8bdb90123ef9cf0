------------------------------ MODULE MCClient -------------------------------
(* Three calls at once, two nodes, and pairs enough to lose two to crashes. *)
EXTENDS Client, TLC

Perms == Permutations(Flows) \cup Permutations(Keys)
=============================================================================
