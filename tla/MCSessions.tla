----------------------------- MODULE MCSessions ------------------------------
(* Two users, three refreshes in flight at a time.                          *)
EXTENDS Sessions, TLC

Perms == Permutations(Users) \cup Permutations(Clients) \cup Permutations(Jtis)
=============================================================================
