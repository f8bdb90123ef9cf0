------------------------------ MODULE MCBilling ------------------------------
(* Two ways to set the secrets: one for all, or another one for Paddle's    *)
(* webhook and none for PayHere's.                                          *)
EXTENDS Billing, TLC

CONSTANTS k1, k2

OneSecret == [checkout |-> k1, paddle |-> k1, payhere |-> k1]
Foreign   == [checkout |-> k1, paddle |-> k2, payhere |-> Unset]

AllConfigs == {OneSecret, Foreign}

Shared == {OneSecret}

Spoken == [paddle |-> {"active", "canceled", "paused"}, payhere |-> {"2", "9"}]

Plain == [paddle |-> {"active", "canceled"}, payhere |-> {"2", "-1"}]

Perms == Permutations(Users) \cup Permutations(Externals) \cup Permutations(Hooks)
=============================================================================
