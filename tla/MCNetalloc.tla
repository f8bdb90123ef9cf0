----------------------------- MODULE MCNetalloc ------------------------------
(* Two independent pools of three addresses, two owners: every address is   *)
(* leased, released and leased again, the cursor wraps, and each pool runs  *)
(* out.                                                                     *)
EXTENDS Netalloc
=============================================================================
