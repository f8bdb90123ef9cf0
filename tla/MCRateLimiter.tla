---------------------------- MODULE MCRateLimiter ----------------------------
(* Two requests at a time, from two addresses.                              *)
EXTENDS RateLimiter
=============================================================================
