---------------------------- MODULE MCTokenRefresh ----------------------------
(***************************************************************************)
(* TokenRefresh for TLC: two callers are enough for a stale claim, a lease *)
(* seen to lapse and a rotation overtaken by a new authorization.          *)
(***************************************************************************)
EXTENDS TokenRefresh
=============================================================================
