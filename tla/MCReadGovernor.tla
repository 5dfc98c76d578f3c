---------------------------- MODULE MCReadGovernor ----------------------------
(***************************************************************************)
(* ReadGovernor for TLC: two readers, in the group of two operations or in *)
(* that of the Marketplace search.                                         *)
(***************************************************************************)
EXTENDS ReadGovernor
=============================================================================
