------------------------- MODULE MCOutboundGovernor -------------------------
(***************************************************************************)
(* Instances of OutboundGovernor for TLC: both endpoints in one run.       *)
(***************************************************************************)
EXTENDS OutboundGovernor, TLC

CallerSymmetry == Permutations(Caller)

=============================================================================
