-------------------------- MODULE DispatchContract --------------------------
(***************************************************************************)
(* Dispatch implements Outreach.  The record of a message is its delivery  *)
(* row's state; the claim is the step at which an attempt begins.          *)
(***************************************************************************)
EXTENDS Dispatch

RecordOf(state) ==
    CASE state \in {"NONE"} \cup Claimable -> "open"
      [] state = "DISPATCHING"             -> "begun"
      [] state \in Unknown                 -> "unknown"
      [] state = "SENT"                    -> "sent"
      [] OTHER                             -> "closed"

Contract == INSTANCE Outreach
            WITH record <- [r \in Recipient |-> RecordOf(delivery[r])],
                 taken <- accepted

\* The workers, sweepers, reconciliation and history import together do no
\* more to a message than Outreach allows: no attempt begins while another
\* campaign's message to the creator is begun, unknown or sent, and a message
\* that is unknown or sent is never open, refused or withdrawn again.
OutreachContract == Contract!Spec

=============================================================================
