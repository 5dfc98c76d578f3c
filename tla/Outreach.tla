------------------------------ MODULE Outreach ------------------------------
(***************************************************************************)
(* What the outreach system promises, without queues, workers or locks:    *)
(* the record it keeps of each recipient's message, what TikTok did with   *)
(* it, and the exclusion between recipients who are the same creator.      *)
(* Dispatch implements this specification (see DispatchContract).          *)
(***************************************************************************)
EXTENDS Naturals

CONSTANTS
    Recipient,     \* campaign recipients
    CreatorOf      \* the creator of a recipient

VARIABLES
    record,        \* what the system has on record of a message
    taken          \* how often TikTok accepted it

vars == <<record, taken>>

\* A message is open until an attempt begins, unknown when its outcome was
\* lost, and closed when it will not be sent.
Record == {"open", "begun", "unknown", "sent", "closed"}

\* Records that keep every other message from the creator.
Exclusive == {"begun", "unknown", "sent"}

Rivals(r) == {q \in Recipient \ {r} : CreatorOf[q] = CreatorOf[r]}

TypeOK == /\ record \in [Recipient -> Record]
          /\ taken \in [Recipient -> Nat]

Init == /\ record = [r \in Recipient |-> "open"]
        /\ taken = [r \in Recipient |-> 0]

Becomes(r, to) == record' = [record EXCEPT ![r] = to] /\ UNCHANGED taken

\* An attempt begins; only then may the message reach TikTok.
Begin(r) == /\ record[r] = "open"
            /\ \A q \in Rivals(r) : record[q] \notin Exclusive
            /\ Becomes(r, "begun")

Take(r) == /\ record[r] = "begun"
           /\ taken[r] = 0
           /\ taken' = [taken EXCEPT ![r] = 1]
           /\ UNCHANGED record

\* Only a message TikTok took is recorded sent, by its answer or by a later
\* look at the conversation; only one it did not take is retried or refused.
Confirm(r) == /\ record[r] \in {"begun", "unknown"}
              /\ taken[r] = 1
              /\ Becomes(r, "sent")

Retry(r) == record[r] = "begun" /\ taken[r] = 0 /\ Becomes(r, "open")

Refuse(r) == record[r] = "begun" /\ taken[r] = 0 /\ Becomes(r, "closed")

\* The outcome of an attempt is lost; and a look at the conversation that came
\* too late to find the message may take back what another look recorded.
LoseTrack(r) == record[r] \in {"begun", "sent"} /\ Becomes(r, "unknown")

Withdraw(r) == record[r] = "open" /\ Becomes(r, "closed")

Next == \E r \in Recipient :
            \/ Begin(r) \/ Take(r) \/ Confirm(r) \/ Retry(r) \/ Refuse(r)
            \/ LoseTrack(r) \/ Withdraw(r)

Spec == Init /\ [][Next]_vars

\* A creator receives at most one message over all campaigns.
OneTakenPerCreator ==
    \A r \in Recipient :
        /\ taken[r] <= 1
        /\ taken[r] = 1 => \A q \in Rivals(r) : taken[q] = 0

=============================================================================
