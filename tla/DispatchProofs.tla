--------------------------- MODULE DispatchProofs ---------------------------
(***************************************************************************)
(* What holds of Dispatch for every number of campaigns, recipients,       *)
(* creators, worker runs, attempts and faults.  TypeOK and the promises of *)
(* one delivery need nothing else; the rows stay paired without cancel;    *)
(* what the campaigns promise together also needs that live runs keep      *)
(* their BullMQ locks.                                                     *)
(***************************************************************************)
EXTENDS DispatchContract, TLAPS

-----------------------------------------------------------------------------
(* Type correctness *)

\* The initial state, every campaign in PREVIEW_READY, is well typed.
LEMMA TypeInit == Init => TypeOK
  BY DispatchAssumption
     DEF Init, TypeOK, CampaignsTyped, RowsTyped, ContactsTyped, JobsTyped,
         RunsTyped, EnvTyped, CampaignState, RecipientState, DeliveryState,
         OutboxState, ReservationState, ReconState, JobState, PC, AttemptPC,
         ClaimPC, Request, NoRequest

\* A well typed request of the API leaves the environment well typed.
LEMMA AskTyped ==
  ASSUME EnvTyped, NEW o \in Operator, NEW c \in Campaign,
         NEW kind \in {"queue", "pause", "resume", "quotaResume", "cancel"},
         NEW ids \in SUBSET Recipient, Ask(o, kind, c, ids)
  PROVE  EnvTyped'
  BY DEF EnvTyped, Ask, Request

\* Setting the state of one reconciliation job keeps them all well typed.
LEMMA ReconTyped ==
  ASSUME JobsTyped, NEW r \in Recipient, NEW n, NEW s \in ReconState
  PROVE  [recon EXCEPT ![r][n] = s]
           \in [Recipient -> [1..ReconcileAttempts -> ReconState]]
  <1>1. [recon[r] EXCEPT ![n] = s] \in [1..ReconcileAttempts -> ReconState]
    BY DEF JobsTyped
  <1> QED BY <1>1 DEF JobsTyped

\* So does scheduling a reconciliation.
LEMMA AddReconcileTyped ==
  ASSUME JobsTyped, NEW r \in Recipient, NEW n, AddReconcile(r, n)
  PROVE  recon' \in [Recipient -> [1..ReconcileAttempts -> ReconState]]
  <1> DEFINE s == IF recon[r][n] = "none" THEN "waiting" ELSE recon[r][n]
  <1>1. [recon[r] EXCEPT ![n] = s] \in [1..ReconcileAttempts -> ReconState]
    BY DEF JobsTyped, ReconState
  <1>2. recon' = [recon EXCEPT ![r] = [recon[r] EXCEPT ![n] = s]]
    BY DEF JobsTyped, AddReconcile
  <1> QED BY <1>1, <1>2 DEF JobsTyped

\* The API's freeze and its expiry keep every row well typed.
LEMMA TypeFreeze ==
  ASSUME TypeOK, NEW c \in Campaign,
         \/ Freeze(c) \/ FreezeLapses(c) \/ ExpireFrozen(c)
  PROVE  TypeOK'
  <1> USE DispatchAssumption DEF campaignVars, contactVars, jobVars, runVars,
                                 envVars, rowVars, TypeOK
  <1>1. CASE Freeze(c)
    <2> USE <1>1 DEF Freeze
    <2>1. CampaignsTyped'
      BY DEF CampaignsTyped, CampaignState
    <2>2. RowsTyped'
      BY DEF RowsTyped, RecipientState, DeliveryState, OutboxState,
         ReservationState
    <2> QED BY <2>1, <2>2 DEF ContactsTyped, JobsTyped, RunsTyped, EnvTyped
  <1>2. CASE FreezeLapses(c)
    <2> USE <1>2 DEF FreezeLapses
    <2>1. CampaignsTyped'
      BY DEF CampaignsTyped, CampaignState
    <2>2. RowsTyped'
      BY DEF RowsTyped, RecipientState, DeliveryState, OutboxState,
         ReservationState
    <2> QED BY <2>1, <2>2 DEF ContactsTyped, JobsTyped, RunsTyped, EnvTyped
  <1>3. CASE ExpireFrozen(c)
    <2> USE <1>3 DEF ExpireFrozen
    <2>1. CampaignsTyped'
      BY DEF CampaignsTyped, CampaignState
    <2>2. RowsTyped'
      BY DEF RowsTyped, RecipientState, DeliveryState, OutboxState,
         ReservationState
    <2> QED BY <2>1, <2>2 DEF ContactsTyped, JobsTyped, RunsTyped, EnvTyped
  <1> QED BY <1>1, <1>2, <1>3

\* A request of the API records what it read.
LEMMA TypeRequest ==
  ASSUME TypeOK, NEW o \in Operator, NEW c \in Campaign,
         \/ QueueRead(o, c) \/ PauseRead(o, c) \/ ResumeRead(o, c)
         \/ CancelRead(o, c)
  PROVE  TypeOK'
  <1> USE DispatchAssumption DEF campaignVars, contactVars, jobVars, runVars,
                                 envVars, rowVars, TypeOK
  <1>1. CASE QueueRead(o, c)
    <2> USE <1>1 DEF QueueRead, Ask
    <2>1. EnvTyped'
      BY AskTyped DEF EnvTyped, Request, NoRequest
    <2> QED BY <2>1 DEF CampaignsTyped, RowsTyped, ContactsTyped, JobsTyped,
       RunsTyped
  <1>2. CASE PauseRead(o, c)
    <2> USE <1>2 DEF PauseRead, Ask
    <2>1. EnvTyped'
      BY AskTyped DEF EnvTyped, Request, NoRequest
    <2> QED BY <2>1 DEF CampaignsTyped, RowsTyped, ContactsTyped, JobsTyped,
       RunsTyped
  <1>3. CASE ResumeRead(o, c)
    <2> USE <1>3 DEF ResumeRead, Ask
    <2>1. EnvTyped'
      BY AskTyped DEF EnvTyped, Request, NoRequest
    <2> QED BY <2>1 DEF CampaignsTyped, RowsTyped, ContactsTyped, JobsTyped,
       RunsTyped
  <1>4. CASE CancelRead(o, c)
    <2> USE <1>4 DEF CancelRead, Ask, Of
    <2>1. EnvTyped'
      BY AskTyped DEF EnvTyped, Request, NoRequest
    <2> QED BY <2>1 DEF CampaignsTyped, RowsTyped, ContactsTyped, JobsTyped,
       RunsTyped
  <1> QED BY <1>1, <1>2, <1>3, <1>4

\* A request's write is well typed, on whatever campaign it was read.
LEMMA TypeWrite ==
  ASSUME TypeOK, NEW o \in Operator,
         \/ QueueWrite(o) \/ PauseWrite(o) \/ ResumeWrite(o)
         \/ CancelWrite(o)
  PROVE  TypeOK'
  <1> USE DispatchAssumption DEF campaignVars, contactVars, jobVars, runVars,
                                 envVars, rowVars, TypeOK
  <1>1. CASE QueueWrite(o)
    <2> USE <1>1 DEF QueueWrite, Answered
    <2>1. CampaignsTyped'
      BY DEF CampaignsTyped, EnvTyped, Request, CampaignState
    <2>2. RowsTyped'
      BY DEF RowsTyped, EnvTyped, Request, RecipientState, DeliveryState,
         OutboxState, ReservationState
    <2>3. EnvTyped'
      BY DEF EnvTyped, Request, NoRequest
    <2> QED BY <2>1, <2>2, <2>3 DEF ContactsTyped, JobsTyped, RunsTyped
  <1>2. CASE PauseWrite(o)
    <2> USE <1>2 DEF PauseWrite, Answered
    <2>1. CampaignsTyped'
      BY DEF CampaignsTyped, EnvTyped, Request, CampaignState
    <2>2. EnvTyped'
      BY DEF EnvTyped, Request, NoRequest
    <2> QED BY <2>1, <2>2 DEF RowsTyped, ContactsTyped, JobsTyped, RunsTyped
  <1>3. CASE ResumeWrite(o)
    <2> USE <1>3 DEF ResumeWrite, Answered
    <2>1. CampaignsTyped'
      BY DEF CampaignsTyped, EnvTyped, Request, CampaignState
    <2>2. RowsTyped'
      BY DEF RowsTyped, RecipientState, DeliveryState, OutboxState,
         ReservationState
    <2>3. EnvTyped'
      BY DEF EnvTyped, Request, NoRequest
    <2> QED BY <2>1, <2>2, <2>3 DEF ContactsTyped, JobsTyped, RunsTyped
  <1>4. CASE CancelWrite(o)
    <2> USE <1>4 DEF CancelWrite, Answered
    <2>1. CampaignsTyped'
      BY DEF CampaignsTyped, EnvTyped, Request, CampaignState
    <2>2. RowsTyped'
      BY DEF RowsTyped, RecipientState, DeliveryState, OutboxState,
         ReservationState
    <2>3. EnvTyped'
      BY DEF EnvTyped, Request, NoRequest
    <2> QED BY <2>1, <2>2, <2>3 DEF ContactsTyped, JobsTyped, RunsTyped
  <1> QED BY <1>1, <1>2, <1>3, <1>4

\* The sweepers' writes to the outbox and the queue are well typed.
LEMMA TypeSweep ==
  ASSUME TypeOK, NEW r \in Recipient,
         \/ SweepSettled(r) \/ SweepList(r) \/ SweepEnqueue(r)
         \/ SweepFails(r)
  PROVE  TypeOK'
  <1> USE DispatchAssumption DEF campaignVars, contactVars, jobVars, runVars,
                                 envVars, rowVars, TypeOK
  <1>1. CASE SweepSettled(r)
    <2> USE <1>1 DEF SweepSettled
    <2>1. RowsTyped'
      BY DEF RowsTyped, RecipientState, DeliveryState, OutboxState,
         ReservationState
    <2> QED BY <2>1 DEF CampaignsTyped, ContactsTyped, JobsTyped, RunsTyped,
       EnvTyped
  <1>2. CASE SweepList(r)
    <2> USE <1>2 DEF SweepList, Sweepable
    <2>1. EnvTyped'
      BY DEF EnvTyped, Request, NoRequest
    <2> QED BY <2>1 DEF CampaignsTyped, RowsTyped, ContactsTyped, JobsTyped,
       RunsTyped
  <1>3. CASE SweepEnqueue(r)
    <2> USE <1>3 DEF SweepEnqueue, Replaceable
    <2>1. RowsTyped'
      BY DEF RowsTyped, RecipientState, DeliveryState, OutboxState,
         ReservationState
    <2>2. JobsTyped'
      BY DEF JobsTyped, JobState, ReconState
    <2>3. EnvTyped'
      BY DEF EnvTyped, Request, NoRequest
    <2> QED BY <2>1, <2>2, <2>3 DEF CampaignsTyped, ContactsTyped, RunsTyped
  <1>4. CASE SweepFails(r)
    <2> USE <1>4 DEF SweepFails
    <2>1. RowsTyped'
      BY DEF RowsTyped, RecipientState, DeliveryState, OutboxState,
         ReservationState
    <2>2. EnvTyped'
      BY DEF EnvTyped, Fault, Request, NoRequest
    <2> QED BY <2>1, <2>2 DEF CampaignsTyped, ContactsTyped, JobsTyped,
       RunsTyped
  <1> QED BY <1>1, <1>2, <1>3, <1>4

\* The stalled check moves jobs between states of a BullMQ job.
LEMMA TypeStall ==
  ASSUME TypeOK, NEW r \in Recipient,
         \/ StallSend(r) \/ LoseLock(r)
  PROVE  TypeOK'
  <1> USE DispatchAssumption DEF campaignVars, contactVars, jobVars, runVars,
                                 envVars, rowVars, TypeOK
  <1>1. CASE StallSend(r)
    <2> USE <1>1 DEF StallSend, Stalled
    <2>1. JobsTyped'
      BY DEF JobsTyped, JobState, ReconState
    <2> QED BY <2>1 DEF CampaignsTyped, RowsTyped, ContactsTyped, RunsTyped,
       EnvTyped
  <1>2. CASE LoseLock(r)
    <2> USE <1>2 DEF LoseLock, Stalled
    <2>1. JobsTyped'
      BY DEF JobsTyped, JobState, ReconState
    <2>2. EnvTyped'
      BY DEF EnvTyped, Fault, Request, NoRequest
    <2> QED BY <2>1, <2>2 DEF CampaignsTyped, RowsTyped, ContactsTyped,
       RunsTyped
  <1> QED BY <1>1, <1>2

\* So does the stalled check of a reconciliation job.
LEMMA TypeStallReconcile ==
  ASSUME TypeOK, NEW r \in Recipient, NEW n \in 1..ReconcileAttempts,
         StallReconcile(r, n)
  PROVE  TypeOK'
  <1> USE DispatchAssumption DEF campaignVars, contactVars, jobVars, runVars,
                                 envVars, rowVars, TypeOK, StallReconcile
  <1>1. JobsTyped'
    BY DEF JobsTyped, JobState, ReconState
  <1> QED BY <1>1 DEF CampaignsTyped, RowsTyped, ContactsTyped, RunsTyped,
     EnvTyped

\* A run that picks up a send job has its recipient.
LEMMA TypePickSend ==
  ASSUME TypeOK, NEW w \in Worker, NEW r \in Recipient,
         PickSend(w, r)
  PROVE  TypeOK'
  <1> USE DispatchAssumption DEF campaignVars, contactVars, jobVars, runVars,
                                 envVars, rowVars, TypeOK, PickSend
  <1>1. JobsTyped'
    BY DEF JobsTyped, JobState
  <1>2. RunsTyped'
    BY DEF RunsTyped, FirstStep, PC, AttemptPC, ClaimPC
  <1> QED BY <1>1, <1>2 DEF CampaignsTyped, RowsTyped, ContactsTyped,
     EnvTyped

\* A run that picks up a reconciliation job has its recipient and number.
LEMMA TypePickReconcile ==
  ASSUME TypeOK, NEW w \in Worker, NEW r \in Recipient, NEW n \in 1..ReconcileAttempts,
         PickReconcile(w, r, n)
  PROVE  TypeOK'
  <1> USE DispatchAssumption DEF campaignVars, contactVars, jobVars, runVars,
                                 envVars, rowVars, TypeOK, PickReconcile
  <1>1. JobsTyped'
    BY DEF JobsTyped, JobState, ReconState
  <1>2. RunsTyped'
    BY DEF RunsTyped, PC, AttemptPC, ClaimPC
  <1> QED BY <1>1, <1>2 DEF CampaignsTyped, RowsTyped, ContactsTyped,
     EnvTyped

\* Finishing, delaying and failing a job leave runs and jobs well typed.
LEMMA TypeJob ==
  ASSUME TypeOK, NEW w \in Worker,
         \/ FinishJob(w) \/ DelayJob(w) \/ Throw(w) \/ Exception(w)
         \/ Crash(w)
  PROVE  TypeOK'
  <1> USE DispatchAssumption DEF campaignVars, contactVars, jobVars, runVars,
                                 envVars, rowVars, TypeOK
  <1>1. CASE FinishJob(w)
    <2> USE <1>1 DEF FinishJob, Idle
    <2>1. JobsTyped'
      <3>1. CASE task[w] = 0
        BY <3>1 DEF JobsTyped, RunsTyped, JobState
      <3>2. CASE task[w] # 0
        <4>1. recon' = [recon EXCEPT ![at[w]][task[w]] = "over"]
          BY <3>2
        <4>2. at[w] \in Recipient /\ "over" \in ReconState
          BY DEF RunsTyped, ReconState
        <4>3. recon' \in [Recipient -> [1..ReconcileAttempts -> ReconState]]
          BY <4>1, <4>2, ReconTyped DEF JobsTyped
        <4> QED BY <3>2, <4>3 DEF JobsTyped
      <3> QED BY <3>1, <3>2
    <2>2. RunsTyped'
      BY DEF RunsTyped, PC, AttemptPC, ClaimPC
    <2> QED BY <2>1, <2>2 DEF CampaignsTyped, RowsTyped, ContactsTyped,
       EnvTyped
  <1>2. CASE DelayJob(w)
    <2> USE <1>2 DEF DelayJob, Idle
    <2>1. JobsTyped'
      BY DEF JobsTyped, RunsTyped, JobState, ReconState
    <2>2. RunsTyped'
      BY DEF RunsTyped, PC, AttemptPC, ClaimPC
    <2> QED BY <2>1, <2>2 DEF CampaignsTyped, RowsTyped, ContactsTyped,
       EnvTyped
  <1>3. CASE Throw(w)
    <2> USE <1>3 DEF Throw, FailRun, Idle
    <2>1. JobsTyped'
      BY ReconTyped DEF JobsTyped, RunsTyped, JobState, ReconState
    <2>2. RunsTyped'
      BY DEF RunsTyped, PC, AttemptPC, ClaimPC
    <2> QED BY <2>1, <2>2 DEF CampaignsTyped, RowsTyped, ContactsTyped,
       EnvTyped
  <1>4. CASE Exception(w)
    <2> USE <1>4 DEF Exception, FailRun, Idle
    <2>1. JobsTyped'
      BY ReconTyped DEF JobsTyped, RunsTyped, JobState, ReconState
    <2>2. RunsTyped'
      BY DEF RunsTyped, PC, AttemptPC, ClaimPC
    <2>3. EnvTyped'
      BY DEF EnvTyped, Fault, Request, NoRequest
    <2> QED BY <2>1, <2>2, <2>3 DEF CampaignsTyped, RowsTyped, ContactsTyped
  <1>5. CASE Crash(w)
    <2> USE <1>5 DEF Crash, Idle
    <2>1. RunsTyped'
      BY DEF RunsTyped, PC, AttemptPC, ClaimPC
    <2>2. EnvTyped'
      BY DEF EnvTyped, Fault, Request, NoRequest
    <2> QED BY <2>1, <2>2 DEF CampaignsTyped, RowsTyped, ContactsTyped,
       JobsTyped
  <1> QED BY <1>1, <1>2, <1>3, <1>4, <1>5

\* A send job's steps up to the dispatch claim write well typed rows.
LEMMA TypeClaim ==
  ASSUME TypeOK, NEW w \in Worker,
         \/ RecoverDispatching(w) \/ AcknowledgePause(w)
         \/ NoCreatePermit(w) \/ ClaimRead(w) \/ ClaimWrite(w)
         \/ ClaimExclude(w)
  PROVE  TypeOK'
  <1> USE DispatchAssumption DEF campaignVars, contactVars, jobVars, runVars,
                                 envVars, rowVars, TypeOK
  <1>1. CASE RecoverDispatching(w)
    <2> USE <1>1 DEF RecoverDispatching, Goto, Stay, RecordUnknown
    <2>1. RowsTyped'
      BY DEF RowsTyped, RunsTyped, RecipientState, DeliveryState,
         OutboxState, ReservationState
    <2>2. ContactsTyped'
      BY DEF ContactsTyped, RunsTyped
    <2>3. RunsTyped'
      BY DEF RunsTyped, PC, AttemptPC, ClaimPC
    <2> QED BY <2>1, <2>2, <2>3 DEF CampaignsTyped, JobsTyped, EnvTyped
  <1>2. CASE AcknowledgePause(w)
    <2> USE <1>2 DEF AcknowledgePause, Goto, Stay
    <2>1. CampaignsTyped'
      BY DEF CampaignsTyped, CampaignState
    <2>2. RunsTyped'
      BY DEF RunsTyped, PC, AttemptPC, ClaimPC
    <2> QED BY <2>1, <2>2 DEF RowsTyped, ContactsTyped, JobsTyped, EnvTyped
  <1>3. CASE NoCreatePermit(w)
    <2> USE <1>3 DEF NoCreatePermit, Goto, Stay
    <2>1. RunsTyped'
      BY DEF RunsTyped, PC, AttemptPC, ClaimPC
    <2> QED BY <2>1 DEF CampaignsTyped, RowsTyped, ContactsTyped, JobsTyped,
       EnvTyped
  <1>4. CASE ClaimRead(w)
    <2> USE <1>4 DEF ClaimRead, Goto, Stay
    <2>1. RunsTyped'
      BY DEF RunsTyped, PC, AttemptPC, ClaimPC
    <2> QED BY <2>1 DEF CampaignsTyped, RowsTyped, ContactsTyped, JobsTyped,
       EnvTyped
  <1>5. CASE ClaimWrite(w)
    <2> USE <1>5 DEF ClaimWrite, Goto, Stay
    <2>1. CampaignsTyped'
      BY DEF CampaignsTyped, CampaignState
    <2>2. RowsTyped'
      BY DEF RowsTyped, RecipientState, DeliveryState, OutboxState,
         ReservationState
    <2>3. RunsTyped'
      BY DEF RunsTyped, PC, AttemptPC, ClaimPC
    <2> QED BY <2>1, <2>2, <2>3 DEF ContactsTyped, JobsTyped, EnvTyped
  <1>6. CASE ClaimExclude(w)
    <2> USE <1>6 DEF ClaimExclude, Goto, Stay
    <2>1. RowsTyped'
      BY DEF RowsTyped, RecipientState, DeliveryState, OutboxState,
         ReservationState
    <2>2. RunsTyped'
      BY DEF RunsTyped, PC, AttemptPC, ClaimPC
    <2> QED BY <2>1, <2>2 DEF CampaignsTyped, ContactsTyped, JobsTyped,
       EnvTyped
  <1> QED BY <1>1, <1>2, <1>3, <1>4, <1>5, <1>6

\* The provider calls count acceptances and pick a well typed next step.
LEMMA TypeProvider ==
  ASSUME TypeOK, NEW w \in Worker,
         \/ CreateConversation(w) \/ SendPermit(w) \/ SendAccepted(w)
         \/ SendRefused(w)
  PROVE  TypeOK'
  <1> USE DispatchAssumption DEF campaignVars, contactVars, jobVars, runVars,
                                 envVars, rowVars, TypeOK
  <1>1. CASE CreateConversation(w)
    <2> USE <1>1 DEF CreateConversation, Goto, Stay, Refused
    <2>1. RowsTyped'
      BY DEF RowsTyped, RecipientState, DeliveryState, OutboxState,
         ReservationState
    <2>2. RunsTyped'
      BY DEF RunsTyped, PC, AttemptPC, ClaimPC
    <2> QED BY <2>1, <2>2 DEF CampaignsTyped, ContactsTyped, JobsTyped,
       EnvTyped
  <1>2. CASE SendPermit(w)
    <2> USE <1>2 DEF SendPermit, Goto, Stay
    <2>1. RunsTyped'
      BY DEF RunsTyped, PC, AttemptPC, ClaimPC
    <2> QED BY <2>1 DEF CampaignsTyped, RowsTyped, ContactsTyped, JobsTyped,
       EnvTyped
  <1>3. CASE SendAccepted(w)
    <2> USE <1>3 DEF SendAccepted, Goto, Stay
    <2>1. RunsTyped'
      BY DEF RunsTyped, PC, AttemptPC, ClaimPC
    <2>2. EnvTyped'
      BY DEF EnvTyped, RunsTyped, Request, NoRequest
    <2> QED BY <2>1, <2>2 DEF CampaignsTyped, RowsTyped, ContactsTyped,
       JobsTyped
  <1>4. CASE SendRefused(w)
    <2> USE <1>4 DEF SendRefused, Goto, Stay, Refused
    <2>1. RunsTyped'
      BY DEF RunsTyped, PC, AttemptPC, ClaimPC
    <2> QED BY <2>1 DEF CampaignsTyped, RowsTyped, ContactsTyped, JobsTyped,
       EnvTyped
  <1> QED BY <1>1, <1>2, <1>3, <1>4

\* Recording an outcome, completing the campaign and reconciling write well
\* typed rows.
LEMMA TypeOutcome ==
  ASSUME TypeOK, NEW w \in Worker,
         \/ MakeDeliveryRetryable(w) \/ PauseShop(w) \/ YieldToPause(w)
         \/ MarkFailed(w) \/ MarkSent(w) \/ MarkDeliveryUnknown(w)
         \/ ScheduleReconciliation(w) \/ ReconcileUnmatched(w)
         \/ CompleteRead(w) \/ CompleteWrite(w)
  PROVE  TypeOK'
  <1> USE DispatchAssumption DEF campaignVars, contactVars, jobVars, runVars,
                                 envVars, rowVars, TypeOK
  <1>1. CASE MakeDeliveryRetryable(w)
    <2> USE <1>1 DEF MakeDeliveryRetryable, Goto, Stay
    <2>1. RowsTyped'
      BY DEF RowsTyped, RecipientState, DeliveryState, OutboxState,
         ReservationState
    <2>2. RunsTyped'
      BY DEF RunsTyped, AfterRetryable, PC, AttemptPC, ClaimPC
    <2> QED BY <2>1, <2>2 DEF CampaignsTyped, ContactsTyped, JobsTyped,
       EnvTyped
  <1>2. CASE PauseShop(w)
    <2> USE <1>2 DEF PauseShop, Goto, Stay
    <2>1. CampaignsTyped'
      BY DEF CampaignsTyped, CampaignState
    <2>2. RowsTyped'
      BY DEF RowsTyped, RecipientState, DeliveryState, OutboxState,
         ReservationState
    <2>3. RunsTyped'
      BY DEF RunsTyped, PC, AttemptPC, ClaimPC
    <2> QED BY <2>1, <2>2, <2>3 DEF ContactsTyped, JobsTyped, EnvTyped
  <1>3. CASE YieldToPause(w)
    <2> USE <1>3 DEF YieldToPause, Goto, Stay
    <2>1. CampaignsTyped'
      BY DEF CampaignsTyped, CampaignState
    <2>2. RunsTyped'
      BY DEF RunsTyped, PC, AttemptPC, ClaimPC
    <2> QED BY <2>1, <2>2 DEF RowsTyped, ContactsTyped, JobsTyped, EnvTyped
  <1>4. CASE MarkFailed(w)
    <2> USE <1>4 DEF MarkFailed, Goto, Stay
    <2>1. RowsTyped'
      BY DEF RowsTyped, RecipientFailure, RecipientState, DeliveryState,
         OutboxState, ReservationState
    <2>2. RunsTyped'
      BY DEF RunsTyped, PC, AttemptPC, ClaimPC
    <2> QED BY <2>1, <2>2 DEF CampaignsTyped, ContactsTyped, JobsTyped,
       EnvTyped
  <1>5. CASE MarkSent(w)
    <2> USE <1>5 DEF MarkSent, Goto, Stay
    <2>1. RowsTyped'
      BY DEF RowsTyped, RecipientState, DeliveryState, OutboxState,
         ReservationState
    <2>2. ContactsTyped'
      BY DEF ContactsTyped, RunsTyped, AnyUnknown
    <2>3. RunsTyped'
      BY DEF RunsTyped, PC, AttemptPC, ClaimPC
    <2> QED BY <2>1, <2>2, <2>3 DEF CampaignsTyped, JobsTyped, EnvTyped
  <1>6. CASE MarkDeliveryUnknown(w)
    <2> USE <1>6 DEF MarkDeliveryUnknown, Goto, Stay, RecordUnknown
    <2>1. RowsTyped'
      BY DEF RowsTyped, RecipientState, DeliveryState, OutboxState,
         ReservationState
    <2>2. ContactsTyped'
      BY DEF ContactsTyped, RunsTyped
    <2>3. RunsTyped'
      BY DEF RunsTyped, PC, AttemptPC, ClaimPC
    <2> QED BY <2>1, <2>2, <2>3 DEF CampaignsTyped, JobsTyped, EnvTyped
  <1>7. CASE ScheduleReconciliation(w)
    <2> USE <1>7 DEF ScheduleReconciliation, Goto
    <2>1. JobsTyped'
      BY AddReconcileTyped DEF JobsTyped, RunsTyped, JobState, ReconState
    <2>2. RunsTyped'
      BY DEF RunsTyped, PC, AttemptPC, ClaimPC
    <2> QED BY <2>1, <2>2 DEF CampaignsTyped, RowsTyped, ContactsTyped,
       EnvTyped
  <1>8. CASE ReconcileUnmatched(w)
    <2> USE <1>8 DEF ReconcileUnmatched, Goto
    <2>1. RowsTyped'
      BY DEF RowsTyped, RecipientState, DeliveryState, OutboxState,
         ReservationState
    <2>2. JobsTyped'
      BY AddReconcileTyped DEF JobsTyped, RunsTyped, JobState, ReconState
    <2>3. RunsTyped'
      BY DEF RunsTyped, PC, AttemptPC, ClaimPC
    <2> QED BY <2>1, <2>2, <2>3 DEF CampaignsTyped, ContactsTyped, EnvTyped
  <1>9. CASE CompleteRead(w)
    <2> USE <1>9 DEF CompleteRead, Goto, Stay
    <2>1. RunsTyped'
      BY DEF RunsTyped, PC, AttemptPC, ClaimPC
    <2> QED BY <2>1 DEF CampaignsTyped, RowsTyped, ContactsTyped, JobsTyped,
       EnvTyped
  <1>10. CASE CompleteWrite(w)
    <2> USE <1>10 DEF CompleteWrite, Goto, Stay
    <2>1. CampaignsTyped'
      BY DEF CampaignsTyped, CampaignState
    <2>2. RunsTyped'
      BY DEF RunsTyped, PC, AttemptPC, ClaimPC
    <2> QED BY <2>1, <2>2 DEF RowsTyped, ContactsTyped, JobsTyped, EnvTyped
  <1> QED BY <1>1, <1>2, <1>3, <1>4, <1>5, <1>6, <1>7, <1>8, <1>9, <1>10

\* A history import rebuilds a creator's contact state well typed.
LEMMA TypeRebuild ==
  ASSUME TypeOK, NEW k \in Creator, RebuildContact(k)
  PROVE  TypeOK'
  <1> USE DispatchAssumption DEF campaignVars, jobVars, runVars, envVars,
                                 rowVars, TypeOK, RebuildContact
  <1>1. ContactsTyped'
    BY DEF ContactsTyped, AnyUnknown, By
  <1> QED BY <1>1 DEF CampaignsTyped, RowsTyped, JobsTyped, RunsTyped, EnvTyped

\* Every step keeps the state well typed.
LEMMA TypeStep == TypeOK /\ [Next]_vars => TypeOK'
  <1> SUFFICES ASSUME TypeOK, [Next]_vars PROVE TypeOK'
    OBVIOUS
  <1>1. CASE UNCHANGED vars
    BY <1>1 DEF vars, campaignVars, contactVars, jobVars, runVars, rowVars,
                envVars, TypeOK, CampaignsTyped, RowsTyped, ContactsTyped,
                JobsTyped, RunsTyped, EnvTyped
  <1>2. CASE Api
    BY <1>2, TypeFreeze, TypeRequest, TypeWrite DEF Api
  <1>3. CASE Sweep
    BY <1>3, TypeSweep DEF Sweep
  <1>4. CASE Stall
    BY <1>4, TypeStall, TypeStallReconcile DEF Stall
  <1>5. ASSUME NEW w \in Worker, Pick(w) PROVE TypeOK'
    BY <1>5, TypePickSend, TypePickReconcile DEF Pick
  <1>6. ASSUME NEW w \in Worker, Step(w) PROVE TypeOK'
    BY <1>6, TypeJob, TypeClaim, TypeProvider, TypeOutcome DEF Step
  <1>7. ASSUME NEW w \in Worker, Exception(w) \/ Crash(w) PROVE TypeOK'
    BY <1>7, TypeJob
  <1>8. ASSUME NEW k \in Creator, RebuildContact(k) PROVE TypeOK'
    BY <1>8, TypeRebuild
  <1> QED BY <1>1, <1>2, <1>3, <1>4, <1>5, <1>6, <1>7, <1>8 DEF Next

\* Every row, job, run and request of every instance stays well typed.
THEOREM TypeCorrect == Spec => []TypeOK
  BY TypeInit, TypeStep, PTL DEF Spec

-----------------------------------------------------------------------------
(* The inductive invariant behind AtMostOneMessage and RecordedAsHappened *)

\* States of a delivery whose message TikTok may have accepted.
Begun == {"DISPATCHING", "SENT"} \cup Unknown
Attempting(w, r) == pc[w] \in AttemptPC /\ at[w] = r
Claiming(w, r) == pc[w] \in ClaimPC /\ at[w] = r

\* The advisory locks let one claim transaction through at a time.
OneClaimAtATime ==
    \A v, w \in Worker : pc[v] \in ClaimPC /\ pc[w] \in ClaimPC => v = w

\* A delivery has one attempt at a time, and is on record as begun during it.
OneAttemptAtATime ==
    \A r \in Recipient : \A v, w \in Worker :
        Attempting(v, r) /\ Attempting(w, r) => v = w
AttemptsAreBegun ==
    \A r \in Recipient : \A w \in Worker : Attempting(w, r) => delivery[r] \in Begun

\* What a claim transaction has decided on is not being attempted.
ClaimsComeFirst ==
    \A r \in Recipient : \A v \in Worker : Claiming(v, r) =>
        accepted[r] = 0 /\ \A w \in Worker : ~Attempting(w, r)

\* After TikTok accepted the message only its outcome is left to record.
AcceptedOnce ==
    \A r \in Recipient : accepted[r] > 0 =>
        /\ accepted[r] = 1
        /\ \A w \in Worker : Attempting(w, r) => pc[w] \in {"sent", "unknown"}
ConfirmedWasAccepted ==
    \A w \in Worker : pc[w] \in {"sent", "matched"} => accepted[at[w]] > 0

ClaimsSafe ==
    /\ OneClaimAtATime /\ OneAttemptAtATime /\ AttemptsAreBegun
    /\ ClaimsComeFirst /\ AcceptedOnce /\ ConfirmedWasAccepted
    /\ RecordedAsHappened

DispatchInv == TypeOK /\ ClaimsSafe

\* Steps at which a run neither claims, attempts nor confirms a dispatch.
QuietPC == PC \ (AttemptPC \cup ClaimPC \cup {"matched"})

\* Nothing is claimed, attempted or accepted initially.
LEMMA ClaimsInit == Init => ClaimsSafe
  BY DispatchAssumption
     DEF Init, ClaimsSafe, OneClaimAtATime, OneAttemptAtATime,
         AttemptsAreBegun, ClaimsComeFirst, AcceptedOnce,
         ConfirmedWasAccepted, RecordedAsHappened, Attempting, Claiming,
         AttemptPC, ClaimPC

\* The API, the sweepers, the stalled check and the history import move no run;
\* of deliveries they only open new ones and cancel claimable ones.
LEMMA RowsOnly ==
  ASSUME DispatchInv, UNCHANGED <<pc, at, accepted>>,
         \A r \in Recipient :
            \/ delivery'[r] = delivery[r]
            \/ delivery[r] = "NONE" /\ delivery'[r] = "PENDING"
            \/ delivery[r] \in Claimable /\ delivery'[r] = "CANCELLED"
  PROVE  ClaimsSafe'
  <1> USE DEF DispatchInv, ClaimsSafe
  <1>1. OneClaimAtATime' /\ OneAttemptAtATime'
    BY DEF OneClaimAtATime, OneAttemptAtATime, Attempting
  <1>2. AttemptsAreBegun'
    BY DEF AttemptsAreBegun, Attempting, Begun, Claimable, Unknown
  <1>3. ClaimsComeFirst' /\ AcceptedOnce' /\ ConfirmedWasAccepted'
    BY DEF ClaimsComeFirst, AcceptedOnce, ConfirmedWasAccepted, Attempting,
           Claiming
  <1>4. RecordedAsHappened'
    BY DEF RecordedAsHappened, Claimable, Unknown
  <1> QED BY <1>1, <1>2, <1>3, <1>4

\* A run that turns to a quiet step leaves the others' claims as they are.
LEMMA QuietMove ==
  ASSUME DispatchInv, NEW w \in Worker, NEW p \in QuietPC,
         pc' = [pc EXCEPT ![w] = p],
         \A v \in Worker \ {w} : at'[v] = at[v],
         UNCHANGED <<delivery, accepted>>
  PROVE  ClaimsSafe'
  <1>1. pc'[w] = p /\ \A v \in Worker \ {w} : pc'[v] = pc[v] /\ at'[v] = at[v]
    BY DEF DispatchInv, TypeOK, RunsTyped
  <1>2. p \notin AttemptPC \cup ClaimPC \cup {"sent", "matched"}
    BY DEF QuietPC, AttemptPC
  <1> USE <1>1, <1>2 DEF DispatchInv, ClaimsSafe
  <1>3. OneClaimAtATime' /\ OneAttemptAtATime'
    BY DEF OneClaimAtATime, OneAttemptAtATime, Attempting
  <1>4. AttemptsAreBegun'
    BY DEF AttemptsAreBegun, Attempting
  <1>5. ClaimsComeFirst' /\ AcceptedOnce'
    BY DEF ClaimsComeFirst, AcceptedOnce, Attempting, Claiming
  <1>6. ConfirmedWasAccepted'
    BY DEF ConfirmedWasAccepted
  <1>7. RecordedAsHappened'
    BY DEF RecordedAsHappened
  <1> QED BY <1>3, <1>4, <1>5, <1>6, <1>7


\* A run that ends a claim, an attempt or a reconciliation by writing its
\* delivery: it reopens the delivery only after an attempt of its own, and what
\* it writes agrees with what TikTok accepted.
LEMMA OutcomeMove ==
  ASSUME DispatchInv, NEW w \in Worker, pc[w] # "idle",
         NEW p \in QuietPC, pc' = [pc EXCEPT ![w] = p],
         NEW d \in DeliveryState, delivery' = [delivery EXCEPT ![at[w]] = d],
         UNCHANGED <<at, accepted>>,
         d \notin Begun => pc[w] \in AttemptPC \cup ClaimPC /\ accepted[at[w]] = 0,
         d = "SENT" => accepted[at[w]] > 0
  PROVE  ClaimsSafe'
  <1>1. at[w] \in Recipient /\ pc'[w] = p /\ \A v \in Worker \ {w} : pc'[v] = pc[v]
    BY DEF DispatchInv, TypeOK, RunsTyped
  <1>2. p \notin AttemptPC \cup ClaimPC \cup {"sent", "matched"}
    BY DEF QuietPC, AttemptPC
  <1>3. delivery'[at[w]] = d /\ \A r \in Recipient \ {at[w]} : delivery'[r] = delivery[r]
    BY <1>1 DEF DispatchInv, TypeOK, RowsTyped
  <1> USE <1>1, <1>2, <1>3 DEF DispatchInv, ClaimsSafe
  <1>4. OneClaimAtATime' /\ OneAttemptAtATime'
    BY DEF OneClaimAtATime, OneAttemptAtATime, Attempting
  <1>5. AttemptsAreBegun'
    BY DEF AttemptsAreBegun, OneAttemptAtATime, ClaimsComeFirst, Attempting,
           Claiming, Begun
  <1>6. ClaimsComeFirst' /\ AcceptedOnce' /\ ConfirmedWasAccepted'
    BY DEF ClaimsComeFirst, AcceptedOnce, ConfirmedWasAccepted, Attempting,
           Claiming
  <1>7. RecordedAsHappened'
    BY DEF RecordedAsHappened, Begun
  <1> QED BY <1>4, <1>5, <1>6, <1>7

\* An attempt whose message was not accepted goes on, or ends unconfirmed.
LEMMA AttemptMove ==
  ASSUME DispatchInv, NEW w \in Worker, pc[w] \in AttemptPC \ {"sent", "unknown"},
         NEW p \in AttemptPC \ {"sent"}, pc' = [pc EXCEPT ![w] = p],
         UNCHANGED <<at, delivery, accepted>>
  PROVE  ClaimsSafe'
  <1>1. pc'[w] = p /\ \A v \in Worker \ {w} : pc'[v] = pc[v]
    BY DEF DispatchInv, TypeOK, RunsTyped
  <1>2. at[w] \in Recipient /\ accepted[at[w]] = 0
    <2>1. at[w] \in Recipient /\ accepted[at[w]] \in Nat
      BY DEF DispatchInv, TypeOK, RunsTyped, EnvTyped, AttemptPC
    <2> QED BY <2>1 DEF DispatchInv, ClaimsSafe, AcceptedOnce, Attempting
  <1>3. p \notin ClaimPC \cup {"sent", "matched"}
    BY DEF AttemptPC, ClaimPC
  <1> USE <1>1, <1>2, <1>3 DEF DispatchInv, ClaimsSafe
  <1>4. OneClaimAtATime' /\ OneAttemptAtATime'
    BY DEF OneClaimAtATime, OneAttemptAtATime, Attempting
  <1>5. AttemptsAreBegun'
    BY DEF AttemptsAreBegun, Attempting
  <1>6. ClaimsComeFirst' /\ AcceptedOnce' /\ ConfirmedWasAccepted'
    BY DEF ClaimsComeFirst, AcceptedOnce, ConfirmedWasAccepted, Attempting,
           Claiming
  <1>7. RecordedAsHappened'
    BY DEF RecordedAsHappened
  <1> QED BY <1>4, <1>5, <1>6, <1>7

\* The claim: the locks exclude a second claim, and the delivery being open
\* excludes an attempt in progress and an accepted message.
LEMMA ClaimsSafeClaimRead ==
  ASSUME DispatchInv, NEW w \in Worker, ClaimRead(w)
  PROVE  ClaimsSafe'
  <1> DEFINE r == at[w]
  <1>1. r \in Recipient /\ pc[w] = "acquire" /\ UNCHANGED <<at, delivery, accepted>>
    BY DEF DispatchInv, TypeOK, RunsTyped, ClaimRead, Goto, Stay, rowVars
  <1>2. PICK p \in {"done", "exclude", "claimWrite"} :
           /\ pc' = [pc EXCEPT ![w] = p]
           /\ p # "done" => delivery[r] \in Claimable
    BY DEF ClaimRead, Goto
  <1>3. CASE p = "done"
    BY <1>1, <1>2, <1>3, QuietMove DEF QuietPC, PC, AttemptPC, ClaimPC
  <1>4. CASE p # "done"
    <2>1. pc'[w] = p /\ \A v \in Worker \ {w} : pc'[v] = pc[v]
      BY <1>2 DEF DispatchInv, TypeOK, RunsTyped
    <2>2. \A v \in Worker : pc[v] \notin ClaimPC
      BY DEF ClaimRead, ClaimLocksFree
    <2>3. delivery[r] \notin Begun
      BY <1>2, <1>4 DEF Claimable, Unknown, Begun
    <2>4. accepted[r] = 0 /\ \A v \in Worker : ~Attempting(v, r)
      <3>1. accepted[r] \in Nat
        BY <1>1 DEF DispatchInv, TypeOK, EnvTyped
      <3> QED BY <1>1, <2>3, <3>1 DEF DispatchInv, ClaimsSafe,
                 RecordedAsHappened, AttemptsAreBegun, Begun
    <2>5. p \notin AttemptPC \cup {"sent", "matched"}
      BY <1>2, <1>4 DEF AttemptPC
    <2> USE <1>1, <2>1, <2>2, <2>4, <2>5 DEF DispatchInv, ClaimsSafe
    <2>6. OneClaimAtATime' /\ OneAttemptAtATime'
      BY DEF OneClaimAtATime, OneAttemptAtATime, Attempting
    <2>7. AttemptsAreBegun'
      BY DEF AttemptsAreBegun, Attempting
    <2>8. ClaimsComeFirst' /\ AcceptedOnce' /\ ConfirmedWasAccepted'
      BY DEF ClaimsComeFirst, AcceptedOnce, ConfirmedWasAccepted, Attempting,
             Claiming
    <2>9. RecordedAsHappened'
      BY DEF RecordedAsHappened
    <2> QED BY <2>6, <2>7, <2>8, <2>9
  <1> QED BY <1>3, <1>4

\* A claim that goes through starts the only attempt at its delivery.
LEMMA ClaimsSafeClaimWrite ==
  ASSUME DispatchInv, NEW w \in Worker, ClaimWrite(w)
  PROVE  ClaimsSafe'
  <1> DEFINE r == at[w]
  <1>1. /\ r \in Recipient
        /\ pc'[w] = "create"
        /\ \A v \in Worker \ {w} : pc'[v] = pc[v]
        /\ delivery'[r] = "DISPATCHING"
        /\ \A q \in Recipient \ {r} : delivery'[q] = delivery[q]
        /\ UNCHANGED <<at, accepted>>
    BY DEF DispatchInv, TypeOK, RunsTyped, RowsTyped, ClaimWrite, Goto
  <1>2. accepted[r] = 0 /\ \A v \in Worker : ~Attempting(v, r)
    BY <1>1 DEF DispatchInv, ClaimsSafe, ClaimsComeFirst, Claiming, ClaimWrite,
                ClaimPC
  <1>3. \A v \in Worker \ {w} : pc[v] \notin ClaimPC
    BY DEF DispatchInv, ClaimsSafe, OneClaimAtATime, ClaimWrite, ClaimPC
  <1>4. "create" \in AttemptPC /\ "create" \notin ClaimPC \cup {"sent", "matched"}
    BY DEF AttemptPC, ClaimPC
  <1> USE <1>1, <1>2, <1>3, <1>4 DEF DispatchInv, ClaimsSafe
  <1>5. OneClaimAtATime' /\ OneAttemptAtATime'
    BY DEF OneClaimAtATime, OneAttemptAtATime, Attempting
  <1>6. AttemptsAreBegun'
    BY DEF AttemptsAreBegun, Attempting, Begun
  <1>7. ClaimsComeFirst' /\ AcceptedOnce' /\ ConfirmedWasAccepted'
    BY DEF ClaimsComeFirst, AcceptedOnce, ConfirmedWasAccepted, Attempting,
           Claiming
  <1>8. RecordedAsHappened'
    BY DEF RecordedAsHappened
  <1> QED BY <1>5, <1>6, <1>7, <1>8

\* TikTok accepts the message: it is the first, and no one else is at it.
LEMMA ClaimsSafeSendAccepted ==
  ASSUME DispatchInv, NEW w \in Worker, SendAccepted(w)
  PROVE  ClaimsSafe'
  <1> DEFINE r == at[w]
  <1>1. /\ r \in Recipient
        /\ pc[w] \in AttemptPC
        /\ pc'[w] \in {"sent", "unknown"}
        /\ \A v \in Worker \ {w} : pc'[v] = pc[v]
        /\ \A q \in Recipient \ {r} : accepted'[q] = accepted[q]
        /\ UNCHANGED <<at, delivery>>
    BY DEF DispatchInv, TypeOK, RunsTyped, EnvTyped, SendAccepted, Goto, Stay,
           rowVars, AttemptPC
  <1>2. accepted[r] = 0 /\ accepted'[r] = 1
    <2>1. accepted[r] \in Nat /\ accepted'[r] = accepted[r] + 1
      BY <1>1 DEF DispatchInv, TypeOK, EnvTyped, SendAccepted
    <2> QED BY <1>1, <2>1 DEF DispatchInv, ClaimsSafe, AcceptedOnce,
               Attempting, SendAccepted
  <1>3. \A v \in Worker : Attempting(v, r) => v = w
    BY <1>1 DEF DispatchInv, ClaimsSafe, OneAttemptAtATime, Attempting
  <1>4. \A v \in Worker : ~Claiming(v, r)
    BY <1>1 DEF DispatchInv, ClaimsSafe, ClaimsComeFirst, Attempting
  <1>5. {"sent", "unknown"} \subseteq AttemptPC /\ {"sent", "unknown"} \cap ClaimPC = {}
    BY DEF AttemptPC, ClaimPC
  <1> USE <1>1, <1>2, <1>3, <1>4, <1>5 DEF DispatchInv, ClaimsSafe
  <1>6. OneClaimAtATime' /\ OneAttemptAtATime'
    BY DEF OneClaimAtATime, OneAttemptAtATime, Attempting
  <1>7. AttemptsAreBegun'
    BY DEF AttemptsAreBegun, Attempting
  <1>8. ClaimsComeFirst'
    BY DEF ClaimsComeFirst, Attempting, Claiming
  <1>9. AcceptedOnce'
    BY DEF AcceptedOnce, Attempting
  <1>10. ConfirmedWasAccepted'
    BY DEF ConfirmedWasAccepted, RunsTyped, DispatchInv, TypeOK
  <1>11. RecordedAsHappened'
    BY DEF RecordedAsHappened, AttemptsAreBegun, Attempting, Begun
  <1> QED BY <1>6, <1>7, <1>8, <1>9, <1>10, <1>11


\* Picking up a reconciliation that will match finds an accepted message.
LEMMA ClaimsSafePickReconcile ==
  ASSUME DispatchInv, NEW w \in Worker, NEW r \in Recipient,
         NEW n \in 1..ReconcileAttempts, PickReconcile(w, r, n)
  PROVE  ClaimsSafe'
  <1>1. PICK p \in {"matched", "unmatched", "done"} :
           /\ pc' = [pc EXCEPT ![w] = p]
           /\ p = "matched" => accepted[r] = 1
    BY DEF PickReconcile
  <1>2. /\ pc'[w] = p /\ at'[w] = r
        /\ \A v \in Worker \ {w} : pc'[v] = pc[v] /\ at'[v] = at[v]
        /\ UNCHANGED <<delivery, accepted>>
    BY <1>1 DEF DispatchInv, TypeOK, RunsTyped, PickReconcile, rowVars
  <1>3. p \notin AttemptPC \cup ClaimPC \cup {"sent"}
    BY <1>1 DEF AttemptPC, ClaimPC
  <1> USE <1>1, <1>2, <1>3 DEF DispatchInv, ClaimsSafe
  <1>4. OneClaimAtATime' /\ OneAttemptAtATime'
    BY DEF OneClaimAtATime, OneAttemptAtATime, Attempting
  <1>5. AttemptsAreBegun'
    BY DEF AttemptsAreBegun, Attempting
  <1>6. ClaimsComeFirst' /\ AcceptedOnce'
    BY DEF ClaimsComeFirst, AcceptedOnce, Attempting, Claiming
  <1>7. ConfirmedWasAccepted'
    BY DEF ConfirmedWasAccepted
  <1>8. RecordedAsHappened'
    BY DEF RecordedAsHappened
  <1> QED BY <1>4, <1>5, <1>6, <1>7, <1>8

\* Steps that touch neither a delivery nor what TikTok accepted.
LEMMA ClaimsSafeQuiet ==
  ASSUME DispatchInv, NEW w \in Worker,
         \/ \E r \in Recipient : PickSend(w, r)
         \/ FinishJob(w) \/ DelayJob(w) \/ Throw(w) \/ Exception(w) \/ Crash(w)
         \/ AcknowledgePause(w) \/ NoCreatePermit(w) \/ PauseShop(w)
         \/ YieldToPause(w) \/ ScheduleReconciliation(w)
         \/ CompleteRead(w) \/ CompleteWrite(w)
  PROVE  ClaimsSafe'
  <1> USE QuietMove DEF rowVars
  <1>1. ASSUME NEW r \in Recipient, PickSend(w, r) PROVE ClaimsSafe'
    <2>1. FirstStep(delivery[r], campaign[CampaignOf[r]]) \in QuietPC
      BY DEF FirstStep, QuietPC, PC, AttemptPC, ClaimPC
    <2> QED BY <1>1, <2>1 DEF PickSend, DispatchInv, TypeOK, RunsTyped
  <1>2. CASE FinishJob(w) \/ DelayJob(w) \/ Throw(w) \/ Exception(w) \/ Crash(w)
    <2>1. /\ Idle(w)
          /\ UNCHANGED <<delivery, accepted>>
      BY <1>2 DEF FinishJob, DelayJob, Throw, Exception, Crash, FailRun
    <2>2. "idle" \in QuietPC
      BY DEF QuietPC, PC, AttemptPC, ClaimPC
    <2> QED BY <2>1, <2>2 DEF Idle, DispatchInv, TypeOK, RunsTyped
  <1>3. CASE \/ AcknowledgePause(w) \/ NoCreatePermit(w) \/ PauseShop(w)
             \/ YieldToPause(w) \/ ScheduleReconciliation(w)
             \/ CompleteRead(w) \/ CompleteWrite(w)
    <2>1. PICK p \in {"delay", "done", "complete", "completeOk", "completeErr"} :
             Goto(w, p)
      BY <1>3 DEF AcknowledgePause, NoCreatePermit, PauseShop, YieldToPause,
                  ScheduleReconciliation, CompleteRead, CompleteWrite
    <2>2. UNCHANGED <<delivery, accepted>>
      BY <1>3 DEF AcknowledgePause, NoCreatePermit, PauseShop, YieldToPause,
                  ScheduleReconciliation, CompleteRead, CompleteWrite
    <2>3. p \in QuietPC
      BY <2>1 DEF QuietPC, PC, AttemptPC, ClaimPC
    <2> QED BY <2>1, <2>2, <2>3 DEF Goto
  <1> QED BY <1>1, <1>2, <1>3

\* The provider calls that do not end in an accepted message.
LEMMA ClaimsSafeProvider ==
  ASSUME DispatchInv, NEW w \in Worker,
         CreateConversation(w) \/ SendPermit(w) \/ SendRefused(w)
  PROVE  ClaimsSafe'
  <1>1. PICK p \in AttemptPC \ {"sent"} : Goto(w, p)
    BY DEF CreateConversation, SendPermit, SendRefused, Refused, AttemptPC
  <1>2. pc[w] \in AttemptPC \ {"sent", "unknown"}
    BY DEF CreateConversation, SendPermit, SendRefused, AttemptPC
  <1>3. UNCHANGED <<delivery, accepted>>
    BY DEF CreateConversation, SendPermit, SendRefused, rowVars
  <1> QED BY <1>1, <1>2, <1>3, AttemptMove DEF Goto

\* Recording an outcome agrees with what TikTok accepted.
LEMMA ClaimsSafeOutcome ==
  ASSUME DispatchInv, NEW w \in Worker,
         \/ RecoverDispatching(w) \/ ClaimExclude(w) \/ MakeDeliveryRetryable(w)
         \/ MarkFailed(w) \/ MarkSent(w) \/ MarkDeliveryUnknown(w)
         \/ ReconcileUnmatched(w)
  PROVE  ClaimsSafe'
  <1>0. at[w] \in Recipient /\ accepted[at[w]] \in Nat /\ pc[w] # "idle"
    BY DEF DispatchInv, TypeOK, RunsTyped, EnvTyped, RecoverDispatching,
           ClaimExclude, MakeDeliveryRetryable, MarkFailed, MarkSent,
           MarkDeliveryUnknown, ReconcileUnmatched
  <1>1. /\ {"scheduleOnly", "schedule", "complete", "pauseQuota", "pauseAuth",
            "delay", "throw", "yield", "done"} \subseteq QuietPC
        /\ {"quota", "auth", "throttled", "transient", "withdrawn",
            "restricted", "terminal", "sent", "unknown"} \subseteq AttemptPC
        /\ "exclude" \in ClaimPC
    BY DEF QuietPC, PC, AttemptPC, ClaimPC
  <1>2. /\ {"DELIVERY_UNKNOWN", "DELIVERY_UNKNOWN_UNRESOLVED", "SENT"} \subseteq Begun
        /\ {"DELIVERY_UNKNOWN", "DELIVERY_UNKNOWN_UNRESOLVED", "SENT",
            "FAILED_TERMINAL", "FAILED_RETRYABLE", "RESTRICTED"} \subseteq DeliveryState
    BY DEF Begun, Unknown, DeliveryState
  <1>3. CASE pc[w] \in AttemptPC \ {"sent", "unknown"} \/ pc[w] \in ClaimPC
    <2>1. accepted[at[w]] = 0
      BY <1>0, <1>3 DEF DispatchInv, ClaimsSafe, AcceptedOnce, ClaimsComeFirst,
                        Attempting, Claiming
    <2>2. PICK d \in {"FAILED_TERMINAL", "FAILED_RETRYABLE", "RESTRICTED"},
               p \in QuietPC :
             /\ delivery' = [delivery EXCEPT ![at[w]] = d]
             /\ Goto(w, p)
             /\ UNCHANGED accepted
      <3>1. CASE ClaimExclude(w)
        BY <3>1, <1>1 DEF ClaimExclude
      <3>2. CASE MakeDeliveryRetryable(w)
        <4>1. AfterRetryable(pc[w]) \in QuietPC
          BY <3>2, <1>1 DEF AfterRetryable
        <4> QED BY <3>2, <4>1 DEF MakeDeliveryRetryable
      <3>3. CASE MarkFailed(w)
        BY <3>3, <1>1 DEF MarkFailed
      <3> QED BY <3>1, <3>2, <3>3, <1>3
              DEF RecoverDispatching, MarkSent, MarkDeliveryUnknown,
                  ReconcileUnmatched, AttemptPC, ClaimPC
    <2> QED BY <1>0, <1>2, <1>3, <2>1, <2>2, OutcomeMove DEF Goto
  <1>4. CASE \/ RecoverDispatching(w) \/ MarkDeliveryUnknown(w)
    <2>1. PICK p \in QuietPC :
             /\ Goto(w, p)
             /\ delivery' = [delivery EXCEPT ![at[w]] = "DELIVERY_UNKNOWN"]
             /\ UNCHANGED accepted
      BY <1>4, <1>1 DEF RecoverDispatching, MarkDeliveryUnknown, RecordUnknown
    <2> QED BY <1>0, <1>2, <2>1, OutcomeMove DEF Goto
  <1>5. CASE MarkSent(w)
    <2>1. /\ Goto(w, "complete")
          /\ delivery' = [delivery EXCEPT ![at[w]] = "SENT"]
          /\ UNCHANGED accepted
      BY <1>5 DEF MarkSent
    <2>2. accepted[at[w]] > 0
      BY <1>5 DEF MarkSent, DispatchInv, ClaimsSafe, ConfirmedWasAccepted
    <2> QED BY <1>0, <1>1, <1>2, <2>1, <2>2, OutcomeMove DEF Goto
  <1>6. CASE ReconcileUnmatched(w)
    <2>1. Goto(w, "complete") /\ UNCHANGED accepted
      BY <1>6 DEF ReconcileUnmatched
    <2>2. CASE UNCHANGED delivery
      BY <1>1, <2>1, <2>2, QuietMove DEF Goto
    <2>3. CASE delivery' = [delivery EXCEPT ![at[w]] = "DELIVERY_UNKNOWN_UNRESOLVED"]
      BY <1>0, <1>1, <1>2, <2>1, <2>3, OutcomeMove DEF Goto
    <2> QED BY <1>6, <2>2, <2>3 DEF ReconcileUnmatched
  <1> QED BY <1>3, <1>4, <1>5, <1>6, <1>1
          DEF ClaimExclude, MakeDeliveryRetryable, MarkFailed

\* Steps of the API, the sweepers, the stalled check and the history import.
LEMMA ClaimsSafeRows ==
  ASSUME DispatchInv, Api \/ Sweep \/ Stall \/ \E k \in Creator : RebuildContact(k)
  PROVE  ClaimsSafe'
  <1> USE RowsOnly DEF rowVars, runVars, DispatchInv, TypeOK, RowsTyped
  <1>1. CASE Api
    <2>1. ASSUME NEW c \in Campaign, Freeze(c) \/ FreezeLapses(c) \/ ExpireFrozen(c)
          PROVE ClaimsSafe'
      BY <2>1 DEF Freeze, FreezeLapses, ExpireFrozen
    <2>2. ASSUME NEW o \in Operator, NEW c \in Campaign,
                 QueueRead(o, c) \/ PauseRead(o, c) \/ ResumeRead(o, c) \/ CancelRead(o, c)
          PROVE ClaimsSafe'
      BY <2>2 DEF QueueRead, PauseRead, ResumeRead, CancelRead, Ask
    <2>3. ASSUME NEW o \in Operator, QueueWrite(o) PROVE ClaimsSafe'
      BY <2>3 DEF QueueWrite
    <2>4. ASSUME NEW o \in Operator, PauseWrite(o) \/ ResumeWrite(o) PROVE ClaimsSafe'
      BY <2>4 DEF PauseWrite, ResumeWrite
    <2>5. ASSUME NEW o \in Operator, CancelWrite(o) PROVE ClaimsSafe'
      BY <2>5 DEF CancelWrite, Cancellable
    <2> QED BY <1>1, <2>1, <2>2, <2>3, <2>4, <2>5 DEF Api
  <1>2. CASE Sweep
    BY <1>2 DEF Sweep, SweepSettled, SweepList, SweepEnqueue, Replaceable, SweepFails
  <1>3. CASE Stall
    BY <1>3 DEF Stall, StallSend, LoseLock, StallReconcile, Stalled
  <1>4. ASSUME NEW k \in Creator, RebuildContact(k) PROVE ClaimsSafe'
    BY <1>4 DEF RebuildContact
  <1> QED BY <1>1, <1>2, <1>3, <1>4

\* Every step keeps the invariant.
LEMMA DispatchStep == DispatchInv /\ [Next]_vars => DispatchInv'
  <1> SUFFICES ASSUME DispatchInv, [Next]_vars PROVE ClaimsSafe'
    BY TypeStep DEF DispatchInv
  <1>1. CASE UNCHANGED vars
    BY <1>1, RowsOnly DEF vars, rowVars, runVars
  <1>2. CASE Api \/ Sweep \/ Stall \/ \E k \in Creator : RebuildContact(k)
    BY <1>2, ClaimsSafeRows
  <1>3. ASSUME NEW w \in Worker, Pick(w) \/ Exception(w) \/ Crash(w)
        PROVE ClaimsSafe'
    BY <1>3, ClaimsSafeQuiet, ClaimsSafePickReconcile DEF Pick
  <1>4. ASSUME NEW w \in Worker, Step(w) PROVE ClaimsSafe'
    BY <1>4, ClaimsSafeQuiet, ClaimsSafeClaimRead, ClaimsSafeClaimWrite,
       ClaimsSafeProvider, ClaimsSafeSendAccepted, ClaimsSafeOutcome DEF Step
  <1> QED BY <1>1, <1>2, <1>3, <1>4 DEF Next

\* The invariant holds in every reachable state.
LEMMA DispatchInvariant == Spec => []DispatchInv
  <1>1. Init => DispatchInv
    BY TypeInit, ClaimsInit DEF DispatchInv
  <1> QED BY <1>1, DispatchStep, PTL DEF Spec

\* TikTok accepts at most one message for a delivery, in every instance and
\* whatever crashes, stalls, lost locks, pauses and cancellations interleave.
THEOREM NeverSentTwice == Spec => []AtMostOneMessage
  <1>1. DispatchInv => AtMostOneMessage
    BY DEF DispatchInv, ClaimsSafe, AcceptedOnce, AtMostOneMessage, TypeOK,
           EnvTyped
  <1> QED BY <1>1, DispatchInvariant, PTL

\* A delivery recorded SENT was accepted, and an accepted message is never on
\* record as refused, cancelled or open to another claim.
THEOREM RecordsAreTrue == Spec => []RecordedAsHappened
  <1>1. DispatchInv => RecordedAsHappened
    BY DEF DispatchInv, ClaimsSafe
  <1> QED BY <1>1, DispatchInvariant, PTL

-----------------------------------------------------------------------------
(* Without cancellation: the two rows of a recipient *)

\* The API offers no cancel ...
NoCancel == "cancel" \notin Commands
NoCancelAsked == \A o \in Operator : op[o].kind # "cancel"

\* ... so that none is ever pending.
LEMMA NeverCancelled ==
  ASSUME NoCancel, NoCancelAsked, TypeOK, [Next]_vars
  PROVE  NoCancelAsked'
  <1> USE DEF NoCancel, NoCancelAsked, TypeOK, EnvTyped
  <1>1. CASE UNCHANGED <<op>>
    BY <1>1
  <1>2. ASSUME NEW o \in Operator, Answered(o) PROVE NoCancelAsked'
    BY <1>2 DEF Answered, NoRequest
  <1>3. ASSUME NEW o \in Operator, NEW c \in Campaign,
               NEW kind \in {"queue", "pause", "resume", "quotaResume"},
               NEW ids, Ask(o, kind, c, ids)
        PROVE  NoCancelAsked'
    BY <1>3 DEF Ask
  <1>4. CASE Api
    <2>1. ASSUME NEW c \in Campaign, Freeze(c) \/ FreezeLapses(c) \/ ExpireFrozen(c)
          PROVE  UNCHANGED <<op>>
      BY <2>1 DEF Freeze, FreezeLapses, ExpireFrozen, envVars
    <2>2. ASSUME NEW o \in Operator,
                 QueueWrite(o) \/ PauseWrite(o) \/ ResumeWrite(o) \/ CancelWrite(o)
          PROVE  Answered(o)
      BY <2>2 DEF QueueWrite, PauseWrite, ResumeWrite, CancelWrite
    <2>3. ASSUME NEW o \in Operator, NEW c \in Campaign,
                 QueueRead(o, c) \/ PauseRead(o, c) \/ ResumeRead(o, c)
          PROVE  NoCancelAsked'
      BY <2>3, <1>3 DEF QueueRead, PauseRead, ResumeRead
    <2>4. ASSUME NEW o \in Operator, NEW c \in Campaign, CancelRead(o, c)
          PROVE  FALSE
      BY <2>4 DEF CancelRead
    <2> QED BY <1>1, <1>2, <1>4, <2>1, <2>2, <2>3, <2>4 DEF Api
  <1>5. CASE Sweep \/ Stall \/ \E k \in Creator : RebuildContact(k)
    BY <1>1, <1>5 DEF Sweep, SweepSettled, SweepList, SweepEnqueue, SweepFails, Stall,
       StallSend, LoseLock, StallReconcile, Stalled, RebuildContact, envVars
  <1>6. ASSUME NEW w \in Worker, Pick(w) \/ Step(w) \/ Exception(w) \/ Crash(w)
        PROVE  UNCHANGED <<op>>
    BY <1>6 DEF Pick, PickSend, PickReconcile, Step, Exception, Crash, FailRun,
       RecoverDispatching, AcknowledgePause, NoCreatePermit, ClaimRead,
       ClaimWrite, ClaimExclude, CreateConversation, SendPermit, SendAccepted,
       SendRefused, MakeDeliveryRetryable, PauseShop, YieldToPause, MarkFailed,
       MarkSent, MarkDeliveryUnknown, ScheduleReconciliation,
       ReconcileUnmatched, CompleteRead, CompleteWrite, FinishJob, DelayJob,
       Throw, Stay, envVars
  <1>7. CASE UNCHANGED vars
    BY <1>1, <1>7 DEF vars, envVars
  <1> QED BY <1>1, <1>4, <1>5, <1>6, <1>7 DEF Next

\* Steps that write no delivery: everything a run does before it claims and
\* after it recorded an outcome, the sweepers, the queue, history, pause, resume.
DeliveryKept == UNCHANGED <<rcpt, delivery, resv>>
LEMMA KeepsDeliveries ==
  ASSUME NEW w \in Worker,
         \/ AcknowledgePause(w) \/ NoCreatePermit(w) \/ ClaimRead(w)
         \/ CreateConversation(w) \/ SendPermit(w) \/ SendAccepted(w)
         \/ SendRefused(w) \/ PauseShop(w) \/ YieldToPause(w)
         \/ ScheduleReconciliation(w) \/ CompleteRead(w) \/ CompleteWrite(w)
         \/ FinishJob(w) \/ DelayJob(w) \/ Throw(w) \/ Exception(w) \/ Crash(w)
         \/ Pick(w)
  PROVE  DeliveryKept
  BY DEF DeliveryKept, AcknowledgePause, NoCreatePermit, ClaimRead, CreateConversation, SendPermit,
     SendAccepted, SendRefused, PauseShop, YieldToPause, ScheduleReconciliation,
     CompleteRead, CompleteWrite, FinishJob, DelayJob, Throw, Exception, Crash,
     FailRun, Pick, PickSend, PickReconcile, rowVars

\* Writing both rows of one recipient together, so that they agree.
LEMMA PairedWrite ==
  ASSUME TypeOK, RowsAgree, NEW r \in Recipient,
         NEW d \in DeliveryState, NEW s \in RecipientState,
         delivery' = [delivery EXCEPT ![r] = d], rcpt' = [rcpt EXCEPT ![r] = s],
         \/ <<d, s>> = <<"DISPATCHING", "PROCESSING">>
         \/ <<d, s>> = <<"FAILED_RETRYABLE", "QUEUED">>
         \/ d = "FAILED_TERMINAL" /\ s \in {"FAILED", "CANCELLED"}
         \/ d = s /\ d \in Unknown \cup {"SENT", "RESTRICTED"}
  PROVE  RowsAgree'
  <1>1. /\ delivery'[r] = d /\ rcpt'[r] = s
        /\ \A q \in Recipient \ {r} : delivery'[q] = delivery[q] /\ rcpt'[q] = rcpt[q]
    BY DEF TypeOK, RowsTyped
  <1> QED BY <1>1 DEF RowsAgree, Claimable, Unknown

\* Every step that writes one of the two rows writes the other to match.
LEMMA RowsStep ==
  ASSUME NoCancelAsked, TypeOK, RowsAgree, [Next]_vars
  PROVE  RowsAgree'
  <1>0. /\ {"SENT", "RESTRICTED", "FAILED_TERMINAL", "FAILED_RETRYABLE",
            "DISPATCHING"} \cup Unknown \subseteq DeliveryState
        /\ {"SENT", "RESTRICTED", "FAILED", "CANCELLED", "QUEUED",
            "PROCESSING"} \cup Unknown \subseteq RecipientState
    BY DEF DeliveryState, RecipientState, Unknown
  <1>1. CASE UNCHANGED <<rcpt, delivery>>
    BY <1>1 DEF RowsAgree
  <1>2. CASE Api
    <2>1. ASSUME NEW c \in Campaign, Freeze(c) PROVE RowsAgree'
      BY <2>1 DEF Freeze, RowsAgree, Claimable, Unknown
    <2>2. ASSUME NEW c \in Campaign, FreezeLapses(c) PROVE RowsAgree'
      BY <1>1, <2>2 DEF FreezeLapses
    <2>3. ASSUME NEW c \in Campaign, ExpireFrozen(c) PROVE RowsAgree'
      BY <2>3 DEF ExpireFrozen, RowsAgree, Claimable, Unknown
    <2>4. ASSUME NEW o \in Operator, NEW c \in Campaign,
                 QueueRead(o, c) \/ PauseRead(o, c) \/ ResumeRead(o, c) \/ CancelRead(o, c)
          PROVE  RowsAgree'
      BY <1>1, <2>4 DEF QueueRead, PauseRead, ResumeRead, CancelRead, Ask, rowVars
    <2>5. ASSUME NEW o \in Operator, QueueWrite(o) PROVE RowsAgree'
      <3> DEFINE frozen == {r \in Of(op[o].campaign) : rcpt[r] = "RESERVED"}
      <3>1. CASE UNCHANGED <<delivery, rcpt>>
        BY <1>1, <3>1
      <3>2. CASE /\ delivery' = [r \in Recipient |->
                       IF r \in frozen /\ delivery[r] = "NONE" THEN "PENDING" ELSE delivery[r]]
                 /\ rcpt' = [r \in Recipient |-> IF r \in frozen THEN "QUEUED" ELSE rcpt[r]]
        <4>1. \A r \in Recipient : r \in frozen => delivery[r] = "NONE"
          BY DEF TypeOK, RowsTyped, RowsAgree, DeliveryState, Claimable, Unknown
        <4> QED BY <3>2, <4>1 DEF RowsAgree, Claimable, Unknown
      <3> QED BY <2>5, <3>1, <3>2 DEF QueueWrite
    <2>6. ASSUME NEW o \in Operator, PauseWrite(o) \/ ResumeWrite(o) PROVE RowsAgree'
      BY <1>1, <2>6 DEF PauseWrite, ResumeWrite, rowVars
    <2>7. ASSUME NEW o \in Operator, CancelWrite(o) PROVE FALSE
      BY <2>7 DEF CancelWrite, NoCancelAsked
    <2> QED BY <1>2, <2>1, <2>2, <2>3, <2>4, <2>5, <2>6, <2>7 DEF Api
  <1>3. CASE Sweep \/ Stall \/ \E k \in Creator : RebuildContact(k)
    BY <1>1, <1>3 DEF Sweep, SweepSettled, SweepList, SweepEnqueue, SweepFails,
       Stall, StallSend, LoseLock, StallReconcile, Stalled, RebuildContact, rowVars
  <1>4. ASSUME NEW w \in Worker, ClaimWrite(w) \/ ClaimExclude(w) \/ MakeDeliveryRetryable(w)
               \/ MarkFailed(w) \/ MarkSent(w) \/ MarkDeliveryUnknown(w)
               \/ RecoverDispatching(w) \/ ReconcileUnmatched(w)
        PROVE  RowsAgree'
    <2>0. at[w] \in Recipient
      BY <1>4 DEF TypeOK, RunsTyped, ClaimWrite, ClaimExclude, MakeDeliveryRetryable,
         MarkFailed, MarkSent, MarkDeliveryUnknown, RecoverDispatching, ReconcileUnmatched
    <2>1. CASE ClaimWrite(w)
      BY <1>0, <2>0, <2>1, PairedWrite DEF ClaimWrite
    <2>2. CASE ClaimExclude(w)
      BY <1>0, <2>0, <2>2, PairedWrite DEF ClaimExclude
    <2>3. CASE MakeDeliveryRetryable(w)
      BY <1>0, <2>0, <2>3, PairedWrite DEF MakeDeliveryRetryable
    <2>4. CASE MarkFailed(w)
      BY <1>0, <2>0, <2>4, PairedWrite DEF MarkFailed, RecipientFailure
    <2>5. CASE MarkSent(w)
      BY <1>0, <2>0, <2>5, PairedWrite DEF MarkSent
    <2>6. CASE MarkDeliveryUnknown(w) \/ RecoverDispatching(w)
      BY <1>0, <2>0, <2>6, PairedWrite
         DEF MarkDeliveryUnknown, RecoverDispatching, RecordUnknown, Unknown
    <2>7. CASE ReconcileUnmatched(w)
      BY <1>0, <1>1, <2>0, <2>7, PairedWrite DEF ReconcileUnmatched, Unknown
    <2> QED BY <1>4, <2>1, <2>2, <2>3, <2>4, <2>5, <2>6, <2>7
  <1>5. ASSUME NEW w \in Worker, Pick(w) \/ Step(w) \/ Exception(w) \/ Crash(w)
        PROVE  RowsAgree'
    BY <1>1, <1>4, <1>5, KeepsDeliveries DEF Step, DeliveryKept
  <1>6. CASE UNCHANGED vars
    BY <1>1, <1>6 DEF vars, rowVars
  <1> QED BY <1>2, <1>3, <1>5, <1>6 DEF Next

\* The rows of a recipient and of its delivery agree in every instance in
\* which no cancellation is asked for, whatever crashes and locks are lost.
THEOREM RowsStayPaired == NoCancel => (Spec => []RowsAgree)
  <1> SUFFICES ASSUME NoCancel PROVE Spec => []RowsAgree
    OBVIOUS
  <1>1. Init => TypeOK /\ NoCancelAsked /\ RowsAgree
    <2>1. Init => NoCancelAsked
      BY DEF Init, NoCancelAsked, NoRequest
    <2>2. Init => RowsAgree
      BY DEF Init, RowsAgree, Claimable, Unknown
    <2> QED BY <2>1, <2>2, TypeInit
  <1>2. TypeOK /\ NoCancelAsked /\ RowsAgree /\ [Next]_vars
          => (TypeOK /\ NoCancelAsked /\ RowsAgree)'
    BY NeverCancelled, RowsStep, TypeStep
  <1> QED BY <1>1, <1>2, PTL DEF Spec

-----------------------------------------------------------------------------
(* Without lost locks either: what a run knows of its job and delivery *)

\* Steps of a reconciliation job.
ReconcilePC == {"matched", "unmatched", "complete", "completeOk", "completeErr",
                "done"}

\* A run knows which of its recipient's jobs it is running ...
TasksFit ==
    \A w \in Worker :
        /\ pc[w] = "idle" => task[w] = 0
        /\ pc[w] \in {"matched", "unmatched"} => task[w] # 0
        /\ task[w] # 0 => pc[w] \in ReconcilePC

\* ... holds the lock of its send job ...
LocksHeld ==
    \A w \in Worker : pc[w] # "idle" /\ task[w] = 0 =>
        job[at[w]] = "active" /\ holder[at[w]] = w

\* ... and its delivery is still in the state that brought it to its step.
DeliveriesFit ==
    \A w \in Worker :
        /\ pc[w] \in AttemptPC \cup {"recover"} => delivery[at[w]] = "DISPATCHING"
        /\ pc[w] \in ClaimPC => delivery[at[w]] \in Claimable
        /\ pc[w] \in {"matched", "unmatched"} => delivery[at[w]] \in Unknown \cup {"SENT"}
        /\ pc[w] \notin {"idle", "done"} => delivery[at[w]] # "NONE"

RunsInv == TasksFit /\ LocksHeld /\ DeliveriesFit

\* Steps of the API, the sweepers and the queue that move no run: a delivery
\* may be created, and a job changes only while nobody runs it.
LEMMA RunsUnmoved ==
  ASSUME TypeOK, RunsInv, UNCHANGED runVars,
         \A r \in Recipient : \/ delivery'[r] = delivery[r]
                              \/ delivery[r] = "NONE" /\ delivery'[r] = "PENDING",
         \A r \in Recipient : \/ job'[r] = job[r] /\ holder'[r] = holder[r]
                              \/ job[r] # "active" \/ ~Runs(holder[r], r, 0)
  PROVE  RunsInv'
  <1> USE DEF RunsInv, runVars
  <1>1. TasksFit'
    BY DEF TasksFit
  <1>2. LocksHeld'
    BY DEF LocksHeld, Runs, TypeOK, RunsTyped
  <1>3. DeliveriesFit'
    BY DEF DeliveriesFit, TypeOK, RunsTyped, Claimable, Unknown, AttemptPC, ClaimPC
  <1> QED BY <1>1, <1>2, <1>3

\* A run goes on without writing its delivery.
LEMMA RunMoves ==
  ASSUME TypeOK, RunsInv, NEW w \in Worker, NEW p \in PC,
         pc[w] \notin {"idle", "done"}, p \notin {"idle", "matched", "unmatched"},
         Goto(w, p), UNCHANGED <<delivery, job, holder>>,
         p \in AttemptPC \cup {"recover"} => pc[w] \in AttemptPC,
         p \in ClaimPC => delivery[at[w]] \in Claimable,
         pc[w] \in ReconcilePC => p \in ReconcilePC
  PROVE  RunsInv'
  <1> USE DEF RunsInv
  <1>1. pc'[w] = p /\ \A v \in Worker \ {w} : pc'[v] = pc[v]
    BY DEF TypeOK, RunsTyped, Goto
  <1>2. UNCHANGED <<at, task>>
    BY DEF Goto
  <1>3. TasksFit'
    BY <1>1, <1>2 DEF TasksFit
  <1>4. LocksHeld'
    BY <1>1, <1>2 DEF LocksHeld
  <1>5. DeliveriesFit'
    BY <1>1, <1>2 DEF DeliveriesFit
  <1> QED BY <1>3, <1>4, <1>5

\* A run writes its delivery: no other run relies on what it was.
LEMMA RunWrites ==
  ASSUME TypeOK, RunsInv, NEW w \in Worker, NEW p \in PC \ ClaimPC,
         NEW d \in DeliveryState \ {"NONE"},
         delivery' = [delivery EXCEPT ![at[w]] = d],
         Goto(w, p), UNCHANGED <<job, holder>>,
         p \notin {"idle", "recover", "matched", "unmatched"},
         p \in AttemptPC => d = "DISPATCHING",
         \/ pc[w] \in AttemptPC \cup ClaimPC \cup {"recover"}
         \/ pc[w] \in {"matched", "unmatched"} /\ d \in Unknown \cup {"SENT"}
              /\ p \in ReconcilePC
  PROVE  RunsInv'
  <1> USE DEF RunsInv
  <1>1. pc'[w] = p /\ \A v \in Worker \ {w} : pc'[v] = pc[v]
    BY DEF TypeOK, RunsTyped, Goto
  <1>2. UNCHANGED <<at, task>>
    BY DEF Goto
  <1>3. pc[w] # "idle" /\ at[w] \in Recipient
    BY DEF TypeOK, RunsTyped, AttemptPC, ClaimPC
  <1>4. delivery'[at[w]] = d /\ \A q \in Recipient \ {at[w]} : delivery'[q] = delivery[q]
    BY <1>3 DEF TypeOK, RowsTyped
  <1>5. TasksFit'
    BY <1>1, <1>2 DEF TasksFit, AttemptPC, ClaimPC, ReconcilePC
  <1>6. LocksHeld'
    BY <1>1, <1>2, <1>3 DEF LocksHeld
  <1>7. DeliveriesFit'
    <2> SUFFICES ASSUME NEW v \in Worker, at[v] = at[w], v # w, pc[v] # "idle"
                 PROVE  /\ pc[v] \in AttemptPC \cup {"recover"} => d = "DISPATCHING"
                        /\ pc[v] \in ClaimPC => d \in Claimable
                        /\ pc[v] \in {"matched", "unmatched"} => d \in Unknown \cup {"SENT"}
      BY <1>1, <1>2, <1>3, <1>4 DEF DeliveriesFit, TypeOK, RunsTyped, AttemptPC, ClaimPC
    <2>1. CASE pc[w] \in AttemptPC \cup ClaimPC \cup {"recover"}
      <3>1. task[w] = 0 /\ task[v] # 0
        BY <1>3, <2>1 DEF TasksFit, LocksHeld, AttemptPC, ClaimPC, ReconcilePC
      <3>2. delivery[at[w]] \notin Unknown \cup {"SENT"}
        BY <2>1 DEF DeliveriesFit, Claimable, Unknown
      <3> QED BY <3>1, <3>2 DEF TasksFit, DeliveriesFit, AttemptPC, ClaimPC, ReconcilePC
    <2>2. CASE pc[w] \in {"matched", "unmatched"} /\ d \in Unknown \cup {"SENT"}
      BY <2>2 DEF DeliveriesFit, Claimable, Unknown
    <2> QED BY <2>1, <2>2
  <1> QED BY <1>5, <1>6, <1>7

\* A run ends, and only a send job it owns moves.
LEMMA RunEnds ==
  ASSUME TypeOK, RunsInv, NEW w \in Worker, Idle(w), UNCHANGED delivery,
         \A r \in Recipient : \/ job'[r] = job[r] /\ holder'[r] = holder[r]
                              \/ holder[r] = w /\ Runs(w, r, 0)
  PROVE  RunsInv'
  <1> USE DEF RunsInv
  <1>1. /\ pc'[w] = "idle" /\ task'[w] = 0
        /\ \A v \in Worker \ {w} : pc'[v] = pc[v] /\ at'[v] = at[v] /\ task'[v] = task[v]
    BY DEF TypeOK, RunsTyped, Idle
  <1>2. TasksFit'
    BY <1>1 DEF TasksFit
  <1>3. LocksHeld'
    BY <1>1 DEF LocksHeld, Runs, TypeOK, RunsTyped
  <1>4. DeliveriesFit'
    BY <1>1 DEF DeliveriesFit, AttemptPC, ClaimPC
  <1> QED BY <1>2, <1>3, <1>4

\* A run takes up a send job that nobody runs.
LEMMA RunsPickSend ==
  ASSUME TypeOK, RunsInv, NEW w \in Worker, NEW r \in Recipient, PickSend(w, r)
  PROVE  RunsInv'
  <1> DEFINE p == FirstStep(delivery[r], campaign[CampaignOf[r]])
  <1> USE DEF RunsInv
  <1>1. /\ pc'[w] = p /\ at'[w] = r
        /\ \A v \in Worker \ {w} : pc'[v] = pc[v] /\ at'[v] = at[v]
        /\ UNCHANGED <<task, delivery>>
        /\ job'[r] = "active" /\ holder'[r] = w
        /\ \A q \in Recipient \ {r} : job'[q] = job[q] /\ holder'[q] = holder[q]
    BY DEF TypeOK, RunsTyped, JobsTyped, PickSend, rowVars
  <1>2. /\ p \in {"done", "recover", "pauseSeen", "delay", "acquire"}
        /\ p = "recover" => delivery[r] = "DISPATCHING"
        /\ p # "done" => delivery[r] # "NONE"
    BY DEF FirstStep
  <1>3. p \notin AttemptPC \cup ClaimPC \cup {"matched", "unmatched", "idle"}
    BY <1>2 DEF AttemptPC, ClaimPC
  <1>4. pc[w] = "idle" /\ job[r] # "active"
    BY DEF PickSend
  <1> HIDE DEF p
  <1>5. TasksFit'
    BY <1>1, <1>3, <1>4 DEF TasksFit
  <1>6. LocksHeld'
    BY <1>1, <1>4 DEF LocksHeld, TypeOK, RunsTyped
  <1>7. DeliveriesFit'
    BY <1>1, <1>2, <1>3 DEF DeliveriesFit
  <1> QED BY <1>5, <1>6, <1>7

\* A run takes up a reconciliation.
LEMMA RunsPickReconcile ==
  ASSUME TypeOK, RunsInv, NEW w \in Worker, NEW r \in Recipient,
         NEW n \in 1..ReconcileAttempts, PickReconcile(w, r, n)
  PROVE  RunsInv'
  <1> USE DEF RunsInv
  <1>1. PICK p \in {"matched", "unmatched", "done"} :
           /\ pc' = [pc EXCEPT ![w] = p]
           /\ p = "done" <=> ~Judgeable(r)
    BY DEF PickReconcile
  <1>2. /\ pc'[w] = p /\ at'[w] = r /\ task'[w] = n /\ n # 0
        /\ \A v \in Worker \ {w} : pc'[v] = pc[v] /\ at'[v] = at[v] /\ task'[v] = task[v]
        /\ UNCHANGED <<delivery, job, holder>>
    BY <1>1 DEF TypeOK, RunsTyped, PickReconcile, rowVars
  <1>3. p # "done" => delivery[r] = "DELIVERY_UNKNOWN"
    BY <1>1 DEF Judgeable
  <1>4. p \notin AttemptPC \cup ClaimPC \cup {"idle", "recover"}
    BY <1>1 DEF AttemptPC, ClaimPC
  <1>5. TasksFit'
    BY <1>1, <1>2, <1>4 DEF TasksFit, ReconcilePC
  <1>6. LocksHeld'
    BY <1>2 DEF LocksHeld
  <1>7. DeliveriesFit'
    BY <1>1, <1>2, <1>3, <1>4 DEF DeliveriesFit, Unknown
  <1> QED BY <1>5, <1>6, <1>7

\* The API, the sweepers, the stalled check and the history import.
LEMMA RunsStepRows ==
  ASSUME NoCancelAsked, ~LockLoss, TypeOK, RunsInv,
         Api \/ Sweep \/ Stall \/ \E k \in Creator : RebuildContact(k)
  PROVE  RunsInv'
  <1> USE RunsUnmoved DEF rowVars, jobVars
  <1>1. CASE Api
    <2>1. ASSUME NEW c \in Campaign, Freeze(c) \/ FreezeLapses(c) \/ ExpireFrozen(c)
          PROVE  RunsInv'
      BY <2>1 DEF Freeze, FreezeLapses, ExpireFrozen
    <2>2. ASSUME NEW o \in Operator, NEW c \in Campaign,
                 QueueRead(o, c) \/ PauseRead(o, c) \/ ResumeRead(o, c) \/ CancelRead(o, c)
          PROVE  RunsInv'
      BY <2>2 DEF QueueRead, PauseRead, ResumeRead, CancelRead, Ask
    <2>3. ASSUME NEW o \in Operator, QueueWrite(o) PROVE RunsInv'
      BY <2>3 DEF QueueWrite, TypeOK, RowsTyped
    <2>4. ASSUME NEW o \in Operator, PauseWrite(o) \/ ResumeWrite(o) PROVE RunsInv'
      BY <2>4 DEF PauseWrite, ResumeWrite
    <2>5. ASSUME NEW o \in Operator, CancelWrite(o) PROVE FALSE
      BY <2>5 DEF CancelWrite, NoCancelAsked
    <2> QED BY <1>1, <2>1, <2>2, <2>3, <2>4, <2>5 DEF Api
  <1>2. CASE Sweep
    <2>1. ASSUME NEW r \in Recipient, SweepEnqueue(r) PROVE RunsInv'
      BY <2>1 DEF SweepEnqueue, Replaceable, TypeOK, JobsTyped
    <2>2. ASSUME NEW r \in Recipient, SweepSettled(r) \/ SweepList(r) \/ SweepFails(r)
          PROVE  RunsInv'
      BY <2>2 DEF SweepSettled, SweepList, SweepFails
    <2> QED BY <1>2, <2>1, <2>2 DEF Sweep
  <1>3. CASE Stall
    <2>1. ASSUME NEW r \in Recipient, StallSend(r) PROVE RunsInv'
      BY <2>1 DEF StallSend, Stalled, TypeOK, JobsTyped
    <2>2. ASSUME NEW r \in Recipient, LoseLock(r) PROVE FALSE
      BY <2>2 DEF LoseLock
    <2>3. ASSUME NEW r \in Recipient, NEW n \in 1..ReconcileAttempts, StallReconcile(r, n)
          PROVE  RunsInv'
      BY <2>3 DEF StallReconcile
    <2> QED BY <1>3, <2>1, <2>2, <2>3 DEF Stall
  <1>4. ASSUME NEW k \in Creator, RebuildContact(k) PROVE RunsInv'
    BY <1>4 DEF RebuildContact
  <1> QED BY <1>1, <1>2, <1>3, <1>4

\* A run's steps that leave its delivery alone.
LEMMA RunsStepMoves ==
  ASSUME TypeOK, RunsInv, NEW w \in Worker,
         \/ AcknowledgePause(w) \/ NoCreatePermit(w) \/ ClaimRead(w)
         \/ CreateConversation(w) \/ SendPermit(w) \/ SendAccepted(w)
         \/ SendRefused(w) \/ PauseShop(w) \/ YieldToPause(w)
         \/ ScheduleReconciliation(w) \/ CompleteRead(w) \/ CompleteWrite(w)
  PROVE  RunsInv'
  <1>0. /\ pc[w] \notin {"idle", "done"}
        /\ UNCHANGED <<delivery, job, holder>>
    BY DEF AcknowledgePause, NoCreatePermit, ClaimRead, CreateConversation,
       SendPermit, SendAccepted, SendRefused, PauseShop, YieldToPause,
       ScheduleReconciliation, CompleteRead, CompleteWrite, Stay, jobVars, rowVars
  <1>1. CASE AcknowledgePause(w) \/ NoCreatePermit(w) \/ PauseShop(w)
             \/ YieldToPause(w) \/ ScheduleReconciliation(w)
             \/ CompleteRead(w) \/ CompleteWrite(w)
    <2>1. PICK p \in {"delay", "done", "complete", "completeOk", "completeErr"} :
             Goto(w, p) /\ (pc[w] \in ReconcilePC => p \in ReconcilePC)
      BY <1>1 DEF AcknowledgePause, NoCreatePermit, PauseShop, YieldToPause,
         ScheduleReconciliation, CompleteRead, CompleteWrite, ReconcilePC
    <2> QED BY <1>0, <2>1, RunMoves DEF PC, AttemptPC, ClaimPC
  <1>2. CASE ClaimRead(w)
    <2>1. PICK p \in {"done", "exclude", "claimWrite"} :
             /\ Goto(w, p)
             /\ p # "done" => delivery[at[w]] \in Claimable
      BY <1>2 DEF ClaimRead
    <2>2. pc[w] \notin ReconcilePC
      BY <1>2 DEF ClaimRead, ReconcilePC
    <2> QED BY <1>0, <2>1, <2>2, RunMoves DEF PC, AttemptPC, ClaimPC
  <1>3. CASE CreateConversation(w) \/ SendPermit(w) \/ SendAccepted(w) \/ SendRefused(w)
    <2>1. PICK p \in AttemptPC : Goto(w, p)
      BY <1>3 DEF CreateConversation, SendPermit, SendAccepted, SendRefused,
         Refused, AttemptPC
    <2>2. pc[w] \in AttemptPC
      BY <1>3 DEF CreateConversation, SendPermit, SendAccepted, SendRefused, AttemptPC
    <2> QED BY <1>0, <2>1, <2>2, RunMoves DEF PC, AttemptPC, ClaimPC, ReconcilePC
  <1> QED BY <1>1, <1>2, <1>3

\* A run's steps that write its delivery.
LEMMA RunsStepWrites ==
  ASSUME TypeOK, RunsInv, NEW w \in Worker,
         \/ ClaimWrite(w) \/ ClaimExclude(w) \/ MakeDeliveryRetryable(w)
         \/ MarkFailed(w) \/ MarkSent(w) \/ MarkDeliveryUnknown(w)
         \/ RecoverDispatching(w) \/ ReconcileUnmatched(w)
  PROVE  RunsInv'
  <1>0. UNCHANGED <<job, holder>>
    BY DEF ClaimWrite, ClaimExclude, MakeDeliveryRetryable, MarkFailed, MarkSent,
       MarkDeliveryUnknown, RecoverDispatching, ReconcileUnmatched, Stay, jobVars
  <1>1. CASE UNCHANGED delivery /\ ReconcileUnmatched(w)
    BY <1>0, <1>1, RunMoves DEF ReconcileUnmatched, PC, AttemptPC, ClaimPC, ReconcilePC
  <1>2. CASE ~(UNCHANGED delivery /\ ReconcileUnmatched(w))
    <2>1. PICK p \in {"create", "complete", "schedule", "scheduleOnly", "pauseQuota",
                      "pauseAuth", "delay", "throw", "yield", "done"},
               d \in DeliveryState \ {"NONE"} :
             /\ Goto(w, p) /\ delivery' = [delivery EXCEPT ![at[w]] = d]
             /\ p = "create" => d = "DISPATCHING"
             /\ \/ pc[w] \in AttemptPC \cup ClaimPC \cup {"recover"}
                \/ /\ pc[w] \in {"matched", "unmatched"}
                   /\ d \in Unknown \cup {"SENT"} /\ p = "complete"
      <3>1. CASE ClaimWrite(w)
        BY <3>1 DEF ClaimWrite, DeliveryState, ClaimPC
      <3>2. CASE ClaimExclude(w)
        BY <3>2 DEF ClaimExclude, DeliveryState, ClaimPC
      <3>3. CASE MakeDeliveryRetryable(w)
        <4>1. AfterRetryable(pc[w]) \in {"pauseQuota", "pauseAuth", "delay", "throw",
                                         "yield", "done"}
          BY <3>3 DEF AfterRetryable
        <4> QED BY <3>3, <4>1 DEF MakeDeliveryRetryable, DeliveryState, AttemptPC
      <3>4. CASE MarkFailed(w)
        <4>1. /\ pc[w] \in {"restricted", "terminal"}
              /\ \E d \in {"RESTRICTED", "FAILED_TERMINAL"} :
                    delivery' = [delivery EXCEPT ![at[w]] = d]
              /\ Goto(w, "complete")
          BY <3>4 DEF MarkFailed
        <4> QED BY <4>1 DEF DeliveryState, AttemptPC
      <3>5. CASE MarkSent(w)
        BY <3>5 DEF MarkSent, DeliveryState, AttemptPC
      <3>6. CASE MarkDeliveryUnknown(w) \/ RecoverDispatching(w)
        BY <3>6 DEF MarkDeliveryUnknown, RecoverDispatching, RecordUnknown,
           DeliveryState, AttemptPC
      <3>7. CASE ReconcileUnmatched(w)
        BY <1>2, <3>7 DEF ReconcileUnmatched, DeliveryState, Unknown
      <3> QED BY <3>1, <3>2, <3>3, <3>4, <3>5, <3>6, <3>7
    <2> QED BY <1>0, <2>1, RunWrites DEF PC, AttemptPC, ClaimPC, ReconcilePC
  <1> QED BY <1>1, <1>2

\* A run that ends.
LEMMA RunsStepEnds ==
  ASSUME TypeOK, RunsInv, NEW w \in Worker,
         FinishJob(w) \/ DelayJob(w) \/ Throw(w) \/ Exception(w) \/ Crash(w)
  PROVE  RunsInv'
  <1>0. Idle(w) /\ UNCHANGED delivery
    BY DEF FinishJob, DelayJob, Throw, Exception, Crash, FailRun, rowVars
  <1>1. pc[w] # "idle" /\ at[w] \in Recipient
    BY DEF FinishJob, DelayJob, Throw, Exception, Crash, TypeOK, RunsTyped
  <1>2. \/ UNCHANGED <<job, holder>>
        \/ /\ task[w] = 0 /\ holder[at[w]] = w
           /\ \A q \in Recipient \ {at[w]} : job'[q] = job[q] /\ holder'[q] = holder[q]
    <2>1. CASE FinishJob(w)
      BY <2>1, <1>1 DEF FinishJob, TypeOK, JobsTyped
    <2>2. CASE DelayJob(w)
      <3>1. task[w] = 0
        BY <2>2 DEF DelayJob, RunsInv, TasksFit, ReconcilePC
      <3> QED BY <2>2, <3>1, <1>1 DEF DelayJob, TypeOK, JobsTyped
    <2>3. CASE Throw(w) \/ Exception(w)
      BY <2>3, <1>1 DEF Throw, Exception, FailRun, TypeOK, JobsTyped
    <2>4. CASE Crash(w)
      BY <2>4 DEF Crash, jobVars
    <2> QED BY <2>1, <2>2, <2>3, <2>4
  <1> QED BY <1>0, <1>1, <1>2, RunEnds DEF Runs

\* Every step keeps what the runs know.
LEMMA RunsStep ==
  ASSUME NoCancelAsked, ~LockLoss, TypeOK, RunsInv, [Next]_vars
  PROVE  RunsInv'
  <1>1. CASE UNCHANGED vars
    BY <1>1, RunsUnmoved DEF vars, rowVars, runVars, jobVars
  <1>2. ASSUME NEW w \in Worker, Pick(w) \/ Step(w) \/ Exception(w) \/ Crash(w)
        PROVE  RunsInv'
    BY <1>2, RunsPickSend, RunsPickReconcile, RunsStepMoves, RunsStepWrites,
       RunsStepEnds DEF Pick, Step
  <1> QED BY <1>1, <1>2, RunsStepRows DEF Next

\* No run has a job initially.
LEMMA RunsInit == Init => RunsInv
  BY DEF Init, RunsInv, TasksFit, LocksHeld, DeliveriesFit, AttemptPC, ClaimPC

-----------------------------------------------------------------------------
(* How reservations and contact flags keep campaigns off one creator *)

\* Deliveries are created when a campaign is queued ...
NotQueuedYet ==
    \A r \in Recipient :
        campaign[CampaignOf[r]] \in {"PREVIEW_READY", "FROZEN"} => delivery[r] = "NONE"

\* ... which pins their reservations until the outcome is known ...
ReservationsFit ==
    \A r \in Recipient :
        /\ delivery[r] # "NONE" => resv[r] \in {"none", "pinned"}
        /\ delivery[r] \in {"DISPATCHING", "DELIVERY_UNKNOWN"} => resv[r] = "pinned"

\* ... and a creator has one reservation at most.
OneReservation ==
    \A r, q \in Recipient :
        r # q /\ CreatorOf[r] = CreatorOf[q] => resv[r] = "none" \/ resv[q] = "none"

\* A sent or unknown message shows in the creator's contact state, whose last
\* delivery is never one that could still be claimed.
ContactsFlagged ==
    \A r \in Recipient :
        /\ delivery[r] = "SENT" => recent[CreatorOf[r]]
        /\ delivery[r] \in Unknown => unresolved[CreatorOf[r]] \/ recent[CreatorOf[r]]
LastDeliveryEnded ==
    \A k \in Creator : lastDelivery[k] # None =>
        delivery[lastDelivery[k]] \in Unknown \cup {"SENT"}

\* So at most one of a creator's messages has begun, and what a claim has
\* decided on still holds when it writes.
OneBegun ==
    \A r, q \in Recipient :
        r # q /\ CreatorOf[r] = CreatorOf[q] =>
            delivery[r] \notin Begun \/ delivery[q] \notin Begun
ClaimsExclusive ==
    \A w \in Worker : pc[w] = "claimWrite" =>
        /\ resv[at[w]] = "pinned"
        /\ \A q \in By(CreatorOf[at[w]]) : delivery[q] \notin Begun

Exclusion == /\ NotQueuedYet /\ ReservationsFit /\ OneReservation
             /\ OneBegun /\ ClaimsExclusive
ContactsFit == ContactsFlagged /\ LastDeliveryEnded

\* Deliveries, reservations and contact flags stay, no campaign is frozen
\* anew and no run decides on a claim.
NoNewFreeze == \A c \in Campaign : campaign'[c] \in {"PREVIEW_READY", "FROZEN"} =>
                                     campaign[c] \in {"PREVIEW_READY", "FROZEN"}
NoNewClaim == \A w \in Worker : pc'[w] = "claimWrite" =>
                                  pc[w] = "claimWrite" /\ at'[w] = at[w]
LEMMA ExclusionKept ==
  ASSUME Exclusion, ContactsFit, TypeOK, UNCHANGED <<delivery, resv>>,
         UNCHANGED <<unresolved, recent, lastDelivery>>, NoNewFreeze, NoNewClaim
  PROVE  Exclusion' /\ ContactsFit'
  <1> USE DispatchAssumption DEF Exclusion, ContactsFit
  <1>1. NotQueuedYet'
    BY DEF NotQueuedYet, NoNewFreeze
  <1>2. ReservationsFit' /\ OneReservation' /\ OneBegun'
    BY DEF ReservationsFit, OneReservation, OneBegun
  <1>3. ClaimsExclusive'
    BY DEF ClaimsExclusive, NoNewClaim, By
  <1>4. ContactsFit'
    BY DEF ContactsFlagged, LastDeliveryEnded
  <1> QED BY <1>1, <1>2, <1>3, <1>4

\* A run writes the delivery of r and may drop its reservation; claims that are
\* under way are on other creators, or r has not begun and does not begin.
LEMMA ExclusionWrite ==
  ASSUME Exclusion, TypeOK, NEW r \in Recipient, NEW d \in DeliveryState \ {"NONE"},
         delivery[r] # "NONE", delivery' = [delivery EXCEPT ![r] = d],
         \/ UNCHANGED resv
         \/ resv' = [resv EXCEPT ![r] = "none"] /\ d \notin {"DISPATCHING", "DELIVERY_UNKNOWN"},
         d \in {"DISPATCHING", "DELIVERY_UNKNOWN"} => resv[r] = "pinned",
         d \in Begun => \/ delivery[r] \in Begun
                        \/ \A q \in By(CreatorOf[r]) : delivery[q] \notin Begun,
         NoNewFreeze, NoNewClaim,
         \A v \in Worker : pc'[v] = "claimWrite" =>
            at[v] # r /\ (d \in Begun => CreatorOf[at[v]] # CreatorOf[r])
  PROVE  Exclusion'
  <1> USE DispatchAssumption DEF Exclusion
  <1>1. /\ delivery'[r] = d
        /\ \A q \in Recipient \ {r} : delivery'[q] = delivery[q] /\ resv'[q] = resv[q]
        /\ resv'[r] \in {resv[r], "none"}
    BY DEF TypeOK, RowsTyped
  <1>2. NotQueuedYet'
    BY <1>1 DEF NotQueuedYet, NoNewFreeze
  <1>3. ReservationsFit'
    BY <1>1 DEF ReservationsFit
  <1>4. OneReservation'
    BY <1>1 DEF OneReservation
  <1>5. OneBegun'
    BY <1>1 DEF OneBegun, By
  <1>6. ClaimsExclusive'
    <2> SUFFICES ASSUME NEW v \in Worker, pc'[v] = "claimWrite"
                 PROVE  /\ resv'[at'[v]] = "pinned"
                        /\ \A q \in By(CreatorOf[at'[v]]) : delivery'[q] \notin Begun
      BY DEF ClaimsExclusive
    <2>1. pc[v] = "claimWrite" /\ at'[v] = at[v] /\ at[v] \in Recipient \ {r}
      BY DEF NoNewClaim, TypeOK, RunsTyped
    <2> QED BY <1>1, <2>1 DEF ClaimsExclusive, By
  <1> QED BY <1>2, <1>3, <1>4, <1>5, <1>6

\* What each step may rely on.
Safe == /\ DispatchInv /\ NoCancelAsked /\ RowsAgree /\ RunsInv
        /\ Exclusion /\ ContactsFit

\* Freezing a preview reserves only creators no one else has reserved.
LEMMA ExclusionFreeze ==
  ASSUME Safe, NEW c \in Campaign, Freeze(c)
  PROVE  Exclusion' /\ ContactsFit'
  <1> DEFINE chosen == {r \in Of(c) : rcpt[r] = "SELECTED" /\ Freezable(r)}
  <1> USE DispatchAssumption DEF Safe, Exclusion, ContactsFit
  <1>1. /\ UNCHANGED <<delivery, unresolved, recent, lastDelivery, pc, at>>
        /\ \A b \in Campaign \ {c} : campaign'[b] = campaign[b]
        /\ campaign[c] = "PREVIEW_READY"
        /\ \A r \in Recipient : resv'[r] = IF r \in chosen THEN "live"
                                 ELSE IF resv[r] = "lapsed" THEN "none" ELSE resv[r]
    BY DEF Freeze, contactVars, runVars, DispatchInv, TypeOK, CampaignsTyped
  <1>2. \A r \in chosen : delivery[r] = "NONE"
    BY <1>1 DEF NotQueuedYet, Of
  <1>3. \A r \in chosen, q \in Recipient :
           q # r /\ CreatorOf[q] = CreatorOf[r] => q \notin chosen /\ resv[q] \notin {"live", "pinned"}
    BY DEF Of, By, Freezable
  <1> HIDE DEF chosen
  <1>4. NotQueuedYet'
    BY <1>1 DEF NotQueuedYet
  <1>5. ReservationsFit'
    BY <1>1, <1>2 DEF ReservationsFit
  <1>6. OneReservation'
    BY <1>1, <1>3 DEF OneReservation, DispatchInv, TypeOK, RowsTyped, ReservationState
  <1>7. OneBegun' /\ ContactsFit'
    BY <1>1 DEF OneBegun, ContactsFlagged, LastDeliveryEnded
  <1>8. ClaimsExclusive'
    <2>1. \A w \in Worker : pc[w] = "claimWrite" => at[w] \in Recipient /\ at[w] \notin chosen
      BY <1>2 DEF RunsInv, DeliveriesFit, ClaimPC, Claimable, DispatchInv, TypeOK, RunsTyped
    <2> QED BY <1>1, <2>1 DEF ClaimsExclusive, By
  <1> QED BY <1>4, <1>5, <1>6, <1>7, <1>8

\* A frozen campaign's reservations lapse, or are deleted with the freeze.
LEMMA ExclusionExpire ==
  ASSUME Safe, NEW c \in Campaign, FreezeLapses(c) \/ ExpireFrozen(c)
  PROVE  Exclusion' /\ ContactsFit'
  <1> USE DispatchAssumption DEF Safe, Exclusion, ContactsFit
  <1>1. /\ UNCHANGED <<delivery, unresolved, recent, lastDelivery, pc, at>>
        /\ NoNewFreeze
        /\ campaign[c] = "FROZEN"
        /\ \A r \in Recipient : \/ resv'[r] = resv[r]
                                \/ r \in Of(c) /\ resv'[r] = "none"
                                \/ resv[r] = "live" /\ resv'[r] = "lapsed"
    <2>1. CASE FreezeLapses(c)
      BY <2>1 DEF FreezeLapses, contactVars, runVars, NoNewFreeze
    <2>2. CASE ExpireFrozen(c)
      BY <2>2 DEF ExpireFrozen, contactVars, runVars, DispatchInv, TypeOK,
         CampaignsTyped, NoNewFreeze
    <2> QED BY <2>1, <2>2
  <1>2. \A r \in Of(c) : delivery[r] = "NONE"
    BY <1>1 DEF NotQueuedYet, Of
  <1>3. NotQueuedYet'
    BY <1>1 DEF NotQueuedYet, NoNewFreeze
  <1>4. ReservationsFit' /\ OneReservation'
    BY <1>1, <1>2 DEF ReservationsFit, OneReservation
  <1>5. OneBegun' /\ ContactsFit'
    BY <1>1 DEF OneBegun, ContactsFlagged, LastDeliveryEnded
  <1>6. ClaimsExclusive'
    <2>1. \A w \in Worker : pc[w] = "claimWrite" => at[w] \in Recipient /\ at[w] \notin Of(c)
      BY <1>2 DEF RunsInv, DeliveriesFit, ClaimPC, Claimable, DispatchInv, TypeOK, RunsTyped
    <2> QED BY <1>1, <2>1 DEF ClaimsExclusive, By
  <1> QED BY <1>3, <1>4, <1>5, <1>6

\* Queueing pins the campaign's reservations and creates its deliveries.
LEMMA ExclusionQueue ==
  ASSUME Safe, NEW o \in Operator, QueueWrite(o)
  PROVE  Exclusion' /\ ContactsFit'
  <1> DEFINE c == op[o].campaign
  <1> USE DispatchAssumption DEF Safe
  <1>1. CASE UNCHANGED <<campaign, resv, delivery>>
    BY <1>1, ExclusionKept DEF QueueWrite, contactVars, runVars, NoNewFreeze, NoNewClaim, DispatchInv
  <1>2. CASE ~UNCHANGED <<campaign, resv, delivery>>
    <2> USE DEF Exclusion, ContactsFit
    <2>1. /\ UNCHANGED <<unresolved, recent, lastDelivery, pc, at>>
          /\ c \in Campaign
          /\ campaign[c] = "FROZEN" /\ campaign'[c] = "QUEUED"
          /\ \A b \in Campaign \ {c} : campaign'[b] = campaign[b]
          /\ \A r \in Recipient : resv'[r] = IF r \in Of(c) /\ resv[r] # "none"
                                             THEN "pinned" ELSE resv[r]
          /\ \A r \in Recipient :
                \/ delivery'[r] = delivery[r]
                \/ r \in Of(c) /\ delivery[r] = "NONE" /\ delivery'[r] = "PENDING"
      <3> DEFINE frozen == {r \in Of(c) : rcpt[r] = "RESERVED"}
      <3>1. /\ campaign[c] = "FROZEN"
            /\ campaign' = [campaign EXCEPT ![c] = "QUEUED"]
            /\ resv' = [r \in Recipient |-> IF r \in Of(c) /\ resv[r] # "none"
                                            THEN "pinned" ELSE resv[r]]
            /\ delivery' = [r \in Recipient |->
                              IF r \in frozen /\ delivery[r] = "NONE"
                              THEN "PENDING" ELSE delivery[r]]
            /\ UNCHANGED <<contactVars, runVars>>
        BY <1>2 DEF QueueWrite
      <3>2. c \in Campaign
        BY DEF QueueWrite, DispatchInv, TypeOK, EnvTyped
      <3>3. frozen \subseteq Of(c)
        OBVIOUS
      <3>4. /\ campaign'[c] = "QUEUED"
            /\ \A b \in Campaign \ {c} : campaign'[b] = campaign[b]
        BY <3>1, <3>2 DEF DispatchInv, TypeOK, CampaignsTyped
      <3>5. UNCHANGED <<unresolved, recent, lastDelivery, pc, at>>
        BY <3>1 DEF contactVars, runVars
      <3> HIDE DEF c, frozen
      <3> QED BY <3>1, <3>2, <3>3, <3>4, <3>5
    <2>2. \A r \in Of(c) : delivery[r] = "NONE"
      BY <2>1 DEF NotQueuedYet, Of
    <2>3. NotQueuedYet'
      BY <2>1 DEF NotQueuedYet, Of
    <2>4. ReservationsFit' /\ OneReservation'
      BY <2>1, <2>2 DEF ReservationsFit, OneReservation
    <2>5. OneBegun'
      BY <2>1 DEF OneBegun, Begun, Unknown
    <2>6. ContactsFlagged'
      BY <2>1 DEF ContactsFlagged, Unknown
    <2>7. LastDeliveryEnded'
      BY <2>1 DEF LastDeliveryEnded, Unknown, DispatchInv, TypeOK, ContactsTyped
    <2>8. ClaimsExclusive'
      BY <2>1 DEF ClaimsExclusive, By, Begun, Unknown, DispatchInv, TypeOK, RunsTyped
    <2> QED BY <2>3, <2>4, <2>5, <2>6, <2>7, <2>8
  <1> QED BY <1>1, <1>2

\* A rebuilt contact state keeps its flags; it can only add a contact.
LEMMA ExclusionRebuild ==
  ASSUME Safe, NEW k \in Creator, RebuildContact(k)
  PROVE  Exclusion' /\ ContactsFit'
  <1> USE DispatchAssumption DEF Safe, Exclusion, ContactsFit
  <1>1. /\ UNCHANGED <<campaign, delivery, resv, pc, at>>
        /\ \A j \in Creator \ {k} : /\ unresolved'[j] = unresolved[j]
                                    /\ recent'[j] = recent[j]
                                    /\ lastDelivery'[j] = lastDelivery[j]
        /\ unresolved'[k] = AnyUnknown(By(k))
        /\ recent[k] => recent'[k]
        /\ lastDelivery'[k] # lastDelivery[k] => delivery[lastDelivery'[k]] = "SENT"
    BY DEF RebuildContact, DispatchInv, TypeOK, ContactsTyped, campaignVars, rowVars, runVars
  <1>2. NotQueuedYet' /\ ReservationsFit' /\ OneReservation' /\ OneBegun'
    BY <1>1 DEF NotQueuedYet, ReservationsFit, OneReservation, OneBegun
  <1>3. ClaimsExclusive'
    BY <1>1 DEF ClaimsExclusive, By
  <1>4. LastDeliveryEnded'
    BY <1>1 DEF LastDeliveryEnded
  <1>5. ContactsFlagged'
    <2> SUFFICES ASSUME NEW r \in Recipient
                 PROVE  /\ delivery[r] = "SENT" => recent'[CreatorOf[r]]
                        /\ delivery[r] \in Unknown => unresolved'[CreatorOf[r]] \/ recent'[CreatorOf[r]]
      BY <1>1 DEF ContactsFlagged
    <2>1. CASE CreatorOf[r] = k
      BY <1>1, <2>1 DEF ContactsFlagged, AnyUnknown, By
    <2>2. CASE CreatorOf[r] # k
      BY <1>1, <2>2 DEF ContactsFlagged
    <2> QED BY <2>1, <2>2
  <1> QED BY <1>2, <1>3, <1>4, <1>5

\* The claim decides to go ahead only when nobody else's message to the
\* creator has begun, and its own reservation is pinned.
LEMMA ExclusionClaimRead ==
  ASSUME Safe, NEW w \in Worker, ClaimRead(w)
  PROVE  Exclusion' /\ ContactsFit'
  <1> DEFINE r == at[w]  k == CreatorOf[r]
  <1> USE DispatchAssumption DEF Safe
  <1>1. /\ UNCHANGED <<campaign, delivery, resv, unresolved, recent, lastDelivery, at>>
        /\ r \in Recipient /\ k \in Creator
        /\ \A v \in Worker \ {w} : pc'[v] = pc[v]
        /\ pc'[w] = "claimWrite" => delivery[r] \in Claimable /\ ~Excluded(r)
    BY DEF ClaimRead, Goto, Stay, campaignVars, rowVars, contactVars, DispatchInv,
       TypeOK, RunsTyped
  <1>2. CASE pc'[w] # "claimWrite"
    BY <1>1, <1>2, ExclusionKept DEF NoNewFreeze, NoNewClaim, DispatchInv
  <1>3. CASE pc'[w] = "claimWrite"
    <2> USE DEF Exclusion, ContactsFit
    <2>1. delivery[r] \in Claimable /\ resv[r] = "pinned"
      BY <1>1, <1>3 DEF Excluded, ReservationsFit, Claimable
    <2>2. lastDelivery[k] # r
      BY <1>1, <2>1 DEF LastDeliveryEnded, Claimable, Unknown
    <2>3. ~unresolved[k] /\ ~recent[k]
      BY <1>1, <1>3, <2>2 DEF Excluded
    <2>4. \A q \in By(k) : delivery[q] \notin Begun
      BY <1>1, <2>1, <2>3 DEF By, Begun, ContactsFlagged, ReservationsFit, OneReservation,
         Claimable, Unknown
    <2>5. NotQueuedYet' /\ ReservationsFit' /\ OneReservation' /\ OneBegun' /\ ContactsFit'
      BY <1>1 DEF NotQueuedYet, ReservationsFit, OneReservation, OneBegun,
         ContactsFlagged, LastDeliveryEnded
    <2>6. ClaimsExclusive'
      BY <1>1, <2>1, <2>4 DEF ClaimsExclusive, By
    <2> QED BY <2>5, <2>6
  <1> QED BY <1>2, <1>3

\* A claim and its outcome, recorded without touching the contact state.
LEMMA ContactsWrite ==
  ASSUME ContactsFit, TypeOK, NEW r \in Recipient, NEW d \in DeliveryState \ {"SENT"},
         delivery' = [delivery EXCEPT ![r] = d], UNCHANGED <<unresolved, recent, lastDelivery>>,
         d \in Unknown <=> delivery[r] \in Unknown \cup {"SENT"}
  PROVE  ContactsFit'
  <1>1. delivery'[r] = d /\ \A q \in Recipient \ {r} : delivery'[q] = delivery[q]
    BY DEF TypeOK, RowsTyped
  <1> USE DEF ContactsFit
  <1>2. ContactsFlagged'
    BY <1>1 DEF ContactsFlagged
  <1>3. LastDeliveryEnded'
    BY <1>1 DEF LastDeliveryEnded, TypeOK, ContactsTyped
  <1> QED BY <1>2, <1>3

\* No claim is under way at a delivery that is being attempted or was sent, nor
\* on its creator.
LEMMA NoClaimBeside ==
  ASSUME Safe, NEW v \in Worker, pc[v] = "claimWrite",
         NEW r \in Recipient, delivery[r] \in Begun
  PROVE  at[v] # r /\ CreatorOf[at[v]] # CreatorOf[r]
  <1>1. at[v] \in Recipient
    BY DEF Safe, DispatchInv, TypeOK, RunsTyped
  <1> QED BY <1>1 DEF Safe, Exclusion, ClaimsExclusive, By

\* The claim's write and its exclusion: the claim locks exclude another claim.
LEMMA ExclusionClaimWrite ==
  ASSUME Safe, NEW w \in Worker, ClaimWrite(w) \/ ClaimExclude(w)
  PROVE  Exclusion' /\ ContactsFit'
  <1> DEFINE r == at[w]
  <1> USE DispatchAssumption DEF Safe, DispatchInv
  <1>1. /\ r \in Recipient
        /\ pc[w] \in ClaimPC
        /\ delivery[r] \in Claimable
        /\ UNCHANGED <<at, unresolved, recent, lastDelivery>>
        /\ pc'[w] # "claimWrite"
        /\ \A v \in Worker \ {w} : pc'[v] = pc[v] /\ pc'[v] \notin ClaimPC
    BY DEF ClaimWrite, ClaimExclude, Goto, TypeOK, RunsTyped, RunsInv, DeliveriesFit,
       ClaimPC, ClaimsSafe, OneClaimAtATime, contactVars
  <1>2. PICK d \in {"DISPATCHING", "FAILED_TERMINAL"} :
          /\ delivery' = [delivery EXCEPT ![r] = d]
          /\ \/ UNCHANGED resv
             \/ resv' = [resv EXCEPT ![r] = "none"] /\ d = "FAILED_TERMINAL"
          /\ d = "DISPATCHING" => pc[w] = "claimWrite"
    <2>1. CASE ClaimWrite(w)
      BY <2>1 DEF ClaimWrite
    <2>2. CASE ClaimExclude(w)
      BY <2>2 DEF ClaimExclude
    <2> QED BY <2>1, <2>2
  <1>3. NoNewFreeze /\ NoNewClaim
    <2>1. NoNewClaim
      BY <1>1 DEF NoNewClaim
    <2>2. NoNewFreeze
      BY DEF ClaimWrite, ClaimExclude, NoNewFreeze, TypeOK, CampaignsTyped, campaignVars
    <2> QED BY <2>1, <2>2
  <1>4. d \in DeliveryState \ {"NONE", "SENT"} /\ delivery[r] # "NONE"
    BY <1>1 DEF Claimable, DeliveryState
  <1>5. d = "DISPATCHING" => resv[r] = "pinned" /\ \A q \in By(CreatorOf[r]) : delivery[q] \notin Begun
    BY <1>2 DEF Exclusion, ClaimsExclusive
  <1>6. Exclusion'
    <2>1. \A v \in Worker : pc'[v] = "claimWrite" =>
             at[v] # r /\ (d \in Begun => CreatorOf[at[v]] # CreatorOf[r])
      BY <1>1 DEF ClaimPC
    <2>2. d \in Begun => \/ delivery[r] \in Begun
                         \/ \A q \in By(CreatorOf[r]) : delivery[q] \notin Begun
      BY <1>5 DEF Begun, Unknown
    <2>3. \/ UNCHANGED resv
          \/ resv' = [resv EXCEPT ![r] = "none"] /\ d \notin {"DISPATCHING", "DELIVERY_UNKNOWN"}
      BY <1>2
    <2>4. d \in {"DISPATCHING", "DELIVERY_UNKNOWN"} => resv[r] = "pinned"
      BY <1>5
    <2> HIDE DEF r
    <2> QED BY <1>1, <1>2, <1>3, <1>4, <2>1, <2>2, <2>3, <2>4, ExclusionWrite
  <1>7. ContactsFit'
    BY <1>1, <1>2, <1>4, ContactsWrite DEF Claimable, Unknown
  <1> QED BY <1>6, <1>7

\* An attempt that failed, retried or not.
LEMMA ExclusionFailed ==
  ASSUME Safe, NEW w \in Worker, MakeDeliveryRetryable(w) \/ MarkFailed(w)
  PROVE  Exclusion' /\ ContactsFit'
  <1> DEFINE r == at[w]
  <1> USE DispatchAssumption DEF Safe, DispatchInv
  <1>1. /\ r \in Recipient
        /\ delivery[r] = "DISPATCHING"
        /\ UNCHANGED <<campaign, at, unresolved, recent, lastDelivery>>
    BY DEF MakeDeliveryRetryable, MarkFailed, Goto, TypeOK, RunsTyped, RunsInv,
       DeliveriesFit, AttemptPC, contactVars, campaignVars
  <1>2. PICK p \in PC : Goto(w, p) /\ p # "claimWrite"
    <2>1. CASE MakeDeliveryRetryable(w)
      <3>1. AfterRetryable(pc[w]) \in {"pauseQuota", "pauseAuth", "delay", "throw",
                                       "yield", "done"}
        BY DEF AfterRetryable
      <3> QED BY <2>1, <3>1 DEF MakeDeliveryRetryable, PC
    <2>2. CASE MarkFailed(w)
      BY <2>2 DEF MarkFailed, PC
    <2> QED BY <2>1, <2>2
  <1>3. NoNewFreeze /\ NoNewClaim
    BY <1>1, <1>2 DEF NoNewFreeze, NoNewClaim, Goto, TypeOK, RunsTyped
  <1>4. PICK d \in {"FAILED_RETRYABLE", "RESTRICTED", "FAILED_TERMINAL"} :
          /\ delivery' = [delivery EXCEPT ![r] = d]
          /\ UNCHANGED resv \/ resv' = [resv EXCEPT ![r] = "none"]
    BY DEF MakeDeliveryRetryable, MarkFailed
  <1>5. d \in DeliveryState \ {"NONE", "SENT"} /\ d \notin Begun
    BY DEF DeliveryState, Begun, Unknown
  <1>6. \A v \in Worker : pc'[v] = "claimWrite" => at[v] # r
    BY <1>1, <1>3, NoClaimBeside DEF NoNewClaim, Begun
  <1>7. Exclusion'
    <2>1. \A v \in Worker : pc'[v] = "claimWrite" =>
             at[v] # r /\ (d \in Begun => CreatorOf[at[v]] # CreatorOf[r])
      BY <1>5, <1>6
    <2>2. \/ UNCHANGED resv
          \/ resv' = [resv EXCEPT ![r] = "none"] /\ d \notin {"DISPATCHING", "DELIVERY_UNKNOWN"}
      BY <1>4
    <2>3. delivery[r] # "NONE" /\ d \notin {"DISPATCHING", "DELIVERY_UNKNOWN"}
      BY <1>1, <1>4
    <2> HIDE DEF r
    <2> QED BY <1>1, <1>3, <1>4, <1>5, <2>1, <2>2, <2>3, ExclusionWrite
  <1>8. ContactsFit'
    BY <1>1, <1>4, <1>5, ContactsWrite DEF Unknown
  <1> QED BY <1>7, <1>8

\* A run gives up on reconciling: the contact state already names the message.
LEMMA ExclusionUnmatched ==
  ASSUME Safe, NEW w \in Worker, ReconcileUnmatched(w)
  PROVE  Exclusion' /\ ContactsFit'
  <1> DEFINE r == at[w]  d == "DELIVERY_UNKNOWN_UNRESOLVED"
  <1> USE DispatchAssumption DEF Safe, DispatchInv
  <1>1. /\ r \in Recipient
        /\ delivery[r] \in Unknown \cup {"SENT"}
        /\ UNCHANGED <<campaign, at, unresolved, recent, lastDelivery>>
    BY DEF ReconcileUnmatched, Goto, TypeOK, RunsTyped, RunsInv, DeliveriesFit,
       contactVars, campaignVars
  <1>2. NoNewFreeze /\ NoNewClaim
    BY <1>1 DEF NoNewFreeze, NoNewClaim, ReconcileUnmatched, Goto, TypeOK, RunsTyped
  <1>3. CASE UNCHANGED <<delivery, resv>>
    BY <1>1, <1>2, <1>3, ExclusionKept
  <1>4. CASE /\ delivery' = [delivery EXCEPT ![r] = d]
             /\ resv' = [resv EXCEPT ![r] = "none"]
    <2>1. d \in DeliveryState \ {"NONE", "SENT", "DISPATCHING", "DELIVERY_UNKNOWN"} /\ d \in Unknown
      BY DEF DeliveryState, Unknown
    <2>2. delivery[r] \in Begun /\ delivery[r] # "NONE"
      BY <1>1 DEF Begun, Unknown
    <2>3. \A v \in Worker : pc'[v] = "claimWrite" => at[v] # r /\ CreatorOf[at[v]] # CreatorOf[r]
      BY <1>1, <1>2, <2>2, NoClaimBeside DEF NoNewClaim
    <2>4. Exclusion'
      <3> HIDE DEF r, d
      <3> QED BY <1>1, <1>2, <1>4, <2>1, <2>2, <2>3, ExclusionWrite
    <2>5. ContactsFit'
      BY <1>1, <1>4, <2>1, ContactsWrite
    <2> QED BY <2>4, <2>5
  <1> QED BY <1>3, <1>4 DEF ReconcileUnmatched

\* A sent message, confirmed or reconciled: the cooldown takes the place of the
\* reservation in the same transaction.
LEMMA ExclusionSent ==
  ASSUME Safe, NEW w \in Worker, MarkSent(w)
  PROVE  Exclusion' /\ ContactsFit'
  <1> DEFINE r == at[w]  k == CreatorOf[r]
  <1> USE DispatchAssumption DEF Safe, DispatchInv
  <1>1. /\ r \in Recipient /\ k \in Creator
        /\ delivery[r] \in Begun
        /\ UNCHANGED <<campaign, at>>
        /\ delivery' = [delivery EXCEPT ![r] = "SENT"]
        /\ resv' = [resv EXCEPT ![r] = "none"]
        /\ recent' = [recent EXCEPT ![k] = TRUE]
        /\ lastDelivery' = [lastDelivery EXCEPT ![k] = r]
        /\ \A j \in Creator \ {k} : unresolved'[j] = unresolved[j]
    BY DEF MarkSent, Goto, TypeOK, RunsTyped, ContactsTyped, RunsInv, DeliveriesFit,
       AttemptPC, Begun, campaignVars
  <1>2. NoNewFreeze /\ NoNewClaim
    BY <1>1 DEF NoNewFreeze, NoNewClaim, MarkSent, Goto, TypeOK, RunsTyped
  <1>3. \A v \in Worker : pc'[v] = "claimWrite" => at[v] # r /\ CreatorOf[at[v]] # CreatorOf[r]
    BY <1>1, <1>2, NoClaimBeside DEF NoNewClaim
  <1>4. "SENT" \in DeliveryState \ {"NONE", "DISPATCHING", "DELIVERY_UNKNOWN"}
    BY DEF DeliveryState
  <1>5. delivery[r] # "NONE"
    BY <1>1 DEF Begun, Unknown
  <1> HIDE DEF r, k
  <1>6. Exclusion'
    BY <1>1, <1>2, <1>3, <1>4, <1>5, ExclusionWrite
  <1>7. /\ delivery'[r] = "SENT" /\ recent'[k] = TRUE /\ lastDelivery'[k] = r
        /\ \A q \in Recipient \ {r} : delivery'[q] = delivery[q]
        /\ \A j \in Creator \ {k} : recent'[j] = recent[j] /\ lastDelivery'[j] = lastDelivery[j]
    BY <1>1 DEF TypeOK, RowsTyped, ContactsTyped
  <1>8. ContactsFlagged'
    BY <1>1, <1>7 DEF ContactsFit, ContactsFlagged, k
  <1>9. LastDeliveryEnded'
    BY <1>1, <1>7 DEF ContactsFit, LastDeliveryEnded, TypeOK, ContactsTyped
  <1> QED BY <1>6, <1>8, <1>9 DEF ContactsFit

\* An unknown outcome: the flag is up while the reservation still stands.
LEMMA ExclusionUnknown ==
  ASSUME Safe, NEW w \in Worker, RecoverDispatching(w) \/ MarkDeliveryUnknown(w)
  PROVE  Exclusion' /\ ContactsFit'
  <1> DEFINE r == at[w]  k == CreatorOf[r]
  <1> USE DispatchAssumption DEF Safe, DispatchInv
  <1>1. /\ r \in Recipient /\ k \in Creator
        /\ delivery[r] = "DISPATCHING"
        /\ UNCHANGED <<campaign, at, resv, recent>>
        /\ delivery' = [delivery EXCEPT ![r] = "DELIVERY_UNKNOWN"]
        /\ unresolved' = [unresolved EXCEPT ![k] = TRUE]
        /\ lastDelivery' = [lastDelivery EXCEPT ![k] = r]
    BY DEF RecoverDispatching, MarkDeliveryUnknown, RecordUnknown, Goto, TypeOK, RunsTyped,
       RunsInv, DeliveriesFit, AttemptPC, campaignVars
  <1>2. NoNewFreeze /\ NoNewClaim
    BY <1>1 DEF NoNewFreeze, NoNewClaim, RecoverDispatching, MarkDeliveryUnknown, Goto,
       TypeOK, RunsTyped
  <1>3. \A v \in Worker : pc'[v] = "claimWrite" => at[v] # r /\ CreatorOf[at[v]] # CreatorOf[r]
    BY <1>1, <1>2, NoClaimBeside DEF NoNewClaim, Begun
  <1>4. "DELIVERY_UNKNOWN" \in DeliveryState \ {"NONE"} /\ delivery[r] \in Begun
    BY <1>1 DEF DeliveryState, Begun
  <1>5. resv[r] = "pinned"
    BY <1>1 DEF Exclusion, ReservationsFit
  <1> HIDE DEF r, k
  <1>6. Exclusion'
    BY <1>1, <1>2, <1>3, <1>4, <1>5, ExclusionWrite
  <1>7. /\ delivery'[r] = "DELIVERY_UNKNOWN" /\ unresolved'[k] = TRUE /\ lastDelivery'[k] = r
        /\ \A q \in Recipient \ {r} : delivery'[q] = delivery[q]
        /\ \A j \in Creator \ {k} : unresolved'[j] = unresolved[j] /\ lastDelivery'[j] = lastDelivery[j]
    BY <1>1 DEF TypeOK, RowsTyped, ContactsTyped
  <1>8. ContactsFlagged'
    BY <1>1, <1>7 DEF ContactsFit, ContactsFlagged, k, Unknown
  <1>9. LastDeliveryEnded'
    BY <1>1, <1>7 DEF ContactsFit, LastDeliveryEnded, TypeOK, ContactsTyped, Unknown
  <1> QED BY <1>6, <1>8, <1>9 DEF ContactsFit

\* The steps that leave deliveries, reservations and contact flags alone.
LEMMA ExclusionQuiet ==
  ASSUME Safe, [Next]_vars,
         \/ \E o \in Operator :
              \/ PauseWrite(o) \/ ResumeWrite(o)
              \/ \E c \in Campaign : \/ QueueRead(o, c) \/ PauseRead(o, c)
                                     \/ ResumeRead(o, c) \/ CancelRead(o, c)
         \/ Sweep
         \/ Stall
         \/ \E w \in Worker :
              \/ Pick(w) \/ Exception(w) \/ Crash(w) \/ FinishJob(w) \/ DelayJob(w)
              \/ Throw(w) \/ AcknowledgePause(w) \/ NoCreatePermit(w)
              \/ CreateConversation(w) \/ SendPermit(w) \/ SendAccepted(w)
              \/ SendRefused(w) \/ PauseShop(w) \/ YieldToPause(w)
              \/ ScheduleReconciliation(w) \/ CompleteRead(w) \/ CompleteWrite(w)
         \/ UNCHANGED vars
  PROVE  Exclusion' /\ ContactsFit'
  <1> USE DispatchAssumption DEF Safe, DispatchInv
  <1>1. ASSUME UNCHANGED <<delivery, resv, unresolved, recent, lastDelivery>>, NoNewFreeze, NoNewClaim
        PROVE  Exclusion' /\ ContactsFit'
    BY <1>1, ExclusionKept
  <1>2. ASSUME NEW o \in Operator,
               \/ PauseWrite(o) \/ ResumeWrite(o)
               \/ \E c \in Campaign : \/ QueueRead(o, c) \/ PauseRead(o, c)
                                      \/ ResumeRead(o, c) \/ CancelRead(o, c)
        PROVE  Exclusion' /\ ContactsFit'
    <2>1. UNCHANGED <<delivery, resv, unresolved, recent, lastDelivery, pc, at>>
      BY <1>2 DEF PauseWrite, ResumeWrite, QueueRead, PauseRead, ResumeRead, CancelRead,
         Ask, rowVars, contactVars, runVars
    <2>2. NoNewFreeze
      BY <1>2 DEF PauseWrite, ResumeWrite, QueueRead, PauseRead, ResumeRead, CancelRead,
         Ask, campaignVars, NoNewFreeze, TypeOK, CampaignsTyped
    <2> QED BY <1>1, <2>1, <2>2 DEF NoNewClaim
  <1>3. CASE Sweep \/ Stall \/ UNCHANGED vars
    <2>1. UNCHANGED <<campaign, delivery, resv, unresolved, recent, lastDelivery, pc, at>>
      BY <1>3 DEF Sweep, SweepSettled, SweepList, SweepEnqueue, SweepFails, Stall, StallSend,
         LoseLock, StallReconcile, Stalled, rowVars, contactVars, runVars, campaignVars, vars
    <2> QED BY <1>1, <2>1 DEF NoNewClaim, NoNewFreeze
  <1>4. ASSUME NEW w \in Worker,
              \/ Pick(w) \/ Exception(w) \/ Crash(w) \/ FinishJob(w) \/ DelayJob(w)
              \/ Throw(w)
        PROVE  Exclusion' /\ ContactsFit'
    <2>1. UNCHANGED <<campaign, delivery, resv, unresolved, recent, lastDelivery>>
      BY <1>4 DEF Pick, PickSend, PickReconcile, Exception, Crash, FinishJob, DelayJob, Throw,
         FailRun, rowVars, contactVars, campaignVars
    <2>2. /\ pc'[w] # "claimWrite"
          /\ \A v \in Worker \ {w} : pc'[v] = pc[v] /\ at'[v] = at[v]
      <3>1. ASSUME NEW r \in Recipient, PickSend(w, r) PROVE <2>2!:
        <4>1. FirstStep(delivery[r], campaign[CampaignOf[r]]) # "claimWrite"
          BY DEF FirstStep
        <4> QED BY <3>1, <4>1 DEF PickSend, TypeOK, RunsTyped
      <3>2. ASSUME NEW r \in Recipient, NEW n \in 1..ReconcileAttempts, PickReconcile(w, r, n)
            PROVE  <2>2!:
        BY <3>2 DEF PickReconcile, TypeOK, RunsTyped
      <3>3. CASE Exception(w) \/ Crash(w) \/ FinishJob(w) \/ DelayJob(w) \/ Throw(w)
        BY <3>3 DEF Exception, Crash, FinishJob, DelayJob, Throw, FailRun, Idle, TypeOK, RunsTyped
      <3> QED BY <1>4, <3>1, <3>2, <3>3 DEF Pick
    <2> QED BY <1>1, <2>1, <2>2 DEF NoNewClaim, NoNewFreeze
  <1>5. ASSUME NEW w \in Worker,
              \/ AcknowledgePause(w) \/ NoCreatePermit(w)
              \/ CreateConversation(w) \/ SendPermit(w) \/ SendAccepted(w)
              \/ SendRefused(w) \/ PauseShop(w) \/ YieldToPause(w)
              \/ ScheduleReconciliation(w) \/ CompleteRead(w) \/ CompleteWrite(w)
        PROVE  Exclusion' /\ ContactsFit'
    <2>1. UNCHANGED <<delivery, resv, unresolved, recent, lastDelivery>>
      BY <1>5 DEF AcknowledgePause, NoCreatePermit, CreateConversation, SendPermit,
         SendAccepted, SendRefused, PauseShop, YieldToPause, ScheduleReconciliation,
         CompleteRead, CompleteWrite, rowVars, contactVars
    <2>2. NoNewFreeze
      BY <1>5 DEF AcknowledgePause, NoCreatePermit, CreateConversation, SendPermit,
         SendAccepted, SendRefused, PauseShop, YieldToPause, ScheduleReconciliation,
         CompleteRead, CompleteWrite, NoNewFreeze, campaignVars, TypeOK, CampaignsTyped
    <2>3. PICK p \in AttemptPC \cup {"delay", "done", "complete", "completeOk", "completeErr"} :
             Goto(w, p)
      BY <1>5 DEF AcknowledgePause, NoCreatePermit, CreateConversation, SendPermit,
         SendAccepted, SendRefused, PauseShop, YieldToPause, ScheduleReconciliation,
         CompleteRead, CompleteWrite, Refused, AttemptPC
    <2>4. NoNewClaim
      BY <2>3 DEF NoNewClaim, Goto, AttemptPC, TypeOK, RunsTyped
    <2> QED BY <1>1, <2>1, <2>2, <2>4
  <1> QED BY <1>2, <1>3, <1>4, <1>5

\* Every step keeps reservations, contact flags and claims exclusive.
LEMMA ExclusionStep ==
  ASSUME Safe, [Next]_vars
  PROVE  Exclusion' /\ ContactsFit'
  <1>1. ASSUME NEW o \in Operator, CancelWrite(o) PROVE FALSE
    BY <1>1 DEF CancelWrite, Safe, NoCancelAsked
  <1>2. CASE Api
    BY <1>1, <1>2, ExclusionFreeze, ExclusionExpire, ExclusionQueue, ExclusionQuiet DEF Api
  <1>3. CASE \E k \in Creator : RebuildContact(k)
    BY <1>3, ExclusionRebuild
  <1>4. ASSUME NEW w \in Worker, Pick(w) \/ Step(w) \/ Exception(w) \/ Crash(w)
        PROVE  Exclusion' /\ ContactsFit'
    BY <1>4, ExclusionClaimRead, ExclusionClaimWrite, ExclusionFailed, ExclusionSent,
       ExclusionUnknown, ExclusionUnmatched, ExclusionQuiet DEF Step
  <1> QED BY <1>2, <1>3, <1>4, ExclusionQuiet DEF Next

\* Nothing is reserved, claimed or flagged initially.
LEMMA ExclusionInit == Init => Exclusion /\ ContactsFit
  BY DispatchAssumption
     DEF Init, Exclusion, ContactsFit, NotQueuedYet, ReservationsFit, OneReservation,
         OneBegun, ClaimsExclusive, ContactsFlagged, LastDeliveryEnded, Begun, Unknown

\* The state of every instance without cancellation and lost locks is safe.
LEMMA SafeInvariant == NoCancel /\ ~LockLoss => (Spec => []Safe)
  <1> SUFFICES ASSUME NoCancel, ~LockLoss PROVE Spec => []Safe
    OBVIOUS
  <1>1. Init => Safe
    <2>1. Init => NoCancelAsked /\ RowsAgree
      BY DEF Init, NoCancelAsked, NoRequest, RowsAgree, Claimable, Unknown
    <2> QED BY <2>1, TypeInit, ClaimsInit, RunsInit, ExclusionInit DEF Safe, DispatchInv
  <1>2. Safe /\ [Next]_vars => Safe'
    <2> SUFFICES ASSUME Safe, [Next]_vars PROVE Safe'
      OBVIOUS
    <2>1. TypeOK /\ NoCancelAsked /\ RowsAgree /\ RunsInv
      BY DEF Safe, DispatchInv
    <2> QED BY <2>1, DispatchStep, NeverCancelled, RowsStep, RunsStep, ExclusionStep DEF Safe
  <1> QED BY <1>1, <1>2, PTL DEF Spec

\* An accepted message is one of the creator's begun messages, so it is alone.
THEOREM CreatorsAreMessagedOnce == NoCancel /\ ~LockLoss => (Spec => []OneMessagePerCreator)
  <1>1. Safe => OneMessagePerCreator
    <2> SUFFICES ASSUME Safe, NEW r \in Recipient, NEW q \in Recipient, r # q,
                        CreatorOf[r] = CreatorOf[q]
                 PROVE  accepted[r] + accepted[q] <= 1
      BY DEF OneMessagePerCreator
    <2>1. accepted[r] \in {0, 1} /\ accepted[q] \in {0, 1}
      BY DEF Safe, DispatchInv, ClaimsSafe, AcceptedOnce, TypeOK, EnvTyped
    <2>2. accepted[r] = 0 \/ accepted[q] = 0
      BY <2>1 DEF Safe, DispatchInv, ClaimsSafe, RecordedAsHappened, Exclusion, OneBegun, Begun
    <2> QED BY <2>1, <2>2
  <1> QED BY <1>1, SafeInvariant, PTL

\* While the outcome is open the reservation is pinned; from the moment it is
\* recorded the flag or the cooldown stands.
THEOREM AcceptedStaysProtected == NoCancel /\ ~LockLoss => (Spec => []AcceptedIsProtected)
  <1>1. Safe => AcceptedIsProtected
    <2> SUFFICES ASSUME Safe, NEW r \in Recipient, accepted[r] > 0
                 PROVE  \/ resv[r] = "pinned"
                        \/ unresolved[CreatorOf[r]]
                        \/ recent[CreatorOf[r]]
      BY DEF AcceptedIsProtected
    <2>1. delivery[r] \in {"DISPATCHING", "SENT"} \cup Unknown
      BY DEF Safe, DispatchInv, ClaimsSafe, RecordedAsHappened
    <2> QED BY <2>1 DEF Safe, Exclusion, ReservationsFit, ContactsFit, ContactsFlagged
  <1> QED BY <1>1, SafeInvariant, PTL

-----------------------------------------------------------------------------
(* Dispatch implements Outreach *)

\* The record of each delivery state.
LEMMA Records ==
  /\ RecordOf("NONE") = "open"
  /\ \A d \in Claimable : RecordOf(d) = "open"
  /\ RecordOf("DISPATCHING") = "begun"
  /\ \A d \in Unknown : RecordOf(d) = "unknown"
  /\ RecordOf("SENT") = "sent"
  /\ \A d \in {"RESTRICTED", "FAILED_TERMINAL", "CANCELLED"} : RecordOf(d) = "closed"
  BY DEF RecordOf, Claimable, Unknown

Recorded == [r \in Recipient |-> RecordOf(delivery[r])]

\* Writing a delivery writes its record.
LEMMA RecordWrite ==
  ASSUME TypeOK, NEW r \in Recipient, NEW d, NEW s, RecordOf(d) = s,
         delivery' = [delivery EXCEPT ![r] = d]
  PROVE  Recorded' = [Recorded EXCEPT ![r] = s]
  <1>1. \A q \in Recipient : delivery'[q] = IF q = r THEN d ELSE delivery[q]
    BY DEF TypeOK, RowsTyped
  <1>2. \A q \in Recipient : Recorded'[q] = IF q = r THEN s ELSE Recorded[q]
    BY <1>1 DEF Recorded
  <1> QED BY <1>2 DEF Recorded

\* The steps that write no delivery and send nothing are stutters of Outreach.
LEMMA ContractStutter ==
  ASSUME UNCHANGED <<delivery, accepted>>
  PROVE  UNCHANGED Contract!vars
  BY DEF Contract!vars

\* Taking the claim begins an attempt, and excluding a recipient withdraws it.
LEMMA ContractClaim ==
  ASSUME Safe, NEW w \in Worker, ClaimWrite(w) \/ ClaimExclude(w)
  PROVE  Contract!Next
  <1> DEFINE r == at[w]
  <1> USE DEF Safe, DispatchInv
  <1>1. r \in Recipient /\ delivery[r] \in Claimable /\ UNCHANGED accepted
    BY DEF ClaimWrite, ClaimExclude, TypeOK, RunsTyped, RunsInv, DeliveriesFit, ClaimPC
  <1>2. Recorded[r] = "open"
    BY <1>1, Records DEF Recorded
  <1>3. CASE ClaimWrite(w)
    <2>1. delivery' = [delivery EXCEPT ![r] = "DISPATCHING"]
      BY <1>3 DEF ClaimWrite
    <2>2. Recorded' = [Recorded EXCEPT ![r] = "begun"]
      <3>1. RecordOf("DISPATCHING") = "begun"
        BY Records
      <3> HIDE DEF r
      <3> QED BY <1>1, <2>1, <3>1, RecordWrite
    <2>3. \A q \in Contract!Rivals(r) : Recorded[q] \notin Contract!Exclusive
      <3> SUFFICES ASSUME NEW q \in Recipient, CreatorOf[q] = CreatorOf[r]
                   PROVE  Recorded[q] \notin Contract!Exclusive
        BY DEF Contract!Rivals
      <3>1. delivery[q] \notin Begun
        BY <1>1, <1>3 DEF ClaimWrite, Exclusion, ClaimsExclusive, By
      <3>2. delivery[q] \in {"NONE"} \cup Claimable \cup {"RESTRICTED", "FAILED_TERMINAL", "CANCELLED"}
        BY <3>1 DEF Begun, Claimable, Unknown, TypeOK, RowsTyped, DeliveryState
      <3>3. RecordOf(delivery[q]) \in {"open", "closed"}
        BY <3>2, Records
      <3> QED BY <3>3 DEF Recorded, Contract!Exclusive
    <2> HIDE DEF r
    <2>4. Contract!Begin(r)
      BY <1>1, <1>2, <2>2, <2>3 DEF Contract!Begin, Contract!Becomes, Recorded
    <2> QED BY <1>1, <2>4 DEF Contract!Next
  <1>4. CASE ClaimExclude(w)
    <2>1. delivery' = [delivery EXCEPT ![r] = "FAILED_TERMINAL"]
      BY <1>4 DEF ClaimExclude
    <2>2. Recorded' = [Recorded EXCEPT ![r] = "closed"]
      <3>1. RecordOf("FAILED_TERMINAL") = "closed"
        BY Records
      <3> HIDE DEF r
      <3> QED BY <1>1, <2>1, <3>1, RecordWrite
    <2> HIDE DEF r
    <2>3. Contract!Withdraw(r)
      BY <1>1, <1>2, <2>2 DEF Contract!Withdraw, Contract!Becomes, Recorded
    <2> QED BY <1>1, <2>3 DEF Contract!Next
  <1> QED BY <1>3, <1>4

\* TikTok takes a message only during an attempt, and only once.
LEMMA ContractTake ==
  ASSUME Safe, NEW w \in Worker, SendAccepted(w)
  PROVE  Contract!Next
  <1> DEFINE r == at[w]
  <1> USE DEF Safe, DispatchInv
  <1>1. /\ r \in Recipient /\ delivery[r] = "DISPATCHING"
        /\ UNCHANGED delivery /\ accepted' = [accepted EXCEPT ![r] = accepted[r] + 1]
    BY DEF SendAccepted, TypeOK, RunsTyped, RunsInv, DeliveriesFit, AttemptPC, rowVars
  <1>2. accepted[r] = 0
    BY <1>1 DEF SendAccepted, ClaimsSafe, AcceptedOnce, Attempting, AttemptPC, TypeOK, EnvTyped
  <1>3. Recorded[r] = "begun" /\ Recorded' = Recorded
    BY <1>1, Records DEF Recorded
  <1> HIDE DEF r
  <1>4. Contract!Take(r)
    BY <1>1, <1>2, <1>3 DEF Contract!Take, Recorded
  <1> QED BY <1>1, <1>4 DEF Contract!Next

\* A failed attempt was not taken, so it may be retried or refused.
LEMMA ContractFailed ==
  ASSUME Safe, NEW w \in Worker, MakeDeliveryRetryable(w) \/ MarkFailed(w)
  PROVE  Contract!Next
  <1> DEFINE r == at[w]
  <1> USE DEF Safe, DispatchInv
  <1>1. /\ r \in Recipient /\ delivery[r] = "DISPATCHING" /\ UNCHANGED accepted
        /\ pc[w] \in AttemptPC \ {"sent", "unknown"}
    BY DEF MakeDeliveryRetryable, MarkFailed, TypeOK, RunsTyped, RunsInv, DeliveriesFit, AttemptPC
  <1>2. accepted[r] = 0
    BY <1>1 DEF ClaimsSafe, AcceptedOnce, Attempting, TypeOK, EnvTyped
  <1>3. Recorded[r] = "begun"
    BY <1>1, Records DEF Recorded
  <1>4. PICK d \in {"FAILED_RETRYABLE", "RESTRICTED", "FAILED_TERMINAL"} :
          delivery' = [delivery EXCEPT ![r] = d]
    BY DEF MakeDeliveryRetryable, MarkFailed
  <1>5. Recorded' = [Recorded EXCEPT ![r] = RecordOf(d)]
    BY <1>1, <1>4, RecordWrite
  <1>6. RecordOf(d) \in {"open", "closed"}
    BY Records DEF Claimable
  <1> HIDE DEF r
  <1>7. Contract!Retry(r) \/ Contract!Refuse(r)
    BY <1>1, <1>2, <1>3, <1>5, <1>6 DEF Contract!Retry, Contract!Refuse, Contract!Becomes, Recorded
  <1> QED BY <1>1, <1>7 DEF Contract!Next

\* A confirmed or reconciled message was taken; recording it twice changes nothing.
LEMMA ContractSent ==
  ASSUME Safe, NEW w \in Worker, MarkSent(w)
  PROVE  Contract!Next \/ UNCHANGED Contract!vars
  <1> DEFINE r == at[w]
  <1> USE DEF Safe, DispatchInv
  <1>1. /\ r \in Recipient /\ UNCHANGED accepted
        /\ delivery[r] \in {"DISPATCHING", "SENT"} \cup Unknown
        /\ delivery' = [delivery EXCEPT ![r] = "SENT"]
    BY DEF MarkSent, TypeOK, RunsTyped, RunsInv, DeliveriesFit, AttemptPC
  <1>2. accepted[r] = 1
    BY <1>1 DEF MarkSent, ClaimsSafe, ConfirmedWasAccepted, AcceptedOnce, TypeOK, EnvTyped
  <1>3. Recorded[r] \in {"begun", "unknown", "sent"}
    BY <1>1, Records DEF Recorded
  <1>4. Recorded' = [Recorded EXCEPT ![r] = "sent"]
    <2>1. RecordOf("SENT") = "sent"
      BY Records
    <2> HIDE DEF r
    <2> QED BY <1>1, <2>1, RecordWrite
  <1> HIDE DEF r
  <1>5. CASE Recorded[r] = "sent"
    BY <1>1, <1>4, <1>5 DEF Contract!vars, Recorded
  <1>6. CASE Recorded[r] # "sent"
    <2>1. Contract!Confirm(r)
      BY <1>1, <1>2, <1>3, <1>4, <1>6 DEF Contract!Confirm, Contract!Becomes, Recorded
    <2> QED BY <1>1, <2>1 DEF Contract!Next
  <1> QED BY <1>5, <1>6

\* An outcome recorded as unknown was begun; a late reconciliation check may
\* turn a sent message back into an unknown one.
LEMMA ContractUnknown ==
  ASSUME Safe, NEW w \in Worker,
         RecoverDispatching(w) \/ MarkDeliveryUnknown(w) \/ ReconcileUnmatched(w)
  PROVE  Contract!Next \/ UNCHANGED Contract!vars
  <1> DEFINE r == at[w]
  <1> USE DEF Safe, DispatchInv
  <1>1. /\ r \in Recipient /\ UNCHANGED accepted
        /\ delivery[r] \in {"DISPATCHING", "SENT"} \cup Unknown
    BY DEF RecoverDispatching, MarkDeliveryUnknown, ReconcileUnmatched, TypeOK, RunsTyped,
       RunsInv, DeliveriesFit, AttemptPC
  <1>2. CASE UNCHANGED delivery
    BY <1>1, <1>2, ContractStutter
  <1>3. CASE \E d \in Unknown : delivery' = [delivery EXCEPT ![r] = d]
    <2>1. Recorded[r] \in {"begun", "unknown", "sent"}
      BY <1>1, Records DEF Recorded
    <2>2. Recorded' = [Recorded EXCEPT ![r] = "unknown"]
      <3>1. PICK d \in Unknown : delivery' = [delivery EXCEPT ![r] = d]
        BY <1>3
      <3>2. RecordOf(d) = "unknown"
        BY Records
      <3> HIDE DEF r
      <3> QED BY <1>1, <3>1, <3>2, RecordWrite
    <2> HIDE DEF r
    <2>3. CASE Recorded[r] = "unknown"
      BY <1>1, <2>2, <2>3 DEF Contract!vars, Recorded
    <2>4. CASE Recorded[r] # "unknown"
      <3>1. Contract!LoseTrack(r)
        BY <1>1, <2>1, <2>2, <2>4 DEF Contract!LoseTrack, Contract!Becomes, Recorded
      <3> QED BY <1>1, <3>1 DEF Contract!Next
    <2> QED BY <2>3, <2>4
  <1> QED BY <1>2, <1>3 DEF RecoverDispatching, MarkDeliveryUnknown, RecordUnknown,
                            ReconcileUnmatched, Unknown

\* Every step of Dispatch is a step of Outreach or a stutter of it.
LEMMA ContractStep ==
  ASSUME Safe, [Next]_vars
  PROVE  [Contract!Next]_Contract!vars
  <1> USE ContractStutter DEF rowVars, DispatchInv, Safe, TypeOK, RowsTyped
  <1>1. CASE Api
    <2>1. ASSUME NEW o \in Operator, QueueWrite(o) PROVE UNCHANGED Contract!vars
      <3>1. \A q \in Recipient : \/ delivery'[q] = delivery[q]
                                 \/ delivery[q] = "NONE" /\ delivery'[q] = "PENDING"
        BY <2>1 DEF QueueWrite
      <3>2. \A q \in Recipient : RecordOf(delivery'[q]) = RecordOf(delivery[q])
        BY <3>1, Records DEF Claimable
      <3> QED BY <2>1, <3>2 DEF QueueWrite, Contract!vars
    <2>2. ASSUME NEW o \in Operator, CancelWrite(o) PROVE FALSE
      BY <2>2 DEF CancelWrite, NoCancelAsked
    <2> QED BY <1>1, <2>1, <2>2 DEF Api, Freeze, FreezeLapses, ExpireFrozen, QueueRead,
               PauseRead, ResumeRead, CancelRead, Ask, PauseWrite, ResumeWrite
  <1>2. CASE Sweep \/ Stall \/ UNCHANGED vars \/ \E k \in Creator : RebuildContact(k)
    BY <1>2 DEF Sweep, SweepSettled, SweepList, SweepEnqueue, SweepFails, Stall, StallSend,
       LoseLock, StallReconcile, Stalled, RebuildContact, vars
  <1>3. ASSUME NEW w \in Worker, Pick(w) \/ Step(w) \/ Exception(w) \/ Crash(w)
        PROVE  [Contract!Next]_Contract!vars
    <2>1. CASE \/ ClaimWrite(w) \/ ClaimExclude(w) \/ SendAccepted(w)
               \/ MakeDeliveryRetryable(w) \/ MarkFailed(w) \/ MarkSent(w)
               \/ RecoverDispatching(w) \/ MarkDeliveryUnknown(w) \/ ReconcileUnmatched(w)
      BY <2>1, ContractClaim, ContractTake, ContractFailed, ContractSent, ContractUnknown
    <2>2. CASE \/ Pick(w) \/ Exception(w) \/ Crash(w) \/ FinishJob(w) \/ DelayJob(w)
               \/ Throw(w) \/ AcknowledgePause(w) \/ NoCreatePermit(w)
               \/ CreateConversation(w) \/ SendPermit(w)
               \/ SendRefused(w) \/ PauseShop(w) \/ YieldToPause(w)
               \/ ScheduleReconciliation(w) \/ CompleteRead(w) \/ CompleteWrite(w)
               \/ ClaimRead(w)
      <3>1. UNCHANGED <<delivery, accepted>>
        BY <2>2 DEF Pick, PickSend, PickReconcile, Exception, Crash, FinishJob, DelayJob,
           Throw, FailRun, AcknowledgePause, NoCreatePermit, CreateConversation, SendPermit,
           SendRefused, PauseShop, YieldToPause, ScheduleReconciliation, CompleteRead,
           CompleteWrite, ClaimRead
      <3> QED BY <3>1
    <2> QED BY <1>3, <2>1, <2>2 DEF Step
  <1> QED BY <1>1, <1>2, <1>3 DEF Next

\* Without cancellation and lost locks the workers, queues, sweepers, pauses,
\* crashes and reconciliations of Dispatch do no more to a message than Outreach.
THEOREM ImplementsOutreach == NoCancel /\ ~LockLoss => (Spec => OutreachContract)
  <1>1. Init => Contract!Init
    BY Records DEF Init, Contract!Init
  <1>2. Safe /\ [Next]_vars => [Contract!Next]_Contract!vars
    BY ContractStep
  <1> QED BY <1>1, <1>2, SafeInvariant, PTL DEF Spec, OutreachContract, Contract!Spec

-----------------------------------------------------------------------------
(* Completion *)

\* A campaign reported complete has nothing left to do ...
CompletedIsOver ==
    \A c \in Campaign :
        campaign[c] \in {"COMPLETED", "COMPLETED_WITH_ERRORS"} => Over(c)

\* ... because a run about to complete it found it over, and it still is.
CompletionsFit ==
    \A w \in Worker : pc[w] \in {"completeOk", "completeErr"} => Over(CampaignOf[at[w]])

Queued(c) == campaign[c] \notin {"PREVIEW_READY", "FROZEN"}

\* Runs of a reconciliation check that have found their delivery unknown.
Judging(w) == pc[w] \in {"matched", "unmatched"}

\* Who may still write a recipient of a campaign that is over: only a
\* reconciliation check that looked while the delivery was unknown and judges
\* after another check settled it.  A claim and the outcome of an attempt find
\* their recipient queued or in processing.
LEMMA LateJudgement ==
  ASSUME Safe, [Next]_vars, NEW c \in Campaign, Queued(c), Over(c),
         NEW r \in Of(c), rcpt'[r] # rcpt[r]
  PROVE  /\ rcpt'[r] \in TerminalRecipient
         /\ \E w \in Worker : /\ at[w] = r /\ Judging(w)
                              /\ delivery[r] # "DELIVERY_UNKNOWN"
  <1> DEFINE Late == /\ rcpt'[r] \in TerminalRecipient
                     /\ \E w \in Worker : /\ at[w] = r /\ Judging(w)
                                          /\ delivery[r] # "DELIVERY_UNKNOWN"
  <1> USE DispatchAssumption DEF Safe, DispatchInv
  <1>0. /\ r \in Recipient /\ CampaignOf[r] = c
        /\ rcpt[r] \in TerminalRecipient \cup {"SELECTED", "DISCOVERED"}
    BY DEF Over, FrozenOf, Of
  <1>1. ~UNCHANGED rcpt
    OBVIOUS
  <1>2. CASE Api
    <2>1. ASSUME NEW b \in Campaign, Freeze(b) \/ ExpireFrozen(b) PROVE FALSE
      <3>1. b # c
        BY <2>1 DEF Freeze, ExpireFrozen, Queued
      <3> QED BY <1>0, <2>1, <3>1 DEF Freeze, ExpireFrozen, Of
    <2>2. ASSUME NEW o \in Operator, QueueWrite(o) PROVE FALSE
      <3> DEFINE frozen == {q \in Of(op[o].campaign) : rcpt[q] = "RESERVED"}
      <3>1. /\ campaign[op[o].campaign] = "FROZEN"
            /\ rcpt' = [q \in Recipient |-> IF q \in frozen THEN "QUEUED" ELSE rcpt[q]]
        BY <1>1, <2>2 DEF QueueWrite
      <3>2. r \notin frozen
        BY <1>0, <3>1 DEF Queued, Of
      <3> QED BY <1>0, <3>1, <3>2
    <2>3. ASSUME NEW o \in Operator, CancelWrite(o) PROVE FALSE
      BY <2>3 DEF CancelWrite, NoCancelAsked
    <2> QED BY <1>1, <1>2, <2>1, <2>2, <2>3 DEF Api, FreezeLapses, QueueRead,
               PauseRead, ResumeRead, CancelRead, Ask, PauseWrite, ResumeWrite, rowVars
  <1>3. CASE Sweep \/ Stall \/ UNCHANGED vars \/ \E k \in Creator : RebuildContact(k)
    BY <1>1, <1>3 DEF Sweep, SweepSettled, SweepList, SweepEnqueue, SweepFails, Stall,
       StallSend, LoseLock, StallReconcile, Stalled, RebuildContact, rowVars, vars
  <1>4. ASSUME NEW w \in Worker, NEW s, rcpt' = [rcpt EXCEPT ![at[w]] = s]
        PROVE  at[w] = r /\ rcpt'[r] = s
    BY <1>0, <1>4 DEF TypeOK, RowsTyped
  <1>5. delivery[r] \notin Claimable \cup {"DISPATCHING", "DELIVERY_UNKNOWN"}
    BY <1>0 DEF RowsAgree, Unknown, TerminalRecipient
  <1>6. ASSUME NEW w \in Worker, \/ ClaimWrite(w) \/ ClaimExclude(w) \/ MakeDeliveryRetryable(w)
               \/ MarkDeliveryUnknown(w) \/ RecoverDispatching(w) \/ MarkFailed(w)
        PROVE  FALSE
    <2>1. delivery[at[w]] \in Claimable \cup {"DISPATCHING"}
      BY <1>6 DEF ClaimWrite, ClaimExclude, MakeDeliveryRetryable, MarkDeliveryUnknown, MarkFailed,
         RecoverDispatching, RunsInv, DeliveriesFit, ClaimPC, AttemptPC
    <2>2. \E s : rcpt' = [rcpt EXCEPT ![at[w]] = s]
      BY <1>6 DEF ClaimWrite, ClaimExclude, MakeDeliveryRetryable, MarkDeliveryUnknown,
         RecoverDispatching, RecordUnknown, MarkFailed
    <2> QED BY <1>4, <1>5, <2>1, <2>2
  <1>7. ASSUME NEW w \in Worker, MarkSent(w) \/ ReconcileUnmatched(w)
        PROVE  Late
    <2>1. PICK s \in TerminalRecipient : rcpt' = [rcpt EXCEPT ![at[w]] = s]
      BY <1>1, <1>7 DEF MarkSent, ReconcileUnmatched, TerminalRecipient
    <2>2. at[w] = r /\ rcpt'[r] = s
      BY <1>4, <2>1
    <2>3. Judging(w)
      BY <1>5, <1>7, <2>2 DEF MarkSent, ReconcileUnmatched, Judging, RunsInv, DeliveriesFit, AttemptPC
    <2> QED BY <1>5, <2>2, <2>3
  <1>8. ASSUME NEW w \in Worker, Pick(w) \/ Step(w) \/ Exception(w) \/ Crash(w)
        PROVE  Late
    BY <1>1, <1>6, <1>7, <1>8, KeepsDeliveries DEF Step, DeliveryKept
  <1> QED BY <1>2, <1>3, <1>8 DEF Next

\* ... and what such a check records is terminal again.
LEMMA OverStays ==
  ASSUME Safe, [Next]_vars, NEW c \in Campaign, Queued(c), Over(c)
  PROVE  Over(c)'
  <1>1. \A r \in Of(c) : rcpt'[r] = rcpt[r] \/ rcpt'[r] \in TerminalRecipient
    BY LateJudgement
  <1>2. \A r \in FrozenOf(c)' : rcpt'[r] \in TerminalRecipient
    BY <1>1 DEF Over, FrozenOf, Of
  <1>3. PICK r \in FrozenOf(c) : TRUE
    BY DEF Over
  <1>4. r \in FrozenOf(c)'
    BY <1>1, <1>3 DEF Over, FrozenOf, Of, TerminalRecipient
  <1> QED BY <1>2, <1>4 DEF Over

\* The campaign states a step may lead to, and the runs it may bring to the
\* point of completing: only a run that found the campaign over completes it.
LEMMA OnlyRunsComplete ==
  ASSUME Safe, [Next]_vars,
         ~\E w \in Worker : CompleteRead(w) \/ CompleteWrite(w)
  PROVE  /\ \A c \in Campaign : campaign'[c] \in {"COMPLETED", "COMPLETED_WITH_ERRORS"} =>
                                  campaign'[c] = campaign[c]
         /\ \A w \in Worker : pc'[w] \in {"completeOk", "completeErr"} =>
                                pc'[w] = pc[w] /\ at'[w] = at[w]
  <1> DEFINE C == \A c \in Campaign : campaign'[c] \in {"COMPLETED", "COMPLETED_WITH_ERRORS"} =>
                                        campaign'[c] = campaign[c]
             P == \A w \in Worker : pc'[w] \in {"completeOk", "completeErr"} =>
                                      pc'[w] = pc[w] /\ at'[w] = at[w]
  <1> USE DispatchAssumption DEF Safe, DispatchInv, TypeOK
  <1>1. CASE Api
    <2>1. UNCHANGED <<pc, at>>
      BY <1>1 DEF Api, Freeze, FreezeLapses, ExpireFrozen, QueueRead, PauseRead, ResumeRead,
         CancelRead, Ask, QueueWrite, PauseWrite, ResumeWrite, CancelWrite, runVars
    <2>2. C
      BY <1>1 DEF Api, Freeze, FreezeLapses, ExpireFrozen, QueueRead, PauseRead, ResumeRead,
         CancelRead, Ask, QueueWrite, PauseWrite, ResumeWrite, CancelWrite, campaignVars,
         CampaignsTyped
    <2> QED BY <2>1, <2>2
  <1>2. CASE Sweep \/ Stall \/ UNCHANGED vars \/ \E k \in Creator : RebuildContact(k)
    BY <1>2 DEF Sweep, SweepSettled, SweepList, SweepEnqueue, SweepFails, Stall,
       StallSend, LoseLock, StallReconcile, Stalled, RebuildContact, campaignVars, runVars, vars
  <1>3. ASSUME NEW w \in Worker, Pick(w) \/ Step(w) \/ Exception(w) \/ Crash(w)
        PROVE  C /\ P
    <2>1. ASSUME NEW r \in Recipient, PickSend(w, r) PROVE C /\ P
      <3>1. FirstStep(delivery[r], campaign[CampaignOf[r]]) \notin {"completeOk", "completeErr"}
        BY DEF FirstStep
      <3> QED BY <2>1, <3>1 DEF PickSend, RunsTyped, campaignVars
    <2>2. ASSUME NEW r \in Recipient, NEW n \in 1..ReconcileAttempts, PickReconcile(w, r, n)
          PROVE  C /\ P
      BY <2>2 DEF PickReconcile, RunsTyped, campaignVars
    <2>3. CASE FinishJob(w) \/ DelayJob(w) \/ Throw(w) \/ Exception(w) \/ Crash(w)
      BY <2>3 DEF FinishJob, DelayJob, Throw, Exception, Crash, FailRun, Idle, RunsTyped, campaignVars
    <2>4. ASSUME NEW p, Goto(w, p), p \notin {"completeOk", "completeErr"} PROVE P
      BY <2>4 DEF Goto, RunsTyped
    <2>5. CASE \/ NoCreatePermit(w) \/ ClaimRead(w) \/ ClaimExclude(w) \/ CreateConversation(w)
               \/ SendPermit(w) \/ SendAccepted(w) \/ SendRefused(w) \/ MarkFailed(w)
               \/ MarkSent(w) \/ MarkDeliveryUnknown(w) \/ RecoverDispatching(w)
               \/ ScheduleReconciliation(w) \/ ReconcileUnmatched(w)
      <3>1. PICK p : Goto(w, p) /\ p \notin {"completeOk", "completeErr"}
        BY <2>5 DEF NoCreatePermit, ClaimRead, ClaimExclude, CreateConversation, SendPermit,
           SendAccepted, SendRefused, Refused, MarkFailed, MarkSent, MarkDeliveryUnknown,
           RecoverDispatching, ScheduleReconciliation, ReconcileUnmatched
      <3>2. UNCHANGED campaign
        BY <2>5 DEF NoCreatePermit, ClaimRead, ClaimExclude, CreateConversation, SendPermit,
           SendAccepted, SendRefused, MarkFailed, MarkSent, MarkDeliveryUnknown,
           RecoverDispatching, ScheduleReconciliation, ReconcileUnmatched, campaignVars
      <3> QED BY <2>4, <3>1, <3>2
    <2>6. CASE MakeDeliveryRetryable(w)
      <3>1. AfterRetryable(pc[w]) \notin {"completeOk", "completeErr"}
        BY DEF AfterRetryable
      <3> QED BY <2>4, <2>6, <3>1 DEF MakeDeliveryRetryable, campaignVars
    <2>7. CASE AcknowledgePause(w) \/ PauseShop(w) \/ YieldToPause(w) \/ ClaimWrite(w)
      <3>1. PICK p : Goto(w, p) /\ p \notin {"completeOk", "completeErr"}
        BY <2>7 DEF AcknowledgePause, PauseShop, YieldToPause, ClaimWrite
      <3>2. C
        BY <2>7 DEF AcknowledgePause, PauseShop, YieldToPause, ClaimWrite, CampaignsTyped
      <3> QED BY <2>4, <3>1, <3>2
    <2>8. ~(CompleteRead(w) \/ CompleteWrite(w))
      OBVIOUS
    <2> HIDE DEF C, P
    <2> QED BY <1>3, <2>1, <2>2, <2>3, <2>5, <2>6, <2>7, <2>8 DEF Pick, Step
  <1> QED BY <1>1, <1>2, <1>3 DEF Next

\* What completion rests on.
CompletionInv == Safe /\ CompletionsFit /\ CompletedIsOver

LEMMA CompletionStep == CompletionInv /\ [Next]_vars => CompletionsFit' /\ CompletedIsOver'
  <1> SUFFICES ASSUME CompletionInv, [Next]_vars PROVE CompletionsFit' /\ CompletedIsOver'
    OBVIOUS
  <1> USE DispatchAssumption DEF CompletionInv
  <1>1. ASSUME NEW w \in Worker, pc[w] \in {"completeOk", "completeErr"},
               NEW c, c = CampaignOf[at[w]]
        PROVE  c \in Campaign /\ Over(c)'
    <2>1. at[w] \in Recipient /\ c \in Campaign
      BY <1>1 DEF Safe, DispatchInv, TypeOK, RunsTyped
    <2>2. Queued(c)
      BY <1>1, <2>1 DEF Safe, Exclusion, NotQueuedYet, RunsInv, DeliveriesFit, Queued
    <2> QED BY <1>1, <2>1, <2>2, OverStays DEF CompletionsFit
  <1>2. ASSUME NEW c \in Campaign, campaign[c] \in {"COMPLETED", "COMPLETED_WITH_ERRORS"}
        PROVE  Over(c)'
    BY <1>2, OverStays DEF Queued, CompletedIsOver
  <1>3. CASE ~\E w \in Worker : CompleteRead(w) \/ CompleteWrite(w)
    BY <1>1, <1>2, <1>3, OnlyRunsComplete DEF CompletionsFit, CompletedIsOver
  <1>4. ASSUME NEW w \in Worker, CompleteRead(w)
        PROVE  CompletionsFit' /\ CompletedIsOver'
    <2> DEFINE c == CampaignOf[at[w]]
    <2>1. UNCHANGED <<campaign, rcpt, at>> /\ \A v \in Worker \ {w} : pc'[v] = pc[v]
      BY <1>4 DEF CompleteRead, Goto, campaignVars, rowVars, Safe, DispatchInv, TypeOK, RunsTyped
    <2>2. pc'[w] \in {"completeOk", "completeErr"} => AllEnded({rcpt[r] : r \in FrozenOf(c)})
      BY <1>4 DEF CompleteRead, Goto, Safe, DispatchInv, TypeOK, RunsTyped
    <2>3. pc'[w] \in {"completeOk", "completeErr"} => Over(c)
      BY <2>2 DEF AllEnded, Over
    <2>4. \A b : Over(b)' <=> Over(b)
      BY <2>1 DEF Over, FrozenOf
    <2> QED BY <1>1, <2>1, <2>3, <2>4 DEF CompletionsFit, CompletedIsOver
  <1>5. ASSUME NEW w \in Worker, CompleteWrite(w)
        PROVE  CompletionsFit' /\ CompletedIsOver'
    <2> DEFINE c == CampaignOf[at[w]]
    <2>1. /\ UNCHANGED at /\ \A v \in Worker \ {w} : pc'[v] = pc[v]
          /\ pc'[w] = "done" /\ pc[w] \in {"completeOk", "completeErr"}
          /\ \A b \in Campaign \ {c} : campaign'[b] = campaign[b]
      BY <1>5 DEF CompleteWrite, Goto, Safe, DispatchInv, TypeOK, RunsTyped, CampaignsTyped
    <2>2. Over(c)'
      BY <1>1, <2>1
    <2> QED BY <1>1, <1>2, <2>1, <2>2 DEF CompletionsFit, CompletedIsOver
  <1> QED BY <1>3, <1>4, <1>5

LEMMA CompletionInvariant == NoCancel /\ ~LockLoss => (Spec => []CompletionInv)
  <1> SUFFICES ASSUME NoCancel, ~LockLoss PROVE Spec => []CompletionInv
    OBVIOUS
  <1>1. Init => CompletionsFit /\ CompletedIsOver
    BY DEF Init, CompletionsFit, CompletedIsOver
  <1>2. Safe /\ CompletionsFit /\ CompletedIsOver /\ [Next]_vars
          => CompletionsFit' /\ CompletedIsOver'
    BY CompletionStep DEF CompletionInv
  <1> QED BY <1>1, <1>2, SafeInvariant, PTL DEF Spec, CompletionInv

-----------------------------------------------------------------------------
(* Completion while nothing has failed *)

Reconciling(w) == pc[w] # "idle" /\ task[w] # 0

\* A delivery's checks follow one another: a later one is scheduled only when
\* the one before it has judged ...
ChecksInOrder ==
    \A r \in Recipient : \A n, m \in 1..ReconcileAttempts : n < m =>
        /\ recon[r][n] \in {"none", "waiting"} => recon[r][m] = "none"
        /\ (\E w \in Worker : Runs(w, r, n) /\ Judging(w)) => recon[r][m] = "none"

\* ... an active one has exactly one run, and no one else settles the delivery
\* it is judging.
ChecksRun ==
    \A r \in Recipient : \A n \in 1..ReconcileAttempts :
        recon[r][n] = "active" => \E w \in Worker : Runs(w, r, n)
RunsCheck ==
    \A w \in Worker : Reconciling(w) => recon[at[w]][task[w]] = "active"
OneRunPerCheck ==
    \A v, w \in Worker :
        Reconciling(v) /\ Reconciling(w) /\ at[v] = at[w] /\ task[v] = task[w] => v = w
JudgedUnknown ==
    \A w \in Worker : Judging(w) => delivery[at[w]] = "DELIVERY_UNKNOWN"

ChecksInv == ChecksInOrder /\ ChecksRun /\ RunsCheck /\ OneRunPerCheck /\ JudgedUnknown

\* Two runs that judge the same delivery are one.
LEMMA OneJudge ==
  ASSUME TypeOK, RunsInv, ChecksInv, NEW v \in Worker, NEW w \in Worker,
         Judging(v), Judging(w), at[v] = at[w]
  PROVE  v = w
  <1>1. /\ at[w] \in Recipient
        /\ Reconciling(v) /\ Reconciling(w)
        /\ task[v] \in 1..ReconcileAttempts /\ task[w] \in 1..ReconcileAttempts
    BY DispatchAssumption DEF TypeOK, RunsTyped, RunsInv, TasksFit, Judging, Reconciling
  <1>2. recon[at[v]][task[v]] = "active" /\ recon[at[w]][task[w]] = "active"
    BY <1>1 DEF ChecksInv, RunsCheck
  <1>3. ~(task[v] < task[w]) /\ ~(task[w] < task[v])
    BY <1>1, <1>2 DEF ChecksInv, ChecksInOrder, Runs, Reconciling
  <1>4. task[v] = task[w]
    BY <1>1, <1>3
  <1> QED BY <1>1, <1>4 DEF ChecksInv, OneRunPerCheck

\* Runs that stay at their check, and judge no more than they did.
Staying ==
    \A w \in Worker :
        /\ \/ /\ at'[w] = at[w] /\ task'[w] = task[w]
              /\ pc[w] = "idle" <=> pc'[w] = "idle"
           \/ ~Reconciling(w) /\ (pc'[w] = "idle" \/ task'[w] = 0)
        /\ pc'[w] \in {"matched", "unmatched"} =>
             /\ pc[w] \in {"matched", "unmatched"} /\ at'[w] = at[w] /\ task'[w] = task[w]
             /\ delivery'[at[w]] = delivery[at[w]]

\* Steps that touch no check.
LEMMA ChecksKept ==
  ASSUME TypeOK, RunsInv, ChecksInv, UNCHANGED recon, Staying
  PROVE  ChecksInv'
  <1> USE DEF ChecksInv
  <1>1. ChecksRun'
    BY DEF ChecksRun, Staying, Runs, Reconciling
  <1>2. RunsCheck'
    BY DEF RunsCheck, Staying, Reconciling
  <1>3. OneRunPerCheck'
    BY DEF OneRunPerCheck, Staying, Reconciling
  <1>4. JudgedUnknown'
    BY DEF JudgedUnknown, Staying, Judging
  <1>5. ChecksInOrder'
    BY DEF ChecksInOrder, Staying, Judging, Runs
  <1> QED BY <1>1, <1>2, <1>3, <1>4, <1>5

\* A check is scheduled: the first one, or the next one by the run that judged
\* the one before it.
LEMMA ChecksScheduled ==
  ASSUME TypeOK, RunsInv, ChecksInv, Staying,
         NEW r \in Recipient, NEW n \in 1..ReconcileAttempts, AddReconcile(r, n),
         n = 1 \/ /\ recon[r][n - 1] = "active"
                  /\ \A v \in Worker : pc'[v] \in {"matched", "unmatched"} =>
                        ~(at[v] = r /\ task[v] = n - 1)
  PROVE  ChecksInv'
  <1> USE DispatchAssumption DEF ChecksInv
  <1>1. CASE recon[r][n] # "none"
    <2>1. recon' = recon
      <3>1. [recon[r] EXCEPT ![n] = recon[r][n]] = recon[r]
        BY DEF TypeOK, JobsTyped
      <3>2. [recon EXCEPT ![r] = recon[r]] = recon
        BY DEF TypeOK, JobsTyped
      <3>3. recon' = [recon EXCEPT ![r] = [recon[r] EXCEPT ![n] = recon[r][n]]]
        BY <1>1 DEF AddReconcile, TypeOK, JobsTyped
      <3> QED BY <3>1, <3>2, <3>3
    <2> QED BY <2>1, ChecksKept
  <1>2. CASE recon[r][n] = "none"
    <2>1. /\ recon'[r][n] = "waiting"
          /\ \A q \in Recipient : \A m \in 1..ReconcileAttempts :
                q # r \/ m # n => recon'[q][m] = recon[q][m]
      BY <1>2 DEF AddReconcile, TypeOK, JobsTyped
    <2>2. ChecksRun'
      BY <2>1 DEF ChecksRun, Staying, Runs, Reconciling
    <2>3. RunsCheck'
      BY <1>2, <2>1 DEF RunsCheck, Staying, Reconciling, TypeOK, RunsTyped
    <2>4. OneRunPerCheck'
      BY DEF OneRunPerCheck, Staying, Reconciling
    <2>5. JudgedUnknown'
      BY DEF JudgedUnknown, Staying, Judging
    <2>6. ChecksInOrder'
      <3> SUFFICES ASSUME NEW q \in Recipient, NEW a \in 1..ReconcileAttempts,
                          NEW b \in 1..ReconcileAttempts, a < b
                   PROVE  /\ recon'[q][a] \in {"none", "waiting"} => recon'[q][b] = "none"
                          /\ (\E v \in Worker : Runs(v, q, a)' /\ Judging(v)') => recon'[q][b] = "none"
        BY DEF ChecksInOrder
      <3>1. \A v \in Worker : Runs(v, q, a)' /\ Judging(v)' => Runs(v, q, a) /\ Judging(v)
        BY DEF Staying, Runs, Judging
      <3>2. CASE q = r /\ b = n
        <4>1. n # 1 /\ n - 1 \in 1..ReconcileAttempts /\ recon[r][n - 1] = "active"
          BY <3>2
        <4>2. CASE a = n - 1
          <5>1. recon'[q][a] = "active"
            BY <2>1, <3>2, <4>1, <4>2
          <5>2. \A v \in Worker : ~(Runs(v, q, a)' /\ Judging(v)')
            BY <3>2, <4>2, <4>1 DEF Staying, Runs, Judging
          <5> QED BY <5>1, <5>2
        <4>3. CASE a < n - 1
          <5>1. recon[r][a] \notin {"none", "waiting"}
                /\ ~\E v \in Worker : Runs(v, r, a) /\ Judging(v)
            BY <4>1, <4>3 DEF ChecksInOrder
          <5> QED BY <2>1, <3>1, <3>2, <4>3, <5>1
        <4> QED BY <3>2, <4>2, <4>3
      <3>3. CASE ~(q = r /\ b = n)
        <4>1. recon[q][a] \in {"none", "waiting"} => recon[q][b] = "none"
          BY DEF ChecksInOrder
        <4>2. (\E v \in Worker : Runs(v, q, a) /\ Judging(v)) => recon[q][b] = "none"
          BY DEF ChecksInOrder
        <4>3. recon'[q][b] = recon[q][b]
          BY <2>1, <3>3
        <4>4. recon'[q][a] = recon[q][a] \/ recon[q][a] = "none"
          BY <1>2, <2>1
        <4> QED BY <3>1, <4>1, <4>2, <4>3, <4>4
      <3> QED BY <3>2, <3>3
    <2> QED BY <2>2, <2>3, <2>4, <2>5, <2>6
  <1> QED BY <1>1, <1>2

\* A check is taken up by one run, which finds it waiting.
LEMMA ChecksPicked ==
  ASSUME TypeOK, RunsInv, ChecksInv, NEW w \in Worker, NEW r \in Recipient,
         NEW n \in 1..ReconcileAttempts, PickReconcile(w, r, n)
  PROVE  ChecksInv'
  <1> USE DispatchAssumption DEF ChecksInv
  <1>1. /\ pc[w] = "idle" /\ task[w] = 0
        /\ pc'[w] \in {"matched", "unmatched", "done"} /\ at'[w] = r /\ task'[w] = n
        /\ pc'[w] # "done" => delivery[r] = "DELIVERY_UNKNOWN"
        /\ \A v \in Worker \ {w} : pc'[v] = pc[v] /\ at'[v] = at[v] /\ task'[v] = task[v]
        /\ UNCHANGED delivery
        /\ recon[r][n] = "waiting" /\ recon'[r][n] = "active"
        /\ \A q \in Recipient : \A m \in 1..ReconcileAttempts :
              q # r \/ m # n => recon'[q][m] = recon[q][m]
    BY DEF PickReconcile, Judgeable, TypeOK, RunsTyped, JobsTyped, rowVars, RunsInv, TasksFit
  <1>2. \A v \in Worker \ {w} : ~(Reconciling(v) /\ at[v] = r /\ task[v] = n)
    BY <1>1 DEF RunsCheck
  <1>3. ChecksRun'
    BY <1>1 DEF ChecksRun, Runs
  <1>4. RunsCheck'
    BY <1>1 DEF RunsCheck, Reconciling, TypeOK, RunsTyped
  <1>5. OneRunPerCheck'
    BY <1>1, <1>2 DEF OneRunPerCheck, Reconciling
  <1>6. JudgedUnknown'
    BY <1>1 DEF JudgedUnknown, Judging
  <1>7. ChecksInOrder'
    <2> SUFFICES ASSUME NEW q \in Recipient, NEW a \in 1..ReconcileAttempts,
                        NEW b \in 1..ReconcileAttempts, a < b
                 PROVE  /\ recon'[q][a] \in {"none", "waiting"} => recon'[q][b] = "none"
                        /\ (\E v \in Worker : Runs(v, q, a)' /\ Judging(v)') => recon'[q][b] = "none"
      BY DEF ChecksInOrder
    <2>1. /\ recon[q][a] \in {"none", "waiting"} => recon[q][b] = "none"
          /\ (\E v \in Worker : Runs(v, q, a) /\ Judging(v)) => recon[q][b] = "none"
      BY DEF ChecksInOrder
    <2>2. \A v \in Worker : Runs(v, q, a)' /\ Judging(v)' =>
             (Runs(v, q, a) /\ Judging(v)) \/ (q = r /\ a = n)
      BY <1>1 DEF Runs, Judging
    <2> QED BY <1>1, <2>1, <2>2
  <1> QED BY <1>3, <1>4, <1>5, <1>6, <1>7

\* A check is over when its run ends.
LEMMA ChecksFinished ==
  ASSUME TypeOK, RunsInv, ChecksInv, NEW w \in Worker, FinishJob(w), task[w] # 0
  PROVE  ChecksInv'
  <1> DEFINE r == at[w]  n == task[w]
  <1> USE DispatchAssumption DEF ChecksInv
  <1>1. /\ r \in Recipient /\ n \in 1..ReconcileAttempts
        /\ Reconciling(w) /\ ~Judging(w)
        /\ pc'[w] = "idle" /\ task'[w] = 0
        /\ \A v \in Worker \ {w} : pc'[v] = pc[v] /\ at'[v] = at[v] /\ task'[v] = task[v]
        /\ UNCHANGED delivery
        /\ recon[r][n] = "active" /\ recon'[r][n] = "over"
        /\ \A q \in Recipient : \A m \in 1..ReconcileAttempts :
              q # r \/ m # n => recon'[q][m] = recon[q][m]
    BY DEF FinishJob, Idle, TypeOK, RunsTyped, JobsTyped, rowVars, RunsCheck, Reconciling, Judging
  <1>2. \A v \in Worker \ {w} : ~(Reconciling(v) /\ at[v] = r /\ task[v] = n)
    BY <1>1 DEF OneRunPerCheck
  <1> HIDE DEF r, n
  <1>3. ChecksRun'
    BY <1>1 DEF ChecksRun, Runs, r, n
  <1>4. RunsCheck'
    BY <1>1, <1>2 DEF RunsCheck, Reconciling, TypeOK, RunsTyped
  <1>5. OneRunPerCheck'
    BY <1>1 DEF OneRunPerCheck, Reconciling
  <1>6. JudgedUnknown'
    BY <1>1 DEF JudgedUnknown, Judging
  <1>7. ChecksInOrder'
    <2> SUFFICES ASSUME NEW q \in Recipient, NEW a \in 1..ReconcileAttempts,
                        NEW b \in 1..ReconcileAttempts, a < b
                 PROVE  /\ recon'[q][a] \in {"none", "waiting"} => recon'[q][b] = "none"
                        /\ (\E v \in Worker : Runs(v, q, a)' /\ Judging(v)') => recon'[q][b] = "none"
      BY DEF ChecksInOrder
    <2>1. /\ recon[q][a] \in {"none", "waiting"} => recon[q][b] = "none"
          /\ (\E v \in Worker : Runs(v, q, a) /\ Judging(v)) => recon[q][b] = "none"
      BY DEF ChecksInOrder
    <2>2. \A v \in Worker : Runs(v, q, a)' /\ Judging(v)' => Runs(v, q, a) /\ Judging(v)
      BY <1>1 DEF Runs, Judging
    <2> QED BY <1>1, <2>1, <2>2
  <1> QED BY <1>3, <1>4, <1>5, <1>6, <1>7

\* A run that goes on disturbs no check, if the deliveries others are judging stay.
LEMMA StayingRun ==
  ASSUME TypeOK, NEW w \in Worker, NEW p, Goto(w, p), p \notin {"idle", "matched", "unmatched"},
         pc[w] # "idle",
         \A v \in Worker \ {w} : Judging(v) => delivery'[at[v]] = delivery[at[v]]
  PROVE  Staying
  BY DEF Staying, Goto, TypeOK, RunsTyped, Judging

\* A run that writes its delivery is not beside a run that judges it.
LEMMA JudgedAlone ==
  ASSUME Safe, ChecksInv, NEW w \in Worker,
         pc[w] \in AttemptPC \cup ClaimPC \cup {"recover", "matched", "unmatched"},
         NEW d, delivery' = [delivery EXCEPT ![at[w]] = d],
         NEW v \in Worker \ {w}, Judging(v)
  PROVE  delivery'[at[v]] = delivery[at[v]]
  <1> USE DEF Safe, DispatchInv
  <1>1. at[v] \in Recipient
    BY DEF Judging, TypeOK, RunsTyped
  <1>2. at[v] # at[w]
    <2>1. CASE pc[w] \in {"matched", "unmatched"}
      BY <2>1, OneJudge DEF Judging
    <2>2. CASE pc[w] \in AttemptPC \cup ClaimPC \cup {"recover"}
      BY <2>2 DEF RunsInv, DeliveriesFit, ChecksInv, JudgedUnknown, Claimable
    <2> QED BY <2>1, <2>2
  <1> QED BY <1>1, <1>2 DEF TypeOK, RowsTyped

\* Steps of the API, the sweepers and history move no run and no check.
LEMMA ChecksUnmoved ==
  ASSUME TypeOK, RunsInv, ChecksInv, UNCHANGED <<pc, at, task, recon>>,
         \A r \in Recipient : delivery[r] = "DELIVERY_UNKNOWN" => delivery'[r] = delivery[r]
  PROVE  ChecksInv'
  <1>1. Staying
    BY DEF Staying, ChecksInv, JudgedUnknown, Judging, TypeOK, RunsTyped
  <1> QED BY <1>1, ChecksKept

\* While nothing fails, every check has its run and every run judges alone.
LEMMA ChecksStep ==
  ASSUME Safe, ChecksInv, [Next]_vars, faults' = 0
  PROVE  ChecksInv'
  <1> USE DispatchAssumption DEF Safe, DispatchInv
  <1>0. faults' # faults + 1
    BY DEF TypeOK, EnvTyped
  <1>1. CASE UNCHANGED <<pc, at, task, recon, delivery>>
    BY <1>1, ChecksUnmoved
  <1>2. CASE Api
    <2>1. UNCHANGED <<pc, at, task, recon>>
      BY <1>2 DEF Api, Freeze, FreezeLapses, ExpireFrozen, QueueRead, PauseRead, ResumeRead,
         CancelRead, Ask, QueueWrite, PauseWrite, ResumeWrite, CancelWrite, runVars, jobVars
    <2>2. \A r \in Recipient : delivery[r] = "DELIVERY_UNKNOWN" => delivery'[r] = delivery[r]
      <3>1. ASSUME NEW o \in Operator, CancelWrite(o) PROVE FALSE
        BY <3>1 DEF CancelWrite, NoCancelAsked
      <3>2. ASSUME NEW o \in Operator, QueueWrite(o)
            PROVE  \A r \in Recipient : delivery[r] = "DELIVERY_UNKNOWN" => delivery'[r] = delivery[r]
        BY <3>2 DEF QueueWrite
      <3> QED BY <1>2, <3>1, <3>2 DEF Api, Freeze, FreezeLapses, ExpireFrozen, QueueRead, PauseRead,
                 ResumeRead, CancelRead, Ask, PauseWrite, ResumeWrite, rowVars
    <2> QED BY <2>1, <2>2, ChecksUnmoved
  <1>3. CASE Sweep \/ UNCHANGED vars \/ \E k \in Creator : RebuildContact(k)
    BY <1>1, <1>3 DEF Sweep, SweepSettled, SweepList, SweepEnqueue, SweepFails, RebuildContact,
       rowVars, runVars, jobVars, vars
  <1>4. CASE Stall
    <2>1. ASSUME NEW r \in Recipient, NEW n \in 1..ReconcileAttempts, StallReconcile(r, n)
          PROVE  FALSE
      BY <2>1 DEF StallReconcile, ChecksInv, ChecksRun
    <2> QED BY <1>1, <1>4, <2>1 DEF Stall, StallSend, LoseLock, Stalled, rowVars, runVars
  <1>5. ASSUME NEW w \in Worker, Pick(w) \/ Step(w) \/ Exception(w) \/ Crash(w)
        PROVE  ChecksInv'
    <2>1. ~Exception(w) /\ ~Crash(w)
      BY <1>0 DEF Exception, Crash, Fault
    <2>2. ASSUME NEW r \in Recipient, PickSend(w, r) PROVE ChecksInv'
      <3>1. FirstStep(delivery[r], campaign[CampaignOf[r]]) \notin {"matched", "unmatched"}
        BY DEF FirstStep
      <3>2. task[w] = 0
        BY <2>2 DEF PickSend, RunsInv, TasksFit
      <3>3. Staying /\ UNCHANGED recon
        BY <2>2, <3>1, <3>2 DEF PickSend, Staying, Reconciling, TypeOK, RunsTyped, rowVars
      <3> QED BY <3>3, ChecksKept
    <2>3. ASSUME NEW r \in Recipient, NEW n \in 1..ReconcileAttempts, PickReconcile(w, r, n)
          PROVE  ChecksInv'
      BY <2>3, ChecksPicked
    <2>4. CASE FinishJob(w) \/ DelayJob(w) \/ Throw(w)
      <3>1. CASE FinishJob(w) /\ task[w] # 0
        BY <3>1, ChecksFinished
      <3>2. CASE task[w] = 0
        <4>1. Staying /\ UNCHANGED recon
          BY <2>4, <3>2 DEF FinishJob, DelayJob, Throw, FailRun, Idle, Staying, Reconciling,
             TypeOK, RunsTyped, rowVars
        <4> QED BY <4>1, ChecksKept
      <3>3. CASE task[w] # 0 /\ ~FinishJob(w)
        BY <2>4, <3>3 DEF DelayJob, Throw, RunsInv, TasksFit, ReconcilePC
      <3> QED BY <3>1, <3>2, <3>3
    <2>5. ASSUME NEW p, Goto(w, p), p \notin {"idle", "matched", "unmatched"},
                 pc[w] # "idle", UNCHANGED <<delivery, recon>>
          PROVE  ChecksInv'
      BY <2>5, StayingRun, ChecksKept
    <2>6. ASSUME NEW p, Goto(w, p), p \notin {"idle", "matched", "unmatched"},
                 NEW d, delivery' = [delivery EXCEPT ![at[w]] = d], UNCHANGED recon,
                 pc[w] \in AttemptPC \cup ClaimPC \cup {"recover", "matched", "unmatched"}
          PROVE  ChecksInv'
      <3>1. \A v \in Worker \ {w} : Judging(v) => delivery'[at[v]] = delivery[at[v]]
        BY <2>6, JudgedAlone
      <3>2. pc[w] # "idle"
        BY <2>6 DEF AttemptPC, ClaimPC
      <3> QED BY <2>6, <3>1, <3>2, StayingRun, ChecksKept
    <2>7. CASE \/ AcknowledgePause(w) \/ NoCreatePermit(w) \/ ClaimRead(w) \/ CreateConversation(w)
               \/ SendPermit(w) \/ SendAccepted(w) \/ SendRefused(w) \/ PauseShop(w)
               \/ YieldToPause(w) \/ CompleteRead(w) \/ CompleteWrite(w)
      <3>1. PICK p : Goto(w, p) /\ p \notin {"idle", "matched", "unmatched"}
        BY <2>7 DEF AcknowledgePause, NoCreatePermit, ClaimRead, CreateConversation, SendPermit,
           SendAccepted, SendRefused, Refused, PauseShop, YieldToPause, CompleteRead, CompleteWrite
      <3>2. UNCHANGED <<delivery, recon>> /\ pc[w] # "idle"
        BY <2>7 DEF AcknowledgePause, NoCreatePermit, ClaimRead, CreateConversation, SendPermit,
           SendAccepted, SendRefused, PauseShop, YieldToPause, CompleteRead, CompleteWrite,
           Stay, jobVars, rowVars
      <3> QED BY <2>5, <3>1, <3>2
    <2>8. CASE \/ ClaimWrite(w) \/ ClaimExclude(w) \/ MarkFailed(w) \/ MarkSent(w)
               \/ MarkDeliveryUnknown(w) \/ RecoverDispatching(w)
      <3>1. PICK p : Goto(w, p) /\ p \notin {"idle", "matched", "unmatched"}
        BY <2>8 DEF ClaimWrite, ClaimExclude, MarkFailed, MarkSent, MarkDeliveryUnknown,
           RecoverDispatching
      <3>2. PICK d : delivery' = [delivery EXCEPT ![at[w]] = d]
        BY <2>8 DEF ClaimWrite, ClaimExclude, MarkFailed, MarkSent, MarkDeliveryUnknown,
           RecoverDispatching, RecordUnknown
      <3>3. UNCHANGED recon /\ pc[w] \in AttemptPC \cup ClaimPC \cup {"recover", "matched", "unmatched"}
        BY <2>8 DEF ClaimWrite, ClaimExclude, MarkFailed, MarkSent, MarkDeliveryUnknown,
           RecoverDispatching, Stay, jobVars, AttemptPC, ClaimPC
      <3> QED BY <2>6, <3>1, <3>2, <3>3
    <2>9. CASE MakeDeliveryRetryable(w)
      <3>1. AfterRetryable(pc[w]) \notin {"idle", "matched", "unmatched"}
        BY DEF AfterRetryable
      <3> QED BY <2>6, <2>9, <3>1 DEF MakeDeliveryRetryable, Stay, jobVars, AttemptPC
    <2>10. CASE ScheduleReconciliation(w)
      <3>1. at[w] \in Recipient /\ 1 \in 1..ReconcileAttempts
        BY <2>10 DEF ScheduleReconciliation, TypeOK, RunsTyped
      <3>2. UNCHANGED delivery
        BY <2>10 DEF ScheduleReconciliation, rowVars
      <3>3. Staying
        BY <2>10, <3>2, StayingRun DEF ScheduleReconciliation
      <3>4. AddReconcile(at[w], 1)
        BY <2>10 DEF ScheduleReconciliation
      <3> QED BY <3>1, <3>3, <3>4, ChecksScheduled
    <2>11. CASE ReconcileUnmatched(w) /\ ~(task[w] < ReconcileAttempts)
      <3>1. /\ delivery' = [delivery EXCEPT ![at[w]] = "DELIVERY_UNKNOWN_UNRESOLVED"]
            /\ UNCHANGED recon /\ Goto(w, "complete") /\ pc[w] = "unmatched"
        BY <2>11 DEF ReconcileUnmatched
      <3> QED BY <2>6, <3>1
    <2>12. CASE ReconcileUnmatched(w) /\ task[w] < ReconcileAttempts
      <3>1. /\ at[w] \in Recipient /\ task[w] \in 1..ReconcileAttempts
            /\ task[w] + 1 \in 1..ReconcileAttempts
            /\ Judging(w) /\ Reconciling(w)
        BY <2>12 DEF ReconcileUnmatched, TypeOK, RunsTyped, RunsInv, TasksFit, Judging, Reconciling
      <3>2. /\ UNCHANGED delivery /\ Goto(w, "complete")
            /\ AddReconcile(at[w], task[w] + 1)
        BY <2>12 DEF ReconcileUnmatched
      <3>3. Staying
        BY <3>1, <3>2, StayingRun DEF Judging
      <3>4. recon[at[w]][task[w]] = "active"
        BY <3>1 DEF ChecksInv, RunsCheck
      <3>5. \A v \in Worker : pc'[v] \in {"matched", "unmatched"} =>
                                ~(at[v] = at[w] /\ task[v] = task[w])
        <4> SUFFICES ASSUME NEW v \in Worker, pc'[v] \in {"matched", "unmatched"},
                            at[v] = at[w]
                     PROVE  FALSE
          OBVIOUS
        <4>1. v # w /\ Judging(v)
          BY <3>2 DEF Goto, TypeOK, RunsTyped, Judging
        <4> QED BY <3>1, <4>1, OneJudge
      <3> DEFINE r == at[w]  n == task[w] + 1
      <3>6. n - 1 = task[w] /\ r \in Recipient /\ n \in 1..ReconcileAttempts
        BY <3>1
      <3>7. n = 1 \/ /\ recon[r][n - 1] = "active"
                     /\ \A v \in Worker : pc'[v] \in {"matched", "unmatched"} =>
                           ~(at[v] = r /\ task[v] = n - 1)
        BY <3>4, <3>5, <3>6
      <3>8. AddReconcile(r, n)
        BY <3>2
      <3> HIDE DEF r, n
      <3> QED BY <3>3, <3>6, <3>7, <3>8, ChecksScheduled
    <2> QED BY <1>5, <2>1, <2>2, <2>3, <2>4, <2>7, <2>8, <2>9, <2>10, <2>11, <2>12 DEF Pick, Step
  <1> QED BY <1>2, <1>3, <1>4, <1>5 DEF Next

\* A campaign whose recipients have all been sent.
AllSent(c) == \A r \in FrozenOf(c) : rcpt[r] = "SENT"

\* A run completes its campaign as the recipients are, not as they were.
CompletionsTruthful ==
    \A w \in Worker : /\ pc[w] = "completeOk" => AllSent(CampaignOf[at[w]])
                      /\ pc[w] = "completeErr" => ~AllSent(CampaignOf[at[w]])

\* ... and so says the campaign.
Truth == \A c \in Campaign : /\ campaign[c] = "COMPLETED" => AllSent(c)
                             /\ campaign[c] = "COMPLETED_WITH_ERRORS" => ~AllSent(c)

\* While nothing fails, a campaign that is over stays exactly as it is.
LEMMA EndedStays ==
  ASSUME Safe, ChecksInv, [Next]_vars, NEW c \in Campaign, Queued(c), Over(c)
  PROVE  AllSent(c)' <=> AllSent(c)
  <1>1. \A r \in Of(c) : rcpt'[r] = rcpt[r]
    BY LateJudgement DEF ChecksInv, JudgedUnknown
  <1> QED BY <1>1 DEF AllSent, FrozenOf, Of

LEMMA TruthStep ==
  ASSUME CompletionInv, ChecksInv, CompletionsTruthful, Truth, [Next]_vars
  PROVE  CompletionsTruthful' /\ Truth'
  <1> USE DispatchAssumption DEF CompletionInv
  <1>1. ASSUME NEW w \in Worker, pc[w] \in {"completeOk", "completeErr"},
               NEW c, c = CampaignOf[at[w]]
        PROVE  c \in Campaign /\ (AllSent(c)' <=> AllSent(c))
    <2>1. at[w] \in Recipient /\ c \in Campaign
      BY <1>1 DEF Safe, DispatchInv, TypeOK, RunsTyped
    <2>2. Queued(c)
      BY <1>1, <2>1 DEF Safe, Exclusion, NotQueuedYet, RunsInv, DeliveriesFit, Queued
    <2> QED BY <1>1, <2>1, <2>2, EndedStays DEF CompletionsFit
  <1>2. ASSUME NEW c \in Campaign, campaign[c] \in {"COMPLETED", "COMPLETED_WITH_ERRORS"}
        PROVE  AllSent(c)' <=> AllSent(c)
    BY <1>2, EndedStays DEF Queued, CompletedIsOver
  <1>3. CASE ~\E w \in Worker : CompleteRead(w) \/ CompleteWrite(w)
    <2>1. CompletionsTruthful'
      BY <1>1, <1>3, OnlyRunsComplete DEF CompletionsTruthful
    <2>2. Truth'
      BY <1>2, <1>3, OnlyRunsComplete DEF Truth
    <2> QED BY <2>1, <2>2
  <1>4. ASSUME NEW w \in Worker, CompleteRead(w)
        PROVE  CompletionsTruthful' /\ Truth'
    <2> DEFINE c == CampaignOf[at[w]]
    <2>1. UNCHANGED <<campaign, rcpt, at>> /\ \A v \in Worker \ {w} : pc'[v] = pc[v]
      BY <1>4 DEF CompleteRead, Goto, campaignVars, rowVars, Safe, DispatchInv, TypeOK, RunsTyped
    <2>2. /\ pc'[w] = "completeOk" => {rcpt[r] : r \in FrozenOf(c)} = {"SENT"}
          /\ pc'[w] = "completeErr" => {rcpt[r] : r \in FrozenOf(c)} # {"SENT"}
                                       /\ {rcpt[r] : r \in FrozenOf(c)} # {}
      BY <1>4 DEF CompleteRead, Goto, AllEnded, Safe, DispatchInv, TypeOK, RunsTyped
    <2>3. /\ pc'[w] = "completeOk" => AllSent(c)
          /\ pc'[w] = "completeErr" => ~AllSent(c)
      BY <2>2 DEF AllSent
    <2>4. \A b : AllSent(b)' <=> AllSent(b)
      BY <2>1 DEF AllSent, FrozenOf
    <2>5. Truth'
      BY <2>1, <2>4 DEF Truth
    <2> QED BY <2>1, <2>3, <2>4, <2>5 DEF CompletionsTruthful
  <1>5. ASSUME NEW w \in Worker, CompleteWrite(w)
        PROVE  CompletionsTruthful' /\ Truth'
    <2> DEFINE c == CampaignOf[at[w]]
    <2>1. /\ UNCHANGED at /\ \A v \in Worker \ {w} : pc'[v] = pc[v]
          /\ pc'[w] = "done" /\ pc[w] \in {"completeOk", "completeErr"}
          /\ c \in Campaign => campaign'[c] = IF pc[w] = "completeOk" THEN "COMPLETED"
                                              ELSE "COMPLETED_WITH_ERRORS"
          /\ \A b \in Campaign \ {c} : campaign'[b] = campaign[b]
      BY <1>5 DEF CompleteWrite, Goto, Safe, DispatchInv, TypeOK, RunsTyped, CampaignsTyped
    <2>2. AllSent(c)' <=> AllSent(c)
      BY <1>1, <2>1
    <2>3. Truth'
      BY <1>2, <2>1, <2>2 DEF CompletionsTruthful, Truth
    <2>4. CompletionsTruthful'
      BY <1>1, <2>1 DEF CompletionsTruthful
    <2> QED BY <2>3, <2>4
  <1> QED BY <1>3, <1>4, <1>5

\* Failures are counted, and never forgotten.
LEMMA FaultsCount == [Next]_vars => faults' \in {faults, faults + 1}
  <1> SUFFICES ASSUME [Next]_vars PROVE faults' \in {faults, faults + 1}
    OBVIOUS
  <1>1. CASE Api
    BY <1>1 DEF Api, Freeze, FreezeLapses, ExpireFrozen, QueueRead, PauseRead, ResumeRead, CancelRead,
       Ask, QueueWrite, PauseWrite, ResumeWrite, CancelWrite, Answered, envVars
  <1>2. CASE Sweep \/ Stall \/ UNCHANGED vars \/ \E k \in Creator : RebuildContact(k)
    BY <1>2 DEF Sweep, SweepSettled, SweepList, SweepEnqueue, SweepFails, Stall,
       StallSend, LoseLock, StallReconcile, Stalled, RebuildContact, Fault, envVars, vars
  <1>3. ASSUME NEW w \in Worker, Pick(w) \/ Step(w) \/ Exception(w) \/ Crash(w)
        PROVE  faults' \in {faults, faults + 1}
    BY <1>3 DEF Pick, PickSend, PickReconcile, Step, Exception, Crash, FailRun, Fault,
       RecoverDispatching, AcknowledgePause, NoCreatePermit, ClaimRead,
       ClaimWrite, ClaimExclude, CreateConversation, SendPermit, SendAccepted,
       SendRefused, MakeDeliveryRetryable, PauseShop, YieldToPause, MarkFailed,
       MarkSent, MarkDeliveryUnknown, ScheduleReconciliation,
       ReconcileUnmatched, CompleteRead, CompleteWrite, FinishJob, DelayJob,
       Throw, Stay, envVars
  <1> QED BY <1>1, <1>2, <1>3 DEF Next

\* A completion never misreports: a campaign reported complete has nothing
\* left to do, and as long as nothing has failed COMPLETED means that all was
\* sent and COMPLETED_WITH_ERRORS that something was not, although the worker
\* reads the recipients and overwrites the campaign later, beside other runs
\* and reconciliation checks that a crash made repeat.
THEOREM CompletionsAreTruthful == NoCancel /\ ~LockLoss => (Spec => []CompletionIsTruthful)
  <1> SUFFICES ASSUME NoCancel, ~LockLoss PROVE Spec => []CompletionIsTruthful
    OBVIOUS
  <1> DEFINE Inv == ChecksInv /\ CompletionsTruthful /\ Truth
  <1>1. Init => Inv
    BY DEF Init, ChecksInv, ChecksInOrder, ChecksRun, RunsCheck, OneRunPerCheck, JudgedUnknown,
       Judging, Reconciling, Runs, CompletionsTruthful, Truth
  <1>2. TypeOK /\ [Next]_vars /\ faults' = 0 => faults = 0
    <2>1. [Next]_vars => faults' \in {faults, faults + 1}
      BY FaultsCount
    <2> QED BY <2>1 DEF TypeOK, EnvTyped
  <1>3. CompletionInv /\ (faults = 0 => Inv) /\ [Next]_vars => (faults = 0 => Inv)'
    BY <1>2, ChecksStep, TruthStep DEF CompletionInv, Safe, DispatchInv
  <1>4. CompletionInv /\ (faults = 0 => Inv) => CompletionIsTruthful
    <2>1. ASSUME NEW c \in Campaign, Over(c)
          PROVE  {rcpt[r] : r \in FrozenOf(c)} = {"SENT"} <=> AllSent(c)
      BY <2>1 DEF Over, AllSent
    <2> QED BY <2>1 DEF CompletionInv, CompletedIsOver, CompletionIsTruthful, Truth
  <1> QED BY <1>1, <1>3, <1>4, CompletionInvariant, PTL DEF Spec

-----------------------------------------------------------------------------
(* An ended campaign is being completed *)

\* Nothing is resumed.
NoResume == "resume" \notin Commands

\* Then no request makes a campaign active again, and a cancel writes the
\* recipients of its campaign.
RequestsFit ==
    \A o \in Operator : /\ op[o].kind \notin {"resume", "quotaResume"}
                        /\ \A r \in op[o].ids : CampaignOf[r] = op[o].campaign

\* That stays so, whatever is asked and answered.
LEMMA RequestsStayFit ==
  ASSUME NoResume, RequestsFit, TypeOK, [Next]_vars
  PROVE  RequestsFit'
  <1> USE DispatchAssumption DEF NoResume, RequestsFit, TypeOK, EnvTyped
  <1>1. CASE UNCHANGED <<op>>
    BY <1>1
  <1>2. ASSUME NEW o \in Operator, Answered(o) PROVE RequestsFit'
    BY <1>2 DEF Answered, NoRequest
  <1>3. ASSUME NEW o \in Operator, NEW c \in Campaign,
               NEW kind \in {"queue", "pause", "cancel"},
               NEW ids \in SUBSET Of(c), Ask(o, kind, c, ids)
        PROVE  RequestsFit'
    BY <1>3 DEF Ask, Of
  <1>4. CASE Api
    <2>1. ASSUME NEW c \in Campaign, Freeze(c) \/ FreezeLapses(c) \/ ExpireFrozen(c)
          PROVE  UNCHANGED <<op>>
      BY <2>1 DEF Freeze, FreezeLapses, ExpireFrozen, envVars
    <2>2. ASSUME NEW o \in Operator,
                 QueueWrite(o) \/ PauseWrite(o) \/ ResumeWrite(o) \/ CancelWrite(o)
          PROVE  Answered(o)
      BY <2>2 DEF QueueWrite, PauseWrite, ResumeWrite, CancelWrite
    <2>3. ASSUME NEW o \in Operator, NEW c \in Campaign,
                 QueueRead(o, c) \/ PauseRead(o, c) \/ CancelRead(o, c)
          PROVE  RequestsFit'
      BY <2>3, <1>3 DEF QueueRead, PauseRead, CancelRead
    <2>4. ASSUME NEW o \in Operator, NEW c \in Campaign, ResumeRead(o, c)
          PROVE  FALSE
      BY <2>4 DEF ResumeRead
    <2> QED BY <1>1, <1>2, <1>4, <2>1, <2>2, <2>3, <2>4 DEF Api
  <1>5. CASE Sweep \/ Stall \/ \E k \in Creator : RebuildContact(k)
    BY <1>1, <1>5 DEF Sweep, SweepSettled, SweepList, SweepEnqueue, SweepFails, Stall,
       StallSend, LoseLock, StallReconcile, Stalled, RebuildContact, envVars
  <1>6. ASSUME NEW w \in Worker, Pick(w) \/ Step(w) \/ Exception(w) \/ Crash(w)
        PROVE  UNCHANGED <<op>>
    BY <1>6 DEF Pick, PickSend, PickReconcile, Step, Exception, Crash, FailRun,
       RecoverDispatching, AcknowledgePause, NoCreatePermit, ClaimRead,
       ClaimWrite, ClaimExclude, CreateConversation, SendPermit, SendAccepted,
       SendRefused, MakeDeliveryRetryable, PauseShop, YieldToPause, MarkFailed,
       MarkSent, MarkDeliveryUnknown, ScheduleReconciliation,
       ReconcileUnmatched, CompleteRead, CompleteWrite, FinishJob, DelayJob,
       Throw, Stay, envVars
  <1>7. CASE UNCHANGED vars
    BY <1>1, <1>7 DEF vars, envVars
  <1> QED BY <1>1, <1>4, <1>5, <1>6, <1>7 DEF Next

\* Steps of a run that is completing its campaign
CompletingPC == {"complete", "completeOk", "completeErr"}

\* The property of one campaign.
Ended(c) == campaign[c] \in Active /\ Over(c) => SomeRunCompletes(c)

\* It is kept by a step that leaves the campaign's recipients and its
\* completing runs alone and does not activate it,
LEMMA EndedKept ==
  ASSUME TypeOK, NEW c \in Campaign, Ended(c),
         campaign'[c] \in Active => campaign[c] \in Active,
         \A r \in Of(c) : rcpt'[r] = rcpt[r],
         \A w \in Worker : pc[w] \in CompletingPC =>
           pc'[w] \in CompletingPC /\ at'[w] = at[w]
  PROVE  Ended(c)'
  <1>1. Over(c)' => Over(c)
    BY DEF Over, FrozenOf, Of
  <1>2. SomeRunCompletes(c) => SomeRunCompletes(c)'
    BY DEF SomeRunCompletes, CompletingPC, Of
  <1> QED BY <1>1, <1>2 DEF Ended

\* and by one that leaves a recipient unfinished.
LEMMA EndedOpen ==
  ASSUME NEW c \in Campaign, NEW r \in Of(c),
         rcpt'[r] \notin TerminalRecipient \cup {"SELECTED", "DISCOVERED"}
  PROVE  Ended(c)'
  BY DEF Ended, Over, FrozenOf, Of

\* Sends, pauses, cancels and expiries: a campaign just queued has a recipient
\* in the queue, the others do not become active.
LEMMA EndedApi ==
  ASSUME TypeOK, RequestsFit, Api, NEW c \in Campaign, Ended(c)
  PROVE  Ended(c)'
  <1> USE DispatchAssumption DEF TypeOK
  <1>1. UNCHANGED <<pc, at>>
    BY DEF Api, Freeze, FreezeLapses, ExpireFrozen, QueueRead, PauseRead, ResumeRead,
       CancelRead, Ask, QueueWrite, PauseWrite, ResumeWrite, CancelWrite, runVars
  <1>2. ASSUME UNCHANGED <<campaign, rcpt>> PROVE Ended(c)'
    BY <1>1, <1>2, EndedKept
  <1>3. ASSUME NEW b \in Campaign,
               \A r \in Recipient : CampaignOf[r] # b => rcpt'[r] = rcpt[r],
               \A a \in Campaign \ {b} : campaign'[a] = campaign[a],
               campaign'[b] \notin Active
        PROVE  Ended(c)'
    <2>1. CASE c = b
      BY <1>3, <2>1 DEF Ended
    <2>2. CASE c # b
      <3>1. \A r \in Of(c) : rcpt'[r] = rcpt[r]
        BY <1>3, <2>2 DEF Of
      <3>2. campaign'[c] = campaign[c]
        BY <1>3, <2>2
      <3> QED BY <1>1, <3>1, <3>2, EndedKept
    <2> QED BY <2>1, <2>2
  <1>4. ASSUME NEW b \in Campaign, Freeze(b) \/ ExpireFrozen(b) PROVE Ended(c)'
    <2>1. \A r \in Recipient : CampaignOf[r] # b => rcpt'[r] = rcpt[r]
      BY <1>4 DEF Freeze, ExpireFrozen, Of
    <2>2. /\ campaign'[b] \notin Active
          /\ \A a \in Campaign \ {b} : campaign'[a] = campaign[a]
      BY <1>4 DEF Freeze, ExpireFrozen, Active, CampaignsTyped
    <2> QED BY <1>3, <2>1, <2>2
  <1>5. ASSUME NEW o \in Operator, QueueWrite(o) PROVE Ended(c)'
    <2> DEFINE b == op[o].campaign
               frozen == {r \in Of(b) : rcpt[r] = "RESERVED"}
    <2>1. b \in Campaign
      BY <1>5 DEF QueueWrite, EnvTyped
    <2>2. CASE campaign[b] = "FROZEN" /\ frozen # {}
      <3>1. /\ rcpt' = [r \in Recipient |-> IF r \in frozen THEN "QUEUED" ELSE rcpt[r]]
            /\ campaign' = [campaign EXCEPT ![b] = "QUEUED"]
        BY <1>5, <2>2 DEF QueueWrite
      <3>2. CASE c = b
        <4>1. PICK r \in frozen : TRUE
          BY <2>2
        <4>2. r \in Of(c) /\ rcpt'[r] = "QUEUED"
          BY <3>1, <3>2, <4>1 DEF Of
        <4> QED BY <4>2, EndedOpen DEF TerminalRecipient
      <3>3. CASE c # b
        <4>1. \A r \in Of(c) : rcpt'[r] = rcpt[r]
          BY <3>1, <3>3 DEF Of
        <4>2. campaign'[c] = campaign[c]
          BY <3>1, <3>3 DEF CampaignsTyped
        <4> QED BY <1>1, <4>1, <4>2, EndedKept
      <3> QED BY <3>2, <3>3
    <2>3. CASE ~(campaign[b] = "FROZEN" /\ frozen # {})
      BY <1>2, <1>5, <2>3 DEF QueueWrite
    <2> QED BY <2>2, <2>3
  <1>6. ASSUME NEW o \in Operator, PauseWrite(o) \/ CancelWrite(o) PROVE Ended(c)'
    <2> DEFINE b == op[o].campaign
    <2>1. b \in Campaign
      BY <1>6 DEF PauseWrite, CancelWrite, EnvTyped
    <2>2. \A r \in Recipient : CampaignOf[r] # b => rcpt'[r] = rcpt[r]
      <3>1. CASE PauseWrite(o)
        BY <3>1 DEF PauseWrite, rowVars
      <3>2. CASE CancelWrite(o)
        BY <3>2 DEF CancelWrite, RequestsFit
      <3> QED BY <1>6, <3>1, <3>2
    <2>3. campaign'[b] \notin Active /\ \A a \in Campaign \ {b} : campaign'[a] = campaign[a]
      BY <1>6, <2>1 DEF PauseWrite, CancelWrite, Active, CampaignsTyped
    <2> QED BY <1>3, <2>1, <2>2, <2>3
  <1>7. ASSUME NEW o \in Operator, ResumeWrite(o) PROVE FALSE
    BY <1>7 DEF ResumeWrite, RequestsFit
  <1>8. ASSUME NEW b \in Campaign, FreezeLapses(b) PROVE Ended(c)'
    BY <1>2, <1>8 DEF FreezeLapses
  <1>9. ASSUME NEW o \in Operator, NEW b \in Campaign,
               QueueRead(o, b) \/ PauseRead(o, b) \/ ResumeRead(o, b) \/ CancelRead(o, b)
        PROVE  Ended(c)'
    BY <1>2, <1>9 DEF QueueRead, PauseRead, ResumeRead, CancelRead, Ask, campaignVars, rowVars
  <1> QED BY <1>4, <1>5, <1>6, <1>7, <1>8, <1>9 DEF Api

\* Runs: a recipient that ends leaves its run about to complete, and a
\* completing run leaves only by completing the campaign.
LEMMA EndedRun ==
  ASSUME TypeOK, NEW c \in Campaign, Ended(c), NEW w \in Worker, Pick(w) \/ Step(w)
  PROVE  Ended(c)'
  <1> USE DispatchAssumption DEF TypeOK
  <1> DEFINE r == at[w]
  <1>1. ASSUME pc[w] \notin CompletingPC,
               \A v \in Worker \ {w} : pc'[v] = pc[v] /\ at'[v] = at[v],
               UNCHANGED rcpt, campaign'[c] \in Active => campaign[c] \in Active
        PROVE  Ended(c)'
    <2>1. \A v \in Worker : pc[v] \in CompletingPC =>
            pc'[v] \in CompletingPC /\ at'[v] = at[v]
      BY <1>1
    <2> QED BY <1>1, <2>1, EndedKept
  <1>2. ASSUME NEW p, Goto(w, p) PROVE \A v \in Worker \ {w} : pc'[v] = pc[v] /\ at'[v] = at[v]
    BY <1>2 DEF Goto, RunsTyped
  <1>3. CASE Pick(w)
    <2>1. pc[w] \notin CompletingPC
      BY <1>3 DEF Pick, PickSend, PickReconcile, CompletingPC
    <2>2. UNCHANGED <<rcpt, campaign>>
      BY <1>3 DEF Pick, PickSend, PickReconcile, campaignVars, rowVars
    <2>3. \A v \in Worker \ {w} : pc'[v] = pc[v] /\ at'[v] = at[v]
      BY <1>3 DEF Pick, PickSend, PickReconcile, RunsTyped
    <2> QED BY <1>1, <2>1, <2>2, <2>3
  <1>4. CASE \/ AcknowledgePause(w) \/ NoCreatePermit(w) \/ ClaimRead(w)
             \/ CreateConversation(w) \/ SendPermit(w) \/ SendAccepted(w) \/ SendRefused(w)
             \/ PauseShop(w) \/ YieldToPause(w) \/ ScheduleReconciliation(w)
    <2>1. pc[w] \notin CompletingPC
      BY <1>4 DEF AcknowledgePause, NoCreatePermit, ClaimRead, CreateConversation, SendPermit,
         SendAccepted, SendRefused, PauseShop, YieldToPause, ScheduleReconciliation, CompletingPC
    <2>2. UNCHANGED rcpt
      BY <1>4 DEF AcknowledgePause, NoCreatePermit, ClaimRead, CreateConversation, SendPermit,
         SendAccepted, SendRefused, PauseShop, YieldToPause, ScheduleReconciliation, rowVars
    <2>3. \E p : Goto(w, p)
      BY <1>4 DEF AcknowledgePause, NoCreatePermit, ClaimRead, CreateConversation, SendPermit,
         SendAccepted, SendRefused, PauseShop, YieldToPause, ScheduleReconciliation
    <2>4. campaign'[c] \in Active => campaign[c] \in Active
      <3>1. CASE AcknowledgePause(w) \/ PauseShop(w) \/ YieldToPause(w)
        BY <3>1 DEF AcknowledgePause, PauseShop, YieldToPause, CampaignsTyped, Active
      <3>2. CASE UNCHANGED campaign
        BY <3>2
      <3> QED BY <1>4, <3>1, <3>2 DEF NoCreatePermit, ClaimRead, CreateConversation, SendPermit,
                 SendAccepted, SendRefused, ScheduleReconciliation, campaignVars
    <2> QED BY <1>1, <1>2, <2>1, <2>2, <2>3, <2>4
  <1>5. CASE FinishJob(w) \/ DelayJob(w) \/ Throw(w)
    <2>1. pc[w] \notin CompletingPC
      BY <1>5 DEF FinishJob, DelayJob, Throw, CompletingPC
    <2>2. UNCHANGED <<rcpt, campaign>>
      BY <1>5 DEF FinishJob, DelayJob, Throw, FailRun, campaignVars, rowVars
    <2>3. \A v \in Worker \ {w} : pc'[v] = pc[v] /\ at'[v] = at[v]
      BY <1>5 DEF FinishJob, DelayJob, Throw, FailRun, Idle, RunsTyped
    <2> QED BY <1>1, <2>1, <2>2, <2>3
  <1>6. ASSUME pc[w] \notin CompletingPC, \E p : Goto(w, p), r \in Recipient,
               NEW s, rcpt' = [rcpt EXCEPT ![r] = s], c # CampaignOf[r], UNCHANGED campaign
               \/ campaign' = [campaign EXCEPT ![CampaignOf[r]] = "RUNNING"]
        PROVE  Ended(c)'
    <2>1. \A q \in Of(c) : rcpt'[q] = rcpt[q]
      BY <1>6 DEF Of, RowsTyped
    <2>2. campaign'[c] = campaign[c]
      BY <1>6 DEF CampaignsTyped
    <2>3. \A v \in Worker : pc[v] \in CompletingPC =>
            pc'[v] \in CompletingPC /\ at'[v] = at[v]
      BY <1>2, <1>6
    <2> QED BY <2>1, <2>2, <2>3, EndedKept
  <1>7. CASE ClaimWrite(w) \/ MakeDeliveryRetryable(w) \/ RecoverDispatching(w) \/ MarkDeliveryUnknown(w)
    <2>1. pc[w] \notin CompletingPC /\ r \in Recipient
      BY <1>7 DEF ClaimWrite, MakeDeliveryRetryable, RecoverDispatching, MarkDeliveryUnknown,
         CompletingPC, RunsTyped
    <2>2. \E p : Goto(w, p)
      BY <1>7 DEF ClaimWrite, MakeDeliveryRetryable, RecoverDispatching, MarkDeliveryUnknown
    <2>3. PICK s \in {"PROCESSING", "QUEUED", "DELIVERY_UNKNOWN"} : rcpt' = [rcpt EXCEPT ![r] = s]
      BY <1>7 DEF ClaimWrite, MakeDeliveryRetryable, RecoverDispatching, MarkDeliveryUnknown, RecordUnknown
    <2>4. CASE c = CampaignOf[r]
      <3>1. r \in Of(c) /\ rcpt'[r] = s
        BY <2>1, <2>3, <2>4 DEF Of, RowsTyped
      <3> QED BY <3>1, <2>3, EndedOpen DEF TerminalRecipient
    <2>5. CASE c # CampaignOf[r]
      BY <1>6, <1>7, <2>1, <2>2, <2>3, <2>5 DEF ClaimWrite, MakeDeliveryRetryable,
         RecoverDispatching, MarkDeliveryUnknown, campaignVars
    <2> QED BY <2>4, <2>5
  <1>8. ASSUME r \in Recipient, Goto(w, "complete"), c = CampaignOf[r]
        PROVE  SomeRunCompletes(c)'
    BY <1>8 DEF Goto, SomeRunCompletes, Of, RunsTyped
  <1>9. CASE ClaimExclude(w) \/ MarkFailed(w) \/ MarkSent(w) \/ ReconcileUnmatched(w)
    <2>1. pc[w] \notin CompletingPC /\ r \in Recipient /\ Goto(w, "complete")
      BY <1>9 DEF ClaimExclude, MarkFailed, MarkSent, ReconcileUnmatched, CompletingPC, RunsTyped
    <2>2. CASE c = CampaignOf[r]
      BY <1>8, <2>1, <2>2 DEF Ended
    <2>3. CASE c # CampaignOf[r]
      <3>1. UNCHANGED campaign
        BY <1>9 DEF ClaimExclude, MarkFailed, MarkSent, ReconcileUnmatched, campaignVars
      <3>2. CASE UNCHANGED rcpt
        BY <1>1, <1>2, <2>1, <3>1, <3>2
      <3>3. CASE \E s : rcpt' = [rcpt EXCEPT ![r] = s]
        BY <1>6, <2>1, <2>3, <3>1, <3>3
      <3> QED BY <1>9, <3>2, <3>3 DEF ClaimExclude, MarkFailed, MarkSent, ReconcileUnmatched
    <2> QED BY <2>2, <2>3
  <1>10. CASE CompleteRead(w)
    <2> DEFINE b == CampaignOf[r]
    <2>1. r \in Recipient /\ b \in Campaign
      BY <1>10 DEF CompleteRead, RunsTyped
    <2>2. /\ UNCHANGED <<campaign, rcpt, at>>
          /\ \A v \in Worker \ {w} : pc'[v] = pc[v]
      BY <1>10 DEF CompleteRead, Goto, RunsTyped, campaignVars, rowVars
    <2>3. CASE pc'[w] \in CompletingPC
      BY <2>2, <2>3, EndedKept
    <2>4. CASE pc'[w] \notin CompletingPC
      <3>1. ~AllEnded({rcpt[q] : q \in FrozenOf(b)}) \/ campaign[b] = "CANCELLED"
        BY <1>10, <2>4 DEF CompleteRead, Goto, RunsTyped, CompletingPC
      <3>2. ~(campaign[b] \in Active /\ Over(b))
        BY <3>1 DEF AllEnded, Over, Active
      <3>3. CASE c = b
        <4>1. ~(campaign[c] \in Active /\ Over(c))'
          BY <2>2, <3>2, <3>3 DEF Over, FrozenOf
        <4> QED BY <4>1 DEF Ended
      <3>4. CASE c # b
        <4>1. \A v \in Worker : at[v] \in Of(c) => v # w
          BY <3>4 DEF Of
        <4>2. SomeRunCompletes(c) => SomeRunCompletes(c)'
          BY <2>2, <4>1 DEF SomeRunCompletes
        <4>3. Over(c)' <=> Over(c)
          BY <2>2 DEF Over, FrozenOf
        <4> QED BY <2>2, <4>2, <4>3 DEF Ended
      <3> QED BY <3>3, <3>4
    <2> QED BY <2>3, <2>4
  <1>11. CASE CompleteWrite(w)
    <2> DEFINE b == CampaignOf[r]
    <2>1. r \in Recipient /\ b \in Campaign
      BY <1>11 DEF CompleteWrite, RunsTyped
    <2>2. /\ UNCHANGED <<rcpt, at>> /\ \A v \in Worker \ {w} : pc'[v] = pc[v]
          /\ campaign'[b] \notin Active
          /\ \A a \in Campaign \ {b} : campaign'[a] = campaign[a]
      BY <1>11, <2>1 DEF CompleteWrite, Goto, RunsTyped, CampaignsTyped, rowVars, Active
    <2>3. CASE c = b
      BY <2>2, <2>3 DEF Ended
    <2>4. CASE c # b
      <3>1. \A v \in Worker : at[v] \in Of(c) => v # w
        BY <2>4 DEF Of
      <3>2. SomeRunCompletes(c) => SomeRunCompletes(c)'
        BY <2>2, <3>1 DEF SomeRunCompletes
      <3>3. Over(c)' <=> Over(c)
        BY <2>2 DEF Over, FrozenOf
      <3> QED BY <2>2, <2>4, <3>2, <3>3 DEF Ended
    <2> QED BY <2>3, <2>4
  <1> QED BY <1>3, <1>4, <1>5, <1>7, <1>9, <1>10, <1>11 DEF Step

\* An ended campaign is always about to be completed: whichever run records the
\* last recipient reads all of them afterwards, however many runs finish
\* together, as long as nothing has failed and nothing is resumed.
THEOREM EndedCampaignsComplete == NoResume => (Spec => []EndedIsBeingCompleted)
  <1> SUFFICES ASSUME NoResume PROVE Spec => []EndedIsBeingCompleted
    OBVIOUS
  <1> DEFINE Inv == \A c \in Campaign : Ended(c)
  <1>1. Init => RequestsFit /\ Inv
    BY DEF Init, RequestsFit, NoRequest, Ended, Active
  <1>2. TypeOK /\ RequestsFit /\ [Next]_vars => RequestsFit'
    BY RequestsStayFit
  <1>3. TypeOK /\ RequestsFit /\ (faults = 0 => Inv) /\ [Next]_vars => (faults = 0 => Inv)'
    <2> SUFFICES ASSUME TypeOK, RequestsFit, faults = 0 => Inv, [Next]_vars, faults' = 0,
                        NEW c \in Campaign
                 PROVE  Ended(c)'
      OBVIOUS
    <2>1. faults = 0
      BY FaultsCount DEF TypeOK, EnvTyped
    <2>2. Ended(c)
      BY <2>1
    <2>3. ASSUME UNCHANGED <<campaign, rcpt, pc, at>> PROVE Ended(c)'
      BY <2>2, <2>3, EndedKept
    <2>4. CASE Api
      BY <2>2, <2>4, EndedApi
    <2>5. CASE Sweep \/ Stall \/ UNCHANGED vars \/ \E k \in Creator : RebuildContact(k)
      BY <2>3, <2>5 DEF Sweep, SweepSettled, SweepList, SweepEnqueue, SweepFails, Stall,
         StallSend, LoseLock, StallReconcile, Stalled, RebuildContact, campaignVars, rowVars,
         runVars, vars
    <2>6. ASSUME NEW w \in Worker, Pick(w) \/ Step(w) PROVE Ended(c)'
      BY <2>2, <2>6, EndedRun
    <2>7. ASSUME NEW w \in Worker, Exception(w) \/ Crash(w) PROVE FALSE
      BY <2>1, <2>7 DEF Exception, Crash, Fault
    <2> QED BY <2>4, <2>5, <2>6, <2>7 DEF Next
  <1>4. (faults = 0 => Inv) => EndedIsBeingCompleted
    BY DEF Ended, EndedIsBeingCompleted
  <1> HIDE DEF Inv
  <1> QED BY <1>1, <1>2, <1>3, <1>4, TypeCorrect, PTL DEF Spec

=============================================================================
