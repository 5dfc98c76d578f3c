------------------------------ MODULE Dispatch ------------------------------
(***************************************************************************)
(* Dispatch of one shop's outreach campaigns: the API's one-click Send,    *)
(* pause, resume and cancel, the outbound worker's send and reconciliation *)
(* jobs, the outbox sweepers and the BullMQ queue between them.            *)
(*                                                                         *)
(* A campaign recipient has exactly one delivery, one outbox entry, at     *)
(* most one reservation and one deterministic BullMQ job, so all of them   *)
(* are indexed by the recipient.  Every transaction is one action, except  *)
(* where it reads rows it does not lock and writes them later under READ   *)
(* COMMITTED: there the read and the write are two actions.                *)
(*                                                                         *)
(* An operator X followed by a qualifier and defined just before X, as     *)
(* ClaimLocksIgnored before ClaimLocksFree, is a faulty variant of X that  *)
(* no action uses: the properties must fail when it takes the place of X.  *)
(***************************************************************************)
EXTENDS Naturals, FiniteSets

CONSTANTS
    Campaign,      \* campaigns of the shop
    Recipient,     \* campaign recipients, each with its delivery and job
    Creator,       \* creators of the marketplace
    Worker,        \* concurrent job slots over all outbound worker processes
    Operator,      \* API requests that may be in progress at once
    CampaignOf,    \* the campaign of a recipient
    CreatorOf,     \* the creator of a recipient
    None,          \* a null reference
    Commands,      \* external stimuli in use, see DispatchAssumption
    MaxAttempts,   \* BullMQ attempts of a send job (4 in the source)
    ReconcileAttempts, \* reconciliation checks of a delivery (3 in the source)
    MaxFaults,     \* bound on crashes, exceptions and queue failures
    LockLoss       \* TRUE if a live run may lose its BullMQ job lock

ASSUME DispatchAssumption ==
    /\ CampaignOf \in [Recipient -> Campaign]
    /\ CreatorOf \in [Recipient -> Creator]
    /\ None \notin Recipient \cup Campaign
    /\ \A r, q \in Recipient :
          CampaignOf[r] = CampaignOf[q] /\ CreatorOf[r] = CreatorOf[q] => r = q
    /\ Commands \subseteq {"pause", "resume", "cancel", "history"}
    /\ MaxAttempts \in Nat \ {0}
    /\ ReconcileAttempts \in Nat \ {0}
    /\ MaxFaults \in Nat
    /\ LockLoss \in BOOLEAN

VARIABLES
    \* PostgreSQL
    campaign,      \* campaign.state
    pauseReason,   \* campaign.safetyPauseReason: none, quota or auth
    lapsed,        \* campaign.freezeExpiresAt has passed
    rcpt,          \* campaignRecipient.state
    delivery,      \* outreachDelivery.state, "NONE" before it is created
    outbox,        \* queueOutbox.state, "NONE" before it is created
    resv,          \* outreachReservation: absent, or how its expiresAt stands
    conv,          \* outreachDelivery.conversationId is set
    unresolved,    \* creatorShopContactState.unresolvedDelivery
    recent,        \* creatorShopContactState.lastContactedAt within cooldown
    lastDelivery,  \* creatorShopContactState.lastDeliveryId
    lastSent,      \* creatorShopContactState.lastCampaignId, as a recipient
    \* BullMQ
    job,           \* state of the send job
    holder,        \* the run that holds the send job's lock
    tries,         \* attemptsMade of the send job
    stalls,        \* stalled count of the send job
    recon,         \* state of the delivery's reconciliation jobs
    \* processes
    pc, at, task,  \* a worker run: its next step, its recipient, and its job:
                   \* 0 for the send job, n for the n-th reconciliation job
    op,            \* an operator request between its read and its write
    sweeping,      \* recipients a sweeper has listed and not yet enqueued
    \* TikTok
    accepted,      \* messages TikTok accepted for the delivery
    \* bound
    faults

campaignVars == <<campaign, pauseReason, lapsed>>
contactVars  == <<unresolved, recent, lastDelivery, lastSent>>
jobVars      == <<job, holder, tries, stalls, recon>>
runVars      == <<pc, at, task>>
rowVars      == <<rcpt, delivery, outbox, resv, conv>>
envVars      == <<op, sweeping, faults>>
vars == <<campaignVars, rowVars, contactVars, jobVars, runVars, envVars, accepted>>

CampaignState ==
    {"PREVIEW_READY", "FROZEN", "PREVIEW_EXPIRED", "QUEUED", "RUNNING",
     "PAUSE_REQUESTED", "PAUSED", "SAFETY_PAUSED", "COMPLETED",
     "COMPLETED_WITH_ERRORS", "CANCELLED"}

RecipientState ==
    {"SELECTED", "DISCOVERED", "RESERVED", "QUEUED", "PROCESSING", "SENT",
     "RESTRICTED", "FAILED", "DELIVERY_UNKNOWN",
     "DELIVERY_UNKNOWN_UNRESOLVED", "CANCELLED"}

DeliveryState ==
    {"NONE", "PENDING", "DISPATCHING", "FAILED_RETRYABLE", "SENT",
     "RESTRICTED", "FAILED_TERMINAL", "CANCELLED", "DELIVERY_UNKNOWN",
     "DELIVERY_UNKNOWN_UNRESOLVED"}

OutboxState == {"NONE", "PENDING", "ENQUEUED", "SAFETY_PAUSED", "COMPLETED"}

\* "live" expires with the freeze, "lapsed" is past expiresAt but not yet
\* deleted, "pinned" expires in the year 9999.
ReservationState == {"none", "live", "lapsed", "pinned"}

ReconState == {"none", "waiting", "active", "over"}

JobState == {"none", "waiting", "active", "delayed", "completed", "failed"}

\* Steps of a run that has claimed a dispatch and not yet recorded its
\* outcome; the provider calls happen in "create" and "send".
AttemptPC == {"create", "permit", "send", "quota", "auth", "throttled",
              "transient", "withdrawn", "restricted", "terminal", "sent",
              "unknown"}

\* Steps inside the claim transaction, whose advisory locks are held.
ClaimPC == {"claimWrite", "exclude"}

PC == AttemptPC \cup ClaimPC \cup
      {"idle", "recover", "pauseSeen", "acquire", "delay", "throw",
       "pauseQuota", "pauseAuth", "yield", "schedule", "scheduleOnly",
       "matched", "unmatched", "complete", "completeOk", "completeErr",
       "done"}

Active      == {"QUEUED", "RUNNING"}
Claimable   == {"PENDING", "FAILED_RETRYABLE"}
Enqueueable == {"PENDING", "ENQUEUED"}
Unknown     == {"DELIVERY_UNKNOWN", "DELIVERY_UNKNOWN_UNRESOLVED"}
Settled     == {"SENT", "RESTRICTED", "FAILED_TERMINAL", "CANCELLED"}
                   \cup Unknown
TerminalRecipient == {"SENT", "RESTRICTED", "FAILED", "CANCELLED",
                      "DELIVERY_UNKNOWN_UNRESOLVED"}

Of(c)  == {r \in Recipient : CampaignOf[r] = c}
By(k)  == {r \in Recipient : CreatorOf[r] = k}

Request == [kind : {"none", "queue", "pause", "resume", "quotaResume",
                    "cancel"},
            campaign : Campaign \cup {None}, ids : SUBSET Recipient]
NoRequest == [kind |-> "none", campaign |-> None, ids |-> {}]

CampaignsTyped ==
    /\ campaign \in [Campaign -> CampaignState]
    /\ pauseReason \in [Campaign -> {"none", "quota", "auth"}]
    /\ lapsed \in [Campaign -> BOOLEAN]
RowsTyped ==
    /\ rcpt \in [Recipient -> RecipientState]
    /\ delivery \in [Recipient -> DeliveryState]
    /\ outbox \in [Recipient -> OutboxState]
    /\ resv \in [Recipient -> ReservationState]
    /\ conv \in [Recipient -> BOOLEAN]
ContactsTyped ==
    /\ unresolved \in [Creator -> BOOLEAN]
    /\ recent \in [Creator -> BOOLEAN]
    /\ lastDelivery \in [Creator -> Recipient \cup {None}]
    /\ lastSent \in [Creator -> Recipient \cup {None}]
JobsTyped ==
    /\ job \in [Recipient -> JobState]
    /\ holder \in [Recipient -> Worker \cup {None}]
    /\ tries \in [Recipient -> Nat]
    /\ stalls \in [Recipient -> Nat]
    /\ recon \in [Recipient -> [1..ReconcileAttempts -> ReconState]]
RunsTyped ==
    /\ pc \in [Worker -> PC]
    /\ at \in [Worker -> Recipient \cup {None}]
    /\ task \in [Worker -> 0..ReconcileAttempts]
    /\ \A w \in Worker : pc[w] # "idle" => at[w] \in Recipient
EnvTyped ==
    /\ op \in [Operator -> Request]
    /\ \A o \in Operator : op[o].kind # "none" => op[o].campaign \in Campaign
    /\ sweeping \in SUBSET Recipient
    /\ accepted \in [Recipient -> Nat]
    /\ faults \in 0..MaxFaults

\* Every row, job, run and request has the shape its table or queue gives it,
\* a busy run has a recipient, and a pending request has a campaign.
TypeOK == /\ CampaignsTyped /\ RowsTyped /\ ContactsTyped
          /\ JobsTyped /\ RunsTyped /\ EnvTyped

\* Every campaign has a persisted preview; nothing is frozen or queued yet.
Init ==
    /\ campaign = [c \in Campaign |-> "PREVIEW_READY"]
    /\ pauseReason = [c \in Campaign |-> "none"]
    /\ lapsed = [c \in Campaign |-> FALSE]
    /\ rcpt = [r \in Recipient |-> "SELECTED"]
    /\ delivery = [r \in Recipient |-> "NONE"]
    /\ outbox = [r \in Recipient |-> "NONE"]
    /\ resv = [r \in Recipient |-> "none"]
    /\ conv = [r \in Recipient |-> FALSE]
    /\ unresolved = [k \in Creator |-> FALSE]
    /\ recent = [k \in Creator |-> FALSE]
    /\ lastDelivery = [k \in Creator |-> None]
    /\ lastSent = [k \in Creator |-> None]
    /\ job = [r \in Recipient |-> "none"]
    /\ holder = [r \in Recipient |-> None]
    /\ tries = [r \in Recipient |-> 0]
    /\ stalls = [r \in Recipient |-> 0]
    /\ recon = [r \in Recipient |-> [n \in 1..ReconcileAttempts |-> "none"]]
    /\ pc = [w \in Worker |-> "idle"]
    /\ at = [w \in Worker |-> None]
    /\ task = [w \in Worker |-> 0]
    /\ op = [o \in Operator |-> NoRequest]
    /\ sweeping = {}
    /\ accepted = [r \in Recipient |-> 0]
    /\ faults = 0

-----------------------------------------------------------------------------
(* Helpers *)

Goto(w, p) == pc' = [pc EXCEPT ![w] = p] /\ UNCHANGED <<at, task>>

Idle(w) == /\ pc' = [pc EXCEPT ![w] = "idle"]
           /\ at' = [at EXCEPT ![w] = None]
           /\ task' = [task EXCEPT ![w] = 0]

\* pg_advisory_xact_lock: a claim transaction holds the shop's dispatch lock
\* and its creator's eligibility lock between its reads and its writes.
ClaimLocksIgnored == TRUE
ClaimLocksFree == \A w \in Worker : pc[w] \notin ClaimPC
EligibilityFree(k) ==
    \A w \in Worker : pc[w] \in ClaimPC => CreatorOf[at[w]] # k

FinalAttempt(r) == tries[r] + 1 >= MaxAttempts

\* queue.add of reconciliation job n; an existing jobId makes it a no-op.
AddReconcileOnce(r, n) ==
    recon' = [recon EXCEPT ![r][1] = IF @ = "none" THEN "waiting" ELSE @]
AddReconcile(r, n) ==
    recon' = [recon EXCEPT ![r][n] = IF @ = "none" THEN "waiting" ELSE @]

Fault == faults < MaxFaults /\ faults' = faults + 1

-----------------------------------------------------------------------------
(* API: one-click Send, in two transactions, and the freeze expiry *)

FreezableIfReserved(r) == ~unresolved[CreatorOf[r]] /\ ~recent[CreatorOf[r]]
Freezable(r) ==
    LET k == CreatorOf[r] IN
    /\ ~unresolved[k]
    /\ ~recent[k]
    /\ \A q \in By(k) : resv[q] \notin {"live", "pinned"}

Freeze(c) ==
    /\ campaign[c] = "PREVIEW_READY"
    /\ \E r \in Of(c) : rcpt[r] = "SELECTED"
    /\ \A r \in Of(c) : rcpt[r] = "SELECTED" => EligibilityFree(CreatorOf[r])
    /\ LET chosen == {r \in Of(c) : rcpt[r] = "SELECTED" /\ Freezable(r)} IN
       /\ resv' = [r \in Recipient |->
                     IF r \in chosen THEN "live"
                     ELSE IF resv[r] = "lapsed" THEN "none" ELSE resv[r]]
       /\ rcpt' = [r \in Recipient |->
                     IF r \in chosen THEN "RESERVED"
                     ELSE IF r \in Of(c) /\ rcpt[r] = "SELECTED"
                          THEN "DISCOVERED" ELSE rcpt[r]]
       /\ campaign' = [campaign EXCEPT ![c] =
                         IF chosen = {} THEN "PREVIEW_EXPIRED" ELSE "FROZEN"]
    /\ UNCHANGED <<pauseReason, lapsed, delivery, outbox, conv, contactVars,
                   jobVars, runVars, envVars, accepted>>

\* Thirty minutes pass: the freeze and its reservations are past expiresAt.
FreezeLapses(c) ==
    /\ campaign[c] = "FROZEN"
    /\ ~lapsed[c]
    /\ lapsed' = [lapsed EXCEPT ![c] = TRUE]
    /\ resv' = [r \in Recipient |->
                  IF r \in Of(c) /\ resv[r] = "live" THEN "lapsed" ELSE resv[r]]
    /\ UNCHANGED <<campaign, pauseReason, rcpt, delivery, outbox, conv,
                   contactVars, jobVars, runVars, envVars, accepted>>

ExpireFrozen(c) ==
    /\ campaign[c] = "FROZEN"
    /\ lapsed[c]
    /\ campaign' = [campaign EXCEPT ![c] = "PREVIEW_EXPIRED"]
    /\ resv' = [r \in Recipient |-> IF r \in Of(c) THEN "none" ELSE resv[r]]
    /\ rcpt' = [r \in Recipient |-> IF r \in Of(c) /\ rcpt[r] = "RESERVED"
                                    THEN "SELECTED" ELSE rcpt[r]]
    /\ UNCHANGED <<pauseReason, lapsed, delivery, outbox, conv, contactVars,
                   jobVars, runVars, envVars, accepted>>

Ask(o, kind, c, ids) ==
    /\ op[o].kind = "none"
    /\ op' = [op EXCEPT ![o] = [kind |-> kind, campaign |-> c, ids |-> ids]]
    /\ UNCHANGED <<campaignVars, rowVars, contactVars, jobVars, runVars,
                   sweeping, faults, accepted>>

Answered(o) == op' = [op EXCEPT ![o] = NoRequest] /\ UNCHANGED <<sweeping, faults>>

QueueRead(o, c) ==
    /\ campaign[c] = "FROZEN"
    /\ ~lapsed[c]
    /\ Ask(o, "queue", c, {})

\* The campaign's version has not moved since the read exactly while it is
\* still FROZEN; otherwise the transaction throws and changes nothing.
QueueWrite(o) ==
    /\ op[o].kind = "queue"
    /\ Answered(o)
    /\ LET c == op[o].campaign
           frozen == {r \in Of(c) : rcpt[r] = "RESERVED"} IN
       IF campaign[c] = "FROZEN" /\ frozen # {}
       THEN /\ campaign' = [campaign EXCEPT ![c] = "QUEUED"]
            /\ resv' = [r \in Recipient |-> IF r \in Of(c) /\ resv[r] # "none"
                                            THEN "pinned" ELSE resv[r]]
            /\ delivery' = [r \in Recipient |->
                              IF r \in frozen /\ delivery[r] = "NONE"
                              THEN "PENDING" ELSE delivery[r]]
            /\ outbox' = [r \in Recipient |-> IF r \in frozen THEN "PENDING"
                                              ELSE outbox[r]]
            /\ rcpt' = [r \in Recipient |-> IF r \in frozen THEN "QUEUED"
                                            ELSE rcpt[r]]
       ELSE UNCHANGED <<campaign, resv, delivery, outbox, rcpt>>
    /\ UNCHANGED <<pauseReason, lapsed, conv, contactVars, jobVars, runVars,
                   accepted>>

-----------------------------------------------------------------------------
(* API: pause, resume and cancel; each checks the state, then writes *)

PauseRead(o, c) ==
    /\ "pause" \in Commands
    /\ campaign[c] \in Active
    /\ Ask(o, "pause", c, {})

PauseWrite(o) ==
    /\ op[o].kind = "pause"
    /\ Answered(o)
    /\ campaign' = [campaign EXCEPT ![op[o].campaign] = "PAUSE_REQUESTED"]
    /\ UNCHANGED <<pauseReason, lapsed, rowVars, contactVars, jobVars, runVars,
                   accepted>>

ResumeRead(o, c) ==
    /\ "resume" \in Commands
    /\ \/ /\ campaign[c] \in {"PAUSED", "PAUSE_REQUESTED"}
          /\ Ask(o, "resume", c, {})
       \/ /\ campaign[c] = "SAFETY_PAUSED"
          /\ pauseReason[c] = "quota"
          /\ Ask(o, "quotaResume", c, {})

ResumeWrite(o) ==
    /\ op[o].kind \in {"resume", "quotaResume"}
    /\ Answered(o)
    /\ LET c == op[o].campaign IN
       /\ outbox' = [r \in Recipient |->
                       IF /\ op[o].kind = "quotaResume"
                          /\ r \in Of(c)
                          /\ outbox[r] = "SAFETY_PAUSED"
                       THEN "PENDING" ELSE outbox[r]]
       /\ campaign' = [campaign EXCEPT ![c] = "QUEUED"]
       /\ pauseReason' = [pauseReason EXCEPT ![c] = "none"]
    /\ UNCHANGED <<lapsed, rcpt, delivery, resv, conv, contactVars, jobVars,
                   runVars, accepted>>

CancelRead(o, c) ==
    /\ "cancel" \in Commands
    /\ campaign[c] \in {"FROZEN", "QUEUED", "RUNNING", "PAUSE_REQUESTED",
                        "PAUSED", "SAFETY_PAUSED"}
    /\ Ask(o, "cancel", c, {r \in Of(c) : rcpt[r] \in {"RESERVED", "QUEUED"}})

CancellableAlways(r) == TRUE
Cancellable(r) == delivery[r] \in Claimable

CancelWrite(o) ==
    /\ op[o].kind = "cancel"
    /\ Answered(o)
    /\ LET unsent == op[o].ids IN
       /\ delivery' = [r \in Recipient |->
                         IF r \in unsent /\ Cancellable(r)
                         THEN "CANCELLED" ELSE delivery[r]]
       /\ rcpt' = [r \in Recipient |-> IF r \in unsent THEN "CANCELLED"
                                       ELSE rcpt[r]]
       /\ outbox' = [r \in Recipient |->
                       IF r \in unsent /\ outbox[r] # "NONE" THEN "COMPLETED"
                       ELSE outbox[r]]
       /\ resv' = [r \in Recipient |-> IF r \in unsent THEN "none" ELSE resv[r]]
       /\ campaign' = [campaign EXCEPT ![op[o].campaign] = "CANCELLED"]
    /\ UNCHANGED <<pauseReason, lapsed, conv, contactVars, jobVars, runVars,
                   accepted>>

-----------------------------------------------------------------------------
(* Outbox sweepers of the API and of the worker *)

SweepSettled(r) ==
    /\ outbox[r] \in Enqueueable
    /\ delivery[r] \in Settled
    /\ outbox' = [outbox EXCEPT ![r] = "COMPLETED"]
    /\ UNCHANGED <<campaignVars, rcpt, delivery, resv, conv, contactVars,
                   jobVars, runVars, envVars, accepted>>

Sweepable(r) ==
    /\ rcpt[r] = "QUEUED"
    /\ campaign[CampaignOf[r]] \in Active
    /\ outbox[r] \in Enqueueable

SweepList(r) ==
    /\ Sweepable(r)
    /\ r \notin sweeping
    /\ sweeping' = sweeping \cup {r}
    /\ UNCHANGED <<campaignVars, rowVars, contactVars, jobVars, runVars, op,
                   faults, accepted>>

\* A finished job is removed and added afresh; a live one is left alone.
ReplaceableAlways(r) == TRUE
Replaceable(r) == job[r] \in {"none", "completed", "failed"}

SweepEnqueue(r) ==
    /\ r \in sweeping
    /\ sweeping' = sweeping \ {r}
    /\ IF Replaceable(r)
       THEN /\ job' = [job EXCEPT ![r] = "waiting"]
            /\ tries' = [tries EXCEPT ![r] = 0]
            /\ stalls' = [stalls EXCEPT ![r] = 0]
            /\ UNCHANGED holder
       ELSE UNCHANGED <<job, tries, stalls, holder>>
    /\ outbox' = [outbox EXCEPT ![r] =
                    IF @ \in Enqueueable /\ rcpt[r] = "QUEUED"
                    THEN "ENQUEUED" ELSE @]
    /\ UNCHANGED <<campaignVars, rcpt, delivery, resv, conv, contactVars, recon,
                   runVars, op, faults, accepted>>

\* Redis fails before the job is added: the entry is put back unconditionally.
SweepFails(r) ==
    /\ r \in sweeping
    /\ Fault
    /\ sweeping' = sweeping \ {r}
    /\ outbox' = [outbox EXCEPT ![r] = "PENDING"]
    /\ UNCHANGED <<campaignVars, rcpt, delivery, resv, conv, contactVars, jobVars,
                   runVars, op, accepted>>

-----------------------------------------------------------------------------
(* BullMQ: picking up, finishing, delaying and stalling jobs *)

\* processSend up to its first write: the snapshot it reads picks the path.
FirstStep(d, s) ==
    IF d \in Settled \cup {"NONE"} THEN "done"
    ELSE IF d = "DISPATCHING" THEN "recover"
    ELSE CASE s = "PAUSE_REQUESTED" -> "pauseSeen"
           [] s = "PAUSED"          -> "delay"
           [] s = "SAFETY_PAUSED"   -> "done"
           [] OTHER                 -> "acquire"

PickSend(w, r) ==
    /\ pc[w] = "idle"
    /\ job[r] \in {"waiting", "delayed"}
    /\ job' = [job EXCEPT ![r] = "active"]
    /\ holder' = [holder EXCEPT ![r] = w]
    /\ pc' = [pc EXCEPT ![w] = FirstStep(delivery[r], campaign[CampaignOf[r]])]
    /\ at' = [at EXCEPT ![w] = r]
    /\ UNCHANGED <<campaignVars, rowVars, contactVars, tries, stalls, recon,
                   task, envVars, accepted>>

\* The processor returned; the job completes if this run still owns it.
FinishJob(w) ==
    /\ pc[w] = "done"
    /\ LET r == at[w] IN
       IF task[w] = 0
       THEN /\ IF holder[r] = w
               THEN /\ job' = [job EXCEPT ![r] = "completed"]
                    /\ holder' = [holder EXCEPT ![r] = None]
               ELSE UNCHANGED <<job, holder>>
            /\ UNCHANGED recon
       ELSE /\ recon' = [recon EXCEPT ![r][task[w]] = "over"]
            /\ UNCHANGED <<job, holder>>
    /\ Idle(w)
    /\ UNCHANGED <<campaignVars, rowVars, contactVars, tries, stalls, envVars,
                   accepted>>

\* moveToDelayed and DelayedError: no attempt is consumed.
DelayJob(w) ==
    /\ pc[w] = "delay"
    /\ LET r == at[w] IN
       IF holder[r] = w
       THEN /\ job' = [job EXCEPT ![r] = "delayed"]
            /\ holder' = [holder EXCEPT ![r] = None]
       ELSE UNCHANGED <<job, holder>>
    /\ Idle(w)
    /\ UNCHANGED <<campaignVars, rowVars, contactVars, tries, stalls, recon,
                   envVars, accepted>>

\* The processor threw: a send job is retried until its attempts are used up,
\* a reconciliation job has a single attempt.
FailRun(w) ==
    /\ LET r == at[w] IN
       IF task[w] = 0
       THEN /\ IF holder[r] = w
               THEN /\ job' = [job EXCEPT ![r] = IF FinalAttempt(r) THEN "failed"
                                                 ELSE "delayed"]
                    /\ tries' = [tries EXCEPT ![r] = @ + 1]
                    /\ holder' = [holder EXCEPT ![r] = None]
               ELSE UNCHANGED <<job, holder, tries>>
            /\ UNCHANGED recon
       ELSE /\ recon' = [recon EXCEPT ![r][task[w]] = "over"]
            /\ UNCHANGED <<job, holder, tries>>
    /\ Idle(w)
    /\ UNCHANGED <<campaignVars, rowVars, contactVars, stalls, op, sweeping,
                   accepted>>

Throw(w) == pc[w] = "throw" /\ FailRun(w) /\ UNCHANGED faults

\* A database or Redis call fails: its transaction is rolled back.
Exception(w) == pc[w] \notin {"idle", "throw"} /\ Fault /\ FailRun(w)

\* The process dies; the job stays active until its lock runs out.
Crash(w) ==
    /\ pc[w] # "idle"
    /\ Fault
    /\ Idle(w)
    /\ UNCHANGED <<campaignVars, rowVars, contactVars, jobVars, op, sweeping,
                   accepted>>

Runs(w, r, n) == pc[w] # "idle" /\ at[w] = r /\ task[w] = n

\* BullMQ's stalled check moves a job without a lock back to waiting; the
\* second time (maxStalledCount is 1) the job fails.
Stalled(r) ==
    /\ job' = [job EXCEPT ![r] = IF stalls[r] >= 1 THEN "failed" ELSE "waiting"]
    /\ stalls' = [stalls EXCEPT ![r] = @ + 1]
    /\ holder' = [holder EXCEPT ![r] = None]
    /\ UNCHANGED <<campaignVars, rowVars, contactVars, tries, recon, runVars,
                   op, sweeping, accepted>>

\* The run that held the lock is dead ...
StallSend(r) ==
    /\ job[r] = "active"
    /\ ~Runs(holder[r], r, 0)
    /\ Stalled(r)
    /\ UNCHANGED faults

\* ... or it lives on and could not renew its lock in time.
LoseLock(r) ==
    /\ LockLoss
    /\ job[r] = "active"
    /\ Runs(holder[r], r, 0)
    /\ Stalled(r)
    /\ Fault

StallReconcile(r, n) ==
    /\ recon[r][n] = "active"
    /\ \A w \in Worker : ~Runs(w, r, n)
    /\ recon' = [recon EXCEPT ![r][n] = "waiting"]
    /\ UNCHANGED <<campaignVars, rowVars, contactVars, job, holder, tries, stalls,
                   runVars, envVars, accepted>>

-----------------------------------------------------------------------------
(* Worker: processSend up to the dispatch claim *)

Stay == UNCHANGED <<jobVars, envVars>>

\* An unknown outcome flags the creator and keeps the reservation.
RecordUnknown(r) ==
    /\ EligibilityFree(CreatorOf[r])
    /\ delivery' = [delivery EXCEPT ![r] = "DELIVERY_UNKNOWN"]
    /\ rcpt' = [rcpt EXCEPT ![r] = "DELIVERY_UNKNOWN"]
    /\ outbox' = [outbox EXCEPT ![r] = "COMPLETED"]
    /\ unresolved' = [unresolved EXCEPT ![CreatorOf[r]] = TRUE]
    /\ lastDelivery' = [lastDelivery EXCEPT ![CreatorOf[r]] = r]

\* A delivery found DISPATCHING may have been sent: it becomes unknown.
RecoverDispatching(w) ==
    /\ pc[w] = "recover"
    /\ RecordUnknown(at[w])
    /\ Goto(w, "scheduleOnly")
    /\ Stay
    /\ UNCHANGED <<campaignVars, resv, conv, recent, lastSent, accepted>>

\* Acknowledge the pause seen in the snapshot, whatever the state is by now.
AcknowledgePause(w) ==
    /\ pc[w] = "pauseSeen"
    /\ campaign' = [campaign EXCEPT ![CampaignOf[at[w]]] = "PAUSED"]
    /\ Goto(w, "delay")
    /\ Stay
    /\ UNCHANGED <<pauseReason, lapsed, rowVars, contactVars, accepted>>

NoCreatePermit(w) ==
    /\ pc[w] = "acquire"
    /\ Goto(w, "delay")
    /\ Stay
    /\ UNCHANGED <<campaignVars, rowVars, contactVars, accepted>>

Excluded(r) ==
    LET k == CreatorOf[r] IN
    \/ unresolved[k] /\ lastDelivery[k] # r
    \/ resv[r] \notin {"live", "pinned"}
    \/ recent[k] /\ ~(lastSent[k] = r /\ lastDelivery[k] = r)

\* reserveDispatchSlot takes its locks, reads and decides ...
ClaimRead(w) ==
    /\ pc[w] = "acquire"
    /\ ClaimLocksFree
    /\ LET r == at[w] IN
       Goto(w, IF \/ delivery[r] \notin Claimable
                  \/ campaign[CampaignOf[r]] \notin Active
               THEN "done"
               ELSE IF Excluded(r) THEN "exclude" ELSE "claimWrite")
    /\ Stay
    /\ UNCHANGED <<campaignVars, rowVars, contactVars, accepted>>

\* ... and writes what it decided, row by row, by primary key.
ClaimWrite(w) ==
    /\ pc[w] = "claimWrite"
    /\ LET r == at[w] IN
       /\ campaign' = [campaign EXCEPT ![CampaignOf[r]] = "RUNNING"]
       /\ delivery' = [delivery EXCEPT ![r] = "DISPATCHING"]
       /\ rcpt' = [rcpt EXCEPT ![r] = "PROCESSING"]
    /\ Goto(w, "create")
    /\ Stay
    /\ UNCHANGED <<pauseReason, lapsed, outbox, resv, conv, contactVars, accepted>>

ClaimExclude(w) ==
    /\ pc[w] = "exclude"
    /\ LET r == at[w] IN
       /\ delivery' = [delivery EXCEPT ![r] = "FAILED_TERMINAL"]
       /\ rcpt' = [rcpt EXCEPT ![r] = "CANCELLED"]
       /\ resv' = [resv EXCEPT ![r] = "none"]
       /\ outbox' = [outbox EXCEPT ![r] = "COMPLETED"]
    /\ Goto(w, "complete")
    /\ Stay
    /\ UNCHANGED <<campaignVars, conv, contactVars, accepted>>

-----------------------------------------------------------------------------
(* Worker: the provider calls.  A definite refusal accepts nothing. *)

Refused(r) ==
    {"quota", "auth", "restricted", "throttled",
     IF FinalAttempt(r) THEN "terminal" ELSE "transient"}

\* createOrGetConversation, then the conversation is stored on the delivery;
\* storing it may fail, which is retried whatever the attempt.
CreateConversation(w) ==
    /\ pc[w] = "create"
    /\ LET r == at[w] IN
       \/ /\ conv' = [conv EXCEPT ![r] = TRUE]
          /\ Goto(w, "permit")
       \/ \E p \in Refused(r) \cup {"transient"} : Goto(w, p) /\ UNCHANGED conv
    /\ Stay
    /\ UNCHANGED <<campaignVars, rcpt, delivery, outbox, resv, contactVars,
                   accepted>>

\* A Send Message permit is granted without another look at the campaign;
\* while none is granted, a campaign no longer active withdraws the attempt.
SendPermit(w) ==
    /\ pc[w] = "permit"
    /\ \/ Goto(w, "send")
       \/ /\ campaign[CampaignOf[at[w]]] \notin Active
          /\ Goto(w, "withdrawn")
    /\ Stay
    /\ UNCHANGED <<campaignVars, rowVars, contactVars, accepted>>

\* TikTok takes the message, and its answer arrives or is lost ...
SendAccepted(w) ==
    /\ pc[w] = "send"
    /\ accepted' = [accepted EXCEPT ![at[w]] = @ + 1]
    /\ \E p \in {"sent", "unknown"} : Goto(w, p)
    /\ Stay
    /\ UNCHANGED <<campaignVars, rowVars, contactVars>>

\* ... or it does not, and says so or leaves the worker in the dark; a
\* definite rejection is terminal whatever the attempt.
SendRefused(w) ==
    /\ pc[w] = "send"
    /\ \E p \in Refused(at[w]) \cup {"terminal", "unknown"} : Goto(w, p)
    /\ Stay
    /\ UNCHANGED <<campaignVars, rowVars, contactVars, accepted>>

-----------------------------------------------------------------------------
(* Worker: recording the outcome of an attempt *)

AfterRetryable(p) ==
    CASE p = "quota"     -> "pauseQuota"
      [] p = "auth"      -> "pauseAuth"
      [] p = "throttled" -> "delay"
      [] p = "transient" -> "throw"
      [] p = "withdrawn" -> "yield"
      [] OTHER           -> "done"

\* makeDeliveryRetryable writes both rows unconditionally.
MakeDeliveryRetryable(w) ==
    /\ pc[w] \in {"quota", "auth", "throttled", "transient", "withdrawn"}
    /\ delivery' = [delivery EXCEPT ![at[w]] = "FAILED_RETRYABLE"]
    /\ rcpt' = [rcpt EXCEPT ![at[w]] = "QUEUED"]
    /\ Goto(w, AfterRetryable(pc[w]))
    /\ Stay
    /\ UNCHANGED <<campaignVars, outbox, resv, conv, contactVars, accepted>>

\* A quota or authorization failure pauses the whole shop.
PauseShop(w) ==
    /\ pc[w] \in {"pauseQuota", "pauseAuth"}
    /\ campaign' = [c \in Campaign |-> IF campaign[c] \in Active
                                       THEN "SAFETY_PAUSED" ELSE campaign[c]]
    /\ pauseReason' = [c \in Campaign |->
                        IF campaign[c] \notin Active THEN pauseReason[c]
                        ELSE IF pc[w] = "pauseQuota" THEN "quota" ELSE "auth"]
    /\ outbox' = [r \in Recipient |-> IF outbox[r] \in Enqueueable
                                      THEN "SAFETY_PAUSED" ELSE outbox[r]]
    /\ Goto(w, "done")
    /\ Stay
    /\ UNCHANGED <<lapsed, rcpt, delivery, resv, conv, contactVars, accepted>>

\* The withdrawn attempt acknowledges a pause request that still stands.
YieldToPause(w) ==
    /\ pc[w] = "yield"
    /\ LET c == CampaignOf[at[w]] IN
       campaign' = [campaign EXCEPT ![c] = IF @ = "PAUSE_REQUESTED"
                                           THEN "PAUSED" ELSE @]
    /\ Goto(w, "done")
    /\ Stay
    /\ UNCHANGED <<pauseReason, lapsed, rowVars, contactVars, accepted>>

RecipientFailureAsDelivery(p) ==
    IF p = "restricted" THEN "RESTRICTED" ELSE "FAILED_TERMINAL"
RecipientFailure(p) == IF p = "restricted" THEN "RESTRICTED" ELSE "FAILED"

\* markRestricted and markTerminalFailure.
MarkFailed(w) ==
    /\ pc[w] \in {"restricted", "terminal"}
    /\ LET r == at[w] IN
       /\ delivery' = [delivery EXCEPT ![r] = IF pc[w] = "restricted"
                                      THEN "RESTRICTED" ELSE "FAILED_TERMINAL"]
       /\ rcpt' = [rcpt EXCEPT ![r] = RecipientFailure(pc[w])]
       /\ resv' = [resv EXCEPT ![r] = "none"]
       /\ outbox' = [outbox EXCEPT ![r] = "COMPLETED"]
    /\ Goto(w, "complete")
    /\ Stay
    /\ UNCHANGED <<campaignVars, conv, contactVars, accepted>>

AnyUnknownPending(rs) == \E r \in rs : delivery[r] = "DELIVERY_UNKNOWN"
AnyUnknown(rs) == \E r \in rs : delivery[r] \in Unknown

\* markSent, after a confirmed send or a reconciled one.
MarkSent(w) ==
    /\ pc[w] \in {"sent", "matched"}
    /\ LET r == at[w]
           k == CreatorOf[r] IN
       /\ EligibilityFree(k)
       /\ delivery' = [delivery EXCEPT ![r] = "SENT"]
       /\ rcpt' = [rcpt EXCEPT ![r] = "SENT"]
       /\ resv' = [resv EXCEPT ![r] = "none"]
       /\ outbox' = [outbox EXCEPT ![r] = "COMPLETED"]
       /\ unresolved' = [unresolved EXCEPT ![k] = AnyUnknown(By(k) \ {r})]
       /\ recent' = [recent EXCEPT ![k] = TRUE]
       /\ lastDelivery' = [lastDelivery EXCEPT ![k] = r]
       /\ lastSent' = [lastSent EXCEPT ![k] = r]
    /\ Goto(w, "complete")
    /\ Stay
    /\ UNCHANGED <<campaignVars, conv, accepted>>

\* markDeliveryUnknown, after a timeout or an answer that says nothing.
MarkDeliveryUnknown(w) ==
    /\ pc[w] = "unknown"
    /\ RecordUnknown(at[w])
    /\ Goto(w, "schedule")
    /\ Stay
    /\ UNCHANGED <<campaignVars, resv, conv, recent, lastSent, accepted>>

\* scheduleReconciliation(1), outside the transaction that recorded UNKNOWN.
ScheduleReconciliation(w) ==
    /\ pc[w] \in {"schedule", "scheduleOnly"}
    /\ AddReconcile(at[w], 1)
    /\ Goto(w, IF pc[w] = "schedule" THEN "complete" ELSE "done")
    /\ UNCHANGED <<campaignVars, rowVars, contactVars, job, holder, tries, stalls,
                   envVars, accepted>>

-----------------------------------------------------------------------------
(* Worker: campaign completion and read-only reconciliation *)

FrozenOf(c) == {r \in Of(c) : rcpt[r] \notin {"SELECTED", "DISCOVERED"}}

AllEndedOrUnknown(states) ==
    states # {} /\ states \subseteq TerminalRecipient \cup {"DELIVERY_UNKNOWN"}
AllEndedButRestricted(states) ==
    states # {} /\ states \subseteq TerminalRecipient \ {"RESTRICTED"}
AllEnded(states) == states # {} /\ states \subseteq TerminalRecipient

\* completeCampaignIfDone reads the recipients and then the campaign ...
CompleteRead(w) ==
    /\ pc[w] = "complete"
    /\ LET c == CampaignOf[at[w]]
           states == {rcpt[r] : r \in FrozenOf(c)} IN
       Goto(w, IF ~AllEnded(states) \/ campaign[c] = "CANCELLED" THEN "done"
               ELSE IF states = {"SENT"} THEN "completeOk" ELSE "completeErr")
    /\ Stay
    /\ UNCHANGED <<campaignVars, rowVars, contactVars, accepted>>

\* ... and then overwrites the campaign's state.
CompleteWrite(w) ==
    /\ pc[w] \in {"completeOk", "completeErr"}
    /\ campaign' = [campaign EXCEPT ![CampaignOf[at[w]]] =
                      IF pc[w] = "completeOk" THEN "COMPLETED"
                      ELSE "COMPLETED_WITH_ERRORS"]
    /\ Goto(w, "done")
    /\ Stay
    /\ UNCHANGED <<pauseReason, lapsed, rowVars, contactVars, accepted>>

Judgeable(r) == delivery[r] = "DELIVERY_UNKNOWN" /\ conv[r]

\* processReconciliation looks for exactly one imported message with the
\* delivery's content; the message may not have been imported yet.
PickReconcile(w, r, n) ==
    /\ pc[w] = "idle"
    /\ recon[r][n] = "waiting"
    /\ recon' = [recon EXCEPT ![r][n] = "active"]
    /\ \E p \in {"matched", "unmatched", "done"} :
         /\ p = "done" <=> ~Judgeable(r)
         /\ p = "matched" => accepted[r] = 1
         /\ pc' = [pc EXCEPT ![w] = p]
    /\ at' = [at EXCEPT ![w] = r]
    /\ task' = [task EXCEPT ![w] = n]
    /\ UNCHANGED <<campaignVars, rowVars, contactVars, job, holder, tries, stalls,
                   envVars, accepted>>

\* No unique match: look again later, or give up after the last attempt.
ReconcileUnmatched(w) ==
    /\ pc[w] = "unmatched"
    /\ LET r == at[w] IN
       IF task[w] < ReconcileAttempts
       THEN /\ AddReconcile(r, task[w] + 1)
            /\ UNCHANGED <<delivery, rcpt, resv>>
       ELSE /\ delivery' = [delivery EXCEPT ![r] = "DELIVERY_UNKNOWN_UNRESOLVED"]
            /\ rcpt' = [rcpt EXCEPT ![r] = "DELIVERY_UNKNOWN_UNRESOLVED"]
            /\ resv' = [resv EXCEPT ![r] = "none"]
            /\ UNCHANGED recon
    /\ Goto(w, "complete")
    /\ UNCHANGED <<campaignVars, outbox, conv, contactVars, job, holder, tries,
                   stalls, envVars, accepted>>

-----------------------------------------------------------------------------
(* History sync: rebuildHistoricalContactState from deliveries and messages; *)
(* an imported message may have been sent outside this system.               *)

RebuildContact(k) ==
    /\ "history" \in Commands
    /\ EligibilityFree(k)
    /\ LET sent == {r \in By(k) : delivery[r] = "SENT"} IN
       /\ unresolved' = [unresolved EXCEPT ![k] = AnyUnknown(By(k))]
       /\ \E imported \in BOOLEAN :
            recent' = [recent EXCEPT ![k] = @ \/ sent # {} \/ imported]
       /\ IF sent = {} THEN UNCHANGED <<lastDelivery, lastSent>>
          ELSE \E r \in sent : /\ lastDelivery' = [lastDelivery EXCEPT ![k] = r]
                               /\ lastSent' = [lastSent EXCEPT ![k] = r]
    /\ UNCHANGED <<campaignVars, rowVars, jobVars, runVars, envVars, accepted>>

-----------------------------------------------------------------------------
(* Specification *)

Api == \/ \E c \in Campaign : Freeze(c) \/ FreezeLapses(c) \/ ExpireFrozen(c)
       \/ \E o \in Operator :
            \/ QueueWrite(o) \/ PauseWrite(o) \/ ResumeWrite(o) \/ CancelWrite(o)
            \/ \E c \in Campaign : \/ QueueRead(o, c) \/ PauseRead(o, c)
                                   \/ ResumeRead(o, c) \/ CancelRead(o, c)

Sweep == \E r \in Recipient : \/ SweepSettled(r) \/ SweepList(r)
                              \/ SweepEnqueue(r) \/ SweepFails(r)

Pick(w) == \E r \in Recipient : \/ PickSend(w, r)
                                \/ \E n \in 1..ReconcileAttempts : PickReconcile(w, r, n)

Step(w) ==
    \/ RecoverDispatching(w) \/ AcknowledgePause(w) \/ NoCreatePermit(w)
    \/ ClaimRead(w) \/ ClaimWrite(w) \/ ClaimExclude(w)
    \/ CreateConversation(w) \/ SendPermit(w) \/ SendAccepted(w) \/ SendRefused(w)
    \/ MakeDeliveryRetryable(w) \/ PauseShop(w) \/ YieldToPause(w)
    \/ MarkFailed(w) \/ MarkSent(w) \/ MarkDeliveryUnknown(w)
    \/ ScheduleReconciliation(w) \/ ReconcileUnmatched(w)
    \/ CompleteRead(w) \/ CompleteWrite(w)
    \/ FinishJob(w) \/ DelayJob(w) \/ Throw(w)

Stall == \E r \in Recipient : \/ StallSend(r) \/ LoseLock(r)
                              \/ \E n \in 1..ReconcileAttempts : StallReconcile(r, n)

Next == \/ Api
        \/ Sweep
        \/ Stall
        \/ \E w \in Worker : Pick(w) \/ Step(w) \/ Exception(w) \/ Crash(w)
        \/ \E k \in Creator : RebuildContact(k)

Spec == Init /\ [][Next]_vars

\* Runs, sweepers, the stalled check and a request already made go on; jobs
\* that wait are picked up.  Nobody is obliged to issue a command, and
\* nothing is assumed of TikTok's answers.
Fairness ==
    /\ \A w \in Worker : WF_vars(Step(w))
    /\ \A r \in Recipient :
         /\ SF_vars(\E w \in Worker : PickSend(w, r))
         /\ \A n \in 1..ReconcileAttempts :
              /\ SF_vars(\E w \in Worker : PickReconcile(w, r, n))
              /\ WF_vars(StallReconcile(r, n))
         /\ WF_vars(SweepList(r))
         /\ WF_vars(SweepEnqueue(r))
         /\ WF_vars(StallSend(r))

FairSpec == Spec /\ Fairness

-----------------------------------------------------------------------------
(* What one delivery promises *)

\* TikTok accepts at most one message for a delivery, whatever is retried,
\* recovered after a stall or a crash, or cancelled (dispatch-safety.ts claim,
\* delivery-policy.ts recovery, main.ts outcomes).
AtMostOneMessage == \A r \in Recipient : accepted[r] <= 1

\* A delivery is recorded SENT only if TikTok accepted its message, and an
\* accepted message is never recorded as refused or open to a new claim.
RecordedAsHappened ==
    \A r \in Recipient :
        /\ delivery[r] = "SENT" => accepted[r] > 0
        /\ accepted[r] > 0 => delivery[r] \in {"DISPATCHING", "SENT"} \cup Unknown

\* The recipient and its delivery, written by separate statements of several
\* handlers, never drift apart.
RowsAgree ==
    \A r \in Recipient :
        /\ delivery[r] = "NONE" => rcpt[r] \in {"SELECTED", "DISCOVERED",
                                              "RESERVED", "CANCELLED"}
        /\ delivery[r] \in Claimable => rcpt[r] = "QUEUED"
        /\ delivery[r] = "DISPATCHING" => rcpt[r] = "PROCESSING"
        /\ delivery[r] = "FAILED_TERMINAL" => rcpt[r] \in {"FAILED", "CANCELLED"}
        /\ delivery[r] \in {"SENT", "RESTRICTED", "CANCELLED"} \cup Unknown =>
             rcpt[r] = delivery[r]

\* A message TikTok accepted is in the end recorded SENT, or given up on as
\* unresolved for a human to look at.
AcceptedIsSettled ==
    \A r \in Recipient :
        accepted[r] > 0 ~> delivery[r] \in {"SENT", "DELIVERY_UNKNOWN_UNRESOLVED"}

-----------------------------------------------------------------------------
(* What the campaigns of a shop promise together *)

\* A creator gets at most one message over all campaigns of the shop.
OneMessagePerCreator ==
    \A r, q \in Recipient :
        r # q /\ CreatorOf[r] = CreatorOf[q] => accepted[r] + accepted[q] <= 1

\* An accepted message leaves its creator protected at every moment: by the
\* reservation, then by the unresolved flag or the cooldown, with no gap.
AcceptedIsProtected ==
    \A r \in Recipient : accepted[r] > 0 =>
        \/ resv[r] = "pinned"
        \/ unresolved[CreatorOf[r]]
        \/ recent[CreatorOf[r]]

\* Every frozen recipient has reached a terminal state.
Over(c) == /\ FrozenOf(c) # {}
           /\ \A r \in FrozenOf(c) : rcpt[r] \in TerminalRecipient

\* A campaign reported complete is over: nothing is queued, being sent or
\* being reconciled, although completion overwrites the campaign's state on
\* what it read before and crashed checks are repeated.  As long as nothing
\* has failed, COMPLETED also means that every frozen recipient was sent, and
\* COMPLETED_WITH_ERRORS that one was not.
CompletionIsTruthful ==
    \A c \in Campaign :
        LET states == {rcpt[r] : r \in FrozenOf(c)} IN
        /\ campaign[c] \in {"COMPLETED", "COMPLETED_WITH_ERRORS"} => Over(c)
        /\ faults = 0 /\ campaign[c] = "COMPLETED" => states = {"SENT"}
        /\ faults = 0 /\ campaign[c] = "COMPLETED_WITH_ERRORS" => states # {"SENT"}

\* As long as nothing has failed and nothing is resumed, an active campaign all
\* of whose recipients have ended has a run that is about to complete it, with
\* a read still to come or already made (main.ts:237): two runs that finish
\* together never each leave the completion to the other.  Runs go on, so that
\* the campaign is completed.
SomeRunCompletes(c) ==
    \E w \in Worker : /\ pc[w] \in {"complete", "completeOk", "completeErr"}
                      /\ at[w] \in Of(c)
EndedIsBeingCompleted ==
    faults = 0 /\ "resume" \notin Commands =>
        \A c \in Campaign : campaign[c] \in Active /\ Over(c) => SomeRunCompletes(c)

=============================================================================
