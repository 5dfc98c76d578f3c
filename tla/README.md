# Specifications of tiktok-outreach

TLA+ models of the outreach system under `src/`, the TLC configurations that
check them on small instances, and TLAPS proofs of the safety properties that
matter most. `PROJECT.json` maps every definition to the lines it models and
lists the runs, the mutants, the hazards, the findings and the theorems.

Run, in this directory: `tlc -config MCDispatch_rivals.cfg MCDispatch` (and so
on for the other configurations), and `tlapm DispatchProofs.tla`.

## The system

An operator discovers creators on TikTok's affiliate marketplace, builds
campaigns of recipients and sends each recipient one message. The dangerous
operation is the message: it cannot be taken back, TikTok offers no idempotency
key, and its answer may be lost. Everything around it (PostgreSQL rows, BullMQ
jobs on Redis, several worker processes, API requests, timers) runs
concurrently.

| Component | State it keeps | Operations | Hard behaviour | What makes it correct |
|---|---|---|---|---|
| Outreach service (`apps/api/src/outreach`) | campaign, recipients, reservations, deliveries, outbox | create, clone, preview, freeze, queue, pause, resume, cancel | each request checks a state and writes later, beside workers and other requests | a frozen creator is reserved once, and freed when the freeze ends; names and clones are unique; a command does not undo what a worker has begun |
| Domain rules (`packages/domain`) | none | filter, skip reasons, ranking, selection | missing metrics, both directions, targets beyond the eligible | a preview is a best choice among the eligible |
| Outbox and freeze sweepers (`shared.ts`) | none | expire freezes, add missing jobs, repair the outbox | two processes sweep; Redis may fail between steps | a queued recipient gets a job, a live job is never duplicated |
| Outbound worker (`apps/worker/src`) | delivery state, BullMQ job | claim, create conversation, send, record the outcome, reconcile, complete | stalled jobs, crashes at every step, lost answers, lost job locks | at most one message, a truthful record, no forgotten delivery |
| Outbound governor (`outbound-throttle.ts`) | limiter row and permits per app, shop and endpoint | acquire, healthy, throttle, transient failure, quota block, release | stale clocks, two different locks on one row, leases of dead processes | bounded permits, cooldowns, recovery |
| Contact state (`history/contact-state.ts`, `packages/db`) | flags of a creator and shop | rebuild, eligibility lock | rebuilt by history sync while deliveries run | protection of a contacted creator has no gap |
| TikTok integration (`integrations/tiktok.service.ts`, `token-maintenance.service.ts`) | encrypted tokens, refresh lease and version, selected shop | authorize, select, refresh, wait, mark uncertain | single-use refresh token, processes racing, answers lost or late | one rotation at a time, never retried blindly, no used token kept as good |
| Read governor (`tiktok-read-governor.ts`, `real-read-only.ts`) | cooldown per operation, lease and spacing per group | acquire, start, success, throttle, release | checks and claims in separate statements, leases outlived | one read of a group at a time, successes spaced, reads go on |
| Creator sync (`creator-database`) | job, partitions, page receipts, sheet rows | claim, choose, fetch, stage, save, reconcile, commit a page, pause, resume, retry | crash between any two awaits, leases that nothing renews, requests that write what they read before | no page skipped or counted twice, no partition left behind |
| History sync (`history`) | job, conversation work, messages, cursors | backfill, head, incremental passes, pause, resume | overlapping ticks, a list that moves while it is paged, writes without the lease | imported history has no holes |
| Identity resolver (`identity`) | creators and their links | merge two creators | merges under in-flight deliveries | a merge loses no protection |
| Adapters, config, contracts, status, web, desktop | none that steps interleave on | formatting, parsing, views | — | — |

The components meet in the database and in BullMQ: the API writes campaign,
recipient, delivery and outbox rows; the sweepers turn outbox rows into jobs;
a worker's job claims a delivery under two advisory locks, asks the governor for
permits, calls TikTok through the adapter and records the answer; reconciliation
jobs read what history sync imported; a quota or authorization failure pauses
every campaign of the shop. Every read of TikTok, by history sync, the crawl or
the interface, asks the connection for an access token and passes the read
governor. A preview is built from what the crawl stored and from the contact
states that deliveries and history sync leave behind.

## What is modelled

### `Dispatch` — the life of a delivery

One shop. A recipient has one delivery, one outbox entry, at most one
reservation and one send job with a deterministic id, so all of them are
functions of the recipient. `campaign`, `rcpt`, `delivery`, `outbox`, `resv`,
`conv`, `unresolved`, `recent`, `lastDelivery`, `lastSent` are columns; `job`,
`holder`, `tries`, `stalls`, `recon` are BullMQ's; `pc`, `at`, `task` are the
runs in the worker's job slots; `op` is an API request between its check and its
write; `sweeping` the sweepers' lists; `accepted` counts what TikTok took.

| Code | Actions |
|---|---|
| `outreach.service.ts` freeze, queueFrozen | `Freeze`, `FreezeLapses`, `QueueRead`, `QueueWrite` |
| pause, resume, cancel | `PauseRead/Write`, `ResumeRead/Write`, `CancelRead/Write` |
| `shared.ts` and `maintenanceSweep` | `ExpireFrozen`, `SweepSettled`, `SweepList`, `SweepEnqueue`, `SweepFails` |
| `processSend` up to the claim | `PickSend`, `RecoverDispatching`, `AcknowledgePause`, `NoCreatePermit` |
| `dispatch-safety.ts` | `ClaimRead`, `ClaimWrite`, `ClaimExclude` |
| provider calls | `CreateConversation`, `SendPermit`, `SendAccepted`, `SendRefused` |
| outcomes | `MakeDeliveryRetryable`, `PauseShop`, `YieldToPause`, `MarkFailed`, `MarkSent`, `MarkDeliveryUnknown`, `ScheduleReconciliation` |
| completion, reconciliation | `CompleteRead/Write`, `PickReconcile`, `ReconcileUnmatched` |
| BullMQ, failures | `FinishJob`, `DelayJob`, `Throw`, `Exception`, `Crash`, `StallSend`, `LoseLock`, `StallReconcile` |
| history rebuild | `RebuildContact` |

A transaction is one action. A transaction that reads rows without locking them
and writes them later is two, because it runs under READ COMMITTED: the claim,
queueFrozen, pause, resume, cancel and campaign completion.

Abstractions:

- PENDING and ENQUEUED outbox entries of one recipient are swept alike. The
  sweepers of the API and of the worker (`apps/worker/src/main.ts:129-135`) share
  one list, `sweeping`, and what reconcileOutbox does for one entry, getJob,
  getState, remove, add and the marking of the entry (`shared.ts:68-82`), is one
  step, its failure another. Two sweepers that race between the state check and
  the removal of one job are therefore not explored; that a sweep replaces a job
  that is over, beside the run that still works on it, is.
- The campaign's optimistic `version` has moved exactly when the campaign is no
  longer FROZEN.
- cancel's state check and its read of the recipient ids are one read, and so
  are the two reads of completeCampaignIfDone.
- A cooldown does not elapse during a run; `doNotContact` is written nowhere in
  `src/` and is left out, and so are UNKNOWN historical contact facts.
- Permits of the governor are granted or not, at will; delays are not timed.
  A reconciliation job's stall count is not kept.
- A structured refusal of TikTok (including 5xx) means that the message was not
  accepted. This is an assumption about TikTok that the code makes too.
- Bounds: `MaxFaults` crashes, exceptions, sweep failures and lock losses;
  `MaxAttempts` and `ReconcileAttempts` stand for the configured 4 and 3.

### `Outreach` and `DispatchContract` — the promise

`Outreach` says what an operator may rely on: the record of a message is open,
begun, unknown, sent or closed; TikTok takes a message only while it is begun, once;
an unknown outcome is resolved only to sent; closed is final, and sent may only fall
back to unknown; and no attempt begins while another message to the same creator is
begun, unknown or sent. `DispatchContract` maps the delivery row's state to the
record and `accepted` to what TikTok took, which makes `Dispatch` an implementation.
The map holds without cancellation and without lost job locks; with a cancel the
exclusion fails, with a lost lock the finality of an unknown record.

### `OutboundGovernor` — one limiter

Limiters are independent, so the model has one, of either endpoint. Instants
are kept relative to now and `Tick` ages them. Whoever acquires has read the
clock up to `MaxWait` ticks (the transaction's timeout) before its transaction
gets its lock, and the settlements have read it up to the age of the call. acquire
is atomic, since its upsert locks the row; settlements take a different advisory
lock, read and then write, and are two actions (`Answer…` and `Settle`). A failure
count is kept as the backoff it gives, the success count only up to the ceiling
it is compared with. A crash leaves a permit behind (one per caller). The row
may start with a concurrency from an older configuration; acquire clamps it, so
that the concurrency is above the ceiling only in the row as it was found
(`AsFound`, part of `TypeOK`). Processes with two configurations at a time, of
which one could write back a concurrency above the other's ceiling, are not
modelled; what a settlement may write back over a newer row is its state, its
counts and its next instant.

### `CreatorSync` — the Marketplace crawl

One job row (`job`), the search partitions (`partition`), the receipts of the
pages (`receipt`), the rows each page has in the Google Sheet (`rows`), what
every invocation of processNext is doing (`run`) and the operator's request
(`operator`). The discovery worker's timer does not wait for its last tick, and
two workers may run, so invocations overlap; a job lease of fixed length, which
nothing renews, keeps them apart. `overlapped` and `overtaken` are history: a
run has gone on without its lease; a request wrote after what it had read had
changed.

| Code | Actions |
|---|---|
| `processNext` | `See`, `Claim` |
| `processClaimed`, `claimPartition` | `Start`, `Import`, `PauseClaimed`, `ChooseRead/Write`, `Ready`, `Begin`, `SearchAnswered`, `SearchRefused`, `StageReceipt` |
| `commitPage`, `reconcilePage` | `Load`, `Persist`, `Attempt`, `ReadSheet`, `WriteSheet`, `CommitRead`, `CommitWrite` |
| `handleError` | `ErrorRead`, `HandleSheetsFailure`, `HandleNoPage`, `HandleBusiness`, `HandleTemporary`, `HandleFatal` |
| exceptions, death, time | `Fails`, `Dies`, `ExpireLease`, `Elapse` |
| `creator-database.service.ts` pause, resume, initializePartitions | `PauseRead/Write`, `ResumeRead/Write`, `InitializeRead/Write` |

There is one action per await. What matters for overlapping runs is which update
carries the lease in its WHERE clause and which goes by id; every action says so
(`Fenced`, `Holds`, or neither).

Abstractions:

- The creators of a page are one unit, and the page token is the number of pages
  the partition is behind; a receipt is keyed by partition and token.
- STARTING and RUNNING are one state, COMPLETE and DEEPLY_SATURATED one status.
- The scheduler's ranking is left out, what it may take is not. It takes a queued
  partition, or in the slot of a probe, which may be any, one of those kept for
  probes (`Rare`, the bucket Very High, EXPERIMENT_ONLY until chosen). Seeds of
  the buckets Low and Medium (`Primary`) are passed over when their category
  snapshot no longer fits the catalog, and are marked (`skipped`). The catalog is
  not a variable: a refresh may come between any two choices, so that any set of
  queued primary seeds may be stale at a choice. When nothing is left that a
  regular slot may take, the job is EXHAUSTED whatever was passed over or kept.
  A snapshot that fits can always be claimed: the rule that tries the siblings of
  a shared category first passes over none that has no such sibling queued.
- `Parent` fixes which partition the split of a completed one creates.
- Partitions disabled by strategy, configuration errors and the content of the
  category catalog are left out; initializePartitions is the case of a refresh
  that finds nothing new.
- Delays are over or not; recordActivity is one step with the transaction's read
  that follows it at once (`CommitRead`).

### `TokenRefresh` — the connection and its token

One connection row (`conn`), the selection of its shop, and for every caller
where it stands (`at`), the row it read (`seen`) and the pair TikTok gave it
(`answer`). A token pair is named by its authorization and the number of its
rotations; `grant` is the rotation TikTok accepts next, `pending` the
authorizations exchanged but not stored. `last` and `evicted` are history: the
newest pair ever stored, and callers whose lease was marked as lapsed or
replaced by an authorization.

| Code | Actions |
|---|---|
| `validAccessToken`, `token-maintenance.service.ts`, manual refresh | `ValidAccessToken`, `Sweep`, `ManualRefresh` |
| `refreshToken` | `ReadConnection`, `GiveUpDeadToken`, `Claim`, `Rotate`, `Persist`, `MarkFailed` |
| `markRefreshUncertain`, `waitForRefresh` | `MarkUncertain`, `Poll`, `MarkLapsed` |
| `callback`, `selectShop` | `Exchange`, `StoreAuthorization`, `SelectShop` |
| time, failures | `TokenAges`, `LeaseLapses`, `CallerDies`, `FlowDies` |

One statement is one action, since none of them is in a transaction with another:
the compare-and-set conditions are all that keeps the callers apart. An expiry is
a bit; the status is HEALTHY or not. The answer of a rotation is lost or unclear
(uncertain, whether TikTok has rotated or not), a pair, or a refusal. A pair that
names another user or seller is WRONG_AUTHORIZATION_IDENTITY, which the code
counts as unclear (`tiktok.service.ts:18`, 464), and so it is one here; a refusal
is an answer with a code other than 0, and TikTok is taken not to have rotated
then. The scope check of selectShop is a read of
its own, so that its write may fall at any moment. Building the authorization
URL, the OAuth state and the single reads for the interface are left out.

### `ReadGovernor` — admission of reads

The operations of one lease group (`group`); groups share nothing. `cooldown` and
`backoff` are an operation's row, `lease` the group's row, `phase`, `using`,
`counted` and `retries` a request of the client. Instants are relative to now;
`age` is how long ago a reader has read the clock its next statement uses, at most
`MaxAge`. `late` (readers whose lease has run out under them) and `quiet` (time
since the last success whose spacing was written under its lease) are history:
the spacing of the others is lost, see the divergences.

| Code | Actions |
|---|---|
| `acquire` | `Ask`, `CheckCooldown`, `ClaimLease` |
| `requestStarted`, `requestRaw` | `StartRequest`, `Retry`, `Fail` |
| `succeeded` | `Succeed`, `SpaceNext` |
| `throttled` | `Throttled`, `WriteCooldown` |
| `release`, also in the client's `finally` after a statement failed | `Release`, `StatementFails` |
| time, death | `Tick`, `ReaderDies` |

The two statements of each method are two actions. When requestStarted, succeeded
or throttled throws, before or after its statement took effect, the client
releases the lease (`real-read-only.ts:178-180`); only a death or a failing
release leaves it behind. A throttle count is kept as
the backoff it gives, and the local midnight after an exhausted quota is a
constant delay.

### `HistorySync` — the import of conversations

`job` is the job row, `work` the conversation work of its current page sequence,
`imported` the messages stored, `proven` a completed sync run; `at` and `held` are
the ticks of the history worker, which may overlap. `order` and `sent` are
TikTok's, `requests` what the operator's requests have read of the job before they
write it by its id: a message that arrives brings its conversation to the top of the list
that is being paged, and `arrivals` counts them against their bound. `listed` is history:
the messages the page last listed owes.

| Code | Actions |
|---|---|
| `processNext` | `Find`, `Claim` |
| `processClaimed` | `ProcessClaimed` |
| `fetchConversationPage`, `fetchMessagePage` | `StoreList`, `StoreMessages` |
| `advanceCompletedPage` | `AdvanceCompletedPage`, `FinishBackfill` |
| `handleError` | `Error`, `HandleError`, `RecoverCursor`, `FailAttempt` |
| `startHistorySync`, `resumeHistorySync` | `StartHistorySync`, `ResumeHistorySync` |
| `pauseHistorySync`, `runIncrementalNow` | `PauseHistorySync`, `ReadForIncremental`, `RunIncrementalNow` |
| TikTok, time, death | `MessageArrives`, `FallsDue`, `LeaseLapses`, `TickDies` |

A page holds one conversation or one message. Work of a page sequence that has
been left is never looked up again: only the current one is kept, and a tick
remembers whether the work it was given is current, left or deleted. The counters,
audit events, and the CSV and mock imports are left out.

### `DomainRules` and `CampaignPreview` — a campaign before dispatch

`DomainRules` has the filters, skip reasons, ranking and selection of
`packages/domain` as operators, with a reference (`BestSelection`) that does not
sort. The filters are one bounded metric. `CampaignPreview` has the campaigns,
their recipients' states (`row`), reservations (`reserved`), clone events
(`clones`), contact flags, advisory locks and requests (`at`, `held`). The
domain's operators are evaluated on what a request has read (`view`), and what it
selects is written later.

| Code | Actions |
|---|---|
| `create`, `cloneFromPreview`, `campaign-naming.ts`, `local-preview.ts` | `Create`, `CloneFromPreview`, `LockSubmission`, `AllocateCampaignName`, `CommitCampaign` |
| `discover`, `rebuildFromCreatorDatabase` | `Discover`, `ReadCreatorDatabase`, `Rebuild` |
| `send`, `freeze`, `queueFrozen` | `Send`, `LockEligibility`, `CheckPreview`, `Freeze`, `RereadFrozen`, `QueueFrozen` |
| `expireFrozenCampaigns`, `cancel` | `ExpireFrozenCampaigns`, `CancelRead`, `Cancel` |
| others | `FreezeLapses`, `ContactChanges`, `RequestFails` |

It ends where `Dispatch` begins: a campaign that is QUEUED is only cancelled.
What freeze and cancel do to deliveries and the outbox is in `Dispatch`, which
starts with its campaigns previewed. The advisory locks are released when the
request ends. Text of names and messages, and the day, are left out; the reads of
one preview see one instant. A preview keeps every creator it has read, where the
code keeps the selected and others up to `candidateLimit`
(`outreach.service.ts:188-191`); a clone selects among the candidates its source
has kept (`local-preview.ts:14`), in the model among all creators. A cancelled row
stays selected, as in the code, until a freeze excludes it.

## What is checked

| Run | Instance | Shows |
|---|---|---|
| `MCDispatch_rivals` | two campaigns, one creator, two job slots, one fault, history rebuilds | `OneMessagePerCreator`, `AcceptedIsProtected`: without cancellation a creator is messaged once and stays protected; `RowsAgree`, `TypeOK`; `OutreachContract`: every step is a step of the abstract `Outreach` or leaves it alone |
| `MCDispatch_single` | one delivery, two job slots, two attempts, one fault or lost lock, pause, resume, cancel | `AtMostOneMessage`, `RecordedAsHappened` |
| `MCDispatch_pair` | one campaign, two creators, two job slots, two reconciliation checks, one fault, no commands | `CompletionIsTruthful`, `EndedIsBeingCompleted` |
| `MCDispatch_live` | the same with one slot, no faults, fairness | `AcceptedIsSettled` |
| `MCOutboundGovernor_governor` | both endpoints, two callers | `TypeOK`, `PermitsBounded`, `AskersAreServed`, `CapacityReturns` |
| `MCCreatorSync_creators` | a seed of two pages that may be passed over, the child its split creates, a partition kept for probes, two overlapping runs, two faults, two commands | `NothingSkipped` always; while every run keeps its lease `CountsAgree`, `OneRowPerCreator`, `StagedPageBlocks`; and, when no request is overtaken either, `NoneStranded`; `TypeOK` |
| `MCCreatorSync_creators_live` | the seed and its child, one fault, two business retries, fairness | `CrawlEnds`, `StagedCommits` |
| `MCTokenRefresh_tokens` | two callers, two authorizations, two rotations of each, one fault | `KeptTokenIsLive`, `LeaseIsKept`, `RotationsFollowOn`, `InProgressEnds`, `TokenTypeOK` |
| `MCReadGovernor_reads` | two readers, three operations of two groups, clocks one tick old, one retry | `ReadsAreExclusive`, `SuccessesAreSpaced`, `ReadsResume`, `ReadTypeOK` |
| `MCHistorySync_history` | two ticks, two conversations, one arriving message, one fault, one pause, one request under way | `BackfillIsComplete`, `NothingLeftBehind`, `EveryMessageArrives`, `HistoryTypeOK` |
| `MCCampaignPreview_campaigns` | two requests, three campaigns, three creators, targets of two or refused, one clone submission; the ranking for every view of three creators | `NamesAreUnique`, `CloneOnce`, `PreviewIsBest`, `ReservationsAreOwned`, `PreviewTypeOK` |

One run finds a behaviour that contradicts a document of the repository; its
finding in `PROJECT.json` quotes it.

| Run | Property violated | Behaviour |
|---|---|---|
| `MCDispatch_cancel_rivals` | `OneMessagePerCreator` | cancel deletes the reservation of a recipient that a worker claimed after cancel's read; another campaign sends to the creator |

What the passing runs leave out follows from this and from the divergences below:
`rivals` has no cancel and no lost lock, since with them its properties fail:
`cancel_rivals` shows the first, and a run that has lost its job lock overwrites
an UNKNOWN delivery with FAILED_RETRYABLE (`apps/worker/src/main.ts:284`), which
no document speaks of.
For the same reason `CreatorSync` states some properties only while no run goes
on without its lease: the page of a run that outlived it is counted twice and may
get two rows, and a resume that writes the partition it had read before leaves
that partition behind when the job has moved to another. `ReadsAreExclusive` and
`SuccessesAreSpaced` speak of readers within their leases (a request may take
longer than its lease), `LeaseIsKept` of callers whose lease nobody has marked as
lapsed, and `BackfillIsComplete` of conversations that stay where they are in
TikTok's list: those with new activity are what the head passes are for, and
`EveryMessageArrives` covers them.

Bounds. The conflicts over a creator need two campaigns; those over a delivery two
runs; those of completion two recipients. A third of either repeats a pair. One
fault reaches every single failure point of every handler; two attempts separate a
retry from a last attempt, and one reconciliation check the last from none (two in
`pair` and `live`, where the chain of checks matters). In `CreatorSync` two pages
separate a cursor that goes on from a partition that ends, the child exists to be
split off and chosen, the third partition to be left or probed (the liveness run
does without it, and has two business retries instead of one, the last and one
before), two runs are all it takes to overlap, and two faults let the second strike
the recovery from the first. In `TokenRefresh` two callers are the holder and its
rival, two rotations a pair and its successor, and a second authorization comes
between; the sweep and the manual refresh are the same callers at another entrance.
In `ReadGovernor` the lease is a tick longer than the spacing and the spacing than
the age of a clock, so that a clock can be too old for either and for neither; two
operations share a group and a third has its own, and the backoff reaches its cap at
once. In `HistorySync` two conversations make a list that an arriving message
reorders and a first page that is not the last; one resume or run-now is under way
at a time, and a pause beside it, and a run-now that finds the job active counts as
a pause. In `CampaignPreview` an allocation needs a committed name and a rival, and
a reservation a campaign that lapsed and one that takes its creator; a campaign's
target is two or refused, the creator without a metric is filtered, the other two
are ranked. The ranking itself is checked apart, within `PreviewIsBest`: for every
assignment of no metric, 0, 1 or 2 to three creators, with and without a filter, in
both directions, with every set of them reserved or flagged, and for every target
from none to one more than there are, so that ties, ranked creators without a metric
and targets beyond the eligible all occur. `MaxVersion` lets a campaign be
previewed, frozen, expire and be previewed again. Deadlock is not checked in the
Dispatch, CreatorSync, HistorySync and CampaignPreview runs, because those systems
stop when every job is done, when the crawl is exhausted or paused, when the import
is and no message arrives, and when every campaign has been dealt with; it is in the
others. Symmetry is used only in runs without liveness.

Fairness. In `Dispatch`, a run that can go on goes on (weak fairness per job slot),
every waiting job is eventually picked up (strong fairness: slots are shared),
timers run the sweepers and the stalled check (weak). No operator command and no
answer of TikTok is ever assumed. In `OutboundGovernor`, time passes and settlements
commit (weak), and a caller that keeps asking is eventually answered rather than
timed out for ever (strong, as the row lock's queue grants it). In `CreatorSync` the
worker's timer runs processNext again and every await ends (weak per run), a request
that was read is written, delays pass and the lease of a dead run ends (weak). No
fairness makes the Marketplace or the Sheet succeed: a refusal is always possible,
and `CrawlEnds` rests on the bound of the business retries and on `MaxFaults` for
every other failure. In `TokenRefresh` the statements a caller has issued run and
callers ask again (weak per caller), and a lease lapses (weak); TikTok may refuse
every refresh. In `ReadGovernor` time passes, readers ask again and their statements
run (weak); `ReadsResume` allows that readers die, or their statements fail, for
ever. In `HistorySync` the worker's timer fires and a tick's statements run (weak
per tick), and delays and leases of dead ticks end (weak); that an operator resumes
a paused or failed job is not assumed, hence `Stopped`. `CampaignPreview` has no
fairness: requests may stop anywhere, and nothing is promised of them but safety.

Each property of a passing run has a mutant in `PROJECT.json`: a plausible slip
in the code (an ignored lock, an overlooked state, a count that is dropped) for
which TLC finds the property violated.

## What is proved

TLAPS proves, for every value of the constants allowed by the assumptions:

- `DispatchProofs!TypeCorrect`, `NeverSentTwice` (`AtMostOneMessage`) and
  `RecordsAreTrue` (`RecordedAsHappened`), from `DispatchAssumption`. Neither
  safety property is inductive. `DispatchInv` strengthens them with the argument
  of the claim: one run at a time is inside the locked claim
  (`OneClaimAtATime`), at most one run works on a delivery it has claimed
  (`OneAttemptAtATime`), a run that works on it has made it DISPATCHING or found
  it so overtaken (`AttemptsAreBegun`), nothing is claimed again after that
  unless the message was definitely not accepted (`ClaimsComeFirst`,
  `AcceptedOnce`), and only an accepted message is ever confirmed
  (`ConfirmedWasAccepted`). Stalls, lost locks and crashes move only the job and
  the run, never the claim, which is why duplicated jobs are harmless. The
  proof has one lemma per action or family of actions that leaves the same
  variables alone.
- `DispatchProofs!RowsStayPaired` (`RowsAgree`), if cancel is not among the
  commands (`NoCancel`): a cancel writes the recipients it read as queued and
  parts them from deliveries claimed since.
- `DispatchProofs!CreatorsAreMessagedOnce` (`OneMessagePerCreator`),
  `AcceptedStaysProtected` (`AcceptedIsProtected`), `ImplementsOutreach`
  (`OutreachContract`) and `CompletionsAreTruthful` (`CompletionIsTruthful`), if
  also no run loses the lock of its job (`NoCancel /\ ~LockLoss`). These are the
  two conditions of `rivals`; without the first the run `cancel_rivals` shows the
  violation, and without the second a run that has lost its lock overwrites what
  another recorded (see below). Crashes, stalls, exceptions, lost answers, freezes
  that lapse, sweeps, pauses, resumes and rebuilds stay in. `Safe` is the
  invariant. A run knows its job, holds its lock, and its delivery is still in the
  state that brought it to its step (`TasksFit`, `LocksHeld`, `DeliveriesFit`).
  Two things keep campaigns off one creator, and the hand-over between them has no
  gap: the reservation, which is pinned until the outcome is known and of which a
  creator has one (`NotQueuedYet`, `ReservationsFit`, `OneReservation`), and the
  contact flags afterwards (`ContactsFlagged`; a rebuild restores them because the
  last delivery is never one that could be claimed, `LastDeliveryEnded`). Hence at
  most one message to a creator has begun (`OneBegun`), and what a claim read under
  its locks still holds when it writes (`ClaimsExclusive`). The refinement follows
  step by step: each handler's write is the abstract begin, confirmation, closing
  or loss of track of one record, and all other steps stutter.
- `DispatchProofs!EndedCampaignsComplete` (`EndedIsBeingCompleted`), if resume is
  not among the commands (`NoResume`): until the first fault, a campaign whose
  recipients are all over is complete, or some run will still read them all and
  complete it. Two runs that finish together each record their recipient before
  they read the other's, so that the later of them sees both; a resume reopens
  the campaign behind their reads.
- The completion needs more, since it overwrites the campaign on what it read
  before. A campaign that is over stays over, because only a late check may still
  write a recipient and it writes a terminal state (`LateJudgement`). While
  nothing has failed no check comes late: checks follow one another, each active
  one has one run, and nobody else settles the delivery it judges (`ChecksInv`).
- `OutreachProofs!OneMessageTaken`: the contract of `Outreach` gives a creator at
  most one message over all campaigns. Its invariant: a taken message is under an
  exclusive record, and two rivals never have one at once.
- `OutboundGovernorProofs!LimiterTyped` (`TypeOK`) and `PermitsStayBounded`
  (`PermitsBounded`), from `GovernorAssumption`, which bounds nothing but the shape
  of the constants. `TypeOK` says of the concurrency that it is at least one and
  above the ceiling only in the row as it was found, before anyone was admitted; so
  no settlement ever reads or writes one above it, since each is that of a permit,
  which acquire grants after the clamp. `PermitsBounded` is preserved because every
  grant counts the permits left after purging against the smaller of the concurrency
  and the ceiling, and no other step adds a permit: a crash only moves one.
- `CreatorSyncProofs!CrawlTyped` and `NoPageSkipped` (`NothingSkipped`), from
  `CreatorSyncAssumption`. `NothingSkipped` is not inductive: the transaction
  that moves the cursor does not look at what it moves past, and it runs without
  the lease too. `CrawlInv` adds what makes it right: the page a run is at lies
  behind saved pages, was stored when it is to be reconciled and has rows when it
  is to be committed (`RunsOK`); a receipt is only ever staged behind saved pages
  (`Behind`), which covers the successor that takes up a dead run's page; and a
  cursor points at a page that exists (`CursorInRange`). One lemma, `Preserved`,
  says that saved pages stay saved under any step that undoes nothing and moves
  no cursor; each action has a lemma that it is such a step, and `CommitWriteStep`
  covers the one that does move a cursor.
- `CreatorSyncProofs!PagesAreCounted` (`CountsAgree`), `SheetHasOneRow`
  (`OneRowPerCreator`), `NothingAskedWhileStaged` (`StagedPageBlocks`) and
  `NoPartitionStranded` (`NoneStranded`), which speak of crawls in which no run
  goes on without its lease. Then one run is at work at a time (`LeaseOwned`), and
  `Alone` carries what it has read to where it uses it: it is at the current
  partition, the page it is at is the only one staged (`OneStaged`), and a row it
  did not find is still missing when it appends (`RunFits`). A page is counted by
  the step that commits it, and that step finds it staged (`CountsOK`).
  `NoneStranded` also needs that no request is overtaken: then whatever is begun
  and not complete is the current partition, and a partition is chosen only when
  nothing is begun (`Anchored`). An exhausted crawl has therefore completed every
  partition but those that were left aside on purpose: kept for a probe, queued
  with the mark of a stale snapshot, or never split off. That the mark is there is
  part of the invariant (`Settled`): a choice that exhausts the job has passed over
  whatever is still queued, a commit that does so has found nothing queued, and
  nothing is queued while the job stays EXHAUSTED.
- `HistorySyncProofs!JobIsTyped`, `CompleteMeansImported` (`BackfillIsComplete`)
  and `CursorLeavesNothing` (`NothingLeftBehind`), from `HistoryBounds`, for any
  number of overlapping ticks and of requests under way, and with no condition on
  the lease. A resume or a run-now that writes over a job claimed
  since takes at most its lease away (`RequestsFit`: a run-now has found the job
  imported once, and it remains so). The invariant
  `ImportInv` says that the part of the list before the cursor lacks nothing, but
  for conversations with new activity (`Seen`): an arriving message moves its
  conversation to the top and pushes others down, so that no quiet conversation
  moves up into the part that was read (`SeenLater`). What lies between the
  cursor and the next page is carried by the phase: while the list is read no work
  of the page is begun (`ListPhase`), while messages are read everything the page
  owes is stored or open (`MessagePhase`). A tick that has lost its lease still
  writes, by id, and `TickFits` says why that is harmless: the message it stores
  is the next one below what is stored, and it finishes only an import that is
  complete. What a tick with the lease took is of the page the job is at
  (`OwnerFits`), because every step that leaves the page gives up the lease.
- `TokenRefreshProofs!KeptTokenStaysLive`, `ClaimedLeaseIsKept`,
  `RotationsAlwaysFollowOn` and `ConnectionTyped`, from `TokenBounds`. The three
  properties hold only together (`TokenInv`). The pair a caller rotates is the
  newest one as long as the row's version is the one it read, and afterwards is
  `Superseded`: of an authorization that is gone, or of an earlier rotation
  (`ViewsAreOrdered`). TikTok accepts the newest pair or the one whose answer is
  not stored yet (`GrantNearLast`, `AnswersAreNext`); while the holder has not
  rotated the stored pair is good (`HolderKeepsGrant`), and a holder that was
  evicted has lost it to a cleared or replaced one (`EvictedLostRow`).
- `ReadGovernorProofs!ReadsStayExclusive`, `SuccessesStaySpaced` and `ReadsTyped`,
  from `ReadBounds`, for any length of lease and spacing and any age of clocks.
  `LeaseProtects`: a reader that is not late is on the row and its lease has not
  run out, however old the clock was it claimed with, so that nobody else's claim
  matches. `SpacingRemembered` and `ClaimedAfterSpacing` carry the spacing from
  the success to the next claim, also over requests whose statements failed
  and that released a lease they had (`Release` keeps the spacing of the row).
- `CampaignPreviewProofs!NamesStayUnique`, `ClonesStaySingle`,
  `ReservationsStayOwned` and `PreviewTyped`, from `PreviewBounds` and
  `DomainBounds`. A request that has allocated a name holds the lock, and its name
  exceeds all that are committed (`NameIsNext`); a request past the submission's
  lock holds it and no clone is recorded (`CloneIsFirst`). `ReservationInv` holds
  of each campaign by itself (`Owned`): a campaign's creators are reserved, and
  released, together, and freezing leaves nobody merely selected or cancelled. So a second
  freeze of a campaign finds either all its creators reserved and gives them up,
  or none. The eligibility locks are not needed for it, nor the version.

Only model-checked: the liveness properties (ENABLED and fairness are outside
the prover's reach) and `PreviewIsBest` (the result of a sort needs induction over
sequences).

## Known divergences

Met while modelling; each is reachable in the models, so that no passing property
denies it. Paths are under `src/`.

- Dispatch. The claim writes RUNNING over a pause committed after its read
  (`apps/worker/src/dispatch-safety.ts:69`), though docs/PRODUCTION.md:63 has a
  pause stop new recipients. A run that has read PAUSE_REQUESTED writes PAUSED by
  the campaign's id (`apps/worker/src/main.ts:306`), over a resume, a cancel or a
  completion since. A delivery recorded as UNKNOWN without a conversation
  is never checked again (`apps/worker/src/main.ts:527`), nor is one whose worker
  dies between the record and the scheduling of the check (`main.ts:233-234`);
  README.md:76 and docs/PRODUCTION.md:120 promise the checks. A check that a crash
  made BullMQ repeat overlaps the next one, and if it is the last it writes
  DELIVERY_UNKNOWN_UNRESOLVED over the SENT of the other (`main.ts:546`): a campaign
  reported COMPLETED then has an unresolved recipient. `CompletionIsTruthful`
  therefore says what COMPLETED means only until the first fault.
- Outbound governor. The settlement of another permit lifts a quota block or cuts
  a cooldown just recorded (`apps/worker/src/outbound-throttle.ts:161`, 166, 189,
  211), against docs/PRODUCTION.md:67.
- Creator sync. A pause request changes the stage while the Sheet is being written;
  `handleError` recognises a Sheet failure by that stage
  (`creator-sync.processor.ts:714`) and then stops the job. A choice writes
  EXHAUSTED and ALL_PARTITIONS_COMPLETE while partitions are EXPERIMENT_ONLY or
  queued with a stale snapshot (`creator-sync.processor.ts:324-340`, 397-398), and
  a commit EXHAUSTED while some are EXPERIMENT_ONLY (646-648).
  A resume of an exhausted crawl takes an EXPERIMENT_ONLY partition for
  eligible work (`creator-database.service.ts:267`), but the exhaustion has not
  moved the claim sequence that decides the slot (`creator-sync.processor.ts:287`,
  425), so that outside a probe's slot the job is exhausted again at once; in the
  model the slot may be any.
- Token refresh. A claimant that read the row before may claim over FAILED or
  OUTCOME_UNCERTAIN, which leave the version as it is (`tiktok.service.ts:453`),
  where docs/tiktok-integration.md:90 blocks automatic retry. selectShop declares
  HEALTHY from an older read (`tiktok.service.ts:306`).
- Read governor. A throttle recorded between the check of the cooldown and the
  claim is not honoured (`tiktok-read-governor.ts:74`), and a late success clears
  a newer cooldown (line 128). A success whose lease lapses before its spacing is
  written, or whose update fails so that the client's `finally` releases the lease
  (`real-read-only.ts:178-180`), leaves the next request only the spacing of the
  claim.
- History sync. A pause is overwritten by BACKING_OFF, FAILED or QUEUED, which
  `handleError` writes by the job's id (`history-processor.ts:261`), and by the
  COMPLETE of a tick on its way. runIncrementalNow keeps the page sequence, so
  that work already complete under it is not read again. It refuses a job that is
  active (`history.service.ts:467`), but writes by id what it read before: a job
  claimed since loses its lease and starts the pass anew, and a resume that is
  late puts a running job, or one that has failed or finished since, back to
  QUEUED (lines 439-444).
- Campaign preview. The transaction of `rebuildFromCreatorDatabase` does not look
  at the campaign's state again (`outreach.service.ts:193`; the guard is at 245):
  a discover that overlaps a Send deletes the recipients and reservations of a
  frozen, queued or running campaign and puts it back to PREVIEW_READY. Freeze
  does not lock the campaign between its version check and its read of the
  recipients (line 438), so that it may freeze a preview rebuilt in between. A
  freeze that lapses after queueFrozen's check (line 549) may be queued when
  another freeze has already deleted its reservations, which is why
  `ReservationsAreOwned` demands nothing of the reservations of a queued campaign.

## Plan

Written: `Dispatch`, `OutboundGovernor`, `Outreach` with `DispatchContract`,
`CreatorSync`, `TokenRefresh`, `ReadGovernor`, `HistorySync`, `DomainRules` with
`CampaignPreview`. Left, in the order of importance:

1. What cancel leaves of the promises to several campaigns: which reservations and
   claims `OneMessagePerCreator` can be proved about when requests may cancel.
2. The composition of `CampaignPreview` and `Dispatch`: a rebuild or an operator
   edit beside a running campaign, and the cancel of a recipient in processing.
3. The scheduler's ranking, the splitting of partitions and the retry settings,
   against a reference over bounded inputs.
4. Merging creators of provider identities beside `Dispatch`'s eligibility lock.
5. The real time between two Send Message admissions of the outbound governor.

## Not modelled

- Request signing, parsing and cryptography, configuration and schemas, the web
  and desktop interfaces, the OAuth hand-over, status views, diagnostics and
  scripts: they keep no state that concurrent steps share.
- The identity resolver: each call is one transaction (the merge a serializable
  one) over rows from which the other models abstract: they name a creator by one
  value.
- The CSV and mock imports of the history service: each contact state they write
  is one step, which is a `ContactChanges` of `CampaignPreview`.
- How the scheduler ranks what it may take, which slot comes when, and how a
  partition is split: `CreatorSync` allows every choice among the partitions that
  may be taken, so that its properties do not depend on the ranking.
- The race of two outbox sweepers over one job, and the write-back of a
  concurrency between processes with different configurations (see `Dispatch` and
  `OutboundGovernor` above).
- How often TikTok fails, and timing finer than a tick.
