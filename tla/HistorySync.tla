----------------------------- MODULE HistorySync -----------------------------
(***************************************************************************)
(* The persistent import of a shop's conversations from TikTok             *)
(* (apps/api/src/history/history-processor.ts), driven by the ticks of     *)
(* history-worker.ts and controlled by the operator (history.service.ts).  *)
(* A tick claims the one job under a lease, asks TikTok for one page and   *)
(* stores it: a page of conversations is staged as work under a page       *)
(* sequence, then the messages of each are read page by page, and only     *)
(* then the cursor of the list advances.                                   *)
(*                                                                         *)
(* Pages hold one conversation and one message.  TikTok lists the          *)
(* conversation with the latest activity first; a list cursor is an offset *)
(* in that list and a message cursor the number of the next older message, *)
(* 0 where the code has null.  Work of an earlier page sequence is never   *)
(* looked up again, so that only the current one is kept, and a tick knows *)
(* whether the work it was given is current, of an earlier page or deleted.*)
(*                                                                         *)
(* The variant of an operator with a qualifier, defined just before it, is *)
(* a faulty one that no action uses and that the properties must reject.   *)
(***************************************************************************)
EXTENDS Naturals, Sequences, FiniteSets

CONSTANTS Ticks,            \* calls of processNext that may overlap
          NoTick,           \* a lease that is null
          Conversations,
          FirstOrder,       \* all of them, as TikTok lists them at first
          HeadEvery,        \* HISTORY_SYNC_HEAD_EVERY_BACKFILL_PAGES
          IncrementalPages, \* HISTORY_SYNC_INCREMENTAL_PAGES
          MaxArrivals,      \* bound: messages that arrive during the import
          MaxFaults,        \* bound: errors, slow ticks and killed ticks
          MaxPauses,        \* bound: pauses, and run-nows over an active job
          MaxRequests       \* bound: resumes and run-nows under way at once

ASSUME HistoryBounds ==
  /\ NoTick \notin Ticks
  /\ FirstOrder \in Seq(Conversations) /\ FirstOrder # <<>>
  /\ \A c \in Conversations : \E i \in DOMAIN FirstOrder : FirstOrder[i] = c
  /\ HeadEvery \in Nat \ {0} /\ IncrementalPages \in Nat \ {0}
  /\ MaxArrivals \in Nat /\ MaxFaults \in Nat /\ MaxPauses \in Nat
  /\ MaxRequests \in Nat

VARIABLES order,    \* external: the conversations, latest activity first
          sent,     \* external: messages of each conversation
          job,      \* the HistorySyncJob row
          work,     \* HistorySyncConversationWork of the current page sequence
          imported, \* ConversationMessage rows
          proven,   \* a ContactHistorySyncRun with state COMPLETE exists
          at,       \* where each tick stands
          held,     \* what it took from TikTok or from the rows
          listed,   \* history: messages the page last listed owes
          requests, \* what requests of the operator have read, not yet written
          arrivals, faults, pauses

historyVars == <<order, sent, job, work, imported, proven, at, held, listed,
                 requests, arrivals, faults, pauses>>

Claimables == {"QUEUED", "RUNNING", "BACKING_OFF", "COMPLETE"}
Jobs == [state : Claimables \cup {"PAUSED", "FAILED", "NONE"},
         mode : {"INITIAL_BACKFILL", "INCREMENTAL"},
         pass : {"BACKFILL", "HEAD", "INCREMENTAL"},
         phase : {"LIST", "MESSAGES"},
         back : Nat,       \* privateBackfillPageToken
         inc : Nat,        \* privateIncrementalPageToken
         next : Nat,       \* privatePendingNextPageToken
         more : BOOLEAN,   \* privatePendingHasMore
         since : Nat,      \* backfillPagesSinceHead
         index : Nat,      \* incrementalPageIndex
         initial : BOOLEAN, \* initialCompletedAt is set
         due : BOOLEAN,    \* nextAttemptAt is null or has passed
         owner : Ticks \cup {NoTick}, lapsed : BOOLEAN]

Message == Conversations \X (1..(MaxArrivals + 1))
Works == {"NONE", "OPEN", "COMPLETE"}
Work == [state : Works, token : Nat]
NoWork == [c \in Conversations |-> [state |-> "NONE", token |-> 0]]
Errors == {"CURSOR", "BACKOFF", "TERMINAL"}
Requests == {"FAILED", "PAUSED", "RUN"}

\* What a tick holds: a list page or a message page, and of which page sequence.
Held == [page : {"current", "past", "deleted"}, conv : Conversations,
         token : Nat, more : BOOLEAN, mode : {"INITIAL_BACKFILL", "INCREMENTAL"},
         was : Claimables]
NoHeld == [page |-> "past", conv |-> FirstOrder[1], token |-> 0,
           more |-> FALSE, mode |-> "INCREMENTAL", was |-> "QUEUED"]

\* A lease is held by a job that runs, was paused under it, or was resumed from
\* that; a finished job is one the worker will take up again.
HistoryTypeOK ==
  /\ sent \in [Conversations -> 1..(arrivals + 1)]
  /\ job \in Jobs /\ work \in [Conversations -> Work]
  /\ imported \subseteq Message /\ listed \subseteq Message
  /\ proven \in BOOLEAN
  /\ at \in [Ticks -> {"idle", "found", "claimed", "list", "messages",
                       "advance", "finish"} \cup Errors \cup
                      {"recover", "backOff", "fail"}]
  /\ held \in [Ticks -> Held]
  /\ requests \subseteq Requests
  /\ arrivals \in 0..MaxArrivals
  /\ faults \in 0..MaxFaults /\ pauses \in 0..MaxPauses
  /\ job.owner # NoTick => job.state \in {"RUNNING", "PAUSED", "QUEUED"}
  /\ job.state = "COMPLETE" => job.mode = "INCREMENTAL" /\ job.initial

NewJob == [state |-> "QUEUED", mode |-> "INITIAL_BACKFILL",
           pass |-> "BACKFILL", phase |-> "LIST", back |-> 0, inc |-> 0,
           next |-> 0, more |-> FALSE, since |-> 0, index |-> 0,
           initial |-> FALSE, due |-> TRUE, owner |-> NoTick, lapsed |-> FALSE]

HistoryInit ==
  /\ order = FirstOrder
  /\ sent = [c \in Conversations |-> 1]
  /\ job = [NewJob EXCEPT !.state = "NONE"]
  /\ work = NoWork
  /\ imported = {} /\ listed = {}
  /\ proven = FALSE
  /\ at = [t \in Ticks |-> "idle"]
  /\ held = [t \in Ticks |-> NoHeld]
  /\ requests = {}
  /\ arrivals = 0 /\ faults = 0 /\ pauses = 0

Provider == <<order, sent, arrivals>>
Requested == <<requests, pauses>>
Bounds == <<faults, Requested>>
-----------------------------------------------------------------------------
(* Helpers *)

Go(t, stage) == at' = [at EXCEPT ![t] = stage]
Done(t) == Go(t, "idle") /\ held' = [held EXCEPT ![t] = NoHeld]

\* Every update of the job by a tick is under its lease, those of handleError
\* and of the work excepted.
Update(t, row) == job' = IF job.owner = t THEN row ELSE job

\* Each result gives up the lease and sets the next attempt.
Released(row) == [row EXCEPT !.owner = NoTick, !.lapsed = FALSE, !.due = FALSE]

\* The page sequence is incremented: the work of the page is left behind.
LeavePage(keep, how) ==
  /\ work' = NoWork
  /\ held' = [t \in Ticks |->
                IF t \notin keep THEN NoHeld
                ELSE [held[t] EXCEPT !.page = IF @ = "current" THEN how ELSE @]]

\* listCursor
ListCursor(j) == IF j.pass = "BACKFILL" THEN j.back ELSE j.inc

-----------------------------------------------------------------------------
(* Claiming the job *)

Find(t) ==
  /\ at[t] = "idle"
  /\ job.state \in Claimables /\ job.due
  /\ job.owner = NoTick \/ job.lapsed
  /\ job.state = "COMPLETE" => job.mode = "INCREMENTAL"
  /\ Go(t, "found")
  /\ held' = [held EXCEPT ![t].was = job.state]
  /\ UNCHANGED <<Provider, job, work, imported, proven, listed, Bounds>>

\* A job found complete starts an incremental pass.
Claim(t) ==
  /\ at[t] = "found"
  /\ IF job.state \in Claimables /\ (job.owner = NoTick \/ job.lapsed)
     THEN /\ job' = LET row == [job EXCEPT
                              !.state = "RUNNING", !.owner = t,
                              !.lapsed = FALSE, !.due = TRUE]
                    IN IF held[t].was = "COMPLETE"
                       THEN [row EXCEPT !.pass = "INCREMENTAL",
                                        !.phase = "LIST", !.inc = 0, !.index = 0]
                       ELSE row
          /\ Go(t, "claimed") /\ UNCHANGED held
     ELSE Done(t) /\ UNCHANGED job
  /\ UNCHANGED <<Provider, work, imported, proven, listed, Bounds>>

\* processClaimed reads the job under its lease and decides; TikTok's answer
\* does not depend on the rows, and is drawn in the same step.
OpenWorkIgnored == {}
OpenWork == {c \in Conversations : work[c].state = "OPEN"}

ReadList(t) ==
  /\ job.phase = "LIST"
  /\ LET offset == ListCursor(job)
     IN /\ offset < Len(order)
        /\ held' = [held EXCEPT ![t] =
             [@ EXCEPT !.page = "current", !.conv = order[offset + 1],
                       !.token = IF offset + 1 < Len(order)
                                 THEN offset + 1 ELSE 0,
                       !.more = offset + 1 < Len(order)]]
  /\ Go(t, "list")

\* The work opened first comes first; a page holds one conversation, so that
\* only leftovers of another pass leave a choice.
ReadMessages(t) ==
  /\ job.phase = "MESSAGES"
  /\ \E c \in OpenWork :
       LET m == IF work[c].token = 0 THEN sent[c] ELSE work[c].token
       IN held' = [held EXCEPT ![t] =
            [@ EXCEPT !.page = "current", !.conv = c, !.token = m,
                      !.more = m > 1]]
  /\ Go(t, "messages")

LastOfBackfill == job.pass = "BACKFILL" /\ ~job.more
ReadNoWork(t) ==
  /\ job.phase = "MESSAGES"
  /\ OpenWork = {}
  /\ Go(t, IF LastOfBackfill THEN "finish" ELSE "advance")
  /\ UNCHANGED held

ProcessClaimed(t) ==
  /\ at[t] = "claimed"
  /\ IF job.owner = t
     THEN ReadList(t) \/ ReadMessages(t) \/ ReadNoWork(t)
     ELSE Done(t)
  /\ UNCHANGED <<Provider, job, work, imported, proven, listed, Bounds>>

-----------------------------------------------------------------------------
(* Storing what TikTok answered *)

Owed(c) == {c} \X (1..sent[c])

\* fetchConversationPage: the work is staged whoever holds the lease; work
\* that exists already is left as it is.
StoreList(t) ==
  /\ at[t] = "list"
  /\ work' = IF held[t].page = "current" /\ work[held[t].conv].state = "NONE"
             THEN [work EXCEPT ![held[t].conv].state = "OPEN"]
             ELSE work
  /\ Update(t, [Released(job) EXCEPT !.phase = "MESSAGES",
                                     !.next = held[t].token,
                                     !.more = held[t].more])
  /\ listed' = IF job.owner = t THEN Owed(held[t].conv) ELSE listed
  /\ Done(t)
  /\ UNCHANGED <<Provider, imported, proven, Bounds>>

\* fetchMessagePage: messages and work are stored whoever holds the lease;
\* without its work row the transaction fails and nothing is.
WorkAfterAlwaysLast(t) == [state |-> "COMPLETE", token |-> 0]
WorkAfter(t) == [state |-> IF held[t].more THEN "OPEN" ELSE "COMPLETE",
                 token |-> IF held[t].more THEN held[t].token - 1 ELSE 0]
StoreMessages(t) ==
  /\ at[t] = "messages"
  /\ IF held[t].page = "deleted" THEN UNCHANGED <<work, imported, job>>
     ELSE /\ imported' = imported \cup {<<held[t].conv, held[t].token>>}
          /\ work' = IF held[t].page = "current"
                     THEN [work EXCEPT ![held[t].conv] = WorkAfter(t)]
                     ELSE work
          /\ Update(t, Released(job))
  /\ Done(t)
  /\ UNCHANGED <<Provider, proven, listed, Bounds>>

\* advanceCompletedPage, the pages that are followed by another one
NextPage(row) == [Released(row) EXCEPT !.phase = "LIST", !.next = 0,
                                       !.more = FALSE]

AfterHeadFromTop(row) == [NextPage(row) EXCEPT !.pass = "BACKFILL", !.back = 0,
                                               !.inc = 0, !.since = 0]
AfterHead(row) == [NextPage(row) EXCEPT !.pass = "BACKFILL", !.inc = 0,
                                        !.since = 0]
AfterBackfill(row) ==
  LET head == row.since + 1 >= HeadEvery
  IN [NextPage(row) EXCEPT !.back = row.next, !.since = @ + 1,
        !.pass = IF head THEN "HEAD" ELSE @, !.inc = IF head THEN 0 ELSE @]
AfterIncremental(row) ==
  IF row.more /\ row.index + 1 < IncrementalPages
  THEN [NextPage(row) EXCEPT !.inc = row.next, !.index = @ + 1]
  ELSE [NextPage(row) EXCEPT !.state = "COMPLETE", !.inc = 0, !.index = 0]

\* The updates are under the lease: with it lost the tick changes nothing.
AdvanceCompletedPage(t) ==
  /\ at[t] = "advance"
  /\ Update(t, IF job.pass = "HEAD" THEN AfterHead(job)
               ELSE IF job.pass = "BACKFILL" THEN AfterBackfill(job)
               ELSE AfterIncremental(job))
  /\ IF job.owner = t THEN LeavePage(Ticks \ {t}, "past")
     ELSE held' = [held EXCEPT ![t] = NoHeld] /\ UNCHANGED work
  /\ Go(t, "idle")
  /\ UNCHANGED <<Provider, imported, proven, listed, Bounds>>

\* The last page of the backfill; the run row is written whoever holds the lease.
FinishBackfill(t) ==
  /\ at[t] = "finish"
  /\ Update(t, [NextPage(job) EXCEPT !.state = "COMPLETE",
                  !.mode = "INCREMENTAL", !.pass = "INCREMENTAL",
                  !.back = 0, !.inc = 0, !.initial = TRUE])
  /\ proven' = TRUE
  /\ IF job.owner = t THEN LeavePage(Ticks \ {t}, "past")
     ELSE held' = [held EXCEPT ![t] = NoHeld] /\ UNCHANGED work
  /\ Go(t, "idle")
  /\ UNCHANGED <<Provider, imported, listed, Bounds>>

-----------------------------------------------------------------------------
(* Errors *)

\* TikTok refuses the list cursor, asks to wait, or refuses for good.
Error(t, kind) ==
  /\ at[t] = "claimed"
  /\ job.owner = t
  /\ faults < MaxFaults
  /\ kind = "CURSOR" => job.phase = "LIST" /\ ListCursor(job) # 0
  /\ faults' = faults + 1
  /\ Go(t, kind)
  /\ held' = [held EXCEPT ![t].page = "current"]
  /\ UNCHANGED <<Provider, job, work, imported, proven, listed, Requested>>

\* handleError reads the job under the lease
Handler == [CURSOR |-> "recover", BACKOFF |-> "backOff", TERMINAL |-> "fail"]
HandleError(t) ==
  /\ at[t] \in Errors
  /\ IF job.owner = t
     THEN /\ Go(t, Handler[at[t]])
          /\ held' = [held EXCEPT ![t].mode = job.mode]
     ELSE Done(t)
  /\ UNCHANGED <<Provider, job, work, imported, proven, listed, Bounds>>

\* and writes it by its id: back to the first page under a new sequence,
AfterRecovery(t, row) ==
  [Released(row) EXCEPT !.state = "QUEUED", !.phase = "LIST", !.back = 0,
     !.inc = 0, !.next = 0, !.more = FALSE,
     !.pass = IF held[t].mode = "INITIAL_BACKFILL"
              THEN "BACKFILL" ELSE "INCREMENTAL"]
RecoverCursor(t) ==
  /\ at[t] = "recover"
  /\ job' = AfterRecovery(t, job)
  /\ LeavePage(Ticks \ {t},
               IF held[t].page = "current" THEN "deleted" ELSE "past")
  /\ Go(t, "idle")
  /\ UNCHANGED <<Provider, imported, proven, listed, Bounds>>

\* a backoff, or the end until an operator resumes.
BackOffForGood(row) == [Released(row) EXCEPT !.state = "BACKING_OFF",
                                             !.owner = row.owner]
BackOff(row) == [Released(row) EXCEPT !.state = "BACKING_OFF"]
FailAttempt(t) ==
  /\ \/ at[t] = "backOff" /\ job' = BackOff(job)
     \/ at[t] = "fail"
        /\ job' = [Released(job) EXCEPT !.state = "FAILED", !.due = TRUE]
  /\ Done(t)
  /\ UNCHANGED <<Provider, work, imported, proven, listed, Bounds>>

-----------------------------------------------------------------------------
(* The operator *)

\* A request reads the job and writes it by its id, whatever happened between.
Found(what) ==
  /\ Cardinality(requests) < MaxRequests
  /\ requests' = requests \cup {what}
  /\ UNCHANGED job

\* startHistorySync creates the job, or reads one that failed or was paused
StartHistorySync ==
  /\ \/ job.state = "NONE" /\ job' = NewJob /\ UNCHANGED requests
     \/ job.state \in {"FAILED", "PAUSED"} /\ Found(job.state)
  /\ UNCHANGED <<Provider, work, imported, proven, at, held, listed, faults,
                 pauses>>

\* and queues it (the lease of one that was paused stays).
ResumeHistorySync(found) ==
  /\ found \in requests \ {"RUN"}
  /\ requests' = requests \ {found}
  /\ job' = [job EXCEPT !.state = "QUEUED", !.due = TRUE,
               !.owner = IF found = "FAILED" THEN NoTick ELSE @,
               !.lapsed = found # "FAILED" /\ @]
  /\ UNCHANGED <<Provider, work, imported, proven, at, held, listed, faults,
                 pauses>>

\* What pauseHistorySync has read does not matter to its write.
PauseHistorySync ==
  /\ job.state # "NONE"
  /\ pauses < MaxPauses
  /\ pauses' = pauses + 1
  /\ job' = [job EXCEPT !.state = "PAUSED", !.due = TRUE]
  /\ UNCHANGED <<Provider, work, imported, proven, at, held, listed, faults,
                 requests>>

\* runIncrementalNow starts a pass in the page sequence the job is at, of a job
\* that was not active when it was read.
Active == job.state \in {"RUNNING", "BACKING_OFF"}
ReadForIncremental ==
  /\ job.initial /\ ~Active
  /\ Found("RUN")
  /\ UNCHANGED <<Provider, work, imported, proven, at, held, listed, faults,
                 pauses>>

RunIncrementalNow ==
  /\ "RUN" \in requests
  /\ requests' = requests \ {"RUN"}
  /\ IF Active THEN pauses < MaxPauses /\ pauses' = pauses + 1
     ELSE UNCHANGED pauses
  /\ job' = [job EXCEPT !.state = "QUEUED", !.mode = "INCREMENTAL",
               !.pass = "INCREMENTAL", !.phase = "LIST", !.inc = 0,
               !.index = 0, !.due = TRUE, !.owner = NoTick, !.lapsed = FALSE]
  /\ UNCHANGED <<Provider, work, imported, proven, at, held, listed, faults>>

-----------------------------------------------------------------------------
(* TikTok, time and failures *)

\* external: a message arrives and its conversation comes first in the list.
MessageArrives(c) ==
  /\ arrivals < MaxArrivals
  /\ arrivals' = arrivals + 1
  /\ sent' = [sent EXCEPT ![c] = @ + 1]
  /\ \E k \in DOMAIN order :
       /\ order[k] = c
       /\ order' = [i \in DOMAIN order |->
                      IF i = 1 THEN c ELSE order[IF i <= k THEN i - 1 ELSE i]]
  /\ UNCHANGED <<job, work, imported, proven, at, held, listed, Bounds>>

\* The next attempt falls due, after the spacing, a backoff or six hours.
FallsDue ==
  /\ ~job.due
  /\ job' = [job EXCEPT !.due = TRUE]
  /\ UNCHANGED <<Provider, work, imported, proven, at, held, listed, Bounds>>

\* Two minutes after the claim; a tick still on its way is a slow one.
LeaseLapses ==
  /\ job.owner # NoTick /\ ~job.lapsed
  /\ job' = [job EXCEPT !.lapsed = TRUE]
  /\ IF at[job.owner] = "idle" THEN UNCHANGED faults
     ELSE faults < MaxFaults /\ faults' = faults + 1
  /\ UNCHANGED <<Provider, work, imported, proven, at, held, listed, Requested>>

\* The worker is killed.
TickDies(t) ==
  /\ at[t] # "idle"
  /\ faults < MaxFaults
  /\ faults' = faults + 1
  /\ Done(t)
  /\ UNCHANGED <<Provider, job, work, imported, proven, listed, Requested>>

TickStep(t) ==
  \/ Claim(t) \/ ProcessClaimed(t) \/ StoreList(t) \/ StoreMessages(t)
  \/ AdvanceCompletedPage(t) \/ FinishBackfill(t) \/ HandleError(t)
  \/ RecoverCursor(t) \/ FailAttempt(t)

HistoryNext ==
  \/ \E t \in Ticks :
       \/ Find(t) \/ TickStep(t) \/ TickDies(t)
       \/ \E kind \in Errors : Error(t, kind)
  \/ StartHistorySync \/ PauseHistorySync
  \/ \E found \in Requests : ResumeHistorySync(found)
  \/ ReadForIncremental \/ RunIncrementalNow
  \/ \E c \in Conversations : MessageArrives(c)
  \/ FallsDue \/ LeaseLapses

\* The worker calls processNext every second and runs each call to its end, and
\* time passes.  The operator owes nothing and TikTok no message.
HistoryFairness ==
  /\ \A t \in Ticks : WF_historyVars(Find(t)) /\ WF_historyVars(TickStep(t))
  /\ WF_historyVars(FallsDue)
  /\ WF_historyVars(LeaseLapses)

HistorySpec == HistoryInit /\ [][HistoryNext]_historyVars /\ HistoryFairness
-----------------------------------------------------------------------------
(* Properties *)

\* Pagination that is reported complete is complete: whatever ticks overlapped,
\* died or started over, every message of a conversation without new activity
\* was imported (history.service.ts:353, docs/historical-sync.md:7).
BackfillIsComplete ==
  job.initial \/ proven =>
    \A c \in Conversations : sent[c] = 1 => Owed(c) \subseteq imported

\* The frontier of the backfill advances, or the backfill ends, only when every
\* message of the page last listed is stored: a crash cannot advance past
\* missing data (docs/historical-sync.md:7).
NothingLeftBehind ==
  [][\/ job'.back \notin {job.back, 0}
     \/ job'.initial /\ ~job.initial
       => listed \subseteq imported]_historyVars

Stopped == job.state \in {"NONE", "PAUSED", "FAILED"}

\* Every message is imported in the end unless the job stands still for the
\* operator: by the backfill, by a head pass or by the incremental passes, as
\* long as the activity fits their window (docs/historical-sync.md:9-11).  Since
\* only so many arrive, each is when again and again all are.
EveryMessageArrives ==
  []<>(Stopped \/ \A c \in Conversations : Owed(c) \subseteq imported)
=============================================================================
