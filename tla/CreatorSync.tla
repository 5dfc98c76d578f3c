---------------------------- MODULE CreatorSync ----------------------------
(***************************************************************************)
(* The resumable crawl of the TikTok Marketplace: one job row, its search  *)
(* partitions, the receipts of the pages it fetched, the Google Sheet they *)
(* are reconciled to, the discovery worker's runs of processNext and the   *)
(* operator's pause, resume and initialization.                            *)
(*                                                                         *)
(* A page is one answer of SEARCH_CREATORS; its creators are one unit, and *)
(* a partition's page token is the number of pages it is behind.  STARTING *)
(* and RUNNING are handled alike everywhere and are one status here.       *)
(*                                                                         *)
(* The variant of an operator with a qualifier, defined just before it, is *)
(* a faulty one that no action uses and that the properties must reject.   *)
(***************************************************************************)
EXTENDS Integers, FiniteSets

CONSTANTS
    Partition,       \* search partitions, existing or yet to be created
    Run,             \* invocations of processNext that may overlap
    LastPage,        \* [Partition -> Nat \ {0}]: pages the Marketplace has
    Parent,          \* the partition whose split creates this one, or None
    Primary,         \* seeds of the buckets Low and Medium
    Rare,            \* partitions of the bucket Very High
    BusinessMax,     \* BUSINESS_16032001_MAX_ATTEMPTS
    MaxFaults,       \* bound on failures, deaths and leases that run out early
    MaxCommands,     \* bound on the operator's commands
    None

ASSUME CreatorSyncAssumption ==
    /\ IsFiniteSet(Partition)
    /\ None \notin Partition \cup Run
    /\ LastPage \in [Partition -> Nat \ {0}]
    /\ Parent \in [Partition -> Partition \cup {None}]
    /\ Primary \subseteq {p \in Partition \ Rare : Parent[p] = None}
    /\ Rare \subseteq Partition
    /\ \A p \in Partition :
           Parent[p] # None => (p \in Rare <=> Parent[p] \in Rare)
    /\ BusinessMax \in Nat \ {0}
    /\ MaxFaults \in Nat
    /\ MaxCommands \in Nat

VARIABLES
    job,           \* CreatorSyncJob
    partition,     \* CreatorSearchPartition
    receipt,       \* CreatorSyncPage
    rows,          \* how many rows the Google Sheet has for a page's creators
    run,           \* what an invocation of processNext is doing
    operator,      \* the operator's request in progress
    faults, commands,
    \* history variables
    overlapped,    \* some run has gone on without its lease
    overtaken      \* some request wrote after what it had read had changed

vars == <<job, partition, receipt, rows, run, operator,
          faults, commands, overlapped, overtaken>>

JobState == {"PAUSED", "RUNNING", "WAITING", "EXHAUSTED", "ERROR"}

\* "ABSENT": not created.  "COMPLETE" stands for DEEPLY_SATURATED too.
PartitionStatus == {"ABSENT", "QUEUED", "EXPERIMENT_ONLY", "RUNNING",
                    "WAITING_RETRY", "PAUSED", "ERROR", "COMPLETE"}

\* currentStage, as far as it is read: the four Sheets stages, and the limit
\* of business retries.
Stage == {"sheet", "limit", "other"}

Page == UNION {{p} \X (1..LastPage[p]) : p \in Partition}

\* The awaits of processNext, processClaimed, commitPage and handleError.
RunPC == {"idle", "seen", "start", "import", "choose", "choosing", "pausing",
          "ready", "begin", "search", "stage", "load", "persist", "attempt",
          "reconcile", "write", "commit", "committing", "error", "failing"}

\* "google" is a failed request of reconcilePage; handleError treats it like
\* "other".  "sheet" is what handleError takes for a Sheets failure.
ErrorKind == {"none", "business", "temporary", "google", "other", "sheet"}

Idle == [pc |-> "idle", part |-> None, n |-> 0, pause |-> FALSE,
         add |-> FALSE, error |-> "none", tries |-> 0]

NoRequest == [pc |-> "idle", leased |-> FALSE, current |-> None,
              pending |-> FALSE, limit |-> FALSE]

JobRow == [state : JobState, stage : Stage, pauseRequested : BOOLEAN,
           waiting : BOOLEAN,            \* nextAttemptAt is in the future
           lease : Run \cup {None}, expired : BOOLEAN,
           current : Partition \cup {None}, imported : BOOLEAN, pages : Nat]

PartitionRow == [status : PartitionStatus, cursor : Nat, pages : Nat,
                 tries : Nat, triesPage : Nat,
                 skipped : BOOLEAN]           \* priorityReason says so

ReceiptRow == [state : {"none", "RECEIVED", "COMMITTED"}, persisted : BOOLEAN]

RunState == [pc : RunPC, part : Partition \cup {None}, n : Nat, pause : BOOLEAN,
             add : BOOLEAN, error : ErrorKind, tries : Nat]

Request == [pc : {"idle", "pause", "resume", "initialize"}, leased : BOOLEAN,
            current : Partition \cup {None}, pending : BOOLEAN, limit : BOOLEAN]

\* One type invariant for the rows, the sheet and the runs.
TypeOK ==
    /\ job \in JobRow
    /\ partition \in [Partition -> PartitionRow]
    /\ receipt \in [Page -> ReceiptRow]
    /\ rows \in [Page -> Nat]
    /\ run \in [Run -> RunState]
    /\ operator \in Request
    /\ faults \in 0..MaxFaults
    /\ commands \in 0..MaxCommands
    /\ overlapped \in BOOLEAN
    /\ overtaken \in BOOLEAN

\* A partition waits to be chosen; one of the bucket Very High only for a probe.
Waiting(p) == IF p \in Rare THEN "EXPERIMENT_ONLY" ELSE "QUEUED"

\* The categories have been loaded and the job was never started.
Init ==
    /\ job = [state |-> "PAUSED", stage |-> "other", pauseRequested |-> FALSE,
              waiting |-> FALSE, lease |-> None, expired |-> FALSE,
              current |-> None, imported |-> FALSE, pages |-> 0]
    /\ partition = [p \in Partition |->
           [status |-> IF Parent[p] = None THEN Waiting(p) ELSE "ABSENT",
            cursor |-> 0, pages |-> 0, tries |-> 0, triesPage |-> 0,
            skipped |-> FALSE]]
    /\ receipt = [g \in Page |-> [state |-> "none", persisted |-> FALSE]]
    /\ rows = [g \in Page |-> 0]
    /\ run = [r \in Run |-> Idle]
    /\ operator = NoRequest
    /\ faults = 0
    /\ commands = 0
    /\ overlapped = FALSE
    /\ overtaken = FALSE

-----------------------------------------------------------------------------
(* Helpers *)

Received == {g \in Page : receipt[g].state = "RECEIVED"}

LeaseFreeReleased == job.lease = None
LeaseFree == job.lease = None \/ job.expired

Holds(r) == job.lease = r

\* A run that is past its claim; any other has no lease to lose.
Working(r) == run[r].pc \notin {"idle", "seen"}

ResumableRunning(p) == partition[p].status = "RUNNING"
Resumable(p) == partition[p].status \in {"RUNNING", "WAITING_RETRY", "PAUSED"}

\* recordActivity and the transaction before a Sheets attempt: their update is
\* fenced by the lease and throws when it matches no row.
Fenced(r, stage) ==
    /\ Holds(r)
    /\ job' = [job EXCEPT !.stage = stage]

Goto(r, pc) == run' = [run EXCEPT ![r].pc = pc]

ThrowAs(r, kind) == run' = [run EXCEPT ![r].pc = "error", ![r].error = kind]

\* A fenced step of a run that has lost its lease.
Evicted(r) ==
    /\ ~Holds(r)
    /\ ThrowAs(r, "other")
    /\ UNCHANGED job

\* expandReadyBranches: a completed seed is split at once, a completed child
\* when its siblings are complete as well.
Ripe(st, p) ==
    /\ st[p].status = "COMPLETE"
    /\ Parent[p] # None =>
           \A s \in Partition : Parent[s] = Parent[p] => st[s].status = "COMPLETE"

ExpandReadyBranches(st) ==
    [p \in Partition |->
        IF st[p].status = "ABSENT" /\ Parent[p] # None /\ Ripe(st, Parent[p])
        THEN [st[p] EXCEPT !.status = Waiting(p)] ELSE st[p]]

Queued(st) == {p \in Partition : st[p].status = "QUEUED"}
Experiments(st) == {p \in Partition : st[p].status = "EXPERIMENT_ONLY"}

Fault == faults < MaxFaults /\ faults' = faults + 1

environment == <<operator, commands, overtaken>>
sheet       == <<receipt, rows>>

-----------------------------------------------------------------------------
(* processNext: claiming the job *)

See(r) ==
    /\ run[r].pc = "idle"
    /\ job.state \in {"RUNNING", "WAITING"}
    /\ ~job.waiting
    /\ LeaseFree
    /\ Goto(r, "seen")
    /\ UNCHANGED <<job, partition, sheet, environment, faults, overlapped>>

\* The claim looks at the state and the lease again, not at nextAttemptAt.
Claim(r) ==
    /\ run[r].pc = "seen"
    /\ IF job.state \in {"RUNNING", "WAITING"} /\ LeaseFree
       THEN /\ job' = [job EXCEPT !.state = "RUNNING", !.lease = r,
                                  !.expired = FALSE, !.waiting = FALSE]
            /\ Goto(r, "start")
       ELSE /\ Goto(r, "idle")
            /\ UNCHANGED job
    /\ UNCHANGED <<partition, sheet, environment, faults, overlapped>>

-----------------------------------------------------------------------------
(* processClaimed *)

AfterImport == IF job.pauseRequested THEN "pausing" ELSE "choose"

\* A staged page comes first, whatever else is to be done.
NextPendingNone == {}
NextPending == Received

Start(r) ==
    /\ run[r].pc = "start"
    /\ \/ /\ Holds(r)
          /\ \E g \in NextPending :
                run' = [run EXCEPT ![r].pc = "load", ![r].part = g[1],
                                   ![r].n = g[2]]
       \/ /\ Holds(r)
          /\ NextPending = {}
          /\ Goto(r, IF job.imported THEN AfterImport ELSE "import")
       \/ Evicted(r)
    /\ UNCHANGED <<job, partition, sheet, environment, faults, overlapped>>

\* The creators of the existing Sheet are stored once per job.
Import(r) ==
    /\ run[r].pc = "import"
    /\ \/ /\ Holds(r)
          /\ job' = [job EXCEPT !.imported = TRUE]
          /\ Goto(r, AfterImport)
       \/ Evicted(r)
    /\ UNCHANGED <<partition, sheet, environment, faults, overlapped>>

\* pauseClaimed: the job's update is fenced, the partition's is not.
PauseClaimed(r) ==
    /\ run[r].pc = "pausing"
    /\ job' = IF Holds(r)
              THEN [job EXCEPT !.state = "PAUSED", !.stage = "other",
                               !.pauseRequested = FALSE, !.waiting = FALSE,
                               !.lease = None, !.expired = FALSE]
              ELSE job
    /\ partition' = [p \in Partition |->
           IF p = run[r].part THEN [partition[p] EXCEPT !.status = "PAUSED"]
                              ELSE partition[p]]
    /\ run' = [run EXCEPT ![r] = Idle]
    /\ UNCHANGED <<sheet, environment, faults, overlapped>>

\* The request a run will make: the page behind the partition's token.
Continue(r, p) ==
    run' = [run EXCEPT ![r].pc = "ready", ![r].part = p,
                       ![r].n = partition[p].cursor + 1]

\* claimPartition resumes the current partition or opens the transaction that
\* chooses another one.
ChooseRead(r) ==
    /\ run[r].pc = "choose"
    /\ \/ /\ Holds(r)
          /\ job.current # None
          /\ Resumable(job.current)
          /\ Continue(r, job.current)
       \/ /\ Holds(r)
          /\ job.current # None => ~Resumable(job.current)
          /\ \A s \in Run : run[s].pc # "choosing"      \* advisory lock
          /\ Goto(r, "choosing")
       \/ Evicted(r)
    /\ UNCHANGED <<job, partition, sheet, environment, faults, overlapped>>

\* Queued seeds whose category snapshot no longer fits the catalog are marked
\* and passed over.
Skipping(st, stale) ==
    [p \in Partition |->
        IF p \in stale THEN [st[p] EXCEPT !.skipped = TRUE] ELSE st[p]]

Chosen(st, p) == [st EXCEPT ![p].status = "RUNNING", ![p].skipped = FALSE]

\* A refresh may change the catalog between any two choices.  The scheduler
\* takes any partition it may, one of the bucket Very High only in the slot of
\* a probe, so that it may find nothing while such partitions remain.  The
\* partitions are written whether or not the fenced updates of the job find
\* their row.
ChooseWrite(r) ==
    /\ run[r].pc = "choosing"
    /\ \E stale \in SUBSET (Primary \cap Queued(partition)) :
       LET st        == Skipping(ExpandReadyBranches(partition), stale)
           claimable == Queued(st) \ stale
       IN
       \/ /\ claimable = {}
          /\ partition' = st
          /\ job' = IF Holds(r)
                    THEN [job EXCEPT !.state = "EXHAUSTED", !.stage = "other",
                                     !.current = None, !.lease = None,
                                     !.expired = FALSE]
                    ELSE job
          /\ run' = [run EXCEPT ![r] = Idle]
       \/ \E p \in claimable \cup Experiments(st) :
          /\ partition' = Chosen(st, p)
          /\ job' = IF Holds(r)
                    THEN [job EXCEPT !.current = p, !.stage = "other"]
                    ELSE job
          /\ Continue(r, p)
    /\ UNCHANGED <<sheet, environment, faults, overlapped>>

Ready(r) ==
    /\ run[r].pc = "ready"
    /\ \/ /\ Holds(r)
          /\ job.pauseRequested
          /\ Goto(r, "pausing")
          /\ UNCHANGED job
       \/ /\ ~job.pauseRequested
          /\ Fenced(r, "other")
          /\ Goto(r, "begin")
       \/ Evicted(r)
    /\ UNCHANGED <<partition, sheet, environment, faults, overlapped>>

\* The partition is marked by id, and then the request is made.
Begin(r) ==
    /\ run[r].pc = "begin"
    /\ partition' = [partition EXCEPT ![run[r].part].status = "RUNNING"]
    /\ Goto(r, "search")
    /\ UNCHANGED <<job, sheet, environment, faults, overlapped>>

\* SEARCH_CREATORS answered; the business retries start anew.
SearchAnswered(r) ==
    /\ run[r].pc = "search"
    /\ partition' = [partition EXCEPT ![run[r].part].tries = 0,
                                      ![run[r].part].triesPage = 0]
    /\ \/ /\ Fenced(r, "other")
          /\ Goto(r, "stage")
       \/ Evicted(r)
    /\ UNCHANGED <<sheet, environment, faults, overlapped>>

\* SEARCH_CREATORS refused with code 16032001, which is retried a few times only;
\* throttled; or answered with an error or a broken cursor.
SearchRefused(r) ==
    /\ run[r].pc = "search"
    /\ \/ /\ ThrowAs(r, "business")
          /\ UNCHANGED faults
       \/ /\ \E kind \in {"temporary", "other"} : ThrowAs(r, kind)
          /\ Fault
    /\ UNCHANGED <<job, partition, sheet, environment, overlapped>>

\* The receipt is keyed by the partition and the request's token.
StageReceipt(r) ==
    LET g == <<run[r].part, run[r].n>> IN
    /\ run[r].pc = "stage"
    /\ receipt' = IF receipt[g].state = "none"
                  THEN [receipt EXCEPT ![g].state = "RECEIVED"] ELSE receipt
    /\ Goto(r, "load")
    /\ UNCHANGED <<job, partition, rows, environment, faults, overlapped>>

-----------------------------------------------------------------------------
(* commitPage *)

PageOf(r) == <<run[r].part, run[r].n>>

\* Saving to PostgreSQL is skipped when the receipt says it was done.
Load(r) ==
    LET g == PageOf(r) IN
    /\ run[r].pc = "load"
    /\ \/ /\ receipt[g].state = "RECEIVED"
          /\ receipt[g].persisted
          /\ Holds(r)
          /\ Goto(r, "attempt")
          /\ UNCHANGED job
       \/ /\ receipt[g].state = "RECEIVED"
          /\ ~receipt[g].persisted
          /\ Fenced(r, "other")
          /\ Goto(r, "persist")
       \/ /\ receipt[g].state # "RECEIVED" \/ ~Holds(r)
          /\ ThrowAs(r, "other")
          /\ UNCHANGED job
    /\ UNCHANGED <<partition, sheet, environment, faults, overlapped>>

\* persistCreators is idempotent; databasePersistedAt is set by id.
Persist(r) ==
    /\ run[r].pc = "persist"
    /\ receipt' = [receipt EXCEPT ![PageOf(r)].persisted = TRUE]
    /\ Goto(r, "attempt")
    /\ UNCHANGED <<job, partition, rows, environment, faults, overlapped>>

Attempt(r) ==
    /\ run[r].pc = "attempt"
    /\ \/ Fenced(r, "sheet") /\ Goto(r, "reconcile")
       \/ Evicted(r)
    /\ UNCHANGED <<partition, sheet, environment, faults, overlapped>>

\* reconcilePage reads the Sheet and then updates the rows it found or appends
\* those it did not.
AbsentAlways(g) == TRUE
Absent(g) == rows[g] = 0

ReadSheet(r) ==
    /\ run[r].pc = "reconcile"
    /\ run' = [run EXCEPT ![r].pc = "write", ![r].add = Absent(PageOf(r))]
    /\ UNCHANGED <<job, partition, sheet, environment, faults, overlapped>>

AfterWrite(r) ==
    IF run[r].add THEN [rows EXCEPT ![PageOf(r)] = @ + 1] ELSE rows

WriteSheet(r) ==
    /\ run[r].pc = "write"
    /\ rows' = AfterWrite(r)
    /\ Goto(r, "commit")
    /\ UNCHANGED <<job, partition, receipt, environment, faults, overlapped>>

\* The final transaction begins by reading the pause flag under the lease.
CommitRead(r) ==
    /\ run[r].pc = "commit"
    /\ \/ /\ Fenced(r, "other")
          /\ run' = [run EXCEPT ![r].pc = "committing",
                                ![r].pause = job.pauseRequested]
       \/ Evicted(r)
    /\ UNCHANGED <<partition, sheet, environment, faults, overlapped>>

\* Receipt and partition are written by id, the job under the lease.
AdvancedCursorRelative(g) == [partition EXCEPT ![g[1]].cursor = @ + 1,
                                               ![g[1]].pages = @ + 1]
AdvancedCursorUncounted(g) == [partition EXCEPT ![g[1]].cursor = g[2]]
AdvancedCursor(g) == [partition EXCEPT ![g[1]].cursor = g[2],
                                       ![g[1]].pages = @ + 1]

Advanced(g, pause) ==
    IF g[2] < LastPage[g[1]]
    THEN [AdvancedCursor(g) EXCEPT
             ![g[1]].status = IF pause THEN "PAUSED" ELSE "RUNNING"]
    ELSE ExpandReadyBranches(
            [partition EXCEPT ![g[1]].status = "COMPLETE", ![g[1]].cursor = 0,
                              ![g[1]].pages = @ + 1])

CommitWrite(r) ==
    LET g     == PageOf(r)
        more  == g[2] < LastPage[g[1]]
        pause == run[r].pause
        st    == Advanced(g, pause)
        goOn  == more \/ Queued(st) # {}
    IN
    /\ run[r].pc = "committing"
    /\ receipt' = [receipt EXCEPT ![g].state = "COMMITTED"]
    /\ partition' = st
    /\ job' = IF Holds(r) /\ job.current = g[1]
              THEN [job EXCEPT
                    !.state = IF pause THEN "PAUSED"
                              ELSE IF goOn THEN "RUNNING" ELSE "EXHAUSTED",
                    !.stage = "other", !.pauseRequested = FALSE,
                    !.current = IF more THEN g[1] ELSE None,
                    !.waiting = ~pause /\ goOn,
                    !.lease = None, !.expired = FALSE,
                    !.pages = @ + 1]
              ELSE job
    /\ run' = [run EXCEPT ![r] = Idle]
    /\ UNCHANGED <<rows, environment, faults, overlapped>>

-----------------------------------------------------------------------------
(* Failures and handleError *)

\* An exception of PostgreSQL, Google or the configuration; an append whose
\* answer is lost may have been made.
Fails(r) ==
    /\ run[r].pc \in RunPC \ {"idle", "seen", "search", "error", "failing"}
    /\ Fault
    /\ ThrowAs(r, IF run[r].pc \in {"reconcile", "write"} THEN "google" ELSE "other")
    /\ rows' \in IF run[r].pc = "write" THEN {rows, AfterWrite(r)} ELSE {rows}
    /\ UNCHANGED <<job, partition, receipt, environment, overlapped>>

\* The process dies, or handleError itself throws: the lease stays.
Dies(r) ==
    /\ Working(r)
    /\ Fault
    /\ run' = [run EXCEPT ![r] = Idle]
    /\ rows' \in IF run[r].pc = "write" THEN {rows, AfterWrite(r)} ELSE {rows}
    /\ UNCHANGED <<job, partition, receipt, environment, overlapped>>

\* What handleError makes of the error: a failure while a staged page is on
\* its way to the Sheet is a Sheets failure.
SheetsFailure == Received # {} /\ job.stage = "sheet"

\* The retries of one request: they count anew for another page.
BusinessTriesAnew(p) == 1
BusinessTries(p) ==
    IF partition[p].triesPage = partition[p].pages + 1
    THEN partition[p].tries + 1 ELSE 1

ErrorRead(r) ==
    /\ run[r].pc = "error"
    /\ IF Holds(r)
       THEN LET p == job.current IN
            run' = [run EXCEPT
                ![r].pc = "failing",
                ![r].part = p,
                ![r].pause = job.pauseRequested,
                ![r].error = IF SheetsFailure THEN "sheet"
                             ELSE IF @ = "business" /\ p = None THEN "other"
                             ELSE @,
                ![r].tries = IF p = None \/ run[r].error # "business" THEN 0
                             ELSE BusinessTries(p)]
       ELSE run' = [run EXCEPT ![r] = Idle]
    /\ UNCHANGED <<job, partition, sheet, environment, faults, overlapped>>

\* The job is written by id: its lease goes, whoever holds it by now.
Released(st, stage, wait) ==
    [job EXCEPT !.state = st, !.stage = stage, !.waiting = wait,
                !.pauseRequested = FALSE, !.lease = None, !.expired = FALSE]

StoppedAsPartition(pause) == IF pause THEN "PAUSED" ELSE "WAITING_RETRY"
Stopped(pause) == IF pause THEN "PAUSED" ELSE "WAITING"

Marked(p, status) ==
    partition' = IF p = None THEN partition
                 ELSE [partition EXCEPT ![p].status = status]

PartStopped(pause) == IF pause THEN "PAUSED" ELSE "WAITING_RETRY"

\* A lease is taken from a run that has not ended.
Usurps(lease) == lease # None /\ Working(lease)

ErrorEnds(r, kinds) ==
    /\ run[r].pc = "failing"
    /\ run[r].error \in kinds
    /\ run' = [run EXCEPT ![r] = Idle]
    /\ overlapped' = (overlapped \/ (~Holds(r) /\ Usurps(job.lease)))
    /\ UNCHANGED <<sheet, environment, faults>>

\* handleSheetsFailure: the page stays staged and is tried again later.
HandleSheetsFailure(r) ==
    LET pause == run[r].pause IN
    /\ ErrorEnds(r, {"sheet"})
    /\ \E g \in Received :
          Marked(IF run[r].part = None THEN g[1] ELSE run[r].part,
                 PartStopped(pause))
    /\ job' = Released(Stopped(pause), IF pause THEN "other" ELSE "sheet", ~pause)

\* The staged page was committed meanwhile.
HandleNoPage(r) ==
    /\ run[r].pc = "failing"
    /\ run[r].error = "sheet"
    /\ Received = {}
    /\ run' = [run EXCEPT ![r].error = "other"]
    /\ UNCHANGED <<job, partition, sheet, environment, faults, overlapped>>

HandleBusiness(r) ==
    LET limit == run[r].tries >= BusinessMax
        pause == run[r].pause \/ limit
        p     == run[r].part
    IN
    /\ ErrorEnds(r, {"business"})
    /\ job' = Released(Stopped(pause), IF limit THEN "limit" ELSE "other", ~pause)
    /\ partition' = [partition EXCEPT ![p].status = PartStopped(pause),
                                      ![p].tries = run[r].tries,
                                      ![p].triesPage = partition[p].pages + 1]

HandleTemporary(r) ==
    LET pause == run[r].pause IN
    /\ ErrorEnds(r, {"temporary"})
    /\ job' = Released(Stopped(pause), "other", ~pause)
    /\ Marked(run[r].part, PartStopped(pause))

\* Everything else stops the job; a requested pause stays requested.
HandleFatal(r) ==
    /\ ErrorEnds(r, {"google", "other"})
    /\ job' = [job EXCEPT !.state = "ERROR", !.stage = "other",
                          !.waiting = FALSE, !.lease = None, !.expired = FALSE]
    /\ Marked(run[r].part, "ERROR")

-----------------------------------------------------------------------------
(* Time *)

\* Nothing renews the lease: that of a dead run ends, and that of a slow one.
ExpireLease ==
    /\ job.lease # None
    /\ ~job.expired
    /\ IF Working(job.lease) THEN Fault ELSE UNCHANGED faults
    /\ job' = [job EXCEPT !.expired = TRUE]
    /\ overlapped' = (overlapped \/ Usurps(job.lease))
    /\ UNCHANGED <<partition, sheet, run, environment>>

\* nextAttemptAt is reached.
Elapse ==
    /\ job.waiting
    /\ job' = [job EXCEPT !.waiting = FALSE]
    /\ UNCHANGED <<partition, sheet, run, environment, faults, overlapped>>

-----------------------------------------------------------------------------
(* CreatorDatabaseService: every request reads before its transaction *)

Ask(request) ==
    /\ operator.pc = "idle"
    /\ commands < MaxCommands
    /\ commands' = commands + 1
    /\ operator' = request
    /\ UNCHANGED <<job, partition, sheet, run, faults, overlapped, overtaken>>

Reads(request) == [NoRequest EXCEPT !.pc = request, !.current = job.current,
                                    !.leased = job.lease # None]

Answered ==
    /\ operator' = NoRequest
    /\ overtaken' = (overtaken \/ operator.current # job.current
                               \/ operator.leased # (job.lease # None))
    /\ UNCHANGED <<sheet, run, commands, faults>>

PauseRead == Ask(Reads("pause"))

PauseWrite ==
    LET p == operator.current IN
    /\ operator.pc = "pause"
    /\ Answered
    /\ \/ /\ operator.leased
          /\ job' = [job EXCEPT !.pauseRequested = TRUE, !.stage = "other",
                                !.waiting = FALSE]
          /\ UNCHANGED partition
       \/ /\ ~operator.leased
          /\ job' = [job EXCEPT !.state = "PAUSED", !.stage = "other",
                                !.pauseRequested = FALSE, !.waiting = FALSE]
          /\ Marked(IF p # None /\ partition[p].status \in
                       {"RUNNING", "WAITING_RETRY", "ERROR"} THEN p ELSE None,
                    "PAUSED")
    /\ UNCHANGED overlapped

Eligible == Queued(partition) \cup Experiments(partition)
                \cup {p \in Partition : Resumable(p)}

ResumeRead ==
    /\ Eligible # {} \/ Received # {}
    /\ Ask([Reads("resume") EXCEPT !.pending = Received # {},
                                   !.limit = job.stage = "limit"])

ResumeWrite ==
    LET p == operator.current IN
    /\ operator.pc = "resume"
    /\ Answered
    /\ partition' =
         IF p # None /\ partition[p].status \in {"PAUSED", "ERROR"}
         THEN [partition EXCEPT
                 ![p].status = "RUNNING",
                 ![p].tries = IF operator.limit THEN 0 ELSE @,
                 ![p].triesPage = IF operator.limit THEN 0 ELSE @]
         ELSE partition
    /\ job' = [job EXCEPT !.state = "RUNNING", !.waiting = FALSE,
                          !.stage = IF operator.pending THEN "sheet" ELSE "other",
                          !.pauseRequested = FALSE]
    /\ UNCHANGED overlapped

\* initializePartitions, which the refresh of the categories ends with, when
\* the catalog has nothing new.
InitializeRead ==
    /\ job.state \in {"PAUSED", "EXHAUSTED"}
    /\ Received = {}
    /\ Ask(Reads("initialize"))

InitializeWrite ==
    /\ operator.pc = "initialize"
    /\ Answered
    /\ job' = [job EXCEPT !.state = "PAUSED", !.stage = "other",
                          !.pauseRequested = FALSE, !.waiting = FALSE,
                          !.lease = None, !.expired = FALSE]
    /\ overlapped' = (overlapped \/ Usurps(job.lease))
    /\ UNCHANGED partition

-----------------------------------------------------------------------------

Step(r) ==
    \/ See(r) \/ Claim(r) \/ Start(r) \/ Import(r) \/ PauseClaimed(r)
    \/ ChooseRead(r) \/ ChooseWrite(r) \/ Ready(r) \/ Begin(r)
    \/ SearchAnswered(r) \/ StageReceipt(r)
    \/ Load(r) \/ Persist(r) \/ Attempt(r) \/ ReadSheet(r) \/ WriteSheet(r)
    \/ CommitRead(r) \/ CommitWrite(r)
    \/ ErrorRead(r) \/ HandleSheetsFailure(r) \/ HandleNoPage(r)
    \/ HandleBusiness(r) \/ HandleTemporary(r) \/ HandleFatal(r)

Breaks(r) == SearchRefused(r) \/ Fails(r) \/ Dies(r)

Command == \/ PauseRead \/ PauseWrite \/ ResumeRead \/ ResumeWrite
           \/ InitializeRead \/ InitializeWrite

Next == \/ \E r \in Run : Step(r) \/ Breaks(r)
        \/ ExpireLease
        \/ Elapse
        \/ Command

Spec == Init /\ [][Next]_vars

\* The worker's timer runs processNext again and again, a request that has
\* been read is answered, time passes, and the lease of a dead run ends.
FairSpec ==
    /\ Spec
    /\ \A r \in Run : WF_vars(Step(r))
    /\ WF_vars(PauseWrite \/ ResumeWrite \/ InitializeWrite)
    /\ WF_vars(Elapse)
    /\ WF_vars(ExpireLease /\ ~Working(job.lease))

-----------------------------------------------------------------------------
(* Properties *)

Saved(g) == /\ receipt[g].state = "COMMITTED"
            /\ receipt[g].persisted
            /\ rows[g] > 0

\* The cursor moves past a page only when the page is in PostgreSQL and in the
\* Sheet and its receipt is committed, and a partition is complete only with
\* all its pages, whoever fails, dies or goes on without a lease (commitPage).
NothingSkipped ==
    \A p \in Partition :
        /\ \A n \in 1..partition[p].cursor : Saved(<<p, n>>)
        /\ partition[p].status = "COMPLETE" =>
               \A n \in 1..LastPage[p] : Saved(<<p, n>>)

Committed(p) == {g \in Page : g[1] = p /\ receipt[g].state = "COMMITTED"}

\* Every page is counted once, by its partition and by the job, as long as no
\* run goes on without its lease (commitPage's increments).
CountsAgree ==
    ~overlapped =>
        /\ \A p \in Partition : partition[p].pages = Cardinality(Committed(p))
        /\ job.pages = Cardinality(UNION {Committed(p) : p \in Partition})

\* The Sheet has one row for a creator whatever append was repeated, as long
\* as no run goes on without its lease (reconcilePage).
OneRowPerCreator == ~overlapped => \A g \in Page : rows[g] <= 1

\* A staged page blocks any further request to the Marketplace, as long as no
\* run goes on without its lease (processClaimed).
StagedPageBlocks ==
    ~overlapped => (Received # {} => \A r \in Run : run[r].pc # "search")

Started == {"RUNNING", "WAITING_RETRY", "PAUSED", "ERROR"}

\* Left uncrawled for a reason: not split off yet, kept for a rare probe, or
\* queued with the mark of a stale category snapshot.
LeftAside(p) ==
    \/ partition[p].status \in {"ABSENT", "EXPERIMENT_ONLY"}
    \/ partition[p].status = "QUEUED" /\ partition[p].skipped

\* A partition that was begun and is not complete is the current one: a retry,
\* a pause, a resume or an error never leaves one behind, so that EXHAUSTED
\* means that all is crawled but what the scheduler leaves aside.  It holds as
\* long as no run goes on without its lease and no request writes what it had
\* read before (claimPartition, commitPage, handleError and
\* CreatorDatabaseService.resume).
NoneStranded ==
    ~overlapped /\ ~overtaken =>
        /\ \A p \in Partition :
               partition[p].status \in Started => job.current = p
        /\ job.state = "EXHAUSTED" =>
               \A p \in Partition :
                   partition[p].status = "COMPLETE" \/ LeftAside(p)

\* A crawl that is running comes to rest: it is exhausted, paused or stopped by
\* an error, and neither a retry nor a dead run's lease keeps it for ever.
CrawlEnds ==
    job.state \in {"RUNNING", "WAITING"} ~> job.state \notin {"RUNNING", "WAITING"}

\* A staged page is committed unless the job is stopped before: it is neither
\* forgotten by a run that died nor passed over by its successors.
StagedCommits ==
    \A g \in Page :
        receipt[g].state = "RECEIVED" ~>
            \/ receipt[g].state = "COMMITTED"
            \/ job.state \in {"PAUSED", "ERROR"}
            \/ overlapped

=============================================================================
