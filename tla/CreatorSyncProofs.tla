------------------------- MODULE CreatorSyncProofs -------------------------
(***************************************************************************)
(* Proofs about CreatorSync, for any partitions, pages, overlapping runs   *)
(* and bounds: its states are well typed, no page is ever skipped, and as  *)
(* long as the lease is respected every page is counted once, the Sheet    *)
(* has one row for a creator, a staged page comes first and no partition   *)
(* is left behind.                                                         *)
(*                                                                         *)
(* NothingSkipped is not inductive, because the transaction that moves the *)
(* cursor does not look at what it moves past.  What makes it right is     *)
(* carried by the run: the page it asked for lies behind pages that were   *)
(* saved when it read the cursor (RunOK) and it has stored and written its *)
(* page when it commits; and by the receipt: it was staged by such a run   *)
(* (Behind).  What is saved stays saved, so none of this depends on the    *)
(* lease.                                                                  *)
(*                                                                         *)
(* The counts, the rows of the Sheet and the staged page do depend on it.  *)
(* As long as no run goes on without its lease, one run is at work at a    *)
(* time and what it has read still holds when it uses it (Alone): the page *)
(* it is at is the only one staged, it is of the current partition, and a  *)
(* row it did not find is still not there. If moreover no request writes   *)
(* what has changed since it was read, nothing but the current partition   *)
(* is begun (Anchored).                                                    *)
(***************************************************************************)
EXTENDS CreatorSync, FiniteSetTheorems, TLAPS

\* The pages before a page are saved.
SavedBefore(p, n) == \A m \in 1..(n - 1) : Saved(<<p, m>>)

\* A run at work on a page.
PagePC == {"ready", "begin", "search", "stage", "load", "persist", "attempt",
           "reconcile", "write", "commit", "committing"}

PersistedPC == {"attempt", "reconcile", "write", "commit", "committing"}

RunOK(x) ==
    /\ x.pc \in PagePC => /\ x.part \in Partition
                          /\ x.n \in 1..LastPage[x.part]
                          /\ SavedBefore(x.part, x.n)
    /\ x.pc \in PersistedPC => receipt[<<x.part, x.n>>].persisted
    /\ x.pc \in {"commit", "committing"} \/ (x.pc = "write" /\ ~x.add) =>
           rows[<<x.part, x.n>>] > 0
    /\ x.pc = "failing" /\ x.error = "business" => x.part \in Partition

RunsOK == \A r \in Run : RunOK(run[r])

Behind == \A g \in Page : receipt[g].state # "none" => SavedBefore(g[1], g[2])

CursorInRange == \A p \in Partition : partition[p].cursor < LastPage[p]

CrawlInv ==
    /\ TypeOK
    /\ RunsOK
    /\ Behind
    /\ CursorInRange
    /\ NothingSkipped

-----------------------------------------------------------------------------
(* Pages *)

LEMMA PageKey ==
    ASSUME NEW p \in Partition, NEW n \in 1..LastPage[p]
    PROVE  <<p, n>> \in Page
BY DEF Page

LEMMA PageParts ==
    ASSUME NEW g \in Page
    PROVE  /\ g[1] \in Partition
           /\ g[2] \in 1..LastPage[g[1]]
           /\ g = <<g[1], g[2]>>
BY DEF Page

\* The pages before one that exists exist.
LEMMA EarlierPage ==
    ASSUME NEW p \in Partition, NEW n \in 1..LastPage[p], NEW m \in 1..(n - 1)
    PROVE  <<p, m>> \in Page
<1>1. m \in 1..LastPage[p]
  BY CreatorSyncAssumption
<1> QED
  BY <1>1, PageKey

-----------------------------------------------------------------------------
(* What a step must do to preserve the invariant *)

\* Nothing that is saved is undone.
Grows ==
    \A g \in Page :
        /\ receipt[g].state = "COMMITTED" => receipt'[g].state = "COMMITTED"
        /\ receipt[g].persisted => receipt'[g].persisted
        /\ rows'[g] >= rows[g]

\* A new receipt is for a page whose predecessors are saved.
Follows ==
    \A g \in Page :
        receipt'[g].state # "none" =>
            receipt[g].state # "none" \/ SavedBefore(g[1], g[2])

\* No cursor moves and no partition is completed.
Keeps ==
    \A p \in Partition :
        /\ partition'[p].cursor = partition[p].cursor
        /\ partition'[p].status = "COMPLETE" => partition[p].status = "COMPLETE"

\* Every run stays as it is or goes where it may be.
Moves == \A r \in Run : run'[r] = run[r] \/ RunOK(run[r])'

LEMMA SavedStays ==
    ASSUME rows \in [Page -> Nat], rows' \in [Page -> Nat], Grows, NEW g \in Page, Saved(g)
    PROVE  Saved(g)'
<1>1. rows[g] \in Nat /\ rows'[g] \in Nat
  OBVIOUS
<1> QED
  BY <1>1 DEF Saved, Grows

LEMMA BeforeStays ==
    ASSUME rows \in [Page -> Nat], rows' \in [Page -> Nat], Grows,
           NEW p \in Partition, NEW n \in 1..LastPage[p], SavedBefore(p, n)
    PROVE  SavedBefore(p, n)'
<1> SUFFICES ASSUME NEW m \in 1..(n - 1)
             PROVE  Saved(<<p, m>>)'
  BY DEF SavedBefore
<1>1. <<p, m>> \in Page
  BY EarlierPage
<1>2. Saved(<<p, m>>)
  BY DEF SavedBefore
<1> QED
  BY <1>1, <1>2, SavedStays

LEMMA RunStaysOK ==
    ASSUME rows \in [Page -> Nat], rows' \in [Page -> Nat], Grows, NEW x \in RunState, RunOK(x)
    PROVE  RunOK(x)'
<1>1. CASE x.pc \in PagePC
  <2>1. /\ x.part \in Partition
        /\ x.n \in 1..LastPage[x.part]
        /\ SavedBefore(x.part, x.n)
    BY <1>1 DEF RunOK
  <2>2. SavedBefore(x.part, x.n)'
    BY <2>1, BeforeStays
  <2>3. <<x.part, x.n>> \in Page
    BY <2>1, PageKey
  <2>4. /\ receipt[<<x.part, x.n>>].persisted => receipt'[<<x.part, x.n>>].persisted
        /\ rows[<<x.part, x.n>>] > 0 => rows'[<<x.part, x.n>>] > 0
    BY <2>3 DEF Grows
  <2> QED
    BY <1>1, <2>1, <2>2, <2>4 DEF RunOK, PagePC
<1>2. CASE x.pc \notin PagePC
  BY <1>2 DEF RunOK, PagePC, PersistedPC
<1> QED
  BY <1>1, <1>2

\* The runs and the receipts do not depend on where the cursors are.
LEMMA RunsAndReceipts ==
    ASSUME CrawlInv, rows' \in [Page -> Nat], Grows, Follows, Moves
    PROVE  RunsOK' /\ Behind'
<1>0. rows \in [Page -> Nat]
  BY DEF CrawlInv, TypeOK
<1>1. RunsOK'
  <2> SUFFICES ASSUME NEW r \in Run PROVE RunOK(run[r])'
    BY DEF RunsOK
  <2>1. CASE run'[r] = run[r]
    <3>1. run[r] \in RunState /\ RunOK(run[r])
      BY DEF CrawlInv, TypeOK, RunsOK
    <3>2. PICK x \in RunState : x = run[r]
      BY <3>1
    <3>3. RunOK(x)'
      BY <1>0, <3>1, <3>2, RunStaysOK
    <3> QED
      BY <2>1, <3>2, <3>3 DEF RunOK
  <2> QED
    BY <2>1 DEF Moves
<1>2. Behind'
  <2> SUFFICES ASSUME NEW g \in Page, receipt'[g].state # "none"
               PROVE  SavedBefore(g[1], g[2])'
    BY DEF Behind
  <2>1. SavedBefore(g[1], g[2])
    BY DEF CrawlInv, Behind, Follows
  <2> QED
    BY <1>0, <2>1, PageParts, BeforeStays
<1> QED
  BY <1>1, <1>2

\* What was saved of a partition before is saved after.
LEMMA PartitionStaysSaved ==
    ASSUME CrawlInv, rows' \in [Page -> Nat], Grows, NEW p \in Partition,
           partition'[p].cursor = partition[p].cursor,
           partition'[p].status = "COMPLETE" => partition[p].status = "COMPLETE"
    PROVE  /\ \A n \in 1..partition'[p].cursor : Saved(<<p, n>>)'
           /\ partition'[p].status = "COMPLETE" =>
                  \A n \in 1..LastPage[p] : Saved(<<p, n>>)'
<1>1. partition[p].cursor \in Nat /\ LastPage[p] \in Nat
  BY CreatorSyncAssumption DEF CrawlInv, TypeOK, PartitionRow
<1>2. ASSUME NEW n \in 1..LastPage[p], Saved(<<p, n>>) PROVE Saved(<<p, n>>)'
  BY <1>2, PageKey, SavedStays DEF CrawlInv, TypeOK
<1>3. \A n \in 1..partition[p].cursor : n \in 1..LastPage[p] /\ Saved(<<p, n>>)
  BY <1>1 DEF CrawlInv, NothingSkipped, CursorInRange
<1> QED
  BY <1>2, <1>3 DEF CrawlInv, NothingSkipped

LEMMA Preserved ==
    ASSUME CrawlInv, TypeOK', Grows, Follows, Keeps, Moves
    PROVE  CrawlInv'
<1>1. RunsOK' /\ Behind'
  BY RunsAndReceipts DEF TypeOK
<1>2. CursorInRange'
  BY DEF CrawlInv, CursorInRange, Keeps
<1>3. NothingSkipped'
  <2> SUFFICES ASSUME NEW p \in Partition
               PROVE  /\ \A n \in 1..partition'[p].cursor : Saved(<<p, n>>)'
                      /\ partition'[p].status = "COMPLETE" =>
                             \A n \in 1..LastPage[p] : Saved(<<p, n>>)'
    BY DEF NothingSkipped
  <2> QED
    BY PartitionStaysSaved DEF Keeps, TypeOK
<1> QED
  BY <1>1, <1>2, <1>3 DEF CrawlInv

-----------------------------------------------------------------------------
(* Steps that leave the partitions, the receipts and the Sheet alone *)

LEMMA QuietPreserves ==
    ASSUME CrawlInv, TypeOK', Moves, UNCHANGED <<partition, receipt, rows>>
    PROVE  CrawlInv'
<1>1. Grows /\ Follows /\ Keeps
  BY DEF Grows, Follows, Keeps, CrawlInv, TypeOK
<1> QED
  BY <1>1, Preserved

\* A run's new state decides what the step does to the runs.
LEMMA RunGoes ==
    ASSUME run \in [Run -> RunState], NEW r \in Run, NEW x \in RunState,
           run' = [run EXCEPT ![r] = x], RunOK(x)'
    PROVE  Moves /\ run' \in [Run -> RunState]
<1>1. run' \in [Run -> RunState]
  OBVIOUS
<1>2. run'[r] = x /\ \A q \in Run : q # r => run'[q] = run[q]
  OBVIOUS
<1>3. RunOK(run[r])'
  BY <1>2 DEF RunOK
<1> QED
  BY <1>1, <1>2, <1>3 DEF Moves

\* Away from the pages nothing is asked of a run.
Elsewhere == RunPC \ (PagePC \cup {"failing"})

LEMMA RunElsewhere ==
    ASSUME run \in [Run -> RunState], NEW r \in Run, NEW x \in RunState,
           run' = [run EXCEPT ![r] = x], x.pc \in Elsewhere
    PROVE  Moves /\ run' \in [Run -> RunState]
<1>1. RunOK(x)'
  BY DEF RunOK, Elsewhere, PagePC, PersistedPC
<1> QED
  BY <1>1, RunGoes

LEMMA GotoElsewhere ==
    ASSUME TypeOK, NEW r \in Run, NEW pc \in Elsewhere, Goto(r, pc)
    PROVE  Moves /\ run' \in [Run -> RunState]
<1> DEFINE x == [run[r] EXCEPT !.pc = pc]
<1>1. x \in RunState /\ x.pc = pc
  BY DEF TypeOK, RunState, Elsewhere
<1>2. run' = [run EXCEPT ![r] = x]
  BY DEF Goto
<1> QED
  BY <1>1, <1>2, RunElsewhere DEF TypeOK

LEMMA ThrowElsewhere ==
    ASSUME TypeOK, NEW r \in Run, NEW kind \in ErrorKind, ThrowAs(r, kind)
    PROVE  Moves /\ run' \in [Run -> RunState]
<1> DEFINE x == [run[r] EXCEPT !.pc = "error", !.error = kind]
<1>1. x \in RunState /\ x.pc = "error"
  BY DEF TypeOK, RunState, RunPC
<1>2. run' = [run EXCEPT ![r] = x]
  BY DEF ThrowAs, TypeOK
<1> QED
  BY <1>1, <1>2, RunElsewhere DEF TypeOK, Elsewhere, RunPC, PagePC

LEMMA IdleElsewhere ==
    ASSUME TypeOK, NEW r \in Run, run' = [run EXCEPT ![r] = Idle]
    PROVE  Moves /\ run' \in [Run -> RunState]
<1>1. Idle \in RunState /\ Idle.pc = "idle"
  BY DEF Idle, RunState, RunPC, ErrorKind
<1> QED
  BY <1>1, RunElsewhere DEF TypeOK, Elsewhere, RunPC, PagePC

\* On the page it is at, a run may take a step that its page allows.
LEMMA GotoOnPage ==
    ASSUME CrawlInv, NEW r \in Run, NEW pc \in PagePC, Goto(r, pc),
           run[r].pc \in PagePC,
           rows' \in [Page -> Nat], Grows,
           pc \in PersistedPC => receipt'[PageOf(r)].persisted,
           pc \in {"commit", "committing"} => rows'[PageOf(r)] > 0,
           pc = "write" => run[r].add
    PROVE  Moves /\ run' \in [Run -> RunState]
<1>1. run[r] \in RunState /\ RunOK(run[r]) /\ run \in [Run -> RunState]
  BY DEF CrawlInv, TypeOK, RunsOK
<1>2. PICK x \in RunState : x = [run[r] EXCEPT !.pc = pc]
  BY <1>1 DEF RunState, PagePC, RunPC
<1>3. x.pc = pc /\ x.part = run[r].part /\ x.n = run[r].n /\ x.add = run[r].add
  BY <1>1, <1>2 DEF RunState
<1>4. PICK p \in Partition : p = x.part
  BY <1>1, <1>3 DEF RunOK
<1>5. PICK n \in 1..LastPage[p] : n = x.n
  BY <1>1, <1>3, <1>4 DEF RunOK
<1>6. SavedBefore(p, n)
  BY <1>1, <1>3, <1>4, <1>5 DEF RunOK
<1>7. SavedBefore(p, n)'
  BY <1>6, BeforeStays DEF CrawlInv, TypeOK
<1>8. PageOf(r) = <<p, n>>
  BY <1>3, <1>4, <1>5 DEF PageOf
<1>9. RunOK(x)'
  BY <1>3, <1>4, <1>5, <1>7, <1>8 DEF RunOK, PagePC, PersistedPC
<1>10. run' = [run EXCEPT ![r] = x]
  BY <1>2 DEF Goto
<1> QED
  BY <1>1, <1>9, <1>10, RunGoes

LEMMA FencedTyped ==
    ASSUME TypeOK, NEW r \in Run, NEW stage \in Stage, Fenced(r, stage)
    PROVE  job' \in JobRow
BY DEF TypeOK, Fenced, JobRow

LEMMA QuietStep ==
    ASSUME CrawlInv, job' \in JobRow, Moves /\ run' \in [Run -> RunState],
           faults' \in 0..MaxFaults, overlapped' \in BOOLEAN,
           UNCHANGED <<partition, receipt, rows, operator, commands, overtaken>>
    PROVE  CrawlInv'
<1>1. TypeOK'
  BY DEF CrawlInv, TypeOK
<1> QED
  BY <1>1, QuietPreserves

LEMMA QuietGrows ==
    ASSUME TypeOK, UNCHANGED <<receipt, rows>>
    PROVE  Grows /\ rows' \in [Page -> Nat]
BY DEF Grows, TypeOK

\* What a quiet step leaves alone; every action that is not Quiet changes a
\* partition, a receipt or the Sheet.
Quiet ==
    /\ faults' \in 0..MaxFaults
    /\ overlapped' \in BOOLEAN
    /\ UNCHANGED <<partition, receipt, rows, operator, commands, overtaken>>

LEMMA EvictedStep ==
    ASSUME CrawlInv, NEW r \in Run, Evicted(r), Quiet
    PROVE  CrawlInv'
<1>1. Moves /\ run' \in [Run -> RunState]
  BY ThrowElsewhere DEF Evicted, CrawlInv, ErrorKind
<1>2. job' \in JobRow
  BY DEF Evicted, CrawlInv, TypeOK
<1> QED
  BY <1>1, <1>2, QuietStep DEF Quiet

\* See and Claim: the claim of the job.
LEMMA ClaimSteps ==
    ASSUME CrawlInv, NEW r \in Run, See(r) \/ Claim(r)
    PROVE  CrawlInv'
<1>1. Quiet
  BY DEF CrawlInv, TypeOK, See, Claim, Quiet, sheet, environment
<1>2. job' \in JobRow
  BY DEF CrawlInv, TypeOK, See, Claim, JobRow, JobState
<1>3. \E pc \in Elsewhere : Goto(r, pc)
  BY DEF See, Claim, Elsewhere, RunPC, PagePC
<1>4. Moves /\ run' \in [Run -> RunState]
  BY <1>3, GotoElsewhere DEF CrawlInv
<1> QED
  BY <1>1, <1>2, <1>4, QuietStep DEF Quiet

\* Start takes up the staged page, whose predecessors are saved.
LEMMA StartStep ==
    ASSUME CrawlInv, NEW r \in Run, Start(r)
    PROVE  CrawlInv'
<1>1. Quiet /\ job' \in JobRow
  BY DEF CrawlInv, TypeOK, Start, Quiet, sheet, environment
<1>2. ASSUME NEW g \in NextPending,
             run' = [run EXCEPT ![r].pc = "load", ![r].part = g[1], ![r].n = g[2]]
      PROVE  Moves /\ run' \in [Run -> RunState]
  <2>1. g \in Page /\ receipt[g].state # "none"
    BY DEF NextPending, Received
  <2>2. PICK p \in Partition : \E n \in 1..LastPage[p] : g = <<p, n>>
    BY <2>1, PageParts
  <2>3. PICK n \in 1..LastPage[p] : g = <<p, n>>
    BY <2>2
  <2>4. SavedBefore(p, n)
    BY <2>1, <2>3 DEF CrawlInv, Behind
  <2>5. SavedBefore(p, n)'
    BY <1>1, <2>4, QuietGrows, BeforeStays DEF CrawlInv, TypeOK, Quiet
  <2>6. PICK x \in RunState :
            x = [run[r] EXCEPT !.pc = "load", !.part = p, !.n = n]
    <3>1. n \in Nat
      BY CreatorSyncAssumption
    <3> QED
      BY <3>1 DEF CrawlInv, TypeOK, RunState, RunPC
  <2>7. x.pc = "load" /\ x.part = p /\ x.n = n
    BY <2>6 DEF CrawlInv, TypeOK, RunState
  <2>8. RunOK(x)'
    BY <2>5, <2>7 DEF RunOK, PersistedPC
  <2>9. run' = [run EXCEPT ![r] = x]
    BY <1>2, <2>3, <2>6 DEF CrawlInv, TypeOK
  <2> QED
    BY <2>8, <2>9, RunGoes DEF CrawlInv, TypeOK
<1>3. ASSUME Goto(r, IF job.imported THEN AfterImport ELSE "import")
      PROVE  Moves /\ run' \in [Run -> RunState]
  <2>1. (IF job.imported THEN AfterImport ELSE "import") \in Elsewhere
    BY DEF AfterImport, Elsewhere, RunPC, PagePC
  <2>2. \E pc \in Elsewhere : Goto(r, pc)
    BY <1>3, <2>1
  <2> QED
    BY <2>2, GotoElsewhere DEF CrawlInv
<1>4. CASE Evicted(r)
  BY <1>1, <1>4, EvictedStep
<1>5. CASE ~Evicted(r)
  BY <1>1, <1>2, <1>3, <1>5, QuietStep DEF Start, Quiet
<1> QED
  BY <1>4, <1>5

LEMMA ImportStep ==
    ASSUME CrawlInv, NEW r \in Run, Import(r)
    PROVE  CrawlInv'
<1>1. Quiet
  BY DEF CrawlInv, TypeOK, Import, Quiet, sheet, environment
<1>2. job' \in JobRow
  BY DEF CrawlInv, TypeOK, Import, Evicted, JobRow
<1>3. Goto(r, AfterImport) => Moves /\ run' \in [Run -> RunState]
  <2>1. AfterImport \in Elsewhere
    BY DEF AfterImport, Elsewhere, RunPC, PagePC
  <2>2. Goto(r, AfterImport) => \E pc \in Elsewhere : Goto(r, pc)
    BY <2>1
  <2> QED
    BY <2>2, GotoElsewhere DEF CrawlInv
<1>4. CASE Evicted(r)
  BY <1>1, <1>4, EvictedStep
<1>5. CASE ~Evicted(r)
  BY <1>1, <1>2, <1>3, <1>5, QuietStep DEF Import, Quiet
<1> QED
  BY <1>4, <1>5

\* The page behind the cursor exists and all before it are saved.
LEMMA ContinueRun ==
    ASSUME CrawlInv, NEW r \in Run, NEW p \in Partition, Continue(r, p),
           UNCHANGED <<receipt, rows>>
    PROVE  Moves /\ run' \in [Run -> RunState]
<1>1. partition[p].cursor \in Nat /\ LastPage[p] \in Nat
  BY CreatorSyncAssumption DEF CrawlInv, TypeOK, PartitionRow
<1>2. PICK n \in 1..LastPage[p] : n = partition[p].cursor + 1
  BY <1>1 DEF CrawlInv, CursorInRange
<1>3. SavedBefore(p, n)
  BY <1>1, <1>2 DEF CrawlInv, NothingSkipped, SavedBefore
<1>4. SavedBefore(p, n)'
  BY <1>3, QuietGrows, BeforeStays DEF CrawlInv, TypeOK
<1>5. PICK x \in RunState :
          x = [run[r] EXCEPT !.pc = "ready", !.part = p, !.n = n]
  <2>1. n \in Nat /\ run[r] \in RunState
    BY <1>1, <1>2 DEF CrawlInv, TypeOK
  <2> QED
    BY <2>1 DEF RunState, RunPC
<1>6. x.pc = "ready" /\ x.part = p /\ x.n = n
  BY <1>5 DEF CrawlInv, TypeOK, RunState
<1>7. RunOK(x)'
  BY <1>4, <1>6 DEF RunOK, PersistedPC
<1>8. run' = [run EXCEPT ![r] = x]
  BY <1>2, <1>5 DEF CrawlInv, TypeOK, Continue
<1> QED
  BY <1>7, <1>8, RunGoes DEF CrawlInv, TypeOK

LEMMA ChooseReadStep ==
    ASSUME CrawlInv, NEW r \in Run, ChooseRead(r)
    PROVE  CrawlInv'
<1>1. Quiet /\ job' \in JobRow
  BY DEF CrawlInv, TypeOK, ChooseRead, Quiet, sheet, environment
<1>2. CASE Evicted(r)
  BY <1>1, <1>2, EvictedStep
<1>3. CASE Goto(r, "choosing")
  <2>1. "choosing" \in Elsewhere
    BY DEF Elsewhere, RunPC, PagePC
  <2> QED
    BY <1>1, <1>3, <2>1, GotoElsewhere, QuietStep DEF CrawlInv, Quiet
<1>4. CASE job.current # None /\ Continue(r, job.current)
  <2>1. job.current \in Partition
    BY <1>4 DEF CrawlInv, TypeOK, JobRow
  <2> QED
    BY <1>1, <1>4, <2>1, ContinueRun, QuietStep DEF Quiet
<1> QED
  BY <1>2, <1>3, <1>4 DEF ChooseRead

\* A step of a run that stays on its page and changes the job at most.
LEMMA PageStep ==
    ASSUME CrawlInv, NEW r \in Run, NEW pc \in PagePC, Goto(r, pc),
           run[r].pc \in PagePC, Quiet, job' \in JobRow,
           pc \in PersistedPC => receipt[PageOf(r)].persisted,
           pc \notin {"write", "commit", "committing"}
    PROVE  CrawlInv'
BY QuietGrows, GotoOnPage, QuietStep DEF Quiet, CrawlInv

LEMMA ReadyStep ==
    ASSUME CrawlInv, NEW r \in Run, Ready(r)
    PROVE  CrawlInv'
<1>1. Quiet
  BY DEF CrawlInv, TypeOK, Ready, Quiet, sheet, environment
<1>2. CASE Evicted(r)
  BY <1>1, <1>2, EvictedStep
<1>3. CASE Goto(r, "pausing") /\ UNCHANGED job
  <2>1. "pausing" \in Elsewhere
    BY DEF Elsewhere, RunPC, PagePC
  <2> QED
    BY <1>1, <1>3, <2>1, GotoElsewhere, QuietStep DEF CrawlInv, Quiet, TypeOK
<1>4. CASE Fenced(r, "other") /\ Goto(r, "begin")
  <2>1. job' \in JobRow
    BY <1>4, FencedTyped DEF CrawlInv, Stage
  <2>2. run[r].pc \in PagePC /\ "begin" \in PagePC /\ "begin" \notin PersistedPC
    BY DEF Ready, PagePC, PersistedPC
  <2> QED
    BY <1>1, <1>4, <2>1, <2>2, PageStep
<1> QED
  BY <1>2, <1>3, <1>4 DEF Ready

LEMMA SearchRefusedStep ==
    ASSUME CrawlInv, NEW r \in Run, SearchRefused(r)
    PROVE  CrawlInv'
<1>1. Quiet /\ job' \in JobRow
  BY CreatorSyncAssumption
  DEF CrawlInv, TypeOK, SearchRefused, Quiet, sheet, environment, Fault
<1>2. \E kind \in ErrorKind : ThrowAs(r, kind)
  BY DEF SearchRefused, ErrorKind
<1> QED
  BY <1>1, <1>2, ThrowElsewhere, QuietStep DEF CrawlInv, Quiet

LEMMA LoadStep ==
    ASSUME CrawlInv, NEW r \in Run, Load(r)
    PROVE  CrawlInv'
<1>1. Quiet
  BY DEF CrawlInv, TypeOK, Load, Quiet, sheet, environment
<1>2. run[r].pc \in PagePC /\ {"attempt", "persist"} \subseteq PagePC
      /\ "persist" \notin PersistedPC
  BY DEF Load, PagePC, PersistedPC
<1>3. CASE receipt[PageOf(r)].persisted /\ Goto(r, "attempt") /\ UNCHANGED job
  BY <1>1, <1>2, <1>3, PageStep DEF CrawlInv, TypeOK
<1>4. CASE Fenced(r, "other") /\ Goto(r, "persist")
  <2>1. job' \in JobRow
    BY <1>4, FencedTyped DEF CrawlInv, Stage
  <2> QED
    BY <1>1, <1>2, <1>4, <2>1, PageStep
<1>5. CASE ThrowAs(r, "other") /\ UNCHANGED job
  <2>1. "other" \in ErrorKind
    BY DEF ErrorKind
  <2> QED
    BY <1>1, <1>5, <2>1, ThrowElsewhere, QuietStep DEF CrawlInv, Quiet, TypeOK
<1> QED
  BY <1>3, <1>4, <1>5 DEF Load

LEMMA AttemptStep ==
    ASSUME CrawlInv, NEW r \in Run, Attempt(r)
    PROVE  CrawlInv'
<1>1. Quiet
  BY DEF CrawlInv, TypeOK, Attempt, Quiet, sheet, environment
<1>2. CASE Evicted(r)
  BY <1>1, <1>2, EvictedStep
<1>3. CASE Fenced(r, "sheet") /\ Goto(r, "reconcile")
  <2>1. job' \in JobRow
    BY <1>3, FencedTyped DEF CrawlInv, Stage
  <2>2. run[r].pc \in PagePC /\ "reconcile" \in PagePC
    BY DEF Attempt, PagePC
  <2>3. receipt[PageOf(r)].persisted
    BY DEF CrawlInv, RunsOK, RunOK, Attempt, PersistedPC, PageOf
  <2> QED
    BY <1>1, <1>3, <2>1, <2>2, <2>3, PageStep
<1> QED
  BY <1>2, <1>3 DEF Attempt

\* What ReadSheet remembers is whether the page has rows already.
LEMMA ReadSheetStep ==
    ASSUME CrawlInv, NEW r \in Run, ReadSheet(r)
    PROVE  CrawlInv'
<1>1. Quiet /\ job' \in JobRow
  BY DEF CrawlInv, TypeOK, ReadSheet, Quiet, sheet, environment
<1>2. run[r] \in RunState /\ RunOK(run[r]) /\ run[r].pc = "reconcile"
  BY DEF CrawlInv, TypeOK, RunsOK, ReadSheet
<1>3. PICK y \in RunState : y = run[r]
  BY <1>2
<1>4. RunOK(y)'
  BY <1>1, <1>2, <1>3, QuietGrows, RunStaysOK DEF CrawlInv, TypeOK, Quiet
<1>5. PICK x \in RunState :
          x = [y EXCEPT !.pc = "write", !.add = Absent(<<y.part, y.n>>)]
  BY DEF RunState, RunPC, Absent
<1>6. /\ x.pc = "write"
      /\ x.part = y.part
      /\ x.n = y.n
      /\ ~x.add => rows[<<y.part, y.n>>] # 0
  BY <1>5 DEF RunState, Absent
<1>7. ASSUME ~x.add PROVE rows'[<<y.part, y.n>>] > 0
  <2>1. <<y.part, y.n>> \in Page
    BY <1>2, <1>3, PageKey DEF RunOK, PagePC
  <2>2. rows[<<y.part, y.n>>] \in Nat /\ rows' = rows
    BY <1>1, <2>1 DEF CrawlInv, TypeOK, Quiet
  <2>3. rows[<<y.part, y.n>>] # 0
    BY <1>6, <1>7
  <2> QED
    BY <2>2, <2>3
<1>8. RunOK(x)'
  <2>1. y.pc = "reconcile"
    BY <1>2, <1>3
  <2>2. /\ x.part \in Partition
        /\ x.n \in 1..LastPage[x.part]
        /\ SavedBefore(x.part, x.n)'
        /\ receipt'[<<x.part, x.n>>].persisted
    BY <1>4, <1>6, <2>1 DEF RunOK, PagePC, PersistedPC
  <2>3. ~x.add => rows'[<<x.part, x.n>>] > 0
    BY <1>6, <1>7
  <2>4. x.pc = "write"
    BY <1>6
  <2> QED
    BY <2>2, <2>3, <2>4 DEF RunOK
<1>9. run' = [run EXCEPT ![r] = x]
  BY <1>3, <1>5 DEF CrawlInv, TypeOK, ReadSheet, PageOf
<1> QED
  BY <1>1, <1>8, <1>9, RunGoes, QuietStep DEF CrawlInv, TypeOK, Quiet

LEMMA CommitReadStep ==
    ASSUME CrawlInv, NEW r \in Run, CommitRead(r)
    PROVE  CrawlInv'
<1>1. Quiet
  BY DEF CrawlInv, TypeOK, CommitRead, Quiet, sheet, environment
<1>2. CASE Evicted(r)
  BY <1>1, <1>2, EvictedStep
<1>3. CASE /\ Fenced(r, "other")
           /\ run' = [run EXCEPT ![r].pc = "committing", ![r].pause = job.pauseRequested]
  <2>1. job' \in JobRow
    BY <1>3, FencedTyped DEF CrawlInv, Stage
  <2>2. run[r] \in RunState /\ RunOK(run[r]) /\ run[r].pc = "commit"
    BY DEF CrawlInv, TypeOK, RunsOK, CommitRead
  <2>3. PICK y \in RunState : y = run[r]
    BY <2>2
  <2>4. RunOK(y)'
    BY <1>1, <2>2, <2>3, QuietGrows, RunStaysOK DEF CrawlInv, TypeOK, Quiet
  <2>5. PICK x \in RunState : x = [y EXCEPT !.pc = "committing", !.pause = job.pauseRequested]
    BY DEF CrawlInv, TypeOK, JobRow, RunState, RunPC
  <2>6. x.pc = "committing" /\ x.part = y.part /\ x.n = y.n
    BY <2>5 DEF RunState
  <2>7. RunOK(x)'
    BY <2>2, <2>3, <2>4, <2>6 DEF RunOK, PagePC, PersistedPC
  <2>8. run' = [run EXCEPT ![r] = x]
    BY <1>3, <2>3, <2>5 DEF CrawlInv, TypeOK
  <2> QED
    BY <1>1, <2>1, <2>7, <2>8, RunGoes, QuietStep DEF CrawlInv, TypeOK, Quiet
<1> QED
  BY <1>2, <1>3 DEF CommitRead

\* A business error is remembered only with the partition it is counted for.
LEMMA ErrorReadStep ==
    ASSUME CrawlInv, NEW r \in Run, ErrorRead(r)
    PROVE  CrawlInv'
<1>1. Quiet /\ job' \in JobRow
  BY DEF CrawlInv, TypeOK, ErrorRead, Quiet, sheet, environment
<1>2. CASE ~Holds(r)
  BY <1>1, <1>2, IdleElsewhere, QuietStep DEF ErrorRead, CrawlInv, Quiet
<1>3. CASE Holds(r)
  <2> DEFINE p     == job.current
             kind  == IF SheetsFailure THEN "sheet"
                      ELSE IF run[r].error = "business" /\ p = None THEN "other"
                      ELSE run[r].error
             tries == IF p = None \/ run[r].error # "business" THEN 0
                      ELSE BusinessTries(p)
  <2>1. p \in Partition \cup {None} /\ job.pauseRequested \in BOOLEAN
        /\ run[r] \in RunState
    BY DEF CrawlInv, TypeOK, JobRow
  <2>2. kind \in ErrorKind /\ (kind = "business" => p \in Partition)
    BY <2>1 DEF ErrorKind, RunState
  <2>3. tries \in Nat
    BY <2>1 DEF BusinessTries, CrawlInv, TypeOK, PartitionRow
  <2>4. PICK x \in RunState :
            x = [run[r] EXCEPT !.pc = "failing", !.part = p, !.pause = job.pauseRequested,
                               !.error = kind, !.tries = tries]
    BY <2>1, <2>2, <2>3 DEF RunState, RunPC
  <2>5. x.pc = "failing" /\ x.part = p /\ x.error = kind
    BY <2>1, <2>4 DEF RunState
  <2>6. RunOK(x)'
    <3>1. x.error = "business" => x.part \in Partition
      BY <2>2, <2>5
    <3> QED
      BY <2>5, <3>1 DEF RunOK, PagePC, PersistedPC
  <2>7. run' = [run EXCEPT ![r] = x]
    BY <1>3, <2>4 DEF CrawlInv, TypeOK, ErrorRead
  <2> QED
    BY <1>1, <2>6, <2>7, RunGoes, QuietStep DEF CrawlInv, TypeOK, Quiet
<1> QED
  BY <1>2, <1>3

LEMMA HandleNoPageStep ==
    ASSUME CrawlInv, NEW r \in Run, HandleNoPage(r)
    PROVE  CrawlInv'
<1>1. Quiet /\ job' \in JobRow
  BY DEF CrawlInv, TypeOK, HandleNoPage, Quiet, sheet, environment
<1>2. PICK x \in RunState : x = [run[r] EXCEPT !.error = "other"]
  BY DEF CrawlInv, TypeOK, RunState, ErrorKind
<1>3. x.pc = "failing" /\ x.error = "other"
  BY <1>2 DEF CrawlInv, TypeOK, RunState, HandleNoPage
<1>4. RunOK(x)'
  BY <1>3 DEF RunOK, PagePC, PersistedPC
<1>5. run' = [run EXCEPT ![r] = x]
  BY <1>2 DEF CrawlInv, TypeOK, HandleNoPage
<1> QED
  BY <1>1, <1>4, <1>5, RunGoes, QuietStep DEF CrawlInv, TypeOK, Quiet

\* Time passes.
LEMMA TimeSteps ==
    ASSUME CrawlInv, ExpireLease \/ Elapse
    PROVE  CrawlInv'
<1>1. Quiet
  <2>1. overlapped' \in BOOLEAN
    BY DEF CrawlInv, TypeOK, ExpireLease, Elapse
  <2>2. faults' \in 0..MaxFaults
    BY CreatorSyncAssumption DEF CrawlInv, TypeOK, ExpireLease, Elapse, Fault
  <2> QED
    BY <2>1, <2>2 DEF ExpireLease, Elapse, Quiet, sheet, environment
<1>2. job' \in JobRow /\ run' = run
  BY DEF CrawlInv, TypeOK, ExpireLease, Elapse, JobRow
<1>3. Moves /\ run' \in [Run -> RunState]
  BY <1>2 DEF Moves, CrawlInv, TypeOK
<1> QED
  BY <1>1, <1>2, <1>3, QuietStep DEF Quiet

-----------------------------------------------------------------------------
(* Steps that change a partition and neither a receipt nor the Sheet *)

\* The rows of the request and the counters, which no part of the invariant
\* depends on.
EnvironmentTyped ==
    /\ operator' \in Request
    /\ faults' \in 0..MaxFaults
    /\ commands' \in 0..MaxCommands
    /\ overlapped' \in BOOLEAN
    /\ overtaken' \in BOOLEAN

LEMMA PartitionStep ==
    ASSUME CrawlInv, job' \in JobRow, partition' \in [Partition -> PartitionRow], Keeps,
           Moves /\ run' \in [Run -> RunState], EnvironmentTyped,
           UNCHANGED <<receipt, rows>>
    PROVE  CrawlInv'
<1>1. TypeOK'
  BY DEF CrawlInv, TypeOK, EnvironmentTyped
<1>2. Grows /\ Follows
  BY QuietGrows DEF CrawlInv, Follows
<1> QED
  BY <1>1, <1>2, Preserved

\* Changing the status, and the retries with it, completes nothing.
LEMMA StatusKeeps ==
    ASSUME partition \in [Partition -> PartitionRow],
           NEW p \in Partition, NEW status \in PartitionStatus \ {"COMPLETE"},
           NEW tries \in Nat, NEW triesPage \in Nat,
           partition' = [partition EXCEPT ![p].status = status, ![p].tries = tries,
                                          ![p].triesPage = triesPage]
    PROVE  Keeps /\ partition' \in [Partition -> PartitionRow]
BY DEF Keeps, PartitionRow

LEMMA MarkedKeeps ==
    ASSUME partition \in [Partition -> PartitionRow], NEW p \in Partition \cup {None},
           NEW status \in PartitionStatus \ {"COMPLETE"}, Marked(p, status)
    PROVE  Keeps /\ partition' \in [Partition -> PartitionRow]
<1>1. CASE p = None
  BY <1>1 DEF Marked, Keeps
<1>2. CASE p # None
  BY <1>2 DEF Marked, Keeps, PartitionRow
<1> QED
  BY <1>1, <1>2

LEMMA PauseClaimedStep ==
    ASSUME CrawlInv, NEW r \in Run, PauseClaimed(r)
    PROVE  CrawlInv'
<1>1. EnvironmentTyped /\ UNCHANGED <<receipt, rows>>
  BY DEF CrawlInv, TypeOK, PauseClaimed, EnvironmentTyped, sheet, environment
<1>2. job' \in JobRow
  BY DEF CrawlInv, TypeOK, PauseClaimed, JobRow, JobState, Stage
<1>3. Keeps /\ partition' \in [Partition -> PartitionRow]
  BY DEF CrawlInv, TypeOK, PauseClaimed, Keeps, PartitionRow, PartitionStatus
<1> QED
  BY <1>1, <1>2, <1>3, IdleElsewhere, PartitionStep DEF CrawlInv, PauseClaimed

\* expandReadyBranches creates partitions, which nothing was crawled of.
LEMMA ExpandKeeps ==
    ASSUME NEW st \in [Partition -> PartitionRow]
    PROVE  /\ ExpandReadyBranches(st) \in [Partition -> PartitionRow]
           /\ \A p \in Partition :
                  /\ ExpandReadyBranches(st)[p].cursor = st[p].cursor
                  /\ ExpandReadyBranches(st)[p].status = "COMPLETE" =>
                         st[p].status = "COMPLETE"
BY DEF ExpandReadyBranches, Waiting, PartitionRow, PartitionStatus

LEMMA ExpandUncounted ==
    ASSUME NEW st, NEW q \in Partition
    PROVE  ExpandReadyBranches(st)[q].pages = st[q].pages
<1>1. \A status : [st[q] EXCEPT !.status = status].pages = st[q].pages
  OBVIOUS
<1> QED
  BY <1>1 DEF ExpandReadyBranches

\* A split adds partitions that wait to be chosen and changes no other.
LEMMA ExpandStatus ==
    ASSUME NEW st \in [Partition -> PartitionRow], NEW q \in Partition
    PROVE  \/ ExpandReadyBranches(st)[q].status = st[q].status
           \/ /\ st[q].status = "ABSENT"
              /\ ExpandReadyBranches(st)[q].status \in {"QUEUED", "EXPERIMENT_ONLY"}
BY DEF ExpandReadyBranches, Waiting, PartitionRow

\* The mark of a stale snapshot changes nothing else.
LEMMA SkippingKeeps ==
    ASSUME NEW st \in [Partition -> PartitionRow], NEW stale
    PROVE  /\ Skipping(st, stale) \in [Partition -> PartitionRow]
           /\ \A p \in Partition :
                  /\ Skipping(st, stale)[p].cursor = st[p].cursor
                  /\ Skipping(st, stale)[p].pages = st[p].pages
                  /\ Skipping(st, stale)[p].status = st[p].status
                  /\ p \in stale => Skipping(st, stale)[p].skipped
BY DEF Skipping, PartitionRow

\* What the scheduler chooses from.
Offers(st) ==
    /\ st \in [Partition -> PartitionRow]
    /\ \A p \in Partition :
           /\ st[p].cursor = partition[p].cursor
           /\ st[p].pages = partition[p].pages
           /\ \/ st[p].status = partition[p].status
              \/ /\ partition[p].status = "ABSENT"
                 /\ st[p].status \in {"QUEUED", "EXPERIMENT_ONLY"}

LEMMA Chooses ==
    ASSUME CrawlInv, NEW r \in Run, ChooseWrite(r)
    PROVE  \E st : /\ Offers(st)
                   /\ \/ /\ \A p \in Partition : st[p].status = "QUEUED" => st[p].skipped
                         /\ partition' = st
                         /\ job' = IF Holds(r)
                                   THEN [job EXCEPT !.state = "EXHAUSTED", !.stage = "other",
                                                    !.current = None, !.lease = None,
                                                    !.expired = FALSE]
                                   ELSE job
                         /\ run' = [run EXCEPT ![r] = Idle]
                      \/ \E p \in Partition :
                         /\ partition' = Chosen(st, p)
                         /\ job' = IF Holds(r)
                                   THEN [job EXCEPT !.current = p, !.stage = "other"]
                                   ELSE job
                         /\ Continue(r, p)
<1> DEFINE ex == ExpandReadyBranches(partition)
<1>1. PICK stale \in SUBSET (Primary \cap Queued(partition)) :
          \/ /\ Queued(Skipping(ex, stale)) \ stale = {}
             /\ partition' = Skipping(ex, stale)
             /\ job' = IF Holds(r)
                       THEN [job EXCEPT !.state = "EXHAUSTED", !.stage = "other",
                                        !.current = None, !.lease = None,
                                        !.expired = FALSE]
                       ELSE job
             /\ run' = [run EXCEPT ![r] = Idle]
          \/ \E p \in (Queued(Skipping(ex, stale)) \ stale)
                           \cup Experiments(Skipping(ex, stale)) :
             /\ partition' = Chosen(Skipping(ex, stale), p)
             /\ job' = IF Holds(r)
                       THEN [job EXCEPT !.current = p, !.stage = "other"]
                       ELSE job
             /\ Continue(r, p)
  BY DEF ChooseWrite
<1>2. partition \in [Partition -> PartitionRow]
  BY DEF CrawlInv, TypeOK
<1>3. ex \in [Partition -> PartitionRow]
  BY <1>2, ExpandKeeps
<1>4. \A p \in Partition :
          /\ ex[p].cursor = partition[p].cursor
          /\ ex[p].pages = partition[p].pages
          /\ \/ ex[p].status = partition[p].status
             \/ /\ partition[p].status = "ABSENT"
                /\ ex[p].status \in {"QUEUED", "EXPERIMENT_ONLY"}
  BY <1>2, ExpandKeeps, ExpandUncounted, ExpandStatus
<1> HIDE DEF ex
<1> DEFINE st == Skipping(ex, stale)
<1>5. /\ st \in [Partition -> PartitionRow]
      /\ \A p \in Partition :
             /\ st[p].cursor = ex[p].cursor
             /\ st[p].pages = ex[p].pages
             /\ st[p].status = ex[p].status
             /\ p \in stale => st[p].skipped
  BY <1>3, SkippingKeeps
<1> HIDE DEF st
<1>6. Offers(st)
  BY <1>4, <1>5 DEF Offers
<1>7. Queued(st) \ stale = {} =>
          \A p \in Partition : st[p].status = "QUEUED" => st[p].skipped
  BY <1>5 DEF Queued
<1>8. (Queued(st) \ stale) \cup Experiments(st) \subseteq Partition
  BY DEF Queued, Experiments
<1>9. \/ /\ \A p \in Partition : st[p].status = "QUEUED" => st[p].skipped
         /\ partition' = st
         /\ job' = IF Holds(r)
                   THEN [job EXCEPT !.state = "EXHAUSTED", !.stage = "other",
                                    !.current = None, !.lease = None,
                                    !.expired = FALSE]
                   ELSE job
         /\ run' = [run EXCEPT ![r] = Idle]
      \/ \E p \in Partition :
         /\ partition' = Chosen(st, p)
         /\ job' = IF Holds(r)
                   THEN [job EXCEPT !.current = p, !.stage = "other"]
                   ELSE job
         /\ Continue(r, p)
  BY <1>1, <1>7, <1>8 DEF st
<1> QED
  BY <1>6, <1>9

\* The chosen partition is the only one whose status is written.
LEMMA ChosenKeeps ==
    ASSUME NEW st \in [Partition -> PartitionRow], NEW p \in Partition
    PROVE  /\ Chosen(st, p) \in [Partition -> PartitionRow]
           /\ Chosen(st, p)[p].status = "RUNNING"
           /\ \A q \in Partition :
                  /\ Chosen(st, p)[q].cursor = st[q].cursor
                  /\ Chosen(st, p)[q].pages = st[q].pages
                  /\ q # p => Chosen(st, p)[q].status = st[q].status
BY DEF Chosen, PartitionRow, PartitionStatus

LEMMA ChooseWriteStep ==
    ASSUME CrawlInv, NEW r \in Run, ChooseWrite(r)
    PROVE  CrawlInv'
<1>1. EnvironmentTyped /\ UNCHANGED <<receipt, rows>>
  BY DEF CrawlInv, TypeOK, ChooseWrite, EnvironmentTyped, sheet, environment
<1>2. PICK st : /\ Offers(st)
                /\ \/ /\ partition' = st
                      /\ job' = IF Holds(r)
                                THEN [job EXCEPT !.state = "EXHAUSTED", !.stage = "other",
                                                 !.current = None, !.lease = None,
                                                 !.expired = FALSE]
                                ELSE job
                      /\ run' = [run EXCEPT ![r] = Idle]
                   \/ \E p \in Partition :
                      /\ partition' = Chosen(st, p)
                      /\ job' = IF Holds(r)
                                THEN [job EXCEPT !.current = p, !.stage = "other"]
                                ELSE job
                      /\ Continue(r, p)
  BY Chooses
<1>3. job' \in JobRow
  <2>1. \/ job' = job
        \/ job' = [job EXCEPT !.state = "EXHAUSTED", !.stage = "other", !.current = None,
                             !.lease = None, !.expired = FALSE]
        \/ \E p \in Partition : job' = [job EXCEPT !.current = p, !.stage = "other"]
    BY <1>2
  <2>2. job \in JobRow
    BY DEF CrawlInv, TypeOK
  <2> QED
    BY <2>1, <2>2 DEF JobRow, JobState, Stage
<1>4. /\ st \in [Partition -> PartitionRow]
      /\ \A p \in Partition :
             /\ st[p].cursor = partition[p].cursor
             /\ st[p].status = "COMPLETE" => partition[p].status = "COMPLETE"
  BY <1>2 DEF Offers
<1>5. CASE partition' = st /\ run' = [run EXCEPT ![r] = Idle]
  <2>1. Keeps
    BY <1>4, <1>5 DEF Keeps
  <2> QED
    BY <1>1, <1>3, <1>4, <1>5, <2>1, IdleElsewhere, PartitionStep DEF CrawlInv
<1>6. ASSUME NEW p \in Partition, partition' = Chosen(st, p), Continue(r, p)
      PROVE  CrawlInv'
  <2>1. Keeps /\ partition' \in [Partition -> PartitionRow]
    BY <1>4, <1>6, ChosenKeeps DEF Keeps
  <2> QED
    BY <1>1, <1>3, <1>6, <2>1, ContinueRun, PartitionStep
<1> QED
  BY <1>2, <1>5, <1>6

LEMMA BeginStep ==
    ASSUME CrawlInv, NEW r \in Run, Begin(r)
    PROVE  CrawlInv'
<1>1. EnvironmentTyped /\ UNCHANGED <<receipt, rows>> /\ job' \in JobRow
  BY DEF CrawlInv, TypeOK, Begin, EnvironmentTyped, sheet, environment
<1>2. run[r].pc \in PagePC /\ "search" \in PagePC /\ "search" \notin PersistedPC
  BY DEF Begin, PagePC, PersistedPC
<1>3. Moves /\ run' \in [Run -> RunState]
  BY <1>1, <1>2, QuietGrows, GotoOnPage DEF Begin, CrawlInv
<1>4. Keeps /\ partition' \in [Partition -> PartitionRow]
  BY DEF CrawlInv, TypeOK, Begin, Keeps, PartitionRow, PartitionStatus
<1> QED
  BY <1>1, <1>3, <1>4, PartitionStep

LEMMA SearchAnsweredStep ==
    ASSUME CrawlInv, NEW r \in Run, SearchAnswered(r)
    PROVE  CrawlInv'
<1>1. EnvironmentTyped /\ UNCHANGED <<receipt, rows>>
  BY DEF CrawlInv, TypeOK, SearchAnswered, EnvironmentTyped, sheet, environment
<1>2. Keeps /\ partition' \in [Partition -> PartitionRow]
  BY DEF CrawlInv, TypeOK, SearchAnswered, Keeps, PartitionRow
<1>3. CASE Fenced(r, "other") /\ Goto(r, "stage")
  <2>1. job' \in JobRow
    BY <1>3, FencedTyped DEF CrawlInv, Stage
  <2>2. run[r].pc \in PagePC /\ "stage" \in PagePC /\ "stage" \notin PersistedPC
    BY DEF SearchAnswered, PagePC, PersistedPC
  <2>3. Moves /\ run' \in [Run -> RunState]
    BY <1>1, <1>3, <2>2, QuietGrows, GotoOnPage DEF CrawlInv
  <2> QED
    BY <1>1, <1>2, <2>1, <2>3, PartitionStep
<1>4. CASE Evicted(r)
  <2>1. job' \in JobRow
    BY <1>4 DEF Evicted, CrawlInv, TypeOK
  <2>2. Moves /\ run' \in [Run -> RunState]
    BY <1>4, ThrowElsewhere DEF Evicted, CrawlInv, ErrorKind
  <2> QED
    BY <1>1, <1>2, <2>1, <2>2, PartitionStep
<1> QED
  BY <1>3, <1>4 DEF SearchAnswered

\* The handlers of an error end their run and complete nothing.
LEMMA HandlerStep ==
    ASSUME CrawlInv, NEW r \in Run, NEW kinds, ErrorEnds(r, kinds), job' \in JobRow,
           Keeps /\ partition' \in [Partition -> PartitionRow]
    PROVE  CrawlInv'
<1>1. overlapped' \in BOOLEAN
  BY DEF ErrorEnds, CrawlInv, TypeOK
<1>2. EnvironmentTyped /\ UNCHANGED <<receipt, rows>>
  BY <1>1 DEF CrawlInv, TypeOK, ErrorEnds, EnvironmentTyped, sheet, environment
<1> QED
  BY <1>2, IdleElsewhere, PartitionStep DEF CrawlInv, ErrorEnds

LEMMA ReleasedTyped ==
    ASSUME job \in JobRow, NEW st \in JobState, NEW stage \in Stage, NEW wait \in BOOLEAN
    PROVE  Released(st, stage, wait) \in JobRow
BY DEF Released, JobRow

LEMMA StoppedTyped ==
    ASSUME NEW pause \in BOOLEAN
    PROVE  /\ Stopped(pause) \in JobState
           /\ PartStopped(pause) \in PartitionStatus \ {"COMPLETE"}
           /\ (~pause) \in BOOLEAN
<1>1. (~pause) \in BOOLEAN
  BY Zenon
<1> QED
  BY <1>1 DEF Stopped, PartStopped, JobState, PartitionStatus

\* What a handler finds in its run.
LEMMA HandlerFinds ==
    ASSUME CrawlInv, NEW r \in Run
    PROVE  /\ run[r].pause \in BOOLEAN
           /\ run[r].part \in Partition \cup {None}
           /\ run[r].tries \in Nat
BY DEF CrawlInv, TypeOK, RunState

LEMMA HandleSheetsFailureStep ==
    ASSUME CrawlInv, NEW r \in Run, HandleSheetsFailure(r)
    PROVE  CrawlInv'
<1>1. PICK pause \in BOOLEAN : pause = run[r].pause
  BY HandlerFinds
<1>2. PICK stage \in Stage : stage = IF pause THEN "other" ELSE "sheet"
  BY DEF Stage
<1>3. job' \in JobRow
  <2>1. job' = Released(Stopped(pause), stage, ~pause)
    BY <1>1, <1>2 DEF HandleSheetsFailure
  <2> QED
    BY <2>1, StoppedTyped, ReleasedTyped DEF CrawlInv, TypeOK
<1>4. PICK p \in Partition \cup {None} : Marked(p, PartStopped(pause))
  <2>1. PICK g \in Received :
            Marked(IF run[r].part = None THEN g[1] ELSE run[r].part, PartStopped(pause))
    BY <1>1 DEF HandleSheetsFailure
  <2>2. (IF run[r].part = None THEN g[1] ELSE run[r].part) \in Partition \cup {None}
    BY HandlerFinds, PageParts DEF Received
  <2> QED
    BY <2>1, <2>2
<1>5. Keeps /\ partition' \in [Partition -> PartitionRow]
  BY <1>4, StoppedTyped, MarkedKeeps DEF CrawlInv, TypeOK
<1> QED
  BY <1>3, <1>5, HandlerStep DEF HandleSheetsFailure

LEMMA HandleBusinessStep ==
    ASSUME CrawlInv, NEW r \in Run, HandleBusiness(r)
    PROVE  CrawlInv'
<1>1. PICK limit \in BOOLEAN : limit <=> run[r].tries >= BusinessMax
  BY Zenon
<1>2. PICK pause \in BOOLEAN : pause = (run[r].pause \/ limit)
  BY Zenon
<1>3. PICK stage \in Stage : stage = IF limit THEN "limit" ELSE "other"
  BY DEF Stage
<1>4. job' \in JobRow
  <2>1. job' = Released(Stopped(pause), stage, ~pause)
    BY <1>1, <1>2, <1>3 DEF HandleBusiness
  <2> QED
    BY <2>1, StoppedTyped, ReleasedTyped DEF CrawlInv, TypeOK
<1>5. PICK p \in Partition : p = run[r].part
  BY DEF CrawlInv, RunsOK, RunOK, HandleBusiness, ErrorEnds
<1>6. PICK tries \in Nat : tries = run[r].tries
  BY HandlerFinds
<1>7. PICK triesPage \in Nat : triesPage = partition[p].pages + 1
  BY DEF CrawlInv, TypeOK, PartitionRow
<1>8. PICK status \in PartitionStatus \ {"COMPLETE"} : status = PartStopped(pause)
  BY StoppedTyped
<1>9. partition' = [partition EXCEPT ![p].status = status, ![p].tries = tries,
                                     ![p].triesPage = triesPage]
  BY <1>1, <1>2, <1>5, <1>6, <1>7, <1>8 DEF HandleBusiness
<1>10. Keeps /\ partition' \in [Partition -> PartitionRow]
  BY <1>9, StatusKeeps DEF CrawlInv, TypeOK
<1> QED
  BY <1>4, <1>10, HandlerStep DEF HandleBusiness

LEMMA HandleTemporaryStep ==
    ASSUME CrawlInv, NEW r \in Run, HandleTemporary(r)
    PROVE  CrawlInv'
<1>1. PICK pause \in BOOLEAN : pause = run[r].pause
  BY HandlerFinds
<1>2. job' \in JobRow
  BY <1>1, StoppedTyped, ReleasedTyped DEF HandleTemporary, CrawlInv, TypeOK, Stage
<1>3. Keeps /\ partition' \in [Partition -> PartitionRow]
  BY <1>1, HandlerFinds, StoppedTyped, MarkedKeeps DEF HandleTemporary, CrawlInv, TypeOK
<1> QED
  BY <1>2, <1>3, HandlerStep DEF HandleTemporary

LEMMA HandleFatalStep ==
    ASSUME CrawlInv, NEW r \in Run, HandleFatal(r)
    PROVE  CrawlInv'
<1>1. job' \in JobRow
  BY DEF CrawlInv, TypeOK, HandleFatal, JobRow, JobState, Stage
<1>2. "ERROR" \in PartitionStatus \ {"COMPLETE"}
  BY DEF PartitionStatus
<1>3. Keeps /\ partition' \in [Partition -> PartitionRow]
  BY <1>2, HandlerFinds, MarkedKeeps DEF HandleFatal, CrawlInv, TypeOK
<1> QED
  BY <1>1, <1>3, HandlerStep DEF HandleFatal

-----------------------------------------------------------------------------
(* The operator's requests *)

LEMMA AskStep ==
    ASSUME CrawlInv, NEW request \in Request, Ask(request)
    PROVE  CrawlInv'
<1>1. EnvironmentTyped
  BY CreatorSyncAssumption DEF CrawlInv, TypeOK, Ask, EnvironmentTyped
<1>2. Keeps /\ Moves
  BY DEF Keeps, Moves, Ask
<1> QED
  BY <1>1, <1>2, PartitionStep DEF CrawlInv, TypeOK, Ask, sheet

LEMMA ReadsTyped ==
    ASSUME TypeOK, NEW pc \in {"pause", "resume", "initialize"}
    PROVE  Reads(pc) \in Request
BY DEF TypeOK, Reads, NoRequest, Request, JobRow

LEMMA ReadSteps ==
    ASSUME CrawlInv, PauseRead \/ ResumeRead \/ InitializeRead
    PROVE  CrawlInv'
<1>1. Reads("pause") \in Request /\ Reads("initialize") \in Request
  BY ReadsTyped DEF CrawlInv
<1>2. CASE PauseRead \/ InitializeRead
  BY <1>1, <1>2, AskStep DEF PauseRead, InitializeRead
<1>3. CASE ResumeRead
  <2>1. PICK x \in Request : x = Reads("resume")
    BY ReadsTyped DEF CrawlInv
  <2>2. [x EXCEPT !.pending = Received # {}, !.limit = job.stage = "limit"] \in Request
    BY DEF Request
  <2> QED
    BY <1>3, <2>1, <2>2, AskStep DEF ResumeRead
<1> QED
  BY <1>2, <1>3

LEMMA AnsweredStep ==
    ASSUME CrawlInv, Answered, job' \in JobRow, overlapped' \in BOOLEAN,
           Keeps /\ partition' \in [Partition -> PartitionRow]
    PROVE  CrawlInv'
<1>1. NoRequest \in Request
  BY DEF NoRequest, Request
<1>2. overtaken' \in BOOLEAN
  BY DEF Answered
<1>3. EnvironmentTyped
  BY <1>1, <1>2 DEF CrawlInv, TypeOK, Answered, EnvironmentTyped
<1>4. Moves /\ UNCHANGED <<receipt, rows>> /\ run' \in [Run -> RunState]
  BY DEF Moves, Answered, CrawlInv, TypeOK, sheet
<1> QED
  BY <1>3, <1>4, PartitionStep

LEMMA PauseWriteStep ==
    ASSUME CrawlInv, PauseWrite
    PROVE  CrawlInv'
<1>1. job' \in JobRow /\ overlapped' \in BOOLEAN
  BY DEF CrawlInv, TypeOK, PauseWrite, JobRow, JobState, Stage
<1>2. CASE UNCHANGED partition
  <2>1. Keeps
    BY <1>2 DEF Keeps
  <2> QED
    BY <1>1, <1>2, <2>1, AnsweredStep DEF CrawlInv, TypeOK, PauseWrite
<1>3. ASSUME NEW p \in Partition \cup {None}, Marked(p, "PAUSED")
      PROVE  CrawlInv'
  <2>1. "PAUSED" \in PartitionStatus \ {"COMPLETE"}
    BY DEF PartitionStatus
  <2>2. Keeps /\ partition' \in [Partition -> PartitionRow]
    BY <1>3, <2>1, MarkedKeeps DEF CrawlInv, TypeOK
  <2> QED
    BY <1>1, <2>2, AnsweredStep DEF PauseWrite
<1>4. operator.current \in Partition \cup {None}
  BY DEF CrawlInv, TypeOK, Request
<1> QED
  BY <1>2, <1>3, <1>4 DEF PauseWrite

LEMMA ResumeWriteStep ==
    ASSUME CrawlInv, ResumeWrite
    PROVE  CrawlInv'
<1>1. job' \in JobRow /\ overlapped' \in BOOLEAN
  BY DEF CrawlInv, TypeOK, ResumeWrite, JobRow, JobState, Stage
<1>2. CASE UNCHANGED partition
  <2>1. Keeps
    BY <1>2 DEF Keeps
  <2> QED
    BY <1>1, <1>2, <2>1, AnsweredStep DEF CrawlInv, TypeOK, ResumeWrite
<1>3. CASE operator.current # None /\ ~UNCHANGED partition
  <2>1. PICK p \in Partition : p = operator.current
    BY <1>3 DEF CrawlInv, TypeOK, Request
  <2>2. PICK tries \in Nat : tries = IF operator.limit THEN 0 ELSE partition[p].tries
    BY DEF CrawlInv, TypeOK, PartitionRow
  <2>3. PICK triesPage \in Nat :
            triesPage = IF operator.limit THEN 0 ELSE partition[p].triesPage
    BY DEF CrawlInv, TypeOK, PartitionRow
  <2>4. partition' = [partition EXCEPT ![p].status = "RUNNING", ![p].tries = tries,
                                       ![p].triesPage = triesPage]
    BY <1>3, <2>1, <2>2, <2>3 DEF CrawlInv, TypeOK, ResumeWrite
  <2>5. "RUNNING" \in PartitionStatus \ {"COMPLETE"}
    BY DEF PartitionStatus
  <2>6. Keeps /\ partition' \in [Partition -> PartitionRow]
    BY <2>4, <2>5, StatusKeeps DEF CrawlInv, TypeOK
  <2> QED
    BY <1>1, <2>6, AnsweredStep DEF ResumeWrite
<1> QED
  BY <1>2, <1>3 DEF ResumeWrite

LEMMA InitializeWriteStep ==
    ASSUME CrawlInv, InitializeWrite
    PROVE  CrawlInv'
<1>1. job' \in JobRow /\ overlapped' \in BOOLEAN
  BY DEF CrawlInv, TypeOK, InitializeWrite, JobRow, JobState, Stage
<1>2. Keeps /\ partition' \in [Partition -> PartitionRow]
  BY DEF CrawlInv, TypeOK, InitializeWrite, Keeps
<1> QED
  BY <1>1, <1>2, AnsweredStep DEF InitializeWrite

-----------------------------------------------------------------------------
(* Steps that change a receipt or the Sheet *)

LEMMA ShelfStep ==
    ASSUME CrawlInv, EnvironmentTyped, Moves /\ run' \in [Run -> RunState],
           receipt' \in [Page -> ReceiptRow], rows' \in [Page -> Nat],
           Grows, Follows, UNCHANGED <<job, partition>>
    PROVE  CrawlInv'
<1>1. TypeOK'
  BY DEF CrawlInv, TypeOK, EnvironmentTyped
<1>2. Keeps
  BY DEF Keeps
<1> QED
  BY <1>1, <1>2, Preserved

\* A run on its page.
LEMMA OnPage ==
    ASSUME CrawlInv, NEW r \in Run, run[r].pc \in PagePC
    PROVE  \E p \in Partition : \E n \in 1..LastPage[p] :
               /\ PageOf(r) = <<p, n>>
               /\ <<p, n>> \in Page
               /\ SavedBefore(p, n)
<1>1. RunOK(run[r])
  BY DEF CrawlInv, RunsOK
<1>2. PICK p \in Partition : p = run[r].part
  BY <1>1 DEF RunOK
<1>3. PICK n \in 1..LastPage[p] : n = run[r].n
  BY <1>1, <1>2 DEF RunOK
<1> QED
  BY <1>1, <1>2, <1>3, PageKey DEF RunOK, PageOf

LEMMA StageReceiptStep ==
    ASSUME CrawlInv, NEW r \in Run, StageReceipt(r)
    PROVE  CrawlInv'
<1>1. EnvironmentTyped /\ UNCHANGED <<job, partition, rows>>
  BY DEF CrawlInv, TypeOK, StageReceipt, EnvironmentTyped, environment
<1>2. run[r].pc \in PagePC /\ "load" \in PagePC /\ "load" \notin PersistedPC
  BY DEF StageReceipt, PagePC, PersistedPC
<1>3. PICK p \in Partition : \E n \in 1..LastPage[p] :
          /\ PageOf(r) = <<p, n>>
          /\ <<p, n>> \in Page
          /\ SavedBefore(p, n)
  BY <1>2, OnPage
<1>4. PICK n \in 1..LastPage[p] :
          /\ PageOf(r) = <<p, n>>
          /\ <<p, n>> \in Page
          /\ SavedBefore(p, n)
  BY <1>3
<1>5. \/ receipt' = receipt
      \/ /\ receipt[<<p, n>>].state # "COMMITTED"
         /\ receipt' = [receipt EXCEPT ![<<p, n>>].state = "RECEIVED"]
  BY <1>4 DEF StageReceipt, PageOf
<1>7. receipt' \in [Page -> ReceiptRow]
  BY <1>4, <1>5 DEF CrawlInv, TypeOK, ReceiptRow
<1>8. Grows
  <2>1. CASE receipt' = receipt
    BY <1>1, <2>1, QuietGrows DEF CrawlInv
  <2>2. CASE receipt' # receipt
    BY <1>1, <1>4, <1>5, <2>2 DEF CrawlInv, TypeOK, ReceiptRow, Grows
  <2> QED
    BY <2>1, <2>2
<1>9. Follows
  <2> SUFFICES ASSUME NEW g \in Page, receipt'[g].state # "none",
                      receipt[g].state = "none"
               PROVE  SavedBefore(g[1], g[2])
    BY DEF Follows
  <2>1. g = <<p, n>>
    BY <1>4, <1>5 DEF CrawlInv, TypeOK
  <2> QED
    BY <1>4, <2>1
<1>10. Moves /\ run' \in [Run -> RunState]
  BY <1>1, <1>2, <1>8, GotoOnPage DEF StageReceipt, CrawlInv, TypeOK
<1> QED
  BY <1>1, <1>7, <1>8, <1>9, <1>10, ShelfStep DEF CrawlInv, TypeOK

LEMMA PersistStep ==
    ASSUME CrawlInv, NEW r \in Run, Persist(r)
    PROVE  CrawlInv'
<1>1. EnvironmentTyped /\ UNCHANGED <<job, partition, rows>>
  BY DEF CrawlInv, TypeOK, Persist, EnvironmentTyped, environment
<1>2. run[r].pc \in PagePC /\ "attempt" \in PagePC
  BY DEF Persist, PagePC
<1>3. PICK g \in Page : g = PageOf(r)
  BY <1>2, OnPage
<1>4. receipt' = [receipt EXCEPT ![g].persisted = TRUE]
  BY <1>3 DEF Persist
<1>5. receipt' \in [Page -> ReceiptRow] /\ receipt'[g].persisted
  BY <1>4 DEF CrawlInv, TypeOK, ReceiptRow
<1>6. Grows
  BY <1>1, <1>4 DEF CrawlInv, TypeOK, ReceiptRow, Grows
<1>7. Follows
  BY <1>4 DEF CrawlInv, TypeOK, ReceiptRow, Follows
<1>8. Moves /\ run' \in [Run -> RunState]
  <2>1. receipt'[PageOf(r)].persisted
    BY <1>3, <1>5
  <2> QED
    BY <1>1, <1>2, <1>6, <2>1, GotoOnPage DEF Persist, CrawlInv, TypeOK
<1> QED
  BY <1>1, <1>5, <1>6, <1>7, <1>8, ShelfStep DEF CrawlInv, TypeOK

\* A write adds a row to the page or leaves the Sheet as it is.
LEMMA AfterWriteGrows ==
    ASSUME CrawlInv, NEW r \in Run, run[r].pc = "write",
           rows' \in {rows, AfterWrite(r)}, UNCHANGED receipt
    PROVE  /\ rows' \in [Page -> Nat]
           /\ Grows
           /\ rows' = AfterWrite(r) => rows'[PageOf(r)] > 0
<1>1. run[r].pc \in PagePC
  BY DEF PagePC
<1>2. PICK g \in Page : g = PageOf(r)
  BY <1>1, OnPage
<1>3. rows[g] \in Nat
  BY DEF CrawlInv, TypeOK
<1>4. rows' = rows \/ rows' = [rows EXCEPT ![g] = rows[g] + 1]
  BY <1>2 DEF AfterWrite, CrawlInv, TypeOK
<1>5. rows' \in [Page -> Nat]
  BY <1>3, <1>4 DEF CrawlInv, TypeOK
<1>6. Grows
  BY <1>4 DEF CrawlInv, TypeOK, Grows
<1>7. ASSUME rows' = AfterWrite(r) PROVE rows'[g] > 0
  <2>1. CASE run[r].add
    BY <1>2, <1>3, <1>7, <2>1 DEF AfterWrite, CrawlInv, TypeOK
  <2>2. CASE ~run[r].add
    BY <1>2, <1>7, <2>2 DEF AfterWrite, CrawlInv, RunsOK, RunOK, PageOf
  <2> QED
    BY <2>1, <2>2
<1> QED
  BY <1>2, <1>5, <1>6, <1>7

LEMMA WriteSheetStep ==
    ASSUME CrawlInv, NEW r \in Run, WriteSheet(r)
    PROVE  CrawlInv'
<1>1. EnvironmentTyped /\ UNCHANGED <<job, partition, receipt>>
  BY DEF CrawlInv, TypeOK, WriteSheet, EnvironmentTyped, environment
<1>2. run[r].pc = "write" /\ rows' = AfterWrite(r)
  BY DEF WriteSheet
<1>3. rows' \in [Page -> Nat] /\ Grows /\ rows'[PageOf(r)] > 0
  BY <1>1, <1>2, AfterWriteGrows
<1>4. receipt'[PageOf(r)].persisted
  BY <1>1, <1>2 DEF CrawlInv, RunsOK, RunOK, PersistedPC, PageOf
<1>5. run[r].pc \in PagePC /\ "commit" \in PagePC
  BY <1>2 DEF PagePC
<1>6. Moves /\ run' \in [Run -> RunState]
  BY <1>3, <1>4, <1>5, GotoOnPage DEF WriteSheet
<1>7. Follows
  BY <1>1 DEF Follows
<1> QED
  BY <1>1, <1>3, <1>6, <1>7, ShelfStep DEF CrawlInv, TypeOK

\* A failure or the death of a run, in the middle of a write or not.
LEMMA BreakSteps ==
    ASSUME CrawlInv, NEW r \in Run, Fails(r) \/ Dies(r)
    PROVE  CrawlInv'
<1>1. EnvironmentTyped /\ UNCHANGED <<job, partition, receipt>>
  <2>1. faults' \in 0..MaxFaults
    BY CreatorSyncAssumption DEF CrawlInv, TypeOK, Fails, Dies, Fault
  <2> QED
    BY <2>1 DEF CrawlInv, TypeOK, Fails, Dies, EnvironmentTyped, environment
<1>2. rows' \in [Page -> Nat] /\ Grows
  <2>1. CASE run[r].pc = "write"
    BY <1>1, <2>1, AfterWriteGrows DEF Fails, Dies
  <2>2. CASE run[r].pc # "write"
    BY <1>1, <2>2, QuietGrows DEF Fails, Dies, CrawlInv
  <2> QED
    BY <2>1, <2>2
<1>3. Follows
  BY <1>1 DEF Follows
<1>4. Moves /\ run' \in [Run -> RunState]
  <2>1. CASE Fails(r)
    <3>1. \E kind \in ErrorKind : ThrowAs(r, kind)
      BY <2>1 DEF Fails, ErrorKind
    <3> QED
      BY <3>1, ThrowElsewhere DEF CrawlInv
  <2>2. CASE Dies(r)
    BY <2>2, IdleElsewhere DEF Dies, CrawlInv
  <2> QED
    BY <2>1, <2>2
<1> QED
  BY <1>1, <1>2, <1>3, <1>4, ShelfStep DEF CrawlInv, TypeOK

-----------------------------------------------------------------------------
(* The transaction that commits a page and moves the cursor *)

\* What Advanced does to a partition that has a page n.
LEMMA AdvancedPage ==
    ASSUME partition \in [Partition -> PartitionRow], NEW p \in Partition,
           NEW n \in 1..LastPage[p], NEW pause \in BOOLEAN
    PROVE  \E st \in [Partition -> PartitionRow] :
               /\ st = Advanced(<<p, n>>, pause)
               /\ \A q \in Partition \ {p} :
                      /\ st[q].cursor = partition[q].cursor
                      /\ st[q].status = "COMPLETE" => partition[q].status = "COMPLETE"
               /\ \/ n < LastPage[p] /\ st[p].cursor = n /\ st[p].status # "COMPLETE"
                  \/ n = LastPage[p] /\ st[p].cursor = 0
<1>1. n \in Nat /\ LastPage[p] \in Nat \ {0} /\ n <= LastPage[p]
  BY CreatorSyncAssumption
<1>2. CASE n < LastPage[p]
  <2>1. PICK status \in PartitionStatus \ {"COMPLETE"} :
            status = IF pause THEN "PAUSED" ELSE "RUNNING"
    BY DEF PartitionStatus
  <2>2. PICK pages \in Nat : pages = partition[p].pages + 1
    BY DEF PartitionRow
  <2>3. PICK st \in [Partition -> PartitionRow] :
            st = [partition EXCEPT ![p].cursor = n, ![p].pages = pages,
                                   ![p].status = status]
    BY <1>1 DEF PartitionRow
  <2>4. st = Advanced(<<p, n>>, pause)
    BY <1>2, <2>1, <2>2, <2>3 DEF Advanced, AdvancedCursor, PartitionRow
  <2>5. /\ \A q \in Partition \ {p} : st[q] = partition[q]
        /\ st[p].cursor = n
        /\ st[p].status = status
    BY <2>3 DEF PartitionRow
  <2> QED
    BY <1>2, <2>4, <2>5
<1>3. CASE n = LastPage[p]
  <2>1. PICK pages \in Nat : pages = partition[p].pages + 1
    BY DEF PartitionRow
  <2>2. PICK a \in [Partition -> PartitionRow] :
            a = [partition EXCEPT ![p].status = "COMPLETE", ![p].cursor = 0,
                                  ![p].pages = pages]
    BY DEF PartitionRow, PartitionStatus
  <2>3. a[p].cursor = 0 /\ \A q \in Partition \ {p} : a[q] = partition[q]
    BY <2>2 DEF PartitionRow
  <2>4. ExpandReadyBranches(a) = Advanced(<<p, n>>, pause)
    BY <1>3, <2>1, <2>2 DEF Advanced, PartitionRow
  <2> QED
    BY <1>3, <2>3, <2>4, ExpandKeeps
<1> QED
  BY <1>1, <1>2, <1>3

LEMMA CommitWriteStep ==
    ASSUME CrawlInv, NEW r \in Run, CommitWrite(r)
    PROVE  CrawlInv'
<1>1. EnvironmentTyped /\ UNCHANGED rows
  BY DEF CrawlInv, TypeOK, CommitWrite, EnvironmentTyped, environment
<1>2. run[r].pc = "committing" /\ run[r].pc \in PagePC
  BY DEF CommitWrite, PagePC
<1>3. PICK p \in Partition : \E n \in 1..LastPage[p] :
          /\ PageOf(r) = <<p, n>>
          /\ <<p, n>> \in Page
          /\ SavedBefore(p, n)
  BY <1>2, OnPage
<1>4. PICK n \in 1..LastPage[p] :
          /\ PageOf(r) = <<p, n>>
          /\ <<p, n>> \in Page
          /\ SavedBefore(p, n)
  BY <1>3
<1>5. receipt[<<p, n>>].persisted /\ rows[<<p, n>>] > 0
  BY <1>2, <1>4 DEF CrawlInv, RunsOK, RunOK, PersistedPC, PageOf
<1>6. PICK pause \in BOOLEAN : pause = run[r].pause
  BY HandlerFinds
<1>7. receipt' = [receipt EXCEPT ![<<p, n>>].state = "COMMITTED"]
  BY <1>4 DEF CommitWrite
<1>8. receipt' \in [Page -> ReceiptRow] /\ Grows /\ Saved(<<p, n>>)'
  <2>1. receipt' \in [Page -> ReceiptRow]
    BY <1>7 DEF CrawlInv, TypeOK, ReceiptRow
  <2>2. Grows
    BY <1>1, <1>7 DEF CrawlInv, TypeOK, ReceiptRow, Grows
  <2>3. Saved(<<p, n>>)'
    BY <1>1, <1>4, <1>5, <1>7 DEF CrawlInv, TypeOK, ReceiptRow, Saved
  <2> QED
    BY <2>1, <2>2, <2>3
<1>9. Follows
  <2> SUFFICES ASSUME NEW g \in Page, receipt'[g].state # "none",
                      receipt[g].state = "none"
               PROVE  SavedBefore(g[1], g[2])
    BY DEF Follows
  <2>1. g = <<p, n>>
    BY <1>4, <1>7 DEF CrawlInv, TypeOK
  <2> QED
    BY <1>4, <2>1
<1>10. rows \in [Page -> Nat] /\ rows' \in [Page -> Nat]
  BY <1>1 DEF CrawlInv, TypeOK
<1>11. Moves /\ run' \in [Run -> RunState]
  BY IdleElsewhere DEF CommitWrite, CrawlInv
<1>12. RunsOK' /\ Behind'
  BY <1>8, <1>9, <1>10, <1>11, RunsAndReceipts
<1>13. \A m \in 1..n : Saved(<<p, m>>)'
  <2>1. SavedBefore(p, n)'
    BY <1>4, <1>8, <1>10, BeforeStays
  <2>2. \A m \in 1..n : m = n \/ m \in 1..(n - 1)
    BY CreatorSyncAssumption
  <2> QED
    BY <1>8, <2>1, <2>2 DEF SavedBefore
<1>14. PICK st \in [Partition -> PartitionRow] :
           /\ st = Advanced(<<p, n>>, pause)
           /\ \A q \in Partition \ {p} :
                  /\ st[q].cursor = partition[q].cursor
                  /\ st[q].status = "COMPLETE" => partition[q].status = "COMPLETE"
           /\ \/ n < LastPage[p] /\ st[p].cursor = n /\ st[p].status # "COMPLETE"
              \/ n = LastPage[p] /\ st[p].cursor = 0
  BY AdvancedPage DEF CrawlInv, TypeOK
<1>15. partition' = st
  BY <1>4, <1>6, <1>14 DEF CommitWrite
<1>16. CursorInRange'
  <2>1. LastPage[p] \in Nat \ {0}
    BY CreatorSyncAssumption
  <2> QED
    BY <1>14, <1>15, <2>1 DEF CrawlInv, CursorInRange
<1>17. NothingSkipped'
  <2> SUFFICES ASSUME NEW q \in Partition
               PROVE  /\ \A m \in 1..partition'[q].cursor : Saved(<<q, m>>)'
                      /\ partition'[q].status = "COMPLETE" =>
                             \A m \in 1..LastPage[q] : Saved(<<q, m>>)'
    BY DEF NothingSkipped
  <2>1. CASE q = p
    BY <1>13, <1>14, <1>15, <2>1
  <2>2. CASE q # p
    BY <1>8, <1>10, <1>14, <1>15, <2>2, PartitionStaysSaved
  <2> QED
    BY <2>1, <2>2
<1>18. job' \in JobRow
  <2> DEFINE more == n < LastPage[p]
             goOn == more \/ Queued(Advanced(<<p, n>>, pause)) # {}
  <2>1. PICK state \in JobState :
            state = IF pause THEN "PAUSED" ELSE IF goOn THEN "RUNNING" ELSE "EXHAUSTED"
    BY DEF JobState
  <2>2. PICK next \in Partition \cup {None} : next = IF more THEN p ELSE None
    OBVIOUS
  <2>3. PICK wait \in BOOLEAN : wait = (~pause /\ goOn)
    BY Zenon
  <2>4. PICK pages \in Nat : pages = job.pages + 1
    BY DEF CrawlInv, TypeOK, JobRow
  <2>5. \/ job' = [job EXCEPT !.state = state, !.stage = "other",
                              !.pauseRequested = FALSE, !.current = next,
                              !.waiting = wait, !.lease = None,
                              !.expired = FALSE, !.pages = pages]
        \/ job' = job
    BY <1>4, <1>6, <2>1, <2>2, <2>3, <2>4 DEF CommitWrite
  <2>6. job \in JobRow /\ "other" \in Stage
    BY DEF CrawlInv, TypeOK, Stage
  <2> QED
    BY <2>5, <2>6 DEF JobRow
<1>19. TypeOK'
  BY <1>8, <1>10, <1>11, <1>15, <1>18 DEF CrawlInv, TypeOK, CommitWrite, environment
<1> QED
  BY <1>12, <1>16, <1>17, <1>19 DEF CrawlInv

-----------------------------------------------------------------------------
(* The theorems *)

LEMMA Initially == Init => CrawlInv
<1> SUFFICES ASSUME Init PROVE CrawlInv
  OBVIOUS
<1>1. TypeOK
  <2>1. job \in JobRow
    BY DEF Init, JobRow, JobState, Stage
  <2>2. partition \in [Partition -> PartitionRow]
    BY DEF Init, Waiting, PartitionRow, PartitionStatus
  <2>3. receipt \in [Page -> ReceiptRow] /\ rows \in [Page -> Nat]
    BY DEF Init, ReceiptRow
  <2>4. run \in [Run -> RunState]
    BY DEF Init, Idle, RunState, RunPC, ErrorKind
  <2>5. operator \in Request
    BY DEF Init, NoRequest, Request
  <2>6. faults \in 0..MaxFaults /\ commands \in 0..MaxCommands
    BY CreatorSyncAssumption DEF Init
  <2> QED
    BY <2>1, <2>2, <2>3, <2>4, <2>5, <2>6 DEF Init, TypeOK
<1>2. RunsOK
  BY DEF Init, Idle, RunsOK, RunOK, PagePC, PersistedPC
<1>3. Behind
  BY DEF Init, Behind
<1>4. \A p \in Partition : partition[p].cursor = 0 /\ partition[p].status # "COMPLETE"
  BY DEF Init, Waiting
<1>5. CursorInRange
  BY <1>4, CreatorSyncAssumption DEF CursorInRange
<1>6. NothingSkipped
  BY <1>4 DEF NothingSkipped
<1> QED
  BY <1>1, <1>2, <1>3, <1>5, <1>6 DEF CrawlInv

LEMMA Stuttering ==
    ASSUME CrawlInv, UNCHANGED vars
    PROVE  CrawlInv'
<1>1. Quiet /\ job' \in JobRow /\ Moves /\ run' \in [Run -> RunState]
  BY DEF CrawlInv, TypeOK, vars, Quiet, Moves
<1> QED
  BY <1>1, QuietStep DEF Quiet

LEMMA Inductive == CrawlInv /\ [Next]_vars => CrawlInv'
<1> SUFFICES ASSUME CrawlInv, [Next]_vars PROVE CrawlInv'
  OBVIOUS
<1>1. ASSUME NEW r \in Run, Step(r) PROVE CrawlInv'
  BY <1>1, ClaimSteps, StartStep, ImportStep, PauseClaimedStep, ChooseReadStep,
     ChooseWriteStep, ReadyStep, BeginStep, SearchAnsweredStep, StageReceiptStep,
     LoadStep, PersistStep, AttemptStep, ReadSheetStep, WriteSheetStep,
     CommitReadStep, CommitWriteStep, ErrorReadStep, HandleSheetsFailureStep,
     HandleNoPageStep, HandleBusinessStep, HandleTemporaryStep, HandleFatalStep
  DEF Step
<1>2. ASSUME NEW r \in Run, Breaks(r) PROVE CrawlInv'
  BY <1>2, SearchRefusedStep, BreakSteps DEF Breaks
<1>3. CASE ExpireLease \/ Elapse
  BY <1>3, TimeSteps
<1>4. CASE Command
  BY <1>4, ReadSteps, PauseWriteStep, ResumeWriteStep, InitializeWriteStep DEF Command
<1>5. CASE UNCHANGED vars
  BY <1>5, Stuttering
<1> QED
  BY <1>1, <1>2, <1>3, <1>4, <1>5 DEF Next

THEOREM CrawlInvariant == Spec => []CrawlInv
BY Initially, Inductive, PTL DEF Spec

\* The rows, the receipts, the Sheet and every run of processNext have their
\* types in every reachable state.
THEOREM CrawlTyped == Spec => []TypeOK
<1>1. CrawlInv => TypeOK
  BY DEF CrawlInv
<1> QED
  BY <1>1, CrawlInvariant, PTL

\* The cursor of a partition never passes a page that is not in PostgreSQL and
\* in the Sheet with its receipt committed, and no partition is complete before
\* all its pages are: for any number of runs that overlap, with or without the
\* lease, and whatever fails in between (commitPage).
THEOREM NoPageSkipped == Spec => []NothingSkipped
<1>1. CrawlInv => NothingSkipped
  BY DEF CrawlInv
<1> QED
  BY <1>1, CrawlInvariant, PTL

-----------------------------------------------------------------------------
(* As long as no run goes on without its lease: one run at a time *)

\* A run is at work only with the lease ...
LeaseOwned == \A r \in Run : Working(r) => Holds(r) /\ ~job.expired

\* ... at most one page is staged, and it is one of the current partition.
OneStaged ==
    \A g \in Received : g[1] = job.current /\ \A h \in Received : g = h

\* Between the look at the staged pages and the receipt of a new one.
FreshPC == {"import", "choose", "choosing", "pausing", "ready", "begin",
            "search", "stage"}

\* Between the look at the receipt and its commit.
StagedPC == {"persist", "attempt", "reconcile", "write", "commit", "committing"}

\* What a run has read still holds when it uses it.
RunFits(x) ==
    /\ x.pc \in {"idle", "seen", "start", "import", "choose", "choosing"} => x.part = None
    /\ x.pc \in FreshPC => Received = {}
    /\ x.pc = "pausing" => x.part \in {None, job.current}
    /\ x.pc \in PagePC \cup {"failing"} => x.part = job.current
    /\ x.pc \in StagedPC => receipt[<<x.part, x.n>>].state = "RECEIVED"
    /\ x.pc = "write" /\ x.add => rows[<<x.part, x.n>>] = 0

SheetOnce == \A g \in Page : rows[g] <= 1

AllCommitted == {g \in Page : receipt[g].state = "COMMITTED"}

CountsOK ==
    /\ IsFiniteSet(AllCommitted)
    /\ \A p \in Partition : partition[p].pages = Cardinality(Committed(p))
    /\ job.pages = Cardinality(AllCommitted)

Alone ==
    /\ LeaseOwned
    /\ OneStaged
    /\ \A r \in Run : RunFits(run[r])
    /\ SheetOnce
    /\ CountsOK

\* The other runs wait for the lease.
LEMMA Sole ==
    ASSUME LeaseOwned, NEW r \in Run, Working(r), NEW q \in Run, q # r
    PROVE  ~Working(q)
BY DEF LeaseOwned, Holds

\* The rest of the runs stay as they are.
Rest(r) == \A q \in Run : q # r => run'[q] = run[q]

\* What a step makes of the run that takes it.
LEMMA GotoRun ==
    ASSUME TypeOK, NEW r \in Run, NEW pc, Goto(r, pc)
    PROVE  /\ Rest(r) /\ run'[r].pc = pc
           /\ run'[r].part = run[r].part /\ run'[r].n = run[r].n
           /\ run'[r].add = run[r].add /\ run'[r].error = run[r].error
<1>1. run \in [Run -> RunState] /\ run[r] \in RunState
  BY DEF TypeOK
<1>2. run' = [run EXCEPT ![r] = [run[r] EXCEPT !.pc = pc]]
  BY DEF Goto
<1> QED
  BY <1>1, <1>2 DEF RunState, Rest

LEMMA IdleRun ==
    ASSUME TypeOK, NEW r \in Run, run' = [run EXCEPT ![r] = Idle]
    PROVE  Rest(r) /\ ~Working(r)' /\ RunFits(run'[r])
<1>1. run'[r] = Idle
  BY DEF TypeOK
<1>2. RunFits(Idle)
  BY DEF Idle, RunFits, FreshPC, PagePC, StagedPC
<1> QED
  BY <1>1, <1>2 DEF TypeOK, Rest, Working, Idle

\* A run that waits for the lease depends on nothing.
LEMMA WaitingFits ==
    ASSUME NEW q \in Run, ~Working(q), RunFits(run[q]), run'[q] = run[q]
    PROVE  RunFits(run[q])' /\ ~Working(q)'
BY DEF Working, RunFits, FreshPC, PagePC, StagedPC

LEMMA RunAlone ==
    ASSUME Alone, NEW r \in Run, Working(r), Rest(r),
           ~Working(r)' \/ (Holds(r)' /\ ~job'.expired), RunFits(run[r])'
    PROVE  LeaseOwned' /\ \A q \in Run : RunFits(run[q])'
<1>1. ASSUME NEW q \in Run, q # r PROVE RunFits(run[q])' /\ ~Working(q)'
  BY <1>1, Sole, WaitingFits DEF Alone, Rest
<1> QED
  BY <1>1 DEF LeaseOwned

\* No page is counted.
Uncounted ==
    /\ \A g \in Page : receipt'[g].state = "COMMITTED" <=> receipt[g].state = "COMMITTED"
    /\ \A p \in Partition : partition'[p].pages = partition[p].pages
    /\ job'.pages = job.pages

LEMMA CountsKept ==
    ASSUME CountsOK, Uncounted
    PROVE  CountsOK'
<1>1. AllCommitted' = AllCommitted
  BY DEF AllCommitted, Uncounted
<1>2. \A p \in Partition : Committed(p)' = Committed(p)
  BY DEF Committed, Uncounted
<1> QED
  BY <1>1, <1>2 DEF CountsOK, Uncounted

\* Steps of the run that has the lease, which leave the receipts, the Sheet
\* and the current partition alone.
LEMMA QuietAlone ==
    ASSUME Alone, NEW r \in Run, Working(r), Rest(r),
           UNCHANGED <<receipt, rows>>, job'.current = job.current, job'.pages = job.pages,
           \A p \in Partition : partition'[p].pages = partition[p].pages,
           ~Working(r)' \/ (Holds(r)' /\ ~job'.expired), RunFits(run'[r])
    PROVE  Alone'
<1>1. RunFits(run[r])'
  BY DEF RunFits, Received
<1>2. LeaseOwned' /\ \A q \in Run : RunFits(run[q])'
  BY <1>1, RunAlone
<1>3. OneStaged' /\ SheetOnce'
  BY DEF Alone, OneStaged, SheetOnce, Received
<1>4. CountsOK'
  BY CountsKept DEF Alone, Uncounted
<1> QED
  BY <1>2, <1>3, <1>4 DEF Alone

\* Steps that only move a run, or take the lease for it.
LEMMA AloneClaim ==
    ASSUME CrawlInv, Alone, NEW r \in Run, See(r) \/ Claim(r)
    PROVE  Alone'
<1> USE DEF CrawlInv, TypeOK
<1>1. UNCHANGED <<receipt, rows, partition>> /\ Rest(r) /\ ~Working(r)
  BY GotoRun DEF See, Claim, Working, sheet
<1>2. /\ run'[r].part = run[r].part /\ run'[r].pc \in {"idle", "seen", "start"}
      /\ run[r].part = None
  <2>1. run[r].pc \in {"idle", "seen"} /\ RunFits(run[r])
    BY DEF See, Claim, Alone
  <2>2. run[r].part = None
    BY <2>1 DEF RunFits
  <2> QED
    BY <2>2 DEF See, Claim, Goto, RunState
<1>3. job'.current = job.current /\ job'.pages = job.pages
  BY DEF See, Claim, JobRow
<1>4. \A q \in Run : q # r /\ Working(q) => ~Working(r)' /\ UNCHANGED job
  <2>1. ASSUME NEW q \in Run, Working(q) PROVE ~LeaseFree
    BY <2>1, CreatorSyncAssumption DEF Alone, LeaseOwned, Holds, LeaseFree
  <2>2. ~LeaseFree => UNCHANGED job /\ Goto(r, "idle")
    BY DEF See, Claim
  <2>3. Goto(r, "idle") => ~Working(r)'
    BY GotoRun DEF Working
  <2> QED
    BY <2>1, <2>2, <2>3
<1>5. Working(r)' => Holds(r)' /\ ~job'.expired
  <2>1. Goto(r, "seen") \/ Goto(r, "idle") => ~Working(r)'
    BY GotoRun DEF Working
  <2>2. job' = [job EXCEPT !.state = "RUNNING", !.lease = r, !.expired = FALSE, !.waiting = FALSE]
        => job'.lease = r /\ ~job'.expired
    BY DEF JobRow
  <2> QED
    BY <2>1, <2>2 DEF See, Claim, Holds
<1>6. ASSUME NEW q \in Run, q # r PROVE Working(q)' => Holds(q)' /\ ~job'.expired
  BY <1>1, <1>4, <1>6 DEF Rest, Working, Alone, LeaseOwned, Holds
<1>7. LeaseOwned'
  BY <1>5, <1>6 DEF LeaseOwned
<1>8. ASSUME NEW q \in Run PROVE RunFits(run[q])'
  <2>1. CASE q = r
    BY <1>2, <2>1 DEF RunFits, FreshPC, PagePC, StagedPC
  <2>2. CASE q # r
    BY <1>1, <1>3, <2>2 DEF Rest, Alone, RunFits, Received
  <2> QED
    BY <2>1, <2>2
<1>9. OneStaged' /\ SheetOnce'
  BY <1>1, <1>3 DEF Alone, OneStaged, SheetOnce, Received
<1>10. CountsOK'
  BY <1>1, <1>3, CountsKept DEF Alone, Uncounted
<1> QED
  BY <1>7, <1>8, <1>9, <1>10 DEF Alone

\* What a fenced step writes of the job.
LEMMA FencedJob ==
    ASSUME TypeOK, NEW r \in Run, NEW stage, Fenced(r, stage), ~job.expired
    PROVE  Holds(r)' /\ ~job'.expired /\ job'.current = job.current /\ job'.pages = job.pages
BY DEF TypeOK, Fenced, JobRow, Holds

\* A run goes on or throws, with the lease or without.
LEMMA AloneGoto ==
    ASSUME CrawlInv, Alone, NEW r \in Run, Working(r),
           UNCHANGED <<receipt, rows, job>>,
           \A p \in Partition : partition'[p].pages = partition[p].pages,
           Rest(r), RunFits(run'[r])
    PROVE  Alone'
<1>1. Holds(r)' /\ ~job'.expired
  BY DEF Alone, LeaseOwned, Holds
<1> QED
  BY <1>1, QuietAlone

LEMMA AloneThrow ==
    ASSUME CrawlInv, Alone, NEW r \in Run, Working(r), NEW kind, ThrowAs(r, kind),
           UNCHANGED <<receipt, rows, job>>,
           \A p \in Partition : partition'[p].pages = partition[p].pages
    PROVE  Alone'
<1>1. Rest(r) /\ run'[r].pc = "error"
  BY DEF ThrowAs, Rest, CrawlInv, TypeOK, RunState
<1>2. RunFits(run'[r])
  BY <1>1 DEF RunFits, FreshPC, PagePC, StagedPC
<1> QED
  BY <1>1, <1>2, AloneGoto

\* A run that has the lease is never evicted.
LEMMA NotEvicted ==
    ASSUME Alone, NEW r \in Run, Working(r)
    PROVE  Holds(r) /\ ~Evicted(r) /\ ~job.expired
BY DEF Alone, LeaseOwned, Evicted

LEMMA AloneStart ==
    ASSUME CrawlInv, Alone, NEW r \in Run, Start(r)
    PROVE  Alone'
<1>1. Working(r) /\ UNCHANGED <<receipt, rows, job, partition>>
  BY NotEvicted DEF Start, Working, Evicted, sheet
<1>2. ~Evicted(r) /\ run[r].part = None
  BY <1>1, NotEvicted DEF Start, Alone, RunFits
<1>3. Rest(r) /\ RunFits(run'[r])
  <2>1. ASSUME NEW g \in NextPending,
               run' = [run EXCEPT ![r].pc = "load", ![r].part = g[1], ![r].n = g[2]]
        PROVE  Rest(r) /\ RunFits(run'[r])
    <3>1. run'[r].pc = "load" /\ run'[r].part = g[1] /\ Rest(r)
      BY <2>1 DEF CrawlInv, TypeOK, RunState, Rest
    <3> QED
      BY <3>1 DEF RunFits, Alone, OneStaged, NextPending, FreshPC, StagedPC
  <2>2. ASSUME NextPending = {},
               Goto(r, IF job.imported THEN AfterImport ELSE "import")
        PROVE  Rest(r) /\ RunFits(run'[r])
    <3>1. PICK pc \in {"pausing", "choose", "import"} : Goto(r, pc)
      BY <2>2 DEF AfterImport
    <3>2. Rest(r) /\ run'[r].pc = pc /\ run'[r].part = None
      BY <1>2, <3>1, GotoRun DEF CrawlInv
    <3> QED
      BY <2>2, <3>2 DEF RunFits, NextPending, FreshPC, PagePC, StagedPC
  <2> QED
    BY <1>2, <2>1, <2>2 DEF Start
<1> QED
  BY <1>1, <1>3, AloneGoto

LEMMA AloneImport ==
    ASSUME CrawlInv, Alone, NEW r \in Run, Import(r)
    PROVE  Alone'
<1>1. /\ Working(r) /\ UNCHANGED <<receipt, rows, partition>>
      /\ run[r].part = None /\ Received = {}
  BY DEF Import, Working, sheet, Alone, RunFits, FreshPC
<1>2. /\ Holds(r)' /\ ~job'.expired /\ job'.current = job.current /\ job'.pages = job.pages
      /\ Goto(r, AfterImport)
  BY <1>1, NotEvicted DEF Import, CrawlInv, TypeOK, JobRow, Holds
<1>3. PICK pc \in {"pausing", "choose"} : Goto(r, pc)
  BY <1>2 DEF AfterImport
<1>4. Rest(r) /\ run'[r].pc = pc /\ run'[r].part = None
  BY <1>1, <1>3, GotoRun DEF CrawlInv
<1>5. RunFits(run'[r])
  BY <1>1, <1>4 DEF RunFits, PagePC, StagedPC
<1> QED
  BY <1>1, <1>2, <1>4, <1>5, QuietAlone

\* The end of a run, which leaves the current partition and the pages counted.
LEMMA AloneEnds ==
    ASSUME CrawlInv, Alone, NEW r \in Run, Working(r), run' = [run EXCEPT ![r] = Idle],
           UNCHANGED <<receipt, rows>>, job'.current = job.current, job'.pages = job.pages,
           \A p \in Partition : partition'[p].pages = partition[p].pages
    PROVE  Alone'
BY IdleRun, QuietAlone DEF CrawlInv

\* Writing a status or the retries of a partition counts no page.
LEMMA StatusUncounted ==
    ASSUME TypeOK, NEW p, NEW s
    PROVE  \A q \in Partition : [partition EXCEPT ![p].status = s][q].pages = partition[q].pages
BY DEF TypeOK, PartitionRow

LEMMA AlonePause ==
    ASSUME CrawlInv, Alone, NEW r \in Run, PauseClaimed(r)
    PROVE  Alone'
<1>1. /\ Working(r) /\ UNCHANGED <<receipt, rows>> /\ run' = [run EXCEPT ![r] = Idle]
      /\ \A p \in Partition : partition'[p].pages = partition[p].pages
  BY DEF PauseClaimed, Working, sheet, CrawlInv, TypeOK, PartitionRow
<1>2. job'.current = job.current /\ job'.pages = job.pages
  BY DEF PauseClaimed, CrawlInv, TypeOK, JobRow
<1> QED
  BY <1>1, <1>2, AloneEnds

\* A run that chose a partition works on its next page.
LEMMA ContinuesAlone ==
    ASSUME CrawlInv, NEW r \in Run, NEW p, Continue(r, p)
    PROVE  Rest(r) /\ run'[r].pc = "ready" /\ run'[r].part = p
BY DEF Continue, CrawlInv, TypeOK, RunState, Rest

LEMMA AloneChooseRead ==
    ASSUME CrawlInv, Alone, NEW r \in Run, ChooseRead(r)
    PROVE  Alone'
<1>1. /\ Working(r) /\ UNCHANGED <<receipt, rows, job, partition>>
      /\ run[r].part = None /\ Received = {}
  BY NotEvicted DEF ChooseRead, Working, sheet, Alone, RunFits, FreshPC, Evicted
<1>2. CASE Continue(r, job.current)
  <2>1. PICK p : p = job.current
    OBVIOUS
  <2>2. Rest(r) /\ run'[r].pc = "ready" /\ run'[r].part = job.current
    BY <1>2, <2>1, ContinuesAlone
  <2>3. RunFits(run'[r])
    BY <1>1, <2>2 DEF RunFits, StagedPC
  <2> QED
    BY <1>1, <2>2, <2>3, AloneGoto
<1>3. CASE Goto(r, "choosing")
  <2>1. Rest(r) /\ run'[r].pc = "choosing" /\ run'[r].part = None
    BY <1>1, <1>3, GotoRun DEF CrawlInv
  <2>2. RunFits(run'[r])
    BY <1>1, <2>1 DEF RunFits, PagePC, StagedPC
  <2> QED
    BY <1>1, <2>1, <2>2, AloneGoto
<1> QED
  BY <1>1, <1>2, <1>3, NotEvicted DEF ChooseRead

\* With no page staged, another partition may become the current one.
LEMMA AloneChooseWrite ==
    ASSUME CrawlInv, Alone, NEW r \in Run, ChooseWrite(r)
    PROVE  Alone'
<1>1. /\ Working(r) /\ UNCHANGED <<receipt, rows>> /\ Received = {}
      /\ Holds(r) /\ ~job.expired
  BY NotEvicted DEF ChooseWrite, Working, sheet, Alone, RunFits, FreshPC
<1>2. PICK st : /\ Offers(st)
                /\ \/ /\ partition' = st
                      /\ job' = [job EXCEPT !.state = "EXHAUSTED", !.stage = "other",
                                            !.current = None, !.lease = None,
                                            !.expired = FALSE]
                      /\ run' = [run EXCEPT ![r] = Idle]
                   \/ \E p \in Partition :
                      /\ partition' = Chosen(st, p)
                      /\ job' = [job EXCEPT !.current = p, !.stage = "other"]
                      /\ Continue(r, p)
  BY <1>1, Chooses
<1>3. /\ st \in [Partition -> PartitionRow]
      /\ \A q \in Partition : st[q].pages = partition[q].pages
  BY <1>2 DEF Offers
<1>4. /\ \A q \in Partition : partition'[q].pages = partition[q].pages
      /\ job'.pages = job.pages
      /\ Rest(r) /\ (~Working(r)' \/ (Holds(r)' /\ ~job'.expired)) /\ RunFits(run[r])'
  <2>1. CASE /\ partition' = st
             /\ job' = [job EXCEPT !.state = "EXHAUSTED", !.stage = "other",
                                   !.current = None, !.lease = None, !.expired = FALSE]
             /\ run' = [run EXCEPT ![r] = Idle]
    <3>1. job'.pages = job.pages
      BY <2>1 DEF CrawlInv, TypeOK, JobRow
    <3>2. Rest(r) /\ ~Working(r)' /\ run'[r] = Idle
      BY <2>1, IdleRun DEF CrawlInv, TypeOK
    <3>3. RunFits(run[r])'
      BY <3>2 DEF Idle, RunFits, FreshPC, PagePC, StagedPC
    <3> QED
      BY <1>3, <2>1, <3>1, <3>2, <3>3
  <2>2. ASSUME NEW p \in Partition, partition' = Chosen(st, p),
               job' = [job EXCEPT !.current = p, !.stage = "other"],
               Continue(r, p)
        PROVE  /\ \A q \in Partition : partition'[q].pages = partition[q].pages
               /\ job'.pages = job.pages /\ Rest(r)
               /\ Holds(r)' /\ ~job'.expired /\ RunFits(run[r])'
    <3>1. \A q \in Partition : partition'[q].pages = partition[q].pages
      BY <1>3, <2>2, ChosenKeeps
    <3>2. /\ job'.pages = job.pages /\ job'.current = p /\ Holds(r)' /\ ~job'.expired
      BY <1>1, <2>2 DEF CrawlInv, TypeOK, JobRow, Holds
    <3>3. Rest(r) /\ run'[r].pc = "ready" /\ run'[r].part = p
      BY <2>2, ContinuesAlone
    <3>4. RunFits(run[r])'
      BY <1>1, <3>2, <3>3 DEF RunFits, StagedPC, Received
    <3> QED
      BY <3>1, <3>2, <3>3, <3>4
  <2> QED
    BY <1>2, <2>1, <2>2
<1>5. LeaseOwned' /\ \A q \in Run : RunFits(run[q])'
  BY <1>1, <1>4, RunAlone
<1>6. OneStaged' /\ SheetOnce'
  BY <1>1 DEF Alone, OneStaged, SheetOnce, Received
<1>7. CountsOK'
  BY <1>1, <1>4, CountsKept DEF Alone, Uncounted
<1> QED
  BY <1>5, <1>6, <1>7 DEF Alone

\* The steps up to the answer of the Marketplace.
LEMMA AloneAsks ==
    ASSUME CrawlInv, Alone, NEW r \in Run, Ready(r) \/ Begin(r) \/ SearchAnswered(r)
    PROVE  Alone'
<1>1. /\ Working(r) /\ UNCHANGED <<receipt, rows>>
      /\ run[r].part = job.current /\ Received = {}
  BY DEF Ready, Begin, SearchAnswered, Working, sheet, Alone, RunFits, FreshPC, PagePC
<1>2. Holds(r) /\ ~job.expired /\ ~Evicted(r)
  BY <1>1, NotEvicted
<1>3. \A p \in Partition : partition'[p].pages = partition[p].pages
  BY DEF Ready, Begin, SearchAnswered, CrawlInv, TypeOK, PartitionRow
<1>4. PICK pc \in {"pausing", "begin", "search", "stage"} : Goto(r, pc)
  BY <1>2 DEF Ready, Begin, SearchAnswered
<1>5. Rest(r) /\ run'[r].pc = pc /\ run'[r].part = job.current
  BY <1>1, <1>4, GotoRun DEF CrawlInv
<1>6. RunFits(run'[r])
  BY <1>1, <1>5 DEF RunFits, PagePC, StagedPC
<1>7. UNCHANGED job \/ Fenced(r, "other")
  BY <1>2 DEF Ready, Begin, SearchAnswered
<1>8. Holds(r)' /\ ~job'.expired /\ job'.current = job.current /\ job'.pages = job.pages
  BY <1>2, <1>7, FencedJob DEF CrawlInv, Holds
<1> QED
  BY <1>1, <1>3, <1>5, <1>6, <1>8, QuietAlone

LEMMA AloneRefused ==
    ASSUME CrawlInv, Alone, NEW r \in Run, SearchRefused(r)
    PROVE  Alone'
<1>1. Working(r) /\ UNCHANGED <<receipt, rows, job, partition>>
  BY DEF SearchRefused, Working, sheet
<1>2. PICK kind : ThrowAs(r, kind)
  BY DEF SearchRefused
<1> QED
  BY <1>1, <1>2, AloneThrow

\* A staged page is one, because there was none when it was asked for.
LEMMA AloneStage ==
    ASSUME CrawlInv, CrawlInv', Alone, NEW r \in Run, StageReceipt(r)
    PROVE  Alone'
<1> DEFINE g == PageOf(r)
<1>1. /\ Working(r) /\ UNCHANGED <<rows, job, partition>> /\ Goto(r, "load")
      /\ run[r].part = job.current /\ Received = {}
  BY DEF StageReceipt, Working, Alone, RunFits, FreshPC, PagePC
<1>2. g \in Page /\ g[1] = job.current
  <2>1. run[r].part \in Partition /\ run[r].n \in 1..LastPage[run[r].part]
    BY DEF CrawlInv, RunsOK, RunOK, StageReceipt, PagePC
  <2> QED
    BY <1>1, <2>1, PageKey DEF PageOf
<1> HIDE DEF g
<1>3. /\ \A h \in Page : h # g => receipt'[h] = receipt[h]
      /\ receipt'[g].state \in {receipt[g].state, "RECEIVED"}
      /\ receipt'[g].state = "COMMITTED" <=> receipt[g].state = "COMMITTED"
  BY <1>2 DEF StageReceipt, PageOf, CrawlInv, TypeOK, ReceiptRow, g
<1>4. Received' \subseteq {g}
  BY <1>1, <1>3 DEF Received
<1>5. Rest(r) /\ run'[r].pc = "load" /\ run'[r].part = job.current
  BY <1>1, GotoRun DEF CrawlInv
<1>6. RunFits(run[r])'
  BY <1>1, <1>5 DEF RunFits, FreshPC, StagedPC
<1>7. Holds(r)' /\ ~job'.expired
  BY <1>1, NotEvicted DEF Holds
<1>8. LeaseOwned' /\ \A q \in Run : RunFits(run[q])'
  BY <1>1, <1>5, <1>6, <1>7, RunAlone
<1>9. OneStaged' /\ SheetOnce'
  BY <1>1, <1>2, <1>4 DEF Alone, OneStaged, SheetOnce
<1>10. CountsOK'
  <2>1. Uncounted
    BY <1>1, <1>3 DEF Uncounted
  <2> QED
    BY <2>1, CountsKept DEF Alone
<1> QED
  BY <1>8, <1>9, <1>10 DEF Alone

\* The steps of a run with its page, up to the Sheet.
LEMMA AloneLoad ==
    ASSUME CrawlInv, Alone, NEW r \in Run, Load(r)
    PROVE  Alone'
<1>1. /\ Working(r) /\ UNCHANGED <<receipt, rows, partition>>
      /\ run[r].part = job.current
  BY DEF Load, Working, sheet, Alone, RunFits, PagePC
<1>2. Holds(r) /\ ~job.expired
  BY <1>1, NotEvicted
<1>3. CASE ThrowAs(r, "other") /\ UNCHANGED job
  BY <1>1, <1>3, AloneThrow
<1>4. ASSUME NEW pc \in {"attempt", "persist"}, receipt[PageOf(r)].state = "RECEIVED",
             Goto(r, pc), UNCHANGED job \/ Fenced(r, "other")
      PROVE  Alone'
  <2>1. Rest(r) /\ run'[r].pc = pc /\ run'[r].part = run[r].part /\ run'[r].n = run[r].n
    BY <1>4, GotoRun DEF CrawlInv
  <2>2. RunFits(run'[r])
    BY <1>1, <1>4, <2>1 DEF RunFits, FreshPC, PageOf
  <2>3. Holds(r)' /\ ~job'.expired /\ job'.current = job.current /\ job'.pages = job.pages
    BY <1>2, <1>4, FencedJob DEF CrawlInv, Holds
  <2> QED
    BY <1>1, <2>1, <2>2, <2>3, QuietAlone
<1> QED
  BY <1>3, <1>4 DEF Load

\* Where a run is with the page that is staged.
LEMMA OnStagedPage ==
    ASSUME CrawlInv, Alone, NEW r \in Run, run[r].pc \in StagedPC
    PROVE  /\ Working(r) /\ Holds(r) /\ ~job.expired
           /\ PageOf(r) \in Page /\ run[r].part = job.current /\ PageOf(r)[1] = job.current
           /\ receipt[PageOf(r)].state = "RECEIVED" /\ Received = {PageOf(r)}
<1>1. Working(r) /\ run[r].pc \in PagePC
  BY DEF StagedPC, PagePC, Working
<1>2. RunFits(run[r])
  BY DEF Alone
<1>3. run[r].part \in Partition /\ run[r].n \in 1..LastPage[run[r].part]
  BY <1>1 DEF CrawlInv, RunsOK, RunOK
<1>4. PageOf(r) \in Page /\ run[r].part = job.current /\ PageOf(r)[1] = run[r].part
  BY <1>1, <1>2, <1>3, PageKey DEF RunFits, PageOf
<1>5. receipt[PageOf(r)].state = "RECEIVED"
  BY <1>2 DEF RunFits, PageOf
<1>6. PageOf(r) \in Received
  BY <1>4, <1>5 DEF Received
<1>7. Received = {PageOf(r)}
  BY <1>6 DEF Alone, OneStaged
<1> QED
  BY <1>1, <1>4, <1>5, <1>7, NotEvicted

LEMMA AlonePersist ==
    ASSUME CrawlInv, Alone, NEW r \in Run, Persist(r)
    PROVE  Alone'
<1> DEFINE g == PageOf(r)
<1>1. run[r].pc \in StagedPC /\ Goto(r, "attempt") /\ UNCHANGED <<rows, job, partition>>
  BY DEF Persist, StagedPC
<1>2. /\ Working(r) /\ Holds(r) /\ ~job.expired /\ g \in Page
      /\ run[r].part = job.current /\ receipt[g].state = "RECEIVED"
  BY <1>1, OnStagedPage
<1> HIDE DEF g
<1>3. \A h \in Page : receipt'[h].state = receipt[h].state
  BY <1>2 DEF Persist, CrawlInv, TypeOK, ReceiptRow, g
<1>4. /\ Rest(r) /\ run'[r].pc = "attempt"
      /\ run'[r].part = run[r].part /\ run'[r].n = run[r].n
  BY <1>1, GotoRun DEF CrawlInv
<1>5. RunFits(run[r])'
  BY <1>1, <1>2, <1>3, <1>4 DEF RunFits, FreshPC, PageOf, g
<1>6. Holds(r)' /\ ~job'.expired
  BY <1>1, <1>2 DEF Holds
<1>7. LeaseOwned' /\ \A q \in Run : RunFits(run[q])'
  BY <1>2, <1>4, <1>5, <1>6, RunAlone
<1>8. OneStaged' /\ SheetOnce'
  BY <1>1, <1>3 DEF Alone, OneStaged, SheetOnce, Received
<1>9. CountsOK'
  BY <1>1, <1>3, CountsKept DEF Alone, Uncounted
<1> QED
  BY <1>7, <1>8, <1>9 DEF Alone

LEMMA AloneAttempt ==
    ASSUME CrawlInv, Alone, NEW r \in Run, Attempt(r)
    PROVE  Alone'
<1>1. run[r].pc \in StagedPC /\ UNCHANGED <<receipt, rows, partition>>
  BY DEF Attempt, StagedPC, sheet
<1>2. /\ Working(r) /\ Holds(r) /\ ~job.expired
      /\ run[r].part = job.current /\ receipt[PageOf(r)].state = "RECEIVED"
  BY <1>1, OnStagedPage
<1>3. Fenced(r, "sheet") /\ Goto(r, "reconcile")
  BY <1>2, NotEvicted DEF Attempt
<1>4. /\ Rest(r) /\ run'[r].pc = "reconcile"
      /\ run'[r].part = run[r].part /\ run'[r].n = run[r].n
  BY <1>3, GotoRun DEF CrawlInv
<1>5. RunFits(run'[r])
  BY <1>2, <1>4 DEF RunFits, FreshPC, PageOf
<1>6. Holds(r)' /\ ~job'.expired /\ job'.current = job.current /\ job'.pages = job.pages
  BY <1>2, <1>3, FencedJob DEF CrawlInv
<1> QED
  BY <1>1, <1>2, <1>4, <1>5, <1>6, QuietAlone

\* What the run read of the Sheet is what it finds there when it writes.
LEMMA AloneReadSheet ==
    ASSUME CrawlInv, Alone, NEW r \in Run, ReadSheet(r)
    PROVE  Alone'
<1>1. run[r].pc \in StagedPC /\ UNCHANGED <<receipt, rows, job, partition>>
  BY DEF ReadSheet, StagedPC, sheet
<1>2. /\ Working(r) /\ run[r].part = job.current /\ receipt[PageOf(r)].state = "RECEIVED"
  BY <1>1, OnStagedPage
<1>3. /\ Rest(r) /\ run'[r].pc = "write" /\ run'[r].add = Absent(PageOf(r))
      /\ run'[r].part = run[r].part /\ run'[r].n = run[r].n
  BY DEF ReadSheet, CrawlInv, TypeOK, RunState, Rest
<1>4. RunFits(run'[r])
  BY <1>2, <1>3 DEF RunFits, FreshPC, PageOf, Absent
<1> QED
  BY <1>1, <1>2, <1>3, <1>4, AloneGoto

\* Only a row that is not there is appended.
LEMMA OneRowWritten ==
    ASSUME CrawlInv, Alone, NEW r \in Run, run[r].pc = "write", rows' \in {rows, AfterWrite(r)}
    PROVE  SheetOnce'
<1> DEFINE g == PageOf(r)
<1>1. g \in Page /\ (run[r].add => rows[g] = 0)
  <2>1. RunFits(run[r]) /\ run[r].pc \in StagedPC
    BY DEF Alone, StagedPC
  <2> QED
    BY <2>1, OnStagedPage DEF RunFits, PageOf
<1>2. rows \in [Page -> Nat] /\ SheetOnce
  BY DEF CrawlInv, TypeOK, Alone
<1>3. rows' = rows \/ (run[r].add /\ rows' = [rows EXCEPT ![g] = @ + 1])
  BY DEF AfterWrite
<1> HIDE DEF g
<1> QED
  BY <1>1, <1>2, <1>3 DEF SheetOnce

\* Steps of one run that write to the Sheet and to nothing else.
LEMMA SheetAlone ==
    ASSUME CrawlInv, Alone, NEW r \in Run, Working(r), Rest(r), SheetOnce',
           UNCHANGED <<receipt, job, partition>>, RunFits(run[r])'
    PROVE  Alone'
<1>1. Holds(r)' /\ ~job'.expired
  BY NotEvicted DEF Holds
<1>2. LeaseOwned' /\ \A q \in Run : RunFits(run[q])'
  BY <1>1, RunAlone
<1>3. OneStaged'
  BY DEF Alone, OneStaged, Received
<1>4. CountsOK'
  BY CountsKept DEF Alone, Uncounted
<1> QED
  BY <1>2, <1>3, <1>4 DEF Alone

LEMMA AloneWriteSheet ==
    ASSUME CrawlInv, Alone, NEW r \in Run, WriteSheet(r)
    PROVE  Alone'
<1>1. /\ run[r].pc = "write" /\ UNCHANGED <<receipt, job, partition>>
      /\ Goto(r, "commit") /\ rows' = AfterWrite(r)
  BY DEF WriteSheet
<1>2. Working(r) /\ run[r].part = job.current /\ receipt[PageOf(r)].state = "RECEIVED"
  BY <1>1, OnStagedPage DEF StagedPC
<1>3. /\ Rest(r) /\ run'[r].pc = "commit"
      /\ run'[r].part = run[r].part /\ run'[r].n = run[r].n
  BY <1>1, GotoRun DEF CrawlInv
<1>4. RunFits(run[r])'
  BY <1>1, <1>2, <1>3 DEF RunFits, FreshPC, PageOf
<1>5. SheetOnce'
  BY <1>1, OneRowWritten
<1> QED
  BY <1>1, <1>2, <1>3, <1>4, <1>5, SheetAlone

\* An append whose answer is lost, and a run that died after one.
LEMMA AloneBreaks ==
    ASSUME CrawlInv, Alone, NEW r \in Run, Fails(r) \/ Dies(r)
    PROVE  Alone'
<1>1. Working(r) /\ UNCHANGED <<receipt, job, partition>>
  BY DEF Fails, Dies, Working
<1>2. SheetOnce'
  <2>1. CASE run[r].pc = "write"
    <3>1. rows' \in {rows, AfterWrite(r)}
      BY <2>1 DEF Fails, Dies
    <3> QED
      BY <2>1, <3>1, OneRowWritten
  <2>2. CASE run[r].pc # "write"
    <3>1. rows' = rows
      BY <2>2 DEF Fails, Dies
    <3> QED
      BY <3>1 DEF Alone, SheetOnce
  <2> QED
    BY <2>1, <2>2
<1>3. Rest(r) /\ RunFits(run[r])'
  <2>1. CASE Dies(r)
    <3>1. Rest(r) /\ run'[r] = Idle
      BY <2>1 DEF Dies, CrawlInv, TypeOK, Rest
    <3> QED
      BY <3>1 DEF Idle, RunFits, FreshPC, PagePC, StagedPC
  <2>2. CASE Fails(r)
    <3>1. PICK kind : ThrowAs(r, kind)
      BY <2>2 DEF Fails
    <3>2. Rest(r) /\ run'[r].pc = "error"
      BY <3>1 DEF ThrowAs, CrawlInv, TypeOK, RunState, Rest
    <3> QED
      BY <3>2 DEF RunFits, FreshPC, PagePC, StagedPC
  <2> QED
    BY <2>1, <2>2
<1> QED
  BY <1>1, <1>2, <1>3, SheetAlone

LEMMA AloneCommitRead ==
    ASSUME CrawlInv, Alone, NEW r \in Run, CommitRead(r)
    PROVE  Alone'
<1>1. run[r].pc \in StagedPC /\ UNCHANGED <<receipt, rows, partition>>
  BY DEF CommitRead, StagedPC, sheet
<1>2. /\ Working(r) /\ Holds(r) /\ ~job.expired
      /\ run[r].part = job.current /\ receipt[PageOf(r)].state = "RECEIVED"
  BY <1>1, OnStagedPage
<1>3. /\ Fenced(r, "other")
      /\ run' = [run EXCEPT ![r].pc = "committing", ![r].pause = job.pauseRequested]
  BY <1>2, NotEvicted DEF CommitRead
<1>4. /\ Rest(r) /\ run'[r].pc = "committing"
      /\ run'[r].part = run[r].part /\ run'[r].n = run[r].n
  BY <1>3 DEF CrawlInv, TypeOK, RunState, Rest
<1>5. RunFits(run'[r])
  BY <1>2, <1>4 DEF RunFits, FreshPC, PageOf
<1>6. Holds(r)' /\ ~job'.expired /\ job'.current = job.current /\ job'.pages = job.pages
  BY <1>2, <1>3, FencedJob DEF CrawlInv
<1> QED
  BY <1>1, <1>2, <1>4, <1>5, <1>6, QuietAlone

\* What the commit makes of the number of pages of a partition.
LEMMA AdvancedPages ==
    ASSUME TypeOK, NEW g \in Page, NEW pause, NEW q \in Partition
    PROVE  Advanced(g, pause)[q].pages = partition[q].pages + (IF q = g[1] THEN 1 ELSE 0)
<1>1. /\ partition \in [Partition -> PartitionRow] /\ g[1] \in Partition
      /\ partition[q].pages \in Nat
  BY PageParts DEF TypeOK, PartitionRow
<1>2. PICK s : s = IF pause THEN "PAUSED" ELSE "RUNNING"
  OBVIOUS
<1>3. [AdvancedCursor(g) EXCEPT ![g[1]].status = s][q].pages
      = partition[q].pages + (IF q = g[1] THEN 1 ELSE 0)
  BY <1>1 DEF AdvancedCursor, PartitionRow
<1>4. [partition EXCEPT ![g[1]].status = "COMPLETE", ![g[1]].cursor = 0,
                        ![g[1]].pages = @ + 1][q].pages
      = partition[q].pages + (IF q = g[1] THEN 1 ELSE 0)
  BY <1>1 DEF PartitionRow
<1> QED
  BY <1>2, <1>3, <1>4, ExpandUncounted DEF Advanced

\* The page is counted once more, by its partition and by the job.
LEMMA AloneCommitWrite ==
    ASSUME CrawlInv, Alone, NEW r \in Run, CommitWrite(r)
    PROVE  Alone'
<1> DEFINE g == PageOf(r)
<1>1. run[r].pc \in StagedPC /\ UNCHANGED rows /\ run' = [run EXCEPT ![r] = Idle]
  BY DEF CommitWrite, StagedPC
<1>2. /\ Working(r) /\ Holds(r) /\ g \in Page /\ g[1] = job.current
      /\ receipt[g].state = "RECEIVED" /\ Received = {g}
  BY <1>1, OnStagedPage
<1>3. /\ receipt' = [receipt EXCEPT ![g].state = "COMMITTED"]
      /\ partition' = Advanced(g, run[r].pause)
  BY DEF CommitWrite
<1>4. job'.pages = job.pages + 1
  BY <1>2 DEF CommitWrite, CrawlInv, TypeOK, JobRow
<1> HIDE DEF g
<1>5. /\ \A h \in Page : h # g => receipt'[h] = receipt[h]
      /\ receipt'[g].state = "COMMITTED"
  BY <1>2, <1>3 DEF CrawlInv, TypeOK, ReceiptRow
<1>6. Received' = {}
  BY <1>2, <1>5 DEF Received
<1>7. Rest(r) /\ ~Working(r)' /\ run'[r] = Idle
  BY <1>1, IdleRun DEF CrawlInv, TypeOK
<1>8. RunFits(run[r])'
  BY <1>7 DEF Idle, RunFits, FreshPC, PagePC, StagedPC
<1>9. LeaseOwned' /\ \A q \in Run : RunFits(run[q])'
  BY <1>2, <1>7, <1>8, RunAlone
<1>10. OneStaged' /\ SheetOnce'
  BY <1>1, <1>6 DEF Alone, OneStaged, SheetOnce
<1>11. CountsOK'
  <2>1. /\ IsFiniteSet(AllCommitted) /\ g \notin AllCommitted
        /\ AllCommitted' = AllCommitted \cup {g}
    BY <1>2, <1>5 DEF AllCommitted, Alone, CountsOK
  <2>2. IsFiniteSet(AllCommitted') /\ Cardinality(AllCommitted') = Cardinality(AllCommitted) + 1
    BY <2>1, FS_AddElement
  <2>3. ASSUME NEW p \in Partition PROVE partition'[p].pages = Cardinality(Committed(p)')
    <3>1. partition[p].pages = Cardinality(Committed(p)) /\ IsFiniteSet(Committed(p))
      BY <2>1, FS_Subset DEF Alone, CountsOK, Committed, AllCommitted
    <3>2. CASE p = g[1]
      <4>1. Committed(p)' = Committed(p) \cup {g} /\ g \notin Committed(p)
        BY <1>2, <1>5, <3>2 DEF Committed
      <4>2. Cardinality(Committed(p)') = Cardinality(Committed(p)) + 1
        BY <3>1, <4>1, FS_AddElement
      <4> QED
        BY <1>2, <1>3, <3>1, <3>2, <4>2, AdvancedPages DEF CrawlInv
    <3>3. CASE p # g[1]
      <4>1. Committed(p)' = Committed(p)
        BY <1>2, <1>5, <3>3 DEF Committed
      <4>2. partition[p].pages \in Nat
        BY DEF CrawlInv, TypeOK, PartitionRow
      <4>3. partition'[p].pages = partition[p].pages + 0
        BY <1>2, <1>3, <3>3, AdvancedPages DEF CrawlInv
      <4> QED
        BY <3>1, <4>1, <4>2, <4>3
    <3> QED
      BY <3>2, <3>3
  <2>4. job'.pages = Cardinality(AllCommitted')
    BY <1>4, <2>2 DEF Alone, CountsOK
  <2> QED
    BY <2>2, <2>3, <2>4 DEF CountsOK
<1> QED
  BY <1>9, <1>10, <1>11 DEF Alone

\* The run that failed stays the one with the lease until it has ended.
LEMMA AloneError ==
    ASSUME CrawlInv, Alone, NEW r \in Run, ErrorRead(r) \/ HandleNoPage(r)
    PROVE  Alone'
<1>1. /\ Working(r) /\ UNCHANGED <<receipt, rows, job, partition>>
      /\ HandleNoPage(r) => run[r].part = job.current
  BY DEF ErrorRead, HandleNoPage, Working, sheet, Alone, RunFits
<1>2. Holds(r)
  BY <1>1, NotEvicted
<1>3. Rest(r) /\ run'[r].pc = "failing" /\ run'[r].part = job.current
  <2>1. CASE ErrorRead(r)
    BY <1>2, <2>1 DEF ErrorRead, CrawlInv, TypeOK, RunState, Rest
  <2>2. CASE HandleNoPage(r)
    BY <1>1, <2>2 DEF HandleNoPage, CrawlInv, TypeOK, RunState, Rest
  <2> QED
    BY <2>1, <2>2
<1>4. RunFits(run'[r])
  BY <1>3 DEF RunFits, FreshPC, PagePC, StagedPC
<1> QED
  BY <1>1, <1>3, <1>4, AloneGoto

LEMMA MarkedUncounted ==
    ASSUME TypeOK, NEW p, NEW s, Marked(p, s)
    PROVE  \A q \in Partition : partition'[q].pages = partition[q].pages
BY StatusUncounted DEF Marked

LEMMA AloneHandles ==
    ASSUME CrawlInv, Alone, NEW r \in Run,
           HandleSheetsFailure(r) \/ HandleBusiness(r) \/ HandleTemporary(r) \/ HandleFatal(r)
    PROVE  Alone'
<1>1. Working(r) /\ UNCHANGED <<receipt, rows>> /\ run' = [run EXCEPT ![r] = Idle]
  BY DEF HandleSheetsFailure, HandleBusiness, HandleTemporary, HandleFatal, ErrorEnds,
         Working, sheet
<1>2. job'.current = job.current /\ job'.pages = job.pages
  BY DEF HandleSheetsFailure, HandleBusiness, HandleTemporary, HandleFatal, Released,
         CrawlInv, TypeOK, JobRow
<1>3. \A p \in Partition : partition'[p].pages = partition[p].pages
  <2>1. CASE HandleSheetsFailure(r)
    BY <2>1, MarkedUncounted DEF HandleSheetsFailure, CrawlInv
  <2>2. CASE HandleBusiness(r)
    BY <2>2 DEF HandleBusiness, CrawlInv, TypeOK, PartitionRow
  <2>3. CASE HandleTemporary(r) \/ HandleFatal(r)
    BY <2>3, MarkedUncounted DEF HandleTemporary, HandleFatal, CrawlInv
  <2> QED
    BY <2>1, <2>2, <2>3
<1> QED
  BY <1>1, <1>2, <1>3, AloneEnds

\* Steps of no run: the lease stays, or there is no run that it was taken from.
LEMMA StillAlone ==
    ASSUME Alone, UNCHANGED <<receipt, rows, run>>,
           job'.current = job.current, job'.pages = job.pages,
           \A p \in Partition : partition'[p].pages = partition[p].pages,
           \/ job'.lease = job.lease /\ job'.expired = job.expired
           \/ \A q \in Run : ~Working(q)
    PROVE  Alone'
<1>1. LeaseOwned'
  BY DEF Alone, LeaseOwned, Working, Holds
<1>2. \A q \in Run : RunFits(run[q])'
  BY DEF Alone, RunFits, Received
<1>3. OneStaged' /\ SheetOnce'
  BY DEF Alone, OneStaged, SheetOnce, Received
<1>4. CountsOK'
  BY CountsKept DEF Alone, Uncounted
<1> QED
  BY <1>1, <1>2, <1>3, <1>4 DEF Alone

LEMMA NoneUsurped ==
    ASSUME CrawlInv, Alone, ~Usurps(job.lease), NEW q \in Run
    PROVE  ~Working(q)
<1>1. Working(q) => job.lease = q /\ q # None
  BY CreatorSyncAssumption DEF Alone, LeaseOwned, Holds
<1> QED
  BY <1>1 DEF Usurps

LEMMA AloneTime ==
    ASSUME CrawlInv, Alone, ~overlapped', ExpireLease \/ Elapse
    PROVE  Alone'
<1>1. /\ UNCHANGED <<receipt, rows, run, partition>>
      /\ job'.current = job.current /\ job'.pages = job.pages
  BY DEF ExpireLease, Elapse, sheet, CrawlInv, TypeOK, JobRow
<1>2. CASE ExpireLease
  BY <1>1, <1>2, NoneUsurped, StillAlone DEF ExpireLease
<1>3. CASE Elapse
  <2>1. job'.lease = job.lease /\ job'.expired = job.expired
    BY <1>3 DEF Elapse, CrawlInv, TypeOK, JobRow
  <2> QED
    BY <1>1, <2>1, StillAlone
<1> QED
  BY <1>2, <1>3

\* No request moves the crawl to another partition.
LEMMA AloneCommand ==
    ASSUME CrawlInv, Alone, ~overlapped', Command
    PROVE  Alone'
<1>1. UNCHANGED <<receipt, rows, run>>
  BY DEF Command, PauseRead, PauseWrite, ResumeRead, ResumeWrite, InitializeRead,
         InitializeWrite, Ask, Answered, sheet
<1>2. job'.current = job.current /\ job'.pages = job.pages
  BY DEF Command, PauseRead, PauseWrite, ResumeRead, ResumeWrite, InitializeRead,
         InitializeWrite, Ask, CrawlInv, TypeOK, JobRow
<1>3. \A p \in Partition : partition'[p].pages = partition[p].pages
  <2>1. CASE PauseRead \/ ResumeRead \/ InitializeRead \/ InitializeWrite
    BY <2>1 DEF PauseRead, ResumeRead, InitializeRead, InitializeWrite, Ask
  <2>2. CASE PauseWrite
    BY <2>2, MarkedUncounted DEF PauseWrite, CrawlInv
  <2>3. CASE ResumeWrite
    BY <2>3 DEF ResumeWrite, CrawlInv, TypeOK, PartitionRow
  <2> QED
    BY <2>1, <2>2, <2>3 DEF Command
<1>4. CASE InitializeWrite
  BY <1>1, <1>2, <1>3, <1>4, NoneUsurped, StillAlone DEF InitializeWrite
<1>5. CASE ~InitializeWrite
  <2>1. job'.lease = job.lease /\ job'.expired = job.expired
    BY <1>5 DEF Command, PauseRead, PauseWrite, ResumeRead, ResumeWrite, InitializeRead,
         Ask, CrawlInv, TypeOK, JobRow
  <2> QED
    BY <1>1, <1>2, <1>3, <2>1, StillAlone
<1> QED
  BY <1>4, <1>5

\* A run that went on without its lease is remembered.
LEMMA OverlapStays ==
    ASSUME CrawlInv, [Next]_vars, overlapped
    PROVE  overlapped'
<1>1. ASSUME NEW r \in Run, Step(r) PROVE overlapped'
  BY <1>1 DEF Step, See, Claim, Start, Import, PauseClaimed, ChooseRead, ChooseWrite, Ready,
     Begin, SearchAnswered, StageReceipt, Load, Persist, Attempt, ReadSheet, WriteSheet,
     CommitRead, CommitWrite, ErrorRead, HandleSheetsFailure, HandleNoPage, HandleBusiness,
     HandleTemporary, HandleFatal, ErrorEnds
<1>2. ASSUME NEW r \in Run, Breaks(r) PROVE overlapped'
  BY <1>2 DEF Breaks, SearchRefused, Fails, Dies
<1>3. CASE ExpireLease \/ Elapse
  BY <1>3 DEF ExpireLease, Elapse
<1>4. CASE Command
  BY <1>4 DEF Command, PauseRead, PauseWrite, ResumeRead, ResumeWrite, InitializeRead,
     InitializeWrite, Ask
<1>5. CASE UNCHANGED vars
  BY <1>5 DEF vars
<1> QED
  BY <1>1, <1>2, <1>3, <1>4, <1>5 DEF Next

LEMMA AloneInit ==
    ASSUME Init
    PROVE  Alone
<1>1. Received = {} /\ AllCommitted = {} /\ \A p \in Partition : Committed(p) = {}
  BY DEF Init, Received, AllCommitted, Committed
<1>2. LeaseOwned /\ OneStaged /\ SheetOnce
  BY <1>1 DEF Init, LeaseOwned, OneStaged, SheetOnce, Working, Idle
<1>3. \A r \in Run : RunFits(run[r])
  BY DEF Init, Idle, RunFits, FreshPC, PagePC, StagedPC
<1>4. CountsOK
  BY <1>1, FS_EmptySet DEF Init, CountsOK
<1> QED
  BY <1>2, <1>3, <1>4 DEF Alone

LEMMA AloneNext ==
    ASSUME CrawlInv, CrawlInv', ~overlapped => Alone, [Next]_vars
    PROVE  (~overlapped => Alone)'
<1> SUFFICES ASSUME ~overlapped' PROVE Alone'
  OBVIOUS
<1>1. Alone
  BY OverlapStays
<1>2. ASSUME NEW r \in Run, Step(r) PROVE Alone'
  BY <1>1, <1>2, AloneClaim, AloneStart, AloneImport, AlonePause, AloneChooseRead,
     AloneChooseWrite, AloneAsks, AloneStage, AloneLoad, AlonePersist, AloneAttempt,
     AloneReadSheet, AloneWriteSheet, AloneCommitRead, AloneCommitWrite, AloneError,
     AloneHandles DEF Step
<1>3. ASSUME NEW r \in Run, Breaks(r) PROVE Alone'
  BY <1>1, <1>3, AloneRefused, AloneBreaks DEF Breaks
<1>4. CASE ExpireLease \/ Elapse \/ Command
  BY <1>1, <1>4, AloneTime, AloneCommand
<1>5. CASE UNCHANGED vars
  BY <1>1, <1>5, StillAlone DEF vars
<1> QED
  BY <1>2, <1>3, <1>4, <1>5 DEF Next

LEMMA AloneInvariant == Spec => [](CrawlInv /\ (~overlapped => Alone))
<1>1. Init => CrawlInv /\ (~overlapped => Alone)
  BY Initially, AloneInit
<1>2. CrawlInv /\ (~overlapped => Alone) /\ [Next]_vars
      => (CrawlInv /\ (~overlapped => Alone))'
  BY Inductive, AloneNext
<1> QED
  BY <1>1, <1>2, PTL DEF Spec

\* Every page that is committed is counted exactly once, by its partition and
\* by the job, whatever was retried, as long as no run of processNext goes on
\* without its lease (the increments of commitPage).
THEOREM PagesAreCounted == Spec => []CountsAgree
<1>1. ASSUME CountsOK PROVE CountsAgree
  <2>1. AllCommitted = UNION {Committed(p) : p \in Partition}
    BY PageParts DEF AllCommitted, Committed
  <2> QED
    BY <1>1, <2>1 DEF CountsOK, CountsAgree
<1>2. (~overlapped => Alone) => CountsAgree
  BY <1>1 DEF Alone, CountsAgree
<1> QED
  BY <1>2, AloneInvariant, PTL

\* The Sheet never has two rows for one creator, although an append may be made
\* and its answer lost, as long as no run goes on without its lease
\* (reconcilePage reads the Sheet again before it appends).
THEOREM SheetHasOneRow == Spec => []OneRowPerCreator
<1>1. (~overlapped => Alone) => OneRowPerCreator
  BY DEF Alone, SheetOnce, OneRowPerCreator
<1> QED
  BY <1>1, AloneInvariant, PTL

\* No request goes to the Marketplace while a page is staged, through pauses,
\* failures, deaths of the process and leases that run out (processClaimed).
THEOREM NothingAskedWhileStaged == Spec => []StagedPageBlocks
<1>1. (~overlapped => Alone) => StagedPageBlocks
  <2>1. ASSUME Alone, NEW r \in Run, run[r].pc = "search" PROVE Received = {}
    <3>1. RunFits(run[r])
      BY <2>1 DEF Alone
    <3> QED
      BY <2>1, <3>1 DEF RunFits, FreshPC
  <2> QED
    BY <2>1 DEF StagedPageBlocks
<1> QED
  BY <1>1, AloneInvariant, PTL

-----------------------------------------------------------------------------
(* The partition that was begun is the current one *)

CurrentOf(statuses) == \E p \in Partition : job.current = p /\ partition[p].status \in statuses

\* Crawled, or left aside by the scheduler.
Settled(row) ==
    \/ row.status \in {"ABSENT", "EXPERIMENT_ONLY", "COMPLETE"}
    \/ row.status = "QUEUED" /\ row.skipped

\* A run works on a running job; what was begun is the current partition, which
\* has no error while the job goes on; all is settled when the job is exhausted;
\* and a run chooses only when nothing is begun.
Anchored ==
    /\ \A r \in Run : Working(r) => job.state = "RUNNING"
    /\ \A p \in Partition : partition[p].status \in Started => job.current = p
    /\ job.state = "EXHAUSTED" =>
           \A p \in Partition : Settled(partition[p])
    /\ job.state \in {"RUNNING", "WAITING"} => ~CurrentOf({"ERROR"})
    /\ \A r \in Run : run[r].pc = "choosing" => ~CurrentOf(Started)

SameStatus == \A p \in Partition :
                  /\ partition'[p].status = partition[p].status
                  /\ partition'[p].skipped = partition[p].skipped

SameJob == job'.state = job.state /\ job'.current = job.current

\* Steps that change neither the job's state, nor the current partition, nor a
\* partition's status.
LEMMA QuietAnchored ==
    ASSUME Anchored, NEW r \in Run, Rest(r), SameJob, SameStatus,
           run'[r].pc # "choosing", Working(r) \/ ~Working(r)'
    PROVE  Anchored'
<1>1. \A q \in Run : Working(q)' => Working(q)
  BY DEF Rest, Working
<1>2. \A q \in Run : run'[q].pc = "choosing" => run[q].pc = "choosing"
  BY DEF Rest
<1>3. \A statuses : CurrentOf(statuses)' <=> CurrentOf(statuses)
  BY DEF CurrentOf, SameJob, SameStatus
<1>4. /\ \A q \in Run : Working(q)' => job'.state = "RUNNING"
      /\ \A p \in Partition : partition'[p].status \in Started => job'.current = p
      /\ job'.state = "EXHAUSTED" =>
             \A p \in Partition : Settled(partition'[p])
  BY <1>1 DEF Anchored, SameJob, SameStatus, Settled
<1>5. CurrentOf({"ERROR"})' => CurrentOf({"ERROR"})
  BY DEF CurrentOf, SameJob, SameStatus
<1>6. CurrentOf(Started)' => CurrentOf(Started)
  BY DEF CurrentOf, SameJob, SameStatus
<1> QED
  BY <1>2, <1>4, <1>5, <1>6 DEF Anchored, SameJob

\* Steps that end the one run, and mark at most the current partition.
LEMMA EndsAnchored ==
    ASSUME CrawlInv, Alone, Anchored, NEW r \in Run, Working(r),
           run' = [run EXCEPT ![r] = Idle],
           job'.current = job.current,
           job'.state \in {"PAUSED", "WAITING", "ERROR"},
           \A p \in Partition : p # job.current => partition'[p].status = partition[p].status,
           job'.state = "WAITING" =>
               \A p \in Partition : p = job.current => partition'[p].status # "ERROR"
    PROVE  Anchored'
<1>1. \A q \in Run : ~Working(q)' /\ run'[q].pc # "choosing"
  <2>1. ASSUME NEW q \in Run PROVE run'[q].pc \in {"idle", "seen"}
    <3>1. CASE q = r
      BY <3>1 DEF CrawlInv, TypeOK, Idle
    <3>2. CASE q # r
      BY <3>2, Sole DEF Alone, Working, CrawlInv, TypeOK
    <3> QED
      BY <3>1, <3>2
  <2> QED
    BY <2>1 DEF Working
<1>2. \A p \in Partition : partition'[p].status \in Started => job'.current = p
  BY DEF Anchored
<1>3. job'.state \in {"RUNNING", "WAITING"} => ~CurrentOf({"ERROR"})'
  BY DEF CurrentOf
<1> QED
  BY <1>1, <1>2, <1>3 DEF Anchored

\* What follows the claim, up to the Sheet, but for the choice of a partition.
LEMMA AnchoredMoves ==
    ASSUME CrawlInv, Alone, Anchored, NEW r \in Run,
           \/ See(r) \/ Start(r) \/ Import(r) \/ Ready(r) \/ SearchAnswered(r)
           \/ StageReceipt(r) \/ Load(r)
    PROVE  Anchored'
<1>1. SameJob
  <2>1. \/ UNCHANGED job \/ Fenced(r, "other")
        \/ job' = [job EXCEPT !.imported = TRUE]
    BY DEF See, Start, Import, Ready, SearchAnswered, StageReceipt, Load, Evicted
  <2>2. job \in JobRow
    BY DEF CrawlInv, TypeOK
  <2> QED
    BY <2>1, <2>2 DEF Fenced, SameJob, JobRow
<1>2. SameStatus
  <2>1. CASE SearchAnswered(r)
    BY <2>1 DEF SearchAnswered, SameStatus, CrawlInv, TypeOK, PartitionRow
  <2>2. CASE ~SearchAnswered(r)
    <3>1. UNCHANGED partition
      BY <2>2 DEF See, Start, Import, Ready, StageReceipt, Load
    <3> QED
      BY <3>1 DEF SameStatus
  <2> QED
    BY <2>1, <2>2
<1>3. (Working(r) \/ Goto(r, "seen"))
  BY DEF See, Start, Import, Ready, SearchAnswered, StageReceipt, Load, Working
<1>4. Rest(r) /\ run'[r].pc # "choosing" /\ (Working(r) \/ ~Working(r)')
  <2>1. ASSUME NEW pc \in RunPC \ {"choosing"}, Goto(r, pc)
        PROVE  Rest(r) /\ run'[r].pc # "choosing"
    BY <2>1, GotoRun DEF CrawlInv
  <2>2. ASSUME NEW kind, ThrowAs(r, kind)
        PROVE  Rest(r) /\ run'[r].pc # "choosing"
    BY <2>2 DEF ThrowAs, CrawlInv, TypeOK, RunState, Rest
  <2>3. ASSUME NEW g,
               run' = [run EXCEPT ![r].pc = "load", ![r].part = g[1], ![r].n = g[2]]
        PROVE  Rest(r) /\ run'[r].pc # "choosing"
    BY <2>3 DEF CrawlInv, TypeOK, RunState, Rest
  <2>4. \/ \E pc \in RunPC \ {"choosing"} : Goto(r, pc)
        \/ \E kind : ThrowAs(r, kind)
        \/ \E g : run' = [run EXCEPT ![r].pc = "load", ![r].part = g[1], ![r].n = g[2]]
    <3>1. CASE Start(r)
      <4>1. AfterImport \in RunPC \ {"choosing"} /\ "import" \in RunPC \ {"choosing"}
        BY DEF AfterImport, RunPC
      <4>2. (IF job.imported THEN AfterImport ELSE "import") \in RunPC \ {"choosing"}
        BY <4>1
      <4> QED
        BY <3>1, <4>2 DEF Start, Evicted
    <3>2. CASE Import(r)
      <4>1. AfterImport \in RunPC \ {"choosing"}
        BY DEF AfterImport, RunPC
      <4> QED
        BY <3>2, <4>1 DEF Import, Evicted
    <3>3. CASE See(r) \/ Ready(r) \/ SearchAnswered(r) \/ StageReceipt(r) \/ Load(r)
      <4>1. \/ \E pc \in {"seen", "pausing", "begin", "stage", "load", "attempt", "persist"} :
                  Goto(r, pc)
            \/ ThrowAs(r, "other")
        BY <3>3 DEF See, Ready, SearchAnswered, StageReceipt, Load, Evicted
      <4> QED
        BY <4>1 DEF RunPC
    <3> QED
      BY <3>1, <3>2, <3>3
  <2>5. Goto(r, "seen") => ~Working(r)'
    BY GotoRun DEF CrawlInv, Working
  <2> QED
    BY <1>3, <2>1, <2>2, <2>3, <2>4, <2>5
<1> QED
  BY <1>1, <1>2, <1>4, QuietAnchored

\* The steps of a run with its page, from PostgreSQL to the last transaction.
LEMMA AnchoredSheet ==
    ASSUME CrawlInv, Alone, Anchored, NEW r \in Run,
           Persist(r) \/ Attempt(r) \/ ReadSheet(r) \/ WriteSheet(r) \/ CommitRead(r)
    PROVE  Anchored'
<1>1. SameJob
  <2>1. UNCHANGED job \/ Fenced(r, "sheet") \/ Fenced(r, "other")
    BY DEF Persist, Attempt, ReadSheet, WriteSheet, CommitRead, Evicted
  <2>2. job \in JobRow
    BY DEF CrawlInv, TypeOK
  <2> QED
    BY <2>1, <2>2 DEF Fenced, SameJob, JobRow
<1>2. SameStatus /\ Working(r)
  BY DEF Persist, Attempt, ReadSheet, WriteSheet, CommitRead, SameStatus, Working
<1>3. Rest(r) /\ run'[r].pc # "choosing"
  <2>1. ASSUME NEW pc \in {"attempt", "reconcile", "commit"}, Goto(r, pc)
        PROVE  Rest(r) /\ run'[r].pc # "choosing"
    BY <2>1, GotoRun DEF CrawlInv
  <2>2. CASE ReadSheet(r)
    BY <2>2 DEF ReadSheet, CrawlInv, TypeOK, RunState, Rest
  <2>3. CASE CommitRead(r)
    <3>1. run' = [run EXCEPT ![r].pc = "committing", ![r].pause = job.pauseRequested]
      BY <1>2, <2>3, NotEvicted DEF CommitRead
    <3> QED
      BY <3>1 DEF CrawlInv, TypeOK, RunState, Rest
  <2>4. CASE Persist(r) \/ Attempt(r) \/ WriteSheet(r)
    <3>1. PICK pc \in {"attempt", "reconcile", "commit"} : Goto(r, pc)
      BY <1>2, <2>4, NotEvicted DEF Persist, Attempt, WriteSheet
    <3> QED
      BY <2>1, <3>1
  <2> QED
    BY <2>2, <2>3, <2>4
<1> QED
  BY <1>1, <1>2, <1>3, QuietAnchored

\* A run that breaks off, or looks at what broke it off.
LEMMA AnchoredBreaks ==
    ASSUME CrawlInv, Alone, Anchored, NEW r \in Run,
           Breaks(r) \/ ErrorRead(r) \/ HandleNoPage(r)
    PROVE  Anchored'
<1>1. SameJob /\ SameStatus /\ Working(r)
  BY DEF Breaks, SearchRefused, Fails, Dies, ErrorRead, HandleNoPage, SameJob, SameStatus,
     Working
<1>2. Rest(r) /\ run'[r].pc # "choosing"
  <2>1. ASSUME NEW kind, ThrowAs(r, kind) PROVE Rest(r) /\ run'[r].pc # "choosing"
    BY <2>1 DEF ThrowAs, CrawlInv, TypeOK, RunState, Rest
  <2>2. CASE SearchRefused(r) \/ Fails(r)
    <3>1. PICK kind : ThrowAs(r, kind)
      BY <2>2 DEF SearchRefused, Fails
    <3> QED
      BY <2>1, <3>1
  <2>3. CASE Dies(r) \/ HandleNoPage(r)
    BY <2>3 DEF Dies, HandleNoPage, CrawlInv, TypeOK, RunState, Rest, Idle
  <2>4. CASE ErrorRead(r)
    BY <1>1, <2>4, NotEvicted DEF ErrorRead, CrawlInv, TypeOK, RunState, Rest
  <2> QED
    BY <2>2, <2>3, <2>4 DEF Breaks
<1> QED
  BY <1>1, <1>2, QuietAnchored

\* Only the current partition is marked.
LEMMA MarkedCurrent ==
    ASSUME TypeOK, NEW p, NEW s, Marked(p, s), p # None => p = job.current
    PROVE  /\ \A q \in Partition : q # job.current => partition'[q].status = partition[q].status
           /\ \A q \in Partition : partition'[q].status \in {partition[q].status, s}
           /\ p = job.current => \A q \in Partition : q = job.current => partition'[q].status = s
BY CreatorSyncAssumption DEF Marked, TypeOK, PartitionRow

LEMMA AnchoredPause ==
    ASSUME CrawlInv, Alone, Anchored, NEW r \in Run, PauseClaimed(r)
    PROVE  Anchored'
<1>1. Working(r) /\ run' = [run EXCEPT ![r] = Idle] /\ run[r].part \in {None, job.current}
  BY DEF PauseClaimed, Working, Alone, RunFits
<1>2. job'.state = "PAUSED" /\ job'.current = job.current
  BY <1>1, NotEvicted DEF PauseClaimed, CrawlInv, TypeOK, JobRow
<1>3. \A p \in Partition : p # job.current => partition'[p].status = partition[p].status
  BY <1>1, CreatorSyncAssumption DEF PauseClaimed
<1> QED
  BY <1>1, <1>2, <1>3, EndsAnchored

LEMMA AnchoredHandles ==
    ASSUME CrawlInv, Alone, Anchored, NEW r \in Run,
           HandleSheetsFailure(r) \/ HandleBusiness(r) \/ HandleTemporary(r) \/ HandleFatal(r)
    PROVE  Anchored'
<1>1. Working(r) /\ run' = [run EXCEPT ![r] = Idle] /\ run[r].part = job.current
  BY DEF HandleSheetsFailure, HandleBusiness, HandleTemporary, HandleFatal, ErrorEnds,
         Working, Alone, RunFits
<1>2. job'.current = job.current /\ job'.state \in {"PAUSED", "WAITING", "ERROR"}
  BY DEF HandleSheetsFailure, HandleBusiness, HandleTemporary, HandleFatal, Released, Stopped,
         CrawlInv, TypeOK, JobRow
<1>3. /\ \A p \in Partition : p # job.current => partition'[p].status = partition[p].status
      /\ job'.state = "WAITING" =>
             \A p \in Partition : p = job.current => partition'[p].status # "ERROR"
  <2>1. CASE HandleSheetsFailure(r)
    <3>1. PICK g \in Received :
             Marked(IF run[r].part = None THEN g[1] ELSE run[r].part, PartStopped(run[r].pause))
      BY <2>1 DEF HandleSheetsFailure
    <3>2. g[1] = job.current
      BY DEF Alone, OneStaged
    <3>3. Marked(job.current, PartStopped(run[r].pause))
      BY <1>1, <3>1, <3>2
    <3>4. PartStopped(run[r].pause) # "ERROR"
      BY DEF PartStopped
    <3> QED
      BY <3>3, <3>4, MarkedCurrent DEF CrawlInv
  <2>2. CASE HandleBusiness(r)
    <3>0. PICK p : p = job.current
      OBVIOUS
    <3>1. PICK pause \in BOOLEAN :
            partition' = [partition EXCEPT ![p].status = PartStopped(pause),
                                               ![p].tries = run[r].tries,
                                               ![p].triesPage = partition[p].pages + 1]
      <4>1. (run[r].pause \/ run[r].tries >= BusinessMax) \in BOOLEAN
        BY DEF CrawlInv, TypeOK, RunState
      <4> QED
        BY <1>1, <2>2, <3>0, <4>1 DEF HandleBusiness
    <3>2. PICK s : s = PartStopped(pause) /\ s # "ERROR"
      BY DEF PartStopped
    <3> QED
      BY <3>0, <3>1, <3>2 DEF CrawlInv, TypeOK, PartitionRow
  <2>3. CASE HandleTemporary(r)
    <3>1. Marked(job.current, PartStopped(run[r].pause))
      BY <1>1, <2>3 DEF HandleTemporary
    <3>2. PartStopped(run[r].pause) # "ERROR"
      BY DEF PartStopped
    <3> QED
      BY <3>1, <3>2, MarkedCurrent DEF CrawlInv
  <2>4. CASE HandleFatal(r)
    <3>1. Marked(job.current, "ERROR") /\ job'.state = "ERROR"
      BY <1>1, <2>4 DEF HandleFatal, CrawlInv, TypeOK, JobRow
    <3> QED
      BY <3>1, MarkedCurrent DEF CrawlInv
  <2> QED
    BY <2>1, <2>2, <2>3, <2>4
<1> QED
  BY <1>1, <1>2, <1>3, EndsAnchored

LEMMA AnchoredClaim ==
    ASSUME CrawlInv, Alone, Anchored, NEW r \in Run, Claim(r)
    PROVE  Anchored'
<1>1. UNCHANGED partition /\ job'.current = job.current
  BY DEF Claim, CrawlInv, TypeOK, JobRow
<1>2. CASE Goto(r, "idle") /\ UNCHANGED job
  <2>1. Rest(r) /\ run'[r].pc = "idle"
    BY <1>2, GotoRun DEF CrawlInv
  <2> QED
    BY <1>1, <1>2, <2>1, QuietAnchored DEF SameJob, SameStatus, Working
<1>3. CASE job'.state = "RUNNING" /\ job.state \in {"RUNNING", "WAITING"} /\ Goto(r, "start")
  <2>1. Rest(r) /\ run'[r].pc = "start"
    BY <1>3, GotoRun DEF CrawlInv
  <2>2. \A q \in Run : run'[q].pc = "choosing" => run[q].pc = "choosing"
    BY <2>1 DEF Rest
  <2> QED
    BY <1>1, <1>3, <2>2 DEF Anchored, CurrentOf
<1>4. job' = [job EXCEPT !.state = "RUNNING", !.lease = r, !.expired = FALSE, !.waiting = FALSE]
      => job'.state = "RUNNING"
  BY DEF CrawlInv, TypeOK, JobRow
<1> QED
  BY <1>2, <1>3, <1>4 DEF Claim

\* A run chooses when the current partition is done.
LEMMA AnchoredChooseRead ==
    ASSUME CrawlInv, Alone, Anchored, NEW r \in Run, ChooseRead(r)
    PROVE  Anchored'
<1>1. Working(r) /\ UNCHANGED <<job, partition>> /\ ~Evicted(r) /\ job.state = "RUNNING"
  BY NotEvicted DEF ChooseRead, Working, Evicted, Anchored
<1>2. CASE Continue(r, job.current)
  <2>1. PICK p : p = job.current
    OBVIOUS
  <2>2. Rest(r) /\ run'[r].pc = "ready"
    BY <1>2, <2>1, ContinuesAlone
  <2> QED
    BY <1>1, <2>2, QuietAnchored DEF SameJob, SameStatus
<1>3. CASE Goto(r, "choosing") /\ (job.current # None => ~Resumable(job.current))
  <2>1. Rest(r) /\ run'[r].pc = "choosing"
    BY <1>3, GotoRun DEF CrawlInv
  <2>2. ~CurrentOf(Started)
    <3>1. ASSUME NEW p \in Partition, job.current = p PROVE partition[p].status \notin Started
      <4>1. partition[p].status # "ERROR" /\ ~Resumable(p)
        BY <1>1, <1>3, <3>1, CreatorSyncAssumption DEF Anchored, CurrentOf
      <4> QED
        BY <4>1 DEF Resumable, Started
    <3> QED
      BY <3>1 DEF CurrentOf
  <2>3. ~CurrentOf(Started)'
    BY <1>1, <2>2 DEF CurrentOf
  <2>4. /\ \A q \in Run : Working(q)' => job'.state = "RUNNING"
        /\ \A p \in Partition : partition'[p].status \in Started => job'.current = p
        /\ job'.state # "EXHAUSTED"
        /\ ~CurrentOf({"ERROR"})'
    BY <1>1 DEF Anchored, CurrentOf
  <2> QED
    BY <2>3, <2>4 DEF Anchored
<1> QED
  BY <1>1, <1>2, <1>3 DEF ChooseRead

\* What is left when nothing is begun and nothing but marked seeds is queued.
LEMMA AllSettled ==
    ASSUME NEW st \in [Partition -> PartitionRow],
           \A p \in Partition : st[p].status = "QUEUED" => st[p].skipped,
           \A p \in Partition : st[p].status \notin Started
    PROVE  \A p \in Partition : Settled(st[p])
<1> SUFFICES ASSUME NEW p \in Partition PROVE Settled(st[p])
  OBVIOUS
<1>1. st[p].status \in PartitionStatus /\ st[p].status \notin Started
  BY DEF PartitionRow
<1> QED
  BY <1>1 DEF PartitionStatus, Started, Settled

\* A partition is chosen, or the crawl is exhausted, when nothing is begun.
LEMMA AnchoredChooseWrite ==
    ASSUME CrawlInv, Alone, Anchored, NEW r \in Run, ChooseWrite(r)
    PROVE  Anchored'
<1>1. Working(r) /\ Holds(r) /\ run[r].pc = "choosing" /\ job.state = "RUNNING"
  BY NotEvicted DEF ChooseWrite, Working, Anchored
<1>2. \A p \in Partition : partition[p].status \notin Started
  BY <1>1 DEF Anchored, CurrentOf
<1>3. PICK st : /\ Offers(st)
                /\ \/ /\ \A p \in Partition : st[p].status = "QUEUED" => st[p].skipped
                      /\ partition' = st
                      /\ job' = [job EXCEPT !.state = "EXHAUSTED", !.stage = "other",
                                            !.current = None, !.lease = None,
                                            !.expired = FALSE]
                      /\ run' = [run EXCEPT ![r] = Idle]
                   \/ \E p \in Partition :
                      /\ partition' = Chosen(st, p)
                      /\ job' = [job EXCEPT !.current = p, !.stage = "other"]
                      /\ Continue(r, p)
  BY <1>1, Chooses
<1>4. st \in [Partition -> PartitionRow] /\ \A p \in Partition : st[p].status \notin Started
  BY <1>2, <1>3 DEF Offers, Started
<1>5. \A q \in Run : q # r => ~Working(q)
  BY <1>1, Sole DEF Alone
<1>6. CASE /\ \A p \in Partition : st[p].status = "QUEUED" => st[p].skipped
           /\ partition' = st
           /\ job' = [job EXCEPT !.state = "EXHAUSTED", !.stage = "other",
                                 !.current = None, !.lease = None, !.expired = FALSE]
           /\ run' = [run EXCEPT ![r] = Idle]
  <2>1. job'.state = "EXHAUSTED"
    BY <1>6 DEF CrawlInv, TypeOK, JobRow
  <2>2. \A q \in Run : ~Working(q)' /\ run'[q].pc # "choosing"
    <3>1. ASSUME NEW q \in Run PROVE run'[q].pc \in {"idle", "seen"}
      BY <1>5, <1>6 DEF CrawlInv, TypeOK, Idle, Working
    <3> QED
      BY <3>1 DEF Working
  <2>3. \A p \in Partition : Settled(partition'[p])
    BY <1>4, <1>6, AllSettled
  <2> QED
    BY <1>4, <1>6, <2>1, <2>2, <2>3 DEF Anchored
<1>7. ASSUME NEW p \in Partition, partition' = Chosen(st, p),
             job' = [job EXCEPT !.current = p, !.stage = "other"], Continue(r, p)
      PROVE  Anchored'
  <2>1. job'.state = "RUNNING" /\ job'.current = p
    BY <1>1, <1>7 DEF CrawlInv, TypeOK, JobRow
  <2>2. /\ partition'[p].status = "RUNNING"
        /\ \A q \in Partition : q # p => partition'[q].status \notin Started
    BY <1>4, <1>7, ChosenKeeps
  <2>3. \A q \in Run : run'[q].pc # "choosing"
    <3>1. Rest(r) /\ run'[r].pc = "ready"
      BY <1>7, ContinuesAlone
    <3>2. \A q \in Run : q # r => run[q].pc # "choosing"
      BY <1>5 DEF Working
    <3> QED
      BY <3>1, <3>2 DEF Rest
  <2>4. ~CurrentOf({"ERROR"})'
    BY <2>1, <2>2 DEF CurrentOf
  <2> QED
    BY <2>1, <2>2, <2>3, <2>4 DEF Anchored
<1> QED
  BY <1>3, <1>6, <1>7

LEMMA AnchoredBegin ==
    ASSUME CrawlInv, Alone, Anchored, NEW r \in Run, Begin(r)
    PROVE  Anchored'
<1>1. /\ Working(r) /\ UNCHANGED job /\ Goto(r, "search") /\ run[r].part = job.current
      /\ partition' = [partition EXCEPT ![run[r].part].status = "RUNNING"]
  BY DEF Begin, Working, Alone, RunFits, PagePC
<1>2. Rest(r) /\ run'[r].pc = "search" /\ job.state = "RUNNING"
  BY <1>1, GotoRun DEF CrawlInv, Anchored
<1>3. /\ \A p \in Partition : p # job.current => partition'[p].status = partition[p].status
      /\ \A p \in Partition : p = job.current => partition'[p].status = "RUNNING"
  BY <1>1 DEF CrawlInv, TypeOK, PartitionRow
<1>4. \A q \in Run : run'[q].pc # "choosing"
  <2>1. \A q \in Run : q # r => run[q].pc # "choosing"
    BY <1>1, Sole DEF Alone, Working
  <2> QED
    BY <1>2, <2>1 DEF Rest
<1>5. ~CurrentOf({"ERROR"})'
  BY <1>1, <1>3 DEF CurrentOf
<1> QED
  BY <1>1, <1>2, <1>3, <1>4, <1>5 DEF Anchored

\* The partition stays current until its last page is committed.
LEMMA AnchoredCommit ==
    ASSUME CrawlInv, Alone, Anchored, NEW r \in Run, CommitWrite(r)
    PROVE  Anchored'
<1> DEFINE g    == PageOf(r)
           st   == Advanced(g, run[r].pause)
           more == g[2] < LastPage[g[1]]
           goOn == more \/ Queued(st) # {}
<1>1. /\ Working(r) /\ Holds(r) /\ g \in Page /\ g[1] = job.current /\ g[1] \in Partition
      /\ run[r].pc \in StagedPC
  <2>1. run[r].pc \in StagedPC
    BY DEF CommitWrite, StagedPC
  <2> QED
    BY <2>1, OnStagedPage, PageParts
<1>2. /\ partition' = st /\ run' = [run EXCEPT ![r] = Idle]
      /\ job'.current = (IF more THEN g[1] ELSE None)
      /\ job'.state = IF run[r].pause THEN "PAUSED"
                      ELSE IF goOn THEN "RUNNING" ELSE "EXHAUSTED"
  BY <1>1 DEF CommitWrite, CrawlInv, TypeOK, JobRow
<1> HIDE DEF g
<1>3. \A q \in Run : ~Working(q)' /\ run'[q].pc # "choosing"
  <2>1. \A q \in Run : q # r => ~Working(q)
    BY <1>1, Sole DEF Alone
  <2>2. ASSUME NEW q \in Run PROVE run'[q].pc \in {"idle", "seen"}
    BY <1>2, <2>1 DEF CrawlInv, TypeOK, Idle, Working
  <2> QED
    BY <2>2 DEF Working
<1>4. CASE more
  <2>1. PICK s \in {"PAUSED", "RUNNING"} : s = IF run[r].pause THEN "PAUSED" ELSE "RUNNING"
    OBVIOUS
  <2>2. partition' = [AdvancedCursor(g) EXCEPT ![g[1]].status = s]
    BY <1>2, <1>4, <2>1 DEF Advanced
  <2>3. /\ \A p \in Partition : p # g[1] => partition'[p].status = partition[p].status
        /\ partition'[g[1]].status = s
    BY <1>1, <2>2 DEF AdvancedCursor, CrawlInv, TypeOK, PartitionRow
  <2>4. job'.current = g[1] /\ job'.state \in {"PAUSED", "RUNNING"}
    BY <1>2, <1>4
  <2>5. ~CurrentOf({"ERROR"})'
    BY <2>3, <2>4 DEF CurrentOf
  <2> QED
    BY <1>1, <1>3, <2>3, <2>4, <2>5 DEF Anchored
<1>5. CASE ~more
  <2> DEFINE done == [partition EXCEPT ![g[1]].status = "COMPLETE", ![g[1]].cursor = 0,
                                       ![g[1]].pages = @ + 1]
  <2>1. partition' = ExpandReadyBranches(done)
    BY <1>2, <1>5 DEF Advanced
  <2>2. /\ done \in [Partition -> PartitionRow]
        /\ \A p \in Partition : done[p].status =
               IF p = g[1] THEN "COMPLETE" ELSE partition[p].status
    <3>1. partition \in [Partition -> PartitionRow] /\ partition[g[1]] \in PartitionRow
      BY <1>1 DEF CrawlInv, TypeOK
    <3>2. PICK old \in PartitionRow : old = partition[g[1]]
      BY <3>1
    <3>5. PICK row : row = [old EXCEPT !.status = "COMPLETE", !.cursor = 0, !.pages = @ + 1]
      OBVIOUS
    <3>3. row \in PartitionRow /\ row.status = "COMPLETE"
      <4>1. old.pages + 1 \in Nat
        BY DEF PartitionRow
      <4> QED
        BY <3>2, <3>5, <4>1 DEF PartitionRow, PartitionStatus
    <3>4. done = [partition EXCEPT ![g[1]] = row]
      BY <1>1, <3>1, <3>2, <3>5
    <3> HIDE DEF done
    <3> QED
      BY <3>1, <3>3, <3>4
  <2> HIDE DEF done
  <2>3. \A p \in Partition : done[p].status \notin Started
    BY <1>1, <2>2 DEF Anchored, Started
  <2>4. \A p \in Partition : partition'[p].status \notin Started
    BY <2>1, <2>2, <2>3, ExpandStatus DEF Started
  <2>5. job'.current = None
    BY <1>2, <1>5
  <2>6. job'.state = "EXHAUSTED" =>
            \A p \in Partition : Settled(partition'[p])
    <3>1. partition' \in [Partition -> PartitionRow]
      BY <2>1, <2>2, ExpandKeeps
    <3>2. job'.state = "EXHAUSTED" => \A p \in Partition : partition'[p].status # "QUEUED"
      BY <1>2 DEF Queued
    <3> QED
      BY <2>4, <3>1, <3>2, AllSettled
  <2>7. ~CurrentOf({"ERROR"})'
    BY <2>5, CreatorSyncAssumption DEF CurrentOf
  <2> QED
    BY <1>3, <2>4, <2>6, <2>7 DEF Anchored
<1> QED
  BY <1>4, <1>5

\* Steps of no run that mark at most the current partition.
LEMMA StillAnchored ==
    ASSUME Anchored, UNCHANGED run, job'.current = job.current,
           job'.state # "EXHAUSTED" \/ (job'.state = job.state /\ SameStatus),
           \A p \in Partition : p # job.current => partition'[p].status = partition[p].status,
           \A p \in Partition : p = job.current /\ partition[p].status \notin Started =>
               partition'[p].status = partition[p].status,
           job'.state \in {"RUNNING", "WAITING"} => ~CurrentOf({"ERROR"})',
           job'.state = job.state \/ job'.state = "RUNNING" \/ \A q \in Run : ~Working(q)
    PROVE  Anchored'
<1>1. \A q \in Run : Working(q)' => job'.state = "RUNNING"
  BY DEF Anchored, Working
<1>2. \A p \in Partition : partition'[p].status \in Started => job'.current = p
  BY DEF Anchored
<1>3. job'.state = "EXHAUSTED" =>
          \A p \in Partition : Settled(partition'[p])
  BY DEF Anchored, SameStatus, Settled
<1>4. \A q \in Run : run'[q].pc = "choosing" => ~CurrentOf(Started)'
  BY DEF Anchored, CurrentOf
<1> QED
  BY <1>1, <1>2, <1>3, <1>4 DEF Anchored

\* ... or none at all.
LEMMA StaysAnchored ==
    ASSUME Anchored, UNCHANGED run, SameJob, SameStatus
    PROVE  Anchored'
<1>1. CurrentOf({"ERROR"})' => CurrentOf({"ERROR"})
  BY DEF CurrentOf, SameJob, SameStatus
<1> QED
  BY <1>1, StillAnchored DEF SameJob, SameStatus, Anchored

\* A request that writes what still holds finds the current partition, and a
\* run at work when there is a lease.
LEMMA AnchoredPauseWrite ==
    ASSUME CrawlInv, Alone, Anchored, PauseWrite,
           operator.current = job.current, operator.leased = (job.lease # None)
    PROVE  Anchored'
<1>1. UNCHANGED run /\ job'.current = job.current
  BY DEF PauseWrite, Answered, CrawlInv, TypeOK, JobRow
<1>2. CASE operator.leased
  <2>1. SameJob /\ SameStatus
    BY <1>2 DEF PauseWrite, SameJob, SameStatus, CrawlInv, TypeOK, JobRow
  <2> QED
    BY <1>1, <2>1, StaysAnchored
<1>3. CASE ~operator.leased
  <2> DEFINE p == operator.current
             m == IF p # None /\ partition[p].status \in {"RUNNING", "WAITING_RETRY", "ERROR"}
                  THEN p ELSE None
  <2>1. job'.state = "PAUSED" /\ Marked(m, "PAUSED")
    BY <1>3 DEF PauseWrite, CrawlInv, TypeOK, JobRow
  <2>2. \A q \in Run : ~Working(q)
    <3>1. job.lease = None
      BY <1>3
    <3>2. \A q \in Run : Working(q) => job.lease = q
      BY DEF Alone, LeaseOwned, Holds
    <3>3. None \notin Run
      BY CreatorSyncAssumption
    <3> QED
      BY <3>1, <3>2, <3>3
  <2>3. m # None => m = job.current /\ partition[m].status \in Started
    BY DEF Started
  <2> HIDE DEF m
  <2>4. \A q \in Partition : q # job.current => partition'[q].status = partition[q].status
    BY <2>1, <2>3, MarkedCurrent DEF CrawlInv
  <2>5. \A q \in Partition : q = job.current /\ partition[q].status \notin Started =>
            partition'[q].status = partition[q].status
    <3>1. ASSUME NEW q \in Partition, q = job.current, partition[q].status \notin Started
          PROVE  partition'[q].status = partition[q].status
      <4>1. m = None
        BY <2>3, <3>1
      <4> QED
        BY <2>1, <4>1 DEF Marked
    <3> QED
      BY <3>1
  <2> QED
    BY <1>1, <2>1, <2>2, <2>4, <2>5, StillAnchored
<1> QED
  BY <1>2, <1>3

LEMMA AnchoredResumeWrite ==
    ASSUME CrawlInv, Alone, Anchored, ResumeWrite, operator.current = job.current
    PROVE  Anchored'
<1> DEFINE p == operator.current
<1>1. UNCHANGED run /\ job'.current = job.current /\ job'.state = "RUNNING"
  BY DEF ResumeWrite, Answered, CrawlInv, TypeOK, JobRow
<1>2. CASE p # None /\ partition[p].status \in {"PAUSED", "ERROR"}
  <2>1. p \in Partition
    BY <1>2 DEF CrawlInv, TypeOK, Request
  <2>2. PICK x, y : partition' = [partition EXCEPT ![p].status = "RUNNING",
                                                   ![p].tries = x, ![p].triesPage = y]
    BY <1>2 DEF ResumeWrite
  <2>3. /\ \A q \in Partition : q # p => partition'[q].status = partition[q].status
        /\ partition'[p].status = "RUNNING"
    BY <2>1, <2>2 DEF CrawlInv, TypeOK, PartitionRow
  <2>4. ~CurrentOf({"ERROR"})' /\ partition[p].status \in Started
    BY <1>1, <1>2, <2>3 DEF CurrentOf, Started
  <2> QED
    BY <1>1, <2>3, <2>4, StillAnchored
<1>3. CASE ~(p # None /\ partition[p].status \in {"PAUSED", "ERROR"})
  <2>1. UNCHANGED partition
    BY <1>3 DEF ResumeWrite
  <2>2. ~CurrentOf({"ERROR"})'
    BY <1>1, <1>3, <2>1, CreatorSyncAssumption DEF CurrentOf
  <2> QED
    BY <1>1, <2>1, <2>2, StillAnchored
<1> QED
  BY <1>2, <1>3

LEMMA AnchoredCommand ==
    ASSUME CrawlInv, Alone, Anchored, ~overlapped', ~overtaken', Command
    PROVE  Anchored'
<1>1. CASE PauseRead \/ ResumeRead \/ InitializeRead
  <2>1. UNCHANGED <<run, job, partition>>
    BY <1>1 DEF PauseRead, ResumeRead, InitializeRead, Ask
  <2> QED
    BY <2>1, StaysAnchored DEF SameJob, SameStatus
<1>2. CASE PauseWrite
  BY <1>2, AnchoredPauseWrite DEF PauseWrite, Answered
<1>3. CASE ResumeWrite
  BY <1>3, AnchoredResumeWrite DEF ResumeWrite, Answered
<1>4. CASE InitializeWrite
  <2>1. UNCHANGED <<run, partition>> /\ job'.current = job.current /\ job'.state = "PAUSED"
    BY <1>4 DEF InitializeWrite, Answered, CrawlInv, TypeOK, JobRow
  <2>2. \A q \in Run : ~Working(q)
    BY <1>4, NoneUsurped DEF InitializeWrite
  <2> QED
    BY <2>1, <2>2, StillAnchored
<1> QED
  BY <1>1, <1>2, <1>3, <1>4 DEF Command

LEMMA AnchoredTime ==
    ASSUME CrawlInv, Anchored, ExpireLease \/ Elapse
    PROVE  Anchored'
<1>1. UNCHANGED <<run, partition>> /\ SameJob
  BY DEF ExpireLease, Elapse, SameJob, CrawlInv, TypeOK, JobRow
<1> QED
  BY <1>1, StaysAnchored DEF SameStatus

\* A request that wrote after what it had read had changed is remembered.
LEMMA OvertakenStays ==
    ASSUME CrawlInv, [Next]_vars, overtaken
    PROVE  overtaken'
<1>1. ASSUME NEW r \in Run, Step(r) PROVE overtaken'
  BY <1>1 DEF Step, See, Claim, Start, Import, PauseClaimed, ChooseRead, ChooseWrite, Ready,
     Begin, SearchAnswered, StageReceipt, Load, Persist, Attempt, ReadSheet, WriteSheet,
     CommitRead, CommitWrite, ErrorRead, HandleSheetsFailure, HandleNoPage, HandleBusiness,
     HandleTemporary, HandleFatal, ErrorEnds, environment
<1>2. ASSUME NEW r \in Run, Breaks(r) PROVE overtaken'
  BY <1>2 DEF Breaks, SearchRefused, Fails, Dies, environment
<1>3. CASE ExpireLease \/ Elapse
  BY <1>3 DEF ExpireLease, Elapse, environment
<1>4. CASE Command
  BY <1>4 DEF Command, PauseRead, PauseWrite, ResumeRead, ResumeWrite, InitializeRead,
     InitializeWrite, Ask, Answered
<1>5. CASE UNCHANGED vars
  BY <1>5 DEF vars
<1> QED
  BY <1>1, <1>2, <1>3, <1>4, <1>5 DEF Next

LEMMA AnchoredNext ==
    ASSUME CrawlInv, CrawlInv', ~overlapped => Alone,
           ~overlapped /\ ~overtaken => Anchored, [Next]_vars
    PROVE  (~overlapped /\ ~overtaken => Anchored)'
<1> SUFFICES ASSUME ~overlapped', ~overtaken' PROVE Anchored'
  OBVIOUS
<1>1. Alone /\ Anchored
  BY OverlapStays, OvertakenStays
<1>2. ASSUME NEW r \in Run, Step(r) PROVE Anchored'
  BY <1>1, <1>2, AnchoredMoves, AnchoredClaim, AnchoredPause, AnchoredChooseRead,
     AnchoredChooseWrite, AnchoredBegin, AnchoredSheet, AnchoredCommit, AnchoredBreaks,
     AnchoredHandles DEF Step
<1>3. ASSUME NEW r \in Run, Breaks(r) PROVE Anchored'
  BY <1>1, <1>3, AnchoredBreaks
<1>4. CASE ExpireLease \/ Elapse \/ Command
  BY <1>1, <1>4, AnchoredTime, AnchoredCommand
<1>5. CASE UNCHANGED vars
  BY <1>1, <1>5, StaysAnchored DEF vars, SameJob, SameStatus
<1> QED
  BY <1>2, <1>3, <1>4, <1>5 DEF Next

LEMMA AnchoredInit ==
    ASSUME Init
    PROVE  Anchored
<1>1. \A p \in Partition : partition[p].status \notin Started
  BY DEF Init, Started, Waiting
<1>2. job.state = "PAUSED" /\ \A r \in Run : run[r].pc = "idle"
  BY DEF Init, Idle
<1> QED
  BY <1>1, <1>2 DEF Anchored, Working, CurrentOf

\* A partition that was begun and is not complete is the current one, and an
\* exhausted crawl has crawled everything but the partitions kept for rare
\* probes and the seeds marked as skipped: no retry, pause, resume, error or
\* death leaves a partition behind, as long as no run goes on without its lease
\* and no request writes what it had read before (claimPartition, commitPage,
\* handleError, CreatorDatabaseService.pause and resume).
THEOREM NoPartitionStranded == Spec => []NoneStranded
<1> DEFINE Inv == /\ CrawlInv
                  /\ ~overlapped => Alone
                  /\ ~overlapped /\ ~overtaken => Anchored
<1>1. Init => Inv
  BY Initially, AloneInit, AnchoredInit
<1>2. Inv /\ [Next]_vars => Inv'
  BY Inductive, AloneNext, AnchoredNext
<1>3. Inv => NoneStranded
  BY DEF Anchored, NoneStranded, Settled, LeftAside
<1> QED
  BY <1>1, <1>2, <1>3, PTL DEF Spec

=============================================================================
