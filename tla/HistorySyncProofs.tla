-------------------------- MODULE HistorySyncProofs --------------------------
(***************************************************************************)
(* Proofs about HistorySync, for any ticks, conversations, arrivals and    *)
(* bounds: its states are well typed, a backfill that is reported complete *)
(* is complete, and the cursor never leaves a message of its page behind.  *)
(*                                                                         *)
(* What holds all along is that the conversations listed before the cursor *)
(* lack nothing, but for those with new activity, which move to the head   *)
(* of the list (Seen).  That needs the page that is read: while the list   *)
(* is, no work of it is begun; while messages are, what the page owes is   *)
(* stored or still open, and only the open work is missing before the      *)
(* next page (ListPhase, MessagePhase).  A tick may have lost its lease,   *)
(* and what it took must be harmless then (TickFits: a message read behind *)
(* the newer ones, a finish only of a complete import); what the tick with *)
(* the lease took is of the page the job is at (OwnerFits), because every  *)
(* step that leaves the page gives up the lease.                           *)
(***************************************************************************)
EXTENDS HistorySync, TLAPS

Length == Len(FirstOrder)

\* What the rows are indifferent to: requests under way, and their bound.
OperatorOK == requests \subseteq Requests /\ pauses \in 0..MaxPauses
USE DEF OperatorOK, Requested

\* TikTok lists every conversation.
OrderOK ==
  /\ order \in [1..Length -> Conversations]
  /\ \A c \in Conversations : \E i \in 1..Length : order[i] = c

\* Every conversation without new activity among the first b of a list o is
\* imported, but for those in S.
SeenIn(o, s, im, b, S) ==
  \A i \in 1..Length :
    i <= b /\ s[o[i]] = 1 => <<o[i], 1>> \in im \/ o[i] \in S

Seen(b, S) == SeenIn(order, sent, imported, b, S)

CompleteIn(s, im) == \A c \in Conversations : s[c] = 1 => <<c, 1>> \in im
Complete == CompleteIn(sent, imported)

\* The job before it is created, and the pass that only a complete import has.
JobOK ==
  /\ job.state = "NONE" => job = [NewJob EXCEPT !.state = "NONE"]
  /\ job.mode = "INCREMENTAL" <=> job.initial
  /\ job.pass = "INCREMENTAL" => job.initial

WorkOK ==
  \A c \in Conversations :
    /\ work[c].token \in 0..sent[c]
    /\ work[c].state # "OPEN" => work[c].token = 0
    /\ work[c].state = "COMPLETE" => <<c, 1>> \in imported

\* What the page last listed owes: messages are read from the newest down.
Read(g) ==
  \/ g \in imported
  \/ /\ work[g[1]].state = "OPEN"
     /\ work[g[1]].token = 0 \/ g[2] <= work[g[1]].token

ListedOK == \A g \in listed : g[2] <= sent[g[1]]

\* While the list is read, no work of this sequence is begun; while messages
\* are, the pages behind the cursor lack nothing but the open work.
ListPhase ==
  job.phase = "LIST" /\ job.pass # "INCREMENTAL" =>
    /\ \A c \in Conversations : work[c].state # "COMPLETE" /\ work[c].token = 0
    /\ \A t \in Ticks : at[t] = "messages" => held[t].page # "current"

Frontier == IF job.more THEN job.next ELSE Length

MessagePhase ==
  job.phase = "MESSAGES" =>
    /\ job.pass = "BACKFILL" => Seen(Frontier, OpenWork)
    /\ job.pass # "INCREMENTAL" => \A g \in listed : Read(g)

\* What a tick at x with h took still holds, whoever has the lease now ...
TickFits(x, h) ==
  /\ x = "found" /\ h.was = "COMPLETE" => job.initial
  /\ x = "recover" /\ h.mode = "INCREMENTAL" => job.initial
  /\ x = "messages" =>
       /\ h.token \in 1..sent[h.conv]
       /\ h.more <=> h.token > 1
       /\ h.page = "current" /\ job.pass # "INCREMENTAL" =>
            \A g \in listed : g[1] = h.conv /\ g[2] > h.token => g \in imported
  /\ x = "finish" => Complete

\* ... and what the tick took that has the lease is of this page.
OwnerFits(x, h) ==
  /\ x = "list" =>
       /\ job.phase = "LIST" /\ h.page = "current"
       /\ job.pass = "BACKFILL" => Seen(IF h.more THEN h.token ELSE Length, {h.conv})
  /\ x = "advance" /\ job.pass = "BACKFILL" =>
       job.more /\ Seen(job.next, {}) /\ listed \subseteq imported
  /\ x = "finish" => listed \subseteq imported

ImportInv ==
  /\ HistoryTypeOK
  /\ OrderOK
  /\ JobOK
  /\ WorkOK
  /\ ListedOK
  /\ Seen(job.back, {})
  /\ ListPhase
  /\ MessagePhase
  /\ \A t \in Ticks : TickFits(at[t], held[t])
  /\ \A t \in Ticks : job.owner = t => OwnerFits(at[t], held[t])
  /\ job.initial \/ proven => Complete

-----------------------------------------------------------------------------
(* Time passes at TikTok *)

\* What is quiet later was quiet before, and no further down the list.
Later(o, s, o2, s2) ==
  \A j \in 1..Length :
    s2[o2[j]] = 1 => \E i \in 1..Length : i <= j /\ o[i] = o2[j] /\ s[o[i]] = 1

LEMMA SeenLater ==
  ASSUME NEW o, NEW s, NEW im, NEW o2, NEW s2, NEW im2, NEW b \in Nat, NEW S, NEW S2,
         Length \in Nat, Later(o, s, o2, s2), im \subseteq im2, SeenIn(o, s, im, b, S),
         \A c \in S : c \in S2 \/ <<c, 1>> \in im2
  PROVE  SeenIn(o2, s2, im2, b, S2)
<1> SUFFICES ASSUME NEW j \in 1..Length, j <= b, s2[o2[j]] = 1
             PROVE  <<o2[j], 1>> \in im2 \/ o2[j] \in S2
  BY DEF SeenIn
<1>1. PICK i \in 1..Length : i <= j /\ o[i] = o2[j] /\ s[o[i]] = 1
  BY DEF Later
<1>2. i <= b
  BY <1>1
<1>3. <<o[i], 1>> \in im \/ o[i] \in S
  BY <1>1, <1>2 DEF SeenIn
<1> QED
  BY <1>1, <1>3

LEMMA StillLater == \A o, s : Length \in Nat => Later(o, s, o, s)
BY DEF Later

\* Nothing imported is lost and no message is withdrawn.
Progress ==
  /\ Later(order, sent, order', sent')
  /\ imported \subseteq imported'
  /\ \A c \in Conversations : sent[c] \in Nat /\ sent'[c] \in Nat /\ sent[c] <= sent'[c] /\ 1 <= sent[c]

LEMMA LengthNat == Length \in Nat /\ Length # 0 /\ \A i \in 1..Length : FirstOrder[i] \in Conversations
BY HistoryBounds DEF Length

LEMMA Progresses ==
  ASSUME ImportInv, UNCHANGED <<order, sent>>, imported \subseteq imported'
  PROVE  Progress
BY StillLater, LengthNat DEF Progress, ImportInv, HistoryTypeOK

LEMMA SeenGoesOn ==
  ASSUME Progress, NEW b \in Nat, NEW S, Seen(b, S)
  PROVE  SeenIn(order', sent', imported', b, S)
BY SeenLater, LengthNat DEF Progress, Seen

LEMMA CompleteGoesOn ==
  ASSUME Progress, Complete
  PROVE  Complete'
<1> SUFFICES ASSUME NEW c \in Conversations, sent'[c] = 1 PROVE <<c, 1>> \in imported'
  BY DEF Complete, CompleteIn
<1>1. sent[c] = 1
  BY DEF Progress
<1> QED
  BY <1>1 DEF Complete, CompleteIn, Progress

\* A tick that a step leaves alone, or whose page the step takes away.
SameHeld(h, h2) ==
  /\ h2.conv = h.conv /\ h2.token = h.token /\ h2.more = h.more
  /\ h2.was = h.was /\ h2.mode = h.mode

LEMMA OtherTick ==
  ASSUME ImportInv, Progress, job.initial => job'.initial, NEW q \in Ticks,
         at'[q] = at[q], SameHeld(held[q], held'[q]),
         at[q] = "messages" /\ held'[q].page = "current" /\ job'.pass # "INCREMENTAL" =>
           held[q].page = "current" /\ job.pass # "INCREMENTAL" /\ listed' = listed
  PROVE  TickFits(at[q], held[q])'
<1> DEFINE x == at[q]
           h == held[q]
           h2 == held'[q]
<1>1. TickFits(x, h) /\ h \in Held
  BY DEF ImportInv, HistoryTypeOK
<1>2. h.conv \in Conversations /\ h.token \in Nat
  BY <1>1 DEF Held
<1>3. at'[q] = x /\ SameHeld(h, h2)
  OBVIOUS
<1>4. x = "messages" => h2.token \in 1..sent'[h2.conv] /\ (h2.more <=> h2.token > 1)
  BY <1>1, <1>2, <1>3 DEF TickFits, Progress, SameHeld
<1>5. x = "finish" => Complete'
  BY <1>1, CompleteGoesOn DEF TickFits
<1>6. x = "messages" /\ h2.page = "current" /\ job'.pass # "INCREMENTAL" =>
        \A g \in listed' : g[1] = h2.conv /\ g[2] > h2.token => g \in imported'
  BY <1>1, <1>3 DEF TickFits, Progress, SameHeld
<1>7. /\ x = "found" /\ h2.was = "COMPLETE" => job'.initial
      /\ x = "recover" /\ h2.mode = "INCREMENTAL" => job'.initial
  BY <1>1, <1>3 DEF TickFits, SameHeld
<1> QED
  BY <1>3, <1>4, <1>5, <1>6, <1>7 DEF TickFits

\* The tick that has the lease of a job that a step leaves alone.
SamePage ==
  /\ job'.phase = job.phase /\ job'.pass = job.pass
  /\ job'.more = job.more /\ job'.next = job.next

LEMMA OtherOwner ==
  ASSUME ImportInv, Progress, NEW q \in Ticks, job.owner = q, at'[q] = at[q],
         held'[q] = held[q], listed' = listed, SamePage
  PROVE  OwnerFits(at[q], held[q])'
<1> DEFINE x == at[q]
           h == held[q]
<1>1. OwnerFits(x, h) /\ h \in Held /\ job.next \in Nat
  BY DEF ImportInv, HistoryTypeOK, Jobs
<1>2. h.token \in Nat /\ Length \in Nat
  BY <1>1, LengthNat DEF Held
<1>3. x = "list" => /\ job'.phase = "LIST" /\ h.page = "current"
                    /\ job'.pass = "BACKFILL" =>
                         SeenIn(order', sent', imported',
                                IF h.more THEN h.token ELSE Length, {h.conv})
  <2>1. PICK b \in Nat : b = IF h.more THEN h.token ELSE Length
    BY <1>2
  <2> QED
    BY <1>1, <2>1, SeenGoesOn DEF OwnerFits, SamePage
<1>4. x = "advance" /\ job'.pass = "BACKFILL" =>
        job'.more /\ SeenIn(order', sent', imported', job'.next, {}) /\ listed' \subseteq imported'
  BY <1>1, SeenGoesOn DEF OwnerFits, SamePage, Progress
<1>5. x = "finish" => listed' \subseteq imported'
  BY <1>1 DEF OwnerFits, Progress
<1>6. at'[q] = x /\ held'[q] = h
  OBVIOUS
<1> HIDE DEF x, h
<1> QED
  BY <1>3, <1>4, <1>5, <1>6 DEF OwnerFits, Seen

Stages == {"idle", "found", "claimed", "list", "messages", "advance", "finish"} \cup Errors
          \cup {"recover", "backOff", "fail"}

\* What the invariant says of the rows, which no step of a tick alone changes.
RowsOK ==
  /\ OrderOK /\ JobOK /\ WorkOK /\ ListedOK
  /\ Seen(job.back, {})
  /\ MessagePhase
  /\ job.initial \/ proven => Complete

LEMMA RowsKept ==
  ASSUME RowsOK, UNCHANGED <<order, sent, job, work, imported, proven, listed>>
  PROVE  RowsOK'
<1>1. OrderOK' /\ WorkOK' /\ ListedOK'
  BY DEF RowsOK, OrderOK, WorkOK, ListedOK
<1>2. JobOK'
  BY DEF RowsOK, JobOK
<1>3. Seen(job.back, {})'
  BY DEF RowsOK, Seen, SeenIn
<1>4. MessagePhase'
  BY DEF RowsOK, MessagePhase, Seen, SeenIn, Frontier, OpenWork, Read
<1>5. (job.initial \/ proven => Complete)'
  BY DEF RowsOK, Complete, CompleteIn
<1> QED
  BY <1>1, <1>2, <1>3, <1>4, <1>5 DEF RowsOK

\* A tick goes on and the rows stay.
LEMMA TickMoves ==
  ASSUME ImportInv, NEW t \in Ticks,
         UNCHANGED <<Provider, job, work, imported, proven, listed>>,
         NEW x \in Stages, NEW h \in Held,
         at' = [at EXCEPT ![t] = x], held' = [held EXCEPT ![t] = h],
         faults' \in 0..MaxFaults, UNCHANGED Requested,
         TickFits(x, h), job.owner = t => OwnerFits(x, h),
         x = "messages" => job.phase = "MESSAGES"
  PROVE  ImportInv'
<1> USE DEF Provider
<1>1. /\ at \in [Ticks -> Stages] /\ held \in [Ticks -> Held]
      /\ at' \in [Ticks -> Stages] /\ held' \in [Ticks -> Held]
  BY DEF ImportInv, HistoryTypeOK, Stages
<1>2. HistoryTypeOK'
  BY <1>1 DEF ImportInv, HistoryTypeOK, Stages
<1>3. RowsOK'
  <2>1. RowsOK
    BY DEF ImportInv, RowsOK
  <2> QED
    BY <2>1, RowsKept
<1>4. \A q \in Ticks : /\ q = t => at'[q] = x /\ held'[q] = h
                       /\ q # t => at'[q] = at[q] /\ held'[q] = held[q]
  BY <1>1
<1>5. ListPhase'
  BY <1>4 DEF ImportInv, ListPhase
<1>6. ASSUME NEW q \in Ticks PROVE TickFits(at[q], held[q])'
  <2>1. TickFits(at'[q], held'[q])
    BY <1>4 DEF ImportInv
  <2> QED
    BY <2>1 DEF TickFits, Complete, CompleteIn
<1>7. ASSUME NEW q \in Ticks, job'.owner = q PROVE OwnerFits(at[q], held[q])'
  <2>1. OwnerFits(at'[q], held'[q])
    BY <1>4, <1>7 DEF ImportInv
  <2> QED
    BY <2>1 DEF OwnerFits, Seen, SeenIn
<1> QED
  BY <1>2, <1>3, <1>5, <1>6, <1>7 DEF ImportInv, RowsOK

\* A tick that is done, or that does nothing for want of the lease.
LEMMA NoHeldFits == NoHeld \in Held /\ TickFits("idle", NoHeld) /\ OwnerFits("idle", NoHeld)
BY LengthNat DEF NoHeld, Held, TickFits, OwnerFits, Claimables

LEMMA TickEnds ==
  ASSUME ImportInv, NEW t \in Ticks, Done(t),
         UNCHANGED <<Provider, job, work, imported, proven, listed, Requested>>,
         faults' \in 0..MaxFaults
  PROVE  ImportInv'
<1>1. "idle" \in Stages
  BY DEF Stages
<1> QED
  BY <1>1, NoHeldFits, TickMoves DEF Done, Go

LEMMA FindKeeps ==
  ASSUME ImportInv, NEW t \in Ticks, Find(t)
  PROVE  ImportInv'
<1> DEFINE h == [held[t] EXCEPT !.was = job.state]
<1>1. h \in Held /\ h.was = job.state /\ "found" \in Stages
  BY DEF ImportInv, HistoryTypeOK, Held, Find, Stages
<1>2. held' = [held EXCEPT ![t] = h] /\ at' = [at EXCEPT ![t] = "found"]
  BY DEF Find, Go
<1>3. TickFits("found", h) /\ OwnerFits("found", h)
  BY <1>1 DEF TickFits, OwnerFits, ImportInv, HistoryTypeOK
<1>4. /\ UNCHANGED <<Provider, job, work, imported, proven, listed, Requested>>
      /\ faults' \in 0..MaxFaults
  BY DEF Find, Bounds, ImportInv, HistoryTypeOK
<1> HIDE DEF h
<1> QED
  BY <1>1, <1>2, <1>3, <1>4, TickMoves

LEMMA DiesKeeps ==
  ASSUME ImportInv, NEW t \in Ticks, TickDies(t)
  PROVE  ImportInv'
<1>1. /\ Done(t) /\ UNCHANGED <<Provider, job, work, imported, proven, listed, Requested>>
      /\ faults' \in 0..MaxFaults
  BY HistoryBounds DEF TickDies, ImportInv, HistoryTypeOK
<1> QED
  BY <1>1, TickEnds

LEMMA ErrorKeeps ==
  ASSUME ImportInv, NEW t \in Ticks, NEW kind \in Errors, Error(t, kind)
  PROVE  ImportInv'
<1> DEFINE h == [held[t] EXCEPT !.page = "current"]
<1>1. h \in Held /\ kind \in Stages
  BY DEF ImportInv, HistoryTypeOK, Held, Stages
<1>2. held' = [held EXCEPT ![t] = h] /\ at' = [at EXCEPT ![t] = kind]
  BY DEF Error, Go
<1>3. TickFits(kind, h) /\ OwnerFits(kind, h) /\ kind # "messages"
  BY DEF TickFits, OwnerFits, Errors
<1>4. /\ UNCHANGED <<Provider, job, work, imported, proven, listed, Requested>>
      /\ faults' \in 0..MaxFaults
  BY HistoryBounds DEF Error, ImportInv, HistoryTypeOK
<1> HIDE DEF h
<1> QED
  BY <1>1, <1>2, <1>3, <1>4, TickMoves

LEMMA HandleKeeps ==
  ASSUME ImportInv, NEW t \in Ticks, HandleError(t)
  PROVE  ImportInv'
<1>1. /\ UNCHANGED <<Provider, job, work, imported, proven, listed, Requested>>
      /\ faults' \in 0..MaxFaults
  BY DEF HandleError, Bounds, ImportInv, HistoryTypeOK
<1>2. CASE job.owner # t
  BY <1>1, <1>2, TickEnds DEF HandleError
<1>3. CASE job.owner = t
  <2> DEFINE h == [held[t] EXCEPT !.mode = job.mode]
  <2>1. PICK x \in {"recover", "backOff", "fail"} : at' = [at EXCEPT ![t] = x]
    BY <1>3 DEF HandleError, Handler, Errors, Go
  <2>2. held' = [held EXCEPT ![t] = h]
    BY <1>3 DEF HandleError
  <2>3. h \in Held /\ x \in Stages /\ h.mode = job.mode
    BY DEF ImportInv, HistoryTypeOK, Held, Jobs, Stages
  <2>4. TickFits(x, h) /\ OwnerFits(x, h)
    BY <2>3 DEF TickFits, OwnerFits, ImportInv, JobOK
  <2> HIDE DEF h
  <2> QED
    BY <1>1, <2>1, <2>2, <2>3, <2>4, TickMoves
<1> QED
  BY <1>2, <1>3

LEMMA Ranges ==
  ASSUME HistoryTypeOK, WorkOK, NEW c \in Conversations
  PROVE  /\ sent[c] \in Nat /\ 1 <= sent[c] /\ sent[c] <= MaxArrivals + 1
         /\ work[c].token \in Nat /\ work[c].token <= sent[c]
<1>1. sent[c] \in 1..(arrivals + 1) /\ arrivals \in 0..MaxArrivals /\ MaxArrivals \in Nat
  BY HistoryBounds DEF HistoryTypeOK
<1>2. work[c].token \in 0..sent[c]
  BY DEF WorkOK
<1> QED
  BY <1>1, <1>2

LEMMA ReadListKeeps ==
  ASSUME ImportInv, NEW t \in Ticks, ReadList(t), job.owner = t,
         UNCHANGED <<Provider, job, work, imported, proven, listed, Bounds>>
  PROVE  ImportInv'
<1> DEFINE offset == ListCursor(job)
           h == [held[t] EXCEPT !.page = "current", !.conv = order[offset + 1],
                                !.token = IF offset + 1 < Len(order) THEN offset + 1 ELSE 0,
                                !.more = offset + 1 < Len(order)]
<1>1. /\ held' = [held EXCEPT ![t] = h] /\ at' = [at EXCEPT ![t] = "list"]
      /\ offset < Len(order) /\ job.phase = "LIST"
  BY DEF ReadList, Go
<1>2. /\ order \in [1..Length -> Conversations] /\ Len(order) = Length /\ Length \in Nat
      /\ offset \in Nat /\ job.back \in Nat /\ offset + 1 \in 1..Length
      /\ job.pass = "BACKFILL" => offset = job.back
  <2>1. order \in [1..Length -> Conversations] /\ Length \in Nat
    BY LengthNat DEF ImportInv, OrderOK
  <2>2. Len(order) = Length
    BY <2>1
  <2> QED
    BY <1>1, <2>1, <2>2 DEF ImportInv, HistoryTypeOK, Jobs, ListCursor
<1> HIDE DEF offset
<1>3. /\ h \in Held /\ h.page = "current" /\ h.conv = order[offset + 1]
      /\ h.more <=> offset + 1 < Length
      /\ h.more => h.token = offset + 1
  <2>1. PICK m \in BOOLEAN : m = (offset + 1 < Len(order))
    <3>1. (offset + 1 < Len(order)) \in BOOLEAN
      OBVIOUS
    <3> QED
      BY <3>1, Zenon
  <2>3. PICK k : k = IF offset + 1 < Len(order) THEN offset + 1 ELSE 0
    OBVIOUS
  <2>4. k \in Nat
    BY <1>2, <2>3
  <2>5. h = [held[t] EXCEPT !.page = "current", !.conv = order[offset + 1],
                            !.token = k, !.more = m]
    BY <2>1, <2>3, Zenon
  <2>2. held[t] \in Held /\ order[offset + 1] \in Conversations
    BY <1>2 DEF ImportInv, HistoryTypeOK
  <2> HIDE DEF h
  <2> QED
    BY <1>2, <2>1, <2>2, <2>3, <2>4, <2>5 DEF Held
<1> HIDE DEF h
<1>4. TickFits("list", h)
  BY DEF TickFits
<1>5. OwnerFits("list", h)
  <2>1. ASSUME job.pass = "BACKFILL"
        PROVE  Seen(IF h.more THEN h.token ELSE Length, {h.conv})
    <3>1. (IF h.more THEN h.token ELSE Length) = job.back + 1
      <4>1. job.back + 1 \in 1..Length /\ (h.more <=> job.back + 1 < Length)
            /\ (h.more => h.token = job.back + 1)
        BY <1>2, <1>3, <2>1
      <4> QED
        BY <1>2, <4>1
    <3>2. Seen(job.back, {})
      BY DEF ImportInv
    <3>3. Seen(job.back + 1, {h.conv})
      <4>1. ASSUME NEW i \in 1..Length, i <= job.back + 1, sent[order[i]] = 1
            PROVE  <<order[i], 1>> \in imported \/ order[i] \in {h.conv}
        <5>1. CASE i <= job.back
          BY <3>2, <4>1, <5>1 DEF Seen, SeenIn
        <5>2. CASE i = job.back + 1
          BY <1>2, <1>3, <2>1, <5>2
        <5> QED
          BY <1>2, <4>1, <5>1, <5>2
      <4> QED
        BY <4>1 DEF Seen, SeenIn
    <3> QED
      BY <3>1, <3>3
  <2> QED
    BY <1>1, <1>3, <2>1 DEF OwnerFits
<1>6. faults' \in 0..MaxFaults /\ UNCHANGED Requested /\ "list" \in Stages
  BY DEF Bounds, ImportInv, HistoryTypeOK, Stages
<1> QED
  BY <1>1, <1>3, <1>4, <1>5, <1>6, TickMoves

LEMMA ReadMessagesKeeps ==
  ASSUME ImportInv, NEW t \in Ticks, ReadMessages(t), job.owner = t,
         UNCHANGED <<Provider, job, work, imported, proven, listed, Bounds>>
  PROVE  ImportInv'
<1> DEFINE top(c) == IF work[c].token = 0 THEN sent[c] ELSE work[c].token
<1>0. PICK c \in OpenWork :
        held' = [held EXCEPT ![t] = [held[t] EXCEPT !.page = "current", !.conv = c,
                                       !.token = top(c), !.more = top(c) > 1]]
  BY DEF ReadMessages
<1>1. PICK m : m = top(c) /\ m = IF work[c].token = 0 THEN sent[c] ELSE work[c].token
  OBVIOUS
<1> HIDE DEF top
<1> DEFINE h == [held[t] EXCEPT !.page = "current", !.conv = c, !.token = m, !.more = m > 1]
<1>2. c \in Conversations /\ work[c].state = "OPEN"
  BY DEF OpenWork
<1>3. sent[c] \in Nat /\ 1 <= sent[c] /\ work[c].token \in 0..sent[c]
  BY <1>2, Ranges DEF ImportInv
<1>4. m \in 1..sent[c] /\ m \in Nat
  BY <1>1, <1>3
<1>5. /\ h \in Held /\ h.conv = c /\ h.token = m /\ (h.more <=> m > 1)
  <2>1. PICK b \in BOOLEAN : b = (m > 1)
    <3>1. (m > 1) \in BOOLEAN
      OBVIOUS
    <3> QED
      BY <3>1, Zenon
  <2>3. h = [held[t] EXCEPT !.page = "current", !.conv = c, !.token = m, !.more = b]
    BY <2>1, Zenon
  <2>2. held[t] \in Held
    BY DEF ImportInv, HistoryTypeOK
  <2> HIDE DEF h
  <2> QED
    BY <1>2, <1>4, <2>1, <2>2, <2>3 DEF Held
<1>6. held' = [held EXCEPT ![t] = h] /\ at' = [at EXCEPT ![t] = "messages"]
      /\ job.phase = "MESSAGES"
  BY <1>0, <1>1 DEF ReadMessages, Go
<1> HIDE DEF h
<1>7. TickFits("messages", h)
  <2>1. ASSUME job.pass # "INCREMENTAL", NEW g \in listed, g[1] = c, g[2] > m
        PROVE  g \in imported
    <3>1. Read(g) /\ g[2] <= sent[c] /\ g \in Message
      BY <1>6, <2>1 DEF ImportInv, MessagePhase, ListedOK, HistoryTypeOK
    <3>2. g[2] \in Nat
      BY <3>1, HistoryBounds DEF Message
    <3> QED
      BY <1>1, <1>3, <1>4, <2>1, <3>1, <3>2 DEF Read
  <2> QED
    BY <1>4, <1>5, <2>1 DEF TickFits
<1>8. OwnerFits("messages", h)
  BY DEF OwnerFits
<1>9. faults' \in 0..MaxFaults /\ UNCHANGED Requested /\ "messages" \in Stages
  BY DEF Bounds, ImportInv, HistoryTypeOK, Stages
<1> QED
  BY <1>5, <1>6, <1>7, <1>8, <1>9, TickMoves

LEMMA SeenAll ==
  ASSUME OrderOK, Seen(Length, {})
  PROVE  Complete
<1> SUFFICES ASSUME NEW c \in Conversations, sent[c] = 1 PROVE <<c, 1>> \in imported
  BY DEF Complete, CompleteIn
<1>1. PICK i \in 1..Length : order[i] = c
  BY DEF OrderOK
<1> QED
  BY <1>1, LengthNat DEF Seen, SeenIn

\* Without open work the page owes nothing, and after the last page nothing does.
LEMMA ReadNoWorkKeeps ==
  ASSUME ImportInv, NEW t \in Ticks, ReadNoWork(t), job.owner = t,
         UNCHANGED <<Provider, job, work, imported, proven, listed, Bounds>>
  PROVE  ImportInv'
<1>1. job.phase = "MESSAGES" /\ OpenWork = {} /\ UNCHANGED held
  BY DEF ReadNoWork
<1>2. PICK x \in {"finish", "advance"} :
        at' = [at EXCEPT ![t] = x] /\ (x = "finish" <=> LastOfBackfill)
  BY DEF ReadNoWork, Go
<1>3. held[t] \in Held /\ held' = [held EXCEPT ![t] = held[t]] /\ x \in Stages
  BY <1>1 DEF ImportInv, HistoryTypeOK, Stages
<1>4. job.pass = "BACKFILL" => Seen(Frontier, {}) /\ listed \subseteq imported
  <2>1. ASSUME NEW g \in listed, Read(g) PROVE g \in imported
    <3>1. g[1] \in Conversations
      BY DEF ImportInv, HistoryTypeOK, Message
    <3> QED
      BY <1>1, <2>1, <3>1 DEF Read, OpenWork
  <2> QED
    BY <1>1, <2>1 DEF ImportInv, MessagePhase
<1>5. TickFits(x, held[t])
  <2>1. x = "finish" => Complete
    BY <1>2, <1>4, SeenAll DEF LastOfBackfill, Frontier, ImportInv
  <2> QED
    BY <1>2, <2>1 DEF TickFits
<1>6. OwnerFits(x, held[t])
  BY <1>2, <1>4 DEF OwnerFits, LastOfBackfill, Frontier
<1>7. faults' \in 0..MaxFaults /\ UNCHANGED Requested
  BY DEF Bounds, ImportInv, HistoryTypeOK
<1> QED
  BY <1>2, <1>3, <1>5, <1>6, <1>7, TickMoves

LEMMA ProcessKeeps ==
  ASSUME ImportInv, NEW t \in Ticks, ProcessClaimed(t)
  PROVE  ImportInv'
<1>1. UNCHANGED <<Provider, job, work, imported, proven, listed, Bounds>>
  BY DEF ProcessClaimed
<1>2. CASE job.owner # t
  <2>1. faults' \in 0..MaxFaults /\ UNCHANGED Requested
    BY <1>1 DEF Bounds, ImportInv, HistoryTypeOK
  <2> QED
    BY <1>1, <1>2, <2>1, TickEnds DEF ProcessClaimed
<1>3. CASE job.owner = t
  BY <1>1, <1>3, ReadListKeeps, ReadMessagesKeeps, ReadNoWorkKeeps DEF ProcessClaimed
<1> QED
  BY <1>2, <1>3

-----------------------------------------------------------------------------
(* Steps that write the job and no other row *)

LEMMA RowsTouched ==
  ASSUME RowsOK, UNCHANGED <<order, sent, work, imported, proven, listed>>,
         job'.mode = job.mode, job'.initial = job.initial, job'.back = job.back,
         job'.state # "NONE",
         \/ SamePage
         \/ job'.phase = "LIST" /\ job'.pass = "INCREMENTAL" /\ job.initial
  PROVE  RowsOK'
<1>1. OrderOK' /\ WorkOK' /\ ListedOK'
  BY DEF RowsOK, OrderOK, WorkOK, ListedOK
<1>2. JobOK'
  BY DEF RowsOK, JobOK, SamePage
<1>3. Seen(job.back, {})'
  BY DEF RowsOK, Seen, SeenIn
<1>4. MessagePhase'
  <2>1. CASE SamePage
    <3>1. Frontier' = Frontier /\ OpenWork' = OpenWork
      BY <2>1 DEF SamePage, Frontier, OpenWork
    <3>2. \A b, S : SeenIn(order', sent', imported', b, S) <=> Seen(b, S)
      BY DEF Seen, SeenIn
    <3>3. Seen(Frontier, OpenWork) => Seen(Frontier, OpenWork)'
      BY <3>1, <3>2 DEF Seen
    <3> QED
      BY <2>1, <3>3 DEF RowsOK, MessagePhase, Read, SamePage
  <2>2. CASE job'.phase = "LIST"
    BY <2>2 DEF MessagePhase
  <2> QED
    BY <2>1, <2>2
<1>5. (job.initial \/ proven => Complete)'
  BY DEF RowsOK, Complete, CompleteIn
<1> QED
  BY <1>1, <1>2, <1>3, <1>4, <1>5 DEF RowsOK

LEMMA JobTouched ==
  ASSUME ImportInv, HistoryTypeOK',
         UNCHANGED <<order, sent, work, imported, proven, listed>>,
         job'.mode = job.mode, job'.initial = job.initial, job'.back = job.back,
         job'.state # "NONE",
         \/ SamePage
         \/ job'.phase = "LIST" /\ job'.pass = "INCREMENTAL" /\ job.initial,
         \A q \in Ticks : \/ at'[q] \in {"idle", "claimed"}
                          \/ at'[q] = at[q] /\ held'[q] = held[q],
         \A q \in Ticks : job'.owner = q =>
           at'[q] \in {"idle", "claimed"} \/ (SamePage /\ job.owner = q)
  PROVE  ImportInv'
<1>1. RowsOK'
  <2>1. RowsOK
    BY DEF ImportInv, RowsOK
  <2> QED
    BY <2>1, RowsTouched
<1>2. Progress
  BY Progresses
<1>3. ListPhase'
  BY DEF ImportInv, ListPhase, SamePage
<1>4. ASSUME NEW q \in Ticks PROVE TickFits(at[q], held[q])'
  <2>1. CASE at'[q] \in {"idle", "claimed"}
    BY <2>1 DEF TickFits
  <2>2. CASE at'[q] = at[q] /\ held'[q] = held[q]
    <3>1. SameHeld(held[q], held'[q])
      BY <2>2 DEF SameHeld
    <3> QED
      BY <1>2, <2>2, <3>1, OtherTick DEF SamePage
  <2> QED
    BY <2>1, <2>2
<1>5. ASSUME NEW q \in Ticks, job'.owner = q PROVE OwnerFits(at[q], held[q])'
  <2>1. CASE at'[q] \in {"idle", "claimed"}
    BY <2>1 DEF OwnerFits
  <2>2. CASE at'[q] \notin {"idle", "claimed"}
    BY <1>2, <1>5, <2>2, OtherOwner
  <2> QED
    BY <2>1, <2>2
<1> QED
  BY <1>1, <1>3, <1>4, <1>5 DEF ImportInv, RowsOK

\* A job row that is in order, as far as HistoryTypeOK says.
RowOK(row) ==
  /\ row \in Jobs
  /\ row.owner # NoTick => row.state \in {"RUNNING", "PAUSED", "QUEUED"}
  /\ row.state = "COMPLETE" => row.mode = "INCREMENTAL" /\ row.initial

\* A step that changes the job, and of a tick at most that it ends or goes on.
LEMMA JobTyped ==
  ASSUME ImportInv, RowOK(job'),
         UNCHANGED <<Provider, work, imported, proven, listed>>,
         faults' \in 0..MaxFaults, OperatorOK',
         \/ UNCHANGED <<at, held>>
         \/ \E t \in Ticks : Done(t) \/ (Go(t, "claimed") /\ UNCHANGED held)
  PROVE  HistoryTypeOK'
<1>1. /\ at \in [Ticks -> Stages] /\ held \in [Ticks -> Held] /\ NoHeld \in Held
      /\ "idle" \in Stages /\ "claimed" \in Stages
  BY NoHeldFits DEF ImportInv, HistoryTypeOK, Stages
<1>2. at' \in [Ticks -> Stages] /\ held' \in [Ticks -> Held]
  BY <1>1 DEF Done, Go
<1>3. at' \in [Ticks -> {"idle", "found", "claimed", "list", "messages",
                       "advance", "finish"} \cup Errors \cup
                      {"recover", "backOff", "fail"}]
  BY <1>2 DEF Stages
<1> QED
  BY <1>2, <1>3 DEF ImportInv, HistoryTypeOK, RowOK, Provider

LEMMA JobRowOK == ImportInv => RowOK(job) /\ faults \in 0..MaxFaults /\ OperatorOK
BY DEF ImportInv, HistoryTypeOK, RowOK

LEMMA DoneTick ==
  ASSUME ImportInv, NEW t \in Ticks, Done(t) \/ (Go(t, "claimed") /\ UNCHANGED held)
  PROVE  /\ at'[t] \in {"idle", "claimed"}
         /\ \A q \in Ticks : q # t => at'[q] = at[q] /\ held'[q] = held[q]
BY DEF ImportInv, HistoryTypeOK, Done, Go

LEMMA ClaimKeeps ==
  ASSUME ImportInv, NEW t \in Ticks, Claim(t)
  PROVE  ImportInv'
<1>1. /\ UNCHANGED <<Provider, work, imported, proven, listed>>
      /\ faults' \in 0..MaxFaults /\ UNCHANGED Requested /\ OperatorOK'
      /\ at[t] = "found"
  BY JobRowOK DEF Claim, Bounds
<1>2. CASE UNCHANGED job /\ Done(t)
  BY <1>1, <1>2, TickEnds
<1>3. ASSUME NEW row, Go(t, "claimed"), UNCHANGED held,
             row = [job EXCEPT !.state = "RUNNING", !.owner = t, !.lapsed = FALSE, !.due = TRUE],
             job' = IF held[t].was = "COMPLETE"
                    THEN [row EXCEPT !.pass = "INCREMENTAL",
                                     !.phase = "LIST", !.inc = 0, !.index = 0]
                    ELSE row
      PROVE  ImportInv'
  <2>1. RowOK(job) /\ (job.state # "COMPLETE" \/ job.initial)
    BY JobRowOK DEF RowOK
  <2>2. /\ row \in Jobs /\ row.state = "RUNNING" /\ row.owner = t
        /\ row.mode = job.mode /\ row.initial = job.initial /\ row.back = job.back
        /\ row.phase = job.phase /\ row.pass = job.pass
        /\ row.more = job.more /\ row.next = job.next
    BY <1>3, JobRowOK DEF RowOK, Jobs, Claimables
  <2>3. /\ job' \in Jobs /\ job'.state = "RUNNING" /\ job'.owner = t
        /\ job'.mode = job.mode /\ job'.initial = job.initial /\ job'.back = job.back
    <3>1. CASE job' = row
      BY <2>2, <3>1
    <3>2. CASE job' = [row EXCEPT !.pass = "INCREMENTAL", !.phase = "LIST", !.inc = 0, !.index = 0]
      BY <2>2, <3>2 DEF Jobs
    <3> QED
      BY <1>3, <3>1, <3>2
  <2>4. SamePage \/ (job'.phase = "LIST" /\ job'.pass = "INCREMENTAL" /\ job.initial)
    <3>1. CASE held[t].was = "COMPLETE"
      <4>1. TickFits(at[t], held[t])
        BY DEF ImportInv
      <4>2. job.initial
        BY <1>1, <3>1, <4>1 DEF TickFits
      <4> QED
        BY <1>3, <2>2, <3>1, <4>2 DEF Jobs
    <3>2. CASE held[t].was # "COMPLETE"
      BY <1>3, <2>2, <3>2 DEF SamePage
    <3> QED
      BY <3>1, <3>2
  <2>5. RowOK(job')
    BY <2>3, HistoryBounds DEF RowOK
  <2>6. HistoryTypeOK'
    BY <1>1, <1>3, <2>5, JobTyped
  <2>7. /\ \A q \in Ticks : at'[q] \in {"idle", "claimed"} \/ (at'[q] = at[q] /\ held'[q] = held[q])
        /\ \A q \in Ticks : job'.owner = q => at'[q] \in {"idle", "claimed"}
    BY <1>3, <2>3, DoneTick
  <2>8. UNCHANGED <<order, sent, work, imported, proven, listed>> /\ job'.state # "NONE"
    BY <1>1, <2>3 DEF Provider
  <2> QED
    BY <2>3, <2>4, <2>6, <2>7, <2>8, JobTouched
<1> QED
  BY <1>2, <1>3 DEF Claim

LEMMA ReleasedRow ==
  ASSUME NEW row \in Jobs
  PROVE  /\ Released(row) \in Jobs /\ Released(row).owner = NoTick
         /\ Released(row).state = row.state /\ Released(row).mode = row.mode
         /\ Released(row).pass = row.pass /\ Released(row).phase = row.phase
         /\ Released(row).back = row.back /\ Released(row).next = row.next
         /\ Released(row).more = row.more /\ Released(row).initial = row.initial
         /\ Released(row).inc = row.inc /\ Released(row).since = row.since
         /\ Released(row).index = row.index
BY DEF Released, Jobs

\* Steps that change the state of the job, its lease or its next attempt.
LEMMA StateTouched ==
  ASSUME ImportInv, RowOK(job'), job'.state # "NONE",
         UNCHANGED <<Provider, work, imported, proven, listed>>,
         faults' \in 0..MaxFaults, OperatorOK',
         \/ UNCHANGED <<at, held>>
         \/ \E t \in Ticks : Done(t),
         job'.mode = job.mode, job'.initial = job.initial, job'.back = job.back,
         SamePage, job'.owner \in {NoTick, job.owner}
  PROVE  ImportInv'
<1>1. HistoryTypeOK'
  BY JobTyped
<1>2. \A q \in Ticks : at'[q] \in {"idle", "claimed"} \/ (at'[q] = at[q] /\ held'[q] = held[q])
  BY DoneTick
<1>3. \A q \in Ticks : job'.owner = q => job.owner = q
  BY HistoryBounds
<1> QED
  BY <1>1, <1>2, <1>3, JobTouched DEF Provider

LEMMA FailKeeps ==
  ASSUME ImportInv, NEW t \in Ticks, FailAttempt(t)
  PROVE  ImportInv'
<1>1. /\ Done(t) /\ UNCHANGED <<Provider, work, imported, proven, listed>>
      /\ faults' \in 0..MaxFaults /\ OperatorOK'
  BY JobRowOK DEF FailAttempt, Bounds
<1> DEFINE row == Released(job)
<1>2. /\ row \in Jobs /\ row.owner = NoTick /\ row.mode = job.mode
      /\ row.initial = job.initial /\ row.back = job.back
      /\ row.phase = job.phase /\ row.pass = job.pass
      /\ row.more = job.more /\ row.next = job.next
  BY JobRowOK, ReleasedRow DEF RowOK
<1>3. \/ job' = [row EXCEPT !.state = "BACKING_OFF"]
      \/ job' = [row EXCEPT !.state = "FAILED", !.due = TRUE]
  BY DEF FailAttempt, BackOff
<1> HIDE DEF row
<1>4. /\ job' \in Jobs /\ job'.owner = NoTick /\ job'.mode = job.mode
      /\ job'.initial = job.initial /\ job'.back = job.back /\ SamePage
      /\ job'.state \in {"BACKING_OFF", "FAILED"}
  BY <1>2, <1>3 DEF Jobs, Claimables, SamePage
<1> QED
  BY <1>1, <1>4, StateTouched DEF RowOK

LEMMA TimeKeeps ==
  ASSUME ImportInv, FallsDue \/ LeaseLapses \/ PauseHistorySync
  PROVE  ImportInv'
<1>1. /\ UNCHANGED <<Provider, work, imported, proven, listed, at, held>>
      /\ faults' \in 0..MaxFaults /\ OperatorOK'
  BY JobRowOK, HistoryBounds DEF FallsDue, LeaseLapses, PauseHistorySync, Bounds
<1>2. \/ job' = [job EXCEPT !.due = TRUE] \/ job' = [job EXCEPT !.lapsed = TRUE]
      \/ job' = [job EXCEPT !.state = "PAUSED", !.due = TRUE]
  BY DEF FallsDue, LeaseLapses, PauseHistorySync
<1>3. job \in Jobs /\ RowOK(job)
  BY JobRowOK DEF RowOK
<1>4. /\ job' \in Jobs /\ job'.owner = job.owner /\ job'.mode = job.mode
      /\ job'.initial = job.initial /\ job'.back = job.back /\ SamePage
      /\ job'.state \in {job.state, "PAUSED"}
  BY <1>2, <1>3 DEF Jobs, SamePage
<1>5. job.state # "NONE"
  <2>1. job.state = "NONE" => job.due /\ job.owner = NoTick
    BY DEF ImportInv, JobOK, NewJob
  <2> QED
    BY <2>1 DEF FallsDue, LeaseLapses, PauseHistorySync
<1>6. RowOK(job') /\ job'.state # "NONE"
  BY <1>3, <1>4, <1>5 DEF RowOK
<1> QED
  BY <1>1, <1>4, <1>6, StateTouched

LEMMA StartKeeps ==
  ASSUME ImportInv, StartHistorySync, job.state = "NONE"
  PROVE  ImportInv'
<1>1. /\ UNCHANGED <<Provider, work, imported, proven, listed, at, held>>
      /\ faults' \in 0..MaxFaults /\ OperatorOK'
  BY JobRowOK DEF StartHistorySync
<1>2. job = [NewJob EXCEPT !.state = "NONE"] /\ job' = NewJob
  BY DEF ImportInv, JobOK, StartHistorySync
<1>3. /\ job' \in Jobs /\ job'.owner = NoTick /\ job'.mode = job.mode
      /\ job'.initial = job.initial /\ job'.back = job.back /\ SamePage
      /\ job'.state = "QUEUED"
  BY <1>2 DEF NewJob, Jobs, Claimables, SamePage
<1>4. RowOK(job') /\ job'.state # "NONE"
  BY <1>3 DEF RowOK
<1> QED
  BY <1>1, <1>3, <1>4, StateTouched

\* A run-now that has read the job found it imported once, and so it stays.
RequestsFit == "RUN" \in requests => job.initial

LEMMA FoundKeeps ==
  ASSUME ImportInv, ReadForIncremental \/ (StartHistorySync /\ job.state # "NONE")
  PROVE  ImportInv' /\ job' = job
<1>1. /\ UNCHANGED <<Provider, job, work, imported, proven, listed, at, held>>
      /\ faults' \in 0..MaxFaults /\ OperatorOK'
  BY JobRowOK DEF ReadForIncremental, StartHistorySync, Found, Requests
<1>2. HistoryTypeOK'
  BY <1>1 DEF ImportInv, HistoryTypeOK, Provider
<1>3. RowsOK'
  BY <1>1, RowsKept DEF ImportInv, RowsOK, Provider
<1>4. ListPhase'
  BY <1>1 DEF ImportInv, ListPhase
<1>5. \A q \in Ticks : TickFits(at[q], held[q])'
  BY <1>1 DEF ImportInv, TickFits, Complete, CompleteIn, Provider
<1>6. \A q \in Ticks : job'.owner = q => OwnerFits(at[q], held[q])'
  BY <1>1 DEF ImportInv, OwnerFits, Seen, SeenIn, Provider
<1> QED
  BY <1>1, <1>2, <1>3, <1>4, <1>5, <1>6 DEF ImportInv, RowsOK

LEMMA ResumeKeeps ==
  ASSUME ImportInv, NEW found \in Requests, ResumeHistorySync(found)
  PROVE  ImportInv'
<1>1. /\ UNCHANGED <<Provider, work, imported, proven, listed, at, held>>
      /\ faults' \in 0..MaxFaults /\ OperatorOK'
  BY JobRowOK DEF ResumeHistorySync
<1>2. job \in Jobs /\ RowOK(job)
  BY JobRowOK DEF RowOK
<1>3. \/ job' = [job EXCEPT !.state = "QUEUED", !.due = TRUE, !.owner = NoTick, !.lapsed = FALSE]
      \/ job' = [job EXCEPT !.state = "QUEUED", !.due = TRUE]
  <2>1. CASE found = "FAILED"
    BY <2>1 DEF ResumeHistorySync
  <2>2. CASE found # "FAILED"
    <3>1. job' = [job EXCEPT !.state = "QUEUED", !.due = TRUE, !.owner = job.owner,
                             !.lapsed = (TRUE /\ job.lapsed)]
      BY <2>2 DEF ResumeHistorySync
    <3>2. (TRUE /\ job.lapsed) = job.lapsed
      BY <1>2 DEF Jobs
    <3> QED
      BY <1>2, <3>1, <3>2 DEF Jobs
  <2> QED
    BY <2>1, <2>2
<1>4. /\ job' \in Jobs /\ job'.owner \in {NoTick, job.owner} /\ job'.mode = job.mode
      /\ job'.initial = job.initial /\ job'.back = job.back /\ SamePage
      /\ job'.state = "QUEUED"
  BY <1>2, <1>3 DEF Jobs, Claimables, SamePage
<1>5. RowOK(job') /\ job'.state # "NONE"
  BY <1>4 DEF RowOK
<1> QED
  BY <1>1, <1>4, <1>5, StateTouched

LEMMA RunNowKeeps ==
  ASSUME ImportInv, RequestsFit, RunIncrementalNow
  PROVE  ImportInv'
<1>1. /\ UNCHANGED <<Provider, work, imported, proven, listed, at, held>>
      /\ faults' \in 0..MaxFaults /\ OperatorOK'
  BY JobRowOK, HistoryBounds DEF RunIncrementalNow
<1>2. job \in Jobs /\ job.initial /\ job.mode = "INCREMENTAL"
  BY JobRowOK DEF RowOK, RunIncrementalNow, RequestsFit, ImportInv, JobOK
<1>3. /\ job' \in Jobs /\ job'.owner = NoTick /\ job'.mode = job.mode
      /\ job'.initial = job.initial /\ job'.back = job.back
      /\ job'.phase = "LIST" /\ job'.pass = "INCREMENTAL" /\ job'.state = "QUEUED"
  BY <1>2 DEF RunIncrementalNow, Jobs, Claimables
<1>4. RowOK(job') /\ job'.state # "NONE"
  BY <1>3 DEF RowOK
<1>5. HistoryTypeOK'
  BY <1>1, <1>4, JobTyped
<1>6. \A q \in Ticks : job'.owner # q
  BY <1>3, HistoryBounds
<1> QED
  BY <1>1, <1>2, <1>3, <1>4, <1>5, <1>6, JobTouched DEF Provider

-----------------------------------------------------------------------------
(* Messages arrive *)

\* The conversation comes first, and no other moves up.
LEMMA ArrivalLater ==
  ASSUME ImportInv, NEW c \in Conversations, MessageArrives(c)
  PROVE  /\ Progress /\ OrderOK'
         /\ sent' \in [Conversations -> 1..(arrivals' + 1)] /\ arrivals' \in 0..MaxArrivals
<1>1. /\ order \in [1..Length -> Conversations] /\ Length \in Nat
      /\ \A d \in Conversations : \E i \in 1..Length : order[i] = d
  BY LengthNat DEF ImportInv, OrderOK
<1>2. DOMAIN order = 1..Length
  BY <1>1
<1>3. PICK k \in 1..Length :
        /\ order[k] = c
        /\ order' = [i \in 1..Length |-> IF i = 1 THEN c ELSE order[IF i <= k THEN i - 1 ELSE i]]
  BY <1>2 DEF MessageArrives
<1>4. /\ sent \in [Conversations -> 1..(arrivals + 1)]
      /\ sent' = [sent EXCEPT ![c] = sent[c] + 1] /\ MaxArrivals \in Nat
      /\ arrivals \in Nat /\ arrivals' = arrivals + 1 /\ arrivals < MaxArrivals
  BY HistoryBounds DEF MessageArrives, ImportInv, HistoryTypeOK
<1>5. \A d \in Conversations : /\ sent[d] \in Nat /\ 1 <= sent[d] /\ sent'[d] \in Nat
                               /\ sent[d] <= sent'[d] /\ (sent'[d] = 1 => sent[d] = 1 /\ d # c)
  BY <1>4
<1>6. \A i \in 1..Length :
        order'[i] = (IF i = 1 THEN c ELSE IF i <= k THEN order[i - 1] ELSE order[i])
  BY <1>3
<1>7. Later(order, sent, order', sent')
  <2> SUFFICES ASSUME NEW j \in 1..Length, sent'[order'[j]] = 1
               PROVE  \E i \in 1..Length : i <= j /\ order[i] = order'[j] /\ sent[order[i]] = 1
    BY DEF Later
  <2>1. order'[j] \in Conversations
    BY <1>1, <1>3, <1>6
  <2>2. order'[j] # c /\ sent[order'[j]] = 1
    BY <1>5, <2>1
  <2>3. CASE j <= k
    <3>1. j # 1 /\ j - 1 \in 1..Length /\ j - 1 <= j
      BY <1>1, <1>6, <2>2
    <3>2. order'[j] = order[j - 1]
      BY <1>6, <2>3, <3>1
    <3> QED
      BY <2>2, <3>1, <3>2
  <2>4. CASE j > k
    <3>1. order'[j] = order[j]
      BY <1>1, <1>6, <2>2, <2>4
    <3> QED
      BY <1>1, <2>2, <3>1
  <2> QED
    BY <1>1, <2>3, <2>4
<1>8. OrderOK'
  <2>1. order' \in [1..Length -> Conversations]
    BY <1>1, <1>3
  <2>2. ASSUME NEW d \in Conversations PROVE \E i \in 1..Length : order'[i] = d
    <3>1. PICK j \in 1..Length : order[j] = d
      BY <1>1
    <3>2. CASE d = c
      <4>1. 1 \in 1..Length
        BY <1>1, LengthNat
      <4> QED
        BY <1>6, <3>2, <4>1
    <3>3. CASE j < k
      <4>1. j + 1 \in 1..Length /\ order'[j + 1] = order[j]
        BY <1>1, <1>6, <3>3
      <4> QED
        BY <3>1, <4>1
    <3>4. CASE j > k
      <4>1. order'[j] = order[j]
        BY <1>1, <1>6, <3>4
      <4> QED
        BY <3>1, <4>1
    <3> QED
      BY <1>1, <1>3, <3>1, <3>2, <3>3, <3>4
  <2> QED
    BY <2>1, <2>2 DEF OrderOK
<1>9. sent' \in [Conversations -> 1..(arrivals' + 1)] /\ arrivals' \in 0..MaxArrivals
  BY <1>4
<1>10. Progress
  <2>1. imported \subseteq imported'
    BY DEF MessageArrives
  <2> QED
    BY <1>5, <1>7, <2>1 DEF Progress
<1> QED
  BY <1>8, <1>9, <1>10

LEMMA ArrivalKeeps ==
  ASSUME ImportInv, NEW c \in Conversations, MessageArrives(c)
  PROVE  ImportInv'
<1>1. UNCHANGED <<job, work, imported, proven, at, held, listed, Bounds>>
  BY DEF MessageArrives
<1>2. /\ Progress /\ OrderOK'
      /\ sent' \in [Conversations -> 1..(arrivals' + 1)] /\ arrivals' \in 0..MaxArrivals
  BY ArrivalLater
<1>3. HistoryTypeOK'
  BY <1>1, <1>2 DEF HistoryTypeOK, ImportInv, Bounds
<1>4. JobOK' /\ ListPhase'
  BY <1>1 DEF ImportInv, JobOK, ListPhase
<1>5. WorkOK' /\ ListedOK'
  <2>1. \A d \in Conversations : /\ sent[d] \in Nat /\ sent'[d] \in Nat /\ sent[d] <= sent'[d]
    BY <1>2 DEF Progress
  <2>2. \A d \in Conversations : work[d].token \in 0..sent'[d]
    BY <2>1, Ranges DEF ImportInv
  <2>3. \A g \in listed : g[1] \in Conversations /\ g[2] \in Nat
    BY HistoryBounds DEF ImportInv, HistoryTypeOK, Message
  <2>4. ListedOK'
    BY <1>1, <2>1, <2>3 DEF ImportInv, ListedOK
  <2> QED
    BY <1>1, <2>2, <2>4 DEF ImportInv, WorkOK
<1>6. Seen(job.back, {})' /\ MessagePhase'
  <2>1. job.back \in Nat /\ Frontier \in Nat
    BY LengthNat DEF ImportInv, HistoryTypeOK, Jobs, Frontier
  <2>2. Seen(job.back, {}) => Seen(job.back, {})'
    <3>1. Seen(job.back, {}) => SeenIn(order', sent', imported', job.back, {})
      BY <1>2, <2>1, SeenGoesOn
    <3> QED
      BY <1>1, <3>1 DEF Seen
  <2>3. Seen(Frontier, OpenWork) => Seen(Frontier, OpenWork)'
    <3>1. Seen(Frontier, OpenWork) => SeenIn(order', sent', imported', Frontier, OpenWork)
      BY <1>2, <2>1, SeenGoesOn
    <3>2. Frontier' = Frontier /\ OpenWork' = OpenWork
      BY <1>1 DEF Frontier, OpenWork
    <3> QED
      BY <3>1, <3>2 DEF Seen
  <2> QED
    BY <1>1, <2>2, <2>3 DEF ImportInv, MessagePhase, Read
<1>7. ASSUME NEW q \in Ticks PROVE TickFits(at[q], held[q])'
  <2>1. SameHeld(held[q], held'[q])
    BY <1>1 DEF SameHeld
  <2> QED
    BY <1>1, <1>2, <2>1, OtherTick
<1>8. ASSUME NEW q \in Ticks, job'.owner = q PROVE OwnerFits(at[q], held[q])'
  BY <1>1, <1>2, <1>8, OtherOwner DEF SamePage
<1>9. (job.initial \/ proven => Complete)'
  BY <1>1, <1>2, CompleteGoesOn DEF ImportInv
<1> QED
  BY <1>2, <1>3, <1>4, <1>5, <1>6, <1>7, <1>8, <1>9 DEF ImportInv

-----------------------------------------------------------------------------
(* Steps that end a tick and write rows *)

\* What such a step must leave to the other ticks.
LEMMA EndsKeeps ==
  ASSUME ImportInv, NEW t \in Ticks, HistoryTypeOK', RowsOK', ListPhase', Progress,
         job.initial => job'.initial, at'[t] = "idle",
         \A q \in Ticks : q # t => at'[q] = at[q] /\ SameHeld(held[q], held'[q]),
         \A q \in Ticks : q # t /\ at[q] = "messages" /\ held'[q].page = "current"
                                /\ job'.pass # "INCREMENTAL" =>
           held[q].page = "current" /\ job.pass # "INCREMENTAL" /\ listed' = listed,
         \A q \in Ticks : q # t /\ job'.owner = q =>
           job.owner = q /\ held'[q] = held[q] /\ listed' = listed /\ SamePage
  PROVE  ImportInv'
<1>1. ASSUME NEW q \in Ticks PROVE TickFits(at[q], held[q])'
  <2>1. CASE q = t
    BY <2>1 DEF TickFits
  <2>2. CASE q # t
    BY <2>2, OtherTick
  <2> QED
    BY <2>1, <2>2
<1>2. ASSUME NEW q \in Ticks, job'.owner = q PROVE OwnerFits(at[q], held[q])'
  <2>1. CASE q = t
    BY <2>1 DEF OwnerFits
  <2>2. CASE q # t
    BY <1>2, <2>2, OtherOwner
  <2> QED
    BY <2>1, <2>2
<1> QED
  BY <1>1, <1>2 DEF ImportInv, RowsOK

\* The tick is done; the others hold what they held.
LEMMA EndedTick ==
  ASSUME ImportInv, NEW t \in Ticks, Done(t)
  PROVE  /\ at'[t] = "idle" /\ at' \in [Ticks -> Stages] /\ held' \in [Ticks -> Held]
         /\ \A q \in Ticks : q # t => at'[q] = at[q] /\ held'[q] = held[q]
                                      /\ SameHeld(held[q], held'[q])
         /\ \A q \in Ticks : at'[q] = "messages" => q # t
<1>1. /\ at \in [Ticks -> Stages] /\ held \in [Ticks -> Held] /\ NoHeld \in Held
      /\ "idle" \in Stages
  BY NoHeldFits DEF ImportInv, HistoryTypeOK, Stages
<1> QED
  BY <1>1 DEF Done, Go, SameHeld

\* The pages the other ticks hold are no longer of the current sequence.
LEMMA LeftPage ==
  ASSUME ImportInv, NEW t \in Ticks, NEW how \in {"past", "deleted"},
         LeavePage(Ticks \ {t}, how), Go(t, "idle")
  PROVE  /\ at'[t] = "idle" /\ at' \in [Ticks -> Stages] /\ held' \in [Ticks -> Held]
         /\ \A q \in Ticks : q # t => /\ at'[q] = at[q] /\ SameHeld(held[q], held'[q])
                                      /\ held'[q].page # "current"
         /\ \A q \in Ticks : at'[q] = "messages" => q # t
<1>1. /\ at \in [Ticks -> Stages] /\ held \in [Ticks -> Held] /\ NoHeld \in Held
      /\ "idle" \in Stages
  BY NoHeldFits DEF ImportInv, HistoryTypeOK, Stages
<1>2. at'[t] = "idle" /\ at' \in [Ticks -> Stages] /\ \A q \in Ticks : q # t => at'[q] = at[q]
  BY <1>1 DEF Go
<1> DEFINE page(q) == IF held[q].page = "current" THEN how ELSE held[q].page
<1>3. held' = [q \in Ticks |-> IF q \notin Ticks \ {t} THEN NoHeld
                               ELSE [held[q] EXCEPT !.page = page(q)]]
  BY DEF LeavePage
<1>4. ASSUME NEW q \in Ticks PROVE page(q) \in {"past", "deleted"}
  BY <1>1 DEF Held
<1> HIDE DEF page
<1>5. ASSUME NEW q \in Ticks, q # t
      PROVE  held'[q] \in Held /\ SameHeld(held[q], held'[q]) /\ held'[q].page # "current"
  <2>1. held'[q] = [held[q] EXCEPT !.page = page(q)] /\ held[q] \in Held
    BY <1>1, <1>3, <1>5
  <2> QED
    BY <1>4, <2>1 DEF Held, SameHeld
<1>6. held'[t] = NoHeld
  BY <1>3
<1> QED
  BY <1>1, <1>2, <1>3, <1>5, <1>6

\* The page sequence is left, by the tick that has the lease or by a recovery.
LEMMA PageLeft ==
  ASSUME ImportInv, NEW t \in Ticks, NEW how \in {"past", "deleted"},
         LeavePage(Ticks \ {t}, how), Go(t, "idle"),
         UNCHANGED <<Provider, imported, listed, Bounds>>, proven' \in BOOLEAN,
         RowOK(job'), job'.owner = NoTick, job'.phase = "LIST", job'.state # "NONE",
         job.initial => job'.initial, job'.mode = "INCREMENTAL" <=> job'.initial,
         job'.pass = "INCREMENTAL" => job'.initial, Seen(job'.back, {}),
         job'.initial \/ proven' => Complete
  PROVE  ImportInv'
<1>1. /\ at'[t] = "idle" /\ at' \in [Ticks -> Stages] /\ held' \in [Ticks -> Held]
      /\ \A q \in Ticks : q # t => /\ at'[q] = at[q] /\ SameHeld(held[q], held'[q])
                                   /\ held'[q].page # "current"
      /\ \A q \in Ticks : at'[q] = "messages" => q # t
  BY LeftPage
<1>2. work' = NoWork /\ work' \in [Conversations -> Work]
  BY DEF LeavePage, NoWork, Work, Works
<1>3. HistoryTypeOK'
  BY <1>1, <1>2 DEF ImportInv, HistoryTypeOK, RowOK, Provider, Bounds, Stages
<1>4. \A c \in Conversations : work'[c].state = "NONE" /\ work'[c].token = 0
  BY <1>2 DEF NoWork
<1>5. OrderOK' /\ ListedOK' /\ JobOK'
  BY DEF ImportInv, OrderOK, ListedOK, Provider, JobOK
<1>6. WorkOK'
  <2>1. ASSUME NEW c \in Conversations
        PROVE  /\ work'[c].token \in 0..sent'[c]
               /\ work'[c].state # "OPEN" => work'[c].token = 0
               /\ work'[c].state = "COMPLETE" => <<c, 1>> \in imported'
    <3>1. sent'[c] \in Nat /\ work'[c].state = "NONE" /\ work'[c].token = 0
      BY <1>4, <2>1, Ranges DEF ImportInv, Provider
    <3> QED
      BY <3>1
  <2> QED
    BY <2>1 DEF WorkOK
<1>7. Seen(job.back, {})'
  BY DEF Seen, SeenIn, Provider
<1>8. MessagePhase'
  BY DEF MessagePhase
<1>9. (job.initial \/ proven => Complete)'
  BY DEF Complete, CompleteIn, Provider
<1>10. ListPhase'
  BY <1>1, <1>4 DEF ListPhase
<1>11. RowsOK'
  BY <1>5, <1>6, <1>7, <1>8, <1>9 DEF RowsOK
<1>12. Progress
  BY Progresses DEF Provider
<1>13. \A q \in Ticks : job'.owner # q
  BY HistoryBounds
<1> QED
  BY <1>1, <1>3, <1>10, <1>11, <1>12, <1>13, EndsKeeps

LEMMA NextPageRow ==
  ASSUME NEW row \in Jobs
  PROVE  /\ NextPage(row) \in Jobs /\ NextPage(row).owner = NoTick
         /\ NextPage(row).state = row.state /\ NextPage(row).mode = row.mode
         /\ NextPage(row).pass = row.pass /\ NextPage(row).phase = "LIST"
         /\ NextPage(row).back = row.back /\ NextPage(row).initial = row.initial
         /\ NextPage(row).since = row.since /\ NextPage(row).index = row.index
<1> DEFINE r == Released(row)
<1>1. /\ r \in Jobs /\ r.owner = NoTick /\ r.state = row.state /\ r.mode = row.mode
      /\ r.pass = row.pass /\ r.back = row.back /\ r.initial = row.initial
      /\ r.since = row.since /\ r.index = row.index
  BY ReleasedRow
<1>2. NextPage(row) = [r EXCEPT !.phase = "LIST", !.next = 0, !.more = FALSE]
  BY DEF NextPage
<1> HIDE DEF r
<1>3. PICK n : n = [r EXCEPT !.phase = "LIST", !.next = 0, !.more = FALSE]
  OBVIOUS
<1>4. /\ n \in Jobs /\ n.owner = r.owner /\ n.state = r.state /\ n.mode = r.mode
      /\ n.pass = r.pass /\ n.phase = "LIST" /\ n.back = r.back
      /\ n.initial = r.initial /\ n.since = r.since /\ n.index = r.index
  BY <1>1, <1>3 DEF Jobs
<1> QED
  BY <1>1, <1>2, <1>3, <1>4

LEMMA AdvanceKeeps ==
  ASSUME ImportInv, NEW t \in Ticks, AdvanceCompletedPage(t)
  PROVE  ImportInv'
<1>1. UNCHANGED <<Provider, imported, proven, listed, Bounds>> /\ Go(t, "idle")
  BY DEF AdvanceCompletedPage
<1>2. CASE job.owner # t
  <2>1. Done(t) /\ UNCHANGED <<job, work>>
    BY <1>1, <1>2 DEF AdvanceCompletedPage, Done, Update
  <2>2. faults' \in 0..MaxFaults /\ UNCHANGED Requested
    BY <1>1, JobRowOK DEF Bounds
  <2> QED
    BY <1>1, <2>1, <2>2, TickEnds
<1>3. CASE job.owner = t
  <2> DEFINE row == NextPage(job)
  <2>1. job \in Jobs /\ RowOK(job) /\ job.state # "NONE" /\ JobOK
    BY <1>3, JobRowOK, HistoryBounds DEF RowOK, ImportInv
  <2>2. /\ row \in Jobs /\ row.owner = NoTick /\ row.state = job.state
        /\ row.mode = job.mode /\ row.pass = job.pass /\ row.phase = "LIST"
        /\ row.back = job.back /\ row.initial = job.initial
        /\ row.since = job.since /\ row.index = job.index
    BY <2>1, NextPageRow
  <2>3. Seen(job.back, {}) /\ (job.pass = "BACKFILL" => Seen(job.next, {}))
    <3>1. OwnerFits(at[t], held[t]) /\ at[t] = "advance"
      BY <1>3 DEF ImportInv, AdvanceCompletedPage
    <3> QED
      BY <3>1 DEF ImportInv, OwnerFits
  <2>4. LeavePage(Ticks \ {t}, "past")
    BY <1>3 DEF AdvanceCompletedPage
  <2>5. /\ job' \in Jobs /\ job'.owner = NoTick /\ job'.phase = "LIST"
        /\ job'.mode = job.mode /\ job'.initial = job.initial
        /\ job'.pass = "INCREMENTAL" => job.initial
        /\ Seen(job'.back, {}) /\ job'.state \in {job.state, "COMPLETE"}
        /\ job'.state = "COMPLETE" => job.initial
    <3>1. CASE job.pass = "HEAD"
      <4>1. job' = [row EXCEPT !.pass = "BACKFILL", !.inc = 0, !.since = 0]
        BY <1>3, <3>1 DEF AdvanceCompletedPage, Update, AfterHead
      <4> HIDE DEF row
      <4> QED
        BY <2>1, <2>2, <2>3, <4>1 DEF Jobs, RowOK
    <3>2. CASE job.pass = "BACKFILL"
      <4>1. job' = AfterBackfill(job)
        BY <1>3, <3>2 DEF AdvanceCompletedPage, Update
      <4>2. PICK s \in Nat : s = row.since + 1
        BY <2>2 DEF Jobs
      <4>3. \/ job' = [row EXCEPT !.back = job.next, !.since = s, !.pass = "HEAD", !.inc = 0]
            \/ job' = [row EXCEPT !.back = job.next, !.since = s, !.pass = row.pass, !.inc = row.inc]
        BY <4>1, <4>2 DEF AfterBackfill
      <4>4. job.next \in Nat /\ row.pass = "BACKFILL" /\ row.inc \in Nat
        BY <2>1, <2>2, <3>2 DEF Jobs
      <4> HIDE DEF row
      <4>5. /\ job' \in Jobs /\ job'.owner = NoTick /\ job'.phase = "LIST"
            /\ job'.mode = job.mode /\ job'.initial = job.initial
            /\ job'.pass \in {"HEAD", "BACKFILL"}
            /\ job'.back = job.next /\ job'.state = job.state
        <5>1. CASE job' = [row EXCEPT !.back = job.next, !.since = s, !.pass = "HEAD", !.inc = 0]
          BY <2>2, <4>4, <5>1 DEF Jobs
        <5>2. CASE job' = [row EXCEPT !.back = job.next, !.since = s, !.pass = row.pass, !.inc = row.inc]
          BY <2>2, <4>4, <5>2 DEF Jobs
        <5> QED
          BY <4>3, <5>1, <5>2
      <4> QED
        BY <2>1, <2>3, <3>2, <4>5 DEF RowOK
    <3>3. CASE job.pass = "INCREMENTAL"
      <4>1. job' = AfterIncremental(job)
        BY <1>3, <3>3 DEF AdvanceCompletedPage, Update
      <4>2. PICK i \in Nat : i = row.index + 1
        BY <2>2 DEF Jobs
      <4>3. \/ job' = [row EXCEPT !.inc = job.next, !.index = i]
            \/ job' = [row EXCEPT !.state = "COMPLETE", !.inc = 0, !.index = 0]
        BY <4>1, <4>2 DEF AfterIncremental
      <4>4. job.next \in Nat /\ job.initial
        BY <2>1, <3>3 DEF Jobs, JobOK
      <4> HIDE DEF row
      <4>5. /\ job' \in Jobs /\ job'.owner = NoTick /\ job'.phase = "LIST"
            /\ job'.mode = job.mode /\ job'.initial = job.initial
            /\ job'.back = job.back /\ job'.state \in {job.state, "COMPLETE"}
        <5>1. CASE job' = [row EXCEPT !.inc = job.next, !.index = i]
          BY <2>2, <4>4, <5>1 DEF Jobs
        <5>2. CASE job' = [row EXCEPT !.state = "COMPLETE", !.inc = 0, !.index = 0]
          BY <2>2, <4>4, <5>2 DEF Jobs, Claimables
        <5> QED
          BY <4>3, <5>1, <5>2
      <4> QED
        BY <2>3, <4>4, <4>5
    <3> QED
      BY <2>1, <3>1, <3>2, <3>3 DEF Jobs
  <2>6. RowOK(job') /\ job'.state # "NONE" /\ (job'.mode = "INCREMENTAL" <=> job'.initial)
    BY <2>1, <2>5 DEF RowOK, JobOK
  <2>7. job'.initial \/ proven' => Complete
    BY <1>1, <2>5 DEF ImportInv
  <2>8. proven' \in BOOLEAN
    BY <1>1 DEF ImportInv, HistoryTypeOK
  <2> QED
    BY <1>1, <2>4, <2>5, <2>6, <2>7, <2>8, PageLeft
<1> QED
  BY <1>2, <1>3

\* A tick without the lease may still write the run row.
LEMMA FinishKeeps ==
  ASSUME ImportInv, NEW t \in Ticks, FinishBackfill(t)
  PROVE  ImportInv'
<1>1. UNCHANGED <<Provider, imported, listed, Bounds>> /\ Go(t, "idle") /\ proven' = TRUE
  BY DEF FinishBackfill
<1>2. Complete
  <2>1. TickFits(at[t], held[t]) /\ at[t] = "finish"
    BY DEF ImportInv, FinishBackfill
  <2> QED
    BY <2>1 DEF TickFits
<1>3. CASE job.owner # t
  <2>1. Done(t) /\ UNCHANGED <<job, work>>
    BY <1>1, <1>3 DEF FinishBackfill, Done, Update
  <2>2. /\ at'[t] = "idle" /\ at' \in [Ticks -> Stages] /\ held' \in [Ticks -> Held]
        /\ \A q \in Ticks : q # t => at'[q] = at[q] /\ held'[q] = held[q]
                                     /\ SameHeld(held[q], held'[q])
        /\ \A q \in Ticks : at'[q] = "messages" => q # t
    BY <2>1, EndedTick
  <2>3. HistoryTypeOK'
    BY <1>1, <2>1, <2>2 DEF ImportInv, HistoryTypeOK, Provider, Bounds, Stages
  <2>4. RowsOK'
    <3>1. OrderOK' /\ WorkOK' /\ ListedOK' /\ JobOK'
      BY <1>1, <2>1 DEF ImportInv, OrderOK, WorkOK, ListedOK, JobOK, Provider
    <3>2. Seen(job.back, {})'
      BY <1>1, <2>1 DEF ImportInv, Seen, SeenIn, Provider
    <3>3. MessagePhase'
      BY <1>1, <2>1 DEF ImportInv, MessagePhase, Seen, SeenIn, Frontier, OpenWork, Read, Provider
    <3>4. (job.initial \/ proven => Complete)'
      BY <1>1, <1>2 DEF Complete, CompleteIn, Provider
    <3> QED
      BY <3>1, <3>2, <3>3, <3>4 DEF RowsOK
  <2>5. ListPhase'
    BY <2>1, <2>2 DEF ImportInv, ListPhase
  <2>6. Progress
    BY <1>1, Progresses DEF Provider
  <2>7. SamePage
    BY <2>1 DEF SamePage
  <2>8. \A q \in Ticks : q # t /\ job'.owner = q =>
           job.owner = q /\ held'[q] = held[q] /\ listed' = listed /\ SamePage
    BY <1>1, <2>1, <2>2, <2>7
  <2>9. \A q \in Ticks : q # t /\ at[q] = "messages" /\ held'[q].page = "current"
                                /\ job'.pass # "INCREMENTAL" =>
           held[q].page = "current" /\ job.pass # "INCREMENTAL" /\ listed' = listed
    BY <1>1, <2>1, <2>2
  <2>10. job.initial => job'.initial
    BY <2>1
  <2> QED
    BY <2>2, <2>3, <2>4, <2>5, <2>6, <2>8, <2>9, <2>10, EndsKeeps
<1>4. CASE job.owner = t
  <2> DEFINE row == NextPage(job)
  <2>1. job \in Jobs /\ row \in Jobs /\ row.owner = NoTick /\ row.phase = "LIST"
    BY JobRowOK, NextPageRow DEF RowOK
  <2>2. job' = [row EXCEPT !.state = "COMPLETE", !.mode = "INCREMENTAL",
                  !.pass = "INCREMENTAL", !.back = 0, !.inc = 0, !.initial = TRUE]
    BY <1>4 DEF FinishBackfill, Update
  <2> HIDE DEF row
  <2>3. /\ job' \in Jobs /\ job'.owner = NoTick /\ job'.phase = "LIST"
        /\ job'.state = "COMPLETE" /\ job'.mode = "INCREMENTAL" /\ job'.initial
        /\ job'.back = 0
    BY <2>1, <2>2 DEF Jobs, Claimables
  <2>4. RowOK(job') /\ job'.state # "NONE" /\ (job'.mode = "INCREMENTAL" <=> job'.initial)
    BY <2>3 DEF RowOK
  <2>5. Seen(job'.back, {})
    BY <2>3, LengthNat DEF Seen, SeenIn
  <2>6. LeavePage(Ticks \ {t}, "past") /\ proven' \in BOOLEAN
    BY <1>1, <1>4 DEF FinishBackfill
  <2> QED
    BY <1>1, <1>2, <2>3, <2>4, <2>5, <2>6, PageLeft
<1> QED
  BY <1>3, <1>4

\* The recovery starts over at the first page, whoever has the lease.
LEMMA RecoverKeeps ==
  ASSUME ImportInv, NEW t \in Ticks, RecoverCursor(t)
  PROVE  ImportInv'
<1>1. UNCHANGED <<Provider, imported, proven, listed, Bounds>> /\ Go(t, "idle")
  BY DEF RecoverCursor
<1>2. PICK how \in {"past", "deleted"} : LeavePage(Ticks \ {t}, how)
  BY DEF RecoverCursor
<1> DEFINE row == Released(job)
           pass == IF held[t].mode = "INITIAL_BACKFILL" THEN "BACKFILL" ELSE "INCREMENTAL"
<1>3. /\ row \in Jobs /\ row.owner = NoTick /\ row.mode = job.mode
      /\ row.initial = job.initial
  BY JobRowOK, ReleasedRow DEF RowOK
<1>4. job' = [row EXCEPT !.state = "QUEUED", !.phase = "LIST", !.back = 0,
                !.inc = 0, !.next = 0, !.more = FALSE, !.pass = pass]
  BY DEF RecoverCursor, AfterRecovery
<1>5. pass \in {"BACKFILL", "INCREMENTAL"} /\ (pass = "INCREMENTAL" => job.initial)
  <2>1. TickFits(at[t], held[t]) /\ at[t] = "recover" /\ held[t] \in Held
    BY DEF ImportInv, HistoryTypeOK, RecoverCursor
  <2> QED
    BY <2>1 DEF TickFits, Held
<1> HIDE DEF row, pass
<1>6. /\ job' \in Jobs /\ job'.owner = NoTick /\ job'.phase = "LIST"
      /\ job'.state = "QUEUED" /\ job'.mode = job.mode /\ job'.initial = job.initial
      /\ job'.back = 0 /\ job'.pass = pass
  BY <1>3, <1>4, <1>5 DEF Jobs, Claimables
<1>7. RowOK(job') /\ job'.state # "NONE" /\ (job'.mode = "INCREMENTAL" <=> job'.initial)
  BY <1>6 DEF RowOK, ImportInv, JobOK
<1>8. Seen(job'.back, {})
  BY <1>6, LengthNat DEF Seen, SeenIn
<1>9. proven' \in BOOLEAN /\ (job'.initial \/ proven' => Complete)
  BY <1>1, <1>6 DEF ImportInv, HistoryTypeOK
<1> QED
  BY <1>1, <1>2, <1>5, <1>6, <1>7, <1>8, <1>9, PageLeft

\* A list page is stored: its conversation becomes the open work.
LEMMA StoreListKeeps ==
  ASSUME ImportInv, NEW t \in Ticks, StoreList(t)
  PROVE  ImportInv'
<1> DEFINE c == held[t].conv
           n == held[t].token
           more == held[t].more
<1>1. /\ Done(t) /\ UNCHANGED <<Provider, imported, proven, Bounds>> /\ at[t] = "list"
      /\ held[t] \in Held /\ c \in Conversations /\ n \in Nat /\ more \in BOOLEAN
  BY DEF StoreList, ImportInv, HistoryTypeOK, Held
<1>2. /\ at'[t] = "idle" /\ at' \in [Ticks -> Stages] /\ held' \in [Ticks -> Held]
      /\ \A q \in Ticks : q # t => at'[q] = at[q] /\ held'[q] = held[q]
                                   /\ SameHeld(held[q], held'[q])
      /\ \A q \in Ticks : at'[q] = "messages" => q # t
  BY <1>1, EndedTick
<1>3. Progress
  BY <1>1, Progresses DEF Provider
<1>4. /\ work' \in [Conversations -> Work]
      /\ \A d \in Conversations :
           /\ work'[d].token = work[d].token
           /\ work'[d].state = work[d].state \/ (work[d].state = "NONE" /\ work'[d].state = "OPEN")
      /\ held[t].page = "current" => work'[c].state # "NONE"
  <2> HIDE DEF c
  <2>1. work \in [Conversations -> Work] /\ "OPEN" \in Works
    BY DEF ImportInv, HistoryTypeOK, Works
  <2>2. CASE work' = work /\ (held[t].page = "current" => work[c].state # "NONE")
    BY <1>1, <2>1, <2>2
  <2>3. CASE work' = [work EXCEPT ![c].state = "OPEN"] /\ work[c].state = "NONE"
    <3>1. PICK w : w = [work[c] EXCEPT !.state = "OPEN"]
      OBVIOUS
    <3>2. w \in Work /\ w.state = "OPEN" /\ w.token = work[c].token
      BY <1>1, <2>1, <3>1 DEF Work
    <3>3. work' = [work EXCEPT ![c] = w]
      BY <2>3, <3>1
    <3> QED
      BY <1>1, <2>1, <2>3, <3>2, <3>3
  <2> QED
    BY <2>2, <2>3 DEF StoreList, c
<1>5. OpenWork \subseteq OpenWork' /\ (held[t].page = "current" /\ work[c].state # "COMPLETE" => c \in OpenWork')
  <2>1. work \in [Conversations -> Work]
    BY DEF ImportInv, HistoryTypeOK
  <2>2. \A d \in OpenWork : d \in OpenWork'
    BY <1>4 DEF OpenWork
  <2>3. work[c].state \in {"NONE", "OPEN", "COMPLETE"}
    BY <1>1, <2>1 DEF Work, Works
  <2> QED
    BY <1>1, <1>4, <2>2, <2>3 DEF OpenWork
<1> HIDE DEF c, n, more
<1>6. WorkOK' /\ OrderOK'
  <2>1. \A d \in Conversations : sent'[d] = sent[d]
    BY <1>1 DEF Provider
  <2>2. WorkOK
    BY DEF ImportInv
  <2>3. ASSUME NEW d \in Conversations
        PROVE  /\ work'[d].token \in 0..sent'[d]
               /\ work'[d].state # "OPEN" => work'[d].token = 0
               /\ work'[d].state = "COMPLETE" => <<d, 1>> \in imported'
    BY <1>1, <1>4, <2>1, <2>2, <2>3 DEF WorkOK
  <2>4. OrderOK'
    BY <1>1 DEF ImportInv, OrderOK, Provider
  <2> QED
    BY <2>3, <2>4 DEF WorkOK
<1>7. (job.initial \/ proven => Complete)' <=> (job'.initial \/ proven => Complete)
  BY <1>1 DEF Complete, CompleteIn, Provider
<1>8. CASE job.owner # t
  <2>1. job' = job /\ listed' = listed
    BY <1>8 DEF StoreList, Update
  <2>2. HistoryTypeOK'
    BY <1>1, <1>2, <1>4, <2>1 DEF ImportInv, HistoryTypeOK, Provider, Bounds, Stages
  <2>3. RowsOK'
    <3>1. ListedOK' /\ JobOK'
      BY <1>1, <2>1 DEF ImportInv, ListedOK, JobOK, Provider
    <3>2. Seen(job.back, {})'
      BY <1>1, <2>1 DEF ImportInv, Seen, SeenIn, Provider
    <3>3. MessagePhase'
      <4> SUFFICES ASSUME job.phase = "MESSAGES"
                   PROVE  /\ job.pass = "BACKFILL" => Seen(Frontier, OpenWork)'
                          /\ job.pass # "INCREMENTAL" => \A g \in listed : Read(g)'
        BY <2>1 DEF MessagePhase
      <4>1. MessagePhase /\ Frontier' = Frontier
        BY <2>1 DEF ImportInv, Frontier
      <4>2. ASSUME job.pass = "BACKFILL" PROVE SeenIn(order', sent', imported', Frontier', OpenWork')
        <5>1. SeenIn(order, sent, imported, Frontier, OpenWork)
          BY <4>1, <4>2 DEF MessagePhase, Seen
        <5> QED
          BY <1>1, <1>5, <4>1, <5>1 DEF SeenIn, Provider
      <4>3. ASSUME job.pass # "INCREMENTAL", NEW g \in listed PROVE Read(g)'
        <5>1. Read(g) /\ g[1] \in Conversations
          BY <4>1, <4>3 DEF MessagePhase, ImportInv, HistoryTypeOK, Message
        <5> QED
          BY <1>1, <1>4, <5>1 DEF Read
      <4> QED
        BY <4>2, <4>3 DEF Seen
    <3> QED
      BY <1>6, <1>7, <2>1, <3>1, <3>2, <3>3 DEF RowsOK, ImportInv
  <2>4. ListPhase'
    BY <1>2, <1>4, <2>1 DEF ImportInv, ListPhase
  <2>5. SamePage
    BY <2>1 DEF SamePage
  <2>6. \A q \in Ticks : q # t /\ job'.owner = q =>
           job.owner = q /\ held'[q] = held[q] /\ listed' = listed /\ SamePage
    BY <1>2, <2>1, <2>5
  <2>7. \A q \in Ticks : q # t /\ at[q] = "messages" /\ held'[q].page = "current"
                                /\ job'.pass # "INCREMENTAL" =>
           held[q].page = "current" /\ job.pass # "INCREMENTAL" /\ listed' = listed
    BY <1>2, <2>1
  <2>8. job.initial => job'.initial
    BY <2>1
  <2> QED
    BY <1>2, <1>3, <2>2, <2>3, <2>4, <2>6, <2>7, <2>8, EndsKeeps
<1>9. CASE job.owner = t
  <2> DEFINE row == Released(job)
  <2>1. /\ job.phase = "LIST" /\ held[t].page = "current"
        /\ job.pass = "BACKFILL" => Seen(IF more THEN n ELSE Length, {c})
    <3>1. OwnerFits(at[t], held[t])
      BY <1>9 DEF ImportInv
    <3> QED
      BY <1>1, <3>1 DEF OwnerFits, c, n, more
  <2>2. /\ row \in Jobs /\ row.owner = NoTick /\ row.mode = job.mode
        /\ row.initial = job.initial /\ row.back = job.back /\ row.pass = job.pass
        /\ row.state = job.state /\ job.state # "NONE" /\ RowOK(job)
    BY <1>9, JobRowOK, ReleasedRow, HistoryBounds DEF RowOK
  <2>3. job' = [row EXCEPT !.phase = "MESSAGES", !.next = n, !.more = more]
    BY <1>9 DEF StoreList, Update, n, more
  <2> HIDE DEF row
  <2>4. /\ job' \in Jobs /\ job'.owner = NoTick /\ job'.mode = job.mode
        /\ job'.initial = job.initial /\ job'.back = job.back /\ job'.pass = job.pass
        /\ job'.state = job.state /\ job'.phase = "MESSAGES" /\ job'.next = n
        /\ job'.more = more
    BY <1>1, <2>2, <2>3 DEF Jobs
  <2>5. listed' = Owed(c)
    BY <1>9 DEF StoreList, c
  <2>6. \A g \in listed' : g \in Message /\ g[1] = c /\ g[2] <= sent[c]
    <3>1. sent[c] \in Nat /\ sent[c] <= MaxArrivals + 1
      BY <1>1, Ranges DEF ImportInv
    <3> QED
      BY <1>1, <2>5, <3>1, HistoryBounds DEF Owed, Message
  <2>7. HistoryTypeOK'
    BY <1>1, <1>2, <1>4, <2>2, <2>4, <2>6 DEF ImportInv, HistoryTypeOK, Provider, Bounds, Stages, RowOK
  <2>8. ListPhase'
    BY <2>4 DEF ListPhase
  <2>9. RowsOK'
    <3>1. ListedOK'
      BY <1>1, <2>6 DEF ListedOK, Provider
    <3>2. JobOK'
      BY <2>2, <2>4 DEF ImportInv, JobOK
    <3>3. Seen(job.back, {})'
      BY <1>1, <2>4 DEF ImportInv, Seen, SeenIn, Provider
    <3>4. MessagePhase'
      <4>1. ASSUME job.pass # "INCREMENTAL"
            PROVE  c \in OpenWork' /\ work'[c].state = "OPEN" /\ work'[c].token = 0
        <5>1. work[c].state # "COMPLETE" /\ work[c].token = 0
          BY <1>1, <2>1, <4>1 DEF ImportInv, ListPhase
        <5>2. c \in OpenWork'
          BY <1>5, <2>1, <5>1
        <5> QED
          BY <1>1, <1>4, <5>1, <5>2 DEF OpenWork
      <4>2. ASSUME job.pass = "BACKFILL" PROVE SeenIn(order', sent', imported', Frontier', OpenWork')
        <5>1. Frontier' = IF more THEN n ELSE Length
          BY <2>4 DEF Frontier
        <5>2. PICK b : b = IF more THEN n ELSE Length
          OBVIOUS
        <5>3. SeenIn(order, sent, imported, b, {c}) /\ c \in OpenWork'
          BY <2>1, <4>1, <4>2, <5>2 DEF Seen
        <5>4. SeenIn(order', sent', imported', b, OpenWork')
          BY <1>1, <5>3 DEF SeenIn, Provider
        <5> QED
          BY <5>1, <5>2, <5>4
      <4>3. ASSUME job.pass # "INCREMENTAL", NEW g \in listed' PROVE Read(g)'
        BY <2>6, <4>1, <4>3 DEF Read
      <4> QED
        BY <2>4, <4>2, <4>3 DEF MessagePhase, Seen
    <3> QED
      BY <1>6, <1>7, <2>4, <3>1, <3>2, <3>3, <3>4 DEF RowsOK, ImportInv
  <2>10. \A q \in Ticks : job'.owner # q
    BY <2>4, HistoryBounds
  <2>11. \A q \in Ticks : q # t /\ at[q] = "messages" /\ job'.pass # "INCREMENTAL"
                          => held'[q].page # "current"
    BY <1>2, <2>1, <2>4 DEF ImportInv, ListPhase
  <2> QED
    BY <1>2, <1>3, <2>4, <2>7, <2>8, <2>9, <2>10, <2>11, EndsKeeps
<1> QED
  BY <1>8, <1>9

\* A message is stored, and with it how far its conversation was read.
LEMMA StoreMessagesKeeps ==
  ASSUME ImportInv, NEW t \in Ticks, StoreMessages(t)
  PROVE  ImportInv'
<1>1. Done(t) /\ UNCHANGED <<Provider, proven, listed, Bounds>> /\ at[t] = "messages"
  BY DEF StoreMessages
<1>2. CASE held[t].page = "deleted"
  <2>1. UNCHANGED <<work, imported, job>> /\ faults' \in 0..MaxFaults /\ UNCHANGED Requested
    BY <1>1, <1>2, JobRowOK DEF StoreMessages, Bounds
  <2> QED
    BY <1>1, <2>1, TickEnds
<1>3. CASE held[t].page # "deleted"
  <2> DEFINE c == held[t].conv
             n == held[t].token
             more == held[t].more
             left == IF more THEN n - 1 ELSE 0
             state == IF more THEN "OPEN" ELSE "COMPLETE"
  <2>1. /\ held[t] \in Held /\ c \in Conversations /\ n \in Nat /\ more \in BOOLEAN
        /\ n \in 1..sent[c] /\ (more <=> n > 1)
        /\ held[t].page = "current" /\ job.pass # "INCREMENTAL" =>
             \A g \in listed : g[1] = c /\ g[2] > n => g \in imported
    <3>1. TickFits(at[t], held[t]) /\ held[t] \in Held
      BY DEF ImportInv, HistoryTypeOK
    <3> QED
      BY <1>1, <3>1 DEF TickFits, Held
  <2>2. imported' = imported \cup {<<c, n>>}
    BY <1>3 DEF StoreMessages
  <2>3. \/ held[t].page = "current" /\ work' = [work EXCEPT ![c] = [state |-> state, token |-> left]]
        \/ held[t].page # "current" /\ work' = work
    BY <1>3 DEF StoreMessages, WorkAfter
  <2>4. job' = IF job.owner = t THEN Released(job) ELSE job
    BY <1>3 DEF StoreMessages, Update
  <2>5. sent[c] \in Nat /\ sent[c] <= MaxArrivals + 1
    BY <2>1, Ranges DEF ImportInv
  <2>6. left \in Nat /\ left \in 0..sent[c] /\ state \in Works
        /\ (state # "OPEN" => left = 0 /\ n = 1) /\ (state = "OPEN" => left = n - 1 /\ n > 1)
    BY <2>1, <2>5 DEF Works
  <2> HIDE DEF c, n, more, left, state
  <2>7. /\ at'[t] = "idle" /\ at' \in [Ticks -> Stages] /\ held' \in [Ticks -> Held]
        /\ \A q \in Ticks : q # t => at'[q] = at[q] /\ held'[q] = held[q]
                                     /\ SameHeld(held[q], held'[q])
        /\ \A q \in Ticks : at'[q] = "messages" => q # t
    BY <1>1, EndedTick
  <2>8. work \in [Conversations -> Work]
    BY DEF ImportInv, HistoryTypeOK
  <2>9. /\ work' \in [Conversations -> Work]
        /\ \A d \in Conversations : d # c \/ held[t].page # "current" => work'[d] = work[d]
        /\ held[t].page = "current" => work'[c].state = state /\ work'[c].token = left
    <3>1. CASE held[t].page # "current" /\ work' = work
      BY <2>8, <3>1
    <3>2. CASE held[t].page = "current" /\ work' = [work EXCEPT ![c] = [state |-> state, token |-> left]]
      <4>1. PICK w : w = [state |-> state, token |-> left]
        OBVIOUS
      <4>2. w \in Work /\ w.state = state /\ w.token = left
        BY <2>6, <4>1 DEF Work
      <4>3. work' = [work EXCEPT ![c] = w]
        BY <3>2, <4>1
      <4> QED
        BY <2>1, <2>8, <3>2, <4>2, <4>3
    <3> QED
      BY <2>3, <3>1, <3>2
  <2>10. <<c, n>> \in Message /\ imported \subseteq imported' /\ imported' \subseteq Message
    <3>1. n \in 1..(MaxArrivals + 1)
      BY <2>1, <2>5, HistoryBounds
    <3> QED
      BY <2>1, <2>2, <3>1 DEF Message, ImportInv, HistoryTypeOK
  <2>11. /\ RowOK(job') /\ job'.mode = job.mode /\ job'.initial = job.initial
         /\ job'.back = job.back /\ job'.pass = job.pass /\ job'.phase = job.phase
         /\ job'.more = job.more /\ job'.next = job.next /\ job'.state = job.state
         /\ job'.owner \in {job.owner, NoTick}
         /\ job.owner = t => job'.owner = NoTick
         /\ job.state = "NONE" => job' = job
    <3>1. CASE job.owner # t
      BY <2>4, <3>1, JobRowOK
    <3>2. CASE job.owner = t
      <4>1. job' = Released(job) /\ job \in Jobs /\ RowOK(job)
        BY <2>4, <3>2, JobRowOK DEF RowOK
      <4>2. job.state # "NONE"
        BY <3>2, <4>1, HistoryBounds DEF RowOK
      <4> QED
        BY <3>2, <4>1, <4>2, ReleasedRow DEF RowOK
    <3> QED
      BY <3>1, <3>2
  <2>12. Progress
    BY <1>1, <2>10, Progresses DEF Provider
  <2>13. HistoryTypeOK'
    BY <1>1, <2>7, <2>9, <2>10, <2>11 DEF ImportInv, HistoryTypeOK, Provider, Bounds, Stages, RowOK
  <2>14. WorkOK'
    <3>1. \A d \in Conversations : sent'[d] = sent[d]
      BY <1>1 DEF Provider
    <3>2. ASSUME NEW d \in Conversations
          PROVE  /\ work'[d].token \in 0..sent'[d]
                 /\ work'[d].state # "OPEN" => work'[d].token = 0
                 /\ work'[d].state = "COMPLETE" => <<d, 1>> \in imported'
      <4>1. CASE d = c /\ held[t].page = "current"
        <5>1. work'[d].state = state /\ work'[d].token = left /\ sent'[d] = sent[c]
          BY <2>9, <3>1, <4>1
        <5>2. state # "OPEN" => <<d, 1>> \in imported'
          BY <2>2, <2>6, <4>1
        <5> QED
          BY <2>6, <5>1, <5>2
      <4>2. CASE d # c \/ held[t].page # "current"
        <5>1. work'[d] = work[d] /\ WorkOK
          BY <2>9, <4>2 DEF ImportInv
        <5> QED
          BY <2>10, <3>1, <5>1 DEF WorkOK
      <4> QED
        BY <4>1, <4>2
    <3> QED
      BY <3>2 DEF WorkOK
  <2>15. RowsOK'
    <3>1. OrderOK' /\ ListedOK'
      BY <1>1 DEF ImportInv, OrderOK, ListedOK, Provider
    <3>2. JobOK'
      BY <2>11 DEF ImportInv, JobOK
    <3>3. Seen(job.back, {})'
      <4>1. SeenIn(order', sent', imported', job.back, {})
        <5>1. job.back \in Nat /\ Seen(job.back, {})
          BY DEF ImportInv, HistoryTypeOK, Jobs
        <5> QED
          BY <2>12, <5>1, SeenGoesOn
      <4> QED
        BY <2>11, <4>1 DEF Seen
    <3>4. MessagePhase'
      <4> SUFFICES ASSUME job.phase = "MESSAGES"
                   PROVE  /\ job.pass = "BACKFILL" => SeenIn(order', sent', imported', Frontier, OpenWork')
                          /\ job.pass # "INCREMENTAL" => \A g \in listed' : Read(g)'
        BY <2>11 DEF MessagePhase, Seen, Frontier
      <4>1. MessagePhase /\ Frontier \in Nat
        BY LengthNat DEF ImportInv, HistoryTypeOK, Jobs, Frontier
      <4>2. ASSUME job.pass = "BACKFILL" PROVE SeenIn(order', sent', imported', Frontier, OpenWork')
        <5>1. SeenIn(order, sent, imported, Frontier, OpenWork)
          BY <4>1, <4>2 DEF MessagePhase, Seen
        <5>2. \A d \in OpenWork : d \in OpenWork' \/ <<d, 1>> \in imported'
          <6>1. ASSUME NEW d \in OpenWork PROVE d \in OpenWork' \/ <<d, 1>> \in imported'
            <7>1. d \in Conversations /\ work[d].state = "OPEN"
              BY <6>1 DEF OpenWork
            <7>2. CASE d = c /\ held[t].page = "current"
              BY <2>2, <2>6, <2>9, <7>1, <7>2 DEF OpenWork
            <7>3. CASE d # c \/ held[t].page # "current"
              BY <2>9, <7>1, <7>3 DEF OpenWork
            <7> QED
              BY <7>2, <7>3
          <6> QED
            BY <6>1
        <5>3. Length \in Nat /\ Later(order, sent, order', sent')
          BY <2>12, LengthNat DEF Progress
        <5> QED
          BY <2>10, <4>1, <5>1, <5>2, <5>3, SeenLater
      <4>3. ASSUME job.pass # "INCREMENTAL", NEW g \in listed PROVE Read(g)'
        <5>1. Read(g) /\ g[1] \in Conversations /\ g[2] \in Nat /\ 1 <= g[2] /\ g = <<g[1], g[2]>>
          BY <4>1, <4>3, HistoryBounds DEF MessagePhase, ImportInv, HistoryTypeOK, Message
        <5>2. CASE g \in imported
          BY <2>10, <5>2 DEF Read
        <5>3. CASE g \notin imported /\ (g[1] # c \/ held[t].page # "current")
          <6>1. work'[g[1]] = work[g[1]]
            BY <2>9, <5>1, <5>3
          <6> QED
            BY <5>1, <5>3, <6>1 DEF Read
        <5>4. CASE g \notin imported /\ g[1] = c /\ held[t].page = "current"
          <6>1. ~(g[2] > n)
            BY <2>1, <4>3, <5>4
          <6>2. CASE g[2] = n
            BY <2>2, <5>1, <5>4, <6>2 DEF Read
          <6>3. CASE g[2] # n
            <7>1. state = "OPEN" /\ left = n - 1 /\ g[2] <= n - 1
              BY <2>1, <2>6, <5>1, <6>1, <6>3
            <7> QED
              BY <2>9, <5>4, <7>1 DEF Read
          <6> QED
            BY <6>2, <6>3
        <5> QED
          BY <5>2, <5>3, <5>4
      <4> QED
        BY <1>1, <4>2, <4>3
    <3>5. (job.initial \/ proven => Complete)'
      BY <1>1, <2>11, <2>12, CompleteGoesOn DEF ImportInv
    <3> QED
      BY <2>14, <3>1, <3>2, <3>3, <3>4, <3>5 DEF RowsOK
  <2>16. ListPhase'
    <3> SUFFICES ASSUME job.phase = "LIST", job.pass # "INCREMENTAL"
                 PROVE  /\ \A d \in Conversations : work'[d].state # "COMPLETE" /\ work'[d].token = 0
                        /\ \A q \in Ticks : at'[q] = "messages" => held'[q].page # "current"
      BY <2>11 DEF ListPhase
    <3>1. ListPhase /\ held[t].page # "current"
      BY <1>1 DEF ImportInv, ListPhase
    <3> QED
      BY <2>7, <2>9, <3>1 DEF ListPhase
  <2>17. \A q \in Ticks : q # t /\ job'.owner = q =>
           job.owner = q /\ held'[q] = held[q] /\ listed' = listed /\ SamePage
    <3>1. SamePage
      BY <2>11 DEF SamePage
    <3> QED
      BY <1>1, <2>7, <2>11, <3>1, HistoryBounds
  <2>18. \A q \in Ticks : q # t /\ at[q] = "messages" /\ held'[q].page = "current"
                                /\ job'.pass # "INCREMENTAL" =>
           held[q].page = "current" /\ job.pass # "INCREMENTAL" /\ listed' = listed
    BY <1>1, <2>7, <2>11
  <2>19. job.initial => job'.initial
    BY <2>11
  <2> QED
    BY <2>7, <2>12, <2>13, <2>15, <2>16, <2>17, <2>18, <2>19, EndsKeeps
<1> QED
  BY <1>2, <1>3

-----------------------------------------------------------------------------
LEMMA ImportInit == HistoryInit => ImportInv
<1> SUFFICES ASSUME HistoryInit PROVE ImportInv
  OBVIOUS
<1>1. job = [NewJob EXCEPT !.state = "NONE"]
  BY DEF HistoryInit
<1>2. /\ job \in Jobs /\ job.state = "NONE" /\ job.owner = NoTick /\ job.back = 0
      /\ job.phase = "LIST" /\ job.pass = "BACKFILL" /\ job.mode = "INITIAL_BACKFILL"
      /\ job.initial = FALSE
  BY <1>1 DEF NewJob, Jobs, Claimables
<1>3. NoWork \in [Conversations -> Work] /\ work = NoWork
  BY DEF HistoryInit, NoWork, Work, Works
<1>4. sent \in [Conversations -> 1..1] /\ arrivals = 0 /\ \A c \in Conversations : sent[c] = 1
  BY DEF HistoryInit
<1>5. HistoryTypeOK
  <2>1. /\ at \in [Ticks -> Stages] /\ held \in [Ticks -> Held]
    BY NoHeldFits DEF HistoryInit, Stages
  <2>2. faults \in 0..MaxFaults /\ OperatorOK /\ arrivals \in 0..MaxArrivals
    BY HistoryBounds DEF HistoryInit
  <2>3. sent \in [Conversations -> 1..(arrivals + 1)]
    BY <1>4
  <2> QED
    BY <1>2, <1>3, <2>1, <2>2, <2>3 DEF HistoryTypeOK, HistoryInit, Stages
<1>6. OrderOK
  <2>1. FirstOrder \in [1..Length -> Conversations] /\ DOMAIN FirstOrder = 1..Length
    BY HistoryBounds DEF Length
  <2>2. \A c \in Conversations : \E i \in 1..Length : FirstOrder[i] = c
    BY <2>1, HistoryBounds
  <2> QED
    BY <2>1, <2>2 DEF HistoryInit, OrderOK
<1>7. JobOK
  BY <1>1, <1>2 DEF JobOK
<1>8. \A c \in Conversations : work[c].state = "NONE" /\ work[c].token = 0
  BY <1>3 DEF NoWork
<1>9. WorkOK
  BY <1>4, <1>8 DEF WorkOK
<1>10. ListedOK /\ MessagePhase
  BY <1>2 DEF HistoryInit, ListedOK, MessagePhase
<1>11. Seen(job.back, {})
  BY <1>2, LengthNat DEF Seen, SeenIn
<1>12. \A q \in Ticks : at[q] = "idle"
  BY DEF HistoryInit
<1>13. ListPhase
  BY <1>8, <1>12 DEF ListPhase
<1>14. \A q \in Ticks : TickFits(at[q], held[q]) /\ OwnerFits(at[q], held[q])
  BY <1>12 DEF TickFits, OwnerFits
<1>15. job.initial \/ proven => Complete
  BY <1>2 DEF HistoryInit
<1> QED
  BY <1>5, <1>6, <1>7, <1>9, <1>10, <1>11, <1>13, <1>14, <1>15 DEF ImportInv

LEMMA ImportStutters ==
  ASSUME ImportInv, UNCHANGED historyVars
  PROVE  ImportInv'
<1>1. HistoryTypeOK'
  BY DEF ImportInv, HistoryTypeOK, historyVars
<1>2. RowsOK'
  BY RowsKept DEF ImportInv, RowsOK, historyVars
<1>3. ListPhase'
  BY DEF ImportInv, ListPhase, historyVars
<1>4. \A q \in Ticks : TickFits(at[q], held[q])'
  BY DEF ImportInv, TickFits, Complete, CompleteIn, historyVars
<1>5. \A q \in Ticks : job'.owner = q => OwnerFits(at[q], held[q])'
  BY DEF ImportInv, OwnerFits, Seen, SeenIn, historyVars
<1> QED
  BY <1>1, <1>2, <1>3, <1>4, <1>5 DEF ImportInv, RowsOK

LEMMA ImportNext == ImportInv /\ RequestsFit /\ [HistoryNext]_historyVars => ImportInv'
<1> SUFFICES ASSUME ImportInv, RequestsFit, [HistoryNext]_historyVars PROVE ImportInv'
  OBVIOUS
<1>1. ASSUME NEW t \in Ticks, TickStep(t) PROVE ImportInv'
  BY <1>1, ClaimKeeps, ProcessKeeps, StoreListKeeps, StoreMessagesKeeps, AdvanceKeeps,
     FinishKeeps, HandleKeeps, RecoverKeeps, FailKeeps DEF TickStep
<1>2. ASSUME NEW t \in Ticks, Find(t) \/ TickDies(t) PROVE ImportInv'
  BY <1>2, FindKeeps, DiesKeeps
<1>3. ASSUME NEW t \in Ticks, NEW kind \in Errors, Error(t, kind) PROVE ImportInv'
  BY <1>3, ErrorKeeps
<1>4. ASSUME NEW c \in Conversations, MessageArrives(c) PROVE ImportInv'
  BY <1>4, ArrivalKeeps
<1>5. CASE \/ StartHistorySync \/ PauseHistorySync \/ ReadForIncremental \/ RunIncrementalNow
           \/ FallsDue \/ LeaseLapses
  BY <1>5, StartKeeps, FoundKeeps, TimeKeeps, RunNowKeeps
<1>6. ASSUME NEW found \in Requests, ResumeHistorySync(found) PROVE ImportInv'
  BY <1>6, ResumeKeeps
<1>7. CASE UNCHANGED historyVars
  BY <1>7, ImportStutters
<1> QED
  BY <1>1, <1>2, <1>3, <1>4, <1>5, <1>6, <1>7 DEF HistoryNext

\* The frontier of the backfill and its end, at the steps that move neither.
Still == job'.back \in {job.back, 0} /\ job'.initial = job.initial

LEMMA JobUntouched ==
  ASSUME NEW t \in Ticks,
         \/ Find(t) \/ TickDies(t) \/ ProcessClaimed(t) \/ HandleError(t)
         \/ \E kind \in Errors : Error(t, kind)
  PROVE  Still
BY DEF Find, TickDies, ProcessClaimed, HandleError, Error, Still

LEMMA ReleasedStill ==
  ASSUME ImportInv, NEW t \in Ticks,
         StoreList(t) \/ StoreMessages(t) \/ FailAttempt(t) \/ RecoverCursor(t)
  PROVE  Still
<1> DEFINE row == Released(job)
<1>1. row \in Jobs /\ row.back = job.back /\ row.initial = job.initial
  BY JobRowOK, ReleasedRow DEF RowOK
<1>2. \/ job' = job \/ job' = row
      \/ job' = [row EXCEPT !.phase = "MESSAGES", !.next = held[t].token, !.more = held[t].more]
      \/ job' = BackOff(job)
      \/ job' = [row EXCEPT !.state = "FAILED", !.due = TRUE]
      \/ job' = AfterRecovery(t, job)
  BY DEF StoreList, StoreMessages, FailAttempt, RecoverCursor, Update
<1>3. CASE job' = BackOff(job)
  <2>1. job' = [row EXCEPT !.state = "BACKING_OFF"]
    BY <1>3 DEF BackOff
  <2> HIDE DEF row
  <2> QED
    BY <1>1, <2>1 DEF Jobs, Still
<1>4. CASE job' = AfterRecovery(t, job)
  <2>1. PICK pass : job' = [row EXCEPT !.state = "QUEUED", !.phase = "LIST", !.back = 0,
                       !.inc = 0, !.next = 0, !.more = FALSE, !.pass = pass]
    BY <1>4 DEF AfterRecovery
  <2> HIDE DEF row
  <2> QED
    BY <1>1, <2>1 DEF Jobs, Still
<1> HIDE DEF row
<1>5. CASE job' = [row EXCEPT !.phase = "MESSAGES", !.next = held[t].token, !.more = held[t].more]
  BY <1>1, <1>5 DEF Jobs, Still
<1>6. CASE job' = [row EXCEPT !.state = "FAILED", !.due = TRUE]
  BY <1>1, <1>6 DEF Jobs, Still
<1> QED
  BY <1>1, <1>2, <1>3, <1>4, <1>5, <1>6 DEF Still

LEMMA RowStill ==
  ASSUME ImportInv,
         \/ \E t \in Ticks : Claim(t)
         \/ StartHistorySync \/ PauseHistorySync \/ ReadForIncremental \/ RunIncrementalNow
         \/ \E found \in Requests : ResumeHistorySync(found)
         \/ FallsDue \/ LeaseLapses
  PROVE  Still
<1>1. job \in Jobs
  BY JobRowOK DEF RowOK
<1>2. CASE \E t \in Ticks : Claim(t)
  <2>1. PICK t \in Ticks : Claim(t)
    BY <1>2
  <2>2. PICK row : row = [job EXCEPT !.state = "RUNNING", !.owner = t, !.lapsed = FALSE, !.due = TRUE]
    OBVIOUS
  <2>3. row.back = job.back /\ row.initial = job.initial
    BY <1>1, <2>2 DEF Jobs
  <2>5. \A pass : LET next == [row EXCEPT !.pass = pass, !.phase = "LIST", !.inc = 0, !.index = 0]
                  IN next.back = job.back /\ next.initial = job.initial
    BY <1>1, <2>2 DEF Jobs
  <2>4. \/ job' = job \/ job' = row
        \/ job' = [row EXCEPT !.pass = "INCREMENTAL", !.phase = "LIST", !.inc = 0, !.index = 0]
    BY <2>1, <2>2 DEF Claim
  <2> QED
    BY <2>3, <2>4, <2>5 DEF Still
<1>3. CASE StartHistorySync
  <2>1. CASE job.state = "NONE"
    <3>1. job = [NewJob EXCEPT !.state = "NONE"] /\ job' = NewJob
      BY <1>3, <2>1 DEF ImportInv, JobOK, StartHistorySync
    <3> QED
      BY <3>1 DEF NewJob, Still
  <2>2. CASE job.state # "NONE"
    BY <1>3, <2>2 DEF StartHistorySync, Found, Still
  <2> QED
    BY <2>1, <2>2
<1>4. CASE PauseHistorySync \/ RunIncrementalNow \/ FallsDue \/ LeaseLapses
  BY <1>1, <1>4 DEF PauseHistorySync, RunIncrementalNow, FallsDue, LeaseLapses, Jobs, Still
<1>5. CASE ReadForIncremental
  BY <1>5 DEF ReadForIncremental, Found, Still
<1>6. CASE \E found \in Requests : ResumeHistorySync(found)
  BY <1>1, <1>6 DEF ResumeHistorySync, Jobs, Still
<1> QED
  BY <1>2, <1>3, <1>4, <1>5, <1>6

\* Only the tick that has the lease moves them, once the page owes nothing.
LEMMA FrontierMoves ==
  ASSUME ImportInv, NEW t \in Ticks, AdvanceCompletedPage(t) \/ FinishBackfill(t)
  PROVE  Still \/ listed \subseteq imported
<1>1. CASE job.owner # t
  BY <1>1 DEF AdvanceCompletedPage, FinishBackfill, Update, Still
<1>2. CASE job.owner = t
  <2>1. OwnerFits(at[t], held[t])
    BY <1>2 DEF ImportInv
  <2>2. CASE FinishBackfill(t)
    BY <2>1, <2>2 DEF FinishBackfill, OwnerFits
  <2>3. CASE AdvanceCompletedPage(t) /\ job.pass = "BACKFILL"
    BY <2>1, <2>3 DEF AdvanceCompletedPage, OwnerFits
  <2>4. CASE AdvanceCompletedPage(t) /\ job.pass # "BACKFILL"
    <3> DEFINE row == NextPage(job)
    <3>1. row \in Jobs /\ row.back = job.back /\ row.initial = job.initial
      BY JobRowOK, NextPageRow DEF RowOK
    <3>2. PICK i : \/ job' = [row EXCEPT !.pass = "BACKFILL", !.inc = 0, !.since = 0]
                   \/ job' = [row EXCEPT !.inc = job.next, !.index = i]
                   \/ job' = [row EXCEPT !.state = "COMPLETE", !.inc = 0, !.index = 0]
      <4>1. PICK i : i = row.index + 1
        OBVIOUS
      <4>2. job' = IF job.pass = "HEAD" THEN AfterHead(job) ELSE AfterIncremental(job)
        BY <1>2, <2>4 DEF AdvanceCompletedPage, Update
      <4>3. \/ job' = [row EXCEPT !.pass = "BACKFILL", !.inc = 0, !.since = 0]
            \/ job' = [row EXCEPT !.inc = job.next, !.index = i]
            \/ job' = [row EXCEPT !.state = "COMPLETE", !.inc = 0, !.index = 0]
        BY <4>1, <4>2 DEF AfterHead, AfterIncremental
      <4> QED
        BY <4>3
    <3> HIDE DEF row
    <3>3. CASE job' = [row EXCEPT !.pass = "BACKFILL", !.inc = 0, !.since = 0]
      BY <3>1, <3>3 DEF Jobs, Still
    <3>4. CASE job' = [row EXCEPT !.inc = job.next, !.index = i]
      BY <3>1, <3>4 DEF Jobs, Still
    <3>5. CASE job' = [row EXCEPT !.state = "COMPLETE", !.inc = 0, !.index = 0]
      BY <3>1, <3>5 DEF Jobs, Still
    <3> QED
      BY <3>2, <3>3, <3>4, <3>5
  <2> QED
    BY <2>2, <2>3, <2>4
<1> QED
  BY <1>1, <1>2

LEMMA FrontierStep ==
  ASSUME ImportInv, HistoryNext
  PROVE  Still \/ listed \subseteq imported
<1>1. ASSUME NEW t \in Ticks, TickStep(t) PROVE Still \/ listed \subseteq imported
  BY <1>1, RowStill, JobUntouched, ReleasedStill, FrontierMoves DEF TickStep
<1>2. ASSUME NEW t \in Ticks, Find(t) \/ TickDies(t) \/ \E kind \in Errors : Error(t, kind)
      PROVE  Still
  BY <1>2, JobUntouched
<1>3. ASSUME NEW c \in Conversations, MessageArrives(c) PROVE Still
  BY <1>3 DEF MessageArrives, Still
<1>4. CASE \/ StartHistorySync \/ PauseHistorySync \/ ReadForIncremental \/ RunIncrementalNow
           \/ (\E found \in Requests : ResumeHistorySync(found)) \/ FallsDue \/ LeaseLapses
  BY <1>4, RowStill
<1> QED
  BY <1>1, <1>2, <1>3, <1>4 DEF HistoryNext

\* A job that was imported once remains so.
LEMMA ImportedOnce ==
  ASSUME ImportInv, HistoryNext
  PROVE  job.initial => job'.initial
<1>1. ASSUME NEW t \in Ticks, AdvanceCompletedPage(t) PROVE job'.initial = job.initial
  <2> DEFINE row == NextPage(job)
  <2>1. row \in Jobs /\ row.initial = job.initial
    BY JobRowOK, NextPageRow DEF RowOK
  <2>2. \/ job' = job \/ job' = AfterHead(job) \/ job' = AfterBackfill(job)
        \/ job' = AfterIncremental(job)
    BY <1>1 DEF AdvanceCompletedPage, Update
  <2>3. CASE job' = AfterHead(job)
    <3>1. job' = [row EXCEPT !.pass = "BACKFILL", !.inc = 0, !.since = 0]
      BY <2>3 DEF AfterHead
    <3> HIDE DEF row
    <3> QED
      BY <2>1, <3>1 DEF Jobs
  <2>4. CASE job' = AfterBackfill(job)
    <3>1. PICK pass : pass = IF job.since + 1 >= HeadEvery THEN "HEAD" ELSE row.pass
      OBVIOUS
    <3>2. PICK inc : inc = IF job.since + 1 >= HeadEvery THEN 0 ELSE row.inc
      OBVIOUS
    <3>3. job' = [row EXCEPT !.back = job.next, !.since = row.since + 1, !.pass = pass,
                             !.inc = inc]
      BY <2>4, <3>1, <3>2 DEF AfterBackfill
    <3> HIDE DEF row
    <3> QED
      BY <2>1, <3>3 DEF Jobs
  <2>5. CASE job' = AfterIncremental(job)
    <3>1. \/ job' = [row EXCEPT !.inc = job.next, !.index = row.index + 1]
          \/ job' = [row EXCEPT !.state = "COMPLETE", !.inc = 0, !.index = 0]
      BY <2>5 DEF AfterIncremental
    <3> HIDE DEF row
    <3> QED
      BY <2>1, <3>1 DEF Jobs
  <2> QED
    BY <2>2, <2>3, <2>4, <2>5
<1>2. ASSUME NEW t \in Ticks, FinishBackfill(t) PROVE job.initial => job'.initial
  <2>1. NextPage(job) \in Jobs
    BY JobRowOK, NextPageRow DEF RowOK
  <2> QED
    BY <1>2, <2>1 DEF FinishBackfill, Update, Jobs
<1>3. ASSUME NEW t \in Ticks, TickStep(t) PROVE job.initial => job'.initial
  BY <1>1, <1>2, <1>3, RowStill, JobUntouched, ReleasedStill DEF TickStep, Still
<1>4. ASSUME NEW t \in Ticks, Find(t) \/ TickDies(t) \/ \E kind \in Errors : Error(t, kind)
      PROVE  Still
  BY <1>4, JobUntouched
<1>5. ASSUME NEW c \in Conversations, MessageArrives(c) PROVE Still
  BY <1>5 DEF MessageArrives, Still
<1>6. CASE \/ StartHistorySync \/ PauseHistorySync \/ ReadForIncremental \/ RunIncrementalNow
           \/ (\E found \in Requests : ResumeHistorySync(found)) \/ FallsDue \/ LeaseLapses
  BY <1>6, RowStill DEF Still
<1> QED
  BY <1>3, <1>4, <1>5, <1>6 DEF HistoryNext, Still

\* Only a run-now that finds the job imported adds itself to the requests.
LEMMA RequestsNext == ImportInv /\ RequestsFit /\ [HistoryNext]_historyVars => RequestsFit'
<1> SUFFICES ASSUME ImportInv, RequestsFit, [HistoryNext]_historyVars PROVE RequestsFit'
  OBVIOUS
<1>1. CASE UNCHANGED historyVars
  BY <1>1 DEF historyVars, RequestsFit
<1>2. CASE HistoryNext
  <2>1. job.initial => job'.initial
    BY <1>2, ImportedOnce
  <2>2. "RUN" \in requests' => "RUN" \in requests \/ job.initial
    <3>1. ASSUME NEW t \in Ticks, Find(t) \/ TickStep(t) \/ TickDies(t)
          PROVE  requests' = requests
      BY <3>1 DEF Find, TickStep, TickDies, Claim, ProcessClaimed, StoreList, StoreMessages,
                  AdvanceCompletedPage, FinishBackfill, HandleError, RecoverCursor,
                  FailAttempt, Bounds
    <3>2. ASSUME NEW t \in Ticks, NEW kind \in Errors, Error(t, kind)
          PROVE  requests' = requests
      BY <3>2 DEF Error
    <3>3. CASE \/ PauseHistorySync \/ FallsDue \/ LeaseLapses
               \/ \E c \in Conversations : MessageArrives(c)
      BY <3>3 DEF PauseHistorySync, FallsDue, LeaseLapses, MessageArrives, Bounds
    <3>4. CASE StartHistorySync \/ ReadForIncremental
      BY <3>4 DEF StartHistorySync, ReadForIncremental, Found
    <3>5. CASE RunIncrementalNow \/ \E found \in Requests : ResumeHistorySync(found)
      BY <3>5 DEF RunIncrementalNow, ResumeHistorySync
    <3> QED
      BY <1>2, <3>1, <3>2, <3>3, <3>4, <3>5 DEF HistoryNext
  <2> QED
    BY <2>1, <2>2 DEF RequestsFit
<1> QED
  BY <1>1, <1>2

LEMMA ImportInvariant == HistorySpec => []ImportInv
<1>1. HistoryInit => ImportInv /\ RequestsFit
  BY ImportInit DEF HistoryInit, RequestsFit
<1> QED
  BY <1>1, ImportNext, RequestsNext, PTL DEF HistorySpec

-----------------------------------------------------------------------------
(* What the import guarantees, for any number of ticks and conversations *)

\* The lease of the job is held only in the states that processNext and the
\* operator leave it in, and a job is COMPLETE only after its first import
\* (history-processor.ts, claimNextJob and finishBackfill).
THEOREM JobIsTyped == HistorySpec => []HistoryTypeOK
<1>1. ImportInv => HistoryTypeOK
  BY DEF ImportInv
<1> QED
  BY ImportInvariant, <1>1, PTL

\* An import that is reported complete (initialCompletedAt, or the run row that
\* finishBackfill writes whoever holds the lease) has every message of every
\* conversation without new activity, whatever ticks overlapped, were slow, were
\* killed or started over.
THEOREM CompleteMeansImported == HistorySpec => []BackfillIsComplete
<1>1. ImportInv => BackfillIsComplete
  <2> SUFFICES ASSUME ImportInv, job.initial \/ proven, NEW c \in Conversations, sent[c] = 1
               PROVE  Owed(c) \subseteq imported
    BY DEF BackfillIsComplete
  <2>1. <<c, 1>> \in imported
    BY DEF ImportInv, Complete, CompleteIn
  <2>2. Owed(c) = {<<c, 1>>}
    BY DEF Owed
  <2> QED
    BY <2>1, <2>2
<1> QED
  BY ImportInvariant, <1>1, PTL

\* The cursor of the backfill advances and the backfill ends
\* (advanceCompletedPage and finishBackfill) only when every message that the
\* page last listed owes is stored.
THEOREM CursorLeavesNothing == HistorySpec => NothingLeftBehind
<1>1. ImportInv /\ [HistoryNext]_historyVars
        => [\/ job'.back \notin {job.back, 0}
            \/ job'.initial /\ ~job.initial
              => listed \subseteq imported]_historyVars
  BY FrontierStep DEF Still
<1>2. []ImportInv /\ [][HistoryNext]_historyVars => NothingLeftBehind
  BY <1>1, PTL DEF NothingLeftBehind
<1> QED
  BY ImportInvariant, <1>2, PTL DEF HistorySpec

==============================================================================
