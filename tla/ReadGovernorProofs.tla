--------------------------- MODULE ReadGovernorProofs ---------------------------
(***************************************************************************)
(* Proofs about ReadGovernor: the rows stay well formed, requests of a     *)
(* group that keep within their leases are never in flight together, and   *)
(* they keep the spacing.                                                  *)
(***************************************************************************)
EXTENDS ReadGovernor, TLAPS

-----------------------------------------------------------------------------
(* The inductive invariant *)

\* Between its claim and its release a reader believes that it has the lease.
Working(r) == phase[r] \in {"held", "flying", "cleared", "counting", "leaving"}

\* A reader within its lease is on the row, and its lease has not run out.
LeaseProtects ==
  \A r \in Readers : Working(r) /\ r \notin late => Owns(r) /\ lease.until >= 1

\* The row remembers the spacing after the last success.
SpacingRemembered == lease.spacing >= SpacingTicks - quiet \/ quiet >= SpacingTicks

\* Nobody has succeeded under another lease since the one on the row was claimed.
ClaimedAfterSpacing ==
  \A r \in Readers : /\ Owns(r)
                     /\ phase[r] \in {"held", "flying", "cleared"}
                     => quiet >= SpacingTicks

ReadInv == ReadTypeOK /\ LeaseProtects /\ SpacingRemembered /\ ClaimedAfterSpacing

-----------------------------------------------------------------------------
(* Facts *)

\* No operation is called "none", and a cooldown of the past is an instant.
LEMMA Basics ==
  /\ "none" \notin Operations
  /\ MaxAge \in Nat /\ -MaxAge \in Int
  /\ SpacingTicks \in Nat /\ SpacingTicks >= 1
  /\ LeaseTicks \in Nat /\ LeaseTicks >= 1
BY ReadBounds

\* Ageing keeps an instant an instant and takes at most one tick from it.
LEMMA OlderFacts ==
  ASSUME NEW t \in Int
  PROVE  /\ Older(t) \in Int /\ Older(t) >= t - 1
         /\ Older(t) >= -MaxAge /\ (t >= -MaxAge => Older(t) <= t)
BY Basics DEF Older, Largest

\* The backoff stays within its cap.
LEMMA BackoffFacts ==
  ASSUME NEW previous \in 0..BackoffCap
  PROVE  NextBackoff(previous) \in 0..BackoffCap
BY ReadBounds DEF NextBackoff, Smallest

\* What a reader that leaves has left.
LEMMA LeaveTyped ==
  ASSUME ReadTypeOK, NEW r \in Readers, Leave(r)
  PROVE  /\ phase' \in [Readers -> Phases]
         /\ using' \in [Readers -> Operations \cup {"none"}]
         /\ \A q \in Readers : using'[q] = "none" <=> phase'[q] = "out"
         /\ age' \in [Readers -> 0..MaxAge]
         /\ counted' \in [Readers -> 0..BackoffCap]
         /\ retries' \in [Readers -> 0..MaxRetries]
         /\ late' \subseteq Readers
BY ReadBounds DEF Leave, Enter, ReadTypeOK, Phases

\* A fenced update of the row keeps it well formed.
LEMMA FencedTyped ==
  ASSUME ReadTypeOK, NEW r \in Readers,
         NEW row \in LeaseRow, row.owner = NoReader => row.until = 0,
         Fenced(r, row)
  PROVE  /\ lease' \in LeaseRow
         /\ lease'.owner = NoReader => lease'.until = 0
BY DEF Fenced, ReadTypeOK

-----------------------------------------------------------------------------
(* Initial states *)

\* No lease, no cooldown and no reader.
LEMMA InitInv == ReadInit => ReadInv
<1> SUFFICES ASSUME ReadInit PROVE ReadInv
  OBVIOUS
<1>1. ReadTypeOK
  <2>1. group \in Groups
    BY ReadBounds DEF ReadInit, Group, Groups
  <2>2. lease \in LeaseRow /\ lease.until = 0
    BY Basics DEF ReadInit, NoLease, LeaseRow
  <2> QED
    BY <2>1, <2>2, ReadBounds, Basics DEF ReadInit, ReadTypeOK, Phases
<1>2. LeaseProtects /\ SpacingRemembered /\ ClaimedAfterSpacing
  BY Basics
     DEF ReadInit, LeaseProtects, SpacingRemembered, ClaimedAfterSpacing, Working
<1> QED BY <1>1, <1>2 DEF ReadInv

-----------------------------------------------------------------------------
(* Steps that leave the row alone *)

\* A reader that moves on, as far into its request as it was, disturbs nobody.
LEMMA MovesOn ==
  ASSUME ReadInv, ReadTypeOK', NEW r \in Readers, NEW next \in Phases,
         phase' = [phase EXCEPT ![r] = next],
         UNCHANGED <<lease, late, quiet>>,
         \/ next \in {"asking", "cool"}
         \/ phase[r] \in {"held", "flying", "cleared"} /\ next \in {"held", "flying", "cleared"}
         \/ Working(r) /\ next \in {"counting", "leaving"}
  PROVE  ReadInv'
<1>1. /\ phase'[r] = next
      /\ \A q \in Readers \ {r} : phase'[q] = phase[q]
  BY DEF ReadInv, ReadTypeOK
<1>2. LeaseProtects'
  BY <1>1 DEF ReadInv, LeaseProtects, Working, Owns
<1>3. SpacingRemembered' /\ ClaimedAfterSpacing'
  BY <1>1 DEF ReadInv, SpacingRemembered, ClaimedAfterSpacing, Owns
<1> QED BY <1>2, <1>3 DEF ReadInv

\* A reader that leaves disturbs nobody, if the row is kept or its own lease
\* released.
LEMMA Leaves ==
  ASSUME ReadInv, ReadTypeOK', NEW r \in Readers, Leave(r), quiet' = quiet,
         \/ lease' = lease
         \/ Owns(r) /\ lease' = [owner |-> NoReader, until |-> 0, spacing |-> lease.spacing]
  PROVE  ReadInv'
<1>1. /\ phase'[r] = "out" /\ late' = late \ {r}
      /\ \A q \in Readers \ {r} : phase'[q] = phase[q]
  BY DEF ReadInv, ReadTypeOK, Leave, Enter
<1>2. lease'.spacing = lease.spacing
  BY DEF ReadInv, ReadTypeOK
<1>3. \A q \in Readers \ {r} : Owns(q) => lease' = lease
  BY DEF Owns
<1>4. \A q \in Readers : Owns(q)' => lease' = lease
  <2>1. lease' = lease \/ lease'.owner = NoReader
    BY DEF ReadInv, ReadTypeOK
  <2> QED BY <2>1, ReadBounds DEF Owns
<1>5. LeaseProtects'
  BY <1>1, <1>3 DEF ReadInv, LeaseProtects, Working, Owns
<1>6. SpacingRemembered'
  BY <1>2 DEF ReadInv, SpacingRemembered
<1>7. ClaimedAfterSpacing'
  BY <1>1, <1>4 DEF ReadInv, ClaimedAfterSpacing, Owns
<1> QED BY <1>5, <1>6, <1>7 DEF ReadInv

\* A reader asks for an operation of the group.
LEMMA AskStep ==
  ASSUME ReadInv, NEW r \in Readers, Ask(r)
  PROVE  ReadInv'
<1>1. phase[r] = "out" /\ phase' = [phase EXCEPT ![r] = "asking"]
  BY DEF Ask, Enter
<1>2. PICK o \in Operations : using' = [using EXCEPT ![r] = o]
  BY DEF Ask
<1>3. ReadTypeOK'
  BY <1>1, <1>2, Basics DEF Ask, ReadInv, ReadTypeOK, Phases
<1> QED BY <1>1, <1>3, MovesOn DEF Ask, Phases

\* The cooldown is checked; the reader goes on or leaves.
LEMMA CheckStep ==
  ASSUME ReadInv, NEW r \in Readers, CheckCooldown(r)
  PROVE  ReadInv'
<1>1. CASE Leave(r)
  <2>1. ReadTypeOK'
    BY <1>1, LeaveTyped DEF CheckCooldown, ReadInv, ReadTypeOK
  <2> QED BY <1>1, <2>1, Leaves DEF CheckCooldown
<1>2. CASE ~Leave(r)
  <2>1. /\ phase' = [phase EXCEPT ![r] = "cool"] /\ phase[r] = "asking"
        /\ UNCHANGED <<group, cooldown, backoff, lease, quiet, using, age, counted,
                       retries, late>>
    BY <1>2 DEF CheckCooldown, Enter
  <2>2. ReadTypeOK'
    BY <2>1 DEF ReadInv, ReadTypeOK, Phases
  <2> QED BY <2>1, <2>2, MovesOn DEF Phases
<1> QED BY <1>1, <1>2

\* The request is retried, fails, succeeds or is throttled.
LEMMA RequestStep ==
  ASSUME ReadInv, NEW r \in Readers, Retry(r) \/ Fail(r) \/ Succeed(r) \/ Throttled(r)
  PROVE  ReadInv'
<1>1. phase[r] = "flying" /\ UNCHANGED <<lease, late, quiet, age, using, group>>
  BY DEF Retry, Fail, Succeed, Throttled
<1>2. PICK next \in {"held", "leaving", "cleared", "counting"} :
        phase' = [phase EXCEPT ![r] = next]
  BY DEF Retry, Fail, Succeed, Throttled, Enter
<1>3. using[r] \in Operations
  BY <1>1 DEF ReadInv, ReadTypeOK
<1>4. /\ cooldown' \in [Operations -> Int] /\ backoff' \in [Operations -> 0..BackoffCap]
      /\ counted' \in [Readers -> 0..BackoffCap] /\ retries' \in [Readers -> 0..MaxRetries]
  <2>1. /\ cooldown \in [Operations -> Int] /\ backoff \in [Operations -> 0..BackoffCap]
        /\ counted \in [Readers -> 0..BackoffCap] /\ retries \in [Readers -> 0..MaxRetries]
    BY DEF ReadInv, ReadTypeOK
  <2>2. CASE Retry(r)
    BY <2>1, <2>2, ReadBounds DEF Retry
  <2>3. CASE Fail(r)
    BY <2>1, <2>3 DEF Fail
  <2>4. CASE Succeed(r)
    <3>1. -MaxAge \in Int /\ 0 \in 0..BackoffCap
      BY ReadBounds
    <3> QED BY <2>1, <2>4, <3>1 DEF Succeed
  <2>5. CASE Throttled(r)
    BY <1>3, <2>1, <2>5 DEF Throttled
  <2> QED BY <2>2, <2>3, <2>4, <2>5
<1>5. ReadTypeOK'
  BY <1>1, <1>2, <1>4 DEF ReadInv, ReadTypeOK, Phases
<1> QED BY <1>1, <1>2, <1>5, MovesOn DEF Phases, Working

\* A throttled reader writes the cooldown, whoever has the lease.
LEMMA CooldownStep ==
  ASSUME ReadInv, NEW r \in Readers, WriteCooldown(r)
  PROVE  ReadInv'
<1>1. /\ phase[r] = "counting" /\ phase' = [phase EXCEPT ![r] = "leaving"]
      /\ UNCHANGED <<group, lease, using, age, counted, retries, late, quiet>>
  BY DEF WriteCooldown, Enter
<1>2. NextBackoff(counted[r]) \in 0..BackoffCap
  BY BackoffFacts DEF ReadInv, ReadTypeOK
<1>3. backoff' \in [Operations -> 0..BackoffCap]
  BY <1>2 DEF WriteCooldown, ReadInv, ReadTypeOK
<1>4. cooldown' \in [Operations -> Int]
  <2>1. PICK wait \in {Largest(IF using[r] = "SEARCH_CREATORS" THEN RetryTicks
                               ELSE NextBackoff(counted[r]), after) : after \in RetryAfters}
                        \cup {DayTicks} :
          cooldown' = [cooldown EXCEPT ![using[r]] = wait]
    BY DEF WriteCooldown
  <2>2. wait \in Int
    BY <1>2, ReadBounds DEF Largest
  <2> QED BY <2>1, <2>2 DEF ReadInv, ReadTypeOK
<1>5. ReadTypeOK'
  BY <1>1, <1>3, <1>4 DEF ReadInv, ReadTypeOK, Phases
<1> QED BY <1>1, <1>5, MovesOn DEF Phases, Working

-----------------------------------------------------------------------------
(* Steps that write the row *)

\* The claim is refused, or takes a row whose spacing has passed and that no
\* reader within its lease holds.
LEMMA ClaimStep ==
  ASSUME ReadInv, NEW r \in Readers, ClaimLease(r)
  PROVE  ReadInv'
<1> USE DEF ReadInv
<1>1. CASE ~Claimable(age[r])
  <2>1. Leave(r) /\ UNCHANGED <<group, cooldown, backoff, lease, quiet>>
    BY <1>1 DEF ClaimLease
  <2>2. ReadTypeOK'
    BY <2>1, LeaveTyped DEF ReadTypeOK
  <2> QED BY <2>1, <2>2, Leaves
<1>2. CASE Claimable(age[r])
  <2>1. /\ phase[r] = "cool" /\ phase' = [phase EXCEPT ![r] = "held"]
        /\ lease' = [owner |-> r, until |-> LeaseTicks - age[r],
                     spacing |-> SpacingTicks - age[r]]
        /\ age' = [age EXCEPT ![r] = 0]
        /\ late' = IF age[r] < LeaseTicks THEN late \ {r} ELSE late \cup {r}
        /\ UNCHANGED <<group, cooldown, backoff, quiet, using, counted, retries>>
    BY <1>2 DEF ClaimLease, Enter
  <2>2. age[r] \in Nat /\ age[r] <= MaxAge /\ quiet \in 0..SpacingTicks
    BY Basics DEF ReadTypeOK
  <2>3. lease.spacing \in Int /\ lease.until \in Int
    BY Basics DEF ReadTypeOK, LeaseRow
  <2>4. quiet >= SpacingTicks
    BY <1>2, <2>2, <2>3, Basics DEF Claimable, SpacingRemembered
  <2>5. /\ lease'.owner = r /\ lease'.until = LeaseTicks - age[r]
        /\ lease' \in LeaseRow /\ lease'.owner # NoReader
    <3>1. /\ LeaseTicks - age[r] \in (-MaxAge)..LeaseTicks
          /\ SpacingTicks - age[r] \in (-MaxAge)..SpacingTicks
      BY <2>2, Basics
    <3>2. r # NoReader
      BY ReadBounds
    <3> QED BY <2>1, <3>1, <3>2 DEF LeaseRow
  <2>6. ReadTypeOK'
    BY <2>1, <2>5, Basics DEF ReadTypeOK, Phases
  <2>7. /\ phase'[r] = "held"
        /\ \A q \in Readers \ {r} : phase'[q] = phase[q] /\ (q \in late' <=> q \in late)
    BY <2>1 DEF ReadTypeOK
  <2>8. \A q \in Readers \ {r} : Working(q) => q \in late
    <3> SUFFICES ASSUME NEW q \in Readers \ {r}, Working(q), q \notin late
                 PROVE  FALSE
      OBVIOUS
    <3>1. lease.owner = q /\ lease.until >= 1
      BY DEF LeaseProtects, Owns
    <3> QED BY <1>2, <2>2, <2>3, <3>1, ReadBounds DEF Claimable
  <2>9. r \notin late' => lease'.until >= 1
    BY <2>1, <2>2, <2>5, Basics
  <2>10. LeaseProtects'
    BY <2>5, <2>7, <2>8, <2>9 DEF LeaseProtects, Working, Owns
  <2>11. SpacingRemembered' /\ ClaimedAfterSpacing'
    BY <2>1, <2>4 DEF SpacingRemembered, ClaimedAfterSpacing
  <2> QED BY <2>6, <2>10, <2>11
<1> QED BY <1>1, <1>2

\* The lease is extended if the reader still has it.
LEMMA StartStep ==
  ASSUME ReadInv, NEW r \in Readers, StartRequest(r)
  PROVE  ReadInv'
<1> USE DEF ReadInv
<1>1. /\ phase[r] = "held" /\ phase' = [phase EXCEPT ![r] = "flying"]
      /\ Fenced(r, [lease EXCEPT !.until = LeaseTicks])
      /\ UNCHANGED <<group, cooldown, backoff, using, age, counted, retries, late, quiet>>
  BY DEF StartRequest, Enter
<1>2. lease' \in LeaseRow /\ (lease'.owner = NoReader => lease'.until = 0)
  <2>1. [lease EXCEPT !.until = LeaseTicks] \in LeaseRow
    BY Basics DEF ReadTypeOK, LeaseRow
  <2>2. lease.owner = r => [lease EXCEPT !.until = LeaseTicks].owner # NoReader
    BY ReadBounds DEF ReadTypeOK, LeaseRow
  <2> QED BY <1>1, <2>1, <2>2 DEF Fenced, Owns, ReadTypeOK
<1>3. /\ lease'.owner = lease.owner /\ lease'.spacing = lease.spacing
      /\ lease'.until \in {lease.until, LeaseTicks}
  BY <1>1 DEF Fenced, ReadTypeOK, LeaseRow
<1>4. ReadTypeOK'
  BY <1>1, <1>2 DEF ReadTypeOK, Phases
<1>5. /\ phase'[r] = "flying"
      /\ \A q \in Readers \ {r} : phase'[q] = phase[q]
  BY <1>1 DEF ReadTypeOK
<1>6. LeaseProtects'
  BY <1>1, <1>3, <1>5, Basics DEF LeaseProtects, Working, Owns
<1>7. SpacingRemembered' /\ ClaimedAfterSpacing'
  BY <1>1, <1>3, <1>5 DEF SpacingRemembered, ClaimedAfterSpacing, Owns
<1> QED BY <1>4, <1>6, <1>7

\* A reader that still has the lease writes the spacing after its success.
LEMMA SpaceStep ==
  ASSUME ReadInv, NEW r \in Readers, SpaceNext(r)
  PROVE  ReadInv'
<1> USE DEF ReadInv
<1>1. /\ phase[r] = "cleared" /\ phase' = [phase EXCEPT ![r] = "leaving"]
      /\ Fenced(r, [lease EXCEPT !.spacing = Spacing(r)])
      /\ age' = [age EXCEPT ![r] = 0]
      /\ quiet' = IF r \in late THEN quiet ELSE Smallest(age[r], SpacingTicks)
      /\ UNCHANGED <<group, cooldown, backoff, using, counted, retries, late>>
  BY DEF SpaceNext, Enter
<1>2. age[r] \in Nat /\ Spacing(r) = SpacingTicks - age[r] /\ quiet \in 0..SpacingTicks
  BY Basics DEF ReadTypeOK, Spacing
<1>3. /\ lease'.owner = lease.owner /\ lease'.until = lease.until
      /\ lease'.spacing = IF Owns(r) THEN Spacing(r) ELSE lease.spacing
  BY <1>1 DEF Fenced, ReadTypeOK, LeaseRow
<1>4. lease' \in LeaseRow /\ (lease'.owner = NoReader => lease'.until = 0)
  <2>1. [lease EXCEPT !.spacing = Spacing(r)] \in LeaseRow
    <3>1. Spacing(r) \in (-MaxAge)..SpacingTicks
      BY <1>2, Basics DEF ReadTypeOK
    <3> QED BY <3>1 DEF ReadTypeOK, LeaseRow
  <2>2. lease' \in LeaseRow
    BY <1>1, <2>1 DEF Fenced, ReadTypeOK
  <2> QED BY <1>3, <2>2 DEF ReadTypeOK
<1>5. quiet' \in 0..SpacingTicks
  BY <1>1, <1>2, Basics DEF Smallest
<1>6. ReadTypeOK'
  BY <1>1, <1>4, <1>5, Basics DEF ReadTypeOK, Phases
<1>7. /\ phase'[r] = "leaving"
      /\ \A q \in Readers \ {r} : phase'[q] = phase[q]
  BY <1>1 DEF ReadTypeOK
<1>8. LeaseProtects'
  BY <1>1, <1>3, <1>7 DEF LeaseProtects, Working, Owns
<1>9. r \notin late => Owns(r)
  BY <1>1 DEF LeaseProtects, Working
<1>10. SpacingRemembered'
  <2>1. CASE r \in late /\ ~Owns(r)
    BY <1>1, <1>3, <2>1 DEF SpacingRemembered
  <2>2. CASE r \in late /\ Owns(r)
    BY <1>1, <2>2 DEF SpacingRemembered, ClaimedAfterSpacing
  <2>3. CASE r \notin late
    BY <1>1, <1>2, <1>3, <1>9, <2>3, Basics DEF SpacingRemembered, Smallest
  <2> QED BY <2>1, <2>2, <2>3
<1>11. ClaimedAfterSpacing'
  <2> SUFFICES ASSUME NEW q \in Readers, Owns(q)',
                      phase'[q] \in {"held", "flying", "cleared"}
               PROVE  quiet' >= SpacingTicks
    BY DEF ClaimedAfterSpacing
  <2>1. q # r /\ Owns(q) /\ phase[q] \in {"held", "flying", "cleared"}
    BY <1>3, <1>7 DEF Owns
  <2>2. r \in late
    BY <1>9, <2>1 DEF Owns
  <2> QED BY <1>1, <2>1, <2>2 DEF ClaimedAfterSpacing
<1> QED BY <1>6, <1>8, <1>10, <1>11

\* The lease is given up by the reader that still has it.
LEMMA ReleaseStep ==
  ASSUME ReadInv, NEW r \in Readers, Release(r)
  PROVE  ReadInv'
<1> USE DEF ReadInv
<1>1. /\ Leave(r) /\ Fenced(r, [owner |-> NoReader, until |-> 0, spacing |-> lease.spacing])
      /\ UNCHANGED <<group, cooldown, backoff, quiet>>
  BY DEF Release
<1>2. [owner |-> NoReader, until |-> 0, spacing |-> lease.spacing] \in LeaseRow
  BY Basics DEF ReadTypeOK, LeaseRow
<1>3. ReadTypeOK'
  BY <1>1, <1>2, FencedTyped, LeaveTyped DEF ReadTypeOK
<1> QED BY <1>1, <1>3, Leaves DEF Fenced

\* A statement throws, and the reader goes on to the release.
LEMMA StatementStep ==
  ASSUME ReadInv, NEW r \in Readers, StatementFails(r)
  PROVE  ReadInv'
<1>1. /\ Working(r) /\ phase[r] # "out" /\ phase' = [phase EXCEPT ![r] = "leaving"]
      /\ age' = [age EXCEPT ![r] = 0]
      /\ UNCHANGED <<group, cooldown, backoff, lease, using, counted, retries, late, quiet>>
  BY DEF StatementFails, Enter, Working
<1>2. ReadTypeOK'
  BY <1>1, Basics DEF ReadInv, ReadTypeOK, Phases
<1> QED BY <1>1, <1>2, MovesOn DEF Phases

\* A reader that dies leaves its lease on the row.
LEMMA DeathStep ==
  ASSUME ReadInv, NEW r \in Readers, ReaderDies(r)
  PROVE  ReadInv'
<1>1. Leave(r) /\ UNCHANGED <<group, cooldown, backoff, lease, quiet>>
  BY DEF ReaderDies
<1>2. ReadTypeOK'
  BY <1>1, LeaveTyped DEF ReadInv, ReadTypeOK
<1> QED BY <1>1, <1>2, Leaves

\* A reader whose lease runs out under it is late from then on.
LEMMA TickStep ==
  ASSUME ReadInv, Tick
  PROVE  ReadInv'
<1> USE DEF ReadInv
<1>1. /\ lease'.owner = lease.owner /\ lease'.spacing = Older(lease.spacing)
      /\ lease'.until = IF lease.owner = NoReader THEN 0 ELSE Older(lease.until)
      /\ quiet' = Smallest(quiet + 1, SpacingTicks)
      /\ UNCHANGED <<group, backoff, phase, using, counted, retries>>
  BY DEF Tick
<1>2. /\ lease.spacing \in (-MaxAge)..SpacingTicks /\ lease.until \in (-MaxAge)..LeaseTicks
      /\ lease.spacing \in Int /\ lease.until \in Int /\ quiet \in 0..SpacingTicks
  BY Basics DEF ReadTypeOK, LeaseRow
<1>3. ReadTypeOK'
  <2>1. lease' \in LeaseRow /\ (lease'.owner = NoReader => lease'.until = 0)
    <3>1. Older(lease.spacing) \in (-MaxAge)..SpacingTicks
      BY <1>2, OlderFacts, Basics
    <3>2. Older(lease.until) \in (-MaxAge)..LeaseTicks /\ 0 \in (-MaxAge)..LeaseTicks
      BY <1>2, OlderFacts, Basics
    <3>3. PICK until \in (-MaxAge)..LeaseTicks :
            until = IF lease.owner = NoReader THEN 0 ELSE Older(lease.until)
      BY <3>2
    <3>4. lease' = [owner |-> lease.owner, until |-> until, spacing |-> Older(lease.spacing)]
      BY <3>3 DEF Tick
    <3>5. lease.owner \in Readers \cup {NoReader}
      BY DEF ReadTypeOK, LeaseRow
    <3> QED BY <3>1, <3>3, <3>4, <3>5 DEF LeaseRow
  <2>2. cooldown' \in [Operations -> Int]
    BY OlderFacts DEF Tick, ReadTypeOK
  <2>3. age' \in [Readers -> 0..MaxAge]
    <3> SUFFICES ASSUME NEW r \in Readers
                 PROVE  (IF r \in Timing THEN age[r] + 1 ELSE age[r]) \in 0..MaxAge
      BY DEF Tick
    <3>1. age[r] \in 0..MaxAge /\ (r \in Timing => age[r] < MaxAge)
      BY DEF Tick, ReadTypeOK
    <3> QED BY <3>1, Basics
  <2>4. quiet' \in 0..SpacingTicks
    BY <1>1, <1>2, Basics DEF Smallest
  <2>5. late' \subseteq Readers
    BY DEF Tick, ReadTypeOK
  <2> QED BY <1>1, <2>1, <2>2, <2>3, <2>4, <2>5 DEF ReadTypeOK
<1>4. LeaseProtects'
  <2> SUFFICES ASSUME NEW r \in Readers, Working(r)', r \notin late'
               PROVE  Owns(r)' /\ lease'.until >= 1
    BY DEF LeaseProtects
  <2>1. Working(r) /\ r \notin late /\ phase[r] # "out"
    BY <1>1 DEF Working, Tick
  <2>2. Owns(r) /\ lease.until > 1
    BY <1>2, <2>1 DEF LeaseProtects, Tick
  <2>3. lease.owner # NoReader
    BY <2>2, ReadBounds DEF Owns
  <2> QED BY <1>1, <1>2, <2>2, <2>3, OlderFacts DEF Owns
<1>5. SpacingRemembered'
  BY <1>1, <1>2, OlderFacts, Basics DEF SpacingRemembered, Smallest
<1>6. ClaimedAfterSpacing'
  BY <1>1, <1>2, Basics DEF ClaimedAfterSpacing, Owns, Smallest
<1> QED BY <1>3, <1>4, <1>5, <1>6

-----------------------------------------------------------------------------
(* The invariant and what follows from it *)

\* Every step preserves the invariant.
LEMMA NextInv == ReadInv /\ [ReadNext]_readVars => ReadInv'
<1> SUFFICES ASSUME ReadInv, [ReadNext]_readVars PROVE ReadInv'
  OBVIOUS
<1>1. ASSUME NEW r \in Readers, ReaderStep(r)
      PROVE  ReadInv'
  BY <1>1, CheckStep, ClaimStep, StartStep, RequestStep, SpaceStep, CooldownStep,
     ReleaseStep DEF ReaderStep
<1>2. ASSUME NEW r \in Readers, Ask(r) \/ ReaderBreaks(r)
      PROVE  ReadInv'
  BY <1>2, AskStep, StatementStep, DeathStep DEF ReaderBreaks
<1>3. CASE Tick
  BY <1>3, TickStep
<1>4. CASE UNCHANGED readVars
  BY <1>4
     DEF readVars, ReadInv, ReadTypeOK, LeaseProtects, Working, Owns,
         SpacingRemembered, ClaimedAfterSpacing
<1> QED BY <1>1, <1>2, <1>3, <1>4 DEF ReadNext

\* The invariant holds in every reachable state.
LEMMA ReadInvariant == ReadSpec => []ReadInv
<1> QED BY InitInv, NextInv, PTL DEF ReadSpec

\* The group's row never blocks its readers for longer than a lease and a
\* spacing, has an expiry only with a lease, and no backoff exceeds its cap, for
\* any operations, delays, leases and numbers of readers.
THEOREM ReadsTyped == ReadSpec => []ReadTypeOK
<1>1. ReadInv => ReadTypeOK
  BY DEF ReadInv
<1> QED BY <1>1, ReadInvariant, PTL

\* Two requests of a group are never in flight together while both keep within
\* their leases, whatever clocks they read and whoever dies (acquire,
\* requestStarted and release).
THEOREM ReadsStayExclusive == ReadSpec => []ReadsAreExclusive
<1>1. ReadInv => ReadsAreExclusive
  BY DEF ReadInv, LeaseProtects, ReadsAreExclusive, InFlight, Working, Owns
<1> QED BY <1>1, ReadInvariant, PTL

\* A reader within its lease starts no sooner after the last success recorded
\* under a lease than the spacing (acquire and succeeded).
THEOREM SuccessesStaySpaced == ReadSpec => SuccessesAreSpaced
<1>1. ReadInv /\ [ReadNext]_readVars =>
        [\A r \in Readers :
           phase[r] = "held" /\ InFlight(r)' /\ r \notin late
             => quiet >= SpacingTicks]_readVars
  BY DEF ReadInv, LeaseProtects, ClaimedAfterSpacing, Working
<1> QED BY <1>1, ReadInvariant, PTL DEF ReadSpec, SuccessesAreSpaced
=============================================================================
