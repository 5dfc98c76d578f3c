----------------------------- MODULE ReadGovernor -----------------------------
(***************************************************************************)
(* The durable admission of read requests to TikTok                        *)
(* (apps/api/src/integrations/tiktok-read-governor.ts) and the client that *)
(* passes through it (packages/tiktok-adapter/src/real-read-only.ts).  An  *)
(* operation has a row with its cooldown; the operations of a group share  *)
(* a row with one lease and the spacing of their requests.  Groups share   *)
(* nothing, and a behaviour is about one of them.                          *)
(*                                                                         *)
(* Instants are kept relative to the clock, in ticks: a positive number is *)
(* in the future, and Tick ages all of them.  A reader uses the clock it   *)
(* has read up to MaxAge ticks later, between which its statements run.    *)
(*                                                                         *)
(* The variant of an operator with a qualifier, defined just before it, is *)
(* a faulty one that no action uses and that the properties must reject.   *)
(***************************************************************************)
EXTENDS Integers, FiniteSets

CONSTANTS Readers,      \* requests in progress
          NoReader,     \* a lease that is null
          Operations,   \* the read operations considered
          LeaseTicks,   \* LEASE_MS
          SpacingTicks, \* DEFAULT_SPACING_MS, MARKETPLACE_SUCCESS_SPACING_MS
          RetryTicks,   \* the Marketplace retry delay
          DayTicks,     \* until the next local day
          BackoffCap,   \* 15 min, in units of the first backoff
          RetryAfters,  \* Retry-After values TikTok may answer, 0 for none
          MaxRetries,   \* retries of a temporary failure, 2 in the client
          MaxAge        \* bound: age of a clock reading when it is used

ASSUME ReadBounds ==
  /\ NoReader \notin Readers
  /\ Operations \subseteq {"GET_AUTHORIZED_SHOPS", "GET_CATEGORIES",
                           "SEARCH_CREATORS", "GET_CREATOR_PERFORMANCE",
                           "LIST_CONVERSATIONS", "LIST_MESSAGES"}
  /\ LeaseTicks \in Nat \ {0} /\ SpacingTicks \in Nat \ {0}
  /\ RetryTicks \in Nat /\ DayTicks \in Nat /\ BackoffCap \in Nat \ {0}
  /\ RetryAfters \subseteq Nat /\ MaxRetries \in Nat /\ MaxAge \in Nat

VARIABLES group,    \* the group of operations the readers ask for
          cooldown, \* nextPermittedAt of an operation, -MaxAge if null
          backoff,  \* the backoff its consecutiveThrottleCount stands for
          lease,    \* the lease columns of the group's row
          phase,    \* where each reader stands
          using,    \* the operation a reader asks for
          age,      \* ticks since a reader read the clock
          counted,  \* the backoff a throttled reader has read
          retries,  \* retries of the request so far
          late,     \* history: readers whose lease has run out under them
          quiet     \* history: ticks since the last success spaced under a lease

readVars == <<group, cooldown, backoff, lease, phase, using, age, counted,
              retries, late, quiet>>

Groups == {"AUTHORIZED_SHOPS", "SEARCH_CREATORS", "SHOP_HISTORY_READS"}

\* leaseOperation
Group(o) == CASE o = "GET_AUTHORIZED_SHOPS" -> "AUTHORIZED_SHOPS"
              [] o = "SEARCH_CREATORS" -> "SEARCH_CREATORS"
              [] OTHER -> "SHOP_HISTORY_READS"

Phases == {"out", "asking", "cool", "held", "flying", "cleared", "counting",
           "leaving"}

Largest(a, b) == IF a >= b THEN a ELSE b
Smallest(a, b) == IF a <= b THEN a ELSE b

LeaseRow == [owner : Readers \cup {NoReader}, until : (-MaxAge)..LeaseTicks,
             spacing : (-MaxAge)..SpacingTicks]

\* The group's row never blocks its readers for longer than a lease and a
\* spacing, its lease columns are null together, and no backoff exceeds its cap
\* (tiktok-read-governor.ts:96-101, 152, 176-181).
ReadTypeOK ==
  /\ group \in Groups
  /\ cooldown \in [Operations -> Int]
  /\ backoff \in [Operations -> 0..BackoffCap]
  /\ lease \in LeaseRow
  /\ lease.owner = NoReader => lease.until = 0
  /\ phase \in [Readers -> Phases]
  /\ using \in [Readers -> Operations \cup {"none"}]
  /\ \A r \in Readers : using[r] = "none" <=> phase[r] = "out"
  /\ age \in [Readers -> 0..MaxAge]
  /\ counted \in [Readers -> 0..BackoffCap]
  /\ retries \in [Readers -> 0..MaxRetries]
  /\ late \subseteq Readers
  /\ quiet \in 0..SpacingTicks

NoLease == [owner |-> NoReader, until |-> 0, spacing |-> -MaxAge]

ReadInit ==
  /\ group \in {Group(o) : o \in Operations}
  /\ cooldown = [o \in Operations |-> -MaxAge]
  /\ backoff = [o \in Operations |-> 0]
  /\ lease = NoLease
  /\ phase = [r \in Readers |-> "out"]
  /\ using = [r \in Readers |-> "none"]
  /\ age = [r \in Readers |-> 0]
  /\ counted = [r \in Readers |-> 0]
  /\ retries = [r \in Readers |-> 0]
  /\ late = {}
  /\ quiet = SpacingTicks
-----------------------------------------------------------------------------
(* acquire *)

Enter(r, next) == phase' = [phase EXCEPT ![r] = next]

\* The request is over for the reader: it returns or throws.
Leave(r) ==
  /\ Enter(r, "out")
  /\ using' = [using EXCEPT ![r] = "none"]
  /\ age' = [age EXCEPT ![r] = 0]
  /\ counted' = [counted EXCEPT ![r] = 0]
  /\ retries' = [retries EXCEPT ![r] = 0]
  /\ late' = late \ {r}

\* requestRaw: acquire reads the clock.
Ask(r) ==
  /\ phase[r] = "out"
  /\ \E o \in {o \in Operations : Group(o) = group} :
       using' = [using EXCEPT ![r] = o]
  /\ Enter(r, "asking")
  /\ UNCHANGED <<group, cooldown, backoff, lease, age, counted, retries, late,
                 quiet>>

\* The operation's row: a request in its cooldown is refused.
CheckCooldown(r) ==
  /\ phase[r] = "asking"
  /\ IF cooldown[using[r]] > -age[r]
     THEN Leave(r)
     ELSE Enter(r, "cool") /\ UNCHANGED <<using, age, counted, retries, late>>
  /\ UNCHANGED <<group, cooldown, backoff, lease, quiet>>

\* The where clause of the claim, against a clock reading of the given age.
ClaimableIfReleased(old) == lease.spacing <= -old /\ lease.owner = NoReader
Claimable(old) ==
  /\ lease.spacing <= -old
  /\ lease.owner = NoReader \/ lease.until <= -old

\* The group's row: one update claims the lease and sets the spacing, or the
\* request is refused.
ClaimLease(r) ==
  /\ phase[r] = "cool"
  /\ IF Claimable(age[r])
     THEN /\ lease' = [owner |-> r, until |-> LeaseTicks - age[r],
                       spacing |-> SpacingTicks - age[r]]
          /\ Enter(r, "held")
          /\ age' = [age EXCEPT ![r] = 0]
          /\ late' = IF age[r] < LeaseTicks THEN late \ {r} ELSE late \cup {r}
          /\ UNCHANGED <<using, counted, retries>>
     ELSE Leave(r) /\ UNCHANGED lease
  /\ UNCHANGED <<group, cooldown, backoff, quiet>>

-----------------------------------------------------------------------------
(* The request *)

Owns(r) == lease.owner = r

\* What an update under the lease's id does to the group's row.
FencedByGroup(r, row) == lease' = row
Fenced(r, row) == lease' = IF Owns(r) THEN row ELSE lease

\* requestStarted extends the lease, if the reader still has it; the request is
\* sent either way.
StartRequest(r) ==
  /\ phase[r] = "held"
  /\ Fenced(r, [lease EXCEPT !.until = LeaseTicks])
  /\ Enter(r, "flying")
  /\ UNCHANGED <<group, cooldown, backoff, using, age, counted, retries, late,
                 quiet>>

\* A network error or a temporary failure is retried under the same lease, but
\* never for the Marketplace search.
Retry(r) ==
  /\ phase[r] = "flying"
  /\ using[r] # "SEARCH_CREATORS"
  /\ retries[r] < MaxRetries
  /\ retries' = [retries EXCEPT ![r] = @ + 1]
  /\ Enter(r, "held")
  /\ UNCHANGED <<group, cooldown, backoff, lease, using, age, counted, late,
                 quiet>>

\* Any other failure: the client releases the lease and throws.
Fail(r) ==
  /\ phase[r] = "flying"
  /\ Enter(r, "leaving")
  /\ UNCHANGED <<group, cooldown, backoff, lease, using, age, counted, retries,
                 late, quiet>>

\* TikTok answers; succeeded lifts the operation's cooldown ...
Succeed(r) ==
  /\ phase[r] = "flying"
  /\ cooldown' = [cooldown EXCEPT ![using[r]] = -MaxAge]
  /\ backoff' = [backoff EXCEPT ![using[r]] = 0]
  /\ Enter(r, "cleared")
  /\ UNCHANGED <<group, lease, using, age, counted, retries, late, quiet>>

\* The spacing counts from the clock succeeded has read.
SpacingFromClaim(r) == lease.spacing
Spacing(r) == SpacingTicks - age[r]

\* ... then spaces the next request of the group.
SpaceNext(r) ==
  /\ phase[r] = "cleared"
  /\ Fenced(r, [lease EXCEPT !.spacing = Spacing(r)])
  /\ Enter(r, "leaving")
  /\ age' = [age EXCEPT ![r] = 0]
  /\ quiet' = IF r \in late THEN quiet ELSE Smallest(age[r], SpacingTicks)
  /\ UNCHANGED <<group, cooldown, backoff, using, counted, retries, late>>

\* TikTok throttles; throttled reads the operation's count ...
Throttled(r) ==
  /\ phase[r] = "flying"
  /\ counted' = [counted EXCEPT ![r] = backoff[using[r]]]
  /\ Enter(r, "counting")
  /\ UNCHANGED <<group, cooldown, backoff, lease, using, age, retries, late,
                 quiet>>

\* One more throttle doubles the backoff of an operation, up to the cap.
NextBackoffUncapped(previous) == IF previous = 0 THEN 1 ELSE 2 * previous
NextBackoff(previous) ==
  Smallest(BackoffCap, IF previous = 0 THEN 1 ELSE 2 * previous)

\* ... and then writes the count and the cooldown, whoever has the lease.
WriteCooldown(r) ==
  /\ phase[r] = "counting"
  /\ LET o == using[r]
         grown == NextBackoff(counted[r])
         local == IF o = "SEARCH_CREATORS" THEN RetryTicks ELSE grown
     IN /\ backoff' = [backoff EXCEPT ![o] = grown]
        /\ \E wait \in {Largest(local, after) : after \in RetryAfters}
                         \cup {DayTicks} :
             cooldown' = [cooldown EXCEPT ![o] = wait]
  /\ Enter(r, "leaving")
  /\ UNCHANGED <<group, lease, using, age, counted, retries, late, quiet>>

\* release, under the lease's id.
Release(r) ==
  /\ phase[r] = "leaving"
  /\ Fenced(r, [owner |-> NoReader, until |-> 0, spacing |-> lease.spacing])
  /\ Leave(r)
  /\ UNCHANGED <<group, cooldown, backoff, quiet>>

-----------------------------------------------------------------------------
(* Time and failures *)

\* requestStarted, succeeded or throttled throws, and the client releases the
\* lease.  When the statement was executed and its answer is lost, it has made
\* its step before.
StatementFails(r) ==
  /\ phase[r] \in {"held", "cleared", "counting"}
  /\ Enter(r, "leaving")
  /\ age' = [age EXCEPT ![r] = 0]
  /\ UNCHANGED <<group, cooldown, backoff, lease, using, counted, retries, late,
                 quiet>>

\* The reader's process dies, or the release itself fails: its lease stays
\* behind.  Before its claim it leaves nothing, as if it had been refused.
ReaderDies(r) ==
  /\ phase[r] \notin {"out", "asking", "cool"}
  /\ Leave(r)
  /\ UNCHANGED <<group, cooldown, backoff, lease, quiet>>

\* Readers that will still use the clock they have read.
Timing == {r \in Readers : phase[r] \in {"asking", "cool", "cleared"}}

Older(t) == Largest(t - 1, -MaxAge)

Tick ==
  /\ \A r \in Timing : age[r] < MaxAge
  /\ cooldown' = [o \in Operations |-> Older(cooldown[o])]
  /\ lease' = [owner |-> lease.owner,
               until |-> IF lease.owner = NoReader THEN 0
                         ELSE Older(lease.until),
               spacing |-> Older(lease.spacing)]
  /\ age' = [r \in Readers |-> IF r \in Timing THEN age[r] + 1 ELSE age[r]]
  /\ late' = late \cup {r \in Readers : /\ phase[r] # "out"
                                        /\ Owns(r)
                                        /\ lease.until <= 1}
  /\ quiet' = Smallest(quiet + 1, SpacingTicks)
  /\ UNCHANGED <<group, backoff, phase, using, counted, retries>>

ReaderStep(r) ==
  \/ CheckCooldown(r) \/ ClaimLease(r) \/ StartRequest(r)
  \/ Succeed(r) \/ SpaceNext(r) \/ Throttled(r) \/ WriteCooldown(r)
  \/ Retry(r) \/ Fail(r) \/ Release(r)

ReaderBreaks(r) == StatementFails(r) \/ ReaderDies(r)

ReadNext == Tick \/ \E r \in Readers : Ask(r) \/ ReaderStep(r) \/ ReaderBreaks(r)

\* The statements a process has issued run, time passes, and the workers ask
\* again on their timers.
ReadFairness == /\ WF_readVars(Tick)
                /\ \A r \in Readers : WF_readVars(Ask(r))
                /\ \A r \in Readers : WF_readVars(ReaderStep(r))

ReadSpec == ReadInit /\ [][ReadNext]_readVars /\ ReadFairness
-----------------------------------------------------------------------------
(* Properties *)

InFlight(r) == phase[r] = "flying"

\* Two requests of a group are in flight together only when one of them has
\* outlived its lease: a release or an extension by a reader that was replaced
\* leaves its successor's lease alone (tiktok-read-governor.ts:87-101, 177).
ReadsAreExclusive ==
  \A r, q \in Readers :
    /\ r # q
    /\ InFlight(r) /\ InFlight(q)
    => r \in late \/ q \in late

\* After a success of the group whose spacing was recorded under its lease,
\* readers that keep within their leases start no sooner than that spacing.  A
\* success whose update failed or came too late leaves only the spacing of its
\* claim (tiktok-read-governor.ts:138-142, real-read-only.ts:178-180).
SuccessesAreSpaced ==
  [][\A r \in Readers :
       phase[r] = "held" /\ InFlight(r)' /\ r \notin late
         => quiet >= SpacingTicks]_readVars

\* Reads never stop for good unless readers die or their statements fail for
\* ever: a cooldown passes, and the lease left behind by a reader that died runs
\* out (tiktok-read-governor.ts:92).
ReadsResume ==
  \/ []<>(\E r \in Readers : InFlight(r))
  \/ []<><<\E r \in Readers : ReaderBreaks(r)>>_readVars
=============================================================================
