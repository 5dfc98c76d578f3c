-------------------------- MODULE OutboundGovernor --------------------------
(***************************************************************************)
(* The durable admission control of outbound provider calls: one limiter   *)
(* row of an App x Shop x endpoint, its permits, and the worker runs that  *)
(* acquire a permit, call TikTok and settle the permit with the answer.    *)
(*                                                                         *)
(* Times are kept relative to the clock: an instant in the future is a     *)
(* positive number of ticks, and Tick ages every instant at once.  The     *)
(* caller of acquire reads the clock before its transaction gets its lock, *)
(* so that its "now" may be up to MaxWait ticks old when it is used.       *)
(*                                                                         *)
(* The variant of an operator with a qualifier, defined just before it, is *)
(* a faulty one that no action uses and that the properties must reject.   *)
(***************************************************************************)
EXTENDS Integers, FiniteSets

CONSTANTS
    Caller,          \* job slots that call the endpoint
    Operations,      \* endpoints to consider
    Initial,         \* OUTBOUND_PROVIDER_INITIAL_CONCURRENCY
    TechnicalMax,    \* OUTBOUND_PROVIDER_MAX_CONCURRENCY
    Leftover,        \* concurrency left in the row by an older configuration
    Lease,           \* OUTBOUND_PROVIDER_PERMIT_LEASE_MS
    Interval,        \* OUTBOUND_SEND_MESSAGE_INTERVAL_MS
    MaxWait,         \* longest wait of a transaction, its timeout
    ThrottleCap,     \* THROTTLE_BACKOFF_CAP_MS
    TransientCap,    \* TRANSIENT_BACKOFF_CAP_MS
    RetryAfters,     \* Retry-After values TikTok may answer, 0 for none
    NoTime           \* a null instant

ASSUME GovernorAssumption ==
    /\ IsFiniteSet(Caller)
    /\ NoTime \notin Caller
    /\ Operations \subseteq {"CREATE_CONVERSATION", "SEND_MESSAGE"}
    /\ TechnicalMax \in Nat \ {0}
    /\ Initial \in 1..TechnicalMax
    /\ Leftover \in Nat \ {0}
    /\ MaxWait \in Nat
    /\ Lease \in Nat \ {0}
    /\ Interval \in Nat \ {0}
    /\ ThrottleCap \in Nat \ {0}
    /\ TransientCap \in Nat \ {0}
    /\ RetryAfters \subseteq Nat
    /\ NoTime \notin Int

VARIABLES
    operation,     \* the endpoint of this limiter
    \* ProviderOutboundLimiter
    state,
    effective,     \* effectiveConcurrency
    successes,     \* healthySuccessCount, up to the concurrency it is compared to
    throttles,     \* consecutiveThrottleCount, as the backoff it gives, or 0
    failures,      \* consecutiveFailureCount, likewise
    next,          \* ticks until nextPermittedAt, or NoTime
    last,          \* ticks since lastRequestAt, as long as it matters
    \* ProviderOutboundPermit: ticks until expiresAt, or NoTime for no row;
    \* a caller's own permit, or the one it left behind when it died
    permit,
    \* callers
    pc,            \* idle, asking for a permit, or calling TikTok
    age,           \* ticks since an asking caller read the clock, or since a
                   \* calling one was admitted, up to MaxWait
    settling       \* what the settlement that holds the lock will write

limiterVars == <<state, effective, successes, throttles, failures, next>>
vars == <<operation, limiterVars, last, permit, pc, age, settling>>

LimiterState ==
    {"HEALTHY", "THROTTLED", "RECOVERING", "TRANSIENT_BACKOFF", "QUOTA_BLOCKED"}

Slot == Caller \X {"own", "left"}
Held == {s \in Slot : permit[s] # NoTime}

Least(a, b) == IF a <= b THEN a ELSE b
Most(a, b)  == IF a >= b THEN a ELSE b

\* Send Message is admitted one at a time whatever is configured.
Ceiling == IF operation = "SEND_MESSAGE" THEN 1 ELSE TechnicalMax

\* exponentialBackoffWithJitter: one base delay, which is a tick, doubled for
\* every further failure up to the cap.  The jitter is less than a tick.
Backoff(previous, cap) ==
    Least(cap, IF previous = 0 THEN 1 ELSE 2 * previous)

NoSettlement == [by |-> NoTime, kind |-> "none", state |-> "HEALTHY",
                 effective |-> 1, successes |-> 0, throttles |-> 0,
                 failures |-> 0, next |-> NoTime]

\* The row as an older configuration left it, before anyone was admitted.
AsFound ==
    /\ state = "HEALTHY" /\ next = NoTime /\ last = Interval + MaxWait
    /\ successes = 0 /\ throttles = 0 /\ failures = 0
    /\ Held = {} /\ settling = NoSettlement
    /\ \A w \in Caller : pc[w] # "calling"

\* The limiter is well formed.  Its concurrency is at least one, and above the
\* ceiling only in the row as it was found: from the first acquire on, no
\* settlement reads or writes one that is greater (acquire's clamp).
TypeOK ==
    /\ operation \in Operations
    /\ state \in LimiterState
    /\ effective \in 1..Most(Ceiling, Leftover)
    /\ effective > Ceiling => AsFound
    /\ successes \in 0..Ceiling
    /\ throttles \in 0..ThrottleCap
    /\ failures \in 0..TransientCap
    /\ next \in Int \cup {NoTime}
    /\ last \in 0..(Interval + MaxWait)
    /\ permit \in [Slot -> Int \cup {NoTime}]
    /\ pc \in [Caller -> {"idle", "asking", "calling"}]
    /\ age \in [Caller -> 0..MaxWait]
    /\ settling \in [by : Caller \cup {NoTime},
                    kind : {"none", "healthy", "throttled", "transient"},
                    state : LimiterState, effective : 1..Ceiling,
                    successes : 0..Ceiling, throttles : 0..ThrottleCap,
                    failures : 0..TransientCap, next : Int \cup {NoTime}]
    /\ settling.kind # "none" => settling.by \in Caller /\ pc[settling.by] = "calling"

\* No row yet, or one that a process with another configuration left behind.
Init ==
    /\ operation \in Operations
    /\ state = "HEALTHY"
    /\ effective \in {Least(Initial, Ceiling), Leftover}
    /\ successes = 0
    /\ throttles = 0
    /\ failures = 0
    /\ next = NoTime
    /\ last = Interval + MaxWait
    /\ permit = [s \in Slot |-> NoTime]
    /\ pc = [w \in Caller |-> "idle"]
    /\ age = [w \in Caller |-> 0]
    /\ settling = NoSettlement

-----------------------------------------------------------------------------
(* Time *)

\* An instant in the past is kept apart from the present only as long as a
\* caller's clock reading may lie between them.
Older(t) == IF t = NoTime THEN NoTime ELSE Most(t - 1, -MaxWait)

\* A transaction that waits for its lock longer than MaxWait has timed out,
\* and a settlement takes less than a tick.
Tick ==
    /\ \A w \in Caller : pc[w] = "asking" => age[w] < MaxWait
    /\ settling = NoSettlement
    /\ next' = Older(next)
    /\ last' = Least(last + 1, Interval + MaxWait)
    /\ permit' = [s \in Slot |-> Older(permit[s])]
    /\ age' = [w \in Caller |-> IF pc[w] = "idle" THEN 0
                                ELSE Least(age[w] + 1, MaxWait)]
    /\ UNCHANGED <<operation, state, effective, successes, throttles, failures,
                   pc, settling>>

-----------------------------------------------------------------------------
(* acquire *)

Ask(w) ==
    /\ pc[w] = "idle"
    /\ pc' = [pc EXCEPT ![w] = "asking"]
    /\ UNCHANGED <<operation, limiterVars, last, permit, age, settling>>

Stop(w) == pc' = [pc EXCEPT ![w] = "idle"] /\ age' = [age EXCEPT ![w] = 0]

\* The permits whose lease has run out at the caller's "now" are deleted.
PurgedNever(w) == permit
Purged(w) ==
    [s \in Slot |-> IF permit[s] # NoTime /\ permit[s] <= -age[w]
                    THEN NoTime ELSE permit[s]]

RoomToSpare(w) == Cardinality({s \in Slot : Purged(w)[s] # NoTime})
                      <= Least(effective, Ceiling)
Room(w) == Cardinality({s \in Slot : Purged(w)[s] # NoTime})
               < Least(effective, Ceiling)

Cooling(w)   == next # NoTime /\ next > -age[w]
Recovering(w) == state # "HEALTHY" /\ next # NoTime /\ ~Cooling(w)
TooSoon(w)   == operation = "SEND_MESSAGE" /\ last - age[w] < Interval

\* Under the limiter's lock, whose row the upsert has locked as well.
ClampSkipped == UNCHANGED <<effective, successes>>
Clamp ==
    /\ effective' = Least(effective, Ceiling)
    /\ successes' = IF effective > Ceiling THEN 0 ELSE successes

Recover(w) ==
    /\ state' = IF Recovering(w) THEN "RECOVERING" ELSE state
    /\ next' = IF Recovering(w) THEN NoTime ELSE next

Refuse(w) ==
    /\ pc[w] = "asking"
    /\ Clamp
    /\ permit' = Purged(w)
    /\ \/ /\ state = "QUOTA_BLOCKED" \/ Cooling(w)
          /\ UNCHANGED <<state, next>>
       \/ /\ state # "QUOTA_BLOCKED" /\ ~Cooling(w)
          /\ TooSoon(w) \/ ~Room(w)
          /\ Recover(w)
    /\ Stop(w)
    /\ UNCHANGED <<operation, throttles, failures, last, settling>>

Grant(w) ==
    /\ pc[w] = "asking"
    /\ state # "QUOTA_BLOCKED"
    /\ ~Cooling(w)
    /\ ~TooSoon(w)
    /\ Room(w)
    /\ Clamp
    /\ Recover(w)
    /\ permit' = [Purged(w) EXCEPT ![<<w, "own">>] = Lease - age[w]]
    /\ last' = age[w]
    /\ pc' = [pc EXCEPT ![w] = "calling"]
    /\ age' = [age EXCEPT ![w] = 0]
    /\ UNCHANGED <<operation, throttles, failures, settling>>

TimeOut(w) ==
    /\ pc[w] = "asking"
    /\ age[w] = MaxWait
    /\ Stop(w)
    /\ UNCHANGED <<operation, limiterVars, last, permit, settling>>

-----------------------------------------------------------------------------
(* Settlement of a permit with TikTok's answer.  healthy, throttle and       *)
(* transientFailure take the limiter's advisory lock, which acquire does not *)
(* take, read the row and write what follows from it.                        *)

RampForgetful(eff, count) ==
    IF eff < Ceiling /\ count + 1 >= eff
    THEN [effective |-> eff + 1, successes |-> 0]
    ELSE [effective |-> eff, successes |-> 0]
\* increasedConcurrency; the count stops where it no longer matters.
Ramp(eff, count) ==
    IF eff < Ceiling /\ count + 1 >= eff
    THEN [effective |-> eff + 1, successes |-> 0]
    ELSE [effective |-> eff, successes |-> Least(count + 1, Ceiling)]

\* Another settlement's cooldown is kept if it is the longer one.
Later(candidate) ==
    IF next # NoTime /\ next > candidate THEN next ELSE candidate

Answer(w, kind, seen) ==
    /\ pc[w] = "calling"
    /\ settling = NoSettlement
    /\ settling' = [by |-> w, kind |-> kind, state |-> seen.state,
                    effective |-> seen.effective, successes |-> seen.successes,
                    throttles |-> seen.throttles, failures |-> seen.failures,
                    next |-> seen.next]
    /\ UNCHANGED <<operation, limiterVars, last, permit, pc, age>>

AnswerHealthy(w) ==
    LET ramp == Ramp(Least(effective, Ceiling), successes) IN
    Answer(w, "healthy",
           [state |-> IF ramp.effective >= Ceiling \/ state = "HEALTHY"
                      THEN "HEALTHY" ELSE "RECOVERING",
            effective |-> ramp.effective, successes |-> ramp.successes,
            throttles |-> 0, failures |-> 0, next |-> NoTime])

\* The caller read the clock lag ticks ago, after its call was answered.
AnswerThrottled(w) ==
    \E retryAfter \in RetryAfters, lag \in 0..age[w] :
        LET backoff == Backoff(throttles, ThrottleCap) IN
        Answer(w, "throttled",
               [state |-> "THROTTLED", effective |-> Most(1, effective \div 2),
                successes |-> 0, throttles |-> backoff, failures |-> 0,
                next |-> Later(Most(backoff, retryAfter) - lag)])

AnswerTransient(w) ==
    \E lag \in 0..age[w] :
        LET backoff == Backoff(failures, TransientCap) IN
        Answer(w, "transient",
               [state |-> "TRANSIENT_BACKOFF", effective |-> effective,
                successes |-> successes, throttles |-> throttles,
                failures |-> backoff, next |-> Later(backoff - lag)])

\* A transient failure leaves the concurrency and its counters alone.
Settle ==
    /\ settling.kind # "none"
    /\ state' = settling.state
    /\ failures' = settling.failures
    /\ next' = settling.next
    /\ IF settling.kind = "transient"
       THEN UNCHANGED <<effective, successes, throttles>>
       ELSE /\ effective' = settling.effective
            /\ successes' = settling.successes
            /\ throttles' = settling.throttles
    /\ permit' = [permit EXCEPT ![<<settling.by, "own">>] = NoTime]
    /\ Stop(settling.by)
    /\ settling' = NoSettlement
    /\ UNCHANGED <<operation, last>>

\* quotaBlocked reads nothing; it waits for the same lock.
QuotaBlocked(w) ==
    /\ pc[w] = "calling"
    /\ settling = NoSettlement
    /\ state' = "QUOTA_BLOCKED"
    /\ successes' = 0
    /\ next' = NoTime
    /\ permit' = [permit EXCEPT ![<<w, "own">>] = NoTime]
    /\ Stop(w)
    /\ UNCHANGED <<operation, effective, throttles, failures, last, settling>>

\* An unknown outcome, an authorization failure or a local failure only gives
\* the permit back, without a lock.
Release(w) ==
    /\ pc[w] = "calling"
    /\ settling.by # w
    /\ permit' = [permit EXCEPT ![<<w, "own">>] = NoTime]
    /\ Stop(w)
    /\ UNCHANGED <<operation, limiterVars, last, settling>>

\* The process dies.  Its successor has another owner name, and the permit it
\* leaves stays until its lease runs out.  Bound: a caller does not die again
\* before that.
Crash(w) ==
    /\ pc[w] # "idle"
    /\ permit[<<w, "left">>] = NoTime
    /\ permit' = [permit EXCEPT ![<<w, "left">>] = permit[<<w, "own">>],
                                ![<<w, "own">>] = NoTime]
    /\ settling' = IF settling.by = w THEN NoSettlement ELSE settling
    /\ Stop(w)
    /\ UNCHANGED <<operation, limiterVars, last>>

-----------------------------------------------------------------------------
(* Others who write the limiter's row *)

\* publishHeartbeat keeps the Send Message limiter at one.
HeartbeatClamp ==
    /\ operation = "SEND_MESSAGE"
    /\ effective # 1
    /\ effective' = 1
    /\ successes' = 0
    /\ UNCHANGED <<operation, state, throttles, failures, next, last, permit,
                   pc, age, settling>>

\* The operator resumes a campaign that the quota had paused.
OperatorRetry ==
    /\ state = "QUOTA_BLOCKED"
    /\ state' = "RECOVERING"
    /\ effective' = 1
    /\ successes' = 0
    /\ throttles' = 0
    /\ failures' = 0
    /\ next' = NoTime
    /\ UNCHANGED <<operation, last, permit, pc, age, settling>>

-----------------------------------------------------------------------------
(* Specification *)

Call(w) ==
    \/ Ask(w) \/ Refuse(w) \/ Grant(w) \/ TimeOut(w)
    \/ AnswerHealthy(w) \/ AnswerThrottled(w) \/ AnswerTransient(w)
    \/ QuotaBlocked(w) \/ Release(w) \/ Crash(w)

Next == \/ Tick
        \/ \E w \in Caller : Call(w)
        \/ Settle
        \/ HeartbeatClamp
        \/ OperatorRetry

Spec == Init /\ [][Next]_vars

\* Time passes, a settlement commits, and a transaction gets its lock or times
\* out, but does not time out for ever.  Nothing is assumed of callers,
\* answers or operators.
Fairness ==
    /\ WF_vars(Tick)
    /\ WF_vars(Settle)
    /\ \A w \in Caller : /\ SF_vars(Refuse(w) \/ Grant(w))
                         /\ WF_vars(TimeOut(w))

FairSpec == Spec /\ Fairness

-----------------------------------------------------------------------------
(* Properties *)

\* There are never more permits than the technical maximum, and never two for
\* Send Message, whatever clocks the callers read, whoever dies holding one
\* and however the concurrency moved meanwhile (acquire, healthy, throttle).
PermitsBounded == Cardinality(Held) <= Ceiling

\* A throttled or broken endpoint recovers by itself and a dead caller's permit
\* blocks it only for its lease: as long as callers ask, some caller is
\* admitted again and again, unless the quota is blocked (acquire).
AskersAreServed ==
    []<>(\E w \in Caller : pc[w] = "asking")
        => []<>(state = "QUOTA_BLOCKED" \/ \E w \in Caller : pc[w] = "calling")

\* Healthy answers add capacity back: when in the end every answer is healthy
\* the endpoint returns to its ceiling and to HEALTHY (increasedConcurrency).
CapacityReturns ==
    (/\ <>[](settling.kind \in {"none", "healthy"} /\ state # "QUOTA_BLOCKED")
     /\ []<><<settling.kind = "healthy" /\ Settle>>_vars)
        => <>[](effective = Ceiling /\ state = "HEALTHY")

=============================================================================
