----------------------- MODULE OutboundGovernorProofs -----------------------
(***************************************************************************)
(* Proofs about OutboundGovernor: the limiter stays well formed, and its   *)
(* permits never outnumber the ceiling of the endpoint.                    *)
(***************************************************************************)
EXTENDS OutboundGovernor, FiniteSetTheorems, TLAPS

-----------------------------------------------------------------------------
(* Facts about instants and sets of permits *)

\* Ageing keeps an instant an instant and a null one null.
LEMMA OlderTyped ==
    ASSUME NEW t \in Int \cup {NoTime}
    PROVE  /\ Older(t) \in Int \cup {NoTime}
           /\ Older(t) = NoTime <=> t = NoTime
BY GovernorAssumption DEF Older, Most

\* Purging keeps the table of permits a table of permits and adds none.
LEMMA PurgedTyped ==
    ASSUME NEW w \in Caller, permit \in [Slot -> Int \cup {NoTime}]
    PROVE  /\ Purged(w) \in [Slot -> Int \cup {NoTime}]
           /\ \A s \in Slot : Purged(w)[s] = permit[s] \/ Purged(w)[s] = NoTime
BY DEF Purged

\* A caller has two slots, and the slots are finitely many.
LEMMA SlotFacts ==
    /\ IsFiniteSet(Slot)
    /\ \A w \in Caller : <<w, "own">> \in Slot /\ <<w, "left">> \in Slot
    /\ \A S \in SUBSET Slot : IsFiniteSet(S) /\ Cardinality(S) \in Nat
<1>1. IsFiniteSet({"own", "left"})
  <2>1. IsFiniteSet({} \cup {"own"})
    BY FS_EmptySet, FS_AddElement
  <2>2. IsFiniteSet(({} \cup {"own"}) \cup {"left"})
    BY <2>1, FS_AddElement
  <2>3. ({} \cup {"own"}) \cup {"left"} = {"own", "left"}
    OBVIOUS
  <2> QED BY <2>2, <2>3
<1>2. IsFiniteSet(Slot)
  BY <1>1, GovernorAssumption, FS_Product DEF Slot
<1>3. \A S \in SUBSET Slot : IsFiniteSet(S) /\ Cardinality(S) \in Nat
  BY <1>2, FS_Subset, FS_CardinalityType
<1> QED BY <1>2, <1>3 DEF Slot

\* One more element adds at most one to the size of a finite set.
LEMMA AddOne ==
    ASSUME NEW S, NEW x, IsFiniteSet(S)
    PROVE  /\ IsFiniteSet(S \cup {x})
           /\ Cardinality(S \cup {x}) <= Cardinality(S) + 1
<1>1. Cardinality(S) \in Nat
  BY FS_CardinalityType
<1>2. Cardinality(S \cup {x}) = IF x \in S THEN Cardinality(S) ELSE Cardinality(S) + 1
  BY FS_AddElement
<1> QED BY <1>1, <1>2, FS_AddElement

\* Deleting permits keeps their number within the ceiling.
LEMMA FewerPermits ==
    ASSUME PermitsBounded, operation' = operation, Held' \subseteq Held
    PROVE  PermitsBounded'
<1>1. Held \in SUBSET Slot
  BY DEF Held
<1>2. Cardinality(Held') <= Cardinality(Held)
  BY <1>1, SlotFacts, FS_Subset
<1>3. Cardinality(Held') \in Nat /\ Cardinality(Held) \in Nat
  BY <1>1, SlotFacts
<1>4. Ceiling' = Ceiling /\ Ceiling \in Nat
  BY GovernorAssumption DEF Ceiling
<1> QED BY <1>2, <1>3, <1>4 DEF PermitsBounded

-----------------------------------------------------------------------------
(* The limiter stays well formed *)

\* The ceiling is positive, and does not move.
LEMMA CeilingTyped == Ceiling \in Nat \ {0} /\ (operation' = operation => Ceiling' = Ceiling)
BY GovernorAssumption DEF Ceiling

\* A row that somebody was admitted under has at most the ceiling.
LEMMA Clamped ==
    ASSUME TypeOK, NEW w \in Caller, pc[w] = "calling"
    PROVE  effective \in 1..Ceiling
BY CeilingTyped, GovernorAssumption DEF TypeOK, AsFound, Most

\* acquire, granting or refusing, keeps the limiter and its permits well formed.
LEMMA AcquireTyped ==
    ASSUME TypeOK, NEW w \in Caller, Refuse(w) \/ Grant(w)
    PROVE  TypeOK'
<1> USE GovernorAssumption, CeilingTyped
<1> DEFINE P == Purged(w)
<1>1. P \in [Slot -> Int \cup {NoTime}]
  BY PurgedTyped DEF TypeOK
<1>2. permit' \in [Slot -> Int \cup {NoTime}]
  <2>1. CASE Refuse(w)
    BY <2>1, <1>1 DEF Refuse
  <2>2. CASE Grant(w)
    <3>1. permit' = [P EXCEPT ![<<w, "own">>] = Lease - age[w]]
      BY <2>2 DEF Grant
    <3>2. Lease - age[w] \in Int
      BY DEF TypeOK
    <3> HIDE DEF P
    <3> QED BY <3>1, <3>2, <1>1
  <2> QED BY <2>1, <2>2
<1>3. effective' \in 1..Ceiling /\ successes' \in 0..Ceiling
  BY DEF Refuse, Grant, Clamp, TypeOK, Least
<1>4. state' \in LimiterState /\ next' \in Int \cup {NoTime}
  BY DEF Refuse, Grant, Recover, TypeOK, LimiterState
<1>5. last' \in 0..(Interval + MaxWait)
  BY DEF Refuse, Grant, TypeOK
<1>6. /\ pc' \in [Caller -> {"idle", "asking", "calling"}]
      /\ age' \in [Caller -> 0..MaxWait]
  BY DEF Refuse, Grant, Stop, TypeOK
<1>7. /\ throttles' = throttles /\ failures' = failures
      /\ operation' = operation /\ settling' = settling
  BY DEF Refuse, Grant
<1>8. settling'.kind # "none" => settling'.by \in Caller /\ pc'[settling'.by] = "calling"
  BY <1>7 DEF Refuse, Grant, Stop, TypeOK
<1>9. Ceiling' = Ceiling
  BY <1>7
<1>10. effective' \in 1..Most(Ceiling, Leftover)' /\ ~(effective' > Ceiling')
  BY <1>3, <1>9 DEF Most
<1> HIDE DEF P
<1> QED BY <1>2, <1>3, <1>4, <1>5, <1>6, <1>7, <1>8, <1>9, <1>10 DEF TypeOK

\* An answer that waits for its write is a well formed settlement.
LEMMA AnswerTyped ==
    ASSUME TypeOK, NEW w \in Caller,
           AnswerHealthy(w) \/ AnswerThrottled(w) \/ AnswerTransient(w)
    PROVE  TypeOK'
<1> USE GovernorAssumption
<1>1. Ceiling \in Nat \ {0}
  BY CeilingTyped
<1>c. effective \in 1..Ceiling
  BY Clamped DEF AnswerHealthy, AnswerThrottled, AnswerTransient, Answer
<1>2. ASSUME NEW kind \in {"healthy", "throttled", "transient"}, NEW seen,
             Answer(w, kind, seen), seen.state \in LimiterState,
             seen.effective \in 1..Ceiling, seen.successes \in 0..Ceiling,
             seen.throttles \in 0..ThrottleCap,
             seen.failures \in 0..TransientCap,
             seen.next \in Int \cup {NoTime}
      PROVE  TypeOK'
  <2>1. Ceiling' = Ceiling /\ Most(Ceiling, Leftover)' = Most(Ceiling, Leftover)
    BY <1>2, CeilingTyped DEF Answer, Most
  <2>2. /\ settling'.kind = kind /\ settling'.by = w /\ pc'[w] = "calling"
        /\ settling' \in [by : Caller \cup {NoTime},
                    kind : {"none", "healthy", "throttled", "transient"},
                    state : LimiterState, effective : 1..Ceiling,
                    successes : 0..Ceiling, throttles : 0..ThrottleCap,
                    failures : 0..TransientCap, next : Int \cup {NoTime}]
    BY <1>2 DEF Answer, TypeOK
  <2>3. ~(effective > Ceiling)
    BY <1>1, <1>c
  <2> QED BY <1>2, <2>1, <2>2, <2>3 DEF Answer, TypeOK, limiterVars
<1>3. CASE AnswerHealthy(w)
  <2> DEFINE eff == Least(effective, Ceiling)
             ramp == Ramp(eff, successes)
  <2>1. eff \in 1..Ceiling
    BY <1>1, <1>c DEF Least
  <2>2. ramp.effective \in 1..Ceiling /\ ramp.successes \in 0..Ceiling
    <3> HIDE DEF eff
    <3> QED BY <2>1, <1>1 DEF Ramp, Least, TypeOK
  <2> HIDE DEF ramp
  <2> QED BY <2>2, <1>2, <1>3 DEF AnswerHealthy, LimiterState, ramp
<1>4. CASE AnswerThrottled(w)
  <2>1. PICK retryAfter \in RetryAfters, lag \in 0..age[w] :
          LET backoff == Backoff(throttles, ThrottleCap) IN
          Answer(w, "throttled",
             [state |-> "THROTTLED", effective |-> Most(1, effective \div 2),
              successes |-> 0, throttles |-> backoff, failures |-> 0,
              next |-> Later(Most(backoff, retryAfter) - lag)])
    BY <1>4 DEF AnswerThrottled
  <2> DEFINE backoff == Backoff(throttles, ThrottleCap)
  <2>2. backoff \in 0..ThrottleCap
    BY DEF Backoff, Least, TypeOK
  <2>3. lag \in Int /\ retryAfter \in Int
    BY DEF TypeOK
  <2>4. Later(Most(backoff, retryAfter) - lag) \in Int \cup {NoTime}
    <3> HIDE DEF backoff
    <3> QED BY <2>2, <2>3 DEF Later, Most, TypeOK
  <2>5. Most(1, effective \div 2) \in 1..Ceiling
    BY <1>1, <1>c DEF Most
  <2>6. 0 \in 0..Ceiling
    BY <1>1
  <2> HIDE DEF backoff
  <2> QED BY <2>1, <2>2, <2>4, <2>5, <2>6, <1>2 DEF LimiterState, backoff
<1>5. CASE AnswerTransient(w)
  <2>1. PICK lag \in 0..age[w] :
          LET backoff == Backoff(failures, TransientCap) IN
          Answer(w, "transient",
             [state |-> "TRANSIENT_BACKOFF", effective |-> effective,
              successes |-> successes, throttles |-> throttles,
              failures |-> backoff, next |-> Later(backoff - lag)])
    BY <1>5 DEF AnswerTransient
  <2> DEFINE backoff == Backoff(failures, TransientCap)
  <2>2. backoff \in 0..TransientCap
    BY DEF Backoff, Least, TypeOK
  <2>3. Later(backoff - lag) \in Int \cup {NoTime}
    <3>1. lag \in Int
      BY DEF TypeOK
    <3> HIDE DEF backoff
    <3> QED BY <3>1, <2>2 DEF Later, TypeOK
  <2> HIDE DEF backoff
  <2> QED BY <2>1, <2>2, <2>3, <1>2, <1>c DEF LimiterState, TypeOK, backoff
<1> QED BY <1>3, <1>4, <1>5

\* Init is well formed and every step keeps the limiter well formed.
LEMMA TypeInit == Init => TypeOK
<1> SUFFICES ASSUME Init PROVE TypeOK
  OBVIOUS
<1>1. effective \in 1..Most(Ceiling, Leftover) /\ Ceiling \in Nat \ {0}
  BY GovernorAssumption, CeilingTyped DEF Init, Most, Least
<1>2. AsFound
  BY DEF Init, AsFound, Held
<1> QED BY <1>1, <1>2, GovernorAssumption
    DEF Init, TypeOK, LimiterState, NoSettlement

\* The steps that may leave the row as it was found do not disturb it.
LEMMA FoundKept ==
    ASSUME TypeOK, AsFound, Tick \/ \E w \in Caller : Ask(w) \/ TimeOut(w) \/ Crash(w)
    PROVE  AsFound'
<1> USE GovernorAssumption
<1>1. \A s \in Slot : permit[s] = NoTime
  BY DEF AsFound, Held
<1>2. CASE Tick
  <2>1. \A s \in Slot : permit'[s] = NoTime
    BY <1>1, <1>2 DEF Tick, Older
  <2>2. last' = Interval + MaxWait /\ next' = NoTime
    BY <1>2 DEF Tick, AsFound, Least, Older
  <2> QED BY <1>2, <2>1, <2>2 DEF Tick, AsFound, Held
<1>3. ASSUME NEW w \in Caller, Ask(w) \/ TimeOut(w) PROVE AsFound'
  BY <1>1, <1>3 DEF Ask, TimeOut, Stop, AsFound, Held, limiterVars, TypeOK
<1>4. ASSUME NEW w \in Caller, Crash(w) PROVE AsFound'
  <2>1. \A s \in Slot : permit'[s] = NoTime
    BY <1>1, <1>4, SlotFacts DEF Crash, TypeOK
  <2>2. settling' = NoSettlement
    BY <1>4 DEF Crash, AsFound
  <2> QED BY <1>4, <2>1, <2>2 DEF Crash, Stop, AsFound, Held, limiterVars, TypeOK
<1> QED BY <1>2, <1>3, <1>4

LEMMA TypeNext == TypeOK /\ [Next]_vars => TypeOK'
<1> SUFFICES ASSUME TypeOK, [Next]_vars PROVE TypeOK'
  OBVIOUS
<1> USE GovernorAssumption
<1>0. /\ Ceiling' = Ceiling /\ Ceiling \in Nat \ {0}
      /\ Most(Ceiling, Leftover)' = Most(Ceiling, Leftover)
  <2>1. operation' = operation
    BY DEF Next, Call, Tick, Ask, Refuse, Grant, TimeOut, AnswerHealthy, AnswerThrottled,
       AnswerTransient, Answer, QuotaBlocked, Release, Crash, Settle, HeartbeatClamp,
       OperatorRetry, vars
  <2> QED BY <2>1, CeilingTyped DEF Most
<1>1. CASE Tick
  <2>1. next' \in Int \cup {NoTime}
    BY <1>1, OlderTyped DEF Tick, TypeOK
  <2>2. permit' \in [Slot -> Int \cup {NoTime}]
    BY <1>1, OlderTyped DEF Tick, TypeOK
  <2>3. last' \in 0..(Interval + MaxWait)
    BY <1>1 DEF Tick, TypeOK, Least
  <2>4. age' \in [Caller -> 0..MaxWait]
    BY <1>1 DEF Tick, TypeOK, Least
  <2>5. (effective > Ceiling => AsFound)'
    BY <1>0, <1>1, FoundKept DEF Tick, TypeOK
  <2> QED BY <1>0, <1>1, <2>1, <2>2, <2>3, <2>4, <2>5 DEF Tick, TypeOK
<1>2. ASSUME NEW w \in Caller, Call(w) PROVE TypeOK'
  <2>1. CASE Refuse(w) \/ Grant(w)
    BY <2>1, AcquireTyped
  <2>2. CASE AnswerHealthy(w) \/ AnswerThrottled(w) \/ AnswerTransient(w)
    BY <2>2, AnswerTyped
  <2>3. CASE Ask(w) \/ TimeOut(w)
    <3>1. (effective > Ceiling => AsFound)'
      BY <1>0, <2>3, FoundKept DEF Ask, TimeOut, limiterVars, TypeOK
    <3> QED BY <1>0, <2>3, <3>1 DEF Ask, TimeOut, Stop, TypeOK, limiterVars
  <2>4. CASE QuotaBlocked(w) \/ Release(w)
    <3>1. effective \in 1..Ceiling
      BY <2>4, Clamped DEF QuotaBlocked, Release
    <3>2. permit' \in [Slot -> Int \cup {NoTime}]
      BY <2>4, SlotFacts DEF QuotaBlocked, Release, TypeOK
    <3>3. settling'.kind # "none" => settling'.by \in Caller /\ pc'[settling'.by] = "calling"
      BY <2>4 DEF QuotaBlocked, Release, Stop, TypeOK, NoSettlement
    <3>4. ~(effective > Ceiling) /\ effective' = effective
      BY <1>0, <2>4, <3>1 DEF QuotaBlocked, Release, limiterVars
    <3>5. successes' \in 0..Ceiling /\ state' \in LimiterState /\ next' \in Int \cup {NoTime}
      BY <1>0, <2>4 DEF QuotaBlocked, Release, limiterVars, TypeOK, LimiterState
    <3> QED BY <1>0, <2>4, <3>2, <3>3, <3>4, <3>5
        DEF QuotaBlocked, Release, Stop, TypeOK, limiterVars
  <2>5. CASE Crash(w)
    <3>1. (effective > Ceiling => AsFound)'
      BY <1>0, <2>5, FoundKept DEF Crash, limiterVars, TypeOK
    <3>2. settling'.kind # "none" => settling'.by \in Caller /\ pc'[settling'.by] = "calling"
      BY <2>5 DEF Crash, Stop, TypeOK, NoSettlement
    <3>3. permit' \in [Slot -> Int \cup {NoTime}]
      BY <2>5, SlotFacts DEF Crash, TypeOK
    <3>4. settling' = settling \/ settling' = NoSettlement
      BY <2>5 DEF Crash
    <3> QED BY <1>0, <2>5, <3>1, <3>2, <3>3, <3>4
        DEF Crash, Stop, TypeOK, limiterVars, NoSettlement, LimiterState
  <2> QED BY <1>2, <2>1, <2>2, <2>3, <2>4, <2>5 DEF Call
<1>3. CASE Settle
  <2>1. settling.by \in Caller
    BY <1>3 DEF Settle, TypeOK
  <2>2. permit' \in [Slot -> Int \cup {NoTime}]
    BY <1>3, <2>1 DEF Settle, TypeOK
  <2>3. /\ pc' \in [Caller -> {"idle", "asking", "calling"}]
        /\ age' \in [Caller -> 0..MaxWait]
    BY <1>3, <2>1 DEF Settle, Stop, TypeOK
  <2>4. /\ state' \in LimiterState
        /\ successes' \in 0..Ceiling
        /\ throttles' \in 0..ThrottleCap
        /\ failures' \in 0..TransientCap
        /\ next' \in Int \cup {NoTime}
    BY <1>3 DEF Settle, TypeOK
  <2>5. settling' = NoSettlement /\ operation' = operation /\ last' = last
    BY <1>3 DEF Settle
  <2>6. effective' \in 1..Ceiling
    <3>1. pc[settling.by] = "calling"
      BY <1>3 DEF Settle, TypeOK
    <3>2. effective \in 1..Ceiling
      BY <2>1, <3>1, Clamped
    <3> QED BY <1>3, <3>2 DEF Settle, TypeOK
  <2>7. effective' \in 1..Most(Ceiling, Leftover) /\ ~(effective' > Ceiling)
    BY <1>0, <2>6 DEF Most
  <2> QED BY <1>0, <2>2, <2>3, <2>4, <2>5, <2>7 DEF TypeOK, NoSettlement, LimiterState
<1>4. CASE HeartbeatClamp \/ OperatorRetry
  <2>1. effective' = 1 /\ 1 \in 1..Most(Ceiling, Leftover) /\ ~(1 > Ceiling)
    BY <1>0, <1>4 DEF HeartbeatClamp, OperatorRetry, Most
  <2> QED BY <1>0, <1>4, <2>1 DEF HeartbeatClamp, OperatorRetry, TypeOK, LimiterState
<1>5. CASE UNCHANGED vars
  BY <1>0, <1>5 DEF vars, limiterVars, TypeOK, AsFound, Held
<1> QED BY <1>1, <1>2, <1>3, <1>4, <1>5 DEF Next

\* The limiter, its permits and its settlements stay well formed in every
\* behaviour, and a concurrency above the ceiling does not survive the first
\* acquire: what acquire, the settlements, publishHeartbeat and resume write.
THEOREM LimiterTyped == Spec => []TypeOK
BY TypeInit, TypeNext, PTL DEF Spec

-----------------------------------------------------------------------------
(* Permits never outnumber the ceiling *)

\* Granting adds one permit to fewer than the ceiling.
LEMMA GrantBounded ==
    ASSUME TypeOK, NEW w \in Caller, Grant(w)
    PROVE  PermitsBounded'
<1> DEFINE P == Purged(w)
           S == {s \in Slot : P[s] # NoTime}
<1>1. P \in [Slot -> Int \cup {NoTime}]
  BY PurgedTyped DEF TypeOK
<1>2. permit' = [P EXCEPT ![<<w, "own">>] = Lease - age[w]]
  BY DEF Grant
<1>3. Held' \subseteq S \cup {<<w, "own">>}
  <2> HIDE DEF P
  <2> QED BY <1>1, <1>2, SlotFacts DEF Held
<1>4. Cardinality(S) < Least(effective, Ceiling)
  BY DEF Grant, Room
<1>5. Ceiling' = Ceiling /\ Ceiling \in Nat
  BY GovernorAssumption DEF Grant, Ceiling
<1> HIDE DEF S
<1>6. S \in SUBSET Slot
  BY DEF S
<1>7. IsFiniteSet(S) /\ Cardinality(S) \in Nat
  BY <1>6, SlotFacts
<1>8. Cardinality(S) + 1 <= Ceiling
  BY <1>4, <1>5, <1>7 DEF Least, TypeOK
<1>9. /\ IsFiniteSet(S \cup {<<w, "own">>})
      /\ Cardinality(S \cup {<<w, "own">>}) <= Cardinality(S) + 1
  BY <1>7, AddOne
<1>10. /\ Cardinality(Held') <= Cardinality(S \cup {<<w, "own">>})
       /\ Cardinality(Held') \in Nat
       /\ Cardinality(S \cup {<<w, "own">>}) \in Nat
  BY <1>3, <1>9, FS_Subset, FS_CardinalityType
<1> QED BY <1>5, <1>7, <1>8, <1>9, <1>10 DEF PermitsBounded

\* A caller that dies leaves one permit behind for the one it held.
LEMMA CrashBounded ==
    ASSUME TypeOK, PermitsBounded, NEW w \in Caller, Crash(w)
    PROVE  PermitsBounded'
<1> DEFINE own == <<w, "own">>
           left == <<w, "left">>
<1>1. own \in Slot /\ left \in Slot /\ own # left
  BY SlotFacts
<1>2. permit \in [Slot -> Int \cup {NoTime}] /\ operation' = operation
  BY DEF TypeOK, Crash
<1>3. permit' = [permit EXCEPT ![left] = permit[own], ![own] = NoTime]
  BY DEF Crash
<1>4. CASE permit[own] = NoTime
  <2>1. Held' \subseteq Held
    BY <1>1, <1>2, <1>3, <1>4 DEF Held
  <2> QED BY <2>1, <1>2, FewerPermits
<1>5. CASE permit[own] # NoTime
  <2>1. Held' \subseteq (Held \ {own}) \cup {left} /\ own \in Held
    BY <1>1, <1>2, <1>3, <1>5 DEF Held
  <2>2. IsFiniteSet(Held) /\ Cardinality(Held) \in Nat
    BY SlotFacts DEF Held
  <2>3. IsFiniteSet(Held \ {own}) /\ Cardinality(Held \ {own}) = Cardinality(Held) - 1
    BY <2>1, <2>2, FS_RemoveElement
  <2>4. /\ IsFiniteSet((Held \ {own}) \cup {left})
        /\ Cardinality((Held \ {own}) \cup {left}) <= Cardinality(Held)
    <3> DEFINE rest == Held \ {own}
    <3>1. IsFiniteSet(rest) /\ Cardinality(rest) = Cardinality(Held) - 1
      BY <2>3
    <3> HIDE DEF rest
    <3>2. /\ IsFiniteSet(rest \cup {left})
          /\ Cardinality(rest \cup {left}) <= Cardinality(rest) + 1
      BY <3>1, AddOne
    <3>3. Cardinality(rest \cup {left}) <= Cardinality(Held)
      BY <2>2, <3>1, <3>2
    <3> QED BY <3>2, <3>3 DEF rest
  <2>5. /\ Cardinality(Held') <= Cardinality((Held \ {own}) \cup {left})
        /\ Cardinality(Held') \in Nat
        /\ Cardinality((Held \ {own}) \cup {left}) \in Nat
    BY <2>1, <2>4, FS_Subset, FS_CardinalityType
  <2>6. Ceiling' = Ceiling /\ Ceiling \in Nat
    BY <1>2, GovernorAssumption DEF Ceiling
  <2> QED BY <2>2, <2>4, <2>5, <2>6 DEF PermitsBounded
<1> QED BY <1>4, <1>5

\* Every other step keeps the permits or deletes some.
LEMMA BoundedNext == TypeOK /\ PermitsBounded /\ [Next]_vars => PermitsBounded'
<1> SUFFICES ASSUME TypeOK, PermitsBounded, [Next]_vars PROVE PermitsBounded'
  OBVIOUS
<1>1. CASE Tick
  <2>1. Held' \subseteq Held /\ operation' = operation
    BY <1>1, OlderTyped DEF Tick, Held, TypeOK
  <2> QED BY <2>1, FewerPermits
<1>2. ASSUME NEW w \in Caller, Call(w) PROVE PermitsBounded'
  <2>1. CASE Refuse(w)
    <3>1. Held' \subseteq Held /\ operation' = operation
      BY <2>1, PurgedTyped DEF Refuse, Held, TypeOK
    <3> QED BY <3>1, FewerPermits
  <2>2. CASE Grant(w)
    BY <2>2, GrantBounded
  <2>3. CASE Crash(w)
    BY <2>3, CrashBounded
  <2>4. CASE QuotaBlocked(w) \/ Release(w)
    <3>1. Held' \subseteq Held /\ operation' = operation
      BY <2>4 DEF QuotaBlocked, Release, Held, TypeOK
    <3> QED BY <3>1, FewerPermits
  <2>5. CASE \/ Ask(w) \/ TimeOut(w)
             \/ AnswerHealthy(w) \/ AnswerThrottled(w) \/ AnswerTransient(w)
    <3>1. permit' = permit /\ operation' = operation
      BY <2>5 DEF Ask, TimeOut, AnswerHealthy, AnswerThrottled, AnswerTransient,
                  Answer
    <3> QED BY <3>1, FewerPermits DEF Held
  <2> QED BY <1>2, <2>1, <2>2, <2>3, <2>4, <2>5 DEF Call
<1>3. CASE Settle
  <2>1. Held' \subseteq Held /\ operation' = operation
    BY <1>3 DEF Settle, Held, TypeOK
  <2> QED BY <2>1, FewerPermits
<1>4. CASE HeartbeatClamp \/ OperatorRetry \/ UNCHANGED vars
  <2>1. permit' = permit /\ operation' = operation
    BY <1>4 DEF HeartbeatClamp, OperatorRetry, vars
  <2> QED BY <2>1, FewerPermits DEF Held
<1> QED BY <1>1, <1>2, <1>3, <1>4 DEF Next

\* For any number of callers, any configuration and any clock readings, the
\* permits of an endpoint never outnumber its technical maximum, and Send
\* Message never has two (acquire's count under the limiter's lock).
THEOREM PermitsStayBounded == Spec => []PermitsBounded
<1>1. Init => PermitsBounded
  <2> SUFFICES ASSUME Init PROVE PermitsBounded
    OBVIOUS
  <2>1. Held = {}
    BY DEF Init, Held
  <2>2. Ceiling \in Nat
    BY GovernorAssumption DEF Ceiling
  <2> QED BY <2>1, <2>2, FS_EmptySet DEF PermitsBounded
<1> QED BY <1>1, TypeInit, TypeNext, BoundedNext, PTL DEF Spec

=============================================================================
