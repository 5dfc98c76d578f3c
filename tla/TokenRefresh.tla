----------------------------- MODULE TokenRefresh -----------------------------
(***************************************************************************)
(* The TikTok connection of the selected shop and its token rotation       *)
(* (apps/api/src/integrations/tiktok.service.ts).  Callers that need an    *)
(* access token, the maintenance sweep and the manual refresh all go       *)
(* through refreshToken: a caller reads the row, claims a lease by         *)
(* compare-and-set, presents the single-use refresh token to TikTok and    *)
(* stores the answer by a second compare-and-set.  Others wait by polling. *)
(*                                                                         *)
(* One step is one statement against the database or one answer of TikTok; *)
(* what a caller read before keeps its value in seen.  A token pair is     *)
(* named by the authorization it came from and the number of times it was  *)
(* rotated; expiries are one bit each, and a status is HEALTHY or not.     *)
(*                                                                         *)
(* The variant of an operator with a qualifier, defined just before it, is *)
(* a faulty one that no action uses and that the properties must reject.   *)
(***************************************************************************)
EXTENDS Integers, FiniteSets

CONSTANTS Callers,      \* requests, jobs and the sweep that ask for a token
          Nobody,       \* no lease
          MaxAuths,     \* bound: authorizations completed at TikTok
          MaxRotations, \* bound: rotations of one authorization
          MaxFaults     \* bound: callers killed, database errors, lost flows

ASSUME TokenBounds == /\ Nobody \notin Callers
                      /\ MaxAuths \in Nat
                      /\ MaxRotations \in Nat
                      /\ MaxFaults \in Nat

VARIABLES conn,     \* the IntegrationConnection row
          selected, \* Shop.selectedForReadOnly of the connection's shop
          at,       \* where each caller stands
          seen,     \* what a caller on its way holds of the row it read
          answer,   \* the token pair TikTok gave the caller
          grant,    \* external: the rotation TikTok accepts, per authorization
          pending,  \* authorizations exchanged and not yet stored
          last,     \* history: the newest token pair ever stored
          evicted,  \* history: callers whose lease lapsed or was replaced
          faults    \* faults taken so far

tokenVars == <<conn, selected, at, seen, answer, grant, pending,
               last, evicted, faults>>

Auths == 0..MaxAuths
Pairs == [auth : Auths, rot : Nat]
NoPair == [auth |-> -1, rot |-> 0]

Stages == {"idle", "refresh", "retry", "dead", "claim", "rotate", "answered",
           "uncertain", "refused", "wait", "lapsed"}

Rows == [state : {"IDLE", "IN_PROGRESS", "FAILED", "OUTCOME_UNCERTAIN"},
         healthy : BOOLEAN,              \* status = HEALTHY
         pair : Pairs \cup {NoPair},     \* the stored ciphertexts
         fresh : BOOLEAN,                \* access token beyond the margin
         expired : BOOLEAN,              \* refresh token past its expiry
         owner : Callers \cup {Nobody},  \* refreshLeaseId
         lapsed : BOOLEAN,               \* refreshLeaseExpiresAt has passed
         version : Nat]                  \* tokenVersion

Views == [state : {"IDLE", "IN_PROGRESS", "FAILED", "OUTCOME_UNCERTAIN"},
          pair : Pairs \cup {NoPair}, owner : Callers \cup {Nobody},
          version : Nat]
NoView == [state |-> "IDLE", pair |-> NoPair, owner |-> Nobody, version |-> 0]

\* The lease columns are set exactly while a refresh is in progress.
TokenTypeOK ==
  /\ conn \in Rows
  /\ conn.state = "IN_PROGRESS" <=> conn.owner # Nobody
  /\ selected \in BOOLEAN
  /\ at \in [Callers -> Stages]
  /\ seen \in [Callers -> Views]
  /\ answer \in [Callers -> Pairs \cup {NoPair}]
  /\ grant \in [Auths -> Nat \cup {-1}]
  /\ pending \subseteq Auths
  /\ last \in Pairs
  /\ evicted \subseteq Callers
  /\ faults \in 0..MaxFaults

FirstPair == [auth |-> 0, rot |-> 0]

\* The seller is authorized, the shop is selected and its token is fresh.
FirstRow == [state |-> "IDLE", healthy |-> TRUE,
             pair |-> FirstPair, fresh |-> TRUE, expired |-> FALSE,
             owner |-> Nobody, lapsed |-> FALSE, version |-> 1]

TokenInit ==
  /\ conn = FirstRow
  /\ selected = TRUE
  /\ at = [p \in Callers |-> "idle"]
  /\ seen = [p \in Callers |-> NoView]
  /\ answer = [p \in Callers |-> NoPair]
  /\ grant = [a \in Auths |-> IF a = 0 THEN 0 ELSE -1]
  /\ pending = {}
  /\ last = FirstPair
  /\ evicted = {}
  /\ faults = 0
-----------------------------------------------------------------------------
(* Helpers *)

\* The caller goes on with what it holds,
Go(p, stage) ==
  /\ at' = [at EXCEPT ![p] = stage]
  /\ UNCHANGED seen

\* with the row it has just read,
GoWithRow(p, stage) ==
  /\ at' = [at EXCEPT ![p] = stage]
  /\ seen' = [seen EXCEPT ![p] =
                [state |-> conn.state, pair |-> conn.pair,
                 owner |-> conn.owner, version |-> conn.version]]

\* or with nothing: it returns, throws or starts to poll.
GoFree(p, stage) ==
  /\ at' = [at EXCEPT ![p] = stage]
  /\ seen' = [seen EXCEPT ![p] = NoView]

Untouched == UNCHANGED <<selected, grant, pending, last>>

\* From its claim to its settlement a caller believes that it holds the lease.
InRotation(p) == at[p] \in {"rotate", "answered", "uncertain", "refused"}

\* The where clause of every settling update of a lease: still in progress,
\* under the lease and the version the caller holds.
LeasedByState(owner, version) == conn.state = "IN_PROGRESS"
Leased(owner, version) ==
  /\ conn.state = "IN_PROGRESS"
  /\ conn.owner = owner
  /\ conn.version = version

\* What markRefreshUncertain writes: the local tokens are cleared.
UncertainAsRefused(row) ==
  [row EXCEPT !.state = "FAILED", !.healthy = FALSE,
              !.owner = Nobody, !.lapsed = FALSE]
Uncertain(row) ==
  [row EXCEPT !.state = "OUTCOME_UNCERTAIN", !.healthy = FALSE,
              !.pair = NoPair, !.fresh = FALSE, !.expired = TRUE,
              !.owner = Nobody, !.lapsed = FALSE]

\* The lease columns are cleared with every settlement.
ReleasedInState(row, state) == [row EXCEPT !.state = state, !.lapsed = FALSE]
Released(row, state) ==
  [row EXCEPT !.state = state, !.owner = Nobody, !.lapsed = FALSE]

\* A new token pair is stored under a new version.
Renewed(ok, pair) ==
  [Released(conn, "IDLE") EXCEPT !.healthy = ok, !.pair = pair, !.fresh = TRUE,
                                 !.expired = FALSE, !.version = @ + 1]

-----------------------------------------------------------------------------
(* Asking for a token *)

\* refreshLeaseExpiresAt <= now, of a lease somebody else holds.
NeverOverdue == FALSE
Overdue == conn.lapsed

\* validAccessToken: one read decides.  A fresh token is returned, an unusable
\* connection refused: both leave the caller where it was.
ValidAccessToken(p) ==
  /\ at[p] = "idle"
  /\ selected
  /\ \/ /\ conn.state = "IN_PROGRESS"
        /\ GoFree(p, "wait")
     \/ /\ conn.state \in {"IDLE", "FAILED"}
        /\ conn.healthy
        /\ conn.pair # NoPair
        /\ ~conn.fresh
        /\ Go(p, "refresh")
  /\ UNCHANGED <<conn, answer, evicted, faults>>
  /\ Untouched

\* TokenMaintenanceService.sweep finds the selected shop's token due.
Sweep(p) ==
  /\ at[p] = "idle"
  /\ selected
  /\ conn.healthy
  /\ conn.state = "IDLE"
  /\ ~conn.fresh
  /\ Go(p, "refresh")
  /\ UNCHANGED <<conn, answer, evicted, faults>>
  /\ Untouched

\* POST tiktok/refresh: a refresh whatever the row says.
ManualRefresh(p) ==
  /\ at[p] = "idle"
  /\ selected
  /\ Go(p, "retry")
  /\ UNCHANGED <<conn, answer, evicted, faults>>
  /\ Untouched

\* refreshToken reads the row again and decides on that read alone.
ReadConnection(p) ==
  /\ at[p] \in {"refresh", "retry"}
  /\ \/ /\ \/ conn.state = "OUTCOME_UNCERTAIN"
           \/ conn.state = "FAILED" /\ at[p] = "refresh"
        /\ GoFree(p, "idle")
     \/ /\ conn.state = "IN_PROGRESS"
        /\ ~Overdue
        /\ GoFree(p, "wait")
     \/ /\ conn.state = "IN_PROGRESS"
        /\ Overdue
        /\ GoWithRow(p, "lapsed")
     \/ /\ \/ conn.state = "IDLE"
           \/ conn.state = "FAILED" /\ at[p] = "retry"
        /\ GoWithRow(p, IF conn.pair = NoPair \/ conn.expired
                        THEN "dead" ELSE "claim")
  /\ UNCHANGED <<conn, answer, evicted, faults>>
  /\ Untouched

\* No refresh token, or an expired one: FAILED, unless the row has changed.
GiveUpDeadToken(p) ==
  /\ at[p] = "dead"
  /\ conn' = IF /\ conn.version = seen[p].version
                /\ conn.state = seen[p].state
                /\ conn.pair = seen[p].pair
             THEN [conn EXCEPT !.state = "FAILED", !.healthy = FALSE]
             ELSE conn
  /\ GoFree(p, "idle")
  /\ UNCHANGED <<answer, evicted, faults>>
  /\ Untouched

\* The claim: the row is not in progress and still of the version read.
ClaimableByVersion(p) == conn.version = seen[p].version
Claimable(p) ==
  /\ conn.state # "IN_PROGRESS"
  /\ conn.version = seen[p].version

Claim(p) ==
  /\ at[p] = "claim"
  /\ IF Claimable(p)
     THEN /\ conn' = [conn EXCEPT !.state = "IN_PROGRESS", !.owner = p,
                                  !.lapsed = FALSE]
          /\ Go(p, "rotate")
     ELSE /\ GoFree(p, "wait")
          /\ UNCHANGED conn
  /\ UNCHANGED <<answer, evicted, faults>>
  /\ Untouched

-----------------------------------------------------------------------------
(* The call to TikTok and its settlement *)

\* external: TikTok accepts the refresh token it issued last for this
\* authorization, and only once.
Accepted(p) ==
  /\ grant[seen[p].pair.auth] = seen[p].pair.rot
  /\ seen[p].pair.rot < MaxRotations
  /\ grant' = [grant EXCEPT ![seen[p].pair.auth] = @ + 1]

\* auth.refresh returns a new pair; is answered with another code than 0, when
\* TikTok is taken not to have rotated; or ends in a network error, an unreadable
\* answer or a code 0 for another identity, which are uncertain, rotated or not.
Rotate(p) ==
  /\ at[p] = "rotate"
  /\ \/ /\ Accepted(p)
        /\ answer' = [answer EXCEPT ![p] = [seen[p].pair EXCEPT !.rot = @ + 1]]
        /\ Go(p, "answered")
     \/ /\ Go(p, "refused")
        /\ UNCHANGED <<answer, grant>>
     \/ /\ Go(p, "uncertain")
        /\ UNCHANGED answer
        /\ Accepted(p) \/ UNCHANGED grant
  /\ UNCHANGED <<conn, selected, pending, last, evicted, faults>>

\* The new pair is stored under the lease; a lost lease or a database error
\* leads to markRefreshUncertain.  The shops read after the rotation decides
\* about the status.
Persist(p) ==
  /\ at[p] = "answered"
  /\ \/ /\ Leased(p, seen[p].version)
        /\ \E ok \in BOOLEAN : conn' = Renewed(ok, answer[p])
        /\ last' = answer[p]
        /\ GoFree(p, "idle")
        /\ UNCHANGED faults
     \/ /\ ~Leased(p, seen[p].version)
        /\ Go(p, "uncertain")
        /\ UNCHANGED <<conn, last, faults>>
     \/ /\ faults < MaxFaults
        /\ faults' = faults + 1
        /\ Go(p, "uncertain")
        /\ UNCHANGED <<conn, last>>
  /\ answer' = [answer EXCEPT ![p] = NoPair]
  /\ evicted' = IF at'[p] = "idle" THEN evicted \ {p} ELSE evicted
  /\ UNCHANGED <<selected, grant, pending>>

\* markRefreshUncertain of the caller's own lease; a newer row is left alone.
MarkUncertain(p) ==
  /\ at[p] = "uncertain"
  /\ conn' = IF Leased(p, seen[p].version) THEN Uncertain(conn) ELSE conn
  /\ GoFree(p, "idle")
  /\ evicted' = evicted \ {p}
  /\ UNCHANGED <<answer, faults>>
  /\ Untouched

\* An explicit refusal: the stored tokens are kept, automatic retry is blocked.
MarkFailed(p) ==
  /\ at[p] = "refused"
  /\ conn' = IF Leased(p, seen[p].version)
             THEN [Released(conn, "FAILED") EXCEPT !.healthy = FALSE]
             ELSE conn
  /\ GoFree(p, "idle")
  /\ evicted' = evicted \ {p}
  /\ UNCHANGED <<answer, faults>>
  /\ Untouched

-----------------------------------------------------------------------------
(* Waiting for another caller's refresh *)

\* One poll of waitForRefresh.  A refresh still in progress is polled again or,
\* after the last of the 300 polls, given up; anything else ends the wait.
Poll(p) ==
  /\ at[p] = "wait"
  /\ \/ conn.state = "IN_PROGRESS" /\ Overdue /\ GoWithRow(p, "lapsed")
     \/ conn.state = "IN_PROGRESS" /\ ~Overdue /\ UNCHANGED <<at, seen>>
     \/ conn.state = "IN_PROGRESS" /\ ~Overdue /\ GoFree(p, "idle")
     \/ conn.state # "IN_PROGRESS" /\ GoFree(p, "idle")
  /\ UNCHANGED <<conn, answer, evicted, faults>>
  /\ Untouched

\* A lease seen to have lapsed is marked uncertain; if it has just been settled
\* or extended by another claim, the caller polls on.
MarkLapsed(p) ==
  /\ at[p] = "lapsed"
  /\ IF Leased(seen[p].owner, seen[p].version)
     THEN /\ conn' = Uncertain(conn)
          /\ evicted' = evicted \cup {q \in Callers : InRotation(q) /\ q = conn.owner}
          /\ GoFree(p, "idle")
     ELSE /\ GoFree(p, "wait")
          /\ UNCHANGED <<conn, evicted>>
  /\ UNCHANGED <<answer, faults>>
  /\ Untouched

-----------------------------------------------------------------------------
(* The operator *)

\* external: the seller approves and the callback exchanges the code; the shops
\* returned are stored as not selected.
Exchange ==
  /\ \E a \in Auths :
       /\ grant[a] = -1
       /\ \A b \in Auths : b < a => grant[b] # -1
       /\ grant' = [grant EXCEPT ![a] = 0]
       /\ pending' = pending \cup {a}
  /\ selected' = FALSE
  /\ UNCHANGED <<conn, at, seen, answer, last, evicted, faults>>

\* The callback stores the new tokens whatever the row holds.
StoreAuthorization(a) ==
  /\ a \in pending
  /\ pending' = pending \ {a}
  /\ conn' = Renewed(FALSE, [auth |-> a, rot |-> 0])
  /\ last' = [auth |-> a, rot |-> 0]
  /\ evicted' = evicted \cup {q \in Callers : InRotation(q) /\ q = conn.owner}
  /\ UNCHANGED <<selected, at, seen, answer, grant, faults>>

\* selectShop selects the shop and declares the connection healthy.  It tests
\* the scopes in a read of its own before: the row, scoped at first, may have
\* become anything since, so that the write can fall at any moment.
SelectShop ==
  /\ selected' = TRUE
  /\ conn' = [conn EXCEPT !.healthy = TRUE]
  /\ UNCHANGED <<at, seen, answer, grant, pending, last, evicted, faults>>

-----------------------------------------------------------------------------
(* Time and failures *)

\* The access token reaches the refresh margin; later the refresh token expires.
TokenAges ==
  /\ \/ conn.fresh /\ conn' = [conn EXCEPT !.fresh = FALSE]
     \/ /\ conn.pair # NoPair /\ ~conn.fresh /\ ~conn.expired
        /\ conn' = [conn EXCEPT !.expired = TRUE]
  /\ UNCHANGED <<at, seen, answer, evicted, faults>>
  /\ Untouched

\* 120 s have passed since the claim.
LeaseLapses ==
  /\ conn.state = "IN_PROGRESS"
  /\ ~conn.lapsed
  /\ conn' = [conn EXCEPT !.lapsed = TRUE]
  /\ UNCHANGED <<at, seen, answer, evicted, faults>>
  /\ Untouched

\* The caller's process dies, or one of its statements fails.
CallerDies(p) ==
  /\ at[p] # "idle"
  /\ faults < MaxFaults
  /\ faults' = faults + 1
  /\ GoFree(p, "idle")
  /\ answer' = [answer EXCEPT ![p] = NoPair]
  /\ evicted' = evicted \ {p}
  /\ UNCHANGED conn
  /\ Untouched

\* The callback dies between the exchange and the store.
FlowDies(a) ==
  /\ a \in pending
  /\ faults < MaxFaults
  /\ faults' = faults + 1
  /\ pending' = pending \ {a}
  /\ UNCHANGED <<conn, selected, at, seen, answer, grant, last,
                 evicted>>

CallerStep(p) ==
  \/ ReadConnection(p) \/ GiveUpDeadToken(p) \/ Claim(p) \/ Rotate(p)
  \/ Persist(p) \/ MarkUncertain(p) \/ MarkFailed(p) \/ Poll(p)
  \/ MarkLapsed(p)

TokenNext ==
  \/ \E p \in Callers :
       \/ ValidAccessToken(p) \/ Sweep(p) \/ ManualRefresh(p)
       \/ CallerStep(p) \/ CallerDies(p)
  \/ Exchange \/ SelectShop \/ TokenAges \/ LeaseLapses
  \/ \E a \in Auths : StoreAuthorization(a) \/ FlowDies(a)

\* Node runs every statement that was issued, time passes, and the read workers
\* ask for a token again on their timers.  The operator owes nothing.
TokenFairness ==
  /\ \A p \in Callers : WF_tokenVars(CallerStep(p))
  /\ \A p \in Callers : WF_tokenVars(ValidAccessToken(p))
  /\ WF_tokenVars(LeaseLapses)

TokenSpec == TokenInit /\ [][TokenNext]_tokenVars /\ TokenFairness
-----------------------------------------------------------------------------
(* Properties *)

\* The refresh token kept for the next rotation is the one TikTok accepts: a
\* rotation whose answer was lost, whose holder died or whose store failed never
\* leaves the used token behind as if it were good (tiktok.service.ts:484-516).
KeptTokenIsLive ==
  conn.state \in {"IDLE", "FAILED"} /\ conn.pair # NoPair
    => grant[conn.pair.auth] = conn.pair.rot

\* A caller between its claim and its settlement holds the row, unless its lease
\* lapsed or the seller authorized anew: no second caller presents the same
\* single-use token meanwhile (tiktok.service.ts:452-456).
LeaseIsKept ==
  \A p \in Callers : InRotation(p) /\ p \notin evicted =>
    Leased(p, seen[p].version)

\* Stored tokens are replaced by a new authorization or by a rotation of the
\* pair stored last: a refresh that was overtaken cannot put its tokens over
\* newer ones (docs/tiktok-integration.md:88).
RotationsFollowOn ==
  [][conn'.pair \notin {conn.pair, NoPair} =>
       \/ conn'.pair.rot = 0 /\ conn'.pair # last
       \/ /\ conn'.pair.auth = last.auth
          /\ conn'.pair.rot = last.rot + 1]_tokenVars

\* A refresh whose holder died does not hold the connection for ever: someone
\* who asks later settles its lapsed lease (tiktok.service.ts:396, 418).
InProgressEnds ==
  conn.state = "IN_PROGRESS" /\ selected
    ~> conn.state # "IN_PROGRESS" \/ ~selected
=============================================================================
