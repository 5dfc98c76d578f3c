-------------------------- MODULE TokenRefreshProofs --------------------------
(***************************************************************************)
(* Proofs about TokenRefresh: the row stays well formed, the refresh token *)
(* that is kept is the one TikTok accepts, a claimed lease is kept, and a  *)
(* rotation only ever replaces the pair it rotated.                        *)
(***************************************************************************)
EXTENDS TokenRefresh, TLAPS

-----------------------------------------------------------------------------
(* The inductive invariant *)

\* The pair of an older version: superseded by rotation, or by another
\* authorization, in which case it can never be stored again.
Superseded(pair) ==
  IF pair.auth = last.auth
  THEN pair.rot < last.rot
  ELSE pair.auth \notin pending /\ grant[pair.auth] # -1

\* The row holds the newest pair or none, none after an uncertain outcome.
RowHoldsLast ==
  /\ conn.pair \in {NoPair, last}
  /\ conn.state = "OUTCOME_UNCERTAIN" => conn.pair = NoPair

\* TikTok accepts the newest pair, or the next one if that answer is not stored.
GrantNearLast ==
  /\ last.auth \notin pending
  /\ grant[last.auth] \in {last.rot, last.rot + 1}
  /\ \A a \in pending : grant[a] = 0

\* A caller about to give up a dead token read a row that was not in progress.
DeadWasSettled ==
  \A p \in Callers : at[p] = "dead" => seen[p].state \in {"IDLE", "FAILED"}

\* What a caller has read to rotate is the newest pair or a superseded one,
\* and the version tells which.
ViewsAreOrdered ==
  \A p \in Callers : at[p] = "claim" \/ InRotation(p) =>
    /\ seen[p].pair \in Pairs
    /\ seen[p].version <= conn.version
    /\ seen[p].version = conn.version => seen[p].pair = last
    /\ seen[p].version < conn.version => Superseded(seen[p].pair)

\* Only a caller in rotation is evicted.  Its lease is not on the row, and its
\* token pair has been cleared or replaced.
EvictedLostRow ==
  \A p \in evicted :
    /\ InRotation(p)
    /\ conn.owner # p
    /\ seen[p].version = conn.version => conn.pair = NoPair

\* While the holder has not rotated, or was refused, the row's pair is good.
HolderKeepsGrant ==
  \A p \in Callers \ evicted :
    at[p] \in {"rotate", "refused"} /\ conn.pair # NoPair =>
      grant[last.auth] = last.rot

\* An answer follows on the pair it rotated, and TikTok still accepts it as long
\* as the row has the version that was read.
AnswersAreNext ==
  \A p \in Callers : at[p] = "answered" =>
    /\ answer[p] = [seen[p].pair EXCEPT !.rot = @ + 1]
    /\ seen[p].version = conn.version => grant[last.auth] = last.rot + 1

TokenInv ==
  /\ TokenTypeOK
  /\ KeptTokenIsLive
  /\ LeaseIsKept
  /\ RowHoldsLast
  /\ GrantNearLast
  /\ DeadWasSettled
  /\ ViewsAreOrdered
  /\ EvictedLostRow
  /\ HolderKeepsGrant
  /\ AnswersAreNext

-----------------------------------------------------------------------------
(* Facts about pairs and callers *)

\* A pair of TikTok is not the absence of one, and its next rotation is one.
LEMMA PairFacts ==
  /\ NoPair \notin Pairs
  /\ FirstPair \in Pairs
  /\ \A pair \in Pairs : [pair EXCEPT !.rot = @ + 1] \in Pairs
BY TokenBounds DEF Pairs, NoPair, FirstPair, Auths

\* A row that is not in progress has only evicted callers in rotation.
LEMMA OnlyEvicted ==
  ASSUME TokenInv, NEW p \in Callers, InRotation(p),
         conn.state # "IN_PROGRESS" \/ conn.owner # p
  PROVE  p \in evicted
BY DEF TokenInv, LeaseIsKept, Leased

-----------------------------------------------------------------------------
(* Initial states *)

\* The selected shop with its first pair satisfies the invariant.
LEMMA InitInv == TokenInit => TokenInv
<1> SUFFICES ASSUME TokenInit PROVE TokenInv
  OBVIOUS
<1> USE DEF TokenInit, FirstRow
<1>1. TokenTypeOK
  BY PairFacts, TokenBounds
     DEF TokenTypeOK, Rows, Views, NoView, Stages, Auths, FirstPair
<1>2. KeptTokenIsLive /\ LeaseIsKept
  BY TokenBounds DEF KeptTokenIsLive, LeaseIsKept, InRotation, FirstPair, Auths
<1>3. RowHoldsLast /\ DeadWasSettled /\ ViewsAreOrdered /\ EvictedLostRow
  BY DEF RowHoldsLast, DeadWasSettled, ViewsAreOrdered, EvictedLostRow, InRotation
<1>4. GrantNearLast /\ HolderKeepsGrant /\ AnswersAreNext
  BY TokenBounds
     DEF GrantNearLast, HolderKeepsGrant, AnswersAreNext, FirstPair, Auths
<1> QED BY <1>1, <1>2, <1>3, <1>4 DEF TokenInv

-----------------------------------------------------------------------------
(* Steps that leave the row and TikTok alone *)

\* A caller that is in no rotation afterwards disturbs nobody: it starts, waits,
\* has seen a lapsed lease, returns, throws or dies.
LEMMA LeavesRow ==
  ASSUME TokenInv, NEW p \in Callers,
         NEW stage \in {"idle", "refresh", "retry", "wait", "lapsed"},
         NEW view \in Views,
         at' = [at EXCEPT ![p] = stage], seen' = [seen EXCEPT ![p] = view],
         answer' \in {answer, [answer EXCEPT ![p] = NoPair]},
         evicted' = evicted \ {p}, faults' \in 0..MaxFaults,
         UNCHANGED <<conn, selected, grant, pending, last>>
  PROVE  TokenInv'
<1> USE DEF TokenInv
<1>1. TokenTypeOK'
  BY DEF TokenTypeOK, Stages
<1>2. /\ at'[p] = stage /\ seen'[p] = view
      /\ \A q \in Callers \ {p} : at'[q] = at[q] /\ seen'[q] = seen[q] /\ answer'[q] = answer[q]
  BY DEF TokenTypeOK
<1>3. KeptTokenIsLive' /\ RowHoldsLast' /\ GrantNearLast'
  BY DEF KeptTokenIsLive, RowHoldsLast, GrantNearLast
<1>4. LeaseIsKept' /\ DeadWasSettled' /\ AnswersAreNext'
  BY <1>2 DEF LeaseIsKept, DeadWasSettled, AnswersAreNext, InRotation, Leased
<1>5. ViewsAreOrdered' /\ EvictedLostRow' /\ HolderKeepsGrant'
  BY <1>2, <1>1 DEF ViewsAreOrdered, EvictedLostRow, HolderKeepsGrant, InRotation,
     Superseded, TokenTypeOK
<1> QED BY <1>1, <1>3, <1>4, <1>5

\* What a caller remembers of the row it reads is a view.
LEMMA ViewOfRow ==
  ASSUME TokenTypeOK
  PROVE  /\ NoView \in Views
         /\ [state |-> conn.state, pair |-> conn.pair,
             owner |-> conn.owner, version |-> conn.version] \in Views
BY TokenBounds DEF TokenTypeOK, Rows, Views, NoView

\* A caller that asks for a token, the sweep and the manual refresh.
LEMMA AskStep ==
  ASSUME TokenInv, NEW p \in Callers,
         ValidAccessToken(p) \/ Sweep(p) \/ ManualRefresh(p)
  PROVE  TokenInv'
<1>1. p \notin evicted
  BY DEF ValidAccessToken, Sweep, ManualRefresh, TokenInv, EvictedLostRow, InRotation
<1>2. PICK stage \in {"refresh", "retry", "wait"}, view \in Views :
        at' = [at EXCEPT ![p] = stage] /\ seen' = [seen EXCEPT ![p] = view]
  <2>1. seen = [seen EXCEPT ![p] = seen[p]] /\ seen[p] \in Views
    BY DEF TokenInv, TokenTypeOK
  <2> QED
    BY <2>1, ViewOfRow
       DEF ValidAccessToken, Sweep, ManualRefresh, Go, GoFree, TokenInv
<1>3. /\ evicted' = evicted \ {p} /\ faults' \in 0..MaxFaults /\ answer' = answer
      /\ UNCHANGED <<conn, selected, grant, pending, last>>
  BY <1>1 DEF ValidAccessToken, Sweep, ManualRefresh, Untouched, TokenInv, TokenTypeOK
<1> QED BY <1>2, <1>3, LeavesRow

\* The death of a caller leaves its lease on the row.
LEMMA DeathStep ==
  ASSUME TokenInv, NEW p \in Callers, CallerDies(p)
  PROVE  TokenInv'
<1>1. /\ at' = [at EXCEPT ![p] = "idle"] /\ seen' = [seen EXCEPT ![p] = NoView]
      /\ answer' = [answer EXCEPT ![p] = NoPair] /\ evicted' = evicted \ {p}
      /\ faults' \in 0..MaxFaults
      /\ UNCHANGED <<conn, selected, grant, pending, last>>
  BY TokenBounds DEF CallerDies, GoFree, Untouched, TokenInv, TokenTypeOK
<1> QED BY <1>1, LeavesRow, ViewOfRow DEF TokenInv

\* The poll of a caller that waits.
LEMMA PollStep ==
  ASSUME TokenInv, NEW p \in Callers, Poll(p)
  PROVE  TokenInv'
<1>1. p \notin evicted
  BY DEF Poll, TokenInv, EvictedLostRow, InRotation
<1>2. PICK stage \in {"idle", "wait", "lapsed"}, view \in Views :
        at' = [at EXCEPT ![p] = stage] /\ seen' = [seen EXCEPT ![p] = view]
  <2>1. /\ seen = [seen EXCEPT ![p] = seen[p]] /\ seen[p] \in Views
        /\ at = [at EXCEPT ![p] = "wait"]
    BY DEF TokenInv, TokenTypeOK, Poll
  <2> QED
    BY <2>1, ViewOfRow DEF Poll, GoWithRow, GoFree, TokenInv
<1>3. /\ evicted' = evicted \ {p} /\ faults' \in 0..MaxFaults /\ answer' = answer
      /\ UNCHANGED <<conn, selected, grant, pending, last>>
  BY <1>1 DEF Poll, Untouched, TokenInv, TokenTypeOK
<1> QED BY <1>2, <1>3, LeavesRow

-----------------------------------------------------------------------------
(* Reading, giving up and claiming *)

\* The read before a refresh: it leaves, or remembers the row it decided on.
LEMMA ReadStep ==
  ASSUME TokenInv, NEW p \in Callers, ReadConnection(p)
  PROVE  TokenInv'
<1> DEFINE view == [state |-> conn.state, pair |-> conn.pair,
                    owner |-> conn.owner, version |-> conn.version]
<1>1. /\ p \notin evicted
      /\ answer' = answer /\ evicted' = evicted \ {p} /\ faults' \in 0..MaxFaults
      /\ UNCHANGED <<conn, selected, grant, pending, last>>
  BY DEF ReadConnection, Untouched, TokenInv, TokenTypeOK, EvictedLostRow, InRotation
<1>2. \/ at' = [at EXCEPT ![p] = "idle"] /\ seen' = [seen EXCEPT ![p] = NoView]
      \/ at' = [at EXCEPT ![p] = "wait"] /\ seen' = [seen EXCEPT ![p] = NoView]
      \/ at' = [at EXCEPT ![p] = "lapsed"] /\ seen' = [seen EXCEPT ![p] = view]
      \/ /\ conn.state \in {"IDLE", "FAILED"}
         /\ seen' = [seen EXCEPT ![p] = view]
         /\ \/ at' = [at EXCEPT ![p] = "dead"]
            \/ at' = [at EXCEPT ![p] = "claim"] /\ conn.pair # NoPair
  BY DEF ReadConnection, GoFree, GoWithRow
<1>3. CASE ~(at'[p] \in {"dead", "claim"})
  <2>1. PICK stage \in {"idle", "wait", "lapsed"}, v \in Views :
          at' = [at EXCEPT ![p] = stage] /\ seen' = [seen EXCEPT ![p] = v]
    BY <1>2, <1>3, ViewOfRow DEF TokenInv, TokenTypeOK
  <2> QED BY <1>1, <2>1, LeavesRow
<1>4. CASE at'[p] \in {"dead", "claim"}
  <2> USE DEF TokenInv
  <2>1. /\ conn.state \in {"IDLE", "FAILED"}
        /\ seen' = [seen EXCEPT ![p] = view]
        /\ at' = [at EXCEPT ![p] = at'[p]]
        /\ at'[p] = "claim" => conn.pair # NoPair
    BY <1>2, <1>4 DEF TokenTypeOK
  <2>2. TokenTypeOK'
    BY <1>1, <1>4, <2>1, ViewOfRow DEF TokenTypeOK, Stages
  <2>3. /\ seen'[p] = view
        /\ \A q \in Callers \ {p} : at'[q] = at[q] /\ seen'[q] = seen[q]
        /\ \A q \in Callers : InRotation(q)' => q # p /\ InRotation(q)
    BY <1>4, <2>1 DEF TokenTypeOK, InRotation
  <2> HIDE DEF view
  <2>4. KeptTokenIsLive' /\ RowHoldsLast' /\ GrantNearLast' /\ LeaseIsKept'
    BY <1>1, <2>3 DEF KeptTokenIsLive, RowHoldsLast, GrantNearLast, LeaseIsKept, Leased
  <2>5. DeadWasSettled' /\ AnswersAreNext' /\ HolderKeepsGrant' /\ EvictedLostRow'
    BY <1>1, <1>4, <2>1, <2>3
       DEF DeadWasSettled, AnswersAreNext, HolderKeepsGrant, EvictedLostRow,
           InRotation, view, TokenTypeOK
  <2>6. ViewsAreOrdered'
    <3>1. at'[p] = "claim" => conn.pair = last /\ last \in Pairs
      BY <2>1 DEF RowHoldsLast, TokenTypeOK
    <3>2. seen'[p].version = conn.version /\ seen'[p].pair = conn.pair
      BY <2>3 DEF view
    <3>3. conn.version \in Nat
      BY DEF TokenTypeOK, Rows
    <3> QED BY <1>1, <2>3, <1>4, <3>1, <3>2, <3>3 DEF ViewsAreOrdered, InRotation, Superseded
  <2> QED BY <2>2, <2>4, <2>5, <2>6
<1> QED BY <1>3, <1>4

\* A dead refresh token fails the row it was read from, never a newer one.
LEMMA GiveUpStep ==
  ASSUME TokenInv, NEW p \in Callers, GiveUpDeadToken(p)
  PROVE  TokenInv'
<1>1. /\ p \notin evicted
      /\ at' = [at EXCEPT ![p] = "idle"] /\ seen' = [seen EXCEPT ![p] = NoView]
      /\ answer' = answer /\ evicted' = evicted \ {p} /\ faults' \in 0..MaxFaults
      /\ UNCHANGED <<selected, grant, pending, last>>
  BY DEF GiveUpDeadToken, GoFree, Untouched, TokenInv, TokenTypeOK, EvictedLostRow,
     InRotation
<1>2. CASE conn' = conn
  BY <1>1, <1>2, LeavesRow, ViewOfRow DEF TokenInv
<1>3. CASE conn' # conn
  <2> USE DEF TokenInv
  <2>1. /\ conn' = [conn EXCEPT !.state = "FAILED", !.healthy = FALSE]
        /\ conn.state \in {"IDLE", "FAILED"}
    BY <1>3 DEF GiveUpDeadToken, DeadWasSettled
  <2>2. TokenTypeOK'
    BY <1>1, <2>1, ViewOfRow DEF TokenTypeOK, Stages, Rows
  <2>3. /\ conn'.pair = conn.pair /\ conn'.version = conn.version
        /\ conn'.owner = conn.owner /\ conn'.state = "FAILED"
    BY <2>1 DEF TokenTypeOK, Rows
  <2>4. /\ at'[p] = "idle"
        /\ \A q \in Callers \ {p} : at'[q] = at[q] /\ seen'[q] = seen[q]
        /\ \A q \in Callers : InRotation(q)' => q # p /\ InRotation(q)
    BY <1>1 DEF TokenTypeOK, InRotation
  <2>5. KeptTokenIsLive' /\ RowHoldsLast' /\ GrantNearLast'
    BY <1>1, <2>1, <2>3 DEF KeptTokenIsLive, RowHoldsLast, GrantNearLast
  <2>6. LeaseIsKept'
    BY <1>1, <2>1, <2>4 DEF LeaseIsKept, Leased
  <2>7. DeadWasSettled' /\ AnswersAreNext' /\ HolderKeepsGrant' /\ EvictedLostRow'
    BY <1>1, <2>3, <2>4
       DEF DeadWasSettled, AnswersAreNext, HolderKeepsGrant, EvictedLostRow, InRotation
  <2>8. ViewsAreOrdered'
    BY <1>1, <2>3, <2>4 DEF ViewsAreOrdered, InRotation, Superseded
  <2> QED BY <2>2, <2>5, <2>6, <2>7, <2>8
<1> QED BY <1>2, <1>3

\* The claim takes a row nobody holds: whoever else is in rotation was evicted.
LEMMA ClaimStep ==
  ASSUME TokenInv, NEW p \in Callers, Claim(p)
  PROVE  TokenInv'
<1>1. /\ p \notin evicted
      /\ answer' = answer /\ evicted' = evicted /\ faults' = faults
      /\ UNCHANGED <<selected, grant, pending, last>>
  BY DEF Claim, Untouched, TokenInv, EvictedLostRow, InRotation
<1>2. CASE ~Claimable(p)
  <2>1. /\ at' = [at EXCEPT ![p] = "wait"] /\ seen' = [seen EXCEPT ![p] = NoView]
        /\ evicted' = evicted \ {p} /\ conn' = conn /\ faults' \in 0..MaxFaults
    BY <1>1, <1>2 DEF Claim, GoFree, TokenInv, TokenTypeOK
  <2> QED BY <1>1, <2>1, LeavesRow, ViewOfRow DEF TokenInv
<1>3. CASE Claimable(p)
  <2> USE DEF TokenInv
  <2>1. /\ conn' = [conn EXCEPT !.state = "IN_PROGRESS", !.owner = p, !.lapsed = FALSE]
        /\ at' = [at EXCEPT ![p] = "rotate"] /\ seen' = seen
        /\ conn.state # "IN_PROGRESS" /\ conn.version = seen[p].version
        /\ at[p] = "claim"
    BY <1>3 DEF Claim, Claimable, Go
  <2>2. TokenTypeOK'
    BY <1>1, <2>1, TokenBounds DEF TokenTypeOK, Stages, Rows
  <2>3. /\ conn'.pair = conn.pair /\ conn'.version = conn.version
        /\ conn'.owner = p /\ conn'.state = "IN_PROGRESS"
    BY <2>1 DEF TokenTypeOK, Rows
  <2>4. /\ at'[p] = "rotate"
        /\ \A q \in Callers \ {p} : at'[q] = at[q]
        /\ \A q \in Callers \ {p} : InRotation(q)' => InRotation(q)
        /\ \A q \in Callers : InRotation(q) => q \in evicted /\ q # p
    BY <2>1, OnlyEvicted DEF TokenTypeOK, InRotation
  <2>5. KeptTokenIsLive' /\ RowHoldsLast' /\ GrantNearLast'
    BY <1>1, <2>3 DEF KeptTokenIsLive, RowHoldsLast, GrantNearLast
  <2>6. LeaseIsKept'
    BY <1>1, <2>1, <2>3, <2>4 DEF LeaseIsKept, Leased, InRotation
  <2>7. DeadWasSettled' /\ AnswersAreNext' /\ EvictedLostRow'
    BY <1>1, <2>1, <2>3, <2>4
       DEF DeadWasSettled, AnswersAreNext, EvictedLostRow, InRotation, TokenTypeOK
  <2>8. HolderKeepsGrant'
    <3>1. conn.pair # NoPair => conn.pair = last /\ grant[last.auth] = last.rot
      BY <2>1 DEF RowHoldsLast, KeptTokenIsLive, TokenTypeOK, Rows
    <3> QED BY <1>1, <2>3, <2>4, <3>1 DEF HolderKeepsGrant, InRotation
  <2>9. ViewsAreOrdered'
    BY <1>1, <2>1, <2>3, <2>4 DEF ViewsAreOrdered, InRotation, Superseded
  <2> QED BY <2>2, <2>5, <2>6, <2>7, <2>8, <2>9
<1> QED BY <1>2, <1>3

-----------------------------------------------------------------------------
(* The rotation and its settlement *)

\* TikTok rotates the newest pair of a caller that holds the row, or of one
\* whose pair is no longer on it.
LEMMA AcceptedFacts ==
  ASSUME TokenInv, NEW p \in Callers, at[p] = "rotate", Accepted(p)
  PROVE  /\ seen[p].pair \in Pairs /\ seen[p].pair.auth \notin pending
         /\ grant' \in [Auths -> Nat \cup {-1}]
         /\ \A a \in Auths : a # seen[p].pair.auth => grant'[a] = grant[a]
         /\ \/ /\ seen[p].pair = last
               /\ grant[last.auth] = last.rot /\ grant'[last.auth] = last.rot + 1
               /\ seen[p].version = conn.version
            \/ /\ seen[p].pair.auth # last.auth
               /\ seen[p].version < conn.version
               /\ grant'[last.auth] = grant[last.auth]
<1> USE DEF TokenInv
<1>1. /\ seen[p].pair \in Pairs /\ seen[p].version <= conn.version
      /\ seen[p].version = conn.version => seen[p].pair = last
      /\ seen[p].version < conn.version => Superseded(seen[p].pair)
  BY DEF ViewsAreOrdered, InRotation
<1>2. /\ grant[seen[p].pair.auth] = seen[p].pair.rot
      /\ grant' = [grant EXCEPT ![seen[p].pair.auth] = grant[seen[p].pair.auth] + 1]
  BY DEF Accepted
<1>3. /\ seen[p].pair.auth \in Auths /\ seen[p].pair.rot \in Nat
      /\ last.auth \in Auths /\ last.rot \in Nat
      /\ conn.version \in Nat /\ seen[p].version \in Nat
      /\ grant \in [Auths -> Nat \cup {-1}]
  BY <1>1 DEF Pairs, TokenTypeOK, Rows, Views
<1>4. CASE seen[p].version = conn.version
  BY <1>1, <1>2, <1>3, <1>4 DEF GrantNearLast
<1>5. CASE seen[p].version < conn.version
  <2>1. seen[p].pair.auth # last.auth
    BY <1>1, <1>2, <1>3, <1>5 DEF Superseded, GrantNearLast
  <2> QED BY <1>1, <1>2, <1>3, <1>5, <2>1 DEF Superseded
<1> QED BY <1>1, <1>3, <1>4, <1>5

\* The call: TikTok may rotate, and the caller may hear of it or not.
LEMMA RotateStep ==
  ASSUME TokenInv, NEW p \in Callers, Rotate(p)
  PROVE  TokenInv'
<1> USE DEF TokenInv
<1>1. /\ at[p] = "rotate" /\ seen' = seen
      /\ UNCHANGED <<conn, selected, pending, last, evicted, faults>>
  BY DEF Rotate, Go
<1>2. \/ /\ Accepted(p) /\ at' = [at EXCEPT ![p] = "answered"]
         /\ answer' = [answer EXCEPT ![p] = [seen[p].pair EXCEPT !.rot = @ + 1]]
      \/ /\ grant' = grant /\ answer' = answer
         /\ \/ at' = [at EXCEPT ![p] = "refused"]
            \/ at' = [at EXCEPT ![p] = "uncertain"]
      \/ /\ Accepted(p) /\ answer' = answer /\ at' = [at EXCEPT ![p] = "uncertain"]
  BY DEF Rotate, Go
<1>3. /\ at'[p] \in {"answered", "refused", "uncertain"}
      /\ at' = [at EXCEPT ![p] = at'[p]]
      /\ \A q \in Callers \ {p} : at'[q] = at[q] /\ answer'[q] = answer[q]
      /\ at'[p] = "answered" => /\ Accepted(p)
                                /\ answer'[p] = [seen[p].pair EXCEPT !.rot = @ + 1]
      /\ at'[p] = "refused" => grant' = grant
      /\ InRotation(p)' /\ InRotation(p)
      /\ \A q \in Callers : InRotation(q)' <=> InRotation(q)
  BY <1>1, <1>2 DEF TokenTypeOK, InRotation
<1>4. \/ grant' = grant
      \/ Accepted(p)
  BY <1>2
<1>5. TokenTypeOK'
  <2>1. grant' \in [Auths -> Nat \cup {-1}]
    BY <1>1, <1>4, AcceptedFacts DEF TokenTypeOK
  <2>2. answer' \in [Callers -> Pairs \cup {NoPair}]
    <3>1. [seen[p].pair EXCEPT !.rot = @ + 1] \in Pairs
      BY <1>1, PairFacts DEF ViewsAreOrdered, InRotation
    <3> QED BY <1>2, <3>1 DEF TokenTypeOK
  <2> QED BY <1>1, <1>3, <2>1, <2>2 DEF TokenTypeOK, Stages
<1>6. KeptTokenIsLive'
  <2>1. CASE Accepted(p) /\ conn.pair # NoPair /\ conn.state \in {"IDLE", "FAILED"}
    <3>1. p \in evicted
      BY <1>1, <1>3, <2>1, OnlyEvicted
    <3>2. seen[p].version # conn.version
      BY <3>1, <2>1 DEF EvictedLostRow
    <3>3. conn.pair = last /\ last \in Pairs
      BY <2>1 DEF RowHoldsLast, TokenTypeOK
    <3> QED BY <1>1, <2>1, <3>2, <3>3, AcceptedFacts DEF KeptTokenIsLive
  <2> QED BY <1>1, <1>4, <2>1 DEF KeptTokenIsLive
<1>7. LeaseIsKept' /\ RowHoldsLast' /\ DeadWasSettled'
  BY <1>1, <1>3 DEF LeaseIsKept, Leased, RowHoldsLast, DeadWasSettled
<1>8. GrantNearLast'
  BY <1>1, <1>4, AcceptedFacts DEF GrantNearLast, TokenTypeOK
<1>9. ViewsAreOrdered'
  <2>1. \A a \in Auths : grant[a] # -1 => grant'[a] # -1
    BY <1>1, <1>4, AcceptedFacts DEF TokenTypeOK, ViewsAreOrdered, InRotation, Accepted, Pairs
  <2>2. \A q \in Callers : at'[q] = "claim" \/ InRotation(q)' =>
          at[q] = "claim" \/ InRotation(q)
    BY <1>3
  <2> QED BY <1>1, <2>1, <2>2 DEF ViewsAreOrdered, Superseded, Pairs, InRotation
<1>10. EvictedLostRow'
  BY <1>1, <1>3 DEF EvictedLostRow, TokenTypeOK
<1>11. HolderKeepsGrant'
  <2> SUFFICES ASSUME NEW q \in Callers \ evicted,
                      at'[q] \in {"rotate", "refused"}, conn.pair # NoPair
               PROVE  grant'[last.auth] = last.rot
    BY <1>1 DEF HolderKeepsGrant
  <2>1. at[q] \in {"rotate", "refused"} /\ grant[last.auth] = last.rot
    BY <1>1, <1>3 DEF HolderKeepsGrant
  <2>2. CASE q = p
    <3>1. at'[p] = "refused"
      BY <1>3, <2>2
    <3> QED BY <1>3, <2>1, <3>1
  <2>3. CASE q # p
    <3>1. conn.owner = q /\ conn.state = "IN_PROGRESS"
      BY <2>1 DEF LeaseIsKept, Leased, InRotation
    <3>2. p \in evicted
      BY <3>1, <2>3, <1>3, OnlyEvicted
    <3>3. seen[p].version # conn.version
      BY <3>2 DEF EvictedLostRow
    <3> QED BY <1>1, <1>4, <2>1, <3>3, AcceptedFacts
  <2> QED BY <2>2, <2>3
<1>12. AnswersAreNext'
  <2> SUFFICES ASSUME NEW q \in Callers, at'[q] = "answered"
               PROVE  /\ answer'[q] = [seen[q].pair EXCEPT !.rot = @ + 1]
                      /\ seen[q].version = conn.version =>
                           grant'[last.auth] = last.rot + 1
    BY <1>1 DEF AnswersAreNext
  <2>1. CASE q = p
    <3>1. Accepted(p) /\ answer'[p] = [seen[p].pair EXCEPT !.rot = @ + 1]
      BY <1>3, <2>1
    <3>2. conn.version \in Nat
      BY DEF TokenTypeOK, Rows
    <3>3. seen[p].version = conn.version => grant'[last.auth] = last.rot + 1
      BY <1>1, <3>1, <3>2, AcceptedFacts
    <3> QED BY <2>1, <3>1, <3>3
  <2>2. CASE q # p
    <3>1. /\ answer'[q] = [seen[q].pair EXCEPT !.rot = @ + 1]
          /\ seen[q].version = conn.version => grant[last.auth] = last.rot + 1
      BY <1>3, <2>2 DEF AnswersAreNext
    <3>2. last.rot \in Nat
      BY DEF TokenTypeOK, Pairs
    <3> QED BY <1>1, <1>4, <3>1, <3>2, AcceptedFacts
  <2> QED BY <2>1, <2>2
<1> QED BY <1>5, <1>6, <1>7, <1>8, <1>9, <1>10, <1>11, <1>12

\* A settlement without a new pair: the caller leaves, the lease is released and
\* its holder, if another one, evicted.  The tokens are cleared, or kept by a
\* holder that was refused.
LEMMA Settles ==
  ASSUME TokenInv, NEW p \in Callers,
         at' = [at EXCEPT ![p] = "idle"], seen' = [seen EXCEPT ![p] = NoView],
         evicted' = (evicted \cup {q \in Callers : InRotation(q) /\ q = conn.owner}) \ {p},
         UNCHANGED <<selected, answer, grant, pending, last, faults>>,
         conn' \in Rows, conn'.version = conn.version, conn'.owner = Nobody,
         \/ conn'.state \in {"FAILED", "OUTCOME_UNCERTAIN"} /\ conn'.pair = NoPair
         \/ /\ conn'.state = "FAILED" /\ conn'.pair = conn.pair
            /\ at[p] = "refused" /\ conn.owner = p
  PROVE  TokenInv'
<1> USE DEF TokenInv
<1>1. /\ at'[p] = "idle"
      /\ \A q \in Callers \ {p} : at'[q] = at[q] /\ seen'[q] = seen[q]
      /\ \A q \in Callers : InRotation(q)' => q # p /\ InRotation(q)
      /\ \A q \in Callers \ {p} : InRotation(q) => InRotation(q)'
  BY DEF TokenTypeOK, InRotation
<1>2. TokenTypeOK'
  BY ViewOfRow DEF TokenTypeOK, Stages
<1>3. conn'.pair # NoPair => conn'.pair = last /\ grant[last.auth] = last.rot
  <2>1. CASE conn'.pair = conn.pair /\ at[p] = "refused" /\ conn.owner = p
    BY <2>1 DEF RowHoldsLast, HolderKeepsGrant, EvictedLostRow
  <2> QED BY <2>1
<1>4. KeptTokenIsLive' /\ RowHoldsLast' /\ GrantNearLast'
  <2>1. conn.pair \in {NoPair, last}
    BY DEF RowHoldsLast
  <2> QED BY <1>3, <2>1 DEF KeptTokenIsLive, RowHoldsLast, GrantNearLast
<1>5. \A q \in Callers : InRotation(q)' => q \in evicted'
  BY <1>1 DEF LeaseIsKept, Leased
<1>6. LeaseIsKept' /\ HolderKeepsGrant'
  BY <1>5 DEF LeaseIsKept, HolderKeepsGrant, InRotation
<1>7. DeadWasSettled' /\ AnswersAreNext'
  BY <1>1 DEF DeadWasSettled, AnswersAreNext
<1>8. ViewsAreOrdered'
  BY <1>1 DEF ViewsAreOrdered, Superseded, InRotation
<1>9. EvictedLostRow'
  <2> SUFFICES ASSUME NEW q \in evicted'
               PROVE  /\ InRotation(q)' /\ Nobody # q
                      /\ seen'[q].version = conn.version => conn'.pair = NoPair
    BY DEF EvictedLostRow
  <2>1. q \in Callers \ {p} /\ InRotation(q)
    BY DEF EvictedLostRow, TokenTypeOK
  <2>2. q \in evicted \/ conn'.pair = NoPair
    BY <2>1
  <2> QED BY <1>1, <2>1, <2>2, TokenBounds DEF EvictedLostRow
<1> QED BY <1>2, <1>4, <1>6, <1>7, <1>8, <1>9

\* A caller that settles its own lease evicts nobody.
LEMMA OwnLease ==
  ASSUME TokenInv, NEW p \in Callers, Leased(p, seen[p].version), evicted' = evicted \ {p}
  PROVE  evicted' = (evicted \cup {q \in Callers : InRotation(q) /\ q = conn.owner}) \ {p}
BY DEF Leased

\* Clearing the tokens, or releasing the lease, keeps the row well formed.
LEMMA RowFacts ==
  ASSUME TokenTypeOK
  PROVE  /\ Uncertain(conn) \in Rows
         /\ Uncertain(conn).version = conn.version /\ Uncertain(conn).owner = Nobody
         /\ Uncertain(conn).state = "OUTCOME_UNCERTAIN"
         /\ Uncertain(conn).pair = NoPair
         /\ \A state \in {"IDLE", "FAILED"} :
              /\ Released(conn, state) \in Rows
              /\ Released(conn, state).version = conn.version
              /\ Released(conn, state).owner = Nobody
              /\ Released(conn, state).state = state
              /\ Released(conn, state).pair = conn.pair
BY DEF TokenTypeOK, Rows, Uncertain, Released

\* markRefreshUncertain of a caller's own lease.
LEMMA UncertainStep ==
  ASSUME TokenInv, NEW p \in Callers, MarkUncertain(p)
  PROVE  TokenInv'
<1>1. /\ at' = [at EXCEPT ![p] = "idle"] /\ seen' = [seen EXCEPT ![p] = NoView]
      /\ evicted' = evicted \ {p}
      /\ UNCHANGED <<selected, answer, grant, pending, last, faults>>
  BY DEF MarkUncertain, GoFree, Untouched
<1>2. CASE Leased(p, seen[p].version)
  <2>1. conn' = Uncertain(conn)
    BY <1>2 DEF MarkUncertain
  <2> QED BY <1>1, <1>2, <2>1, OwnLease, RowFacts, Settles DEF TokenInv
<1>3. CASE ~Leased(p, seen[p].version)
  <2>1. conn' = conn /\ faults' \in 0..MaxFaults
    BY <1>1, <1>3 DEF MarkUncertain, TokenInv, TokenTypeOK
  <2> QED BY <1>1, <2>1, LeavesRow, ViewOfRow DEF TokenInv
<1> QED BY <1>2, <1>3

\* A refused holder releases its lease and keeps the tokens.
LEMMA FailedStep ==
  ASSUME TokenInv, NEW p \in Callers, MarkFailed(p)
  PROVE  TokenInv'
<1>1. /\ at[p] = "refused"
      /\ at' = [at EXCEPT ![p] = "idle"] /\ seen' = [seen EXCEPT ![p] = NoView]
      /\ evicted' = evicted \ {p}
      /\ UNCHANGED <<selected, answer, grant, pending, last, faults>>
  BY DEF MarkFailed, GoFree, Untouched
<1>2. CASE Leased(p, seen[p].version)
  <2>1. conn' = [Released(conn, "FAILED") EXCEPT !.healthy = FALSE]
    BY <1>2 DEF MarkFailed
  <2>2. Released(conn, "FAILED") \in Rows
    BY RowFacts DEF TokenInv
  <2>3. /\ conn' \in Rows /\ conn'.version = conn.version /\ conn'.owner = Nobody
        /\ conn'.state = "FAILED" /\ conn'.pair = conn.pair
    BY <2>1, <2>2, RowFacts DEF TokenInv, Rows
  <2> QED BY <1>1, <1>2, <2>3, OwnLease, Settles DEF Leased
<1>3. CASE ~Leased(p, seen[p].version)
  <2>1. conn' = conn /\ faults' \in 0..MaxFaults
    BY <1>1, <1>3 DEF MarkFailed, TokenInv, TokenTypeOK
  <2> QED BY <1>1, <2>1, LeavesRow, ViewOfRow DEF TokenInv
<1> QED BY <1>2, <1>3

\* A lapsed lease is settled by whoever sees it, and its holder evicted.
LEMMA LapsedStep ==
  ASSUME TokenInv, NEW p \in Callers, MarkLapsed(p)
  PROVE  TokenInv'
<1>1. /\ at[p] = "lapsed" /\ p \notin evicted /\ ~InRotation(p)
      /\ seen' = [seen EXCEPT ![p] = NoView]
      /\ UNCHANGED <<selected, answer, grant, pending, last, faults>>
  BY DEF MarkLapsed, GoFree, Untouched, TokenInv, EvictedLostRow, InRotation
<1>2. CASE Leased(seen[p].owner, seen[p].version)
  <2>1. /\ conn' = Uncertain(conn) /\ at' = [at EXCEPT ![p] = "idle"]
        /\ evicted' = (evicted \cup {q \in Callers : InRotation(q) /\ q = conn.owner}) \ {p}
    BY <1>1, <1>2 DEF MarkLapsed, GoFree
  <2> QED BY <1>1, <2>1, RowFacts, Settles DEF TokenInv
<1>3. CASE ~Leased(seen[p].owner, seen[p].version)
  <2>1. /\ at' = [at EXCEPT ![p] = "wait"] /\ conn' = conn /\ evicted' = evicted \ {p}
        /\ faults' \in 0..MaxFaults
    BY <1>1, <1>3 DEF MarkLapsed, GoFree, TokenInv, TokenTypeOK
  <2> QED BY <1>1, <2>1, LeavesRow, ViewOfRow DEF TokenInv
<1> QED BY <1>2, <1>3

-----------------------------------------------------------------------------
(* New tokens *)

\* A new pair under a new version supersedes what everybody has read, and leaves
\* nobody in rotation but evicted callers.
LEMMA NewerPair ==
  ASSUME TokenInv, TokenTypeOK', UNCHANGED grant, pending' \subseteq pending,
         conn'.state = "IDLE", conn'.owner = Nobody, conn'.pair = last',
         conn'.version = conn.version + 1,
         last'.auth \notin pending', grant[last'.auth] = last'.rot,
         \A pair \in Pairs : pair = last \/ Superseded(pair) => Superseded(pair)',
         \A q \in Callers : at'[q] \in {"claim", "dead"} \/ InRotation(q)' =>
           at'[q] = at[q] /\ seen'[q] = seen[q] /\ answer'[q] = answer[q],
         evicted' = {q \in Callers : InRotation(q)'}
  PROVE  TokenInv'
<1> USE DEF TokenInv
<1>1. \A q \in Callers : InRotation(q)' => InRotation(q) /\ q \in evicted'
  BY DEF InRotation
<1>2. conn.version \in Nat /\ last' \in Pairs /\ last \in Pairs
  BY DEF TokenTypeOK, Rows
<1>3. KeptTokenIsLive' /\ RowHoldsLast'
  BY DEF KeptTokenIsLive, RowHoldsLast
<1>4. GrantNearLast'
  BY DEF GrantNearLast
<1>5. LeaseIsKept' /\ HolderKeepsGrant'
  BY <1>1 DEF LeaseIsKept, HolderKeepsGrant, InRotation
<1>6. ViewsAreOrdered'
  <2> SUFFICES ASSUME NEW q \in Callers, at'[q] = "claim" \/ InRotation(q)'
               PROVE  /\ seen[q].pair \in Pairs
                      /\ seen[q].version < conn'.version
                      /\ Superseded(seen[q].pair)'
    BY <1>2 DEF ViewsAreOrdered, TokenTypeOK, Views
  <2>1. /\ seen[q].pair \in Pairs /\ seen[q].version <= conn.version
        /\ seen[q].version = conn.version => seen[q].pair = last
        /\ seen[q].version < conn.version => Superseded(seen[q].pair)
    BY <1>1 DEF ViewsAreOrdered
  <2>2. seen[q].version \in Nat
    BY DEF TokenTypeOK, Views
  <2> QED BY <1>2, <2>1, <2>2
<1>7. DeadWasSettled'
  BY DEF DeadWasSettled
<1>8. EvictedLostRow' /\ AnswersAreNext'
  <2>1. \A q \in Callers : InRotation(q)' => seen'[q].version < conn'.version
    <3> SUFFICES ASSUME NEW q \in Callers, InRotation(q)'
                 PROVE  seen[q].version < conn'.version
      OBVIOUS
    <3>1. seen[q].version <= conn.version /\ seen[q].version \in Nat
      BY <1>1 DEF ViewsAreOrdered, TokenTypeOK, Views
    <3> QED BY <1>2, <3>1
  <2>2. conn'.version \in Nat
    BY <1>2
  <2>3. EvictedLostRow'
    BY <2>1, <2>2, TokenBounds DEF EvictedLostRow, TokenTypeOK, Views
  <2>4. AnswersAreNext'
    <3> SUFFICES ASSUME NEW q \in Callers, at'[q] = "answered"
                 PROVE  /\ answer'[q] = [seen'[q].pair EXCEPT !.rot = @ + 1]
                        /\ seen'[q].version # conn'.version
      BY DEF AnswersAreNext
    <3>1. InRotation(q)' /\ at[q] = "answered"
      BY DEF InRotation
    <3>2. seen'[q].version < conn'.version /\ seen'[q].version \in Nat
      BY <2>1, <3>1 DEF TokenTypeOK, Views
    <3> QED BY <2>2, <3>1, <3>2 DEF AnswersAreNext
  <2> QED BY <2>3, <2>4
<1> QED BY <1>3, <1>4, <1>5, <1>6, <1>7, <1>8

\* What a new pair changes of the row.
LEMMA RenewedFacts ==
  ASSUME TokenTypeOK, NEW ok \in BOOLEAN, NEW pair \in Pairs
  PROVE  /\ Renewed(ok, pair) \in Rows
         /\ Renewed(ok, pair).state = "IDLE" /\ Renewed(ok, pair).owner = Nobody
         /\ Renewed(ok, pair).pair = pair
         /\ Renewed(ok, pair).version = conn.version + 1
<1> DEFINE row == Released(conn, "IDLE")
           new == Renewed(ok, pair)
<1>1. /\ row \in Rows /\ row.version = conn.version
      /\ row.state = "IDLE" /\ row.owner = Nobody
  BY RowFacts
<1>2. new = [row EXCEPT !.healthy = ok, !.pair = pair, !.fresh = TRUE,
                        !.expired = FALSE, !.version = @ + 1]
  BY DEF Renewed
<1> HIDE DEF row, new
<1>3. new = [state |-> row.state, healthy |-> ok, pair |-> pair, fresh |-> TRUE,
             expired |-> FALSE, owner |-> row.owner, lapsed |-> row.lapsed,
             version |-> row.version + 1]
  BY <1>1, <1>2 DEF Rows
<1>4. /\ row.state \in {"IDLE", "IN_PROGRESS", "FAILED", "OUTCOME_UNCERTAIN"}
      /\ row.owner \in Callers \cup {Nobody} /\ row.lapsed \in BOOLEAN
      /\ row.version + 1 \in Nat
  BY <1>1 DEF Rows
<1>5. new \in Rows
  BY <1>3, <1>4 DEF Rows
<1>6. /\ new.state = row.state /\ new.owner = row.owner /\ new.pair = pair
      /\ new.version = row.version + 1
  BY <1>3
<1> QED BY <1>1, <1>5, <1>6 DEF new

\* The callback stores another authorization over whatever the row holds.
LEMMA StoreStep ==
  ASSUME TokenInv, NEW a \in Auths, StoreAuthorization(a)
  PROVE  TokenInv'
<1> USE DEF TokenInv
<1>1. /\ a \in pending /\ pending' = pending \ {a} /\ last' = [auth |-> a, rot |-> 0]
      /\ conn' = Renewed(FALSE, [auth |-> a, rot |-> 0])
      /\ evicted' = evicted \cup {q \in Callers : InRotation(q) /\ q = conn.owner}
      /\ UNCHANGED <<selected, at, seen, answer, grant, faults>>
  BY DEF StoreAuthorization
<1>2. last' \in Pairs /\ last'.auth = a /\ last'.rot = 0
  BY <1>1 DEF Pairs
<1>4. /\ conn' \in Rows /\ conn'.state = "IDLE" /\ conn'.owner = Nobody
      /\ conn'.pair = last' /\ conn'.version = conn.version + 1
  <2>1. conn' = Renewed(FALSE, last') /\ FALSE \in BOOLEAN
    BY <1>1
  <2> QED BY <1>2, <2>1, RenewedFacts
<1>5. TokenTypeOK'
  BY <1>1, <1>2, <1>4 DEF TokenTypeOK
<1>6. grant[a] = 0 /\ a # last.auth
  BY <1>1 DEF GrantNearLast
<1>7. ASSUME NEW pair \in Pairs, pair = last \/ Superseded(pair)
      PROVE  Superseded(pair)'
  <2>1. grant[last.auth] # -1 /\ last.auth \notin pending
    BY DEF GrantNearLast, TokenTypeOK, Pairs
  <2>2. pair.auth # a /\ pair.auth \notin pending /\ grant[pair.auth] # -1
    BY <1>1, <1>6, <1>7, <2>1 DEF Superseded
  <2> QED BY <1>1, <1>2, <2>2 DEF Superseded
<1>8. evicted' = {q \in Callers : InRotation(q)'}
  <2>1. \A q \in Callers : InRotation(q)' <=> InRotation(q)
    BY <1>1 DEF InRotation
  <2>2. \A q \in Callers : InRotation(q) => q \in evicted \/ q = conn.owner
    BY OnlyEvicted
  <2>3. \A q \in evicted : q \in Callers /\ InRotation(q)
    BY DEF EvictedLostRow, TokenTypeOK
  <2> QED BY <1>1, <2>1, <2>2, <2>3
<1>9. /\ last'.auth \notin pending' /\ grant[last'.auth] = last'.rot
      /\ pending' \subseteq pending /\ UNCHANGED grant
  BY <1>1, <1>2, <1>6
<1>10. \A q \in Callers : at'[q] = at[q] /\ seen'[q] = seen[q] /\ answer'[q] = answer[q]
  BY <1>1
<1> QED BY <1>4, <1>5, <1>7, <1>8, <1>9, <1>10, NewerPair

\* The holder's answer follows on the newest pair.
LEMMA PersistFacts ==
  ASSUME TokenInv, NEW p \in Callers, at[p] = "answered", Leased(p, seen[p].version)
  PROVE  /\ answer[p] = [last EXCEPT !.rot = @ + 1] /\ answer[p] \in Pairs
         /\ grant[last.auth] = last.rot + 1
BY PairFacts
   DEF TokenInv, AnswersAreNext, Leased, ViewsAreOrdered, InRotation, TokenTypeOK

\* The holder stores its answer, or finds its lease gone.
LEMMA PersistStep ==
  ASSUME TokenInv, NEW p \in Callers, Persist(p)
  PROVE  TokenInv'
<1> USE DEF TokenInv
<1>1. /\ at[p] = "answered" /\ answer' = [answer EXCEPT ![p] = NoPair]
      /\ UNCHANGED <<selected, grant, pending>>
  BY DEF Persist
<1>2. CASE at' = [at EXCEPT ![p] = "idle"]
  <2>1. /\ Leased(p, seen[p].version) /\ last' = answer[p] /\ evicted' = evicted \ {p}
        /\ seen' = [seen EXCEPT ![p] = NoView] /\ faults' = faults
    BY <1>2 DEF Persist, Go, GoFree, TokenTypeOK
  <2>2. PICK ok \in BOOLEAN : conn' = Renewed(ok, answer[p])
    BY <1>2 DEF Persist, Go, GoFree, TokenTypeOK
  <2>4. /\ last' = [last EXCEPT !.rot = @ + 1] /\ last' \in Pairs
        /\ grant[last.auth] = last.rot + 1
    BY <1>1, <2>1, PersistFacts
  <2>5. last'.auth = last.auth /\ last'.rot = last.rot + 1 /\ last.rot \in Nat
    BY <2>4 DEF TokenTypeOK, Pairs
  <2>6. /\ conn' \in Rows /\ conn'.state = "IDLE" /\ conn'.owner = Nobody
        /\ conn'.pair = last' /\ conn'.version = conn.version + 1
    BY <2>1, <2>2, <2>4, RenewedFacts
  <2>7. TokenTypeOK'
    BY <1>1, <1>2, <2>1, <2>4, <2>6, ViewOfRow DEF TokenTypeOK, Stages
  <2>8. ASSUME NEW pair \in Pairs, pair = last \/ Superseded(pair)
        PROVE  Superseded(pair)'
    BY <1>1, <2>5, <2>8 DEF Superseded, Pairs
  <2>9. /\ at'[p] = "idle"
        /\ \A q \in Callers \ {p} :
             at'[q] = at[q] /\ seen'[q] = seen[q] /\ answer'[q] = answer[q]
    BY <1>1, <1>2, <2>1 DEF TokenTypeOK
  <2>10. evicted' = {q \in Callers : InRotation(q)'}
    <3>1. \A q \in Callers : InRotation(q)' <=> InRotation(q) /\ q # p
      BY <2>9 DEF InRotation
    <3>2. \A q \in Callers \ {p} : InRotation(q) => q \in evicted
      BY <2>1, OnlyEvicted DEF Leased
    <3>3. \A q \in evicted : q \in Callers /\ InRotation(q)
      BY DEF EvictedLostRow, TokenTypeOK
    <3> QED BY <2>1, <3>1, <3>2, <3>3
  <2>11. last'.auth \notin pending' /\ grant[last'.auth] = last'.rot
    BY <1>1, <2>4, <2>5 DEF GrantNearLast
  <2>12. \A q \in Callers : at'[q] \in {"claim", "dead"} \/ InRotation(q)' =>
           at'[q] = at[q] /\ seen'[q] = seen[q] /\ answer'[q] = answer[q]
    BY <2>9 DEF InRotation
  <2> QED BY <1>1, <2>6, <2>7, <2>8, <2>10, <2>11, <2>12, NewerPair
<1>3. CASE at' # [at EXCEPT ![p] = "idle"]
  <2>1. /\ at' = [at EXCEPT ![p] = "uncertain"] /\ seen' = seen
        /\ UNCHANGED <<conn, last>> /\ faults' \in 0..MaxFaults
    <3>1. faults \in 0..MaxFaults
      BY DEF TokenTypeOK
    <3> QED BY <1>3, <3>1, TokenBounds DEF Persist, Go, GoFree
  <2>2. /\ at'[p] = "uncertain"
        /\ \A q \in Callers \ {p} : at'[q] = at[q] /\ answer'[q] = answer[q]
        /\ \A q \in Callers : InRotation(q)' <=> InRotation(q)
    BY <1>1, <2>1 DEF TokenTypeOK, InRotation
  <2>3. evicted' = evicted
    BY <2>2 DEF Persist
  <2>4. TokenTypeOK'
    BY <1>1, <2>1, <2>3 DEF TokenTypeOK, Stages
  <2>5. KeptTokenIsLive' /\ RowHoldsLast' /\ GrantNearLast' /\ LeaseIsKept'
    BY <1>1, <2>1, <2>2, <2>3
       DEF KeptTokenIsLive, RowHoldsLast, GrantNearLast, LeaseIsKept, Leased
  <2>6. DeadWasSettled' /\ AnswersAreNext' /\ HolderKeepsGrant' /\ EvictedLostRow'
    BY <1>1, <2>1, <2>2, <2>3
       DEF DeadWasSettled, AnswersAreNext, HolderKeepsGrant, EvictedLostRow, TokenTypeOK
  <2>7. ViewsAreOrdered'
    <3>1. \A q \in Callers : at'[q] = "claim" \/ InRotation(q)' =>
            at[q] = "claim" \/ InRotation(q)
      BY <2>2
    <3> QED BY <1>1, <2>1, <3>1 DEF ViewsAreOrdered, Superseded
  <2> QED BY <2>4, <2>5, <2>6, <2>7
<1> QED BY <1>2, <1>3

-----------------------------------------------------------------------------
(* The operator, the seller and time *)

\* The seller approves a new authorization; nobody has seen a pair of it.
LEMMA ExchangeStep ==
  ASSUME TokenInv, Exchange
  PROVE  TokenInv'
<1> USE DEF TokenInv
<1>1. PICK a \in Auths : /\ grant[a] = -1 /\ grant' = [grant EXCEPT ![a] = 0]
                         /\ pending' = pending \cup {a}
  BY DEF Exchange
<1>2. UNCHANGED <<conn, at, seen, answer, last, evicted, faults>> /\ selected' = FALSE
  BY DEF Exchange
<1>3. last.auth # a /\ last.auth \in Auths /\ conn.pair \in {NoPair, last}
  BY <1>1 DEF GrantNearLast, TokenTypeOK, Pairs, RowHoldsLast
<1>4. TokenTypeOK'
  BY <1>1, <1>2 DEF TokenTypeOK
<1>5. grant'[last.auth] = grant[last.auth] /\ grant'[a] = 0
      /\ \A b \in Auths : b # a => grant'[b] = grant[b]
  BY <1>1, <1>3 DEF TokenTypeOK
<1>6. KeptTokenIsLive' /\ RowHoldsLast' /\ GrantNearLast'
  BY <1>1, <1>2, <1>3, <1>5
     DEF KeptTokenIsLive, RowHoldsLast, GrantNearLast, TokenTypeOK
<1>7. LeaseIsKept' /\ DeadWasSettled' /\ EvictedLostRow' /\ HolderKeepsGrant' /\ AnswersAreNext'
  BY <1>2, <1>5
     DEF LeaseIsKept, Leased, DeadWasSettled, EvictedLostRow, HolderKeepsGrant,
         AnswersAreNext, InRotation
<1>8. ViewsAreOrdered'
  <2>1. ASSUME NEW pair \in Pairs, Superseded(pair)
        PROVE  Superseded(pair)'
    BY <1>1, <1>2, <1>5, <2>1 DEF Superseded, Pairs
  <2> QED BY <1>2, <2>1 DEF ViewsAreOrdered, InRotation
<1> QED BY <1>4, <1>6, <1>7, <1>8

\* What the token pair, the version, the holder and the state of the row do not
\* depend on: selecting the shop, ageing, a lapsing lease, a flow that dies.
LEMMA AgesRow ==
  ASSUME TokenInv, SelectShop \/ TokenAges \/ LeaseLapses \/ (\E a \in Auths : FlowDies(a))
  PROVE  TokenInv'
<1> USE DEF TokenInv
<1>1. UNCHANGED <<at, seen, answer, grant, last, evicted>> /\ pending' \subseteq pending
  BY DEF SelectShop, TokenAges, LeaseLapses, FlowDies, Untouched
<1>2. conn' \in Rows /\ conn'.state = conn.state /\ conn'.pair = conn.pair
      /\ conn'.owner = conn.owner /\ conn'.version = conn.version
  BY DEF SelectShop, TokenAges, LeaseLapses, FlowDies, TokenTypeOK, Rows
<1>3. selected' \in BOOLEAN /\ faults' \in 0..MaxFaults
  <2>1. selected \in BOOLEAN /\ faults \in 0..MaxFaults
    BY DEF TokenTypeOK
  <2>2. CASE SelectShop \/ TokenAges \/ LeaseLapses
    BY <2>1, <2>2 DEF SelectShop, TokenAges, LeaseLapses, Untouched
  <2>3. CASE \E a \in Auths : FlowDies(a)
    BY <2>1, <2>3, TokenBounds DEF FlowDies
  <2> QED BY <2>2, <2>3
<1>4. TokenTypeOK'
  BY <1>1, <1>2, <1>3 DEF TokenTypeOK
<1>5. KeptTokenIsLive' /\ RowHoldsLast' /\ GrantNearLast'
  BY <1>1, <1>2 DEF KeptTokenIsLive, RowHoldsLast, GrantNearLast
<1>6. LeaseIsKept' /\ DeadWasSettled' /\ EvictedLostRow' /\ HolderKeepsGrant' /\ AnswersAreNext'
  BY <1>1, <1>2
     DEF LeaseIsKept, Leased, DeadWasSettled, EvictedLostRow, HolderKeepsGrant,
         AnswersAreNext, InRotation
<1>7. ViewsAreOrdered'
  BY <1>1, <1>2 DEF ViewsAreOrdered, InRotation, Superseded
<1> QED BY <1>4, <1>5, <1>6, <1>7

-----------------------------------------------------------------------------
(* The invariant and what follows from it *)

\* Every step preserves the invariant.
LEMMA NextInv == TokenInv /\ [TokenNext]_tokenVars => TokenInv'
<1> SUFFICES ASSUME TokenInv, [TokenNext]_tokenVars PROVE TokenInv'
  OBVIOUS
<1>1. ASSUME NEW p \in Callers, ValidAccessToken(p) \/ Sweep(p) \/ ManualRefresh(p)
      PROVE  TokenInv'
  BY <1>1, AskStep
<1>2. ASSUME NEW p \in Callers, CallerStep(p)
      PROVE  TokenInv'
  BY <1>2, ReadStep, GiveUpStep, ClaimStep, RotateStep, PersistStep, UncertainStep,
     FailedStep, PollStep, LapsedStep DEF CallerStep
<1>3. ASSUME NEW p \in Callers, CallerDies(p)
      PROVE  TokenInv'
  BY <1>3, DeathStep
<1>4. ASSUME NEW a \in Auths, StoreAuthorization(a) \/ FlowDies(a)
      PROVE  TokenInv'
  BY <1>4, StoreStep, AgesRow
<1>5. CASE Exchange \/ SelectShop \/ TokenAges \/ LeaseLapses
  BY <1>5, ExchangeStep, AgesRow
<1>6. CASE UNCHANGED tokenVars
  BY <1>6
     DEF tokenVars, TokenInv, TokenTypeOK, KeptTokenIsLive, LeaseIsKept, Leased,
         RowHoldsLast, GrantNearLast, DeadWasSettled, ViewsAreOrdered, Superseded,
         EvictedLostRow, HolderKeepsGrant, AnswersAreNext, InRotation
<1> QED BY <1>1, <1>2, <1>3, <1>4, <1>5, <1>6 DEF TokenNext

\* The invariant holds in every reachable state.
LEMMA TokenInvariant == TokenSpec => []TokenInv
<1> QED BY InitInv, NextInv, PTL DEF TokenSpec

\* The connection row, its lease and every caller's view of it are well typed,
\* and the lease columns are set exactly while a refresh is in progress.
THEOREM ConnectionTyped == TokenSpec => []TokenTypeOK
<1>1. TokenInv => TokenTypeOK
  BY DEF TokenInv
<1> QED BY <1>1, TokenInvariant, PTL

\* The refresh token on a row that is not in progress is the one TikTok accepts,
\* after any number of rotations, lost answers, failed stores and
\* authorizations, for any number of racing callers (refreshToken).
THEOREM KeptTokenStaysLive == TokenSpec => []KeptTokenIsLive
<1>1. TokenInv => KeptTokenIsLive
  BY DEF TokenInv
<1> QED BY <1>1, TokenInvariant, PTL

\* From its claim to its settlement a caller holds the row, unless its lease was
\* settled by another as lapsed or by a new authorization (refreshToken).
THEOREM ClaimedLeaseIsKept == TokenSpec => []LeaseIsKept
<1>1. TokenInv => LeaseIsKept
  BY DEF TokenInv
<1> QED BY <1>1, TokenInvariant, PTL

\* What a step stores over the tokens of the row.
LEMMA StepFollowsOn ==
  ASSUME TokenInv, [TokenNext]_tokenVars, conn'.pair \notin {conn.pair, NoPair}
  PROVE  \/ conn'.pair.rot = 0 /\ conn'.pair # last
         \/ conn'.pair.auth = last.auth /\ conn'.pair.rot = last.rot + 1
<1> USE DEF TokenInv
<1>1. ASSUME NEW p \in Callers, Persist(p)
      PROVE  conn'.pair.auth = last.auth /\ conn'.pair.rot = last.rot + 1
  <2>1. at[p] = "answered" /\ Leased(p, seen[p].version)
    BY <1>1 DEF Persist
  <2>2. answer[p] \in Pairs /\ answer[p] = [last EXCEPT !.rot = @ + 1]
    BY <2>1, PersistFacts
  <2>3. conn'.pair = answer[p]
    BY <1>1, <2>2, RenewedFacts DEF Persist
  <2> QED BY <2>2, <2>3 DEF TokenTypeOK, Pairs
<1>2. ASSUME NEW a \in Auths, StoreAuthorization(a)
      PROVE  conn'.pair.rot = 0 /\ conn'.pair # last
  <2>1. [auth |-> a, rot |-> 0] \in Pairs /\ FALSE \in BOOLEAN
    BY DEF Pairs
  <2>2. conn'.pair = [auth |-> a, rot |-> 0] /\ a \in pending
    BY <1>2, <2>1, RenewedFacts DEF StoreAuthorization
  <2> QED BY <2>2 DEF GrantNearLast
<1>3. ASSUME NEW p \in Callers,
             \/ MarkUncertain(p) \/ MarkFailed(p) \/ MarkLapsed(p)
             \/ GiveUpDeadToken(p) \/ Claim(p)
      PROVE  FALSE
  <2>1. conn'.pair \in {conn.pair, NoPair}
    BY <1>3, RowFacts
       DEF MarkUncertain, MarkFailed, MarkLapsed, GiveUpDeadToken, Claim,
           TokenTypeOK, Rows, Released
  <2> QED BY <2>1
<1>4. ASSUME \/ SelectShop \/ TokenAges \/ LeaseLapses
             \/ UNCHANGED conn
      PROVE  FALSE
  <2>1. conn'.pair = conn.pair
    BY <1>4 DEF SelectShop, TokenAges, LeaseLapses, TokenTypeOK, Rows
  <2> QED BY <2>1
<1> QED
  BY <1>1, <1>2, <1>3, <1>4
     DEF TokenNext, CallerStep, tokenVars, ValidAccessToken, Sweep, ManualRefresh,
         ReadConnection, Rotate, Poll, CallerDies, Exchange, FlowDies

\* Stored tokens only ever change to a new authorization's or to the rotation of
\* the newest pair: a refresh that was overtaken never puts its tokens over
\* newer ones (callback and refreshToken).
THEOREM RotationsAlwaysFollowOn == TokenSpec => RotationsFollowOn
<1>1. TokenInv /\ [TokenNext]_tokenVars =>
        [conn'.pair \notin {conn.pair, NoPair} =>
           \/ conn'.pair.rot = 0 /\ conn'.pair # last
           \/ /\ conn'.pair.auth = last.auth
              /\ conn'.pair.rot = last.rot + 1]_tokenVars
  BY StepFollowsOn
<1> QED BY <1>1, TokenInvariant, PTL DEF TokenSpec, RotationsFollowOn
=============================================================================
