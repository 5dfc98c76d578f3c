--------------------------- MODULE CampaignPreview ---------------------------
(***************************************************************************)
(* A campaign before its messages are dispatched                           *)
(* (apps/api/src/outreach/outreach.service.ts, local-preview.ts and        *)
(* campaign-naming.ts): it is created or cloned, its preview is built from *)
(* the creator database, and Send freezes and queues it.  Requests of the  *)
(* API interleave with each other, with the sweep that expires frozen      *)
(* campaigns and with whatever else writes contact states.  From QUEUED on *)
(* the campaign belongs to module Dispatch.                                *)
(*                                                                         *)
(* One step is what a request does up to its next await that matters: it   *)
(* takes advisory locks, reads, or commits.  The reads of a preview see    *)
(* one instant, and the retries of a failed request are new requests.      *)
(*                                                                         *)
(* The variant of an operator with a qualifier, defined just before it, is *)
(* a faulty one that no action uses and that the properties must reject.   *)
(***************************************************************************)
EXTENDS DomainRules

CONSTANTS Requests,    \* requests in progress
          Free,        \* no request, no campaign, no name
          Campaigns,   \* bound: campaigns that are ever created
          Submissions, \* idempotency digests of clone requests
          Markets,     \* what creators and filters a behaviour may have
          Metrics,     \* metrics over which the ranking is checked
          Targets,     \* target counts an operator asks for
          Ceiling,     \* maxRecipientsPerCampaign
          Marks,       \* the flags that contacts acquire
          Operated,    \* bound: campaigns on which operators act
          Contacted,   \* bound: creators whose contact state changes
          MaxVersion   \* bound: version of a campaign

ASSUME PreviewBounds ==
  /\ Free \notin Requests \cup Campaigns /\ Free \notin Submissions
  /\ Campaigns # {}
  /\ Markets \subseteq [value : [Creators -> Nat \cup {Missing}],
                        least : Nat \cup {Missing}, direction : Directions]
  /\ Metrics \subseteq Nat
  /\ Targets \subseteq Int /\ Ceiling \in Nat \ {0}
  /\ Operated \subseteq Campaigns /\ Marks \subseteq Flags
  /\ Contacted \subseteq Creators /\ MaxVersion \in Nat

VARIABLES campaign,  \* the Campaign rows
          row,       \* the state of each CampaignRecipient row
          reserved,  \* the campaign that reserves a creator, or Free
          clones,    \* CAMPAIGN_CLONED_FROM_PREVIEW audit events
          flags,     \* contact states of the creators
          market,    \* the creator database and the filters
          nameLock, cloneLock, \* who holds the advisory locks
          at, held   \* where a request stands and what it has read

previewVars == <<campaign, row, reserved, clones, flags, market, nameLock,
                 cloneLock, at, held>>

States == {"NONE", "DRAFT", "PREVIEW_READY", "PREVIEW_EXPIRED", "FROZEN",
           "QUEUED", "CANCELLED"}
Row == [state : States, version : Nat, target : Nat, name : Nat,
        lapsed : BOOLEAN] \* freezeExpiresAt has passed

\* A row that was selected keeps the selected flag until the freeze excludes it
\* or the preview is built anew.
RowStates == {"NONE", "DISCOVERED", "ELIGIBLE", "SELECTED", "RESERVED", "QUEUED",
              "CANCELLED"}
Selected(c) == {k \in Creators :
                  row[c][k] \in {"SELECTED", "RESERVED", "QUEUED", "CANCELLED"}}

NoCampaign == [state |-> "NONE", version |-> 1, target |-> 1, name |-> 0,
               lapsed |-> FALSE]
NoRows == [k \in Creators |-> "NONE"]
View == [value |-> market.value, least |-> market.least,
         direction |-> market.direction, flags |-> flags,
         reserved |-> {k \in Creators : reserved[k] # Free
                         /\ ~campaign[reserved[k]].lapsed}]

Nothing == [c |-> Free, version |-> 0, target |-> 0, name |-> 0,
            digest |-> Free, locked |-> {}, view |-> Free]

PreviewTypeOK ==
  /\ campaign \in [Campaigns -> Row]
  /\ row \in [Campaigns -> [Creators -> RowStates]]
  /\ reserved \in [Creators -> Campaigns \cup {Free}]
  /\ clones \subseteq Submissions \X Campaigns
  /\ flags \in [Creators -> SUBSET Flags]
  /\ nameLock \in Requests \cup {Free}
  /\ cloneLock \in [Submissions -> Requests \cup {Free}]
  /\ at \in [Requests -> {"idle", "allocate", "create", "read", "rebuild",
              "cloneLock", "lock", "freeze", "write", "requeue", "queue",
              "cancel"}]
  /\ \A c \in Campaigns :
       /\ campaign[c].target \in 1..Ceiling
       /\ campaign[c].lapsed => campaign[c].state = "FROZEN"

PreviewInit ==
  /\ campaign = [c \in Campaigns |-> NoCampaign]
  /\ row = [c \in Campaigns |-> NoRows]
  /\ reserved = [k \in Creators |-> Free]
  /\ clones = {}
  /\ flags = [k \in Creators |-> {}]
  /\ market \in Markets
  /\ nameLock = Free /\ cloneLock = [d \in Submissions |-> Free]
  /\ at = [r \in Requests |-> "idle"]
  /\ held = [r \in Requests |-> Nothing]

Rows == <<campaign, row, reserved, clones, flags>>
Locks == <<nameLock, cloneLock>>
-----------------------------------------------------------------------------
(* Helpers *)

Go(r, stage, holding) ==
  /\ at' = [at EXCEPT ![r] = stage]
  /\ held' = [held EXCEPT ![r] = holding]

\* The request ends, and with its transaction its advisory locks.
Unlocked(lock, r) == IF lock = r THEN Free ELSE lock
End(r) ==
  /\ Go(r, "idle", Nothing)
  /\ nameLock' = Unlocked(nameLock, r)
  /\ cloneLock' = [d \in Submissions |-> Unlocked(cloneLock[d], r)]

Moved(c, state) ==
  [campaign EXCEPT ![c] = [state |-> state, version |-> @.version + 1,
                           target |-> @.target, name |-> @.name,
                           lapsed |-> FALSE]]

\* outreachReservation.deleteMany of the recipients of c, or the cascade of a
\* recipient's deletion
Releasing(c) == [k \in Creators |-> IF reserved[k] = c THEN Free ELSE reserved[k]]

-----------------------------------------------------------------------------
(* Creating and cloning *)

\* create: an operator asks for a campaign with a target; a target outside the
\* limit is refused.
Create(r) ==
  /\ at[r] = "idle"
  /\ \E target \in Targets :
       /\ WithinLimit(target, Ceiling)
       /\ Go(r, "allocate", [Nothing EXCEPT !.target = target])
  /\ UNCHANGED <<Rows, market, Locks>>

\* cloneFromPreview: the source is read before the transaction.
CloneFromPreview(r) ==
  /\ at[r] = "idle"
  /\ \E c \in Campaigns, target \in Targets, digest \in Submissions :
       /\ campaign[c].state = "PREVIEW_READY"
       /\ WithinLimit(target, Ceiling)
       /\ Go(r, "cloneLock", [Nothing EXCEPT !.target = target,
                                             !.digest = digest])
  /\ UNCHANGED <<Rows, market, Locks>>

\* The transaction takes the lock of the submission and looks for a campaign it
\* has made before.
SubmissionLockSkipped(r) == TRUE
SubmissionLock(r) == cloneLock[held[r].digest] = Free
LockSubmission(r) ==
  /\ at[r] = "cloneLock"
  /\ SubmissionLock(r)
  /\ IF \E c \in Campaigns : <<held[r].digest, c>> \in clones
     THEN End(r)
     ELSE /\ cloneLock' = [cloneLock EXCEPT ![held[r].digest] = r]
          /\ Go(r, "allocate", held[r])
          /\ UNCHANGED nameLock
  /\ UNCHANGED <<Rows, market>>

\* allocateCampaignName: the highest number of the day plus one, read under the
\* lock of the day.
NameLockSkipped(r) == TRUE
NameLock(r) == nameLock = Free
HighestName == CHOOSE n \in {campaign[c].name : c \in Campaigns} :
                 \A c \in Campaigns : campaign[c].name <= n
AllocateCampaignName(r) ==
  /\ at[r] = "allocate"
  /\ NameLock(r)
  /\ nameLock' = r
  /\ Go(r, "create", [held[r] EXCEPT !.name = HighestName + 1,
                        !.view = IF held[r].digest = Free THEN Free ELSE View])
  /\ UNCHANGED <<Rows, market, cloneLock>>

\* The rows a preview writes.
PreviewRows(v, target) ==
  LET chosen == BuildPreview(v, target)
  IN [k \in Creators |-> IF k \in chosen THEN "SELECTED"
                         ELSE IF k \in Eligible(v) THEN "ELIGIBLE"
                         ELSE "DISCOVERED"]

\* The row inserted, and what rebuildLocalPreview makes of the clone in the same
\* transaction.
NewCampaign(r, state, version) ==
  [state |-> state, version |-> version, target |-> held[r].target,
   name |-> held[r].name, lapsed |-> FALSE]
RebuildLocalPreview(c, r) ==
  /\ campaign' = [campaign EXCEPT ![c] = NewCampaign(r, "PREVIEW_READY", 2)]
  /\ row' = [row EXCEPT ![c] = PreviewRows(held[r].view, held[r].target)]

\* The transaction commits: a new draft, or a clone with its preview.
CommitCampaign(r) ==
  /\ at[r] = "create"
  /\ \E c \in Campaigns :
       /\ campaign[c].state = "NONE"
       /\ \A d \in Campaigns : campaign[d].state = "NONE" => c <= d
       /\ \/ /\ held[r].digest = Free
             /\ campaign' = [campaign EXCEPT ![c] = NewCampaign(r, "DRAFT", 1)]
             /\ UNCHANGED <<row, clones>>
          \/ /\ held[r].digest # Free
             /\ RebuildLocalPreview(c, r)
             /\ clones' = clones \cup {<<held[r].digest, c>>}
  /\ End(r)
  /\ UNCHANGED <<reserved, flags, market>>

-----------------------------------------------------------------------------
(* The preview *)

\* discover: a campaign with a complete preview is returned as it is.
Discover(r) ==
  /\ at[r] = "idle"
  /\ \E c \in Operated :
       /\ campaign[c].state \in {"DRAFT", "PREVIEW_EXPIRED"}
       /\ campaign[c].version + 2 <= MaxVersion
       /\ Go(r, "read", [Nothing EXCEPT !.c = c, !.target = campaign[c].target])
  /\ UNCHANGED <<Rows, market, Locks>>

\* rebuildFromCreatorDatabase reads creators, contacts and reservations,
ReadCreatorDatabase(r) ==
  /\ at[r] = "read"
  /\ Go(r, "rebuild", [held[r] EXCEPT !.view = View])
  /\ UNCHANGED <<Rows, market, Locks>>

\* and replaces the recipients and what hangs on them, whatever has become of
\* the campaign meanwhile.
Rebuild(r) ==
  LET c == held[r].c
  IN /\ at[r] = "rebuild"
     /\ row' = [row EXCEPT ![c] = PreviewRows(held[r].view, held[r].target)]
     /\ reserved' = Releasing(c)
     /\ campaign' = [Moved(c, "PREVIEW_READY") EXCEPT
                       ![c].version = campaign[c].version + 2]
     /\ End(r)
     /\ UNCHANGED <<clones, flags, market>>

-----------------------------------------------------------------------------
(* Sending *)

\* send, with the version the operator sees.
Send(r) ==
  /\ at[r] = "idle"
  /\ \E c \in Operated :
       /\ campaign[c].state \in {"PREVIEW_READY", "FROZEN"} /\ ~campaign[c].lapsed
       /\ campaign[c].version + 2 <= MaxVersion
       /\ Go(r, IF campaign[c].state = "FROZEN" THEN "queue" ELSE "lock",
             [Nothing EXCEPT !.c = c, !.version = campaign[c].version])
  /\ UNCHANGED <<Rows, market, Locks>>

\* freeze takes the eligibility locks of the creators selected.
CreatorsLocked == UNION {held[q].locked : q \in Requests}
LockEligibility(r) ==
  /\ at[r] = "lock"
  /\ IF Selected(held[r].c) = {} THEN End(r)
     ELSE /\ CreatorsLocked \cap Selected(held[r].c) = {}
          /\ Go(r, "freeze", [held[r] EXCEPT !.locked = Selected(held[r].c)])
          /\ UNCHANGED Locks
  /\ UNCHANGED <<Rows, market>>

\* Under the locks the campaign is read again; if it is stale, but frozen by
\* another Send, this Send goes on.
Fresh(c, version) ==
  campaign[c].state = "PREVIEW_READY" /\ campaign[c].version = version
CheckPreview(r) ==
  LET c == held[r].c
  IN /\ at[r] = "freeze"
     /\ IF Fresh(c, held[r].version)
        THEN Go(r, "write", held[r]) /\ UNCHANGED Locks
        ELSE IF campaign[c].state = "FROZEN"
        THEN Go(r, "requeue", [held[r] EXCEPT !.locked = {}]) /\ UNCHANGED Locks
        ELSE End(r)
     /\ UNCHANGED <<Rows, market>>

\* Creators who became ineligible since the preview are excluded, the others
\* reserved.
StillEligible(c) ==
  {k \in Selected(c) : flags[k] = {} /\
     (reserved[k] # Free => campaign[reserved[k]].lapsed)}
Freeze(r) ==
  LET c == held[r].c
      kept == StillEligible(c)
      freed == [k \in Creators |->
                  IF reserved[k] # Free /\ campaign[reserved[k]].lapsed
                  THEN Free ELSE reserved[k]]
  IN /\ at[r] = "write"
     /\ row' = [row EXCEPT ![c] = [k \in Creators |->
                  IF k \in kept THEN "RESERVED"
                  ELSE IF k \in Selected(c) THEN "DISCOVERED" ELSE row[c][k]]]
     /\ reserved' = [k \in Creators |->
                       IF k \in kept THEN c
                       ELSE IF kept = {} /\ freed[k] = c THEN Free ELSE freed[k]]
     /\ campaign' = Moved(c, IF kept = {} THEN "PREVIEW_EXPIRED" ELSE "FROZEN")
     /\ IF kept = {} THEN End(r)
        ELSE /\ Go(r, "requeue", [held[r] EXCEPT !.locked = {}])
             /\ UNCHANGED Locks
     /\ UNCHANGED <<clones, flags, market>>

\* send reads the version it goes on with; queueFrozen checks it before
RereadFrozen(r) ==
  /\ at[r] = "requeue"
  /\ IF campaign[held[r].c].state = "FROZEN" /\ ~campaign[held[r].c].lapsed
     THEN /\ Go(r, "queue", [held[r] EXCEPT
                               !.version = campaign[held[r].c].version])
          /\ UNCHANGED Locks
     ELSE End(r)
  /\ UNCHANGED <<Rows, market>>

\* and in its transaction.  The reservations are pinned.
QueueFrozen(r) ==
  LET c == held[r].c
      queued == {k \in Creators : row[c][k] = "RESERVED"}
  IN /\ at[r] = "queue"
     /\ IF /\ campaign[c].state = "FROZEN"
           /\ campaign[c].version = held[r].version
           /\ queued # {}
        THEN /\ campaign' = Moved(c, "QUEUED")
             /\ row' = [row EXCEPT ![c] = [k \in Creators |->
                          IF k \in queued THEN "QUEUED" ELSE row[c][k]]]
        ELSE UNCHANGED <<campaign, row>>
     /\ End(r)
     /\ UNCHANGED <<reserved, clones, flags, market>>

-----------------------------------------------------------------------------
(* Expiry, cancellation, contacts and failures *)

\* Half an hour after the freeze
FreezeLapses ==
  /\ \E c \in Campaigns :
       /\ campaign[c].state = "FROZEN" /\ ~campaign[c].lapsed
       /\ campaign' = [campaign EXCEPT ![c].lapsed = TRUE]
  /\ UNCHANGED <<row, reserved, clones, flags, market, Locks, at, held>>

\* the next sweep releases the creators.
ExpiredKeepsReservations(c) == reserved
ExpiredReservations(c) == Releasing(c)
ExpireFrozenCampaigns ==
  /\ \E c \in Campaigns :
       /\ campaign[c].lapsed
       /\ campaign' = Moved(c, "PREVIEW_EXPIRED")
       /\ reserved' = ExpiredReservations(c)
       /\ row' = [row EXCEPT ![c] = [k \in Creators |->
                    IF row[c][k] = "RESERVED" THEN "SELECTED" ELSE row[c][k]]]
  /\ UNCHANGED <<clones, flags, market, Locks, at, held>>

\* cancel reads the state, and cancels in a transaction what is unsent by then.
CancelRead(r) ==
  /\ at[r] = "idle"
  /\ \E c \in Operated :
       /\ campaign[c].state \in {"FROZEN", "QUEUED"}
       /\ Go(r, "cancel", [Nothing EXCEPT !.c = c])
  /\ UNCHANGED <<Rows, market, Locks>>

Cancel(r) ==
  LET c == held[r].c
      unsent == {k \in Creators : row[c][k] \in {"RESERVED", "QUEUED"}}
  IN /\ at[r] = "cancel"
     /\ row' = [row EXCEPT ![c] = [k \in Creators |->
                  IF k \in unsent THEN "CANCELLED" ELSE row[c][k]]]
     /\ reserved' = [k \in Creators |->
                       IF k \in unsent /\ reserved[k] = c THEN Free
                       ELSE reserved[k]]
     /\ campaign' = Moved(c, "CANCELLED")
     /\ End(r)
     /\ UNCHANGED <<clones, flags, market>>

\* A delivery, the history import or an operator marks a creator.
ContactChanges ==
  /\ \E k \in Contacted, f \in Marks :
       flags[k] = {} /\ flags' = [flags EXCEPT ![k] = {f}]
  /\ UNCHANGED <<campaign, row, reserved, clones, market, Locks, at, held>>

\* A request fails before it commits: a constraint, a timeout, a dead API.
RequestFails(r) ==
  /\ at[r] # "idle"
  /\ End(r)
  /\ UNCHANGED <<Rows, market>>

RequestStep(r) ==
  \/ LockSubmission(r) \/ AllocateCampaignName(r) \/ CommitCampaign(r)
  \/ ReadCreatorDatabase(r) \/ Rebuild(r) \/ LockEligibility(r)
  \/ CheckPreview(r) \/ Freeze(r) \/ RereadFrozen(r) \/ QueueFrozen(r)
  \/ Cancel(r)

PreviewNext ==
  \/ \E r \in Requests :
       \/ Create(r) \/ CloneFromPreview(r) \/ Discover(r) \/ Send(r)
       \/ CancelRead(r) \/ RequestStep(r) \/ RequestFails(r)
  \/ FreezeLapses \/ ExpireFrozenCampaigns \/ ContactChanges

PreviewSpec == PreviewInit /\ [][PreviewNext]_previewVars
-----------------------------------------------------------------------------
(* Properties *)

\* Two campaigns of a day never get the same name, created or cloned at the same
\* time (campaign-naming.ts:21): the column is not unique.
NamesAreUnique ==
  \A c, d \in Campaigns :
    c # d /\ campaign[c].state # "NONE" /\ campaign[d].state # "NONE"
      => campaign[c].name # campaign[d].name

\* A clone request that is submitted twice makes one campaign
\* (outreach.service.ts:290-300).
CloneOnce ==
  \A e, f \in clones : e[1] = f[1] => e = f

\* What buildPreview selects is a best choice for every view of the creators:
\* with ties, with missing metrics that are filtered or ranked, in both
\* directions, and for targets up to beyond all that are eligible.
Samples == [value : [Creators -> Metrics \cup {Missing}],
            least : Metrics \cup {Missing}, direction : Directions,
            flags : [Creators -> {{}} \cup {{f} : f \in Marks}],
            reserved : SUBSET Creators]
EverySelectionIsBest ==
  \A v \in Samples, requested \in 0..(Cardinality(Creators) + 1) :
    BestSelection(BuildPreview(v, requested), v, requested)

\* A preview that is written selects a best choice among the creators as the
\* request that writes it has read them: by the metric in the direction asked
\* for, a missing one below all others, and then by Open ID; and it does so
\* whatever there is to read (packages/domain/src/index.ts:247-251).
PreviewIsBest ==
  [][\A c \in Campaigns :
       campaign[c]' # campaign[c] /\ campaign[c].state' = "PREVIEW_READY" =>
         /\ EverySelectionIsBest
         /\ \E r \in Requests :
              /\ at[r] # "idle" /\ at[r]' = "idle" /\ held[r].view # Free
              /\ BestSelection(Selected(c)', held[r].view,
                               campaign[c].target')]_previewVars

\* A creator is reserved only by a campaign that is frozen or queued with him,
\* and while a freeze lasts each of its creators is reserved for it: no creator
\* is blocked by a preview that expired, was cancelled or was built anew
\* (docs/architecture.md:35).
ReservationsAreOwned ==
  /\ \A k \in Creators : reserved[k] # Free =>
       /\ campaign[reserved[k]].state \in {"FROZEN", "QUEUED"}
       /\ row[reserved[k]][k] \in {"RESERVED", "QUEUED"}
  /\ \A c \in Campaigns : campaign[c].state = "FROZEN" /\ ~campaign[c].lapsed =>
       \A k \in Creators : row[c][k] = "RESERVED" => reserved[k] = c
=============================================================================
