------------------------ MODULE CampaignPreviewProofs ------------------------
(***************************************************************************)
(* Proofs about CampaignPreview: campaigns, recipients and requests stay   *)
(* well formed, names stay unique, a submission makes one clone and a      *)
(* reservation is held by a campaign that needs it.                        *)
(***************************************************************************)
EXTENDS CampaignPreview, TLAPS

-----------------------------------------------------------------------------
(* The inductive invariant *)

Stages == {"idle", "allocate", "create", "read", "rebuild", "cloneLock", "lock",
           "freeze", "write", "requeue", "queue", "cancel"}

Holding == [c : Campaigns \cup {Free}, version : Nat, target : Nat, name : Nat,
            digest : Submissions \cup {Free}, locked : SUBSET Creators,
            view : Views \cup {Free}]

\* What a request on its way holds: the target it was given, within the limit,
\* the submission of a clone, or the campaign it is about, which exists.
HoldingsOK ==
  /\ market \in Markets
  /\ held \in [Requests -> Holding]
  /\ \A r \in Requests :
       /\ at[r] \in {"allocate", "create", "cloneLock", "read", "rebuild"} =>
            held[r].target \in 1..Ceiling
       /\ at[r] = "cloneLock" => held[r].digest # Free
       /\ at[r] \in {"read", "rebuild", "lock", "freeze", "write", "requeue",
                     "queue", "cancel"} =>
            held[r].c # Free /\ campaign[held[r].c].state # "NONE"

\* Some campaign has the highest name: the number allocated next exceeds all.
HighestExists ==
  \E c \in Campaigns : \A d \in Campaigns : campaign[d].name <= campaign[c].name

\* A name is allocated under the lock of the day until the campaign is committed.
NameIsNext ==
  \A r \in Requests : at[r] = "create" =>
    /\ nameLock = r
    /\ \A c \in Campaigns : campaign[c].name < held[r].name

\* A clone is made under the lock of its submission, and is the first one.
CloneIsFirst ==
  \A r \in Requests : at[r] \in {"allocate", "create"} /\ held[r].digest # Free =>
    /\ cloneLock[held[r].digest] = r
    /\ \A c \in Campaigns : <<held[r].digest, c>> \notin clones

PreviewInv ==
  /\ PreviewTypeOK
  /\ HoldingsOK
  /\ HighestExists
  /\ NameIsNext
  /\ CloneIsFirst
  /\ NamesAreUnique
  /\ CloneOnce

-----------------------------------------------------------------------------
(* The invariant about reservations *)

\* What holds of one campaign: its reservations are for creators it is frozen or
\* queued with, a freeze that lasts has all of them, freezing leaves nobody merely
\* selected or cancelled, and its creators are reserved, and released, together.
Owned(c) ==
  /\ \A k \in Creators : reserved[k] = c =>
       /\ campaign[c].state \in {"FROZEN", "QUEUED"}
       /\ row[c][k] \in {"RESERVED", "QUEUED"}
  /\ campaign[c].state = "FROZEN" /\ ~campaign[c].lapsed =>
       \A k \in Creators : row[c][k] = "RESERVED" => reserved[k] = c
  /\ campaign[c].state \in {"FROZEN", "QUEUED"} =>
       \A k \in Creators : row[c][k] \notin {"SELECTED", "CANCELLED"}
  /\ \A k, l \in Creators :
       row[c][k] \in {"RESERVED", "QUEUED"} /\ row[c][l] \in {"RESERVED", "QUEUED"}
         => (reserved[k] = c <=> reserved[l] = c)

ReservationInv == \A c \in Campaigns : Owned(c)

-----------------------------------------------------------------------------
(* Facts about rows and views *)

\* The part of the type invariant that a commit may disturb.
RowsTyped ==
  /\ campaign \in [Campaigns -> Row]
  /\ row \in [Campaigns -> [Creators -> RowStates]]
  /\ reserved \in [Creators -> Campaigns \cup {Free}]
  /\ clones \subseteq Submissions \X Campaigns
  /\ flags \in [Creators -> SUBSET Flags]
  /\ \A c \in Campaigns :
       /\ campaign[c].target \in 1..Ceiling
       /\ campaign[c].lapsed => campaign[c].state = "FROZEN"

\* A move changes the state and the version of one campaign.
LEMMA MovedFacts ==
  ASSUME RowsTyped, NEW c \in Campaigns, NEW state \in States
  PROVE  /\ Moved(c, state) \in [Campaigns -> Row]
         /\ \A d \in Campaigns \ {c} : Moved(c, state)[d] = campaign[d]
         /\ Moved(c, state)[c].state = state
         /\ Moved(c, state)[c].lapsed = FALSE
         /\ Moved(c, state)[c].target = campaign[c].target
         /\ Moved(c, state)[c].name = campaign[c].name
<1> DEFINE old == campaign[c]
           new == [state |-> state, version |-> old.version + 1,
                   target |-> old.target, name |-> old.name, lapsed |-> FALSE]
<1>1. campaign \in [Campaigns -> Row] /\ campaign[c] \in Row
  BY DEF RowsTyped
<1>2. /\ new \in Row /\ new.state = state /\ new.lapsed = FALSE
      /\ new.target = campaign[c].target /\ new.name = campaign[c].name
  BY <1>1 DEF Row
<1>3. Moved(c, state) = [campaign EXCEPT ![c] = new]
  BY DEF Moved
<1> HIDE DEF new
<1> QED BY <1>1, <1>2, <1>3

\* What a preview reads is a view of the creator database.
LEMMA ViewTyped ==
  ASSUME RowsTyped, market \in Markets
  PROVE  View \in Views
BY PreviewBounds, DomainBounds DEF RowsTyped, View, Views

\* A preview gives every creator a state.
LEMMA PreviewRowsTyped ==
  ASSUME NEW v, NEW target
  PROVE  PreviewRows(v, target) \in [Creators -> RowStates]
BY DEF PreviewRows, RowStates

\* Releasing leaves typed reservations.
LEMMA ReleasingTyped ==
  ASSUME RowsTyped, NEW c
  PROVE  Releasing(c) \in [Creators -> Campaigns \cup {Free}]
BY DEF RowsTyped, Releasing

\* The type invariant follows from its parts.
LEMMA TypeFromParts ==
  ASSUME RowsTyped, nameLock \in Requests \cup {Free},
         cloneLock \in [Submissions -> Requests \cup {Free}],
         at \in [Requests -> Stages]
  PROVE  PreviewTypeOK
BY DEF RowsTyped, PreviewTypeOK, Stages

\* What the invariants say of a request at its start.
LEMMA NothingHeld == Nothing \in Holding
BY DEF Nothing, Holding

-----------------------------------------------------------------------------
(* Initial states *)

\* No campaign, no lock, no request on its way.
LEMMA InitInv == PreviewInit => PreviewInv
<1> SUFFICES ASSUME PreviewInit PROVE PreviewInv
  OBVIOUS
<1> USE DEF PreviewInit
<1>1. RowsTyped
  BY PreviewBounds DEF RowsTyped, NoCampaign, Row, States, NoRows, RowStates
<1>2. PreviewTypeOK
  BY <1>1, TypeFromParts DEF Stages
<1>3. HoldingsOK
  BY NothingHeld DEF HoldingsOK
<1>4. HighestExists
  <2>1. PICK c \in Campaigns : TRUE
    BY PreviewBounds
  <2> QED BY <2>1 DEF HighestExists, NoCampaign
<1>5. NameIsNext /\ CloneIsFirst /\ NamesAreUnique /\ CloneOnce
  BY DEF NameIsNext, CloneIsFirst, NamesAreUnique, CloneOnce, NoCampaign
<1> QED BY <1>2, <1>3, <1>4, <1>5 DEF PreviewInv

-----------------------------------------------------------------------------
(* Steps that create no campaign *)

\* Campaigns keep their names, none comes or goes, and no clone is recorded.
Calm ==
  /\ \A c \in Campaigns :
       /\ campaign'[c].name = campaign[c].name
       /\ campaign'[c].state = "NONE" <=> campaign[c].state = "NONE"
  /\ clones' = clones
  /\ market' = market

\* Such a step keeps names and clones unique.
LEMMA CalmKeepsNames ==
  ASSUME PreviewInv, Calm
  PROVE  HighestExists' /\ NamesAreUnique' /\ CloneOnce'
<1>1. HighestExists'
  BY DEF PreviewInv, HighestExists, Calm
<1>2. NamesAreUnique'
  BY DEF PreviewInv, NamesAreUnique, Calm
<1>3. CloneOnce'
  BY DEF PreviewInv, CloneOnce, Calm
<1> QED BY <1>1, <1>2, <1>3

\* No request takes part.
LEMMA CalmWithoutRequest ==
  ASSUME PreviewInv, RowsTyped', Calm, UNCHANGED <<Locks, at, held>>
  PROVE  PreviewInv'
<1> USE DEF Locks
<1>1. PreviewTypeOK'
  BY DEF PreviewInv, PreviewTypeOK, RowsTyped
<1>2. HoldingsOK'
  BY DEF PreviewInv, HoldingsOK, Calm, Holding
<1>3. NameIsNext' /\ CloneIsFirst'
  BY DEF PreviewInv, NameIsNext, CloneIsFirst, Calm
<1> QED BY <1>1, <1>2, <1>3, CalmKeepsNames DEF PreviewInv

\* A request goes on to a stage where it holds no allocated name, and no
\* submission of a clone that it is to commit.
LEMMA CalmRequest ==
  ASSUME PreviewInv, RowsTyped', Calm,
         NEW r \in Requests, NEW stage \in Stages \ {"create"}, NEW h \in Holding,
         Go(r, stage, h),
         stage \in {"allocate", "cloneLock", "read", "rebuild"} =>
           h.target \in 1..Ceiling,
         stage = "allocate" => h.digest = Free,
         stage = "cloneLock" => h.digest # Free,
         stage \in {"read", "rebuild", "lock", "freeze", "write", "requeue",
                    "queue", "cancel"} =>
           h.c # Free /\ campaign[h.c].state # "NONE",
         nameLock' \in {nameLock, Unlocked(nameLock, r)},
         cloneLock' \in {cloneLock,
                         [d \in Submissions |-> Unlocked(cloneLock[d], r)]}
  PROVE  PreviewInv'
<1>1. /\ at \in [Requests -> Stages] /\ held \in [Requests -> Holding]
      /\ nameLock \in Requests \cup {Free}
      /\ cloneLock \in [Submissions -> Requests \cup {Free}]
  BY DEF PreviewInv, PreviewTypeOK, HoldingsOK, Stages
<1>2. /\ at' \in [Requests -> Stages] /\ held' \in [Requests -> Holding]
      /\ at'[r] = stage /\ held'[r] = h
      /\ \A q \in Requests \ {r} : at'[q] = at[q] /\ held'[q] = held[q]
  BY <1>1 DEF Go
<1>3. PreviewTypeOK'
  <2>1. /\ nameLock' \in Requests \cup {Free}
        /\ cloneLock' \in [Submissions -> Requests \cup {Free}]
    BY <1>1 DEF Unlocked
  <2> QED BY <1>2, <2>1 DEF RowsTyped, PreviewTypeOK, Stages
<1>4. HoldingsOK'
  <2>1. \A q \in Requests : held'[q].c \in Campaigns \cup {Free}
    BY <1>2 DEF Holding
  <2>2. \A q \in Requests :
          /\ at'[q] \in {"allocate", "create", "cloneLock", "read", "rebuild"} =>
               held'[q].target \in 1..Ceiling
          /\ at'[q] = "cloneLock" => held'[q].digest # Free
          /\ at'[q] \in {"read", "rebuild", "lock", "freeze", "write", "requeue",
                         "queue", "cancel"} =>
               held'[q].c # Free /\ campaign[held'[q].c].state # "NONE"
    BY <1>2 DEF PreviewInv, HoldingsOK
  <2> QED BY <1>2, <2>1, <2>2 DEF PreviewInv, HoldingsOK, Calm
<1>5. NameIsNext'
  BY <1>2, PreviewBounds DEF PreviewInv, NameIsNext, Calm, Unlocked
<1>6. CloneIsFirst'
  <2> SUFFICES ASSUME NEW q \in Requests, at'[q] \in {"allocate", "create"},
                      held'[q].digest # Free
               PROVE  /\ cloneLock'[held'[q].digest] = q
                      /\ \A c \in Campaigns : <<held'[q].digest, c>> \notin clones'
    BY DEF CloneIsFirst
  <2>1. q # r /\ at[q] = at'[q] /\ held[q] = held'[q]
    BY <1>2
  <2>2. held[q].digest \in Submissions
    BY <1>1, <2>1 DEF Holding
  <2> QED BY <2>1, <2>2 DEF PreviewInv, CloneIsFirst, Calm, Unlocked
<1> QED BY <1>3, <1>4, <1>5, <1>6, CalmKeepsNames DEF PreviewInv

\* A request that ends gives up its locks and what it held.
LEMMA CalmEnd ==
  ASSUME PreviewInv, RowsTyped', Calm, NEW r \in Requests, End(r)
  PROVE  PreviewInv'
BY CalmRequest, NothingHeld DEF End, Stages

\* A step that leaves the rows and the database alone is calm.
LEMMA RowsAlone ==
  ASSUME PreviewInv, UNCHANGED <<Rows, market>>
  PROVE  RowsTyped' /\ Calm
BY DEF PreviewInv, PreviewTypeOK, RowsTyped, Rows, Calm

\* What is known of the rows.
LEMMA InvTyped ==
  ASSUME PreviewInv
  PROVE  /\ RowsTyped
         /\ held \in [Requests -> Holding] /\ at \in [Requests -> Stages]
         /\ market \in Markets
BY DEF PreviewInv, PreviewTypeOK, RowsTyped, HoldingsOK, Stages

-----------------------------------------------------------------------------
(* Starting requests *)

\* create asks for a target within the limit.
LEMMA CreateInv ==
  ASSUME PreviewInv, NEW r \in Requests, Create(r)
  PROVE  PreviewInv'
<1>1. PICK target \in Targets :
        /\ WithinLimit(target, Ceiling)
        /\ Go(r, "allocate", [Nothing EXCEPT !.target = target])
  BY DEF Create
<1> DEFINE h == [Nothing EXCEPT !.target = target]
<1>2. h \in Holding /\ h.target \in 1..Ceiling /\ h.digest = Free
  BY <1>1, PreviewBounds DEF WithinLimit, Nothing, Holding
<1>3. RowsTyped' /\ Calm
  BY RowsAlone DEF Create
<1>4. Go(r, "allocate", h)
  BY <1>1
<1> HIDE DEF h
<1> QED BY <1>2, <1>3, <1>4, CalmRequest DEF Create, Locks, Stages

\* cloneFromPreview holds a submission too.
LEMMA CloneInv ==
  ASSUME PreviewInv, NEW r \in Requests, CloneFromPreview(r)
  PROVE  PreviewInv'
<1>1. PICK target \in Targets, digest \in Submissions :
        /\ WithinLimit(target, Ceiling)
        /\ Go(r, "cloneLock", [Nothing EXCEPT !.target = target,
                                              !.digest = digest])
  BY DEF CloneFromPreview
<1> DEFINE h == [Nothing EXCEPT !.target = target, !.digest = digest]
<1>2. h \in Holding /\ h.target \in 1..Ceiling /\ h.digest # Free
  <2>1. target \in 1..Ceiling /\ target \in Nat /\ digest # Free
    BY <1>1, PreviewBounds DEF WithinLimit
  <2>2. h.target = target /\ h.digest = digest
    BY DEF Nothing
  <2>3. h \in Holding
    BY <2>1 DEF Nothing, Holding
  <2> QED BY <2>1, <2>2, <2>3
<1>3. RowsTyped' /\ Calm
  BY RowsAlone DEF CloneFromPreview
<1>4. Go(r, "cloneLock", h)
  BY <1>1
<1> HIDE DEF h
<1> QED BY <1>2, <1>3, <1>4, CalmRequest DEF CloneFromPreview, Locks, Stages

\* discover picks a campaign that exists, with its target.
LEMMA DiscoverInv ==
  ASSUME PreviewInv, NEW r \in Requests, Discover(r)
  PROVE  PreviewInv'
<1>1. PICK c \in Operated :
        /\ campaign[c].state \in {"DRAFT", "PREVIEW_EXPIRED"}
        /\ Go(r, "read", [Nothing EXCEPT !.c = c, !.target = campaign[c].target])
  BY DEF Discover
<1> DEFINE t == campaign[c].target
           h == [Nothing EXCEPT !.c = c, !.target = t]
<1>0. c \in Campaigns /\ c # Free /\ t \in 1..Ceiling /\ t \in Nat
  BY InvTyped, PreviewBounds DEF RowsTyped
<1>2. /\ h \in Holding /\ h.target \in 1..Ceiling
      /\ h.c # Free /\ campaign[h.c].state # "NONE"
  <2> HIDE DEF t
  <2> QED BY <1>1, <1>0 DEF Nothing, Holding
<1>3. RowsTyped' /\ Calm
  BY RowsAlone DEF Discover
<1>4. Go(r, "read", h)
  BY <1>1
<1> HIDE DEF h
<1> QED BY <1>2, <1>3, <1>4, CalmRequest DEF Discover, Locks, Stages

\* send keeps the version it saw.
LEMMA SendInv ==
  ASSUME PreviewInv, NEW r \in Requests, Send(r)
  PROVE  PreviewInv'
<1>1. PICK c \in Operated, stage \in {"queue", "lock"} :
        /\ campaign[c].state \in {"PREVIEW_READY", "FROZEN"}
        /\ Go(r, stage, [Nothing EXCEPT !.c = c, !.version = campaign[c].version])
  BY DEF Send
<1> DEFINE v == campaign[c].version
           h == [Nothing EXCEPT !.c = c, !.version = v]
<1>0. c \in Campaigns /\ c # Free /\ v \in Nat
  BY InvTyped, PreviewBounds DEF RowsTyped, Row
<1>2. h \in Holding /\ h.c # Free /\ campaign[h.c].state # "NONE"
  <2> HIDE DEF v
  <2> QED BY <1>1, <1>0 DEF Nothing, Holding
<1>3. RowsTyped' /\ Calm
  BY RowsAlone DEF Send
<1>4. Go(r, stage, h)
  BY <1>1
<1> HIDE DEF h
<1> QED BY <1>2, <1>3, <1>4, CalmRequest DEF Send, Locks, Stages

\* cancel keeps the campaign it saw.
LEMMA CancelReadInv ==
  ASSUME PreviewInv, NEW r \in Requests, CancelRead(r)
  PROVE  PreviewInv'
<1>1. PICK c \in Operated :
        /\ campaign[c].state \in {"FROZEN", "QUEUED"}
        /\ Go(r, "cancel", [Nothing EXCEPT !.c = c])
  BY DEF CancelRead
<1> DEFINE h == [Nothing EXCEPT !.c = c]
<1>2. h \in Holding /\ h.c # Free /\ campaign[h.c].state # "NONE"
  BY <1>1, PreviewBounds DEF Nothing, Holding
<1>3. RowsTyped' /\ Calm
  BY RowsAlone DEF CancelRead
<1>4. Go(r, "cancel", h)
  BY <1>1
<1> HIDE DEF h
<1> QED BY <1>2, <1>3, <1>4, CalmRequest DEF CancelRead, Locks, Stages

-----------------------------------------------------------------------------
(* Requests on their way that leave the rows alone *)

\* A request about a campaign goes on with it.
LEMMA GoesOn ==
  ASSUME PreviewInv, UNCHANGED <<Rows, market, Locks>>, NEW r \in Requests,
         at[r] \in {"read", "rebuild", "lock", "freeze", "write", "requeue",
                    "queue", "cancel"},
         NEW stage \in {"rebuild", "freeze", "write", "requeue", "queue"},
         stage = "rebuild" => at[r] = "read",
         NEW h \in Holding, h.c = held[r].c, h.target = held[r].target,
         Go(r, stage, h)
  PROVE  PreviewInv'
<1>1. held[r].c # Free /\ campaign[held[r].c].state # "NONE"
  BY DEF PreviewInv, HoldingsOK
<1>2. at[r] = "read" => held[r].target \in 1..Ceiling
  BY DEF PreviewInv, HoldingsOK
<1> QED BY <1>1, <1>2, RowsAlone, CalmRequest DEF Locks, Stages

\* discover reads the database.
LEMMA ReadCreatorDatabaseInv ==
  ASSUME PreviewInv, NEW r \in Requests, ReadCreatorDatabase(r)
  PROVE  PreviewInv'
<1> DEFINE h == [held[r] EXCEPT !.view = View]
<1>1. h \in Holding /\ h.c = held[r].c /\ h.target = held[r].target
  BY InvTyped, ViewTyped DEF Holding
<1>2. Go(r, "rebuild", h)
  BY DEF ReadCreatorDatabase
<1> HIDE DEF h
<1> QED BY <1>1, <1>2, GoesOn DEF ReadCreatorDatabase

\* freeze locks the creators selected, or there are none.
LEMMA LockEligibilityInv ==
  ASSUME PreviewInv, NEW r \in Requests, LockEligibility(r)
  PROVE  PreviewInv'
<1>1. CASE End(r)
  BY <1>1, RowsAlone, CalmEnd DEF LockEligibility
<1>2. CASE ~End(r)
  <2> DEFINE h == [held[r] EXCEPT !.locked = Selected(held[r].c)]
  <2>1. h \in Holding /\ h.c = held[r].c /\ h.target = held[r].target
    BY InvTyped DEF Holding, Selected
  <2>2. Go(r, "freeze", h)
    BY <1>2 DEF LockEligibility
  <2> HIDE DEF h
  <2> QED BY <1>2, <2>1, <2>2, GoesOn DEF LockEligibility
<1> QED BY <1>1, <1>2

\* Under the locks the preview is fresh, frozen by another Send, or stale.
LEMMA CheckPreviewInv ==
  ASSUME PreviewInv, NEW r \in Requests, CheckPreview(r)
  PROVE  PreviewInv'
<1>1. CASE Go(r, "write", held[r]) /\ UNCHANGED Locks
  BY <1>1, InvTyped, GoesOn DEF CheckPreview
<1>2. CASE Go(r, "requeue", [held[r] EXCEPT !.locked = {}]) /\ UNCHANGED Locks
  <2> DEFINE h == [held[r] EXCEPT !.locked = {}]
  <2>1. h \in Holding /\ h.c = held[r].c /\ h.target = held[r].target
    BY InvTyped DEF Holding
  <2>2. Go(r, "requeue", h)
    BY <1>2
  <2> HIDE DEF h
  <2> QED BY <1>2, <2>1, <2>2, GoesOn DEF CheckPreview
<1>3. CASE End(r)
  BY <1>3, RowsAlone, CalmEnd DEF CheckPreview
<1> QED BY <1>1, <1>2, <1>3 DEF CheckPreview

\* send goes on with the version of the frozen campaign.
LEMMA RereadFrozenInv ==
  ASSUME PreviewInv, NEW r \in Requests, RereadFrozen(r)
  PROVE  PreviewInv'
<1>1. CASE End(r)
  BY <1>1, RowsAlone, CalmEnd DEF RereadFrozen
<1>2. CASE ~End(r)
  <2> DEFINE h == [held[r] EXCEPT !.version = campaign[held[r].c].version]
  <2>1. held[r].c \in Campaigns
    BY InvTyped DEF RereadFrozen, PreviewInv, HoldingsOK, Holding
  <2>2. h \in Holding /\ h.c = held[r].c /\ h.target = held[r].target
    BY <2>1, InvTyped DEF Holding, RowsTyped, Row
  <2>3. Go(r, "queue", h)
    BY <1>2 DEF RereadFrozen
  <2> HIDE DEF h
  <2> QED BY <1>2, <2>2, <2>3, GoesOn DEF RereadFrozen
<1> QED BY <1>1, <1>2

\* A failed request leaves its locks to others.
LEMMA RequestFailsInv ==
  ASSUME PreviewInv, NEW r \in Requests, RequestFails(r)
  PROVE  PreviewInv'
BY RowsAlone, CalmEnd DEF RequestFails

-----------------------------------------------------------------------------
(* Commits to an existing campaign *)

\* Moving a campaign that exists is calm.
LEMMA MovedCalm ==
  ASSUME PreviewInv, NEW c \in Campaigns, campaign[c].state # "NONE",
         NEW state \in States \ {"NONE"},
         campaign' = Moved(c, state),
         row' \in [Campaigns -> [Creators -> RowStates]],
         reserved' \in [Creators -> Campaigns \cup {Free}],
         UNCHANGED <<clones, flags, market>>
  PROVE  RowsTyped' /\ Calm
<1>1. RowsTyped /\ state \in States /\ state # "NONE"
  BY InvTyped DEF States
<1>2. /\ campaign' \in [Campaigns -> Row]
      /\ \A d \in Campaigns \ {c} : campaign'[d] = campaign[d]
      /\ campaign'[c].state = state
      /\ campaign'[c].lapsed = FALSE
      /\ campaign'[c].target = campaign[c].target
      /\ campaign'[c].name = campaign[c].name
  <2> DEFINE moved == Moved(c, state)
  <2>1. /\ moved \in [Campaigns -> Row]
        /\ \A d \in Campaigns \ {c} : moved[d] = campaign[d]
        /\ moved[c].state = state
        /\ moved[c].lapsed = FALSE
        /\ moved[c].target = campaign[c].target
        /\ moved[c].name = campaign[c].name
    BY <1>1, MovedFacts
  <2>2. campaign' = moved
    OBVIOUS
  <2> HIDE DEF moved
  <2> QED BY <2>1, <2>2
<1>3. RowsTyped'
  BY <1>1, <1>2 DEF RowsTyped
<1>4. Calm
  BY <1>1, <1>2 DEF Calm
<1> QED BY <1>3, <1>4

\* The campaign a request is about exists.
LEMMA HeldExists ==
  ASSUME PreviewInv, NEW r \in Requests,
         at[r] \in {"rebuild", "lock", "freeze", "write", "requeue", "queue",
                    "cancel"}
  PROVE  /\ held[r].c \in Campaigns /\ campaign[held[r].c].state # "NONE"
         /\ held[r].c # Free
BY DEF PreviewInv, HoldingsOK, Holding

\* The preview of an existing campaign is replaced.
LEMMA RebuildInv ==
  ASSUME PreviewInv, NEW r \in Requests, Rebuild(r)
  PROVE  PreviewInv'
<1> DEFINE c == held[r].c
           moved == Moved(c, "PREVIEW_READY")
           n == campaign[c].version + 2
           rows == PreviewRows(held[r].view, held[r].target)
<1>1. c \in Campaigns /\ campaign[c].state # "NONE" /\ RowsTyped /\ n \in Nat
  BY HeldExists, InvTyped DEF Rebuild, RowsTyped, Row
<1>2. /\ moved \in [Campaigns -> Row]
      /\ \A d \in Campaigns \ {c} : moved[d] = campaign[d]
      /\ moved[c].state = "PREVIEW_READY" /\ moved[c].lapsed = FALSE
      /\ moved[c].target = campaign[c].target
      /\ moved[c].name = campaign[c].name
  <2>1. "PREVIEW_READY" \in States
    BY DEF States
  <2> QED BY <1>1, <2>1, MovedFacts
<1>3. rows \in [Creators -> RowStates]
  BY PreviewRowsTyped
<1>4. /\ campaign' = [moved EXCEPT ![c].version = n]
      /\ row' = [row EXCEPT ![c] = rows]
      /\ reserved' = Releasing(c)
      /\ End(r) /\ UNCHANGED <<clones, flags, market>>
  BY DEF Rebuild
<1>5. Releasing(c) \in [Creators -> Campaigns \cup {Free}]
  BY <1>1, ReleasingTyped
<1> HIDE DEF moved, n, rows, c
<1>6. /\ campaign' \in [Campaigns -> Row]
      /\ \A d \in Campaigns \ {c} : campaign'[d] = campaign[d]
      /\ campaign'[c].state = "PREVIEW_READY" /\ campaign'[c].lapsed = FALSE
      /\ campaign'[c].target = campaign[c].target
      /\ campaign'[c].name = campaign[c].name
  BY <1>1, <1>2, <1>4 DEF Row
<1>7. RowsTyped'
  BY <1>1, <1>3, <1>4, <1>5, <1>6 DEF RowsTyped
<1>8. Calm
  BY <1>1, <1>4, <1>6 DEF Calm
<1> QED BY <1>4, <1>7, <1>8, CalmEnd

\* A freeze that reserves somebody, or nobody.
LEMMA FreezeInv ==
  ASSUME PreviewInv, NEW r \in Requests, Freeze(r)
  PROVE  PreviewInv'
<1> DEFINE c == held[r].c
           kept == StillEligible(c)
           state == IF kept = {} THEN "PREVIEW_EXPIRED" ELSE "FROZEN"
<1>1. c \in Campaigns /\ campaign[c].state # "NONE" /\ RowsTyped
  BY HeldExists, InvTyped DEF Freeze
<1>2. row' \in [Campaigns -> [Creators -> RowStates]]
  BY <1>1 DEF Freeze, RowsTyped, RowStates
<1>3. reserved' \in [Creators -> Campaigns \cup {Free}]
  BY <1>1 DEF Freeze, RowsTyped
<1>4. RowsTyped' /\ Calm
  <2>1. state \in States /\ state # "NONE" /\ campaign' = Moved(c, state)
    BY DEF States, Freeze
  <2>2. UNCHANGED <<clones, flags, market>>
    BY DEF Freeze
  <2> HIDE DEF state
  <2> QED BY <1>1, <1>2, <1>3, <2>1, <2>2, MovedCalm
<1>5. CASE End(r)
  BY <1>4, <1>5, CalmEnd
<1>6. CASE Go(r, "requeue", [held[r] EXCEPT !.locked = {}]) /\ UNCHANGED Locks
  <2> DEFINE h == [held[r] EXCEPT !.locked = {}]
  <2>1. h \in Holding /\ h.c = held[r].c
    BY InvTyped DEF Holding
  <2>2. h.c # Free /\ campaign[h.c].state # "NONE"
    BY <2>1, HeldExists DEF Freeze
  <2>3. Go(r, "requeue", h) /\ UNCHANGED Locks
    BY <1>6
  <2> HIDE DEF h
  <2> QED BY <1>4, <2>1, <2>2, <2>3, CalmRequest DEF Locks, Stages
<1> QED BY <1>5, <1>6 DEF Freeze

\* The reserved creators are queued, or the campaign has changed.
LEMMA QueueFrozenInv ==
  ASSUME PreviewInv, NEW r \in Requests, QueueFrozen(r)
  PROVE  PreviewInv'
<1> DEFINE c == held[r].c
<1>1. c \in Campaigns /\ campaign[c].state # "NONE" /\ RowsTyped
  BY HeldExists, InvTyped DEF QueueFrozen
<1>2. End(r) /\ UNCHANGED <<reserved, clones, flags, market>>
  BY DEF QueueFrozen
<1>3. CASE UNCHANGED <<campaign, row>>
  BY <1>2, <1>3, RowsAlone, CalmEnd DEF Rows
<1>4. CASE ~UNCHANGED <<campaign, row>>
  <2>1. campaign' = Moved(c, "QUEUED")
    BY <1>4 DEF QueueFrozen
  <2>2. row' \in [Campaigns -> [Creators -> RowStates]]
    BY <1>1, <1>4 DEF QueueFrozen, RowsTyped, RowStates
  <2>3. "QUEUED" \in States
    BY DEF States
  <2>4. reserved' \in [Creators -> Campaigns \cup {Free}]
    BY <1>1, <1>2 DEF RowsTyped
  <2>5. RowsTyped' /\ Calm
    BY <1>1, <1>2, <2>1, <2>2, <2>3, <2>4, MovedCalm
  <2> QED BY <1>2, <2>5, CalmEnd
<1> QED BY <1>3, <1>4

\* What is unsent is cancelled and released.
LEMMA CancelInv ==
  ASSUME PreviewInv, NEW r \in Requests, Cancel(r)
  PROVE  PreviewInv'
<1> DEFINE c == held[r].c
<1>1. c \in Campaigns /\ campaign[c].state # "NONE" /\ RowsTyped
  BY HeldExists, InvTyped DEF Cancel
<1>2. row' \in [Campaigns -> [Creators -> RowStates]]
  BY <1>1 DEF Cancel, RowsTyped, RowStates
<1>3. reserved' \in [Creators -> Campaigns \cup {Free}]
  BY <1>1 DEF Cancel, RowsTyped
<1>4. "CANCELLED" \in States
  BY DEF States
<1>5. /\ campaign' = Moved(c, "CANCELLED") /\ End(r)
      /\ UNCHANGED <<clones, flags, market>>
  BY DEF Cancel
<1>6. RowsTyped' /\ Calm
  BY <1>1, <1>2, <1>3, <1>4, <1>5, MovedCalm
<1> QED BY <1>5, <1>6, CalmEnd

-----------------------------------------------------------------------------
(* Steps without a request *)

\* The sweep releases the creators of a campaign whose freeze has passed.
LEMMA ExpireInv ==
  ASSUME PreviewInv, ExpireFrozenCampaigns
  PROVE  PreviewInv'
<1>1. PICK c \in Campaigns :
        /\ campaign[c].lapsed
        /\ campaign' = Moved(c, "PREVIEW_EXPIRED")
        /\ reserved' = ExpiredReservations(c)
        /\ row' = [row EXCEPT ![c] = [k \in Creators |->
                     IF row[c][k] = "RESERVED" THEN "SELECTED" ELSE row[c][k]]]
  BY DEF ExpireFrozenCampaigns
<1>2. RowsTyped /\ campaign[c].state # "NONE" /\ "PREVIEW_EXPIRED" \in States
  BY <1>1, InvTyped DEF RowsTyped, States
<1>3. row' \in [Campaigns -> [Creators -> RowStates]]
  BY <1>1, <1>2 DEF RowsTyped, RowStates
<1>4. reserved' \in [Creators -> Campaigns \cup {Free}]
  BY <1>1, <1>2, ReleasingTyped DEF ExpiredReservations
<1>5. RowsTyped' /\ Calm
  BY <1>1, <1>2, <1>3, <1>4, MovedCalm DEF ExpireFrozenCampaigns
<1> QED BY <1>5, CalmWithoutRequest DEF ExpireFrozenCampaigns

\* Time passes over a freeze.
LEMMA FreezeLapsesInv ==
  ASSUME PreviewInv, FreezeLapses
  PROVE  PreviewInv'
<1>1. PICK c \in Campaigns :
        /\ campaign[c].state = "FROZEN"
        /\ campaign' = [campaign EXCEPT ![c].lapsed = TRUE]
  BY DEF FreezeLapses
<1>2. RowsTyped
  BY InvTyped
<1>3. /\ campaign' \in [Campaigns -> Row]
      /\ \A d \in Campaigns :
           /\ campaign'[d].state = campaign[d].state
           /\ campaign'[d].name = campaign[d].name
           /\ campaign'[d].target = campaign[d].target
           /\ campaign'[d].lapsed => d = c \/ campaign[d].lapsed
  BY <1>1, <1>2 DEF RowsTyped, Row
<1>4. RowsTyped'
  BY <1>1, <1>2, <1>3 DEF RowsTyped, FreezeLapses
<1>5. Calm
  BY <1>3 DEF Calm, FreezeLapses
<1> QED BY <1>4, <1>5, CalmWithoutRequest DEF FreezeLapses

\* A contact state changes.
LEMMA ContactChangesInv ==
  ASSUME PreviewInv, ContactChanges
  PROVE  PreviewInv'
<1>1. RowsTyped'
  BY InvTyped, PreviewBounds DEF RowsTyped, ContactChanges
<1>2. Calm
  BY DEF Calm, ContactChanges
<1> QED BY <1>1, <1>2, CalmWithoutRequest DEF ContactChanges

-----------------------------------------------------------------------------
(* Steps on which names and clones rest *)

\* The request gets the lock of its submission when no clone was made for it.
LEMMA LockSubmissionInv ==
  ASSUME PreviewInv, NEW r \in Requests, LockSubmission(r)
  PROVE  PreviewInv'
<1> DEFINE d == held[r].digest
<1>1. CASE \E c \in Campaigns : <<d, c>> \in clones
  BY <1>1, RowsAlone, CalmEnd DEF LockSubmission
<1>2. CASE ~\E c \in Campaigns : <<d, c>> \in clones
  <2>1. /\ at[r] = "cloneLock" /\ cloneLock[d] = Free
        /\ cloneLock' = [cloneLock EXCEPT ![d] = r]
        /\ Go(r, "allocate", held[r])
        /\ UNCHANGED nameLock /\ UNCHANGED <<Rows, market>>
    BY <1>2 DEF LockSubmission, SubmissionLock
  <2>2. /\ at \in [Requests -> Stages] /\ held \in [Requests -> Holding]
        /\ d \in Submissions /\ held[r].target \in 1..Ceiling
        /\ cloneLock \in [Submissions -> Requests \cup {Free}]
        /\ nameLock \in Requests \cup {Free}
    BY <2>1, InvTyped DEF PreviewInv, HoldingsOK, Holding, PreviewTypeOK
  <2>3. /\ at'[r] = "allocate" /\ at' \in [Requests -> Stages] /\ held' = held
        /\ \A q \in Requests \ {r} : at'[q] = at[q]
    BY <2>1, <2>2 DEF Go, Stages
  <2>4. RowsTyped' /\ Calm
    BY <2>1, RowsAlone
  <2>5. PreviewTypeOK'
    BY <2>1, <2>2, <2>3, <2>4 DEF PreviewTypeOK, RowsTyped, Stages
  <2>6. HoldingsOK'
    BY <2>1, <2>2, <2>3, <2>4 DEF PreviewInv, HoldingsOK, Rows
  <2>7. NameIsNext'
    BY <2>1, <2>3 DEF PreviewInv, NameIsNext, Rows
  <2>8. CloneIsFirst'
    <3> SUFFICES ASSUME NEW q \in Requests, at'[q] \in {"allocate", "create"},
                        held[q].digest # Free
                 PROVE  /\ cloneLock'[held[q].digest] = q
                        /\ \A c \in Campaigns : <<held[q].digest, c>> \notin clones
      BY <2>1, <2>3 DEF CloneIsFirst, Rows
    <3>1. CASE q = r
      BY <1>2, <2>1, <2>2, <3>1
    <3>2. CASE q # r
      <4>1. /\ cloneLock[held[q].digest] = q /\ held[q].digest \in Submissions
            /\ \A c \in Campaigns : <<held[q].digest, c>> \notin clones
        BY <2>2, <2>3, <3>2 DEF PreviewInv, CloneIsFirst, Holding
      <4>2. q # Free
        BY PreviewBounds
      <4> QED BY <2>1, <2>2, <4>1, <4>2
    <3> QED BY <3>1, <3>2
  <2> QED BY <2>4, <2>5, <2>6, <2>7, <2>8, CalmKeepsNames DEF PreviewInv
<1> QED BY <1>1, <1>2

\* The name allocated exceeds every name there is.
LEMMA AllocateCampaignNameInv ==
  ASSUME PreviewInv, NEW r \in Requests, AllocateCampaignName(r)
  PROVE  PreviewInv'
<1> DEFINE view == IF held[r].digest = Free THEN Free ELSE View
           n == HighestName + 1
           h == [held[r] EXCEPT !.name = n, !.view = view]
<1>1. /\ at[r] = "allocate" /\ nameLock = Free /\ nameLock' = r
      /\ Go(r, "create", h) /\ UNCHANGED <<Rows, market, cloneLock>>
  BY DEF AllocateCampaignName, NameLock
<1>2. n \in Nat /\ \A c \in Campaigns : campaign[c].name < n
  <2>1. \A c \in Campaigns : campaign[c].name \in Nat
    BY InvTyped DEF RowsTyped, Row
  <2>2. \E m \in {campaign[c].name : c \in Campaigns} :
          \A c \in Campaigns : campaign[c].name <= m
    BY DEF PreviewInv, HighestExists
  <2>3. /\ HighestName \in {campaign[c].name : c \in Campaigns}
        /\ \A c \in Campaigns : campaign[c].name <= HighestName
    BY <2>2 DEF HighestName
  <2> QED BY <2>1, <2>3
<1>3. view \in Views \cup {Free}
  BY InvTyped, ViewTyped
<1>4. /\ at \in [Requests -> Stages] /\ held \in [Requests -> Holding]
      /\ held[r].target \in 1..Ceiling
      /\ cloneLock \in [Submissions -> Requests \cup {Free}]
  BY <1>1, InvTyped DEF PreviewInv, HoldingsOK, PreviewTypeOK
<1> HIDE DEF n, view
<1>5. /\ h \in Holding /\ h.name = n /\ h.target = held[r].target
      /\ h.digest = held[r].digest
  BY <1>2, <1>3, <1>4 DEF Holding
<1> HIDE DEF h
<1>6. /\ at'[r] = "create" /\ held'[r] = h
      /\ at' \in [Requests -> Stages] /\ held' \in [Requests -> Holding]
      /\ \A q \in Requests \ {r} : at'[q] = at[q] /\ held'[q] = held[q]
  BY <1>1, <1>4, <1>5 DEF Go, Stages
<1>7. RowsTyped' /\ Calm
  BY <1>1, RowsAlone
<1>8. PreviewTypeOK'
  BY <1>1, <1>4, <1>6, <1>7 DEF PreviewTypeOK, RowsTyped, Stages
<1>9. HoldingsOK'
  <2>1. \A q \in Requests \ {r} :
          /\ at'[q] \in {"allocate", "create", "cloneLock", "read", "rebuild"} =>
               held'[q].target \in 1..Ceiling
          /\ at'[q] = "cloneLock" => held'[q].digest # Free
          /\ at'[q] \in {"read", "rebuild", "lock", "freeze", "write", "requeue",
                         "queue", "cancel"} =>
               held'[q].c # Free /\ campaign[held'[q].c].state # "NONE"
    BY <1>6 DEF PreviewInv, HoldingsOK
  <2>2. campaign' = campaign /\ market' \in Markets
    BY <1>1, InvTyped DEF Rows
  <2> QED BY <1>4, <1>5, <1>6, <2>1, <2>2 DEF HoldingsOK
<1>10. NameIsNext'
  <2>1. \A q \in Requests : at[q] # "create"
    BY <1>1, PreviewBounds DEF PreviewInv, NameIsNext
  <2>2. campaign' = campaign
    BY <1>1 DEF Rows
  <2> QED BY <1>1, <1>2, <1>5, <1>6, <2>1, <2>2 DEF NameIsNext
<1>11. CloneIsFirst'
  BY <1>1, <1>5, <1>6 DEF PreviewInv, CloneIsFirst, Rows
<1> QED BY <1>7, <1>8, <1>9, <1>10, <1>11, CalmKeepsNames DEF PreviewInv

\* The campaign committed has the highest name, and is the first clone.
LEMMA CommitCampaignInv ==
  ASSUME PreviewInv, NEW r \in Requests, CommitCampaign(r)
  PROVE  PreviewInv'
<1> DEFINE h == held[r]
<1>1. PICK c \in Campaigns :
        /\ campaign[c].state = "NONE"
        /\ \/ /\ h.digest = Free
              /\ campaign' = [campaign EXCEPT ![c] = NewCampaign(r, "DRAFT", 1)]
              /\ UNCHANGED <<row, clones>>
           \/ /\ h.digest # Free
              /\ RebuildLocalPreview(c, r)
              /\ clones' = clones \cup {<<h.digest, c>>}
  BY DEF CommitCampaign
<1>2. /\ at[r] = "create" /\ End(r) /\ UNCHANGED <<reserved, flags, market>>
  BY DEF CommitCampaign
<1>3. /\ RowsTyped /\ h \in Holding /\ h.target \in 1..Ceiling
      /\ at \in [Requests -> Stages] /\ held \in [Requests -> Holding]
      /\ nameLock = r /\ \A d \in Campaigns : campaign[d].name < h.name
  BY <1>2, InvTyped DEF PreviewInv, HoldingsOK, NameIsNext
<1>4. PICK state \in {"DRAFT", "PREVIEW_READY"}, version \in Nat :
        campaign' = [campaign EXCEPT ![c] = NewCampaign(r, state, version)]
  BY <1>1 DEF RebuildLocalPreview
<1> DEFINE new == NewCampaign(r, state, version)
<1>5. /\ new \in Row /\ new.state # "NONE" /\ new.name = h.name
      /\ new.target = h.target /\ new.lapsed = FALSE
  <2>1. h.target \in Nat /\ h.name \in Nat
    BY <1>3 DEF Holding
  <2>2. "DRAFT" \in States /\ "PREVIEW_READY" \in States
    BY DEF States
  <2> QED BY <2>1, <2>2 DEF NewCampaign, Row
<1> HIDE DEF new
<1>6. /\ campaign' \in [Campaigns -> Row]
      /\ \A d \in Campaigns \ {c} : campaign'[d] = campaign[d]
      /\ campaign'[c].state # "NONE" /\ campaign'[c].name = h.name
      /\ campaign'[c].target = h.target /\ campaign'[c].lapsed = FALSE
  <2>1. campaign' = [campaign EXCEPT ![c] = new]
    BY <1>4 DEF new
  <2> QED BY <1>3, <1>5, <2>1 DEF RowsTyped
<1>7. /\ row' \in [Campaigns -> [Creators -> RowStates]]
      /\ clones' \subseteq Submissions \X Campaigns
  <2>1. h.digest # Free => h.digest \in Submissions
    BY <1>3 DEF Holding
  <2>2. PreviewRows(h.view, h.target) \in [Creators -> RowStates]
    BY PreviewRowsTyped
  <2> QED BY <1>1, <1>3, <2>1, <2>2 DEF RowsTyped, RebuildLocalPreview
<1>8. RowsTyped'
  BY <1>2, <1>3, <1>6, <1>7 DEF RowsTyped
<1>9. /\ at' \in [Requests -> Stages] /\ held' \in [Requests -> Holding]
      /\ at'[r] = "idle" /\ nameLock' = Free
      /\ \A q \in Requests \ {r} : at'[q] = at[q] /\ held'[q] = held[q]
      /\ cloneLock' = [d \in Submissions |-> Unlocked(cloneLock[d], r)]
  BY <1>2, <1>3, NothingHeld DEF End, Go, Stages, Unlocked
<1>10. PreviewTypeOK'
  <2>1. cloneLock' \in [Submissions -> Requests \cup {Free}]
    BY <1>9 DEF PreviewInv, PreviewTypeOK, Unlocked
  <2> QED BY <1>8, <1>9, <2>1 DEF PreviewTypeOK, RowsTyped, Stages
<1>11. HoldingsOK'
  <2>1. \A q \in Requests \ {r} :
          /\ at'[q] \in {"allocate", "create", "cloneLock", "read", "rebuild"} =>
               held'[q].target \in 1..Ceiling
          /\ at'[q] = "cloneLock" => held'[q].digest # Free
          /\ at'[q] \in {"read", "rebuild", "lock", "freeze", "write", "requeue",
                         "queue", "cancel"} =>
               /\ held'[q].c # Free /\ held'[q].c \in Campaigns
               /\ campaign[held'[q].c].state # "NONE"
    BY <1>9 DEF PreviewInv, HoldingsOK, Holding
  <2>2. \A d \in Campaigns :
          campaign[d].state # "NONE" => campaign'[d].state # "NONE"
    BY <1>6
  <2> QED BY <1>2, <1>9, <2>1, <2>2, InvTyped DEF HoldingsOK
<1>12. HighestExists'
  <2>1. \A d \in Campaigns : campaign[d].name \in Nat /\ h.name \in Nat
    BY <1>3 DEF RowsTyped, Row, Holding
  <2>2. \A d \in Campaigns : campaign'[d].name <= campaign'[c].name
    BY <1>3, <1>6, <2>1
  <2> QED BY <2>2 DEF HighestExists
<1>13. NameIsNext'
  BY <1>3, <1>9 DEF PreviewInv, NameIsNext
<1>14. NamesAreUnique'
  <2>1. \A d \in Campaigns : campaign[d].name \in Nat /\ h.name \in Nat
    BY <1>3 DEF RowsTyped, Row, Holding
  <2> QED BY <1>3, <1>6, <2>1 DEF PreviewInv, NamesAreUnique
<1>15. CloneIsFirst' /\ CloneOnce'
  <2>1. CASE h.digest = Free
    <3>1. clones' = clones
      BY <1>1, <2>1
    <3> QED BY <1>9, <3>1 DEF PreviewInv, CloneIsFirst, CloneOnce, Unlocked, Holding
  <2>2. CASE h.digest # Free
    <3>1. clones' = clones \cup {<<h.digest, c>>}
      BY <1>1, <2>2
    <3>2. /\ cloneLock[h.digest] = r /\ h.digest \in Submissions
          /\ \A d \in Campaigns : <<h.digest, d>> \notin clones
      BY <1>2, <1>3, <2>2 DEF PreviewInv, CloneIsFirst, Holding
    <3>3. CloneOnce'
      BY <1>3, <3>1, <3>2 DEF PreviewInv, CloneOnce, RowsTyped
    <3>4. CloneIsFirst'
      <4> SUFFICES ASSUME NEW q \in Requests, at'[q] \in {"allocate", "create"},
                          held'[q].digest # Free
                   PROVE  /\ cloneLock'[held'[q].digest] = q
                          /\ \A d \in Campaigns : <<held'[q].digest, d>> \notin clones'
        BY DEF CloneIsFirst
      <4>1. /\ q # r /\ held'[q] = held[q] /\ held[q].digest \in Submissions
            /\ cloneLock[held[q].digest] = q
            /\ \A d \in Campaigns : <<held[q].digest, d>> \notin clones
        BY <1>9 DEF PreviewInv, CloneIsFirst, Holding
      <4>2. held[q].digest # h.digest
        BY <3>2, <4>1
      <4> QED BY <1>9, <3>1, <4>1, <4>2 DEF Unlocked
    <3> QED BY <3>3, <3>4
  <2> QED BY <2>1, <2>2
<1> QED BY <1>10, <1>11, <1>12, <1>13, <1>14, <1>15 DEF PreviewInv

\* Every step keeps the invariant.
LEMMA NextInv == PreviewInv /\ [PreviewNext]_previewVars => PreviewInv'
<1> SUFFICES ASSUME PreviewInv, [PreviewNext]_previewVars PROVE PreviewInv'
  OBVIOUS
<1>1. CASE UNCHANGED previewVars
  BY <1>1, RowsAlone, CalmWithoutRequest DEF previewVars, Rows, Locks
<1>2. CASE PreviewNext
  <2>1. ASSUME NEW r \in Requests,
               \/ Create(r) \/ CloneFromPreview(r) \/ Discover(r) \/ Send(r)
               \/ CancelRead(r) \/ RequestFails(r)
        PROVE  PreviewInv'
    BY <2>1, CreateInv, CloneInv, DiscoverInv, SendInv, CancelReadInv,
       RequestFailsInv
  <2>2. ASSUME NEW r \in Requests, RequestStep(r) PROVE PreviewInv'
    BY <2>2, LockSubmissionInv, AllocateCampaignNameInv, CommitCampaignInv,
       ReadCreatorDatabaseInv, RebuildInv, LockEligibilityInv, CheckPreviewInv,
       FreezeInv, RereadFrozenInv, QueueFrozenInv, CancelInv DEF RequestStep
  <2>3. CASE FreezeLapses \/ ExpireFrozenCampaigns \/ ContactChanges
    BY <2>3, FreezeLapsesInv, ExpireInv, ContactChangesInv
  <2> QED BY <1>2, <2>1, <2>2, <2>3 DEF PreviewNext
<1> QED BY <1>1, <1>2

-----------------------------------------------------------------------------
(* Reservations *)

\* If every campaign is in order, so are the reservations.
LEMMA ReservationInvImplies ==
  ASSUME PreviewInv, ReservationInv
  PROVE  ReservationsAreOwned
BY InvTyped DEF ReservationInv, Owned, ReservationsAreOwned, RowsTyped

\* A step that touches one campaign, and takes creators only from campaigns whose
\* freeze has lapsed, and then all of them.
LEMMA OneCampaign ==
  ASSUME ReservationInv, NEW c \in Campaigns, Owned(c)',
         \A d \in Campaigns \ {c} : campaign'[d] = campaign[d] /\ row'[d] = row[d],
         \A d \in Campaigns \ {c} :
           \/ \A k \in Creators : reserved'[k] = d <=> reserved[k] = d
           \/ campaign[d].lapsed /\ \A k \in Creators : reserved'[k] # d
  PROVE  ReservationInv'
<1> SUFFICES ASSUME NEW d \in Campaigns, d # c PROVE Owned(d)'
  BY DEF ReservationInv
<1>1. Owned(d) /\ campaign'[d] = campaign[d] /\ row'[d] = row[d]
  BY DEF ReservationInv
<1>2. CASE \A k \in Creators : reserved'[k] = d <=> reserved[k] = d
  BY <1>1, <1>2 DEF Owned
<1>3. CASE campaign[d].lapsed /\ \A k \in Creators : reserved'[k] # d
  BY <1>1, <1>3 DEF Owned
<1> QED BY <1>2, <1>3

\* A campaign that is neither frozen nor queued and reserves nobody is in order.
LEMMA NoneOwned ==
  ASSUME NEW c \in Campaigns, campaign'[c].state \notin {"FROZEN", "QUEUED"},
         \A k \in Creators : reserved'[k] # c
  PROVE  Owned(c)'
BY DEF Owned

\* A new preview has no reservations.
LEMMA RebuildReservations ==
  ASSUME PreviewInv, ReservationInv, NEW r \in Requests, Rebuild(r)
  PROVE  ReservationInv'
<1>0. PICK c \in Campaigns : c = held[r].c
  BY HeldExists DEF Rebuild
<1> DEFINE moved == Moved(c, "PREVIEW_READY")
<1>1. RowsTyped /\ c # Free /\ "PREVIEW_READY" \in States
  BY PreviewBounds, InvTyped DEF States
<1>2. /\ moved \in [Campaigns -> Row] /\ moved[c].state = "PREVIEW_READY"
      /\ \A d \in Campaigns \ {c} : moved[d] = campaign[d]
  BY <1>1, MovedFacts
<1>3. /\ campaign' = [moved EXCEPT ![c].version = campaign[c].version + 2]
      /\ row' = [row EXCEPT ![c] = PreviewRows(held[r].view, held[r].target)]
      /\ reserved' = Releasing(c)
  BY <1>0 DEF Rebuild
<1> HIDE DEF moved
<1>4. /\ campaign'[c].state = "PREVIEW_READY"
      /\ \A d \in Campaigns \ {c} : campaign'[d] = campaign[d]
  BY <1>1, <1>2, <1>3 DEF Row
<1>5. \A k \in Creators : reserved'[k] = IF reserved[k] = c THEN Free ELSE reserved[k]
  BY <1>3 DEF Releasing
<1>6. Owned(c)'
  BY <1>1, <1>4, <1>5, NoneOwned
<1>7. \A d \in Campaigns \ {c} : row'[d] = row[d]
  BY <1>1, <1>3 DEF RowsTyped
<1>8. \A d \in Campaigns \ {c}, k \in Creators : reserved'[k] = d <=> reserved[k] = d
  BY <1>5, PreviewBounds
<1> QED BY <1>1, <1>4, <1>6, <1>7, <1>8, OneCampaign

\* Either nobody is left to reserve, or all that are left are reserved and nobody
\* else was.
LEMMA FreezeReservations ==
  ASSUME PreviewInv, ReservationInv, NEW r \in Requests, Freeze(r)
  PROVE  ReservationInv'
<1>0. PICK c \in Campaigns : c = held[r].c
  BY HeldExists DEF Freeze
<1> DEFINE kept == StillEligible(c)
           state == IF kept = {} THEN "PREVIEW_EXPIRED" ELSE "FROZEN"
           freed == [k \in Creators |->
                       IF reserved[k] # Free /\ campaign[reserved[k]].lapsed
                       THEN Free ELSE reserved[k]]
<1>1. RowsTyped /\ c # Free /\ state \in States
  BY PreviewBounds, InvTyped DEF States
<1>2. /\ campaign' = Moved(c, state)
      /\ row' = [row EXCEPT ![c] = [k \in Creators |->
                   IF k \in kept THEN "RESERVED"
                   ELSE IF k \in Selected(c) THEN "DISCOVERED" ELSE row[c][k]]]
      /\ reserved' = [k \in Creators |->
                        IF k \in kept THEN c
                        ELSE IF kept = {} /\ freed[k] = c THEN Free ELSE freed[k]]
  BY <1>0 DEF Freeze
<1>3. /\ campaign'[c].state = state
      /\ \A d \in Campaigns \ {c} : campaign'[d] = campaign[d]
  <2> HIDE DEF state
  <2> QED BY <1>1, <1>2, MovedFacts
<1>4. /\ \A d \in Campaigns \ {c} : row'[d] = row[d]
      /\ \A k \in Creators :
           row'[c][k] = IF k \in kept THEN "RESERVED"
                        ELSE IF k \in Selected(c) THEN "DISCOVERED" ELSE row[c][k]
  <2> HIDE DEF kept
  <2> QED BY <1>1, <1>2 DEF RowsTyped
<1>5. \A k \in Creators :
        /\ reserved[k] \in Campaigns \cup {Free}
        /\ k \in kept => /\ reserved'[k] = c
                         /\ reserved[k] # Free => campaign[reserved[k]].lapsed
        /\ k \notin kept /\ reserved[k] # Free /\ campaign[reserved[k]].lapsed =>
             reserved'[k] = Free
        /\ k \notin kept /\ reserved[k] # Free /\ ~campaign[reserved[k]].lapsed =>
             reserved'[k] = IF kept = {} /\ reserved[k] = c THEN Free ELSE reserved[k]
        /\ k \notin kept /\ reserved[k] = Free => reserved'[k] = Free
  BY <1>1, <1>2 DEF RowsTyped, StillEligible
<1>6. \A k \in Creators : k \in kept => k \in Selected(c)
  BY DEF StillEligible
<1>7. Owned(c)
  BY <1>1 DEF ReservationInv
<1>8. ASSUME kept # {} PROVE \A k \in Creators : reserved'[k] = c => k \in kept
  <2> SUFFICES ASSUME NEW k \in Creators, reserved'[k] = c, k \notin kept PROVE FALSE
    OBVIOUS
  <2>1. reserved[k] = c /\ ~campaign[c].lapsed
    BY <1>1, <1>5
  <2>2. PICK l \in Creators : l \in kept
    BY <1>8 DEF StillEligible, Selected
  <2>3. row[c][l] \in {"RESERVED", "QUEUED"} /\ row[c][k] \in {"RESERVED", "QUEUED"}
    BY <1>6, <1>7, <2>1, <2>2 DEF Owned, Selected
  <2>4. reserved[l] = c
    BY <1>7, <2>1, <2>3 DEF Owned
  <2> QED BY <1>1, <1>5, <2>1, <2>2, <2>4
<1> HIDE DEF kept
<1>9. Owned(c)'
  <2>1. CASE kept = {}
    <3>1. \A k \in Creators : reserved'[k] # c
      BY <1>1, <1>5, <2>1
    <3> QED BY <1>1, <1>3, <2>1, <3>1, NoneOwned
  <2>2. CASE kept # {}
    <3>1. campaign'[c].state = "FROZEN"
      BY <1>3, <2>2
    <3>2. \A k \in Creators : reserved'[k] = c <=> k \in kept
      BY <1>5, <1>8, <2>2
    <3>3. \A k \in Creators : k \in kept <=> row'[c][k] \in {"RESERVED", "QUEUED"}
      BY <1>4 DEF Selected
    <3>4. \A k \in Creators : row'[c][k] \notin {"SELECTED", "CANCELLED"}
      BY <1>4 DEF Selected
    <3> QED BY <3>1, <3>2, <3>3, <3>4 DEF Owned
  <2> QED BY <2>1, <2>2
<1>10. ASSUME NEW d \in Campaigns \ {c}
       PROVE  \/ \A k \in Creators : reserved'[k] = d <=> reserved[k] = d
              \/ campaign[d].lapsed /\ \A k \in Creators : reserved'[k] # d
  <2>1. d # Free
    BY PreviewBounds
  <2>2. CASE campaign[d].lapsed
    BY <1>5, <2>1, <2>2
  <2>3. CASE ~campaign[d].lapsed
    BY <1>5, <2>1, <2>3
  <2> QED BY <2>2, <2>3
<1> QED BY <1>1, <1>3, <1>4, <1>9, <1>10, OneCampaign

\* Queueing pins the reservations as they are.
LEMMA QueueFrozenReservations ==
  ASSUME PreviewInv, ReservationInv, NEW r \in Requests, QueueFrozen(r)
  PROVE  ReservationInv'
<1>0. PICK c \in Campaigns : c = held[r].c
  BY HeldExists DEF QueueFrozen
<1>1. RowsTyped /\ reserved' = reserved /\ Owned(c) /\ "QUEUED" \in States
  BY InvTyped DEF QueueFrozen, ReservationInv, States
<1>2. CASE UNCHANGED <<campaign, row>>
  BY <1>1, <1>2 DEF ReservationInv, Owned
<1>3. CASE ~UNCHANGED <<campaign, row>>
  <2>1. /\ campaign[c].state = "FROZEN" /\ campaign' = Moved(c, "QUEUED")
        /\ row' = [row EXCEPT ![c] = [k \in Creators |->
                     IF row[c][k] = "RESERVED" THEN "QUEUED" ELSE row[c][k]]]
    BY <1>0, <1>3 DEF QueueFrozen
  <2>2. /\ campaign'[c].state = "QUEUED"
        /\ \A d \in Campaigns \ {c} : campaign'[d] = campaign[d] /\ row'[d] = row[d]
        /\ \A k \in Creators :
             row'[c][k] = IF row[c][k] = "RESERVED" THEN "QUEUED" ELSE row[c][k]
    BY <1>1, <2>1, MovedFacts DEF RowsTyped
  <2>3. \A k \in Creators :
          /\ row'[c][k] \in {"RESERVED", "QUEUED"} <=>
               row[c][k] \in {"RESERVED", "QUEUED"}
          /\ row[c][k] # "SELECTED" => row'[c][k] # "SELECTED"
    BY <2>2
  <2>4. Owned(c)'
    BY <1>1, <2>1, <2>2, <2>3 DEF Owned
  <2> QED BY <1>1, <2>2, <2>4, OneCampaign
<1> QED BY <1>2, <1>3

\* Whom a campaign reserves is unsent, and released when it is cancelled.
LEMMA CancelReservations ==
  ASSUME PreviewInv, ReservationInv, NEW r \in Requests, Cancel(r)
  PROVE  ReservationInv'
<1>0. PICK c \in Campaigns : c = held[r].c
  BY HeldExists DEF Cancel
<1> DEFINE unsent == {k \in Creators : row[c][k] \in {"RESERVED", "QUEUED"}}
<1>1. RowsTyped /\ c # Free /\ Owned(c) /\ "CANCELLED" \in States
  BY InvTyped, PreviewBounds DEF ReservationInv, States
<1>2. /\ campaign' = Moved(c, "CANCELLED")
      /\ row' = [row EXCEPT ![c] = [k \in Creators |->
                   IF k \in unsent THEN "CANCELLED" ELSE row[c][k]]]
      /\ reserved' = [k \in Creators |->
                        IF k \in unsent /\ reserved[k] = c THEN Free ELSE reserved[k]]
  BY <1>0 DEF Cancel
<1>3. \A k \in Creators : reserved[k] = c => k \in unsent
  BY <1>1 DEF Owned
<1>4. \A d \in Campaigns \ {c} : row'[d] = row[d]
  <2> HIDE DEF unsent
  <2> QED BY <1>1, <1>2 DEF RowsTyped
<1> HIDE DEF unsent
<1>5. /\ campaign'[c].state = "CANCELLED"
      /\ \A d \in Campaigns \ {c} : campaign'[d] = campaign[d]
  BY <1>1, <1>2, MovedFacts
<1>6. /\ \A k \in Creators : reserved'[k] # c
      /\ \A d \in Campaigns \ {c}, k \in Creators : reserved'[k] = d <=> reserved[k] = d
  BY <1>1, <1>2, <1>3, PreviewBounds
<1>7. Owned(c)'
  BY <1>5, <1>6, NoneOwned
<1> QED BY <1>4, <1>5, <1>6, <1>7, OneCampaign

\* A campaign that is committed reserves nobody.
LEMMA CommitReservations ==
  ASSUME PreviewInv, ReservationInv, NEW r \in Requests, CommitCampaign(r)
  PROVE  ReservationInv'
<1>1. RowsTyped
  BY InvTyped
<1>2. PICK c \in Campaigns, state \in {"DRAFT", "PREVIEW_READY"}, version \in Nat :
        /\ campaign[c].state = "NONE"
        /\ campaign' = [campaign EXCEPT ![c] = NewCampaign(r, state, version)]
        /\ \/ row' = row
           \/ row' = [row EXCEPT ![c] = PreviewRows(held[r].view, held[r].target)]
  BY DEF CommitCampaign, RebuildLocalPreview
<1>3. reserved' = reserved
  BY DEF CommitCampaign
<1>4. \A d \in Campaigns \ {c} : campaign'[d] = campaign[d] /\ row'[d] = row[d]
  BY <1>1, <1>2 DEF RowsTyped
<1>5. campaign'[c].state \notin {"FROZEN", "QUEUED"}
  BY <1>1, <1>2 DEF RowsTyped, NewCampaign
<1>6. \A k \in Creators : reserved'[k] # c
  BY <1>2, <1>3 DEF ReservationInv, Owned
<1>7. Owned(c)'
  BY <1>5, <1>6, NoneOwned
<1> QED BY <1>3, <1>4, <1>7, OneCampaign

\* The sweep releases all creators of a campaign.
LEMMA ExpireReservations ==
  ASSUME PreviewInv, ReservationInv, ExpireFrozenCampaigns
  PROVE  ReservationInv'
<1>1. PICK c \in Campaigns :
        /\ campaign' = Moved(c, "PREVIEW_EXPIRED")
        /\ reserved' = Releasing(c)
        /\ row' = [row EXCEPT ![c] = [k \in Creators |->
                     IF row[c][k] = "RESERVED" THEN "SELECTED" ELSE row[c][k]]]
  BY DEF ExpireFrozenCampaigns, ExpiredReservations
<1>2. RowsTyped /\ c # Free /\ "PREVIEW_EXPIRED" \in States
  BY InvTyped, PreviewBounds DEF States
<1>3. /\ campaign'[c].state = "PREVIEW_EXPIRED"
      /\ \A d \in Campaigns \ {c} : campaign'[d] = campaign[d]
  BY <1>1, <1>2, MovedFacts
<1>4. \A d \in Campaigns \ {c} : row'[d] = row[d]
  BY <1>1, <1>2 DEF RowsTyped
<1>5. /\ \A k \in Creators : reserved'[k] # c
      /\ \A d \in Campaigns \ {c}, k \in Creators : reserved'[k] = d <=> reserved[k] = d
  BY <1>1, <1>2, PreviewBounds DEF Releasing
<1>6. Owned(c)'
  BY <1>3, <1>5, NoneOwned
<1> QED BY <1>3, <1>4, <1>5, <1>6, OneCampaign

\* A freeze that lapses has less to hold.
LEMMA FreezeLapsesReservations ==
  ASSUME PreviewInv, ReservationInv, FreezeLapses
  PROVE  ReservationInv'
<1>1. PICK c \in Campaigns : campaign' = [campaign EXCEPT ![c].lapsed = TRUE]
  BY DEF FreezeLapses
<1>2. RowsTyped /\ UNCHANGED <<row, reserved>>
  BY InvTyped DEF FreezeLapses
<1>3. \A d \in Campaigns :
        /\ campaign'[d].state = campaign[d].state
        /\ campaign[d].lapsed => campaign'[d].lapsed
  BY <1>1, <1>2 DEF RowsTyped, Row
<1> QED BY <1>2, <1>3 DEF ReservationInv, Owned

\* Other steps leave campaigns, recipients and reservations alone.
LEMMA RestReservations ==
  ASSUME ReservationInv, UNCHANGED <<campaign, row, reserved>>
  PROVE  ReservationInv'
BY DEF ReservationInv, Owned

\* Every step keeps reservations in order.
LEMMA NextReservations ==
  PreviewInv /\ ReservationInv /\ [PreviewNext]_previewVars => ReservationInv'
<1> SUFFICES ASSUME PreviewInv, ReservationInv, [PreviewNext]_previewVars
             PROVE  ReservationInv'
  OBVIOUS
<1>1. CASE UNCHANGED previewVars
  BY <1>1, RestReservations DEF previewVars
<1>2. ASSUME NEW r \in Requests,
             \/ Create(r) \/ CloneFromPreview(r) \/ Discover(r) \/ Send(r)
             \/ CancelRead(r) \/ RequestFails(r)
      PROVE  ReservationInv'
  BY <1>2, RestReservations
     DEF Create, CloneFromPreview, Discover, Send, CancelRead, RequestFails, Rows
<1>3. ASSUME NEW r \in Requests,
             \/ LockSubmission(r) \/ AllocateCampaignName(r)
             \/ ReadCreatorDatabase(r) \/ LockEligibility(r) \/ CheckPreview(r)
             \/ RereadFrozen(r)
      PROVE  ReservationInv'
  BY <1>3, RestReservations
     DEF LockSubmission, AllocateCampaignName, ReadCreatorDatabase,
         LockEligibility, CheckPreview, RereadFrozen, Rows
<1>4. ASSUME NEW r \in Requests, RequestStep(r) PROVE ReservationInv'
  BY <1>3, <1>4, RebuildReservations, FreezeReservations, QueueFrozenReservations,
     CancelReservations, CommitReservations DEF RequestStep
<1>5. CASE FreezeLapses \/ ExpireFrozenCampaigns \/ ContactChanges
  BY <1>5, FreezeLapsesReservations, ExpireReservations, RestReservations
     DEF ContactChanges
<1> QED BY <1>1, <1>2, <1>4, <1>5 DEF PreviewNext

-----------------------------------------------------------------------------
(* Theorems *)

\* Both invariants hold from the start.
LEMMA PreviewInvariants == PreviewSpec => [](PreviewInv /\ ReservationInv)
<1>1. PreviewInit => ReservationInv
  BY PreviewBounds
     DEF PreviewInit, ReservationInv, Owned, NoCampaign, NoRows
<1> QED BY <1>1, InitInv, NextInv, NextReservations, PTL DEF PreviewSpec

\* Campaigns, recipients, reservations and locks stay well formed.
THEOREM PreviewTyped == PreviewSpec => []PreviewTypeOK
<1>1. PreviewInv => PreviewTypeOK
  BY DEF PreviewInv
<1> QED BY <1>1, PreviewInvariants, PTL

\* However many requests create or clone campaigns at a time, no two campaigns of
\* a day get the same name (campaign-naming.ts:21).
THEOREM NamesStayUnique == PreviewSpec => []NamesAreUnique
<1>1. PreviewInv => NamesAreUnique
  BY DEF PreviewInv
<1> QED BY <1>1, PreviewInvariants, PTL

\* However often a clone is submitted, one campaign is made of it
\* (outreach.service.ts:290-300).
THEOREM ClonesStaySingle == PreviewSpec => []CloneOnce
<1>1. PreviewInv => CloneOnce
  BY DEF PreviewInv
<1> QED BY <1>1, PreviewInvariants, PTL

\* A creator is never blocked by a campaign that is not frozen or queued with him,
\* and a freeze that lasts keeps all its creators (docs/architecture.md:35).
THEOREM ReservationsStayOwned == PreviewSpec => []ReservationsAreOwned
BY PreviewInvariants, ReservationInvImplies, PTL
=============================================================================
