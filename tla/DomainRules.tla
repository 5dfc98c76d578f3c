----------------------------- MODULE DomainRules -----------------------------
(***************************************************************************)
(* The rules of the preview (packages/domain/src/index.ts): who of the     *)
(* creators in the database is eligible, why the others are skipped, and   *)
(* who is selected.  The filters are one test and the ranking metric is    *)
(* one number, which TikTok may not have given; a creator is named by its  *)
(* rank in the order of Open IDs.                                          *)
(*                                                                         *)
(* The variant of an operator with a qualifier, defined just before it, is *)
(* a faulty one that no action uses and that the properties must reject.   *)
(***************************************************************************)
EXTENDS Integers, Sequences, FiniteSets

LOCAL INSTANCE SequencesExt

CONSTANTS Creators, \* creators, by the order of their Open IDs
          Missing   \* a metric TikTok did not return

ASSUME DomainBounds == Creators \subseteq Nat /\ Missing \in Int /\ Missing < 0

Flags == {"DO_NOT_CONTACT", "DELIVERY_UNKNOWN", "COOLDOWN"}
Directions == {"ASC", "DESC"}

\* What buildPreview is given: the metric of each creator, the least metric the
\* filters accept (Missing without filters), contact states and reservations.
Views == [value : [Creators -> Nat \cup {Missing}], least : Nat \cup {Missing},
          direction : Directions, flags : [Creators -> SUBSET Flags],
          reserved : SUBSET Creators]

\* matchesFilters: a bounded metric must be there.
MatchesFilters(k, v) ==
  v.least # Missing => v.value[k] # Missing /\ v.value[k] >= v.least

Applies(reason, k, v) ==
  CASE reason = "FILTER_MISMATCH" -> ~MatchesFilters(k, v)
    [] reason \in Flags -> reason \in v.flags[k]
    [] reason = "ACTIVE_RESERVATION" -> k \in v.reserved

\* The first reason that applies is reported.
Priority == <<"FILTER_MISMATCH", "DO_NOT_CONTACT", "DELIVERY_UNKNOWN",
              "COOLDOWN", "ACTIVE_RESERVATION">>
Reasons(k, v) == SelectSeq(Priority, LAMBDA reason : Applies(reason, k, v))

Eligible(v) == {k \in Creators : Reasons(k, v) = <<>>}

\* The sort of the eligible: by the metric, a missing one below all others,
\* then by Open ID.
AheadIgnoresDirection(a, b, v) ==
  \/ v.value[a] > v.value[b]
  \/ v.value[a] = v.value[b] /\ a < b
Ahead(a, b, v) ==
  \/ IF v.direction = "ASC" THEN v.value[a] < v.value[b]
                            ELSE v.value[a] > v.value[b]
  \/ v.value[a] = v.value[b] /\ a < b

\* buildPreview: the first requested ones of the sorted eligible.
BuildPreview(v, requested) ==
  LET sorted == SetToSortSeq(Eligible(v), LAMBDA a, b : Ahead(a, b, v))
      count == IF requested < Len(sorted) THEN requested ELSE Len(sorted)
  IN {sorted[i] : i \in 1..count}

\* assertCampaignWithinLimit
WithinLimitOrNone(requested, ceiling) == requested <= ceiling
WithinLimit(requested, ceiling) == requested \in 1..ceiling
-----------------------------------------------------------------------------
(* Reference *)

\* A best selection: as many as were asked for or can be had, and nobody left
\* out for a creator with a worse metric, or with the same and a later Open ID.
Better(a, b, v) ==
  LET left == v.value[a] right == v.value[b]
  IN IF left = right THEN a < b ELSE (left < right) = (v.direction = "ASC")
BestSelection(chosen, v, requested) ==
  /\ chosen \subseteq {k \in Creators :
       /\ v.flags[k] = {} /\ k \notin v.reserved
       /\ v.least = Missing \/ v.value[k] >= v.least}
  /\ Cardinality(chosen) <= requested
  /\ \A k \in Creators \ chosen :
       \/ v.flags[k] # {} \/ k \in v.reserved
       \/ v.least # Missing /\ v.value[k] < v.least
       \/ /\ Cardinality(chosen) = requested
          /\ \A s \in chosen : ~Better(k, s, v)
=============================================================================
