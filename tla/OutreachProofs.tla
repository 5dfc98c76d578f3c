--------------------------- MODULE OutreachProofs ---------------------------
(***************************************************************************)
(* The promise of Outreach keeps a creator from a second message, for any  *)
(* set of recipients.                                                      *)
(***************************************************************************)
EXTENDS Outreach, TLAPS

\* A message TikTok took is under an exclusive record, and a creator has one.
TakenIsExclusive ==
    \A r \in Recipient : taken[r] \in {0, 1}
                         /\ (taken[r] = 1 => record[r] \in Exclusive)
OneExclusive ==
    \A r \in Recipient : record[r] \in Exclusive =>
        \A q \in Rivals(r) : record[q] \notin Exclusive

Inv == TypeOK /\ TakenIsExclusive /\ OneExclusive

LEMMA InvInit == Init => Inv
  BY DEF Init, Inv, TypeOK, TakenIsExclusive, OneExclusive, Record, Exclusive

\* Rivalry is symmetric.
LEMMA RivalsSymmetric ==
    \A r, q \in Recipient : q \in Rivals(r) <=> r \in Rivals(q)
  BY DEF Rivals

LEMMA InvStep == Inv /\ [Next]_vars => Inv'
  <1> SUFFICES ASSUME Inv, [Next]_vars PROVE Inv'
    OBVIOUS
  <1> USE DEF Inv, TypeOK, TakenIsExclusive, Record, Exclusive
  <1>1. CASE UNCHANGED vars
    BY <1>1 DEF vars, OneExclusive, Rivals
  <1>2. ASSUME NEW r \in Recipient, Begin(r) PROVE Inv'
    <2>1. TypeOK' /\ TakenIsExclusive'
      BY <1>2 DEF Begin, Becomes
    <2>2. OneExclusive'
      BY <1>2, RivalsSymmetric DEF Begin, Becomes, OneExclusive, Rivals
    <2> QED BY <2>1, <2>2
  <1>3. ASSUME NEW r \in Recipient, Take(r) PROVE Inv'
    BY <1>3 DEF Take, OneExclusive, Rivals
  <1>4. ASSUME NEW r \in Recipient,
               Confirm(r) \/ Retry(r) \/ Refuse(r) \/ LoseTrack(r) \/ Withdraw(r)
        PROVE Inv'
    <2>1. /\ TypeOK' /\ TakenIsExclusive'
          /\ \A q \in Recipient : record'[q] \in Exclusive => record[q] \in Exclusive
      BY <1>4 DEF Confirm, Retry, Refuse, LoseTrack, Withdraw, Becomes
    <2>2. OneExclusive'
      BY <2>1 DEF OneExclusive, Rivals
    <2> QED BY <2>1, <2>2
  <1> QED BY <1>1, <1>2, <1>3, <1>4 DEF Next

LEMMA Invariance == Spec => []Inv
  BY InvInit, InvStep, PTL DEF Spec

\* Whatever implements Outreach sends a creator at most one message over all
\* campaigns (docs/architecture.md on dedupe by exact Creator Open ID).
THEOREM OneMessageTaken == Spec => []OneTakenPerCreator
  <1>1. ASSUME Inv, NEW r \in Recipient
        PROVE  taken[r] <= 1 /\ (taken[r] = 1 => \A q \in Rivals(r) : taken[q] = 0)
    <2>1. taken[r] \in {0, 1}
      BY <1>1 DEF Inv, TakenIsExclusive
    <2>2. ASSUME taken[r] = 1, NEW q \in Rivals(r) PROVE taken[q] = 0
      <3>1. q \in Recipient /\ taken[q] \in {0, 1} /\ record[q] \notin Exclusive
        BY <1>1, <2>2 DEF Inv, TakenIsExclusive, OneExclusive, Rivals
      <3> QED BY <3>1, <1>1 DEF Inv, TakenIsExclusive
    <2> QED BY <2>1, <2>2
  <1>2. Inv => OneTakenPerCreator
    BY <1>1 DEF OneTakenPerCreator
  <1> QED BY <1>2, Invariance, PTL

=============================================================================
