--------------------------- MODULE MCHistorySync ---------------------------
(* A small instance of the history import. *)
EXTENDS HistorySync

CONSTANTS t1, t2, c1, c2

TwoTicks == {t1, t2}
TwoConversations == {c1, c2}
Two == <<c1, c2>>
=============================================================================
