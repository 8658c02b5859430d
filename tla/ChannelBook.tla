----------------------------- MODULE ChannelBook -----------------------------
(***************************************************************************)
(* What a mining server promises about the channels it opens: they are     *)
(* entered one at a time and never changed, no two on one connection have  *)
(* the same id, and no two channels of one kind, on any connections, have  *)
(* the same extranonce prefix.                                             *)
(***************************************************************************)
VARIABLE book   \* the channels opened so far

SameName(a, b)   == a.conn = b.conn /\ a.id = b.id
SameSearch(a, b) == a.kind = b.kind /\ a.prefix = b.prefix

Fresh(ch) == \A other \in book : ~SameName(other, ch) /\ ~SameSearch(other, ch)

Init == book = {}

Open == \E ch \in book' : Fresh(ch) /\ book' = book \cup {ch}

Spec == Init /\ [][Open]_book
=============================================================================
