----------------------------- MODULE UndoStack -----------------------------
(***************************************************************************)
(* What undoing promises the author, one row at a time: every change of a  *)
(* row is remembered with the row it replaced, only the latest change not  *)
(* yet undone can be undone, and undoing it puts the replaced row back --  *)
(* or, when it was the change that created the row, soft-deletes the row.  *)
(*                                                                         *)
(* A row's past is a stack whose places are numbered with gaps: the keys   *)
(* of past[r] grow from the oldest change to the latest.                   *)
(***************************************************************************)
EXTENDS Naturals

CONSTANTS Recs, Contents, Null

Row == [content : Contents, deleted : BOOLEAN]

VARIABLES
    row,   \* row id -> the row or Null
    past   \* row id -> place of a change not undone -> the row it replaced

vars == <<row, past>>

Init ==
    /\ row \in [Recs -> {Null} \cup Row]
    /\ past = [r \in Recs |-> [k \in {} |-> Null]]

\* The place k of the new change is the one past'[r] has and past[r] has not.
Change(r, k, new) ==
    /\ \A i \in DOMAIN past[r] : i < k
    /\ row' = [row EXCEPT ![r] = new]
    /\ past' = [past EXCEPT ![r] =
                  [i \in DOMAIN past[r] \cup {k} |->
                      IF i = k THEN row[r] ELSE past[r][i]]]

Undo(r, k) ==
    LET old == past[r][k] IN
    /\ \A i \in DOMAIN past[r] : i <= k
    /\ row' = [row EXCEPT ![r] = IF old = Null THEN [row[r] EXCEPT !.deleted = TRUE] ELSE old]
    /\ past' = [past EXCEPT ![r] = [i \in DOMAIN past[r] \ {k} |-> past[r][i]]]

Next ==
    \E r \in Recs :
        \/ \E k \in DOMAIN past'[r], new \in Row : Change(r, k, new)
        \/ \E k \in DOMAIN past[r] : Undo(r, k)

Spec == Init /\ [][Next]_vars
=============================================================================
