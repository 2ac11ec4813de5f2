----------------------- MODULE MutationLogRefinement -----------------------
(***************************************************************************)
(* MutationLog, one request at a time and without force, implements        *)
(* UndoStack.  A change counts from the row's write, before its entry is   *)
(* inserted; an undo from its write, before the entry is marked.           *)
(***************************************************************************)
EXTENDS MutationLog

\* Requests between the write of r and the insert of its log entry.
Writing(r) == {p \in Reqs : pc[p] = "log" /\ req[p].target = r}

\* The entries of r whose effect is in place.
Standing(r) ==
    {i \in Undoable : log[i].target = r} \ {req[p].cur : p \in {p \in Reqs : pc[p] = "mark"}}

Past(r) ==
    IF Writing(r) = {} THEN [i \in Standing(r) |-> log[i].before]
    ELSE LET p == CHOOSE p \in Writing(r) : TRUE
         IN [i \in Standing(r) \cup {Len(log) + 1} |->
                IF i \in DOMAIN log THEN log[i].before ELSE req[p].before]

Stack == INSTANCE UndoStack WITH row <- rec, past <- [r \in Recs |-> Past(r)]

\* Commands and rollbacks served one at a time behave as an undo stack per row:
\* a rollback that is not refused puts back exactly the row that was there before
\* the latest change of it, through deletes, revivals and whole transactions.
ImplementsUndoStack == Stack!Spec
=============================================================================
