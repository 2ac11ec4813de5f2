---------------------------- MODULE MutationLog ----------------------------
(***************************************************************************)
(* The mutation log of one author's project and the rollback commands that *)
(* read it: createWithLog, updateWithLog, softDeleteWithLog, rollbackOne   *)
(* and rollbackCommand of apps/web/src/server/handlers.ts, the handlers    *)
(* that call them, and the page server actions that write the same rows    *)
(* without them.                                                           *)
(*                                                                         *)
(* A request is a process; every awaited query is one atomic step, since   *)
(* no database transaction spans two of them.  A row's columns are         *)
(* abstracted to one content value and its deletedAt flag.                 *)
(***************************************************************************)
EXTENDS Naturals, Sequences, FiniteSets

CONSTANTS
    Recs,         \* ids of the rows of the project, its own row included
    Project,      \* the project's own row
    Tags,         \* timeline tags: rows addressed by their unique name
    Contents,     \* what the columns of a row can hold
    Seeds,        \* bound: what the rows there are at first hold
    Reqs,         \* HTTP requests
    Null,         \* SQL NULL, and the row that does not exist
    MaxInFlight,  \* bound: requests being served at the same time
    Crashes,      \* may a request die between two awaits?
    Ties,         \* may two log entries share a millisecond?
    Pages,        \* are the page server actions used?
    Forces        \* values of the `force` flag a rollback may be sent with

Row == [content : Contents, deleted : BOOLEAN]

ASSUME RowsAssumption ==
    /\ Project \in Recs \ Tags
    /\ Tags \subseteq Recs
    /\ Seeds \subseteq Contents /\ Contents # {}
    /\ Null \notin Row
    /\ Null \notin Reqs
    /\ Forces \subseteq BOOLEAN
    /\ Crashes \in BOOLEAN /\ Ties \in BOOLEAN /\ Pages \in BOOLEAN
    /\ MaxInFlight \in Nat

VARIABLES
    rec,         \* the project's tables: row id -> row or Null
    log,         \* the MutationLog table, in insertion order
    rolledBack,  \* indices of the entries whose rolledBackAt is set
    pc,          \* where each request is: an await, or its reply
    req,         \* each request's input and local variables
    undone       \* history: <<p, i>> when request p has undone entry i's effect

vars == <<rec, log, rolledBack, pc, req, undone>>

(***************************************************************************)
(* Types.                                                                  *)
(***************************************************************************)
Mutations == {"create", "update", "delete", "tag"}
PageOps   == {"pageCreate", "pageUpdate", "pageDelete", "pageTag"}
TagOps    == {"tag", "pageTag"}
Undos     == {"undoCommand", "undoTransaction", "undoLast"}
Ops       == Mutations \cup PageOps \cup Undos

Replies == {"ok", "notfound", "conflict", "error", "lost"}
Awaits  == {"own", "lookup", "insert", "write", "log",
            "check", "fetch", "undo", "mark", "logback"}

Entry == [action : {"CREATE", "UPDATE", "DELETE", "ROLLBACK"},
          target : Recs,
          before : Row \cup {Null},
          after  : Row \cup {Null},
          tx     : Reqs \cup {Null},
          at     : Nat \ {0}]

Request == [op      : Ops,
            target  : Recs,
            content : Contents,
            force   : BOOLEAN,
            tx      : Reqs \cup {Null},
            left    : 0..2,
            before  : Row \cup {Null},
            after   : Row \cup {Null},
            todo    : SUBSET Nat,
            cur     : Nat]

(***************************************************************************)
(* Reading the tables.                                                     *)
(***************************************************************************)
Exists(r) == rec[r] # Null
Live(r)   == Exists(r) /\ ~rec[r].deleted

Idle     == {p \in Reqs : pc[p] = "idle"}
InFlight == {p \in Reqs : pc[p] \in Awaits}

\* createdAt of the next log entry: the clock moves on or, when it has not
\* ticked since the last insert, repeats the millisecond.
LastAt == IF log = <<>> THEN 0 ELSE log[Len(log)].at
Stamps == {LastAt + 1} \cup (IF Ties /\ log # <<>> THEN {LastAt} ELSE {})

\* Entries a rollback may still select: rolledBackAt null, action not ROLLBACK.
Undoable == {i \in DOMAIN log : i \notin rolledBack /\ log[i].action # "ROLLBACK"}

\* Mutant: the selection is not ordered.
MutNewest(S) == S

\* The entries `orderBy createdAt desc` may put first; equal stamps are in no order.
Newest(S) == {i \in S : \A j \in S : log[j].at <= log[i].at}

\* Mutant: only a later delete is taken for a conflict.
MutLaterMutation(i) == {j \in Undoable : log[j].target = log[i].target
                                         /\ log[j].at > log[i].at
                                         /\ log[j].action = "DELETE"}

\* rollbackOne's laterMutation.
LaterMutation(i) == {j \in Undoable : log[j].target = log[i].target
                                      /\ log[j].at > log[i].at}

\* Ids of commands whose response, and so whose transactionId, has been received.
KnownTx == {p \in Reqs : pc[p] = "ok" /\ req[p].op = "create" /\ req[p].tx = p}

(***************************************************************************)
(* What the queries write.                                                 *)
(***************************************************************************)
NewRow(c) == [content |-> c, deleted |-> FALSE]

Written(op, c, row) ==
    CASE op \in {"update", "pageUpdate"} -> [row EXCEPT !.content = c]
      [] op \in {"delete", "pageDelete"} -> [row EXCEPT !.deleted = TRUE]
      [] op \in TagOps                   -> [row EXCEPT !.deleted = FALSE]

\* Mutant: deletedAt is dropped from the restored snapshot.
MutRestored(e, row) ==
    CASE e.action = "CREATE" -> [row EXCEPT !.deleted = TRUE]
      [] e.action = "DELETE" -> [row EXCEPT !.deleted = FALSE]
      [] e.action = "UPDATE" -> [e.before EXCEPT !.deleted = row.deleted]

\* The row a rollback of entry e leaves: restoreData keeps deletedAt, so an
\* UPDATE puts the whole earlier row back.
Restored(e, row) ==
    CASE e.action = "CREATE" -> [row EXCEPT !.deleted = TRUE]
      [] e.action = "DELETE" -> [row EXCEPT !.deleted = FALSE]
      [] e.action = "UPDATE" -> e.before

\* Mutant: reviving a tag gets an action name of its own.
MutActionOf(q) == CASE q.before = Null   -> "CREATE"
                    [] q.op = "tag"      -> "REVIVE"
                    [] q.op = "delete"   -> "DELETE"
                    [] OTHER             -> "UPDATE"

ActionOf(q) == CASE q.before = Null   -> "CREATE"
                 [] q.op = "delete"   -> "DELETE"
                 [] OTHER             -> "UPDATE"

\* Mutant: the before snapshot is taken from the row the write returned.
MutMutationEntry(q, at) ==
    [action |-> ActionOf(q), target |-> q.target, before |-> q.after,
     after |-> q.after, tx |-> q.tx, at |-> at]

MutationEntry(q, at) ==
    [action |-> ActionOf(q), target |-> q.target, before |-> q.before,
     after |-> q.after, tx |-> q.tx, at |-> at]

\* Mutant: the row a rollback leaves is not what its entry records.
MutRollbackEntry(q, at) ==
    [action |-> "ROLLBACK", target |-> q.target, before |-> q.before,
     after |-> q.before, tx |-> Null, at |-> at]

RollbackEntry(q, at) ==
    [action |-> "ROLLBACK", target |-> q.target, before |-> q.before,
     after |-> q.after, tx |-> Null, at |-> at]

(***************************************************************************)
(* Initial states: nothing yet, or a project and rows the page forms       *)
(* (projects/new, scenes/new, ...) have created, which write no log.       *)
(***************************************************************************)
Blank == [op |-> "create", target |-> Project, content |-> CHOOSE c \in Contents : TRUE,
          force |-> FALSE, tx |-> Null, left |-> 0,
          before |-> Null, after |-> Null, todo |-> {}, cur |-> 0]

Init ==
    /\ rec \in [Recs -> {Null} \cup {NewRow(c) : c \in Seeds}]
    /\ rec[Project] = Null => \A r \in Recs : rec[r] = Null
    /\ log = <<>>
    /\ rolledBack = {}
    /\ pc = [p \in Reqs |-> "idle"]
    /\ req = [p \in Reqs |-> Blank]
    /\ undone = {}

(***************************************************************************)
(* A request arrives.  The first query of each handler is part of this     *)
(* step; a request it rejects changes nothing and is left out.             *)
(***************************************************************************)
Arrive(p, step, q) ==
    /\ pc[p] = "idle"
    /\ Cardinality(InFlight) < MaxInFlight
    /\ pc' = [pc EXCEPT ![p] = step]
    /\ req' = [req EXCEPT ![p] = q]
    /\ UNCHANGED <<rec, log, rolledBack, undone>>

\* POST of a collection (one row, no transaction) and the commands that save
\* under one transactionId: save-generated-scene and save-character-note, with
\* the chapter or the character they may have to create first.
StartCreate(p) ==
    \E c \in Contents, n \in {1, 2}, tx \in {p, Null} :
        /\ Live(Project)
        /\ n = 2 => tx = p
        /\ Arrive(p, "insert", [Blank EXCEPT !.op = "create",
                                             !.content = c, !.left = n, !.tx = tx])

\* POST /projects and create-private-project: the project's row, then its
\* first story-state snapshot.  A project id is minted once, and without a
\* project no other request of it can be in flight.
StartNewProject(p) ==
    \E c \in Contents :
        /\ ~Exists(Project)
        /\ InFlight = {}
        /\ Arrive(p, "insert", [Blank EXCEPT !.op = "create",
                                             !.content = c, !.left = 2, !.tx = p])

\* PATCH, DELETE, save-character and delete-project-data: requireOwnedTarget
\* reads the row, and checks the project in its next query.  A tag's one column is
\* its name, which is its identity here: renaming one is left out.
StartChange(p) ==
    \E r \in {r \in Recs : Live(r)} :
        LET Change(op, c) ==
                Arrive(p, "own", [Blank EXCEPT !.op = op, !.target = r,
                                               !.content = c, !.before = rec[r]])
        IN \/ r \notin Tags /\ \E c \in Contents : Change("update", c)
           \/ Change("delete", Blank.content)

\* POST timeline-tags.
StartTag(p) ==
    \E r \in Tags :
        /\ Live(Project)
        /\ Arrive(p, "lookup", [Blank EXCEPT !.op = "tag", !.target = r])

\* A form of a page that was rendered while its row was live, and the tag forms
\* of the timeline page.  (deleteProject and updateProjectSettings call the API.)
StartPage(p) ==
    LET Submit(op, step, r, c, n) ==
            Arrive(p, step, [Blank EXCEPT !.op = op, !.target = r, !.content = c, !.left = n])
        c0 == Blank.content
    IN /\ Pages
       /\ Live(Project)
       /\ \/ \E c \in Contents : Submit("pageCreate", "insert", Project, c, 1)
          \/ \E r \in {r \in Recs \ Tags : Exists(r)}, c \in Contents :
                 Submit("pageUpdate", "write", r, c, 0)
          \/ \E r \in {r \in Recs \ {Project} : IF r \in Tags THEN Live(r) ELSE Exists(r)} :
                 Submit("pageDelete", "write", r, c0, 0)
          \/ \E r \in Tags :
                 IF Exists(r) THEN Submit("pageTag", "write", r, c0, 0)
                 ELSE Submit("pageTag", "insert", r, c0, 1)

\* rollback-command and undo-last-command: rollbackCommand's query selects
\* what to undo.  undo-last filters by user and project only.
StartUndo(p) ==
    \E f \in Forces :
        LET Ask(op, tx, S) ==
                S # {} /\ Arrive(p, "check", [Blank EXCEPT !.op = op, !.force = f,
                                                           !.tx = tx, !.todo = S])
        IN \/ \E i \in Undoable : Ask("undoCommand", Null, {i})
           \/ \E x \in KnownTx : Ask("undoTransaction", x, {i \in Undoable : log[i].tx = x})
           \/ \E i \in Newest(Undoable) : Ask("undoLast", Null, {i})

Start(p) ==
    \/ StartCreate(p) \/ StartNewProject(p) \/ StartChange(p)
    \/ StartTag(p) \/ StartPage(p) \/ StartUndo(p)

(***************************************************************************)
(* The awaits of a mutation.                                               *)
(***************************************************************************)
At(p, step) == pc[p] = step
Goto(p, step) == pc' = [pc EXCEPT ![p] = step]

\* requireOwnedProject, the second query of requireOwnedTarget.
Own(p) ==
    /\ At(p, "own")
    /\ Goto(p, IF Live(Project) THEN "write" ELSE "notfound")
    /\ UNCHANGED <<rec, log, rolledBack, req, undone>>

\* The tag's name is looked up among live and deleted rows alike.
LookupTag(p) ==
    LET row == rec[req[p].target] IN
    /\ At(p, "lookup")
    /\ Goto(p, IF row = Null THEN "insert" ELSE IF row.deleted THEN "write" ELSE "ok")
    /\ req' = [req EXCEPT ![p].before = row, ![p].left = IF row = Null THEN 1 ELSE 0]
    /\ UNCHANGED <<rec, log, rolledBack, undone>>

\* What follows a write: recordMutation, or the redirect of a page action.
AfterWrite(op) == IF op \in PageOps THEN "ok" ELSE "log"

\* The ids a create may get: the tag's own row, the project's, or a fresh one.
Fresh(p) ==
    CASE req[p].op \in TagOps -> {req[p].target}
      [] ~Exists(Project)     -> {Project}
      [] OTHER                -> {r \in Recs \ (Tags \cup {Project}) : ~Exists(r)}

\* delegate.create.  A tag name taken since the lookup violates the unique index.
Insert(p) ==
    \E r \in Fresh(p) :
        /\ At(p, "insert")
        /\ IF Exists(r)
           THEN Goto(p, "error") /\ UNCHANGED <<rec, req>>
           ELSE /\ Goto(p, AfterWrite(req[p].op))
                /\ rec' = [rec EXCEPT ![r] = NewRow(req[p].content)]
                /\ req' = [req EXCEPT ![p].target = r, ![p].before = Null,
                                      ![p].after = NewRow(req[p].content),
                                      ![p].left = @ - 1]
        /\ UNCHANGED <<log, rolledBack, undone>>

\* delegate.update where id: neither deletedAt nor the row read before is in
\* the condition.
Write(p) ==
    LET q == req[p]
        row == Written(q.op, q.content, rec[q.target])
    IN /\ At(p, "write")
       /\ Goto(p, AfterWrite(q.op))
       /\ rec' = [rec EXCEPT ![q.target] = row]
       /\ req' = [req EXCEPT ![p].after = row]
       /\ UNCHANGED <<log, rolledBack, undone>>

\* recordMutation, then the next row of the command or the reply with its commandId.
Log(p) ==
    /\ At(p, "log")
    /\ \E at \in Stamps : log' = Append(log, MutationEntry(req[p], at))
    /\ Goto(p, IF req[p].left > 0 THEN "insert" ELSE "ok")
    /\ req' = [req EXCEPT ![p].cur = Len(log) + 1]
    /\ UNCHANGED <<rec, rolledBack, undone>>

(***************************************************************************)
(* The awaits of rollbackOne, and rollbackCommand's loop over them.        *)
(***************************************************************************)

\* The query for a later mutation of the same row; the entry itself was read by
\* StartUndo's query and is not read again.
Check(p) ==
    \E i \in Newest(req[p].todo) :
        /\ At(p, "check")
        /\ Goto(p, IF LaterMutation(i) # {} /\ ~req[p].force THEN "conflict" ELSE "fetch")
        /\ req' = [req EXCEPT ![p].cur = i, ![p].target = log[i].target]
        /\ UNCHANGED <<rec, log, rolledBack, undone>>

\* Mutant: the entry is marked before its effect is undone.
MutFetch(p) ==
    /\ At(p, "fetch")
    /\ Goto(p, "mark")
    /\ req' = [req EXCEPT ![p].before = rec[req[p].target]]
    /\ UNCHANGED <<rec, log, rolledBack, undone>>

Fetch(p) ==
    /\ At(p, "fetch")
    /\ Goto(p, "undo")
    /\ req' = [req EXCEPT ![p].before = rec[req[p].target]]
    /\ UNCHANGED <<rec, log, rolledBack, undone>>

Undo(p) ==
    LET q == req[p]
        row == Restored(log[q.cur], rec[q.target])
    IN /\ At(p, "undo")
       /\ Goto(p, "mark")
       /\ rec' = [rec EXCEPT ![q.target] = row]
       /\ req' = [req EXCEPT ![p].after = row]
       /\ undone' = undone \cup {<<p, q.cur>>}
       /\ UNCHANGED <<log, rolledBack>>

Mark(p) ==
    /\ At(p, "mark")
    /\ Goto(p, "logback")
    /\ rolledBack' = rolledBack \cup {req[p].cur}
    /\ req' = [req EXCEPT ![p].todo = @ \ {req[p].cur}]
    /\ UNCHANGED <<rec, log, undone>>

\* Mutant: the loop ends after its first entry.
MutLogBack(p) ==
    /\ At(p, "logback")
    /\ \E at \in Stamps : log' = Append(log, RollbackEntry(req[p], at))
    /\ Goto(p, "ok")
    /\ UNCHANGED <<rec, rolledBack, req, undone>>

LogBack(p) ==
    /\ At(p, "logback")
    /\ \E at \in Stamps : log' = Append(log, RollbackEntry(req[p], at))
    /\ Goto(p, IF req[p].todo = {} THEN "ok" ELSE "check")
    /\ UNCHANGED <<rec, rolledBack, req, undone>>

\* The Worker is evicted, or a query fails: nothing after this await happens.
Crash(p) ==
    /\ Crashes
    /\ pc[p] \in Awaits
    /\ Goto(p, "lost")
    /\ UNCHANGED <<rec, log, rolledBack, req, undone>>

Serve(p) ==
    \/ Own(p) \/ LookupTag(p) \/ Insert(p) \/ Write(p) \/ Log(p)
    \/ Check(p) \/ Fetch(p) \/ Undo(p) \/ Mark(p) \/ LogBack(p)

Next == \E p \in Reqs : Start(p) \/ Serve(p) \/ Crash(p)

Spec == Init /\ [][Next]_vars

(***************************************************************************)
(* Properties.                                                             *)
(***************************************************************************)

\* The tables and every request hold values of their types; an entry marked
\* rolled back, or waiting to be, is an entry of the log.
TypeOK ==
    /\ rec \in [Recs -> Row \cup {Null}]
    /\ log \in Seq(Entry)
    /\ rolledBack \subseteq DOMAIN log
    /\ pc \in [Reqs -> {"idle"} \cup Awaits \cup Replies]
    /\ req \in [Reqs -> Request]
    /\ \A p \in Reqs : req[p].todo \subseteq DOMAIN log
    /\ undone \subseteq Reqs \X DOMAIN log

\* rollbackOne undoes before it marks: whatever requests interleave and wherever
\* one dies, an entry is never marked rolled back with its effect still in place.
MarkedWasUndone == \A i \in rolledBack : \E p \in Reqs : <<p, i>> \in undone

\* What the command of p's rollback logged after the entry p is at work on.
LaterParts(p) == {j \in DOMAIN log : log[j].tx = req[p].tx /\ j > req[p].cur}

UndoingTransaction(p) == req[p].op = "undoTransaction" /\ pc[p] \in {"fetch", "undo", "mark"}

\* What a command logged later is rolled back first, whatever interleaves and
\* wherever a rollback is cut short.  Entries of one millisecond are excepted: the
\* query orders by createdAt alone and may return those in any order.
TransactionUndoneNewestFirst ==
    \A p \in Reqs : UndoingTransaction(p) =>
        \A j \in LaterParts(p) : log[j].at = log[req[p].cur].at \/ j \in rolledBack

\* A rollback by transactionId that answers ok has left no entry of it standing.
TransactionUndoneWhole ==
    \A p \in Reqs :
        req[p].op = "undoTransaction" /\ pc[p] = "ok" =>
            \A j \in DOMAIN log : log[j].tx = req[p].tx => j \in rolledBack

\* A request that has written r and not yet logged it, died before it could, or
\* is a page action that never will.
Unlogged(r) ==
    \E p \in Reqs :
        /\ req[p].target = r
        /\ \/ pc[p] \in {"log", "mark", "logback", "lost"}
           \/ pc[p] = "ok" /\ req[p].op \in PageOps

Afters(r) == {log[i].after : i \in {i \in DOMAIN log : log[i].target = r}}

\* Once the requests that wrote a row have all logged it, the row is one that the
\* journal holds: no interleaving of updates, deletes and rollbacks composes a
\* row that no entry explains.
JournalExplainsRows ==
    \A r \in Recs : Unlogged(r) \/ Afters(r) = {} \/ rec[r] \in Afters(r)

\* Between commands, the entries of a row not rolled back form a chain: each was
\* made on the row the one before it left, and the last left the row there is.
VersionChain ==
    InFlight = {} =>
        \A r \in Recs :
            LET chain == {i \in Undoable : log[i].target = r} IN
            \A i \in chain :
                LET later == {j \in chain : j > i} IN
                IF later = {} THEN rec[r] = log[i].after
                ELSE \A j \in later :
                        (\A k \in later : j <= k) => log[j].before = log[i].after

\* Without force, a rollback replaces the row its own operation left, never the
\* work of a later operation.
UnforcedUndoMeetsItsOwnWrite ==
    [][\A p \in Reqs :
            pc[p] = "undo" /\ pc'[p] = "mark" /\ ~req[p].force =>
                rec[req[p].target] = log[req[p].cur].after]_vars

\* A rollback answered with the conflict error has not undone anything.
ConflictUndoesNothing ==
    \A p \in Reqs : pc[p] = "conflict" => \A i \in DOMAIN log : <<p, i>> \notin undone
=============================================================================
