----------------------------- MODULE Workspace -----------------------------
(***************************************************************************)
(* The works of one user and the records in them: how rows come to be      *)
(* (server/handlers.ts, the new-record pages, server/sample-project.ts),   *)
(* the plan limits they are checked against (server/plan.ts), the unique   *)
(* indexes they meet (prisma/schema.prisma), and what the export           *)
(* (server/export.ts) and the reader (read/page.tsx) show of them.         *)
(*                                                                         *)
(* A request is a process and every awaited query one atomic step; the     *)
(* first one belongs to the action that starts it.  Columns that no        *)
(* property tells apart are left out, and so is the journal: MutationLog   *)
(* has it.  A rollback appears as the revival of a deleted row, or as one  *)
(* more edit.                                                              *)
(***************************************************************************)
EXTENDS Order

CONSTANTS
    Handlers,    \* requests the server works on at the same time
    Names,       \* chapter titles and character names
    Null,        \* SQL NULL
    PlanLimits,  \* plan -> kind -> limit
    Orders,      \* places a caller may give to a chapter or a scene
    Starts,      \* the tables an instance starts from, each made by earlier requests
    MaxLength,   \* the longest text of a scene, in units
    Lengths,     \* the lengths a caller may give to a scene's text
    MaxRequests  \* bound: requests and edits begun

\* "record" stands for the six collections that are alike: world notes, foreshadowings,
\* mysteries, plot threads, revision todos and story states, each with a limit.
Kinds == {"project", "chapter", "scene", "character", "note", "record"}
Limited == {"project", "scene", "character", "record"}

PlanNames == DOMAIN PlanLimits

ASSUME WorkspaceAssumption ==
    /\ Names # {} /\ Null \notin Names
    /\ "FREE" \in PlanNames
    /\ MaxLength \in Nat \ {0} /\ Lengths \subseteq 0 .. MaxLength
    /\ PlanLimits \in [PlanNames -> [Limited -> Nat \ {0}]]
    /\ Orders \subseteq Nat \ {0} /\ MaxRequests \in Nat

\* A row; `work` and `ref` are row numbers, 0 for none.  `ref` is a scene's chapter or a
\* note's character.  `size` is the length of a scene's text, and one of any other row.
\* Orders of chapters and names of characters are unique in a work, deleted rows included.
Row == [kind : Kinds, work : Nat, name : Names \cup {Null}, order : Nat,
        ref : Nat, size : 0 .. MaxLength, sample : BOOLEAN, deleted : BOOLEAN]

\* What counts against a limit, unit by unit: live rows, the sample work left out, and of
\* scenes their text.
Counts(row, w, kind) == /\ row.kind = kind /\ row.work = w /\ ~row.deleted
                        /\ kind = "project" => ~row.sample
CountedIn(table, w, kind) ==
    {u \in (DOMAIN table) \X (1 .. MaxLength) : Counts(table[u[1]], w, kind) /\ u[2] <= table[u[1]].size}

\* A row belongs to a work made before it, and a note to a character of its work.
ASSUME StartsAssumption == \A table \in Starts :
    /\ table \in Seq(Row)
    /\ \A i \in DOMAIN table :
          /\ table[i].work < i /\ table[i].ref \in 0 .. Len(table)
          /\ table[i].kind = "note" => /\ table[i].ref \in DOMAIN table
                                       /\ table[table[i].ref].kind = "character"
                                       /\ table[table[i].ref].work = table[i].work
    /\ \A kind \in Limited, w \in 0 .. Len(table) :
          Cardinality(CountedIn(table, w, kind)) <= PlanLimits["FREE"][kind]

VARIABLES
    rows,     \* the tables: rows in the order they were made, never removed
    plan,     \* the user's plan
    pc, req,  \* where each request stands, and its local variables
    begun,    \* requests and edits so far
    excused   \* history: kinds that grew, or whose limit sank, but by a lone checked create

vars == <<rows, plan, pc, req, begun, excused>>

\* What a request does next.  "chapter" and "character" are the steps that find or make
\* the row another row will refer to.
Steps == {"check", "chapter", "chapterOrder", "chapterInsert", "character", "name",
          "characterInsert", "order", "insert", "state", "sample"}

\* The row under way, the chapter title or character name asked for, and how
\* many rows and edits there were when the order was counted.
Local == [new : Row \cup {Null}, named : Names \cup {Null}]
Blank == [new |-> Null, named |-> Null]

NewRow(kind, work) == [kind |-> kind, work |-> work, name |-> Null, order |-> 0,
                       ref |-> 0, size |-> 1, sample |-> FALSE, deleted |-> FALSE]

At(p, step)   == pc[p] = step
Goto(p, step) == pc' = [pc EXCEPT ![p] = step]
Done(p) == Goto(p, "idle") /\ req' = [req EXCEPT ![p] = Blank]
Begin == begun < MaxRequests /\ begun' = begun + 1

Live(i) == i \in DOMAIN rows /\ ~rows[i].deleted
LiveWork(w) == Live(w) /\ rows[w].kind = "project"
Of(w, kind) == {i \in DOMAIN rows : rows[i].kind = kind /\ rows[i].work = w /\ Live(i)}

TypeOK ==
    /\ rows \in Seq(Row)
    /\ \A i \in DOMAIN rows : rows[i].work < i /\ rows[i].ref \in 0 .. Len(rows)
    /\ plan \in PlanNames
    /\ pc \in [Handlers -> Steps \cup {"idle"}]
    /\ req \in [Handlers -> Local]
    /\ begun \in 0 .. MaxRequests
    /\ excused \subseteq Limited

Init ==
    /\ rows \in Starts
    /\ plan = "FREE"
    /\ pc = [p \in Handlers |-> "idle"]
    /\ req = [p \in Handlers |-> Blank]
    /\ begun = 0 /\ excused = {}

-----------------------------------------------------------------------------
(* Plan limits *)

Used(w, kind) == Cardinality(CountedIn(rows, w, kind))

\* Mutant: only what is there is compared.
MutHasRoom(w, kind, size) == Used(w, kind) <= PlanLimits[plan][kind]

\* assertLimit, and the sum of assertCanAddScene.
HasRoom(w, kind, size) == Used(w, kind) + size <= PlanLimits[plan][kind]

\* The kind a request is checked for: a note is when its character is to be made.
Charged(p) == IF req[p].new.kind = "note" THEN "character" ELSE req[p].new.kind

\* Requests found to have room that have not inserted yet.
Admitted(kind) ==
    {p \in Handlers : /\ pc[p] \in Steps \ {"check", "character", "name", "state", "sample"}
                      /\ Charged(p) = kind
                      /\ req[p].new.kind = "note" => At(p, "characterInsert")}

AfterCheck(p) ==
    CASE req[p].new.kind = "note" -> "characterInsert"
      [] req[p].new.kind = "scene" /\ req[p].named # Null -> "chapter"
      [] req[p].new.kind = "scene" /\ req[p].named = Null /\ req[p].new.order = 0 -> "order"
      [] OTHER -> "insert"

\* assertCanCreateProject, assertCanAddScene, assertCountLimit: what the last query counts.
Check(p) ==
    LET w == req[p].new.work IN
    /\ At(p, "check")
    /\ IF (w = 0 \/ LiveWork(w)) /\ HasRoom(w, Charged(p), req[p].new.size)
       THEN /\ Goto(p, AfterCheck(p)) /\ UNCHANGED req
            /\ excused' = IF Admitted(Charged(p)) = {} THEN excused ELSE excused \cup {Charged(p)}
       ELSE Done(p) /\ UNCHANGED excused
    /\ UNCHANGED <<rows, plan, begun>>

ChangePlan(to) ==
    /\ Begin /\ to # plan /\ plan' = to
    /\ excused' = excused \cup {k \in Limited : PlanLimits[to][k] < PlanLimits[plan][k]}
    /\ UNCHANGED <<rows, pc, req>>

-----------------------------------------------------------------------------
(* Requests *)

Start(p, step, new, named) ==
    /\ Begin /\ At(p, "idle")
    /\ new.work = 0 \/ LiveWork(new.work)
    /\ Goto(p, step)
    /\ req' = [req EXCEPT ![p] = [new |-> new, named |-> named]]
    /\ UNCHANGED <<rows, plan>>

\* The new-project page, POST, and the MCP action that forwards to it.
StartProject(p) == Start(p, "check", NewRow("project", 0), Null) /\ UNCHANGED excused

\* POST of the API, and the MCP actions that forward to it.  An order may be given; a scene
\* without one has 0 here, and may name any chapter there is.
StartChapter(p, w) ==
    /\ \/ Start(p, "order", NewRow("chapter", w), Null)
       \/ \E o \in Orders : Start(p, "insert", [NewRow("chapter", w) EXCEPT !.order = o], Null)
    /\ UNCHANGED excused
StartScene(p, w) ==
    /\ \E c \in {0} \cup {i \in DOMAIN rows : rows[i].kind = "chapter"}, o \in {0} \cup Orders :
       \E s \in Lengths :
          Start(p, "check", [NewRow("scene", w) EXCEPT !.ref = c, !.order = o, !.size = s], Null)
    /\ UNCHANGED excused
StartRecord(p, w) ==
    /\ \/ Start(p, "check", NewRow("record", w), Null)
       \/ \E n \in Names : Start(p, "check", [NewRow("character", w) EXCEPT !.name = n], Null)
    /\ UNCHANGED excused
StartNote(p, w) ==
    /\ \E c \in Of(w, "character") : Start(p, "insert", [NewRow("note", w) EXCEPT !.ref = c], Null)
    /\ UNCHANGED excused

\* The new-record pages: no limit is checked, and the chapter is one the page offered.
ScenePage(p, w) ==
    /\ \E c \in {0} \cup Of(w, "chapter"), s \in Lengths :
          Start(p, "order", [NewRow("scene", w) EXCEPT !.ref = c, !.size = s], Null)
    /\ excused' = excused \cup {"scene"}
CharacterPage(p, w) ==
    /\ \E n \in Names : Start(p, "insert", [NewRow("character", w) EXCEPT !.name = n], Null)
    /\ excused' = excused \cup {"character"}
RecordPage(p, w) == Start(p, "insert", NewRow("record", w), Null) /\ excused' = excused \cup {"record"}

\* The MCP actions that find or make what they refer to by name.
SaveScene(p, w, title) ==
    /\ \E s \in Lengths : Start(p, "check", [NewRow("scene", w) EXCEPT !.size = s], title)
    /\ UNCHANGED excused
SaveCharacter(p, w, name) ==
    Start(p, "name", [NewRow("character", w) EXCEPT !.name = name], name) /\ UNCHANGED excused
SaveNote(p, w, name) ==
    /\ \/ Start(p, "name", NewRow("note", w), name)
       \/ \E c \in DOMAIN rows : /\ rows[c].kind = "character"
                                 /\ Start(p, "character", [NewRow("note", w) EXCEPT !.ref = c], name)
    /\ UNCHANGED excused

\* createSampleProject: an existing sample is returned and nothing is written.
StartSample(p) ==
    /\ \A i \in Of(0, "project") : ~rows[i].sample
    /\ Start(p, "sample", [NewRow("project", 0) EXCEPT !.sample = TRUE], Null)
    /\ UNCHANGED excused

-----------------------------------------------------------------------------
(* Steps of a request *)

\* Does the unique index of chapters or of characters refuse the row?
Key(row) == <<row.kind, row.work, IF row.kind = "chapter" THEN row.order ELSE row.name>>
Taken(row) == /\ row.kind \in {"chapter", "character"}
              /\ \E i \in DOMAIN rows : Key(rows[i]) = Key(row)

\* save-generated-scene looks for the chapter by its title, and numbers a new one by the
\* live chapters there are.
FindChapter(p) ==
    LET found == {i \in Of(req[p].new.work, "chapter") : rows[i].name = req[p].named} IN
    /\ At(p, "chapter")
    /\ IF found = {} THEN Goto(p, "chapterOrder") /\ UNCHANGED req
       ELSE /\ \E i \in found : req' = [req EXCEPT ![p].new.ref = i]
            /\ Goto(p, "order")
    /\ UNCHANGED <<rows, plan, begun, excused>>

Count(p, kind) == Cardinality(Of(req[p].new.work, kind))

CountChapters(p) ==
    /\ At(p, "chapterOrder")
    /\ req' = [req EXCEPT ![p].new.order = Count(p, "chapter")]
    /\ Goto(p, "chapterInsert")
    /\ UNCHANGED <<rows, plan, begun, excused>>

\* Mutant: the work of the character is not asked for.
MutFindCharacter(p) ==
    /\ At(p, "character")
    /\ Goto(p, IF Live(req[p].new.ref) THEN "insert" ELSE "name")
    /\ UNCHANGED <<rows, plan, req, begun, excused>>

\* save-character-note looks for the character by id, then by name.
FindCharacter(p) ==
    /\ At(p, "character")
    /\ Goto(p, IF req[p].new.ref \in Of(req[p].new.work, "character") THEN "insert" ELSE "name")
    /\ UNCHANGED <<rows, plan, req, begun, excused>>

\* A character found by name is updated, which changes no column modelled here.
FindName(p) ==
    LET found == {i \in Of(req[p].new.work, "character") : rows[i].name = req[p].named} IN
    /\ At(p, "name")
    /\ IF found = {} THEN Goto(p, "check") /\ UNCHANGED req
       ELSE IF req[p].new.kind = "note"
       THEN /\ \E i \in found : req' = [req EXCEPT ![p].new.ref = i]
            /\ Goto(p, "insert")
       ELSE Done(p)
    /\ UNCHANGED <<rows, plan, begun, excused>>

\* The row made on the way to another one.
Needed(p) ==
    IF At(p, "chapterInsert")
    THEN [NewRow("chapter", req[p].new.work) EXCEPT !.name = req[p].named, !.order = req[p].new.order]
    ELSE [NewRow("character", req[p].new.work) EXCEPT !.name = req[p].named]

InsertNeeded(p) ==
    /\ pc[p] \in {"chapterInsert", "characterInsert"}
    /\ IF Taken(Needed(p)) THEN Done(p) /\ UNCHANGED rows
       ELSE /\ rows' = Append(rows, Needed(p))
            /\ req' = [req EXCEPT ![p].new.ref = Len(rows) + 1]
            /\ Goto(p, IF At(p, "chapterInsert") THEN "order" ELSE "insert")
    /\ UNCHANGED <<plan, begun, excused>>

\* The number of live rows is the next order.
CountOrder(p) ==
    /\ At(p, "order")
    /\ req' = [req EXCEPT ![p].new.order = Count(p, req[p].new.kind)]
    /\ Goto(p, "insert")
    /\ UNCHANGED <<rows, plan, begun, excused>>

\* The last row of most requests.  The new-project page makes a work and no more; POST goes
\* on to its first story state.
Insert(p) ==
    /\ At(p, "insert")
    /\ rows' = IF Taken(req[p].new) THEN rows ELSE Append(rows, req[p].new)
    /\ \/ Done(p)
       \/ /\ req[p].new.kind = "project"
          /\ req' = [req EXCEPT ![p].new = NewRow("record", Len(rows) + 1)]
          /\ Goto(p, "state")
    /\ UNCHANGED <<plan, begun, excused>>

\* The first story state is made unchecked, in a work that others may have begun to fill.
InsertState(p) ==
    LET w == req[p].new.work IN
    /\ At(p, "state")
    /\ rows' = Append(rows, req[p].new)
    /\ Done(p)
    /\ excused' = IF HasRoom(w, "record", 1) /\ Admitted("record") = {} THEN excused
                  ELSE excused \cup {"record"}
    /\ UNCHANGED <<plan, begun>>

\* Mutant: the note keeps the place of its character in the list of the sample.
MutInsertSample(p) ==
    LET w == Len(rows) + 1 IN
    /\ At(p, "sample")
    /\ rows' = rows \o <<req[p].new, [NewRow("note", w) EXCEPT !.ref = w + 3]>>
    /\ Done(p)
    /\ UNCHANGED <<plan, begun, excused>>

\* The transaction of createSampleProject, one row of each table: its chapter and scenes
\* are numbered from one.
InsertSample(p) ==
    LET w == Len(rows) + 1 IN
    /\ At(p, "sample")
    /\ rows' = rows \o
          <<req[p].new,
            [NewRow("chapter", w) EXCEPT !.name = CHOOSE n \in Names : TRUE, !.order = 1],
            [NewRow("scene", w) EXCEPT !.order = 1, !.ref = w + 1],
            [NewRow("character", w) EXCEPT !.name = CHOOSE n \in Names : TRUE],
            [NewRow("note", w) EXCEPT !.ref = w + 3],
            NewRow("record", w)>>
    /\ Done(p)
    /\ UNCHANGED <<plan, begun, excused>>

\* A query fails or the server goes away after a chapter or a character was made for the
\* row under way, or a work without its first story state: it stays.  Before, a request that
\* dies is one that never goes on.
Crash(p) == /\ At(p, "state") \/ (pc[p] \in {"order", "insert"} /\ req[p].named # Null)
            /\ Done(p)
            /\ UNCHANGED <<rows, plan, begun, excused>>

-----------------------------------------------------------------------------
(* Edits, one row at a time *)

Edit(i, row) == /\ Begin /\ row # rows[i]
                /\ rows' = [rows EXCEPT ![i] = row]
                /\ UNCHANGED <<plan, pc, req>>

\* DELETE, delete-project-data and the delete buttons: the rows below stay as they are.
Delete(i) == /\ Live(i) /\ Edit(i, [rows[i] EXCEPT !.deleted = TRUE])
             /\ UNCHANGED excused

\* A rollback of the deletion, in a deleted work too.
Revive(i) == /\ Edit(i, [rows[i] EXCEPT !.deleted = FALSE])
             /\ excused' = excused \cup (Limited \cap {rows[i].kind})

\* PATCH of a chapter or a character: the unique index may refuse it.
Renumber(i) == \E o \in Orders :
    /\ Live(i) /\ LiveWork(rows[i].work) /\ rows[i].kind = "chapter"
    /\ ~Taken([rows[i] EXCEPT !.order = o]) /\ Edit(i, [rows[i] EXCEPT !.order = o])
    /\ UNCHANGED excused
Rename(i) == \E n \in Names :
    /\ Live(i) /\ LiveWork(rows[i].work) /\ rows[i].kind = "character"
    /\ ~Taken([rows[i] EXCEPT !.name = n]) /\ Edit(i, [rows[i] EXCEPT !.name = n])
    /\ UNCHANGED excused

\* PATCH of a scene, the save of its page, opened before it was deleted or not, and a
\* rollback of either, in a deleted work too: another chapter, which may be any, and none
\* only as a rollback puts it back; another order; another text of any length.  Nothing
\* checks the limit.
EditScene(i) ==
    \E c \in {0} \cup {j \in DOMAIN rows : rows[j].kind = "chapter"},
       o \in {rows[i].order} \cup Orders, s \in {rows[i].size} \cup Lengths :
        /\ rows[i].kind = "scene"
        /\ Edit(i, [rows[i] EXCEPT !.ref = c, !.order = o, !.size = s])
        /\ excused' = IF s > rows[i].size THEN excused \cup {"scene"} ELSE excused

Next ==
    \/ \E to \in PlanNames : ChangePlan(to)
    \/ \E p \in Handlers : StartProject(p) \/ StartSample(p) \/ InsertSample(p)
    \/ \E p \in Handlers, w \in DOMAIN rows :
          \/ StartChapter(p, w) \/ StartScene(p, w) \/ StartRecord(p, w) \/ StartNote(p, w)
          \/ ScenePage(p, w) \/ CharacterPage(p, w) \/ RecordPage(p, w)
          \/ \E n \in Names : SaveScene(p, w, n) \/ SaveCharacter(p, w, n) \/ SaveNote(p, w, n)
    \/ \E p \in Handlers :
          \/ Check(p) \/ FindChapter(p) \/ CountChapters(p) \/ FindCharacter(p) \/ FindName(p)
          \/ InsertNeeded(p) \/ CountOrder(p) \/ Insert(p) \/ InsertState(p) \/ Crash(p)
    \/ \E i \in DOMAIN rows : Delete(i) \/ Revive(i) \/ Renumber(i) \/ Rename(i) \/ EditScene(i)

Spec == Init /\ [][Next]_vars

-----------------------------------------------------------------------------
(* What is shown *)

Sooner(i, j) == rows[i].order < rows[j].order \/ (rows[i].order = rows[j].order /\ i < j)

ByOrder(S) == InOrder(S, {p \in S \X S : Sooner(p[1], p[2])})

\* Mutant: scenes outside every chapter are forgotten.
MutManuscript(w) ==
    LET scenes == ByOrder(Of(w, "scene"))
        chapters == ByOrder(Of(w, "chapter"))
        In(c) == Only(scenes, {s \in ToSet(scenes) : rows[s].ref = c})
    IN FlattenSeq([k \in DOMAIN chapters |-> In(chapters[k])])

\* renderMarkdown's last section: chapter by chapter, then the scenes without one.
Manuscript(w) ==
    LET scenes == ByOrder(Of(w, "scene"))
        chapters == ByOrder(Of(w, "chapter"))
        In(c) == Only(scenes, {s \in ToSet(scenes) : rows[s].ref = c})
    IN FlattenSeq([k \in DOMAIN chapters |-> In(chapters[k])]) \o In(0)

\* renderMarkdown's and renderPlainText's sections: the cast with its notes, the
\* collections, the manuscript.  Of story states only the newest is among them, and no
\* timeline event is; neither is told apart here.
Cast(w)  == UNION {{c} \cup {n \in Of(w, "note") : rows[n].ref = c} : c \in Of(w, "character")}
Collections(w) == Of(w, "record")
Document(w) == Cast(w) \cup Collections(w) \cup ToSet(Manuscript(w))

\* The reader: every live scene, whatever its chapter.
Reader(w) == ByOrder(Of(w, "scene"))

-----------------------------------------------------------------------------
(* Properties *)

\* A plan's limits hold for every kind of record, however creations, deletions, chapter
\* and character saves and the sample interleave, unless two requests were found to have
\* room at the same time, a page form or a rollback made the row, an edit lengthened a
\* scene's text, the first story state of a work met others there, or the plan was lowered.
LimitHolds ==
    \A kind \in Limited \ excused, w \in {0} \cup DOMAIN rows :
        Used(w, kind) <= PlanLimits[plan][kind]

\* The export shows every live scene that is in no chapter or in a live chapter of the
\* work, once.
ExportedOnce ==
    \A w \in DOMAIN rows : LiveWork(w) =>
        LET scenes == Manuscript(w) IN
        /\ Len(scenes) = Cardinality(ToSet(scenes))
        /\ ToSet(scenes) = {s \in Of(w, "scene") : rows[s].ref \in {0} \cup Of(w, "chapter")}

\* The export is the whole work (mcp-tools.ts:435): every scene the reader shows is in its
\* manuscript, and every character is in it.
ExportIsWhole ==
    \A w \in DOMAIN rows : LiveWork(w) =>
        ToSet(Reader(w)) \subseteq ToSet(Manuscript(w)) /\ Of(w, "character") \subseteq Document(w)

\* A chapter named by a save that finds none is made (mcp-tools.ts:151): no save stands
\* before an insert the unique index will refuse.
NamedChapterIsMade == \A p \in Handlers : At(p, "chapterInsert") => ~Taken(Needed(p))

\* A note is about a character of its own work, whichever way the character was found.
NotesStayHome ==
    \A n \in DOMAIN rows : rows[n].kind = "note" =>
        rows[rows[n].ref].kind = "character" /\ rows[rows[n].ref].work = rows[n].work

=============================================================================
