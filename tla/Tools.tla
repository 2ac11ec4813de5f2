------------------------------- MODULE Tools -------------------------------
(***************************************************************************)
(* What an AI client can do in the works of its user: the table of MCP     *)
(* tools (server/mcp-tools.ts), the same calls as ChatGPT Actions          *)
(* (app/mcp-openapi.json/route.ts), and the handlers both reach            *)
(* (server/handlers.ts), one call at a time.  Calls that overlap and calls *)
(* that die are MutationLog's; what limits and unique indexes refuse, and  *)
(* what an export holds, are Workspace's: here a save may be refused.      *)
(***************************************************************************)
EXTENDS Naturals, FiniteSets, Sequences, TLC

CONSTANTS
    Titles,     \* names and titles
    Unknown,    \* the one a character gets that is not named
    MaxRows,    \* bound: rows
    MaxEntries, \* bound: entries of the journal
    MaxOdd      \* bound: values of a call that validation may not take

ASSUME ToolsAssumption ==
    Unknown \in Titles /\ MaxRows \in Nat \ {0} /\ MaxEntries \in Nat /\ MaxOdd \in Nat

VARIABLES
    table,    \* the rows in the order they were made, never removed; an id is a place in it
    journal,  \* the MutationLog rows, but those of rollbacks, which nothing reads
    invalid,  \* what the last call was like, if it was answered VALIDATION_ERROR
    kept      \* history: rows a save answered with, not taken out of view since

toolVars == <<table, journal, invalid, kept>>

-----------------------------------------------------------------------------
(* The table of tools *)

\* What a tool does, the kinds it reads or writes, and what its input schema requires.
Tool(does, kinds, required) ==
    [does |-> does, kinds |-> kinds, required |-> required, readOnly |-> FALSE, destructive |-> FALSE]
ReadOnly(tool) == [tool EXCEPT !.readOnly = TRUE]
Destructive(tool) == [tool EXCEPT !.destructive = TRUE]
In(field) == {"projectId", field}
Lists(kind) == ReadOnly(Tool("list", {kind}, {"projectId"}))

\* Everything needed to write the next scene.
Needed == {"CHARACTER", "PLOT_THREAD", "FORESHADOWING", "MYSTERY", "TIMELINE_EVENT"}

WorkTools ==
    [help |-> ReadOnly(Tool("explain", {}, {})),
     list_projects |-> ReadOnly(Tool("works", {"PROJECT"}, {})),
     create_project |-> Tool("create", {"PROJECT"}, {"title"}),
     update_project |-> Tool("update", {"PROJECT"}, {"projectId"}),
     get_project_context |-> ReadOnly(Tool("context", Needed, {"projectId"})),
     get_next_generation_context |-> ReadOnly(Tool("context", Needed, {"projectId"})),
     consult_title |-> ReadOnly(Tool("explain", {}, {"projectId"}))]

SaveTools ==
    [save_scene |-> Tool("save", {"SCENE"}, In("title") \cup {"body"}),
     save_character |-> Tool("save", {"CHARACTER"}, {"projectId"}),
     save_character_note |-> Tool("save", {"CHARACTER_NOTE"}, In("body")),
     save_world_note |-> Tool("save", {"WORLD_NOTE"}, In("title") \cup {"body"}),
     save_foreshadowing |-> Tool("save", {"FORESHADOWING"}, In("title") \cup {"description"}),
     save_mystery |-> Tool("save", {"MYSTERY"}, In("question")),
     save_plot_thread |-> Tool("save", {"PLOT_THREAD"}, In("title")),
     save_revision_todo |-> Tool("save", {"REVISION_TODO"}, In("title") \cup {"problem"}),
     save_story_state |-> Tool("save", {"STORY_STATE_SNAPSHOT"}, In("summary"))]

\* Mutant: undoing is not marked as destructive.
MutUndoTools ==
    [delete_project_data |-> Destructive(Tool("delete", {}, In("targetType"))),
     rollback_command |-> Tool("undo", {}, {"projectId"}),
     undo_last_command |-> Tool("undo", {}, {"projectId"})]

UndoTools ==
    [delete_project_data |-> Destructive(Tool("delete", {}, In("targetType"))),
     rollback_command |-> Destructive(Tool("undo", {}, {"projectId"})),
     undo_last_command |-> Destructive(Tool("undo", {}, {"projectId"}))]

ReadTools ==
    [list_chapters |-> Lists("CHAPTER"), list_scenes |-> Lists("SCENE"),
     list_characters |-> Lists("CHARACTER"), list_world_notes |-> Lists("WORLD_NOTE"),
     list_foreshadowings |-> Lists("FORESHADOWING"), list_mysteries |-> Lists("MYSTERY"),
     list_plot_threads |-> Lists("PLOT_THREAD"), list_revision_todos |-> Lists("REVISION_TODO"),
     list_story_states |-> Lists("STORY_STATE_SNAPSHOT"),
     get_scene |-> ReadOnly(Tool("get", {"SCENE"}, {"sceneId"})),
     get_character |-> ReadOnly(Tool("get", {"CHARACTER"}, {"characterId"})),
     list_character_notes |-> ReadOnly(Tool("notes", {"CHARACTER_NOTE"}, {"characterId"})),
     get_latest_story_state |-> ReadOnly(Tool("latest", {}, {"projectId"})),
     export_project |-> ReadOnly(Tool("explain", {}, {"projectId"}))]

TimelineTools ==
    [list_timeline_events |-> Lists("TIMELINE_EVENT"),
     save_timeline_event |-> Tool("save", {"TIMELINE_EVENT"}, In("title")),
     list_timeline_tags |-> Lists("TIMELINE_TAG"),
     save_timeline_tag |-> Tool("save", {"TIMELINE_TAG"}, In("name"))]

MCP_TOOLS ==
    [name \in DOMAIN WorkTools \cup DOMAIN SaveTools \cup DOMAIN UndoTools \cup DOMAIN ReadTools
              \cup DOMAIN TimelineTools |->
        CASE name \in DOMAIN WorkTools -> WorkTools[name]
          [] name \in DOMAIN SaveTools -> SaveTools[name]
          [] name \in DOMAIN UndoTools -> UndoTools[name]
          [] name \in DOMAIN ReadTools -> ReadTools[name]
          [] name \in DOMAIN TimelineTools -> TimelineTools[name]]

\* The fields beyond the required ones that a handler branches on.
Branching(name) ==
    CASE name = "update_project" -> {"title"}
      [] name = "save_scene" -> {"chapterId", "chapterTitle", "sceneTitle"}
      [] name = "save_character" -> {"characterId", "name"}
      [] name = "save_character_note" -> {"characterId", "characterName"}
      [] name = "delete_project_data" -> {"targetId"}
      [] name = "rollback_command" -> {"commandId", "transactionId"}
      [] OTHER -> {}

\* An id that is too long is an id of nothing.
Ids == {"projectId", "chapterId", "characterId", "targetId", "commandId", "transactionId", "sceneId"}

\* A call of a tool: the fields given, and of these the ones with an empty value, and with
\* one that is too long or otherwise out of bounds; "rest" stands for the fields that no
\* handler branches on.
Calling(name, given, empty, excess) == [tool |-> name, given |-> given, empty |-> empty, excess |-> excess]
Callings(name) ==
    {call \in UNION {{Calling(name, given, empty, excess) :
                          empty \in {S \in SUBSET given : Cardinality(S) <= MaxOdd},
                          excess \in {S \in SUBSET ((given \ Ids) \cup {"rest"}) : Cardinality(S) <= MaxOdd}} :
                      given \in SUBSET (MCP_TOOLS[name].required \cup Branching(name))} :
        Cardinality(call.empty \cup call.excess) <= MaxOdd /\ call.empty \cap call.excess = {}}
Fits(call) == call.empty \cup call.excess = {}

\* Mutant: the schema of save_character has no anyOf.
MutToolInputSchema(call) ==
    /\ MCP_TOOLS[call.tool].required \subseteq call.given
    /\ "targetType" \notin call.empty \cup call.excess

\* What the schema of a tool lets reach its handler: it asks for fields, and for one of two
\* by an anyOf, but lists the values of none that matters here except a target type.
toolInputSchema(call) ==
    /\ MCP_TOOLS[call.tool].required \subseteq call.given
    /\ "targetType" \notin call.empty \cup call.excess
    /\ call.tool = "save_character" => call.given \cap {"characterId", "name"} # {}

\* The calls that can be made as actions: help itself, and those it explains.  They are
\* documented to need less, a scene no title and a character nothing.
Actions == DOMAIN WorkTools \cup DOMAIN SaveTools \cup DOMAIN UndoTools
DocumentedAction(call) ==
    /\ call.tool \in Actions
    /\ MCP_TOOLS[call.tool].required \ (IF call.tool = "save_scene" THEN {"title"} ELSE {}) \subseteq call.given

\* The calls of a tool, or of the action it is a facade of, that reach a handler.
Calls(name) == {call \in Callings(name) : toolInputSchema(call) \/ DocumentedAction(call)}
AllCalls == [name \in DOMAIN MCP_TOOLS |-> Calls(name)]

\* What validation asks of the row of a kind: the fields it cannot be made without, the ones
\* that may not be empty, and the ones whose length, or sign, is bounded.
Schema(fields) == [required |-> fields, filled |-> fields, bounded |-> fields \cup {"rest"}]
Schemas ==
    [PROJECT |-> Schema({"title"}), CHAPTER |-> Schema({"title"}),
     SCENE |-> [Schema({"title", "body"}) EXCEPT !.filled = {"title"}], CHARACTER |-> Schema({"name"}),
     CHARACTER_NOTE |-> [required |-> {"body"}, filled |-> {"body", "characterName"},
                         bounded |-> {"body", "characterName", "rest"}],
     WORLD_NOTE |-> Schema({"title", "body"}), FORESHADOWING |-> Schema({"title", "description"}),
     MYSTERY |-> Schema({"question"}), PLOT_THREAD |-> Schema({"title"}),
     REVISION_TODO |-> Schema({"title", "problem"}), TIMELINE_EVENT |-> Schema({"title"}),
     TIMELINE_TAG |-> Schema({"name"}), STORY_STATE_SNAPSHOT |-> Schema({"summary"})]
Kinds == DOMAIN Schemas

\* The kinds the context leaves out when their status is that they are over.
Finishing == {"PLOT_THREAD", "FORESHADOWING"}

\* The kinds whose rows an event can be linked to.
Linkable == {"CHARACTER", "TIMELINE_TAG"}

-----------------------------------------------------------------------------
(* Rows and journal *)

\* about is a scene's chapter or a note's character, 0 for none; links are the characters and
\* tags of an event; finished the status of a plot thread or a foreshadowing.
Row == [kind : Kinds, work : Nat, title : Titles, about : Nat, links : SUBSET (1..MaxRows),
        finished : BOOLEAN, deleted : BOOLEAN]
Blank(kind, work, title) ==
    [kind |-> kind, work |-> work, title |-> title, about |-> 0, links |-> {}, finished |-> FALSE,
     deleted |-> FALSE]

\* tx numbers a transaction, 0 without one; before is the row an update found.
Entry == [target : 1..MaxRows, work : 1..MaxRows, action : {"CREATE", "UPDATE", "DELETE"}, tx : 0..MaxEntries,
          before : Seq(Row), undone : BOOLEAN]

Live(id) == id \in DOMAIN table /\ ~table[id].deleted
IsA(id, kind) == Live(id) /\ table[id].kind = kind
WorkOf(id) == IF table[id].kind = "PROJECT" THEN id ELSE table[id].work

\* ownedProject, and requireOwnedTarget: the row is live and so is its work.
Owned(work) == IsA(work, "PROJECT")
OwnedTarget(kind, id) == IsA(id, kind) /\ Owned(WorkOf(id))

Of(work, kind) == {id \in DOMAIN table : IsA(id, kind) /\ WorkOf(id) = work}
Named(work, kind, title) == {id \in Of(work, kind) : table[id].title = title}

\* Where the author would look for a row: it is live, its work is, and a note's character.
InView(id) ==
    /\ Live(id) /\ Owned(WorkOf(id))
    /\ table[id].kind = "CHARACTER_NOTE" => Live(table[id].about)

-----------------------------------------------------------------------------
(* What the tools that read show *)

\* What is not finished yet, of what the next scene needs.
Context(work) == UNION {{id \in Of(work, kind) : ~table[id].finished} : kind \in Needed}

Latest(work) == {id \in Of(work, "STORY_STATE_SNAPSHOT") : \A other \in Of(work, "STORY_STATE_SNAPSHOT") : other <= id}

\* The rows a tool answers with: `id` is the work, the row or the character it is asked for.
Returns(name, id) ==
    LET tool == MCP_TOOLS[name] IN
    CASE tool.does = "works" -> {w \in DOMAIN table : Owned(w)}
      [] tool.does = "list" /\ Owned(id) -> UNION {Of(id, kind) : kind \in tool.kinds}
      [] tool.does = "get" /\ \E kind \in tool.kinds : OwnedTarget(kind, id) -> {id}
      [] tool.does = "notes" /\ OwnedTarget("CHARACTER", id) ->
            {n \in Of(WorkOf(id), "CHARACTER_NOTE") : table[n].about = id}
      [] tool.does = "context" /\ Owned(id) -> Context(id) \cup Latest(id)
      [] tool.does = "latest" /\ Owned(id) -> Latest(id)
      [] OTHER -> {}

\* What a tool is asked for when somebody looks for a row.
Asked(name, id) ==
    CASE MCP_TOOLS[name].does = "get" -> id
      [] MCP_TOOLS[name].does = "notes" -> table[id].about
      [] OTHER -> WorkOf(id)

-----------------------------------------------------------------------------
(* Calls *)

\* An answer: a call of a destructive tool may take rows out of view, another keeps what it saves.
Answer(call, ids) ==
    /\ invalid' = {}
    /\ kept' = IF MCP_TOOLS[call.tool].destructive THEN {id \in kept : InView(id)'} ELSE kept \cup ids

\* What a refusal tells of the call: was it let in, did its values fit, did it name a row?
Complaint(call) ==
    [tool |-> call.tool, letIn |-> toolInputSchema(call), fits |-> Fits(call), names |-> "targetId" \in call.given]
Complaints == [tool : DOMAIN MCP_TOOLS, letIn : BOOLEAN, fits : BOOLEAN, names : BOOLEAN]

\* The refusals: 400 by validation, 403 by a limit, 404 for what is not there, 500 by a unique
\* index or a foreign key.
Refused(call, status) ==
    /\ invalid' = IF status = 400 THEN {Complaint(call)} ELSE {}
    /\ UNCHANGED <<table, journal, kept>>

\* Given and not empty, which is how handlers ask for an id or the title of a chapter.
Has(call, field) == field \in call.given \ call.empty
Unnamed(call) == "projectId" \in call.empty

\* parse and partial().parse of the schema of a kind fail.
Exceeds(call, kind) ==
    call.empty \cap Schemas[kind].filled # {} \/ call.excess \cap Schemas[kind].bounded # {}
Fails(call, kind) == ~(Schemas[kind].required \subseteq call.given) \/ Exceeds(call, kind)

\* createWithLog, updateWithLog and softDeleteWithLog, on the tables and the journal.
db == [table |-> table, journal |-> journal, stop |-> 200]
Logged(id, row, action, before, tx) ==
    [target |-> id, work |-> IF row.kind = "PROJECT" THEN id ELSE row.work, action |-> action, tx |-> tx,
     before |-> before, undone |-> FALSE]
createWithLog(d, row, tx) ==
    LET id == Len(d.table) + 1 IN
    [d EXCEPT !.table = Append(@, row), !.journal = Append(@, Logged(id, row, "CREATE", <<>>, tx))]
updateWithLog(d, id, row) ==
    [d EXCEPT !.table[id] = row, !.journal = Append(@, Logged(id, row, "UPDATE", <<d.table[id]>>, 0))]
softDeleteWithLog(d, id) ==
    [d EXCEPT !.table[id].deleted = TRUE, !.journal = Append(@, Logged(id, d.table[id], "DELETE", <<>>, 0))]

Commit(d) ==
    /\ Len(d.table) <= MaxRows /\ Len(d.journal) <= MaxEntries
    /\ table' = d.table /\ journal' = d.journal

\* A save that answers with a row.
Saved(call, d, id) == Commit(d) /\ Answer(call, {id})
NewId == Len(table) + 1
NextTx == Len(journal) + 1

\* [projectId, name] of characters is unique, deleted ones included.
Clashes(d, id, row) ==
    row.kind = "CHARACTER" /\ \E other \in DOMAIN d.table \ {id} :
        /\ d.table[other].kind = row.kind /\ d.table[other].work = row.work /\ d.table[other].title = row.title

CreateProject(call, title, limited) ==
    IF limited THEN Refused(call, 403)
    ELSE IF Fails(call, "PROJECT") THEN Refused(call, 400)
    ELSE Saved(call, createWithLog(createWithLog(db, Blank("PROJECT", 0, title), NextTx),
                                   Blank("STORY_STATE_SNAPSHOT", NewId, title), NextTx), NewId)

UpdateProject(call, work, title) ==
    IF Unnamed(call) THEN Refused(call, 400)
    ELSE IF ~Owned(work) THEN Refused(call, 404)
    ELSE IF Exceeds(call, "PROJECT") THEN Refused(call, 400)
    ELSE LET row == IF "title" \in call.given THEN [table[work] EXCEPT !.title = title] ELSE table[work]
         IN Saved(call, updateWithLog(db, work, row), work)

\* The title of a scene has an alias, which is taken even if it is empty.
Aliased(call) ==
    LET As(fields) == IF "sceneTitle" \in fields THEN fields \cup {"title"} ELSE fields \ {"title"} IN
    IF "sceneTitle" \notin call.given THEN call
    ELSE Calling(call.tool, As(call.given), As(call.empty), As(call.excess))

\* A chapter of that title, or a new one: its order may be taken.  An id is of any chapter,
\* but of one.
SaveScene(call, work, title, chapter, chapterTitle, limited, taken) ==
    LET found == Named(work, "CHAPTER", chapterTitle)
        byTitle == ~Has(call, "chapterId") /\ Has(call, "chapterTitle")
        makes == byTitle /\ found = {}
        d == IF makes THEN createWithLog(db, Blank("CHAPTER", work, chapterTitle), NextTx) ELSE db
    IN IF Unnamed(call) THEN Refused(call, 400)
       ELSE IF ~Owned(work) THEN Refused(call, 404)
       ELSE IF Fails(Aliased(call), "SCENE") THEN Refused(call, 400)
       ELSE IF limited THEN Refused(call, 403)
       ELSE IF makes /\ taken THEN Refused(call, 500)
       ELSE IF ~byTitle /\ "chapterId" \in call.given /\ (chapter = 0 \/ "chapterId" \in call.empty)
       THEN Refused(call, 500)
       ELSE \E c \in IF Has(call, "chapterId") THEN {chapter} ELSE IF ~byTitle THEN {0}
                     ELSE IF makes THEN {NewId} ELSE found :
               Saved(call, createWithLog(d, [Blank("SCENE", work, title) EXCEPT !.about = c], NextTx), Len(d.table) + 1)

\* By its id, or by its name.
SaveCharacter(call, work, id, title, limited) ==
    LET found == Named(work, "CHARACTER", title)
        renamed == IF "name" \in call.given THEN [table[id] EXCEPT !.title = title] ELSE table[id]
        new == Blank("CHARACTER", work, title)
    IN IF Unnamed(call) THEN Refused(call, 400)
       ELSE IF ~Owned(work) THEN Refused(call, 404)
       ELSE IF Has(call, "characterId")
       THEN IF id \notin Of(work, "CHARACTER") THEN Refused(call, 404)
            ELSE IF Exceeds(call, "CHARACTER") THEN Refused(call, 400)
            ELSE IF Clashes(db, id, renamed) THEN Refused(call, 500)
            ELSE Saved(call, updateWithLog(db, id, renamed), id)
       ELSE IF Fails(call, "CHARACTER") THEN Refused(call, 400)
       ELSE IF found # {} THEN \E c \in found : Saved(call, updateWithLog(db, c, table[c]), c)
       ELSE IF limited THEN Refused(call, 403)
       ELSE IF Clashes(db, NewId, new) THEN Refused(call, 500)
       ELSE Saved(call, createWithLog(db, new, 0), NewId)

\* The character by its id, or by its name, or a new one.
SaveCharacterNote(call, work, id, name, title, limited) ==
    LET named == IF "characterName" \in call.given THEN name ELSE Unknown
        found == IF Has(call, "characterId") /\ id \in Of(work, "CHARACTER") THEN {id}
                 ELSE Named(work, "CHARACTER", named)
        new == Blank("CHARACTER", work, named)
        d == IF found = {} THEN createWithLog(db, new, NextTx) ELSE db
    IN IF Unnamed(call) THEN Refused(call, 400)
       ELSE IF ~Owned(work) THEN Refused(call, 404)
       ELSE IF Fails(call, "CHARACTER_NOTE") THEN Refused(call, 400)
       ELSE IF found = {} /\ limited THEN Refused(call, 403)
       ELSE IF found = {} /\ Clashes(db, NewId, new) THEN Refused(call, 500)
       ELSE \E c \in IF found = {} THEN {NewId} ELSE found :
               LET note == [Blank("CHARACTER_NOTE", work, title) EXCEPT !.about = c]
               IN Saved(call, createWithLog(d, note, NextTx), Len(d.table) + 1)

\* The collections that are alike.
actionMap ==
    {"save_world_note", "save_foreshadowing", "save_mystery", "save_plot_thread", "save_revision_todo",
     "save_story_state"}
SaveRecord(call, work, title, finished, limited) ==
    LET kind == CHOOSE k \in MCP_TOOLS[call.tool].kinds : TRUE IN
    IF Unnamed(call) THEN Refused(call, 400)
    ELSE IF ~Owned(work) THEN Refused(call, 404)
    ELSE IF limited THEN Refused(call, 403)
    ELSE IF Fails(call, kind) THEN Refused(call, 400)
    ELSE LET row == [Blank(kind, work, title) EXCEPT !.finished = finished /\ kind \in Finishing]
         IN Saved(call, createWithLog(db, row, 0), NewId)

\* Of the characters and tags a caller links, those of this work.
Linked(work, asked) == asked \cap UNION {Of(work, kind) : kind \in Linkable}

SaveTimelineEvent(call, work, title, asked) ==
    IF Unnamed(call) \/ ~Owned(work) THEN Refused(call, 404)
    ELSE IF Fails(call, "TIMELINE_EVENT") THEN Refused(call, 400)
    ELSE LET event == [Blank("TIMELINE_EVENT", work, title) EXCEPT !.links = Linked(work, asked)]
         IN Saved(call, createWithLog(db, event, 0), NewId)

\* The tag of that name, brought back if it was deleted.
SaveTimelineTag(call, work, title) ==
    LET found == {id \in DOMAIN table : /\ table[id].kind = "TIMELINE_TAG" /\ table[id].work = work
                                        /\ table[id].title = title} IN
    IF Unnamed(call) \/ ~Owned(work) THEN Refused(call, 404)
    ELSE IF Fails(call, "TIMELINE_TAG") THEN Refused(call, 400)
    ELSE IF found = {} THEN Saved(call, createWithLog(db, Blank("TIMELINE_TAG", work, title), 0), NewId)
    ELSE \E id \in found :
            Saved(call, IF Live(id) THEN db ELSE updateWithLog(db, id, [table[id] EXCEPT !.deleted = FALSE]), id)

\* The row need not be one of the work that is named.
DeleteProjectData(call, kind, work, id) ==
    LET target == IF kind = "PROJECT" /\ "targetId" \notin call.given THEN work ELSE id IN
    IF Unnamed(call) THEN Refused(call, 400)
    ELSE IF ~Owned(work) THEN Refused(call, 404)
    ELSE IF "targetType" \in call.empty \cup call.excess \/ "targetId" \in call.empty THEN Refused(call, 400)
    ELSE IF kind # "PROJECT" /\ "targetId" \notin call.given THEN Refused(call, 400)
    ELSE IF ~OwnedTarget(kind, target) THEN Refused(call, 404)
    ELSE Commit(softDeleteWithLog(db, target)) /\ Answer(call, {})

\* rollbackOne, after the entries before it.
Undo(d, k, force) ==
    LET entry == d.journal[k]
        row == d.table[entry.target]
        later == \E n \in DOMAIN d.journal : n > k /\ d.journal[n].target = entry.target /\ ~d.journal[n].undone
        restored == CASE entry.action = "CREATE" -> [row EXCEPT !.deleted = TRUE]
                      [] entry.action = "DELETE" -> [row EXCEPT !.deleted = FALSE]
                      [] entry.action = "UPDATE" -> entry.before[1]
    IN IF d.stop # 200 THEN d
       ELSE IF later /\ ~force THEN [d EXCEPT !.stop = 409]
       ELSE IF Clashes(d, entry.target, restored) THEN [d EXCEPT !.stop = 500]
       ELSE [d EXCEPT !.table[entry.target] = restored, !.journal[k].undone = TRUE]

\* The entries chosen, newest first: after[k] is what undoing those from k on leaves.
Undone(chosen, force) ==
    LET after[k \in 1..Len(journal) + 1] ==
            IF k = Len(journal) + 1 THEN db
            ELSE IF k \in chosen THEN Undo(after[k + 1], k, force) ELSE after[k + 1]
    IN after[1]

\* A transaction, or one entry, or the last one.
Rollback(call, work, k, force) ==
    LET standing == {n \in DOMAIN journal : journal[n].work = work /\ ~journal[n].undone}
        chosen == IF call.tool = "rollback_command" /\ Has(call, "transactionId")
                  THEN {n \in standing : journal[n].tx = k}
                  ELSE IF call.tool = "rollback_command" /\ Has(call, "commandId") THEN standing \cap {k}
                  ELSE {n \in standing : \A other \in standing : other <= n}
    IN IF Unnamed(call) THEN Refused(call, 400)
       ELSE IF work \notin DOMAIN table \/ table[work].kind # "PROJECT" \/ chosen = {} THEN Refused(call, 404)
       ELSE Commit(Undone(chosen, force)) /\ Answer(call, {})

\* The author deletes a row on its page.
AuthorDeletes(id) ==
    /\ Live(id) /\ Owned(WorkOf(id)) /\ table[id].kind # "STORY_STATE_SNAPSHOT"
    /\ table' = [table EXCEPT ![id].deleted = TRUE]
    /\ kept' = {other \in kept : InView(other)'}
    /\ UNCHANGED <<journal, invalid>>

ToolsInit ==
    /\ table = <<Blank("PROJECT", 0, Unknown)>>
    /\ journal = <<>> /\ kept = {1}
    /\ invalid = {}

Works == {work \in DOMAIN table : table[work].kind = "PROJECT"}
Every(kind) == {id \in DOMAIN table : table[id].kind = kind}

\* The calls among `calls`, a set for each tool, for some kinds of rows.  The ids given are of
\* rows there are, or were.
CallNext(kinds, calls) ==
    LET Sent(name) == IF MCP_TOOLS[name].kinds \subseteq kinds THEN calls[name] ELSE {} IN
    \/ \E call \in Sent("create_project"), title \in Titles, limited \in BOOLEAN : CreateProject(call, title, limited)
    \/ \E work \in Works :
       \/ \E title \in Titles :
          \/ \E call \in Sent("update_project") : UpdateProject(call, work, title)
          \/ \E call \in Sent("save_timeline_tag") : SaveTimelineTag(call, work, title)
          \/ \E call \in Sent("save_timeline_event"), asked \in SUBSET DOMAIN table :
                SaveTimelineEvent(call, work, title, asked)
          \/ \E limited \in BOOLEAN :
             \/ \E call \in Sent("save_scene"), chapter \in Every("CHAPTER") \cup {0}, chapterTitle \in Titles,
                   taken \in BOOLEAN : SaveScene(call, work, title, chapter, chapterTitle, limited, taken)
             \/ \E call \in Sent("save_character"), id \in Every("CHARACTER") \cup {0} :
                   SaveCharacter(call, work, id, title, limited)
             \/ \E call \in Sent("save_character_note"), id \in Every("CHARACTER") \cup {0}, name \in Titles :
                   SaveCharacterNote(call, work, id, name, title, limited)
             \/ \E name \in actionMap, finished \in BOOLEAN : \E call \in Sent(name) :
                   SaveRecord(call, work, title, finished, limited)
       \/ \E call \in calls["delete_project_data"], id \in DOMAIN table :
             DeleteProjectData(call, table[id].kind, work, id)
       \/ \E call \in calls["rollback_command"] \cup calls["undo_last_command"], k \in 0..Len(journal),
             force \in BOOLEAN : Rollback(call, work, k, force)

ToolsNext == CallNext(Kinds, AllCalls) \/ \E id \in DOMAIN table : AuthorDeletes(id)
ToolsSpec == ToolsInit /\ [][ToolsNext]_toolVars

-----------------------------------------------------------------------------
(* Properties *)

\* The tables are well formed: a note is about a character of its work, an event is linked to
\* rows of its work only, and an entry belongs to the work of its row, whatever ids callers send.
ToolsTypeOK ==
    /\ table \in Seq(Row) /\ Len(table) \in 1..MaxRows
    /\ journal \in Seq(Entry) /\ Len(journal) \in 0..MaxEntries
    /\ invalid \subseteq Complaints
    /\ kept \subseteq DOMAIN table
    /\ \A id \in DOMAIN table :
          LET row == table[id] IN
          /\ row.kind = "CHARACTER_NOTE" => table[row.about].kind = "CHARACTER" /\ table[row.about].work = row.work
          /\ \A other \in row.links : table[other].kind \in Linkable /\ table[other].work = row.work
    /\ \A k \in DOMAIN journal : journal[k].work = WorkOf(journal[k].target)

\* A row that a save has answered with is shown by every tool that reads its kind, until a call
\* of a tool that is marked destructive, or the author, takes it out of view: "a destructive
\* hint still belongs on the tools that remove things" (mcp-server.ts:46).  What is finished
\* is not in the context.
SavedIsFound ==
    \A id \in kept : \A name \in DOMAIN MCP_TOOLS :
        (table[id].kind \in MCP_TOOLS[name].kinds /\ ~(MCP_TOOLS[name].does = "context" /\ table[id].finished)
         /\ MCP_TOOLS[name].readOnly)
        => id \in Returns(name, Asked(name, id))

\* A call that its schema lets in and whose values are neither empty nor out of bounds is
\* not refused as invalid, but for a deletion that names no row: whatever row it finds, the
\* fields a schema asks for are the fields its handler needs ("keeps the model from making
\* that mistake", mcp-tools.ts:166).  An action whose values fit may be, for want of a
\* scene's title or a character's name.
SchemasSuffice ==
    \A complaint \in invalid : complaint.fits =>
        \/ complaint.tool = "delete_project_data" /\ ~complaint.names
        \/ ~complaint.letIn /\ complaint.tool \in {"save_scene", "save_character"}
=============================================================================
