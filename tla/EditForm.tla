------------------------------ MODULE EditForm ------------------------------
(***************************************************************************)
(* The forms that edit one row: the settings of a work and its title       *)
(* (projects/[projectId]/page.tsx), the entries of the mysteries,          *)
(* foreshadowings, plot threads, revision todos and story state pages,     *)
(* the character and scene pages, and the world note page.  Several tabs   *)
(* show the row while AI clients write it through the API.                 *)
(*                                                                         *)
(* Each page has a form and a server action of its own; a record says      *)
(* what they do.  What is shown is as old as the tab's last rendering; a   *)
(* save checks, then updates, then renders the page again.                 *)
(***************************************************************************)
EXTENDS Naturals, FiniteSets

CONSTANTS
    Tabs,       \* browser tabs
    Fields,     \* columns the form edits
    Required,   \* of these, the ones that must be filled in
    Texts,      \* what a field may hold
    Typed,      \* field -> what authors type into it
    Dictated,   \* what AI clients write
    Empty,      \* the empty text
    Null,       \* SQL NULL; in `typed`, a field not touched
    Trim,       \* text -> text without blanks at its ends
    Sends,      \* field -> text in its control -> what the browser submits of it
    MaxWrites,  \* bound: writes by AI clients and saves
    MaxDeletes  \* bound: deletions

ASSUME EditFormAssumption ==
    /\ Null \notin Texts /\ Empty \in Texts /\ Typed \in [Fields -> SUBSET Texts] /\ Dictated \subseteq Texts \ {Empty}
    /\ Required \subseteq Fields /\ MaxWrites \in Nat /\ MaxDeletes \in Nat
    /\ Trim \in [Texts -> Texts] /\ Trim[Empty] = Empty
    /\ \A v \in Texts : Trim[Trim[v]] = Trim[v]
    /\ Sends \in [Fields -> [Texts -> Texts]]

\* What a page's form and action do.
Page == [onDemand : BOOLEAN,                    \* shown as text until the edit button is pressed
         closes : BOOLEAN,                      \* turned back into text by a rendering of new values
         columns : SUBSET Fields,               \* the columns edited
         sends : {"changed", "filled", "all"},  \* which of them a save writes
         trims : BOOLEAN,                       \* without blanks at their ends
         nulls : BOOLEAN,                       \* an emptied one as NULL
         owned : BOOLEAN]                       \* is the row looked for, or the work alone?

Settings == [onDemand |-> TRUE, closes |-> TRUE, columns |-> Fields,
             sends |-> "changed", trims |-> TRUE, nulls |-> TRUE, owned |-> TRUE]
Title == [onDemand |-> TRUE, closes |-> FALSE, columns |-> Required,
          sends |-> "all", trims |-> TRUE, nulls |-> FALSE, owned |-> TRUE]

\* The entries of the five collections: a copy of the action on each page.
Mystery == [onDemand |-> TRUE, closes |-> TRUE, columns |-> Fields,
            sends |-> "all", trims |-> TRUE, nulls |-> FALSE, owned |-> TRUE]
Foreshadowing == Mystery
PlotThread == Mystery
RevisionTodo == Mystery
StoryState == Mystery   \* of the newest snapshot alone: a newer one takes the form away

\* The pages that are always forms look for the work and update by id.
Character == [onDemand |-> FALSE, closes |-> FALSE, columns |-> Fields,
              sends |-> "filled", trims |-> FALSE, nulls |-> FALSE, owned |-> FALSE]
Scene == Character
WorldNote == [Character EXCEPT !.sends = "all"]

Pages == {Settings, Title, Mystery, Foreshadowing, PlotThread, RevisionTodo, StoryState,
          Character, Scene, WorldNote}

VARIABLES
    page,      \* which form the tabs show
    row,       \* field -> text or NULL
    gone,      \* is the row deleted?
    form,      \* what each tab shows
    call,      \* each tab's save
    dialog,    \* each tab's deletion dialog
    stamp,     \* history: field -> number of its last write
    writes, deletes

formVars == <<page, row, gone, form, call, dialog, stamp, writes, deletes>>

Row == [Fields -> Texts \cup {Null}]
Form == [open : BOOLEAN,                          \* is it a form?
         rendered : [Fields -> Texts],            \* the values of the last rendering
         typed : [Fields -> Texts \cup {Null}],   \* what the author typed over them
         seen : [Fields -> Nat]]                  \* history: `stamp` at that rendering

\* A save: the columns to write, and for the properties the text submitted, the fields the
\* author changed, and the number of the write.
CallSteps == {"idle", "check", "write", "render", "notFound", "error"}
Call == [step : CallSteps, input : UNION {[S -> Texts \cup {Null}] : S \in SUBSET Fields},
         text : [Fields -> Texts], meant : SUBSET Fields, number : Nat]

\* At most one deletion is under way in a tab, however fast the button is clicked and
\* whatever the dialog shows.
Dialog == [open : BOOLEAN, submitted : BOOLEAN, pending : BOOLEAN, requests : 0 .. 1]

Show(r) == [f \in Fields |-> IF r[f] = Null THEN Empty ELSE r[f]]
Untouched == [f \in Fields |-> Null]
Closed == [open |-> FALSE, submitted |-> FALSE, pending |-> FALSE, requests |-> 0]

FormTypeOK ==
    /\ page \in Pages /\ page \in Page /\ row \in Row /\ gone \in BOOLEAN
    /\ form \in [Tabs -> Form] /\ call \in [Tabs -> Call]
    /\ dialog \in [Tabs -> Dialog]
    /\ stamp \in [Fields -> Nat] /\ writes \in 0 .. MaxWrites /\ deletes \in 0 .. MaxDeletes
    /\ \A f \in Required : page # Settings => row[f] \notin {Null, Empty}

Rendering == [open |-> ~page.onDemand, rendered |-> Show(row), typed |-> Untouched, seen |-> stamp]
NoCall == [step |-> "idle", input |-> <<>>, text |-> Show(row), meant |-> {}, number |-> 0]

\* A row with its required fields alone, shown in every tab.
FormInit ==
    /\ page \in Pages
    /\ row \in [Fields -> Dictated \cup {Null}]
    /\ \A f \in Fields : (row[f] = Null) <=> (f \notin Required)
    /\ gone = FALSE
    /\ form = [t \in Tabs |-> [open |-> ~page.onDemand, rendered |-> Show(row),
                               typed |-> Untouched, seen |-> [f \in Fields |-> 0]]]
    /\ call = [t \in Tabs |-> NoCall]
    /\ dialog = [t \in Tabs |-> Closed]
    /\ stamp = [f \in Fields |-> 0] /\ writes = 0 /\ deletes = 0

Step(t, step) == call' = [call EXCEPT ![t].step = step]
AtStep(t, step) == call[t].step = step

-----------------------------------------------------------------------------
(* The author.  The open dialog makes the rest of the page inert. *)

\* Coming to the page, or loading it again: also the way out of an error.
Load(t) ==
    /\ ~AtStep(t, "check") /\ ~AtStep(t, "write") /\ ~AtStep(t, "render")
    /\ IF gone THEN /\ ~AtStep(t, "notFound") /\ Step(t, "notFound") /\ UNCHANGED form
       ELSE /\ call' = [call EXCEPT ![t] = NoCall]
            /\ form' = [form EXCEPT ![t] = Rendering]
    /\ dialog' = [dialog EXCEPT ![t] = Closed]
    /\ UNCHANGED <<page, row, gone, stamp, writes, deletes>>

\* The edit and cancel buttons of EditableContent: the form starts from what is rendered.
Toggle(t) ==
    /\ page.onDemand /\ AtStep(t, "idle") /\ ~dialog[t].open
    /\ form' = [form EXCEPT ![t].open = ~form[t].open, ![t].typed = Untouched]
    /\ UNCHANGED <<page, row, gone, call, dialog, stamp, writes, deletes>>

\* What is typed over a field in the end: a step per field.
Type(t, f, text) ==
    /\ AtStep(t, "idle") /\ form[t].open /\ ~dialog[t].open
    /\ f \in page.columns /\ form[t].typed[f] = Null
    /\ form' = [form EXCEPT ![t].typed[f] = text]
    /\ UNCHANGED <<page, row, gone, call, dialog, stamp, writes, deletes>>

\* What the form holds: inputs not touched follow the rendering.
Content(t) == [f \in Fields |-> IF form[t].typed[f] = Null THEN form[t].rendered[f] ELSE form[t].typed[f]]

\* What the browser submits: the line breaks of a textarea as CRLF, those of an input not
\* at all.
Submitted(t) == [f \in Fields |-> Sends[f][Content(t)[f]]]

\* The text of a column, as the action writes it.
Column(text) ==
    LET kept == IF page.trims THEN Trim[text] ELSE text IN
    IF page.nulls /\ kept = Empty THEN Null ELSE kept

\* Mutant: every field of the settings form is sent.
MutInput(t) == [f \in page.columns |-> Column(Submitted(t)[f])]

\* What a save writes: the columns whose trimmed text differs from the text, as it was
\* stored, that this page was rendered with, all but the empty ones, or all.
Input(t) ==
    LET Changed(f) == Trim[Submitted(t)[f]] # form[t].rendered[f]
        sent == {f \in page.columns : CASE page.sends = "changed" -> Changed(f)
                                       [] page.sends = "filled"  -> Submitted(t)[f] # Empty
                                       [] page.sends = "all"     -> TRUE}
    IN [f \in sent |-> Column(Submitted(t)[f])]

\* The browser keeps a form with an empty required field.  A form of which nothing is sent
\* is rendered again without a write.
Submit(t) ==
    /\ AtStep(t, "idle") /\ form[t].open /\ ~dialog[t].open /\ writes < MaxWrites /\ writes' = writes + 1
    /\ page # Settings => \A f \in Required : Submitted(t)[f] # Empty
    /\ call' = [call EXCEPT ![t] =
          [step |-> IF Input(t) = <<>> THEN "render" ELSE "check",
           input |-> Input(t), text |-> Submitted(t),
           meant |-> {f \in Fields : Content(t)[f] # form[t].rendered[f]},
           number |-> writes + 1]]
    /\ UNCHANGED <<page, row, gone, form, dialog, stamp, deletes>>

-----------------------------------------------------------------------------
(* The server action *)

\* Mutant: the input is not validated.
MutCheck(t) ==
    /\ AtStep(t, "check")
    /\ Step(t, IF gone /\ page.owned THEN "notFound" ELSE "write")
    /\ UNCHANGED <<page, row, gone, form, dialog, stamp, writes, deletes>>

\* A page that does not look for its row checks the work alone, which is live here.
Check(t) ==
    /\ AtStep(t, "check")
    /\ Step(t, IF gone /\ page.owned THEN "notFound"
               ELSE IF page # Settings /\ \E f \in DOMAIN call[t].input \cap Required : call[t].input[f] = Empty
               THEN "error" ELSE "write")
    /\ UNCHANGED <<page, row, gone, form, dialog, stamp, writes, deletes>>

\* Mutant: NULL is taken for a field not sent.
MutOverwritten(input) ==
    [f \in Fields |-> IF f \in DOMAIN input /\ input[f] # Null THEN input[f] ELSE row[f]]

\* The columns sent are set, the others stay.
Overwritten(input) == [f \in Fields |-> IF f \in DOMAIN input THEN input[f] ELSE row[f]]

Stamped(S, n) == [f \in Fields |-> IF f \in S THEN n ELSE stamp[f]]

\* The update is by id: a row deleted since the check is written all the same.
Write(t) ==
    /\ AtStep(t, "write")
    /\ row' = Overwritten(call[t].input)
    /\ stamp' = Stamped(DOMAIN call[t].input, call[t].number)
    /\ Step(t, "render")
    /\ UNCHANGED <<page, gone, form, dialog, writes, deletes>>

\* EditableContent after a rendering: new values close the form, the same values leave it
\* open.  In a form that stays, React may or may not take back what was typed.
Rendered(t) ==
    LET new == [form[t] EXCEPT !.rendered = Show(row), !.seen = stamp]
        clear == [new EXCEPT !.typed = Untouched]
    IN IF page.closes /\ Show(row) # form[t].rendered
       THEN {[clear EXCEPT !.open = FALSE]} ELSE {new, clear}

\* The redirect of the action: the page is rendered from the row as it is now.
Render(t) ==
    /\ AtStep(t, "render")
    /\ IF gone THEN Step(t, "notFound") /\ UNCHANGED form
       ELSE /\ \E shown \in Rendered(t) : form' = [form EXCEPT ![t] = shown]
            /\ call' = [call EXCEPT ![t] = NoCall]
    /\ UNCHANGED <<page, row, gone, dialog, stamp, writes, deletes>>

-----------------------------------------------------------------------------
(* Others, and the deletion of the work *)

\* PATCH of the row by an AI client; a setting may be cleared.
Dictate(f, text) ==
    /\ ~gone /\ writes < MaxWrites /\ writes' = writes + 1
    /\ text = Null => page = Settings
    /\ row' = Overwritten([g \in {f} |-> text])
    /\ stamp' = Stamped({f}, writes + 1)
    /\ UNCHANGED <<page, gone, form, call, dialog, deletes>>

\* DELETE of the row by somebody else, or the rollback of its deletion; of a story state,
\* a newer one, since the page updates the newest alone.
Vanish ==
    /\ deletes < MaxDeletes /\ deletes' = deletes + 1
    /\ gone' = ~gone
    /\ UNCHANGED <<page, row, form, call, dialog, stamp, writes>>

\* The delete button of a page that is always a form: no row is looked for, and the
\* browser goes to the work.
DeleteRow(t) ==
    /\ ~page.onDemand /\ AtStep(t, "idle") /\ deletes < MaxDeletes /\ deletes' = deletes + 1
    /\ gone' = TRUE
    /\ Step(t, "notFound")
    /\ UNCHANGED <<page, row, form, dialog, stamp, writes>>

OpenDialog(t) ==
    /\ page = Settings /\ AtStep(t, "idle") /\ ~dialog[t].open
    /\ dialog' = [dialog EXCEPT ![t].open = TRUE]
    /\ UNCHANGED <<page, row, gone, form, call, stamp, writes, deletes>>

\* The cancel button and Escape ask the state of the last rendering.
CloseDialog(t) ==
    /\ dialog[t].open /\ ~dialog[t].pending
    /\ dialog' = [dialog EXCEPT ![t].open = FALSE]
    /\ UNCHANGED <<page, row, gone, form, call, stamp, writes, deletes>>

\* A click on the confirming button: the ref is set at once, `pending` by the rendering.
Confirm(t) ==
    /\ dialog[t].open /\ ~dialog[t].submitted
    /\ dialog' = [dialog EXCEPT ![t].submitted = TRUE, ![t].requests = @ + 1]
    /\ UNCHANGED <<page, row, gone, form, call, stamp, writes, deletes>>

ShowPending(t) ==
    /\ dialog[t].submitted /\ ~dialog[t].pending
    /\ dialog' = [dialog EXCEPT ![t].pending = TRUE]
    /\ UNCHANGED <<page, row, gone, form, call, stamp, writes, deletes>>

\* deleteProject answers a request: the work is deleted and the browser leaves the page,
\* or it is not found, or the request fails and may be sent again.
Deleted(t) ==
    /\ dialog[t].requests > 0 /\ AtStep(t, "idle")
    /\ \/ /\ ~gone /\ gone' = TRUE /\ deletes < MaxDeletes /\ deletes' = deletes + 1
          /\ Step(t, "notFound")
       \/ gone /\ Step(t, "notFound") /\ UNCHANGED <<gone, deletes>>
       \/ Step(t, "error") /\ UNCHANGED <<gone, deletes>>
    /\ dialog' = [dialog EXCEPT ![t] = [Closed EXCEPT !.requests = dialog[t].requests - 1]]
    /\ UNCHANGED <<page, row, form, stamp, writes>>

FormNext ==
    \/ \E t \in Tabs : Load(t) \/ Toggle(t) \/ DeleteRow(t) \/ Submit(t) \/ Check(t) \/ Write(t) \/ Render(t)
    \/ \E t \in Tabs, f \in Fields : \E text \in Typed[f] : Type(t, f, text)
    \/ \E f \in Fields, text \in Dictated \cup {Null} : Dictate(f, text)
    \/ Vanish
    \/ \E t \in Tabs : OpenDialog(t) \/ CloseDialog(t) \/ Confirm(t) \/ ShowPending(t) \/ Deleted(t)

FormSpec == FormInit /\ [][FormNext]_formVars

-----------------------------------------------------------------------------
(* Properties *)

\* Is what the action makes of a text the author left in its control the text itself?
GivesBack(f, text) == (IF page.trims THEN Trim[Sends[f][text]] ELSE Sends[f][text]) = text

\* The write of `t` that this step makes, of a field its author left alone, and that
\* changes what the field shows.
Disturbs(t, f) ==
    /\ AtStep(t, "write") /\ stamp' # stamp /\ stamp'[f] = call[t].number
    /\ f \notin call[t].meant /\ Show(row')[f] # Show(row)[f]

\* A save disturbs a field its author left alone in two cases only: a form that sends
\* every field does, when the field was written since the form was rendered; and any form
\* does, the settings among them, when the text it was rendered with does not come back
\* from its control and the trimming as it was (blanks at its ends, line breaks that are
\* not CRLF).
UntouchedSurvives ==
    [][\A t \in Tabs, f \in Fields : Disturbs(t, f) =>
          \/ page # Settings /\ stamp[f] # form[t].seen[f]
          \/ ~GivesBack(f, form[t].rendered[f])]_formVars

\* What an author's browser sent is what the row holds when the page is rendered again, but
\* for blanks at its ends, unless somebody wrote the field since; only a sheet keeps a text
\* its author emptied.
SavedAsTyped ==
    \A t \in Tabs : AtStep(t, "render") =>
        \A f \in call[t].meant :
            \/ stamp[f] \notin {form[t].seen[f], call[t].number}
            \/ Trim[Show(row)[f]] = Trim[call[t].text[f]]
            \/ page.sends = "filled" /\ call[t].text[f] = Empty
=============================================================================
