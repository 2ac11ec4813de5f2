-------------------------- MODULE WorkspaceProofs --------------------------
(***************************************************************************)
(* Workspace for any tables, limits, names and overlapping requests: rows  *)
(* are well-formed, a note stays with a character of its work, and a limit *)
(* is kept unless one of the excuses holds.                                *)
(***************************************************************************)
EXTENDS Workspace, OrderProofs

\* What request p may rely on at its step: the work and the row it refers to are rows, and
\* only some kinds come to a step.
Underway(p) == pc[p] # "idle" =>
    /\ req[p].new \in Row
    /\ req[p].new.work \in 0 .. Len(rows) /\ req[p].new.ref \in 0 .. Len(rows)
    /\ pc[p] \in {"chapter", "chapterOrder", "chapterInsert"} => req[p].new.kind = "scene"
    /\ pc[p] \in {"character", "characterInsert"} => req[p].new.kind = "note"
    /\ req[p].new.kind = "note" => req[p].new.size = 1
    /\ pc[p] = "state" => req[p].new.kind = "record" /\ req[p].new.size = 1
    /\ pc[p] = "check" => req[p].new.kind # "chapter"
    /\ pc[p] = "name" => req[p].new.kind \in {"note", "character"}
    /\ pc[p] = "order" => req[p].new.kind # "note"
    /\ pc[p] = "sample" => /\ req[p].new.kind = "project" /\ req[p].new.work = 0
                           /\ req[p].new.sample
    /\ pc[p] = "insert" /\ req[p].new.kind = "note" =>
          /\ req[p].new.ref \in DOMAIN rows
          /\ rows[req[p].new.ref].kind = "character"
          /\ rows[req[p].new.ref].work = req[p].new.work
    /\ \/ pc[p] \in {"chapter", "chapterOrder", "chapterInsert", "character", "name", "characterInsert"}
       \/ pc[p] = "check" /\ req[p].new.kind = "note"
       => req[p].named \in Names

\* What NotesStayHome says, with the reference a row.
NotesHome ==
    \A n \in DOMAIN rows : rows[n].kind = "note" =>
        /\ rows[n].ref \in DOMAIN rows
        /\ rows[rows[n].ref].kind = "character" /\ rows[rows[n].ref].work = rows[n].work

\* A kind nothing excuses: the limit holds, and at most one request has been found to have
\* room and still has it.
Roomy(kind) ==
    /\ \A w \in 0 .. Len(rows) : Used(w, kind) <= PlanLimits[plan][kind]
    /\ \A p \in Admitted(kind) : \A q \in Admitted(kind) : p = q
    /\ \A p \in Admitted(kind) : HasRoom(req[p].new.work, kind, req[p].new.size)

Well == TypeOK /\ NotesHome /\ \A p \in Handlers : Underway(p)
WorkspaceIInv == Well /\ \A kind \in Limited \ excused : Roomy(kind)

\* Rows are added and keep their kind and their work.
RowsGrow ==
    /\ Len(rows) <= Len(rows')
    /\ \A i \in DOMAIN rows : rows'[i].kind = rows[i].kind /\ rows'[i].work = rows[i].work

-----------------------------------------------------------------------------
(* Counting *)

LEMMA LengthsAre == MaxLength \in Nat /\ 1 \in 0 .. MaxLength /\ \A s \in Lengths : s \in 0 .. MaxLength
  BY WorkspaceAssumption

LEMMA SizesAre ==
    ASSUME NEW table \in Seq(Row), NEW i \in DOMAIN table
    PROVE  table[i] \in Row /\ table[i].size \in Nat
<1>1. table[i] \in Row
  OBVIOUS
<1>2. QED
  BY <1>1, LengthsAre DEF Row

LEMMA CountedFinite ==
    ASSUME NEW table \in Seq(Row), NEW w, NEW kind
    PROVE  IsFiniteSet(CountedIn(table, w, kind)) /\ Cardinality(CountedIn(table, w, kind)) \in Nat
<1>1. DOMAIN table = 1 .. Len(table) /\ Len(table) \in Nat /\ MaxLength \in Nat
  BY WorkspaceAssumption
<1>2. IsFiniteSet(1 .. Len(table)) /\ IsFiniteSet(1 .. MaxLength)
  BY <1>1, FS_Interval
<1>3. IsFiniteSet((DOMAIN table) \X (1 .. MaxLength))
  BY <1>1, <1>2, FS_Product
<1>4. CountedIn(table, w, kind) \subseteq (DOMAIN table) \X (1 .. MaxLength)
  BY DEF CountedIn
<1>5. QED
  BY <1>3, <1>4, FS_Subset, FS_CardinalityType

\* A table in which every row that counts counted before has no more of them.
LEMMA CountedFewer ==
    ASSUME NEW table \in Seq(Row), NEW later \in Seq(Row), NEW w, NEW kind,
           CountedIn(later, w, kind) \subseteq CountedIn(table, w, kind)
    PROVE  Cardinality(CountedIn(later, w, kind)) <= Cardinality(CountedIn(table, w, kind))
  BY CountedFinite, FS_Subset

\* The units of row i when it is as long as `size`.
UnitsOf(i, size) == {i} \X (1 .. size)

LEMMA UnitsOfOne ==
    ASSUME NEW i, NEW size \in Nat
    PROVE  IsFiniteSet(UnitsOf(i, size)) /\ Cardinality(UnitsOf(i, size)) = size
<1>1. IsFiniteSet({i}) /\ Cardinality({i}) = 1
  BY FS_Singleton
<1>2. IsFiniteSet(1 .. size) /\ Cardinality(1 .. size) = size
  BY FS_Interval
<1>3. /\ IsFiniteSet({i} \X (1 .. size))
      /\ Cardinality({i} \X (1 .. size)) = Cardinality({i}) * Cardinality(1 .. size)
  BY <1>1, <1>2, FS_Product
<1>4. QED
  BY <1>1, <1>2, <1>3 DEF UnitsOf

\* One row more counts its length more at most.
LEMMA CountedOneMore ==
    ASSUME NEW table \in Seq(Row), NEW later \in Seq(Row), NEW w, NEW kind, NEW i, NEW size \in Nat,
           CountedIn(later, w, kind) \subseteq CountedIn(table, w, kind) \cup UnitsOf(i, size)
    PROVE  Cardinality(CountedIn(later, w, kind)) <= Cardinality(CountedIn(table, w, kind)) + size
<1> DEFINE before == CountedIn(table, w, kind)
           more == UnitsOf(i, size)
<1>1. IsFiniteSet(before) /\ Cardinality(before) \in Nat /\ IsFiniteSet(more) /\ Cardinality(more) = size
  BY CountedFinite, UnitsOfOne
<1>2. Cardinality(CountedIn(later, w, kind)) \in Nat
  BY CountedFinite
<1>3. CountedIn(later, w, kind) \subseteq before \cup more
  OBVIOUS
<1> HIDE DEF before, more
<1>4. /\ IsFiniteSet(before \cup more)
      /\ Cardinality(before \cup more) = Cardinality(before) + Cardinality(more) - Cardinality(before \cap more)
  BY <1>1, FS_Union
<1>5. Cardinality(before \cap more) \in Nat
  BY <1>1, FS_Intersection, FS_CardinalityType
<1>6. /\ Cardinality(CountedIn(later, w, kind)) <= Cardinality(before \cup more)
      /\ Cardinality(before \cup more) \in Nat
  BY <1>3, <1>4, FS_Subset, FS_CardinalityType
<1>7. QED
  BY <1>1, <1>2, <1>4, <1>5, <1>6 DEF before

\* At most one unit counts.
LEMMA CountedOne ==
    ASSUME NEW table \in Seq(Row), NEW w, NEW kind, NEW i,
           CountedIn(table, w, kind) \subseteq {i}
    PROVE  Cardinality(CountedIn(table, w, kind)) <= 1
<1>1. IsFiniteSet({i}) /\ Cardinality({i}) = 1
  BY FS_Singleton
<1>2. QED
  BY <1>1, FS_Subset, CountedFinite

-----------------------------------------------------------------------------
(* What a step of one request leaves alone *)

LEMMA RequestGoesOn ==
    ASSUME NEW p \in Handlers, Underway(p), rows \in Seq(Row), rows' \in Seq(Row), RowsGrow,
           pc'[p] = pc[p], req'[p] = req[p]
    PROVE  Underway(p)'
<1>1. DOMAIN rows = 1 .. Len(rows) /\ DOMAIN rows' = 1 .. Len(rows') /\ Len(rows) \in Nat /\ Len(rows') \in Nat
  OBVIOUS
<1>2. \A i \in DOMAIN rows : i \in DOMAIN rows' /\ rows'[i].kind = rows[i].kind /\ rows'[i].work = rows[i].work
  BY <1>1 DEF RowsGrow
<1>3. \A i \in 0 .. Len(rows) : i \in 0 .. Len(rows')
  BY <1>1 DEF RowsGrow
<1>4. QED
  BY <1>2, <1>3 DEF Underway

\* Room is kept when no row counts that did not, but one in a new work, and nobody is let in.
LEMMA RoomKept ==
    ASSUME NEW kind \in Limited, Roomy(kind), Well, rows' \in Seq(Row), RowsGrow,
           plan' \in PlanNames, PlanLimits[plan][kind] <= PlanLimits[plan'][kind],
           \A w \in 0 .. Len(rows) : CountedIn(rows', w, kind) \subseteq CountedIn(rows, w, kind),
           \A w \in 0 .. Len(rows') : w \notin 0 .. Len(rows) => Cardinality(CountedIn(rows', w, kind)) <= 1,
           \A q \in Admitted(kind)' : /\ q \in Admitted(kind) /\ req'[q].new.work = req[q].new.work
                                       /\ req'[q].new.size = req[q].new.size
    PROVE  Roomy(kind)'
<1>1. rows \in Seq(Row) /\ plan \in PlanNames
  BY DEF Well, TypeOK
<1>2. \A w \in 0 .. Len(rows) :
         /\ Cardinality(CountedIn(rows', w, kind)) <= Cardinality(CountedIn(rows, w, kind))
         /\ Cardinality(CountedIn(rows', w, kind)) \in Nat /\ Cardinality(CountedIn(rows, w, kind)) \in Nat
  BY <1>1, CountedFewer, CountedFinite
<1>3. \A P \in PlanNames : PlanLimits[P][kind] \in Nat /\ 1 <= PlanLimits[P][kind]
  BY WorkspaceAssumption
<1>4. \A w \in 0 .. Len(rows') : Cardinality(CountedIn(rows', w, kind)) \in Nat
  BY CountedFinite
<1>5. ASSUME NEW w \in 0 .. Len(rows')
      PROVE  Cardinality(CountedIn(rows', w, kind)) <= PlanLimits[plan'][kind]
  <2>1. CASE w \in 0 .. Len(rows)
    <3>1. Cardinality(CountedIn(rows, w, kind)) <= PlanLimits[plan][kind]
      BY <2>1 DEF Roomy, Used
    <3>2. QED
      BY <1>1, <1>2, <1>3, <2>1, <3>1
  <2>2. CASE w \notin 0 .. Len(rows)
    BY <1>3, <1>4, <2>2
  <2>3. QED
    BY <2>1, <2>2
<1>6. \A q, r \in Admitted(kind)' : q = r
  BY DEF Roomy
<1>7. ASSUME NEW q \in Admitted(kind)'
      PROVE  Cardinality(CountedIn(rows', req'[q].new.work, kind)) + req'[q].new.size <= PlanLimits[plan'][kind]
  <2>1. q \in Handlers /\ pc[q] # "idle"
    BY DEF Admitted, Steps
  <2>2. req[q].new.work \in 0 .. Len(rows) /\ req[q].new.size \in Nat
    BY <2>1, WorkspaceAssumption DEF Well, Underway, Row
  <2>3. Cardinality(CountedIn(rows, req[q].new.work, kind)) + req[q].new.size <= PlanLimits[plan][kind]
    BY DEF Roomy, Used, HasRoom
  <2>4. QED
    BY <1>1, <1>2, <1>3, <2>2, <2>3
<1>8. QED
  BY <1>5, <1>6, <1>7 DEF Roomy, Used, HasRoom

\* A request makes a row there is room for, and nobody else is waiting to.
LEMMA RoomTaken ==
    ASSUME NEW kind \in Limited, Roomy(kind), Well, rows' \in Seq(Row), RowsGrow, plan' = plan,
           NEW i, NEW size \in Nat, NEW work \in 0 .. Len(rows), HasRoom(work, kind, size),
           \A w \in 0 .. Len(rows) : w # work => CountedIn(rows', w, kind) \subseteq CountedIn(rows, w, kind),
           CountedIn(rows', work, kind) \subseteq CountedIn(rows, work, kind) \cup UnitsOf(i, size),
           \A w \in 0 .. Len(rows') : w \notin 0 .. Len(rows) => Cardinality(CountedIn(rows', w, kind)) <= 1,
           Admitted(kind)' = {}
    PROVE  Roomy(kind)'
<1>1. rows \in Seq(Row) /\ plan \in PlanNames
  BY DEF Well, TypeOK
<1>2. \A w : Cardinality(CountedIn(rows', w, kind)) \in Nat /\ Cardinality(CountedIn(rows, w, kind)) \in Nat
  BY <1>1, CountedFinite
<1>3. PlanLimits[plan][kind] \in Nat /\ 1 <= PlanLimits[plan][kind]
  BY <1>1, WorkspaceAssumption
<1>4. ASSUME NEW w \in 0 .. Len(rows')
      PROVE  Cardinality(CountedIn(rows', w, kind)) <= PlanLimits[plan][kind]
  <2>1. CASE w \in 0 .. Len(rows) /\ w # work
    <3>1. Cardinality(CountedIn(rows, w, kind)) <= PlanLimits[plan][kind]
      BY <2>1 DEF Roomy, Used
    <3>2. Cardinality(CountedIn(rows', w, kind)) <= Cardinality(CountedIn(rows, w, kind))
      BY <1>1, <2>1, CountedFewer
    <3>3. QED
      BY <1>2, <1>3, <3>1, <3>2
  <2>2. CASE w = work
    <3>1. Cardinality(CountedIn(rows, w, kind)) + size <= PlanLimits[plan][kind]
      BY <2>2 DEF HasRoom, Used
    <3>2. Cardinality(CountedIn(rows', w, kind)) <= Cardinality(CountedIn(rows, w, kind)) + size
      BY <1>1, <2>2, CountedOneMore
    <3>3. QED
      BY <1>2, <1>3, <3>1, <3>2
  <2>3. CASE w \notin 0 .. Len(rows)
    BY <1>2, <1>3, <2>3
  <2>4. QED
    BY <2>1, <2>2, <2>3
<1>5. QED
  BY <1>4 DEF Roomy, Used

\* A step of request p that makes no row of a kind that counts and is not excused.
LEMMA StepKeeps ==
    ASSUME WorkspaceIInv, NEW p \in Handlers, TypeOK', RowsGrow, NotesHome', Underway(p)',
           \A q \in Handlers \ {p} : pc'[q] = pc[q] /\ req'[q] = req[q],
           plan' = plan, excused \subseteq excused',
           \A kind \in Limited \ excused' :
               /\ \A w \in 0 .. Len(rows) : CountedIn(rows', w, kind) \subseteq CountedIn(rows, w, kind)
               /\ \A w \in 0 .. Len(rows') : w \notin 0 .. Len(rows) =>
                      Cardinality(CountedIn(rows', w, kind)) <= 1
               /\ p \in Admitted(kind)' => /\ p \in Admitted(kind) /\ req'[p].new.work = req[p].new.work
                                           /\ req'[p].new.size = req[p].new.size
    PROVE  WorkspaceIInv'
<1>1. rows \in Seq(Row) /\ rows' \in Seq(Row) /\ plan' \in PlanNames
  BY DEF WorkspaceIInv, Well, TypeOK
<1>2. \A q \in Handlers : Underway(q)'
  <2>1. ASSUME NEW q \in Handlers, q # p PROVE Underway(q)'
    <3>1. Underway(q) /\ pc'[q] = pc[q] /\ req'[q] = req[q]
      BY <2>1 DEF WorkspaceIInv, Well
    <3>2. QED
      BY <1>1, <3>1, RequestGoesOn
  <2>2. QED
    BY <2>1
<1>3. ASSUME NEW kind \in Limited \ excused' PROVE Roomy(kind)'
  <2>1. Roomy(kind) /\ Well
    BY DEF WorkspaceIInv
  <2>2. \A q \in Admitted(kind)' : /\ q \in Admitted(kind) /\ req'[q].new.work = req[q].new.work
                                    /\ req'[q].new.size = req[q].new.size
    BY DEF Admitted, Charged, At
  <2>3. PlanLimits[plan][kind] <= PlanLimits[plan'][kind]
    BY <1>1, WorkspaceAssumption
  <2>4. QED
    BY <1>1, <2>1, <2>2, <2>3, RoomKept
<1>4. QED
  BY <1>2, <1>3 DEF WorkspaceIInv, Well

\* A step that changes only what request p holds.
LEMMA QuietKeeps ==
    ASSUME WorkspaceIInv, NEW p \in Handlers, UNCHANGED <<rows, plan>>,
           NEW step \in Steps \cup {"idle"}, NEW held \in Local,
           pc' = [pc EXCEPT ![p] = step], req' = [req EXCEPT ![p] = held],
           begun' \in 0 .. MaxRequests, excused \subseteq excused', excused' \subseteq Limited,
           Underway(p)',
           \A kind \in Limited \ excused' :
               p \in Admitted(kind)' => /\ p \in Admitted(kind) /\ held.new.work = req[p].new.work
                                        /\ held.new.size = req[p].new.size
    PROVE  WorkspaceIInv'
<1>1. TypeOK'
  BY DEF WorkspaceIInv, Well, TypeOK
<1>2. RowsGrow /\ rows \in Seq(Row)
  BY DEF RowsGrow, WorkspaceIInv, Well, TypeOK
<1>3. NotesHome'
  BY DEF NotesHome, WorkspaceIInv, Well
<1>4. /\ pc'[p] = step /\ req'[p] = held
      /\ \A q \in Handlers \ {p} : pc'[q] = pc[q] /\ req'[q] = req[q]
  BY DEF WorkspaceIInv, Well, TypeOK
<1>5. QED
  BY <1>1, <1>2, <1>3, <1>4, StepKeeps

\* A request is over.
LEMMA DoneKeeps ==
    ASSUME WorkspaceIInv, NEW p \in Handlers, Done(p), UNCHANGED <<rows, plan, begun>>,
           excused \subseteq excused', excused' \subseteq Limited
    PROVE  WorkspaceIInv'
<1>1. Blank \in Local /\ begun \in 0 .. MaxRequests
  BY DEF Blank, Local, WorkspaceIInv, Well, TypeOK
<1>2. pc'[p] = "idle"
  BY DEF Done, Goto, WorkspaceIInv, Well, TypeOK
<1>3. Underway(p)'
  BY <1>2 DEF Underway
<1>4. \A kind : p \notin Admitted(kind)'
  BY <1>2 DEF Admitted, Steps
<1>5. QED
  BY <1>1, <1>3, <1>4, QuietKeeps DEF Done, Goto

-----------------------------------------------------------------------------
(* Requests begin *)

LEMMA NewRowIsRow ==
    ASSUME NEW kind \in Kinds, NEW w \in Nat
    PROVE  /\ NewRow(kind, w) \in Row
           /\ NewRow(kind, w).kind = kind /\ NewRow(kind, w).work = w /\ NewRow(kind, w).ref = 0
           /\ NewRow(kind, w).name = Null /\ NewRow(kind, w).order = 0 /\ NewRow(kind, w).size = 1
           /\ ~NewRow(kind, w).sample /\ ~NewRow(kind, w).deleted
  BY WorkspaceAssumption DEF NewRow, Row

\* A request that begins is admitted to nothing, but where nothing is checked.
LEMMA StartKeeps ==
    ASSUME WorkspaceIInv, NEW p \in Handlers, NEW step \in Steps, NEW new \in Row,
           NEW named \in Names \cup {Null}, Start(p, step, new, named),
           new.work \in 0 .. Len(rows), new.ref \in 0 .. Len(rows),
           excused \subseteq excused', excused' \subseteq Limited,
           step \in {"check", "order", "insert", "name", "character", "sample"},
           step = "character" => new.kind = "note",
           step = "check" => new.kind \notin {"chapter", "note"},
           new.kind = "note" => new.size = 1,
           step \in {"character", "name"} => named \in Names,
           step = "name" => new.kind \in {"note", "character"},
           step = "order" => new.kind # "note",
           step = "sample" => new.kind = "project" /\ new.work = 0 /\ new.sample,
           step = "insert" /\ new.kind = "note" =>
               /\ new.ref \in DOMAIN rows
               /\ rows[new.ref].kind = "character" /\ rows[new.ref].work = new.work,
           step \in {"order", "insert"} /\ new.kind # "note" => new.kind \notin Limited \ excused'
    PROVE  WorkspaceIInv'
<1> DEFINE held == [new |-> new, named |-> named]
<1>1. held \in Local /\ held.new = new /\ held.named = named
  BY DEF Local
<1>2. pc' = [pc EXCEPT ![p] = step] /\ req' = [req EXCEPT ![p] = held] /\ UNCHANGED <<rows, plan>>
  BY DEF Start, Goto
<1>3. begun' \in 0 .. MaxRequests
  BY WorkspaceAssumption DEF Start, Begin, WorkspaceIInv, Well, TypeOK
<1>4. pc'[p] = step /\ req'[p] = held
  BY <1>2 DEF WorkspaceIInv, Well, TypeOK
<1> HIDE DEF held
<1>5. Underway(p)'
  BY <1>1, <1>2, <1>4 DEF Underway
<1>6. \A kind \in Limited \ excused' : p \notin Admitted(kind)'
  BY <1>1, <1>4 DEF Admitted, Charged, At
<1>7. QED
  BY <1>1, <1>2, <1>3, <1>5, <1>6, QuietKeeps

LEMMA TablesAre ==
    ASSUME WorkspaceIInv
    PROVE  /\ rows \in Seq(Row) /\ Len(rows) \in Nat /\ DOMAIN rows = 1 .. Len(rows)
           /\ plan \in PlanNames /\ begun \in 0 .. MaxRequests /\ excused \subseteq Limited
           /\ pc \in [Handlers -> Steps \cup {"idle"}] /\ req \in [Handlers -> Local]
  BY DEF WorkspaceIInv, Well, TypeOK

LEMMA WorksStartKeep ==
    ASSUME WorkspaceIInv, NEW p \in Handlers, StartProject(p) \/ StartSample(p)
    PROVE  WorkspaceIInv'
<1>1. 0 \in 0 .. Len(rows) /\ excused \subseteq Limited
  BY TablesAre
<1>2. Null \in Names \cup {Null}
  OBVIOUS
<1>3. CASE StartProject(p)
  <2>1. "project" \in Kinds /\ "check" \in Steps
    BY DEF Kinds, Steps
  <2>2. QED
    BY <1>1, <1>2, <1>3, <2>1, NewRowIsRow, StartKeeps DEF StartProject
<1>4. CASE StartSample(p)
  <2> DEFINE new == [NewRow("project", 0) EXCEPT !.sample = TRUE]
  <2>1. new \in Row /\ new.kind = "project" /\ new.work = 0 /\ new.ref = 0 /\ new.sample
    BY LengthsAre DEF NewRow, Row, Kinds
  <2>2. Start(p, "sample", new, Null) /\ UNCHANGED excused /\ "sample" \in Steps
    BY <1>4 DEF StartSample, Steps
  <2> HIDE DEF new
  <2>3. QED
    BY <1>1, <1>2, <2>1, <2>2, StartKeeps
<1>5. QED
  BY <1>3, <1>4

\* The requests of the API and of the tools are checked, or make a row no limit counts.
LEMMA CheckedStartsKeep ==
    ASSUME WorkspaceIInv, NEW p \in Handlers, NEW w \in DOMAIN rows,
           \/ StartChapter(p, w) \/ StartScene(p, w) \/ StartRecord(p, w) \/ StartNote(p, w)
    PROVE  WorkspaceIInv'
<1>1. w \in Nat /\ w \in 0 .. Len(rows) /\ 0 \in 0 .. Len(rows) /\ excused \subseteq Limited
      /\ \A i \in DOMAIN rows : i \in 0 .. Len(rows)
  BY TablesAre
<1>2. Null \in Names \cup {Null} /\ \A o \in Orders : o \in Nat
  BY WorkspaceAssumption
<1>3. CASE StartChapter(p, w)
  <2>1. "chapter" \in Kinds /\ "chapter" \notin Limited /\ {"order", "insert"} \subseteq Steps
    BY DEF Kinds, Steps, Limited
  <2>2. CASE Start(p, "order", NewRow("chapter", w), Null)
    BY <1>1, <1>2, <1>3, <2>1, <2>2, NewRowIsRow, StartKeeps DEF StartChapter
  <2>3. ASSUME NEW o \in Orders, Start(p, "insert", [NewRow("chapter", w) EXCEPT !.order = o], Null)
        PROVE  WorkspaceIInv'
    <3> DEFINE new == [NewRow("chapter", w) EXCEPT !.order = o]
    <3>1. new \in Row /\ new.kind = "chapter" /\ new.work = w /\ new.ref = 0
      BY <1>1, <1>2, LengthsAre DEF NewRow, Row, Kinds
    <3>2. Start(p, "insert", new, Null) /\ UNCHANGED excused
      BY <1>3, <2>3 DEF StartChapter
    <3> HIDE DEF new
    <3>3. QED
      BY <1>1, <1>2, <2>1, <3>1, <3>2, StartKeeps
  <2>4. QED
    BY <1>3, <2>2, <2>3 DEF StartChapter
<1>4. CASE StartScene(p, w)
  <2>1. PICK c \in {0} \cup {i \in DOMAIN rows : rows[i].kind = "chapter"}, o \in {0} \cup Orders, s \in Lengths :
          Start(p, "check", [NewRow("scene", w) EXCEPT !.ref = c, !.order = o, !.size = s], Null)
    BY <1>4 DEF StartScene
  <2> DEFINE new == [NewRow("scene", w) EXCEPT !.ref = c, !.order = o, !.size = s]
  <2>2. c \in 0 .. Len(rows) /\ c \in Nat /\ o \in Nat
    BY <1>1, <1>2
  <2>3. new \in Row /\ new.kind = "scene" /\ new.work = w /\ new.ref = c
    BY <1>1, <2>2, LengthsAre DEF NewRow, Row, Kinds
  <2>4. Start(p, "check", new, Null) /\ UNCHANGED excused /\ "check" \in Steps
    BY <1>4, <2>1 DEF StartScene, Steps
  <2> HIDE DEF new
  <2>5. QED
    BY <1>1, <1>2, <2>2, <2>3, <2>4, StartKeeps
<1>5. CASE StartRecord(p, w)
  <2>1. "record" \in Kinds /\ "check" \in Steps
    BY DEF Kinds, Steps
  <2>2. CASE Start(p, "check", NewRow("record", w), Null)
    BY <1>1, <1>2, <1>5, <2>1, <2>2, NewRowIsRow, StartKeeps DEF StartRecord
  <2>3. ASSUME NEW n \in Names, Start(p, "check", [NewRow("character", w) EXCEPT !.name = n], Null)
        PROVE  WorkspaceIInv'
    <3> DEFINE new == [NewRow("character", w) EXCEPT !.name = n]
    <3>1. new \in Row /\ new.kind = "character" /\ new.work = w /\ new.ref = 0
      BY <1>1, LengthsAre DEF NewRow, Row, Kinds
    <3>2. Start(p, "check", new, Null) /\ UNCHANGED excused
      BY <1>5, <2>3 DEF StartRecord
    <3> HIDE DEF new
    <3>3. QED
      BY <1>1, <1>2, <2>1, <3>1, <3>2, StartKeeps
  <2>4. QED
    BY <1>5, <2>2, <2>3 DEF StartRecord
<1>6. CASE StartNote(p, w)
  <2>1. PICK c \in Of(w, "character") : Start(p, "insert", [NewRow("note", w) EXCEPT !.ref = c], Null)
    BY <1>6 DEF StartNote
  <2> DEFINE new == [NewRow("note", w) EXCEPT !.ref = c]
  <2>2. c \in DOMAIN rows /\ rows[c].kind = "character" /\ rows[c].work = w /\ c \in 0 .. Len(rows) /\ c \in Nat
    BY <1>1 DEF Of
  <2>3. new \in Row /\ new.kind = "note" /\ new.work = w /\ new.ref = c /\ new.size = 1
    BY <1>1, <2>2, LengthsAre DEF NewRow, Row, Kinds
  <2>4. Start(p, "insert", new, Null) /\ UNCHANGED excused /\ "insert" \in Steps
    BY <1>6, <2>1 DEF StartNote, Steps
  <2> HIDE DEF new
  <2>5. QED
    BY <1>1, <1>2, <2>2, <2>3, <2>4, StartKeeps
<1>7. QED
  BY <1>3, <1>4, <1>5, <1>6

\* The pages check nothing, and their kinds are excused.
LEMMA PageStartsKeep ==
    ASSUME WorkspaceIInv, NEW p \in Handlers, NEW w \in DOMAIN rows,
           ScenePage(p, w) \/ CharacterPage(p, w) \/ RecordPage(p, w)
    PROVE  WorkspaceIInv'
<1>1. w \in Nat /\ w \in 0 .. Len(rows) /\ 0 \in 0 .. Len(rows) /\ excused \subseteq Limited
      /\ \A i \in DOMAIN rows : i \in 0 .. Len(rows)
  BY TablesAre
<1>2. Null \in Names \cup {Null} /\ {"order", "insert"} \subseteq Steps
      /\ {"scene", "character", "record"} \subseteq Limited \cap Kinds
  BY DEF Steps, Limited, Kinds
<1>3. CASE ScenePage(p, w)
  <2>1. PICK c \in {0} \cup Of(w, "chapter"), s \in Lengths :
          Start(p, "order", [NewRow("scene", w) EXCEPT !.ref = c, !.size = s], Null)
    BY <1>3 DEF ScenePage
  <2> DEFINE new == [NewRow("scene", w) EXCEPT !.ref = c, !.size = s]
  <2>2. c \in 0 .. Len(rows) /\ c \in Nat
    BY <1>1 DEF Of
  <2>3. new \in Row /\ new.kind = "scene" /\ new.work = w /\ new.ref = c
    BY <1>1, <2>2, LengthsAre DEF NewRow, Row, Kinds
  <2>4. Start(p, "order", new, Null) /\ excused' = excused \cup {"scene"}
    BY <1>3, <2>1 DEF ScenePage
  <2> HIDE DEF new
  <2>5. QED
    BY <1>1, <1>2, <2>2, <2>3, <2>4, StartKeeps
<1>4. CASE CharacterPage(p, w)
  <2>1. PICK n \in Names : Start(p, "insert", [NewRow("character", w) EXCEPT !.name = n], Null)
    BY <1>4 DEF CharacterPage
  <2> DEFINE new == [NewRow("character", w) EXCEPT !.name = n]
  <2>2. new \in Row /\ new.kind = "character" /\ new.work = w /\ new.ref = 0
    BY <1>1, LengthsAre DEF NewRow, Row, Kinds
  <2>3. Start(p, "insert", new, Null) /\ excused' = excused \cup {"character"}
    BY <1>4, <2>1 DEF CharacterPage
  <2> HIDE DEF new
  <2>4. QED
    BY <1>1, <1>2, <2>2, <2>3, StartKeeps
<1>5. CASE RecordPage(p, w)
  BY <1>1, <1>2, <1>5, NewRowIsRow, StartKeeps DEF RecordPage
<1>6. QED
  BY <1>3, <1>4, <1>5

\* The saves that name a chapter or a character are checked later.
LEMMA SavesKeep ==
    ASSUME WorkspaceIInv, NEW p \in Handlers, NEW w \in DOMAIN rows, NEW n \in Names,
           SaveScene(p, w, n) \/ SaveCharacter(p, w, n) \/ SaveNote(p, w, n)
    PROVE  WorkspaceIInv'
<1>1. w \in Nat /\ w \in 0 .. Len(rows) /\ 0 \in 0 .. Len(rows) /\ excused \subseteq Limited
      /\ \A i \in DOMAIN rows : i \in 0 .. Len(rows)
  BY TablesAre
<1>2. {"check", "name", "character"} \subseteq Steps /\ {"scene", "note", "character"} \subseteq Kinds
  BY DEF Steps, Kinds
<1>3. CASE SaveScene(p, w, n)
  <2>1. PICK s \in Lengths : Start(p, "check", [NewRow("scene", w) EXCEPT !.size = s], n)
    BY <1>3 DEF SaveScene
  <2> DEFINE new == [NewRow("scene", w) EXCEPT !.size = s]
  <2>2. new \in Row /\ new.kind = "scene" /\ new.work = w /\ new.ref = 0
    BY <1>1, LengthsAre DEF NewRow, Row, Kinds
  <2>3. Start(p, "check", new, n) /\ UNCHANGED excused
    BY <1>3, <2>1 DEF SaveScene
  <2> HIDE DEF new
  <2>4. QED
    BY <1>1, <1>2, <2>2, <2>3, StartKeeps
<1>4. CASE SaveCharacter(p, w, n)
  <2> DEFINE new == [NewRow("character", w) EXCEPT !.name = n]
  <2>1. new \in Row /\ new.kind = "character" /\ new.work = w /\ new.ref = 0
    BY <1>1, LengthsAre DEF NewRow, Row, Kinds
  <2>2. Start(p, "name", new, n) /\ UNCHANGED excused
    BY <1>4 DEF SaveCharacter
  <2> HIDE DEF new
  <2>3. QED
    BY <1>1, <1>2, <2>1, <2>2, StartKeeps
<1>5. CASE SaveNote(p, w, n)
  <2>1. CASE Start(p, "name", NewRow("note", w), n)
    BY <1>1, <1>2, <1>5, <2>1, NewRowIsRow, StartKeeps DEF SaveNote
  <2>2. ASSUME NEW c \in DOMAIN rows, Start(p, "character", [NewRow("note", w) EXCEPT !.ref = c], n)
        PROVE  WorkspaceIInv'
    <3> DEFINE new == [NewRow("note", w) EXCEPT !.ref = c]
    <3>1. c \in 0 .. Len(rows) /\ c \in Nat
      BY <1>1
    <3>2. new \in Row /\ new.kind = "note" /\ new.work = w /\ new.ref = c /\ new.size = 1
      BY <1>1, <3>1, LengthsAre DEF NewRow, Row, Kinds
    <3>3. Start(p, "character", new, n) /\ UNCHANGED excused
      BY <1>5, <2>2 DEF SaveNote
    <3> HIDE DEF new
    <3>4. QED
      BY <1>1, <1>2, <3>1, <3>2, <3>3, StartKeeps
  <2>3. QED
    BY <1>5, <2>1, <2>2 DEF SaveNote
<1>6. QED
  BY <1>3, <1>4, <1>5

-----------------------------------------------------------------------------
(* Steps of a request that make no row *)

LEMMA HeldIs ==
    ASSUME WorkspaceIInv, NEW p \in Handlers, pc[p] # "idle"
    PROVE  /\ Underway(p) /\ req[p] \in Local /\ req[p].new \in Row
           /\ req[p].new.work \in 0 .. Len(rows) /\ req[p].new.ref \in 0 .. Len(rows)
           /\ req[p] = [new |-> req[p].new, named |-> req[p].named]
<1>1. Underway(p) /\ req[p] \in Local
  BY DEF WorkspaceIInv, Well, TypeOK
<1>2. QED
  BY <1>1 DEF Underway, Local

\* The check lets one request in where nobody else is: or the kind is excused.
LEMMA CheckKeeps ==
    ASSUME WorkspaceIInv, NEW p \in Handlers, Check(p)
    PROVE  WorkspaceIInv'
<1>1. pc[p] = "check" /\ UNCHANGED <<rows, plan, begun>> /\ req[p].new.kind # "chapter"
  BY HeldIs DEF Check, At, Underway
<1>2. CASE Done(p) /\ UNCHANGED excused
  BY <1>1, <1>2, TablesAre, DoneKeeps
<1>3. CASE /\ (req[p].new.work = 0 \/ LiveWork(req[p].new.work)) /\ HasRoom(req[p].new.work, Charged(p), req[p].new.size)
           /\ Goto(p, AfterCheck(p)) /\ UNCHANGED req
           /\ excused' = IF Admitted(Charged(p)) = {} THEN excused ELSE excused \cup {Charged(p)}
  <2> DEFINE held == req[p]
  <2>1. held \in Local /\ req' = [req EXCEPT ![p] = held]
    BY <1>1, <1>3, HeldIs, TablesAre
  <2>2. AfterCheck(p) \in {"characterInsert", "chapter", "order", "insert"}
        /\ (AfterCheck(p) = "characterInsert" <=> req[p].new.kind = "note")
        /\ (AfterCheck(p) \in {"chapter", "order"} => req[p].new.kind = "scene")
        /\ (AfterCheck(p) = "chapter" => req[p].named # Null)
    BY DEF AfterCheck
  <2>3. pc' = [pc EXCEPT ![p] = AfterCheck(p)] /\ pc'[p] = AfterCheck(p) /\ AfterCheck(p) \in Steps
    BY <1>3, <2>2, TablesAre DEF Goto, Steps
  <2>4. Charged(p) \in Limited
    BY <1>1, HeldIs DEF Charged, Limited, Row, Kinds
  <2>5. Underway(p)'
    <3>1. Underway(p) /\ req[p].named \in Names \cup {Null}
      BY <1>1, HeldIs DEF Local
    <3>2. pc'[p] = "chapter" => req[p].named \in Names
      BY <2>2, <2>3, <3>1
    <3>3. pc'[p] = "characterInsert" => req[p].new.kind = "note" /\ req[p].named \in Names
      BY <1>1, <2>2, <2>3, <3>1 DEF Underway
    <3>4. QED
      BY <1>1, <1>3, <2>2, <2>3, <3>1, <3>2, <3>3 DEF Underway
  <2>6. TypeOK' /\ NotesHome' /\ RowsGrow /\ rows' \in Seq(Row) /\ plan' \in PlanNames
    BY <1>1, <2>1, <2>3, <2>4, <1>3, TablesAre DEF TypeOK, NotesHome, RowsGrow, WorkspaceIInv, Well
  <2>7. \A q \in Handlers : Underway(q)'
    <3>1. ASSUME NEW q \in Handlers, q # p PROVE Underway(q)'
      <4>1. Underway(q) /\ pc'[q] = pc[q] /\ req'[q] = req[q]
        BY <1>3, <2>3, <3>1, TablesAre DEF WorkspaceIInv, Well
      <4>2. QED
        BY <2>6, <4>1, TablesAre, RequestGoesOn
    <3>2. QED
      BY <2>5, <3>1
  <2>8. ASSUME NEW kind \in Limited \ excused' PROVE Roomy(kind)'
    <3>1. Roomy(kind) /\ Well /\ rows' = rows /\ plan' = plan
      BY <1>1, <1>3, <2>8 DEF WorkspaceIInv
    <3>2. Admitted(kind)' \subseteq Admitted(kind) \cup {p}
      BY <1>3, <2>3, TablesAre DEF Admitted, Charged, At
    <3>3. \A w : Used(w, kind)' = Used(w, kind)
      BY <3>1 DEF Used
    <3>4. CASE kind = Charged(p)
      <4>1. Admitted(kind) = {} /\ HasRoom(req[p].new.work, kind, req[p].new.size)
        BY <1>3, <2>8, <3>4
      <4>2. QED
        BY <1>3, <3>1, <3>2, <3>3, <4>1 DEF Roomy, HasRoom
    <3>5. CASE kind # Charged(p)
      <4>1. p \notin Admitted(kind)'
        BY <1>3, <3>5 DEF Admitted, Charged
      <4>2. QED
        BY <1>3, <3>1, <3>2, <3>3, <4>1 DEF Roomy, HasRoom
    <3>6. QED
      BY <3>4, <3>5
  <2>9. QED
    BY <2>6, <2>7, <2>8 DEF WorkspaceIInv, Well
<1>4. QED
  BY <1>2, <1>3 DEF Check

LEMMA CountIsNat ==
    ASSUME WorkspaceIInv, NEW p, NEW kind
    PROVE  Count(p, kind) \in Nat
<1>1. IsFiniteSet(1 .. Len(rows)) /\ Of(req[p].new.work, kind) \subseteq 1 .. Len(rows)
  BY TablesAre, FS_Interval DEF Of
<1>2. QED
  BY <1>1, FS_Subset, FS_CardinalityType DEF Count

LEMMA ExceptNew ==
    ASSUME NEW new, NEW local, local = [new |-> local.new, named |-> local.named]
    PROVE  [local EXCEPT !.new = new] = [new |-> new, named |-> local.named]
  OBVIOUS

\* A request goes on with another reference or another order, and is let in nowhere.
LEMMA GoOnKeeps ==
    ASSUME WorkspaceIInv, NEW p \in Handlers, pc[p] # "idle", UNCHANGED <<rows, plan, begun, excused>>,
           NEW step \in Steps, pc' = [pc EXCEPT ![p] = step],
           NEW new \in Row, new.kind = req[p].new.kind, new.work = req[p].new.work,
           new.ref \in 0 .. Len(rows), new.sample = req[p].new.sample, new.size = req[p].new.size,
           req' = [req EXCEPT ![p].new = new],
           step \in {"chapterOrder", "chapterInsert"} => pc[p] \in {"chapter", "chapterOrder"},
           step \in {"chapterOrder", "chapterInsert", "check", "order", "insert", "name"},
           step = "name" => pc[p] = "character",
           step = "check" => pc[p] = "name" /\ new.kind # "chapter",
           step = "order" => pc[p] = "chapter",
           step = "insert" =>
               IF new.kind = "note" THEN /\ new.ref \in DOMAIN rows
                                         /\ rows[new.ref].kind = "character"
                                         /\ rows[new.ref].work = new.work
               ELSE pc[p] = "order"
    PROVE  WorkspaceIInv'
<1> DEFINE held == [new |-> new, named |-> req[p].named]
<1>1. held \in Local /\ held.new = new /\ held.named = req[p].named
  BY HeldIs DEF Local
<1>2. req' = [req EXCEPT ![p] = held]
  <2>1. req[p] = [new |-> req[p].new, named |-> req[p].named]
    BY HeldIs
  <2>2. [req[p] EXCEPT !.new = new] = held
    BY <2>1, ExceptNew
  <2>3. req' = [req EXCEPT ![p] = [req[p] EXCEPT !.new = new]]
    BY TablesAre
  <2>4. QED
    BY <2>2, <2>3
<1>3. pc'[p] = step /\ req'[p] = held
  BY <1>2, TablesAre
<1> HIDE DEF held
<1>4. Underway(p)'
  <2>1. Underway(p)
    BY HeldIs
  <2>2. QED
    BY <1>1, <1>3, <2>1 DEF Underway
<1>5. ASSUME NEW kind \in Limited, p \in Admitted(kind)'
      PROVE  p \in Admitted(kind) /\ held.new.work = req[p].new.work /\ held.new.size = req[p].new.size
  <2>1. Underway(p)
    BY HeldIs
  <2>2. QED
    BY <1>1, <1>3, <1>5, <2>1 DEF Admitted, Charged, At, Underway, Steps
<1>6. QED
  BY <1>1, <1>2, <1>4, <1>5, TablesAre, QuietKeeps

LEMMA FindsKeep ==
    ASSUME WorkspaceIInv, NEW p \in Handlers,
           FindChapter(p) \/ CountChapters(p) \/ FindCharacter(p) \/ FindName(p) \/ CountOrder(p) \/ Crash(p)
    PROVE  WorkspaceIInv'
<1>1. UNCHANGED <<rows, plan, begun, excused>>
  BY DEF FindChapter, CountChapters, FindCharacter, FindName, CountOrder, Crash
<1>2. {"chapterOrder", "chapterInsert", "check", "order", "insert", "name"} \subseteq Steps
  BY DEF Steps
<1>3. ASSUME pc[p] # "idle", NEW i \in DOMAIN rows
      PROVE  /\ [req[p].new EXCEPT !.ref = i] \in Row
             /\ [req EXCEPT ![p].new.ref = i] = [req EXCEPT ![p].new = [req[p].new EXCEPT !.ref = i]]
  <2>1. i \in Nat /\ req[p].new \in Row
    BY <1>3, HeldIs, TablesAre
  <2>2. [req[p].new EXCEPT !.ref = i] \in Row
    BY <2>1 DEF Row
  <2>3. [req EXCEPT ![p].new.ref = i] = [req EXCEPT ![p].new = [req[p].new EXCEPT !.ref = i]]
    BY TablesAre
  <2>4. QED
    BY <2>2, <2>3
<1>4. ASSUME pc[p] # "idle", NEW n \in Nat
      PROVE  /\ [req[p].new EXCEPT !.order = n] \in Row
             /\ [req EXCEPT ![p].new.order = n] = [req EXCEPT ![p].new = [req[p].new EXCEPT !.order = n]]
  BY <1>4, HeldIs, TablesAre DEF Row
<1>5. pc[p] # "idle" => req = [req EXCEPT ![p].new = req[p].new]
  BY HeldIs, TablesAre
<1>6. CASE FindChapter(p)
  <2>1. pc[p] = "chapter"
    BY <1>6 DEF FindChapter, At
  <2>2. CASE Goto(p, "chapterOrder") /\ UNCHANGED req
    BY <1>1, <1>2, <1>5, <2>1, <2>2, HeldIs, GoOnKeeps DEF Goto
  <2>3. ASSUME NEW i \in Of(req[p].new.work, "chapter"), req' = [req EXCEPT ![p].new.ref = i], Goto(p, "order")
        PROVE  WorkspaceIInv'
    <3> DEFINE new == [req[p].new EXCEPT !.ref = i]
    <3>1. i \in DOMAIN rows /\ i \in 0 .. Len(rows)
      BY TablesAre DEF Of
    <3>2. new \in Row /\ req' = [req EXCEPT ![p].new = new]
      BY <1>3, <2>1, <2>3, <3>1
    <3>3. new.kind = req[p].new.kind /\ new.work = req[p].new.work /\ new.ref = i /\ new.sample = req[p].new.sample /\ new.size = req[p].new.size
      BY <2>1, HeldIs DEF Row
    <3> HIDE DEF new
    <3>4. QED
      BY <1>1, <1>2, <2>1, <2>3, <3>1, <3>2, <3>3, GoOnKeeps DEF Goto
  <2>4. QED
    BY <1>6, <2>2, <2>3 DEF FindChapter
<1>7. CASE CountChapters(p)
  <2> DEFINE new == [req[p].new EXCEPT !.order = Count(p, "chapter")]
  <2>1. pc[p] = "chapterOrder" /\ Goto(p, "chapterInsert")
    BY <1>7 DEF CountChapters, At
  <2>2. new \in Row /\ req' = [req EXCEPT ![p].new = new]
    BY <1>4, <1>7, <2>1, CountIsNat DEF CountChapters
  <2>3. new.kind = req[p].new.kind /\ new.work = req[p].new.work /\ new.ref = req[p].new.ref /\ new.sample = req[p].new.sample /\ new.size = req[p].new.size
    BY <2>1, HeldIs DEF Row
  <2> HIDE DEF new
  <2>4. new.ref \in 0 .. Len(rows) /\ pc' = [pc EXCEPT ![p] = "chapterInsert"] /\ pc[p] # "idle"
    BY <2>1, <2>3, HeldIs DEF Goto
  <2>5. QED
    BY <1>1, <1>2, <2>1, <2>2, <2>3, <2>4, GoOnKeeps
<1>8. CASE FindCharacter(p)
  <2>1. pc[p] = "character" /\ req[p].new.kind = "note" /\ UNCHANGED req
    BY <1>8, HeldIs DEF FindCharacter, At, Underway
  <2>2. CASE req[p].new.ref \in Of(req[p].new.work, "character") /\ Goto(p, "insert")
    BY <1>1, <1>2, <1>5, <2>1, <2>2, HeldIs, GoOnKeeps DEF Goto, Of
  <2>3. CASE Goto(p, "name")
    BY <1>1, <1>2, <1>5, <2>1, <2>3, HeldIs, GoOnKeeps DEF Goto
  <2>4. QED
    BY <1>8, <2>2, <2>3 DEF FindCharacter
<1>9. CASE FindName(p)
  <2>1. pc[p] = "name" /\ pc[p] # "idle"
    BY <1>9 DEF FindName, At
  <2>2. CASE Goto(p, "check") /\ UNCHANGED req
    <3>1. req[p].new \in Row /\ req[p].new.ref \in 0 .. Len(rows) /\ req[p].new.kind # "chapter"
      BY <2>1, HeldIs DEF Underway
    <3>2. req' = [req EXCEPT ![p].new = req[p].new] /\ pc' = [pc EXCEPT ![p] = "check"]
      BY <1>5, <2>1, <2>2 DEF Goto
    <3>3. QED
      BY <1>1, <1>2, <2>1, <3>1, <3>2, GoOnKeeps
  <2>3. ASSUME req[p].new.kind = "note", Goto(p, "insert"),
               NEW i \in Of(req[p].new.work, "character"), req' = [req EXCEPT ![p].new.ref = i]
        PROVE  WorkspaceIInv'
    <3> DEFINE new == [req[p].new EXCEPT !.ref = i]
    <3>1. i \in DOMAIN rows /\ i \in 0 .. Len(rows) /\ rows[i].kind = "character" /\ rows[i].work = req[p].new.work
      BY TablesAre DEF Of
    <3>2. new \in Row /\ req' = [req EXCEPT ![p].new = new]
      BY <1>3, <2>1, <2>3, <3>1
    <3>3. new.kind = req[p].new.kind /\ new.work = req[p].new.work /\ new.ref = i /\ new.sample = req[p].new.sample /\ new.size = req[p].new.size
      BY <2>1, HeldIs DEF Row
    <3> HIDE DEF new
    <3>4. /\ pc' = [pc EXCEPT ![p] = "insert"] /\ new.kind = "note" /\ new.ref \in DOMAIN rows
          /\ new.ref \in 0 .. Len(rows)
          /\ rows[new.ref].kind = "character" /\ rows[new.ref].work = new.work
      BY <2>3, <3>1, <3>3 DEF Goto
    <3>5. QED
      BY <1>1, <1>2, <2>1, <3>2, <3>3, <3>4, GoOnKeeps
  <2>4. CASE Done(p)
    BY <1>1, <2>4, TablesAre, DoneKeeps
  <2>5. QED
    BY <1>9, <2>2, <2>3, <2>4 DEF FindName
<1>10. CASE CountOrder(p)
  <2> DEFINE new == [req[p].new EXCEPT !.order = Count(p, req[p].new.kind)]
  <2>1. pc[p] = "order" /\ Goto(p, "insert") /\ req[p].new.kind # "note"
    BY <1>10, HeldIs DEF CountOrder, At, Underway
  <2>2. new \in Row /\ req' = [req EXCEPT ![p].new = new]
    BY <1>4, <1>10, <2>1, CountIsNat DEF CountOrder
  <2>3. new.kind = req[p].new.kind /\ new.work = req[p].new.work /\ new.ref = req[p].new.ref /\ new.sample = req[p].new.sample /\ new.size = req[p].new.size
    BY <2>1, HeldIs DEF Row
  <2> HIDE DEF new
  <2>4. QED
    BY <1>1, <1>2, <2>1, <2>2, <2>3, HeldIs, GoOnKeeps DEF Goto
<1>11. CASE Crash(p)
  BY <1>1, <1>11, TablesAre, DoneKeeps DEF Crash
<1>12. QED
  BY <1>6, <1>7, <1>8, <1>9, <1>10, <1>11

-----------------------------------------------------------------------------
(* Rows are made *)

LEMMA AppendRow ==
    ASSUME NEW table \in Seq(Row), NEW row \in Row
    PROVE  /\ Append(table, row) \in Seq(Row)
           /\ Len(Append(table, row)) = Len(table) + 1
           /\ DOMAIN Append(table, row) = 1 .. (Len(table) + 1) /\ DOMAIN table = 1 .. Len(table)
           /\ Len(table) \in Nat
           /\ \A i \in DOMAIN table : Append(table, row)[i] = table[i]
           /\ Append(table, row)[Len(table) + 1] = row
  OBVIOUS

LEMMA AppendCounts ==
    ASSUME NEW table \in Seq(Row), NEW row \in Row, row.work \in 0 .. Len(table),
           \A i \in DOMAIN table : table[i].work < i, NEW w \in Nat, NEW kind
    PROVE  /\ row.kind = kind /\ row.work = w =>
                  CountedIn(Append(table, row), w, kind) \subseteq CountedIn(table, w, kind)
                      \cup UnitsOf(Len(table) + 1, row.size)
           /\ row.kind # kind \/ row.work # w =>
                  CountedIn(Append(table, row), w, kind) \subseteq CountedIn(table, w, kind)
           /\ w = Len(table) + 1 => CountedIn(Append(table, row), w, kind) = {}
<1> DEFINE later == Append(table, row)
<1>1. /\ DOMAIN later = 1 .. (Len(table) + 1) /\ DOMAIN table = 1 .. Len(table) /\ Len(table) \in Nat
      /\ \A i \in DOMAIN table : later[i] = table[i]
      /\ later[Len(table) + 1] = row
  BY AppendRow
<1> HIDE DEF later
<1>2. \A i \in DOMAIN later : i \in DOMAIN table \/ i = Len(table) + 1
  BY <1>1
<1>3. \A u \in CountedIn(later, w, kind) :
         \/ u \in CountedIn(table, w, kind)
         \/ u \in UnitsOf(Len(table) + 1, row.size) /\ row.kind = kind /\ row.work = w
  <2> SUFFICES ASSUME NEW u \in CountedIn(later, w, kind)
               PROVE  \/ u \in CountedIn(table, w, kind)
                      \/ u \in UnitsOf(Len(table) + 1, row.size) /\ row.kind = kind /\ row.work = w
    OBVIOUS
  <2>1. /\ u = <<u[1], u[2]>> /\ u[1] \in DOMAIN later /\ u[2] \in 1 .. MaxLength
        /\ Counts(later[u[1]], w, kind) /\ u[2] <= later[u[1]].size
    BY DEF CountedIn
  <2>2. CASE u[1] \in DOMAIN table
    BY <1>1, <2>1, <2>2 DEF CountedIn
  <2>3. CASE u[1] = Len(table) + 1
    <3>1. row.size \in Nat /\ u[2] \in 1 .. row.size
      BY <1>1, <2>1, <2>3, WorkspaceAssumption DEF Row
    <3>2. u \in UnitsOf(Len(table) + 1, row.size)
      BY <2>1, <2>3, <3>1 DEF UnitsOf
    <3>3. QED
      BY <1>1, <2>1, <2>3, <3>2 DEF Counts
  <2>4. QED
    BY <1>2, <2>1, <2>2, <2>3
<1>4. \A i \in DOMAIN table : table[i].work # Len(table) + 1
  <2>1. \A i \in DOMAIN table : table[i] \in Row
    OBVIOUS
  <2>2. QED
    BY <1>1, <2>1 DEF Row
<1>5. w = Len(table) + 1 => CountedIn(later, w, kind) = {}
  <2>1. w = Len(table) + 1 => \A u : u \notin CountedIn(table, w, kind)
    BY <1>4 DEF CountedIn, Counts
  <2>2. w = Len(table) + 1 => row.work # w
    BY <1>1
  <2>3. QED
    BY <1>3, <2>1, <2>2
<1>6. QED
  BY <1>3, <1>5 DEF later

\* A request makes a row: of a kind no limit counts, of one that is excused, or of one there is
\* room for and nobody else waits to fill.
LEMMA RowMadeKeeps ==
    ASSUME WorkspaceIInv, NEW p \in Handlers, pc[p] # "idle",
           NEW row \in Row, row.work \in 0 .. Len(rows), row.ref \in 0 .. Len(rows),
           rows' = Append(rows, row),
           row.kind = "note" => /\ row.ref \in DOMAIN rows
                                /\ rows[row.ref].kind = "character" /\ rows[row.ref].work = row.work,
           UNCHANGED <<plan, begun>>, excused \subseteq excused', excused' \subseteq Limited,
           NEW step \in Steps \cup {"idle"}, NEW held \in Local,
           pc' = [pc EXCEPT ![p] = step], req' = [req EXCEPT ![p] = held], Underway(p)',
           \A kind \in Limited \ excused' :
               p \in Admitted(kind)' => /\ p \in Admitted(kind) /\ row.kind # kind
                                        /\ held.new.work = req[p].new.work
                                        /\ held.new.size = req[p].new.size,
           row.kind \in Limited \ excused' =>
               HasRoom(row.work, row.kind, row.size) /\ Admitted(row.kind) \subseteq {p}
    PROVE  WorkspaceIInv'
<1>1. /\ rows \in Seq(Row) /\ rows' \in Seq(Row) /\ Len(rows) \in Nat /\ Len(rows') = Len(rows) + 1
      /\ DOMAIN rows = 1 .. Len(rows) /\ DOMAIN rows' = 1 .. (Len(rows) + 1)
      /\ \A i \in DOMAIN rows : rows'[i] = rows[i]
      /\ rows'[Len(rows) + 1] = row
  BY TablesAre, AppendRow
<1>2. \A i \in DOMAIN rows' : i \in DOMAIN rows \/ i = Len(rows) + 1
  BY <1>1
<1>3. \A i \in DOMAIN rows : rows[i].work < i /\ rows[i].ref \in 0 .. Len(rows)
  BY DEF WorkspaceIInv, Well, TypeOK
<1>4. RowsGrow
  BY <1>1 DEF RowsGrow
<1>5. TypeOK'
  <2>1. \A i \in DOMAIN rows' : rows'[i].work < i /\ rows'[i].ref \in 0 .. Len(rows')
    <3>1. ASSUME NEW i \in DOMAIN rows PROVE rows'[i].work < i /\ rows'[i].ref \in 0 .. Len(rows')
      BY <1>1, <1>3
    <3>2. row.work < Len(rows) + 1 /\ row.ref \in 0 .. Len(rows')
      BY <1>1
    <3>3. QED
      BY <1>1, <1>2, <3>1, <3>2
  <2>2. pc' \in [Handlers -> Steps \cup {"idle"}] /\ req' \in [Handlers -> Local]
    BY TablesAre
  <2>3. QED
    BY <1>1, <2>1, <2>2, TablesAre DEF TypeOK
<1>6. NotesHome'
  <2>1. ASSUME NEW n \in DOMAIN rows', rows'[n].kind = "note"
        PROVE  /\ rows'[n].ref \in DOMAIN rows
               /\ rows[rows'[n].ref].kind = "character" /\ rows[rows'[n].ref].work = rows'[n].work
    <3>1. CASE n \in DOMAIN rows
      BY <1>1, <2>1, <3>1 DEF WorkspaceIInv, Well, NotesHome
    <3>2. CASE n = Len(rows) + 1
      BY <1>1, <2>1, <3>2
    <3>3. QED
      BY <1>2, <3>1, <3>2
  <2>2. \A i \in DOMAIN rows : i \in DOMAIN rows'
    BY <1>1
  <2>3. QED
    BY <1>1, <2>1, <2>2 DEF NotesHome
<1>7. /\ pc'[p] = step /\ req'[p] = held
      /\ \A q \in Handlers \ {p} : pc'[q] = pc[q] /\ req'[q] = req[q]
  BY TablesAre
<1>8. \A q \in Handlers : Underway(q)'
  <2>1. ASSUME NEW q \in Handlers, q # p PROVE Underway(q)'
    <3>1. Underway(q) /\ pc'[q] = pc[q] /\ req'[q] = req[q]
      BY <1>7, <2>1 DEF WorkspaceIInv, Well
    <3>2. QED
      BY <1>1, <1>4, <3>1, RequestGoesOn
  <2>2. QED
    BY <2>1
<1>9. ASSUME NEW kind \in Limited \ excused' PROVE Roomy(kind)'
  <2>1. Roomy(kind) /\ Well /\ plan' = plan /\ plan \in PlanNames /\ kind \in Limited \ excused
    BY <1>9, TablesAre DEF WorkspaceIInv
  <2>2. \A w \in 0 .. Len(rows') : w \notin 0 .. Len(rows) => Cardinality(CountedIn(rows', w, kind)) <= 1
    <3>1. ASSUME NEW w \in 0 .. Len(rows'), w \notin 0 .. Len(rows)
          PROVE  Cardinality(CountedIn(rows', w, kind)) <= 1
      <4>1. w \in Nat /\ w = Len(rows) + 1
        BY <1>1, <3>1
      <4>2. CountedIn(rows', w, kind) = {}
        BY <1>1, <1>3, <4>1, AppendCounts
      <4>3. QED
        BY <4>2, FS_EmptySet
    <3>2. QED
      BY <3>1
  <2>3. \A w \in 0 .. Len(rows) : w \in Nat
    BY <1>1
  <2>4. \A q \in Admitted(kind)' : q # p => /\ q \in Admitted(kind) /\ req'[q].new.work = req[q].new.work
                                             /\ req'[q].new.size = req[q].new.size
    BY <1>7 DEF Admitted, Charged, At
  <2>5. CASE row.kind # kind
    <3>1. \A w \in 0 .. Len(rows) : CountedIn(rows', w, kind) \subseteq CountedIn(rows, w, kind)
      BY <1>1, <1>3, <2>3, <2>5, AppendCounts
    <3>2. \A q \in Admitted(kind)' : /\ q \in Admitted(kind) /\ req'[q].new.work = req[q].new.work
                                      /\ req'[q].new.size = req[q].new.size
      BY <1>7, <1>9, <2>4
    <3>3. PlanLimits[plan][kind] <= PlanLimits[plan'][kind]
      BY <2>1, WorkspaceAssumption
    <3>4. QED
      BY <1>1, <1>4, <2>1, <2>2, <3>1, <3>2, <3>3, RoomKept
  <2>6. CASE row.kind = kind
    <3>1. HasRoom(row.work, kind, row.size) /\ Admitted(kind)' = {} /\ row.size \in Nat
      <4>1. HasRoom(row.work, kind, row.size) /\ Admitted(kind) \subseteq {p} /\ p \notin Admitted(kind)'
        BY <1>9, <2>6
      <4>2. row.size \in Nat
        BY WorkspaceAssumption DEF Row
      <4>3. QED
        BY <2>4, <4>1, <4>2
    <3>2. \A w \in 0 .. Len(rows) : w # row.work =>
              CountedIn(rows', w, kind) \subseteq CountedIn(rows, w, kind)
      BY <1>1, <1>3, <2>3, <2>6, AppendCounts
    <3>3. CountedIn(rows', row.work, kind) \subseteq
              CountedIn(rows, row.work, kind) \cup UnitsOf(Len(rows) + 1, row.size)
      <4>1. row.work \in Nat
        BY <2>3
      <4>2. CountedIn(Append(rows, row), row.work, row.kind) \subseteq
                CountedIn(rows, row.work, row.kind) \cup UnitsOf(Len(rows) + 1, row.size)
        BY <1>1, <1>3, <4>1, AppendCounts
      <4>3. QED
        BY <2>6, <4>2
    <3>4. QED
      BY <1>1, <1>4, <2>1, <2>2, <3>1, <3>2, <3>3, RoomTaken
  <2>7. QED
    BY <2>5, <2>6
<1>10. QED
  BY <1>5, <1>6, <1>8, <1>9 DEF WorkspaceIInv, Well

LEMMA InsertKeeps ==
    ASSUME WorkspaceIInv, NEW p \in Handlers, Insert(p)
    PROVE  WorkspaceIInv'
<1>1. pc[p] = "insert" /\ pc[p] # "idle" /\ UNCHANGED <<plan, begun, excused>> /\ excused \subseteq Limited
  BY TablesAre DEF Insert, At
<1> DEFINE row == req[p].new
<1>2. /\ Underway(p) /\ row \in Row /\ row.work \in 0 .. Len(rows) /\ row.ref \in 0 .. Len(rows)
      /\ row.kind = "note" => /\ row.ref \in DOMAIN rows
                              /\ rows[row.ref].kind = "character" /\ rows[row.ref].work = row.work
  BY <1>1, HeldIs DEF Underway
<1>3. row.kind \in Limited \ excused =>
          HasRoom(row.work, row.kind, row.size) /\ Admitted(row.kind) \subseteq {p}
  <2>1. row.kind \in Limited => p \in Admitted(row.kind)
    BY <1>1 DEF Admitted, Charged, Steps, Limited
  <2>2. QED
    BY <2>1 DEF WorkspaceIInv, Roomy
<1>4. CASE Done(p)
  <2>1. CASE Taken(row)
    BY <1>1, <1>4, <2>1, TablesAre, DoneKeeps DEF Insert
  <2>2. CASE ~Taken(row)
    <3>1. rows' = Append(rows, row)
      BY <2>2 DEF Insert
    <3>2. pc' = [pc EXCEPT ![p] = "idle"] /\ req' = [req EXCEPT ![p] = Blank] /\ pc'[p] = "idle"
      BY <1>4, TablesAre DEF Done, Goto
    <3>3. Blank \in Local
      BY DEF Blank, Local
    <3>4. Underway(p)' /\ \A kind : p \notin Admitted(kind)'
      BY <3>2 DEF Underway, Admitted, Steps
    <3> HIDE DEF row
    <3>5. QED
      BY <1>1, <1>2, <1>3, <3>1, <3>2, <3>3, <3>4, RowMadeKeeps
  <2>3. QED
    BY <2>1, <2>2
<1>5. CASE /\ row.kind = "project" /\ Goto(p, "state")
           /\ req' = [req EXCEPT ![p].new = NewRow("record", Len(rows) + 1)]
  <2> DEFINE state == NewRow("record", Len(rows) + 1)
             held == [new |-> state, named |-> req[p].named]
  <2>1. rows' = Append(rows, row)
    BY <1>5 DEF Insert, Taken
  <2>2. /\ state \in Row /\ state.kind = "record" /\ state.work = Len(rows) + 1 /\ state.ref = 0
        /\ state.size = 1 /\ Len(rows) \in Nat
    BY TablesAre, NewRowIsRow DEF Kinds
  <2>3. held \in Local /\ held.new = state /\ held.named = req[p].named
    BY <1>1, <2>2, HeldIs DEF Local
  <2> HIDE DEF state
  <2>4. req' = [req EXCEPT ![p] = held]
    <3>1. req[p] = [new |-> req[p].new, named |-> req[p].named]
      BY <1>1, HeldIs
    <3>2. [req[p] EXCEPT !.new = state] = held
      BY <3>1, ExceptNew
    <3>3. req' = [req EXCEPT ![p] = [req[p] EXCEPT !.new = state]]
      BY <1>5, TablesAre DEF state
    <3>4. QED
      BY <3>2, <3>3
  <2>5. pc' = [pc EXCEPT ![p] = "state"] /\ pc'[p] = "state" /\ req'[p] = held /\ "state" \in Steps \cup {"idle"}
    BY <1>5, <2>4, TablesAre DEF Goto, Steps
  <2> HIDE DEF held, row
  <2>6. Len(rows') = Len(rows) + 1
    BY <1>2, <2>1, TablesAre, AppendRow
  <2>7. Underway(p)'
    BY <2>2, <2>3, <2>5, <2>6 DEF Underway
  <2>8. \A kind : p \notin Admitted(kind)'
    BY <2>5 DEF Admitted, Steps
  <2>9. QED
    BY <1>1, <1>2, <1>3, <2>1, <2>3, <2>4, <2>5, <2>7, <2>8, RowMadeKeeps
<1>6. QED
  BY <1>4, <1>5 DEF Insert

\* The first story state fills what room there is, or its kind is excused.
LEMMA StateKeeps ==
    ASSUME WorkspaceIInv, NEW p \in Handlers, InsertState(p)
    PROVE  WorkspaceIInv'
<1> DEFINE row == req[p].new
<1>1. pc[p] = "state" /\ pc[p] # "idle" /\ UNCHANGED <<plan, begun>> /\ Done(p) /\ rows' = Append(rows, row)
  BY DEF InsertState, At
<1>2. /\ Underway(p) /\ row \in Row /\ row.work \in 0 .. Len(rows) /\ row.ref \in 0 .. Len(rows)
      /\ row.kind = "record" /\ row.size = 1
  BY <1>1, HeldIs DEF Underway
<1>3. /\ excused \subseteq excused' /\ excused' \subseteq Limited
      /\ "record" \notin excused' => HasRoom(row.work, "record", 1) /\ Admitted("record") = {}
  BY TablesAre DEF InsertState, Limited
<1>4. pc' = [pc EXCEPT ![p] = "idle"] /\ req' = [req EXCEPT ![p] = Blank] /\ pc'[p] = "idle"
  BY <1>1, TablesAre DEF Done, Goto
<1>5. Blank \in Local
  BY DEF Blank, Local
<1>6. Underway(p)' /\ \A kind : p \notin Admitted(kind)'
  BY <1>4 DEF Underway, Admitted, Steps
<1> HIDE DEF row
<1>7. row.kind \in Limited \ excused' =>
          HasRoom(row.work, row.kind, row.size) /\ Admitted(row.kind) \subseteq {p}
  BY <1>2, <1>3
<1>8. QED
  BY <1>1, <1>2, <1>3, <1>4, <1>5, <1>6, <1>7, RowMadeKeeps

LEMMA NeededKeeps ==
    ASSUME WorkspaceIInv, NEW p \in Handlers, InsertNeeded(p)
    PROVE  WorkspaceIInv'
<1>1. pc[p] \in {"chapterInsert", "characterInsert"} /\ pc[p] # "idle" /\ UNCHANGED <<plan, begun, excused>>
  BY DEF InsertNeeded
<1>2. CASE Taken(Needed(p))
  BY <1>1, <1>2, TablesAre, DoneKeeps DEF InsertNeeded
<1>3. CASE ~Taken(Needed(p))
  <2> DEFINE row == Needed(p)
             to == IF At(p, "chapterInsert") THEN "order" ELSE "insert"
             new == [req[p].new EXCEPT !.ref = Len(rows) + 1]
             held == [new |-> new, named |-> req[p].named]
  <2>1. /\ rows' = Append(rows, row) /\ req' = [req EXCEPT ![p].new.ref = Len(rows) + 1]
        /\ pc' = [pc EXCEPT ![p] = to]
    BY <1>3 DEF InsertNeeded, Goto
  <2>2. /\ Underway(p) /\ req[p].new \in Row /\ req[p].new.work \in 0 .. Len(rows)
        /\ req[p] = [new |-> req[p].new, named |-> req[p].named] /\ req[p] \in Local
        /\ req[p].named \in Names /\ Len(rows) \in Nat
    BY <1>1, HeldIs, TablesAre DEF Underway
  <2>3. /\ row \in Row /\ row.work = req[p].new.work /\ row.ref = 0 /\ row.size = 1
        /\ row.kind = IF At(p, "chapterInsert") THEN "chapter" ELSE "character"
    <3>1. req[p].new.work \in Nat /\ req[p].new.order \in Nat
      BY <2>2 DEF Row
    <3>2. CASE At(p, "chapterInsert")
      BY <2>2, <3>1, <3>2, LengthsAre DEF Needed, NewRow, Row, Kinds
    <3>3. CASE ~At(p, "chapterInsert")
      BY <2>2, <3>1, <3>3, LengthsAre DEF Needed, NewRow, Row, Kinds
    <3>4. QED
      BY <3>2, <3>3
  <2>4. /\ new \in Row /\ new.kind = req[p].new.kind /\ new.work = req[p].new.work
        /\ new.ref = Len(rows) + 1 /\ new.sample = req[p].new.sample /\ new.size = req[p].new.size
    BY <2>2 DEF Row
  <2>5. held \in Local
    BY <2>2, <2>4 DEF Local
  <2>6. req' = [req EXCEPT ![p] = held]
    <3>1. [req[p] EXCEPT !.new = new] = held
      BY <2>2, ExceptNew
    <3>2. req' = [req EXCEPT ![p] = [req[p] EXCEPT !.new = new]]
      BY <2>1, TablesAre
    <3>3. QED
      BY <3>1, <3>2
  <2>7. pc'[p] = to /\ req'[p] = held /\ held.new = new /\ to \in Steps
    BY <2>1, <2>6, TablesAre DEF Steps
  <2>8. /\ Len(rows') = Len(rows) + 1 /\ DOMAIN rows' = 1 .. (Len(rows) + 1)
        /\ rows'[Len(rows) + 1] = row
    BY <2>1, <2>3, TablesAre, AppendRow
  <2> HIDE DEF row, new, held
  <2>9. Underway(p)'
    <3>1. req'[p].new = new /\ new.work \in 0 .. Len(rows') /\ new.ref \in 0 .. Len(rows')
      BY <2>2, <2>4, <2>7, <2>8
    <3>2. CASE pc[p] = "chapterInsert"
      BY <2>2, <2>4, <2>7, <3>1, <3>2 DEF Underway, At
    <3>3. CASE pc[p] = "characterInsert"
      <4>1. new.kind = "note" /\ new.size = 1 /\ to = "insert" /\ row.kind = "character"
        BY <2>2, <2>3, <2>4, <3>3 DEF Underway, At
      <4>2. new.ref \in DOMAIN rows' /\ rows'[new.ref].kind = "character" /\ rows'[new.ref].work = new.work
        BY <2>2, <2>3, <2>4, <2>8, <4>1
      <4>3. QED
        BY <2>4, <2>7, <3>1, <4>1, <4>2 DEF Underway
    <3>4. QED
      BY <1>1, <3>2, <3>3
  <2>10. ASSUME NEW kind \in Limited \ excused, p \in Admitted(kind)'
         PROVE  /\ p \in Admitted(kind) /\ row.kind # kind /\ new.work = req[p].new.work
                /\ new.size = req[p].new.size
    <3>1. CASE pc[p] = "chapterInsert"
      BY <2>2, <2>3, <2>4, <2>7, <2>10, <3>1 DEF Admitted, Charged, At, Underway, Steps, Limited
    <3>2. CASE pc[p] = "characterInsert"
      BY <2>2, <2>4, <2>7, <2>10, <3>2 DEF Admitted, Charged, At, Underway
    <3>3. QED
      BY <1>1, <3>1, <3>2
  <2>11. row.kind \in Limited \ excused =>
             HasRoom(row.work, row.kind, row.size) /\ Admitted(row.kind) \subseteq {p}
    <3>1. CASE pc[p] = "chapterInsert"
      BY <2>3, <3>1 DEF At, Limited
    <3>2. CASE pc[p] = "characterInsert"
      <4>1. row.kind = "character" /\ p \in Admitted("character") /\ req[p].new.size = 1
        BY <2>2, <2>3, <3>2 DEF Admitted, Charged, At, Underway, Steps
      <4>2. QED
        BY <2>3, <4>1 DEF WorkspaceIInv, Roomy
    <3>3. QED
      BY <1>1, <3>1, <3>2
  <2>12. /\ row.work \in 0 .. Len(rows) /\ row.ref \in 0 .. Len(rows) /\ row.kind # "note"
         /\ to \in Steps \cup {"idle"} /\ held.new = new /\ pc' = [pc EXCEPT ![p] = to]
    BY <2>1, <2>2, <2>3, <2>7
  <2> HIDE DEF to
  <2>13. rows' = Append(rows, row)
    BY <2>1 DEF row
  <2>14. QED
    BY <1>1, <2>3, <2>5, <2>6, <2>9, <2>10, <2>11, <2>12, <2>13, TablesAre, RowMadeKeeps
<1>4. QED
  BY <1>2, <1>3

\* The rows of the sample.
SampleRows(w, project) ==
    <<project,
      [NewRow("chapter", w) EXCEPT !.name = CHOOSE n \in Names : TRUE, !.order = 1],
      [NewRow("scene", w) EXCEPT !.order = 1, !.ref = w + 1],
      [NewRow("character", w) EXCEPT !.name = CHOOSE n \in Names : TRUE],
      [NewRow("note", w) EXCEPT !.ref = w + 3],
      NewRow("record", w)>>

LEMMA SampleRowsAre ==
    ASSUME NEW table \in Seq(Row), NEW project \in Row
    PROVE  /\ SampleRows(Len(table) + 1, project) \in Seq(Row) /\ Len(SampleRows(Len(table) + 1, project)) = 6
           /\ SampleRows(Len(table) + 1, project)[1] = project
           /\ SampleRows(Len(table) + 1, project)[2].kind = "chapter" /\ SampleRows(Len(table) + 1, project)[2].ref = 0
           /\ SampleRows(Len(table) + 1, project)[3].kind = "scene" /\ SampleRows(Len(table) + 1, project)[3].ref = Len(table) + 2
           /\ SampleRows(Len(table) + 1, project)[4].kind = "character" /\ SampleRows(Len(table) + 1, project)[4].ref = 0
           /\ SampleRows(Len(table) + 1, project)[5].kind = "note" /\ SampleRows(Len(table) + 1, project)[5].ref = Len(table) + 4
           /\ SampleRows(Len(table) + 1, project)[2].work = Len(table) + 1 /\ SampleRows(Len(table) + 1, project)[3].work = Len(table) + 1
           /\ SampleRows(Len(table) + 1, project)[4].work = Len(table) + 1 /\ SampleRows(Len(table) + 1, project)[5].work = Len(table) + 1
           /\ SampleRows(Len(table) + 1, project)[6] = NewRow("record", Len(table) + 1)
           /\ SampleRows(Len(table) + 1, project)[3].size = 1 /\ SampleRows(Len(table) + 1, project)[4].size = 1
<1> DEFINE w == Len(table) + 1
<1>0. w \in Nat \ {0} /\ w + 1 = Len(table) + 2 /\ w + 3 = Len(table) + 4
  OBVIOUS
<1> HIDE DEF w
<1>1. (CHOOSE n \in Names : TRUE) \in Names
  BY WorkspaceAssumption
<1>2. /\ [NewRow("chapter", w) EXCEPT !.name = CHOOSE n \in Names : TRUE, !.order = 1] \in Row
      /\ [NewRow("scene", w) EXCEPT !.order = 1, !.ref = w + 1] \in Row
      /\ [NewRow("character", w) EXCEPT !.name = CHOOSE n \in Names : TRUE] \in Row
      /\ [NewRow("note", w) EXCEPT !.ref = w + 3] \in Row
      /\ NewRow("record", w) \in Row
  <2>1. /\ NewRow("record", w) \in Row /\ NewRow("chapter", w) \in Row /\ NewRow("scene", w) \in Row
        /\ NewRow("character", w) \in Row /\ NewRow("note", w) \in Row
    BY <1>0, NewRowIsRow DEF Kinds
  <2>2. w + 1 \in Nat /\ w + 3 \in Nat /\ 1 \in Nat
    BY <1>0
  <2>3. [NewRow("chapter", w) EXCEPT !.name = CHOOSE n \in Names : TRUE, !.order = 1] \in Row
    BY <1>1, <2>1 DEF Row
  <2>4. [NewRow("scene", w) EXCEPT !.order = 1, !.ref = w + 1] \in Row
    BY <2>1, <2>2 DEF Row
  <2>5. [NewRow("character", w) EXCEPT !.name = CHOOSE n \in Names : TRUE] \in Row
    BY <1>1, <2>1 DEF Row
  <2>6. [NewRow("note", w) EXCEPT !.ref = w + 3] \in Row
    BY <2>1, <2>2 DEF Row
  <2>7. QED
    BY <2>1, <2>3, <2>4, <2>5, <2>6
<1>3. SampleRows(w, project) \in Seq(Row)
  BY <1>2 DEF SampleRows
<1>4. /\ Len(SampleRows(w, project)) = 6 /\ SampleRows(w, project)[1] = project
      /\ SampleRows(w, project)[2] = [NewRow("chapter", w) EXCEPT !.name = CHOOSE n \in Names : TRUE, !.order = 1]
      /\ SampleRows(w, project)[3] = [NewRow("scene", w) EXCEPT !.order = 1, !.ref = w + 1]
      /\ SampleRows(w, project)[4] = [NewRow("character", w) EXCEPT !.name = CHOOSE n \in Names : TRUE]
      /\ SampleRows(w, project)[5] = [NewRow("note", w) EXCEPT !.ref = w + 3]
      /\ SampleRows(w, project)[6] = NewRow("record", w)
  BY DEF SampleRows
<1>5. /\ SampleRows(w, project)[2].kind = "chapter" /\ SampleRows(w, project)[2].ref = 0
      /\ SampleRows(w, project)[2].work = w
  BY <1>4 DEF NewRow
<1>6. /\ SampleRows(w, project)[3].kind = "scene" /\ SampleRows(w, project)[3].ref = w + 1
      /\ SampleRows(w, project)[3].work = w /\ SampleRows(w, project)[3].size = 1
  BY <1>4 DEF NewRow
<1>7. /\ SampleRows(w, project)[4].kind = "character" /\ SampleRows(w, project)[4].ref = 0
      /\ SampleRows(w, project)[4].work = w /\ SampleRows(w, project)[4].size = 1
  BY <1>4 DEF NewRow
<1>8. /\ SampleRows(w, project)[5].kind = "note" /\ SampleRows(w, project)[5].ref = w + 3
      /\ SampleRows(w, project)[5].work = w
  BY <1>4 DEF NewRow
<1>9. QED
  BY <1>0, <1>3, <1>4, <1>5, <1>6, <1>7, <1>8 DEF w

LEMMA ConcatRows ==
    ASSUME NEW table \in Seq(Row), NEW more \in Seq(Row)
    PROVE  /\ table \o more \in Seq(Row) /\ Len(table \o more) = Len(table) + Len(more)
           /\ \A i \in 1 .. Len(table) : (table \o more)[i] = table[i]
           /\ \A k \in 1 .. Len(more) : (table \o more)[Len(table) + k] = more[k]
  OBVIOUS

\* The sample is a work of its own, which no limit counts, with one row of a kind at most.
LEMMA SampleKeeps ==
    ASSUME WorkspaceIInv, NEW p \in Handlers, InsertSample(p)
    PROVE  WorkspaceIInv'
<1> DEFINE L == Len(rows)
           six == SampleRows(L + 1, req[p].new)
<1>1. pc[p] = "sample" /\ Done(p) /\ UNCHANGED <<plan, begun, excused>> /\ rows' = rows \o six
  BY DEF InsertSample, At, SampleRows
<1>2. req[p].new \in Row /\ req[p].new.kind = "project" /\ req[p].new.work = 0 /\ req[p].new.sample
      /\ req[p].new.ref \in 0 .. L
  BY <1>1, HeldIs DEF Underway
<1>3. rows \in Seq(Row) /\ L \in Nat /\ DOMAIN rows = 1 .. L
  BY TablesAre
<1>4. /\ six \in Seq(Row) /\ Len(six) = 6 /\ six[1] = req[p].new
      /\ six[2].kind = "chapter" /\ six[2].ref = 0
      /\ six[3].kind = "scene" /\ six[3].ref = L + 2
      /\ six[4].kind = "character" /\ six[4].ref = 0
      /\ six[5].kind = "note" /\ six[5].ref = L + 4
      /\ six[2].work = L + 1 /\ six[3].work = L + 1
      /\ six[4].work = L + 1 /\ six[5].work = L + 1 /\ six[3].size = 1 /\ six[4].size = 1
      /\ six[6].kind = "record" /\ six[6].ref = 0 /\ six[6].work = L + 1 /\ six[6].size = 1
  <2>0. rows \in Seq(Row) /\ req[p].new \in Row
    BY <1>2, <1>3
  <2>1. /\ SampleRows(Len(rows) + 1, req[p].new) \in Seq(Row)
        /\ Len(SampleRows(Len(rows) + 1, req[p].new)) = 6
        /\ SampleRows(Len(rows) + 1, req[p].new)[1] = req[p].new
    BY <2>0, SampleRowsAre, ZenonT(60)
  <2>2. /\ SampleRows(Len(rows) + 1, req[p].new)[2].kind = "chapter"
        /\ SampleRows(Len(rows) + 1, req[p].new)[2].ref = 0
    BY <1>2, <2>0, SampleRowsAre, Zenon
  <2>3. /\ SampleRows(Len(rows) + 1, req[p].new)[3].kind = "scene"
        /\ SampleRows(Len(rows) + 1, req[p].new)[3].ref = Len(rows) + 2
    BY <1>2, <2>0, SampleRowsAre, Zenon
  <2>4. /\ SampleRows(Len(rows) + 1, req[p].new)[4].kind = "character"
        /\ SampleRows(Len(rows) + 1, req[p].new)[4].ref = 0
    BY <1>2, <2>0, SampleRowsAre, Zenon
  <2>5. /\ SampleRows(Len(rows) + 1, req[p].new)[5].kind = "note"
        /\ SampleRows(Len(rows) + 1, req[p].new)[5].ref = Len(rows) + 4
    BY <1>2, <2>0, SampleRowsAre, Zenon
  <2>6. /\ SampleRows(Len(rows) + 1, req[p].new)[2].work = Len(rows) + 1
        /\ SampleRows(Len(rows) + 1, req[p].new)[3].work = Len(rows) + 1
        /\ SampleRows(Len(rows) + 1, req[p].new)[4].work = Len(rows) + 1
        /\ SampleRows(Len(rows) + 1, req[p].new)[5].work = Len(rows) + 1
    BY <1>2, <2>0, SampleRowsAre, Zenon
  <2>7. /\ SampleRows(Len(rows) + 1, req[p].new)[6] = NewRow("record", Len(rows) + 1)
        /\ SampleRows(Len(rows) + 1, req[p].new)[3].size = 1
        /\ SampleRows(Len(rows) + 1, req[p].new)[4].size = 1
    BY <1>2, <2>0, SampleRowsAre, Zenon
  <2>8. QED
    BY <1>3, <2>1, <2>2, <2>3, <2>4, <2>5, <2>6, <2>7, NewRowIsRow DEF Kinds
<1> HIDE DEF six
<1>5. /\ rows' \in Seq(Row) /\ Len(rows') = L + 6 /\ DOMAIN rows' = 1 .. (L + 6)
      /\ \A i \in 1 .. L : rows'[i] = rows[i]
      /\ \A k \in 1 .. 6 : rows'[L + k] = six[k]
  <2>1. /\ rows \o six \in Seq(Row) /\ Len(rows \o six) = L + Len(six)
        /\ \A i \in 1 .. L : (rows \o six)[i] = rows[i]
        /\ \A k \in 1 .. Len(six) : (rows \o six)[L + k] = six[k]
    BY <1>3, <1>4, ConcatRows
  <2>2. QED
    BY <1>1, <1>3, <1>4, <2>1
<1>6. /\ rows'[L + 1] = req[p].new
      /\ rows'[L + 2].kind = "chapter" /\ rows'[L + 2].ref = 0 /\ rows'[L + 2].work = L + 1
      /\ rows'[L + 3].kind = "scene" /\ rows'[L + 3].ref = L + 2 /\ rows'[L + 3].work = L + 1
      /\ rows'[L + 4].kind = "character" /\ rows'[L + 4].ref = 0 /\ rows'[L + 4].work = L + 1
      /\ rows'[L + 5].kind = "note" /\ rows'[L + 5].ref = L + 4 /\ rows'[L + 5].work = L + 1
      /\ rows'[L + 6].kind = "record" /\ rows'[L + 6].ref = 0 /\ rows'[L + 6].work = L + 1
      /\ rows'[L + 3].size = 1 /\ rows'[L + 4].size = 1 /\ rows'[L + 6].size = 1
  BY <1>4, <1>5
<1>7. \A i \in DOMAIN rows' :
         i \in 1 .. L \/ i = L + 1 \/ i = L + 2 \/ i = L + 3 \/ i = L + 4 \/ i = L + 5 \/ i = L + 6
  BY <1>3, <1>5
<1>8. \A i \in 1 .. L : rows[i].work \in Nat /\ rows[i].work < i /\ rows[i].ref \in 0 .. L
  <2>1. \A i \in 1 .. L : rows[i] \in Row
    BY <1>3
  <2>2. \A i \in 1 .. L : rows[i].work < i /\ rows[i].ref \in 0 .. L
    BY <1>3 DEF WorkspaceIInv, Well, TypeOK
  <2>3. QED
    BY <2>1, <2>2 DEF Row
<1> HIDE DEF L
<1>9. \A i \in DOMAIN rows' : rows'[i].work < i /\ rows'[i].ref \in 0 .. Len(rows')
  <2>1. ASSUME NEW i \in 1 .. L PROVE rows'[i].work < i /\ rows'[i].ref \in 0 .. Len(rows')
    BY <1>3, <1>5, <1>8
  <2>2. /\ 0 < L + 1 /\ L + 1 < L + 2 /\ L + 1 < L + 3 /\ L + 1 < L + 4 /\ L + 1 < L + 5
        /\ L + 1 < L + 6 /\ 0 \in 0 .. L + 6 /\ L + 2 \in 0 .. L + 6 /\ L + 4 \in 0 .. L + 6
        /\ \A r \in 0 .. L : r \in 0 .. L + 6
    BY <1>3
  <2>3. rows'[L + 1].work < L + 1 /\ rows'[L + 1].ref \in 0 .. Len(rows')
    BY <1>2, <1>5, <1>6, <2>2
  <2>4. /\ rows'[L + 2].work < L + 2 /\ rows'[L + 2].ref \in 0 .. Len(rows')
        /\ rows'[L + 3].work < L + 3 /\ rows'[L + 3].ref \in 0 .. Len(rows')
    BY <1>5, <1>6, <2>2
  <2>5. /\ rows'[L + 4].work < L + 4 /\ rows'[L + 4].ref \in 0 .. Len(rows')
        /\ rows'[L + 5].work < L + 5 /\ rows'[L + 5].ref \in 0 .. Len(rows')
        /\ rows'[L + 6].work < L + 6 /\ rows'[L + 6].ref \in 0 .. Len(rows')
    BY <1>5, <1>6, <2>2
  <2>6. QED
    BY <1>7, <2>1, <2>3, <2>4, <2>5
<1>10. RowsGrow
  BY <1>3, <1>5 DEF RowsGrow, L
<1>11. NotesHome'
  <2>1. ASSUME NEW n \in 1 .. L, rows'[n].kind = "note"
        PROVE  /\ rows'[n].ref \in DOMAIN rows'
               /\ rows'[rows'[n].ref].kind = "character" /\ rows'[rows'[n].ref].work = rows'[n].work
    <3>1. rows[n].ref \in 1 .. L /\ rows[rows[n].ref].kind = "character"
          /\ rows[rows[n].ref].work = rows[n].work
      BY <1>3, <1>5, <2>1 DEF WorkspaceIInv, Well, NotesHome
    <3>2. QED
      BY <1>3, <1>5, <3>1
  <2>2. L + 4 \in DOMAIN rows'
    BY <1>3, <1>5
  <2>3. QED
    BY <1>2, <1>6, <1>7, <2>1, <2>2 DEF NotesHome
<1>12. /\ pc'[p] = "idle" /\ \A q \in Handlers \ {p} : pc'[q] = pc[q] /\ req'[q] = req[q]
       /\ pc' \in [Handlers -> Steps \cup {"idle"}] /\ req' \in [Handlers -> Local]
  BY <1>1, TablesAre DEF Done, Goto, Blank, Local
<1>13. TypeOK'
  BY <1>1, <1>5, <1>9, <1>12, TablesAre DEF TypeOK
<1>14. Underway(p)' /\ \A kind : p \notin Admitted(kind)'
  BY <1>12 DEF Underway, Admitted, Steps
<1>15. ASSUME NEW kind \in Limited
       PROVE  /\ \A w \in 0 .. L : CountedIn(rows', w, kind) \subseteq CountedIn(rows, w, kind)
              /\ \A w \in 0 .. Len(rows') : w \notin 0 .. L => Cardinality(CountedIn(rows', w, kind)) <= 1
  <2>1. ASSUME NEW w \in 0 .. L PROVE CountedIn(rows', w, kind) \subseteq CountedIn(rows, w, kind)
    <3>1. w # L + 1
      BY <1>3
    <3>2. \A i \in DOMAIN rows' : Counts(rows'[i], w, kind) => i \in 1 .. L
      BY <1>2, <1>6, <1>7, <3>1 DEF Counts
    <3>3. \A u \in CountedIn(rows', w, kind) : u[1] \in 1 .. L /\ rows'[u[1]] = rows[u[1]]
      BY <1>5, <3>2 DEF CountedIn
    <3>4. QED
      BY <1>3, <3>3 DEF CountedIn
  <2>2. ASSUME NEW w \in 0 .. Len(rows'), w \notin 0 .. L
        PROVE  Cardinality(CountedIn(rows', w, kind)) <= 1
    <3>1. \A i \in 1 .. L : rows'[i].work # w
      BY <1>3, <1>5, <1>8, <2>2
    <3>2. w # 0
      BY <1>3, <2>2
    <3>3. \A i \in DOMAIN rows' : Counts(rows'[i], w, kind) =>
             /\ rows'[i].size = 1
             /\ i = CASE kind = "scene" -> L + 3 [] kind = "character" -> L + 4 [] OTHER -> L + 6
      BY <1>2, <1>6, <1>7, <3>1, <3>2 DEF Counts, Limited
    <3>4. \E u : CountedIn(rows', w, kind) \subseteq {u}
      <4> DEFINE at == CASE kind = "scene" -> L + 3 [] kind = "character" -> L + 4 [] OTHER -> L + 6
      <4>1. \A u \in CountedIn(rows', w, kind) :
               u = <<u[1], u[2]>> /\ u[1] = at /\ u[2] \in 1 .. MaxLength /\ u[2] <= 1
        BY <3>3 DEF CountedIn
      <4> HIDE DEF at
      <4>2. \A u \in CountedIn(rows', w, kind) : u = <<at, 1>>
        BY <4>1, WorkspaceAssumption
      <4>3. CountedIn(rows', w, kind) \subseteq {<<at, 1>>}
        BY <4>2
      <4>4. QED
        BY <4>3
    <3>5. QED
      BY <1>5, <3>4, CountedOne
  <2>3. QED
    BY <2>1, <2>2
<1>16. QED
  BY <1>1, <1>10, <1>11, <1>12, <1>13, <1>14, <1>15, StepKeeps DEF L

-----------------------------------------------------------------------------
(* Edits *)

\* An edit keeps a row's kind, its work and, for a note, its character.
LEMMA EditKeeps ==
    ASSUME WorkspaceIInv, NEW i \in DOMAIN rows, NEW row \in Row, Edit(i, row),
           row.kind = rows[i].kind, row.work = rows[i].work, row.sample = rows[i].sample,
           row.ref \in 0 .. Len(rows), row.kind = "note" => row.ref = rows[i].ref,
           excused \subseteq excused', excused' \subseteq Limited,
           \/ row.deleted
           \/ row.deleted = rows[i].deleted /\ row.size <= rows[i].size
           \/ row.kind \notin Limited \ excused'
    PROVE  WorkspaceIInv'
<1>1. rows \in Seq(Row) /\ Len(rows) \in Nat /\ DOMAIN rows = 1 .. Len(rows)
  BY TablesAre
<1>2. rows' = [rows EXCEPT ![i] = row] /\ UNCHANGED <<plan, pc, req>>
  BY DEF Edit
<1>3. /\ rows' \in Seq(Row) /\ Len(rows') = Len(rows) /\ DOMAIN rows' = DOMAIN rows
      /\ rows'[i] = row /\ \A j \in DOMAIN rows : j # i => rows'[j] = rows[j]
  BY <1>1, <1>2
<1>4. RowsGrow
  BY <1>1, <1>3 DEF RowsGrow
<1>5. TypeOK'
  <2>1. \A j \in DOMAIN rows' : rows'[j].work < j /\ rows'[j].ref \in 0 .. Len(rows')
    BY <1>3 DEF WorkspaceIInv, Well, TypeOK
  <2>2. begun' \in 0 .. MaxRequests
    BY WorkspaceAssumption, TablesAre DEF Edit, Begin
  <2>3. QED
    BY <1>2, <1>3, <2>1, <2>2, TablesAre DEF TypeOK
<1>6. NotesHome'
  BY <1>3, <1>4 DEF WorkspaceIInv, Well, NotesHome, RowsGrow
<1>7. \A q \in Handlers : Underway(q)'
  <2>1. ASSUME NEW q \in Handlers PROVE Underway(q)'
    <3>1. Underway(q) /\ pc'[q] = pc[q] /\ req'[q] = req[q]
      BY <1>2 DEF WorkspaceIInv, Well
    <3>2. QED
      BY <1>1, <1>3, <1>4, <3>1, RequestGoesOn
  <2>2. QED
    BY <2>1
<1>8. ASSUME NEW kind \in Limited \ excused' PROVE Roomy(kind)'
  <2>1. Roomy(kind) /\ Well /\ plan' \in PlanNames /\ PlanLimits[plan][kind] <= PlanLimits[plan'][kind]
    BY <1>2, <1>8, TablesAre, WorkspaceAssumption DEF WorkspaceIInv
  <2>2. \A w : CountedIn(rows', w, kind) \subseteq CountedIn(rows, w, kind)
    <3> SUFFICES ASSUME NEW w, NEW u \in CountedIn(rows', w, kind) PROVE u \in CountedIn(rows, w, kind)
      OBVIOUS
    <3>1. /\ u \in (DOMAIN rows) \X (1 .. MaxLength) /\ u[1] \in DOMAIN rows /\ u[2] \in Nat
          /\ Counts(rows'[u[1]], w, kind) /\ u[2] <= rows'[u[1]].size
      BY <1>3, WorkspaceAssumption DEF CountedIn
    <3>2. CASE u[1] # i
      BY <1>3, <3>1, <3>2 DEF CountedIn
    <3>3. CASE u[1] = i
      <4>1. ~row.deleted /\ row.kind = kind /\ row.size \in Nat /\ rows[i].size \in Nat
        BY <1>1, <1>3, <3>1, <3>3, SizesAre DEF Counts
      <4>2. row.deleted = rows[i].deleted /\ row.size <= rows[i].size
        BY <1>8, <4>1
      <4>3. Counts(rows[i], w, kind) /\ u[2] <= rows[i].size
        BY <1>3, <3>1, <3>3, <4>1, <4>2 DEF Counts
      <4>4. QED
        BY <3>1, <3>3, <4>3 DEF CountedIn
    <3>4. QED
      BY <3>2, <3>3
  <2>3. \A q \in Admitted(kind)' : /\ q \in Admitted(kind) /\ req'[q].new.work = req[q].new.work
                                    /\ req'[q].new.size = req[q].new.size
    BY <1>2 DEF Admitted, Charged, At
  <2>4. QED
    BY <1>3, <1>4, <2>1, <2>2, <2>3, RoomKept
<1>9. QED
  BY <1>5, <1>6, <1>7, <1>8 DEF WorkspaceIInv, Well

LEMMA EditsKeep ==
    ASSUME WorkspaceIInv, NEW i \in DOMAIN rows,
           Delete(i) \/ Revive(i) \/ Renumber(i) \/ Rename(i) \/ EditScene(i)
    PROVE  WorkspaceIInv'
<1>0. rows[i].size <= rows[i].size
  BY TablesAre, SizesAre
<1>1. rows[i] \in Row /\ rows[i].ref \in 0 .. Len(rows) /\ excused \subseteq Limited
      /\ \A c \in DOMAIN rows : c \in 0 .. Len(rows) /\ c \in Nat
  BY TablesAre DEF WorkspaceIInv, Well, TypeOK
<1>2. CASE Delete(i)
  <2> DEFINE row == [rows[i] EXCEPT !.deleted = TRUE]
  <2>1. /\ row \in Row /\ row.kind = rows[i].kind /\ row.work = rows[i].work /\ row.sample = rows[i].sample
        /\ row.ref = rows[i].ref /\ row.deleted
    BY <1>1 DEF Row
  <2>2. Edit(i, row) /\ UNCHANGED excused
    BY <1>2 DEF Delete
  <2> HIDE DEF row
  <2>3. QED
    BY <1>1, <2>1, <2>2, EditKeeps
<1>3. CASE Revive(i)
  <2> DEFINE row == [rows[i] EXCEPT !.deleted = FALSE]
  <2>1. /\ row \in Row /\ row.kind = rows[i].kind /\ row.work = rows[i].work /\ row.sample = rows[i].sample
        /\ row.ref = rows[i].ref
    BY <1>1 DEF Row
  <2>2. Edit(i, row) /\ excused' = excused \cup (Limited \cap {rows[i].kind})
    BY <1>3 DEF Revive
  <2>3. row.kind \notin Limited \ excused' /\ excused' \subseteq Limited
    BY <1>1, <2>1, <2>2
  <2> HIDE DEF row
  <2>4. QED
    BY <1>1, <2>1, <2>2, <2>3, EditKeeps
<1>4. CASE Renumber(i)
  <2>1. PICK o \in Orders : Edit(i, [rows[i] EXCEPT !.order = o])
    BY <1>4 DEF Renumber
  <2> DEFINE row == [rows[i] EXCEPT !.order = o]
  <2>2. o \in Nat
    BY WorkspaceAssumption
  <2>3. /\ row \in Row /\ row.kind = rows[i].kind /\ row.work = rows[i].work /\ row.sample = rows[i].sample
        /\ row.ref = rows[i].ref /\ row.deleted = rows[i].deleted
        /\ row.size = rows[i].size
    BY <1>1, <2>2 DEF Row
  <2>4. Edit(i, row) /\ UNCHANGED excused
    BY <1>4, <2>1 DEF Renumber
  <2> HIDE DEF row
  <2>5. QED
    BY <1>0, <1>1, <2>3, <2>4, EditKeeps
<1>5. CASE Rename(i)
  <2>1. PICK n \in Names : Edit(i, [rows[i] EXCEPT !.name = n])
    BY <1>5 DEF Rename
  <2> DEFINE row == [rows[i] EXCEPT !.name = n]
  <2>2. /\ row \in Row /\ row.kind = rows[i].kind /\ row.work = rows[i].work /\ row.sample = rows[i].sample
        /\ row.ref = rows[i].ref /\ row.deleted = rows[i].deleted
        /\ row.size = rows[i].size
    BY <1>1 DEF Row
  <2>3. Edit(i, row) /\ UNCHANGED excused
    BY <1>5, <2>1 DEF Rename
  <2> HIDE DEF row
  <2>4. QED
    BY <1>0, <1>1, <2>2, <2>3, EditKeeps
<1>6. CASE EditScene(i)
  <2>1. PICK c \in {0} \cup {j \in DOMAIN rows : rows[j].kind = "chapter"},
             o \in {rows[i].order} \cup Orders, z \in {rows[i].size} \cup Lengths :
               /\ rows[i].kind = "scene"
               /\ Edit(i, [rows[i] EXCEPT !.ref = c, !.order = o, !.size = z])
               /\ excused' = IF z > rows[i].size THEN excused \cup {"scene"} ELSE excused
    BY <1>6 DEF EditScene
  <2> DEFINE row == [rows[i] EXCEPT !.ref = c, !.order = o, !.size = z]
  <2>2. c \in 0 .. Len(rows) /\ c \in Nat /\ o \in Nat /\ z \in 0 .. MaxLength
        /\ z \in Nat /\ rows[i].size \in Nat
    <3>1. rows[i].size \in 0 .. MaxLength /\ rows[i].order \in Nat
      BY <1>1 DEF Row
    <3>2. \A q \in Orders : q \in Nat
      BY WorkspaceAssumption
    <3>3. c \in 0 .. Len(rows) /\ c \in Nat
      BY TablesAre
    <3>4. QED
      BY <3>1, <3>2, <3>3, LengthsAre
  <2>3. /\ row \in Row /\ row.kind = rows[i].kind /\ row.work = rows[i].work /\ row.sample = rows[i].sample
        /\ row.ref = c /\ row.deleted = rows[i].deleted /\ row.size = z
    BY <1>1, <2>2 DEF Row
  <2>4. Edit(i, row) /\ row.kind = "scene"
    BY <2>1, <2>3
  <2>5. /\ excused \subseteq excused' /\ excused' \subseteq Limited
        /\ row.size <= rows[i].size \/ "scene" \in excused'
    BY <1>1, <2>1, <2>2, <2>3 DEF Limited
  <2> HIDE DEF row
  <2>6. QED
    BY <1>1, <2>2, <2>3, <2>4, <2>5, EditKeeps
<1>7. QED
  BY <1>2, <1>3, <1>4, <1>5, <1>6

\* A higher limit leaves room, and a lower one excuses its kind.
LEMMA PlanKeeps ==
    ASSUME WorkspaceIInv, NEW to \in PlanNames, ChangePlan(to)
    PROVE  WorkspaceIInv'
<1>1. plan' = to /\ UNCHANGED <<rows, pc, req>> /\ begun' \in 0 .. MaxRequests
  BY WorkspaceAssumption, TablesAre DEF ChangePlan, Begin
<1>2. excused' = excused \cup {k \in Limited : PlanLimits[to][k] < PlanLimits[plan][k]}
  BY DEF ChangePlan
<1>3. TypeOK' /\ NotesHome' /\ RowsGrow /\ \A q \in Handlers : Underway(q)'
  BY <1>1, <1>2, TablesAre DEF TypeOK, NotesHome, RowsGrow, Underway, WorkspaceIInv, Well
<1>4. ASSUME NEW kind \in Limited \ excused' PROVE Roomy(kind)'
  <2>1. PlanLimits[plan][kind] \in Nat /\ PlanLimits[to][kind] \in Nat
    BY TablesAre, WorkspaceAssumption
  <2>2. PlanLimits[plan][kind] <= PlanLimits[to][kind] /\ kind \notin excused
    BY <1>2, <1>4, <2>1
  <2>3. \A q \in Admitted(kind)' : /\ q \in Admitted(kind) /\ req'[q].new.work = req[q].new.work
                                    /\ req'[q].new.size = req[q].new.size
    BY <1>1 DEF Admitted, Charged, At
  <2>4. Roomy(kind) /\ Well
    BY <2>2 DEF WorkspaceIInv
  <2>5. QED
    BY <1>1, <1>3, <2>2, <2>3, <2>4, TablesAre, RoomKept
<1>5. QED
  BY <1>3, <1>4 DEF WorkspaceIInv, Well

-----------------------------------------------------------------------------
(* Theorems *)

LEMMA WorkspaceInitial == Init => WorkspaceIInv
<1> SUFFICES ASSUME Init PROVE WorkspaceIInv
  OBVIOUS
<1>1. rows \in Starts /\ rows \in Seq(Row)
  BY StartsAssumption DEF Init
<1>2. \A p \in Handlers : pc[p] = "idle"
  BY DEF Init
<1>3. TypeOK
  BY <1>1, StartsAssumption, WorkspaceAssumption DEF Init, TypeOK, PlanNames, Blank, Local
<1>4. NotesHome
  BY <1>1, StartsAssumption DEF NotesHome
<1>5. \A p \in Handlers : Underway(p)
  BY <1>2 DEF Underway
<1>6. ASSUME NEW kind \in Limited PROVE Roomy(kind)
  <2>1. Admitted(kind) = {}
    BY <1>2 DEF Admitted, Steps
  <2>2. \A w \in 0 .. Len(rows) : Used(w, kind) <= PlanLimits[plan][kind]
    BY <1>1, StartsAssumption DEF Init, Used
  <2>3. QED
    BY <2>1, <2>2 DEF Roomy
<1>7. QED
  BY <1>3, <1>4, <1>5, <1>6 DEF WorkspaceIInv, Well

LEMMA WorkspaceInductive == Spec => []WorkspaceIInv
<1>1. WorkspaceIInv /\ [Next]_vars => WorkspaceIInv'
  <2> SUFFICES ASSUME WorkspaceIInv, [Next]_vars PROVE WorkspaceIInv'
    OBVIOUS
  <2>1. ASSUME NEW p \in Handlers, StartProject(p) \/ StartSample(p) PROVE WorkspaceIInv'
    BY <2>1, WorksStartKeep
  <2>2. ASSUME NEW p \in Handlers, NEW w \in DOMAIN rows,
               \/ StartChapter(p, w) \/ StartScene(p, w) \/ StartRecord(p, w) \/ StartNote(p, w)
               \/ ScenePage(p, w) \/ CharacterPage(p, w) \/ RecordPage(p, w)
        PROVE  WorkspaceIInv'
    BY <2>2, CheckedStartsKeep, PageStartsKeep
  <2>3. ASSUME NEW p \in Handlers, NEW w \in DOMAIN rows, NEW n \in Names,
               SaveScene(p, w, n) \/ SaveCharacter(p, w, n) \/ SaveNote(p, w, n)
        PROVE  WorkspaceIInv'
    BY <2>3, SavesKeep
  <2>4. ASSUME NEW p \in Handlers,
               \/ Check(p) \/ FindChapter(p) \/ CountChapters(p) \/ FindCharacter(p) \/ FindName(p)
               \/ InsertNeeded(p) \/ CountOrder(p) \/ Insert(p) \/ InsertState(p) \/ Crash(p) \/ InsertSample(p)
        PROVE  WorkspaceIInv'
    BY <2>4, CheckKeeps, FindsKeep, NeededKeeps, InsertKeeps, StateKeeps, SampleKeeps
  <2>5. ASSUME NEW i \in DOMAIN rows, Delete(i) \/ Revive(i) \/ Renumber(i) \/ Rename(i) \/ EditScene(i)
        PROVE  WorkspaceIInv'
    BY <2>5, EditsKeep
  <2>6. ASSUME NEW to \in PlanNames, ChangePlan(to) PROVE WorkspaceIInv'
    BY <2>6, PlanKeeps
  <2>7. CASE UNCHANGED vars
    BY <2>7 DEF vars, WorkspaceIInv, Well, TypeOK, NotesHome, Underway, Roomy, Used, HasRoom, Admitted, Charged, At
  <2>8. QED
    BY <2>1, <2>2, <2>3, <2>4, <2>5, <2>6, <2>7 DEF Next
<1>2. QED
  BY <1>1, WorkspaceInitial, PTL DEF Spec

\* The rows of the tables, and what requests hold of them, are well-formed.
THEOREM TablesAreTyped == Spec => []TypeOK
<1>1. WorkspaceIInv => TypeOK
  BY DEF WorkspaceIInv, Well
<1>2. QED
  BY <1>1, WorkspaceInductive, PTL

\* A note is about a character of its own work, for any number of requests, names and works.
THEOREM NotesNeverStray == Spec => []NotesStayHome
<1>1. WorkspaceIInv => NotesStayHome
  BY DEF WorkspaceIInv, Well, NotesHome, NotesStayHome
<1>2. QED
  BY <1>1, WorkspaceInductive, PTL

\* For any limits and lengths: a limit is kept unless two requests had room at a time, a page
\* form or a rollback made the row, an edit lengthened a text, the first story state of a work
\* met others there, or the plan was lowered.
THEOREM LimitsAreKept == Spec => []LimitHolds
<1>1. WorkspaceIInv => LimitHolds
  <2> SUFFICES ASSUME WorkspaceIInv, NEW kind \in Limited \ excused, NEW w \in {0} \cup DOMAIN rows
               PROVE  Used(w, kind) <= PlanLimits[plan][kind]
    BY DEF LimitHolds
  <2>1. w \in 0 .. Len(rows)
    BY TablesAre
  <2>2. QED
    BY <2>1 DEF WorkspaceIInv, Roomy
<1>2. QED
  BY <1>1, WorkspaceInductive, PTL

-----------------------------------------------------------------------------
(* What is exported *)

LEMMA ByOrderFacts ==
    ASSUME TypeOK, NEW S \in SUBSET DOMAIN rows
    PROVE  Straight(ByOrder(S)) /\ ToSet(ByOrder(S)) = S
<1> DEFINE R == {p \in S \X S : Sooner(p[1], p[2])}
<1>1. /\ Len(rows) \in Nat /\ DOMAIN rows = 1..Len(rows)
      /\ \A i \in S : i \in Nat /\ rows[i].order \in Nat
  <2>1. rows \in Seq(Row)
    BY DEF TypeOK
  <2>2. Len(rows) \in Nat /\ DOMAIN rows = 1..Len(rows)
    BY <2>1
  <2>3. \A i \in DOMAIN rows : rows[i] \in Row
    BY <2>1
  <2>4. \A i \in S : i \in Nat /\ rows[i] \in Row
    BY <2>2, <2>3
  <2>5. \A r \in Row : r.order \in Nat
    BY DEF Row
  <2>6. QED
    BY <2>2, <2>4, <2>5
<1>2. IsFiniteSet(S)
  BY <1>1, UpToCounts, FS_Subset
<1>3. \A x, y \in S : <<x, y>> \in R <=> Sooner(x, y)
  OBVIOUS
<1> HIDE DEF R
<1>4. \A x \in S : <<x, x>> \notin R
  BY <1>1, <1>3 DEF Sooner
<1>5. \A x, y \in S : x = y \/ <<x, y>> \in R \/ <<y, x>> \in R
  <2> SUFFICES ASSUME NEW x \in S, NEW y \in S, x # y
               PROVE  <<x, y>> \in R \/ <<y, x>> \in R
    OBVIOUS
  <2>1. x \in Nat /\ y \in Nat /\ rows[x].order \in Nat /\ rows[y].order \in Nat
    BY <1>1
  <2>2. Sooner(x, y) \/ Sooner(y, x)
    BY <2>1 DEF Sooner
  <2>3. QED
    BY <1>3, <2>2
<1>6. \A x, y, z \in S : <<x, y>> \in R /\ <<y, z>> \in R => <<x, z>> \in R
  BY <1>1, <1>3 DEF Sooner
<1>7. Linear(S, R)
  BY <1>2, <1>4, <1>5, <1>6 DEF Linear
<1>8. ByOrder(S) = InOrder(S, R)
  BY DEF ByOrder, R
<1>9. QED
  BY <1>7, <1>8, InOrderFacts

\* The manuscript has every live scene that is in no chapter or in a live one, once: whatever
\* orders rows have and whatever chapters were deleted under their scenes.
LEMMA ManuscriptFacts ==
    ASSUME TypeOK, NEW w
    PROVE  /\ Straight(Manuscript(w))
           /\ ToSet(Manuscript(w)) = {s \in Of(w, "scene") : rows[s].ref \in {0} \cup Of(w, "chapter")}
<1> DEFINE scenes == ByOrder(Of(w, "scene"))
           chapters == ByOrder(Of(w, "chapter"))
           n == Len(chapters)
           With(c) == {s \in ToSet(scenes) : rows[s].ref = c}
           In(c) == Only(scenes, With(c))
           parts == [k \in DOMAIN chapters |-> In(chapters[k])]
<1>1. Of(w, "scene") \in SUBSET DOMAIN rows /\ Of(w, "chapter") \in SUBSET DOMAIN rows
  BY DEF Of
<1>2. Straight(scenes) /\ ToSet(scenes) = Of(w, "scene") /\ Straight(chapters) /\ ToSet(chapters) = Of(w, "chapter")
  BY <1>1, ByOrderFacts
<1>3. 0 \notin Of(w, "chapter")
  BY DEF Of, TypeOK
<1> HIDE DEF scenes, chapters
<1>4. \A c : Straight(In(c)) /\ ToSet(In(c)) = With(c)
  <2> SUFFICES ASSUME NEW c PROVE Straight(In(c)) /\ ToSet(In(c)) = With(c)
    OBVIOUS
  <2>1. ToSet(scenes) \cap With(c) = With(c)
    OBVIOUS
  <2>2. QED
    BY <1>2, <2>1, OnlyFacts
<1>5. n \in Nat /\ DOMAIN chapters = 1..n /\ \A k, l \in 1..n : chapters[k] = chapters[l] => k = l
  BY <1>2, StraightFacts
<1> HIDE DEF In, n
<1>6. DOMAIN parts = 1..n /\ \A k \in 1..n : parts[k] = In(chapters[k])
  BY <1>5
<1>7. parts = [k \in 1..n |-> parts[k]]
  BY <1>5
<1> HIDE DEF parts
<1>8. \A k \in 1..n : Straight(parts[k]) /\ ToSet(parts[k]) = With(chapters[k])
  BY <1>4, <1>6
<1>9. \A k, l \in 1..n : k # l => ToSet(parts[k]) \cap ToSet(parts[l]) = {}
  BY <1>5, <1>8
<1>10. Straight(FlattenSeq(parts)) /\ ToSet(FlattenSeq(parts)) = UNION {ToSet(parts[k]) : k \in 1..n}
  BY <1>5, <1>6, <1>7, <1>8, <1>9, FlattenFacts
<1>11. UNION {ToSet(parts[k]) : k \in 1..n} = {s \in Of(w, "scene") : rows[s].ref \in Of(w, "chapter")}
  <2>1. \A s : (\E k \in 1..n : s \in ToSet(parts[k])) <=> s \in Of(w, "scene") /\ rows[s].ref \in Of(w, "chapter")
    <3> SUFFICES ASSUME NEW s
                 PROVE  (\E k \in 1..n : s \in ToSet(parts[k])) <=> s \in Of(w, "scene") /\ rows[s].ref \in Of(w, "chapter")
      OBVIOUS
    <3>1. \A k \in 1..n : s \in ToSet(parts[k]) <=> s \in Of(w, "scene") /\ rows[s].ref = chapters[k]
      BY <1>2, <1>8
    <3>2. \A c : c \in Of(w, "chapter") <=> \E k \in 1..n : chapters[k] = c
      BY <1>2, <1>5 DEF ToSet
    <3>3. QED
      BY <3>1, <3>2
  <2>2. QED
    BY <2>1
<1>12. ToSet(FlattenSeq(parts)) \cap ToSet(In(0)) = {}
  BY <1>3, <1>4, <1>10, <1>11
<1>13. /\ Straight(FlattenSeq(parts) \o In(0))
       /\ ToSet(FlattenSeq(parts) \o In(0)) = ToSet(FlattenSeq(parts)) \cup ToSet(In(0))
  BY <1>4, <1>10, <1>12, StraightConcat
<1>14. Manuscript(w) = FlattenSeq(parts) \o In(0)
  BY DEF Manuscript, parts, In, scenes, chapters
<1>15. ToSet(FlattenSeq(parts)) \cup ToSet(In(0)) = {s \in Of(w, "scene") : rows[s].ref \in {0} \cup Of(w, "chapter")}
  BY <1>2, <1>4, <1>10, <1>11
<1>16. QED
  BY <1>13, <1>14, <1>15

\* An export shows every live scene that is in no chapter or in a live chapter of the work, once,
\* whatever requests and edits have interleaved: for any works, orders and numbers of scenes.
THEOREM ScenesExportedOnce == Spec => []ExportedOnce
<1>1. TypeOK => ExportedOnce
  BY ManuscriptFacts, StraightLength DEF ExportedOnce
<1>2. QED
  BY <1>1, TablesAreTyped, PTL
=============================================================================
