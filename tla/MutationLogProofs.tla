------------------------- MODULE MutationLogProofs -------------------------
(***************************************************************************)
(* Proofs about MutationLog, for every set of rows, contents and requests, *)
(* any number of requests in flight, with crashes, ties, page actions and  *)
(* forced rollbacks or without; and, in the second part, about the log as  *)
(* one client sees it who waits for each answer.                           *)
(***************************************************************************)
EXTENDS MutationLogRefinement, FiniteSetTheorems, SequenceTheorems, TLAPS

(***************************************************************************)
(* The inductive invariants.                                               *)
(***************************************************************************)

\* Every entry is about a row there is, and an UPDATE holds the row to restore.
EntriesWellFormed ==
    \A i \in DOMAIN log :
        /\ Exists(log[i].target)
        /\ log[i].action = "UPDATE" => log[i].before \in Row

\* What a request that waits at an await may rely on.
RequestWellFormed(p) ==
    /\ pc[p] = "insert" => req[p].left >= 1
    /\ pc[p] = "lookup" => req[p].op = "tag"
    /\ pc[p] = "own"    => req[p].op \in {"update", "delete"}
    /\ pc[p] = "write"  => req[p].op \in {"update", "delete", "tag", "pageUpdate", "pageDelete", "pageTag"}
    /\ pc[p] \in {"own", "write", "log", "fetch", "undo", "mark", "logback"} =>
           Exists(req[p].target)
    /\ pc[p] \in {"fetch", "undo", "mark"} =>
           req[p].cur \in req[p].todo /\ log[req[p].cur].target = req[p].target
    /\ \A i \in req[p].todo : log[i].action # "ROLLBACK"

WellFormed == EntriesWellFormed /\ \A p \in Reqs : RequestWellFormed(p)

TInv == TypeOK /\ WellFormed

\* An entry is in `undone` from the moment its effect is.
UInv == /\ MarkedWasUndone
        /\ \A p \in Reqs : pc[p] = "mark" => <<p, req[p].cur>> \in undone

\* The row there is was written by a request that logged it, or has it to log.
Writers(r) == {p \in Reqs : req[p].target = r /\ pc[p] \in {"log", "mark", "logback"}}

Stray(r) == \E p \in Reqs : /\ req[p].target = r
                            /\ \/ pc[p] = "lost"
                               \/ pc[p] = "ok" /\ req[p].op \in PageOps

JInv == \A r \in Recs :
            \/ Stray(r)
            \/ Afters(r) = {} /\ Writers(r) = {}
            \/ rec[r] \in Afters(r) \cup {req[p].after : p \in Writers(r)}

Mutating == {"own", "lookup", "insert", "write", "log"}
Holding  == {"fetch", "undo", "mark"}

\* Only a command that has started, and is no rollback, has entries under its id.
EntriesOfCommands ==
    \A i \in DOMAIN log :
        /\ log[i].action = "ROLLBACK" => log[i].tx = Null
        /\ log[i].tx # Null => /\ pc[log[i].tx] # "idle"
                               /\ req[log[i].tx].op \notin Undos

\* A mutation logs under its own id or none.  A transaction's rollback was asked
\* for once all its entries were there, and waits for each one that still stands.
CommandWellFormed(p) ==
    /\ pc[p] \in Mutating => req[p].op \notin Undos /\ req[p].tx \in {p, Null}
    /\ pc[p] \in Holding => req[p].cur \in Newest(req[p].todo)
    /\ req[p].op = "undoTransaction" =>
           /\ req[p].tx \in KnownTx
           /\ pc[p] = "ok" => req[p].todo = {}
           /\ \A j \in DOMAIN log :
                  log[j].tx = req[p].tx => j \in rolledBack \cup req[p].todo

XInv == EntriesOfCommands /\ \A p \in Reqs : CommandWellFormed(p)

(***************************************************************************)
(* Operators.                                                              *)
(***************************************************************************)

\* The request every new request is made from is a request.
LEMMA BlankType == Blank \in Request /\ Blank.todo = {}
<1>1. Blank.content \in Contents
  BY RowsAssumption DEF Blank
<1>2. QED
  BY <1>1, RowsAssumption DEF Blank, Request, Ops, Mutations

\* Whatever a mutation writes over a row there is, is a row.
LEMMA WrittenType ==
    ASSUME NEW op \in {"update", "delete", "tag", "pageUpdate", "pageDelete", "pageTag"},
           NEW c \in Contents, NEW row \in Row
    PROVE  Written(op, c, row) \in Row
BY DEF Written, Row, TagOps

\* Whatever a rollback writes over a row there is, is a row.
LEMMA RestoredType ==
    ASSUME NEW e \in Entry, e.action # "ROLLBACK",
           e.action = "UPDATE" => e.before \in Row, NEW row \in Row
    PROVE  Restored(e, row) \in Row
BY DEF Restored, Row, Entry

\* The clock never shows zero.
LEMMA StampsType == ASSUME log \in Seq(Entry) PROVE Stamps \subseteq Nat \ {0}
<1>1. CASE log = <<>>
  BY <1>1 DEF Stamps, LastAt
<1>2. CASE log # <<>>
  <2>1. log[Len(log)] \in Entry
    BY <1>2
  <2>2. LastAt \in Nat \ {0}
    BY <1>2, <2>1 DEF LastAt, Entry
  <2>3. QED
    BY <2>2 DEF Stamps
<1>3. QED
  BY <1>1, <1>2

\* The entry a mutation inserts, and the entry a rollback inserts, are entries.
LEMMA EntryType ==
    ASSUME NEW q \in Request, NEW at \in Nat \ {0}
    PROVE  MutationEntry(q, at) \in Entry /\ RollbackEntry(q, at) \in Entry
BY DEF MutationEntry, RollbackEntry, ActionOf, Request, Entry

\* The log's indices.
LEMMA LogDomain ==
    ASSUME log \in Seq(Entry)
    PROVE  /\ DOMAIN log = 1 .. Len(log) /\ DOMAIN log \subseteq Nat
           /\ \A i \in DOMAIN log : log[i] \in Entry
OBVIOUS

\* Appending an entry keeps the ones there are.
LEMMA AppendEntry ==
    ASSUME log \in Seq(Entry), NEW e \in Entry, log' = Append(log, e)
    PROVE  /\ log' \in Seq(Entry)
           /\ DOMAIN log' = DOMAIN log \cup {Len(log) + 1}
           /\ \A i \in DOMAIN log : log'[i] = log[i]
           /\ log'[Len(log) + 1] = e
           /\ Len(log) + 1 \notin DOMAIN log
           /\ DOMAIN log \subseteq Nat
BY AppendProperties
(***************************************************************************)
(* Type correctness, with what each await may rely on.                     *)
(***************************************************************************)
Steps == {"idle"} \cup Awaits \cup Replies

\* A step of request p keeps TInv when the tables stay well formed, lose no row
\* and no entry, and p itself ends up well formed.
LEMMA TInvFrame ==
    ASSUME TInv, NEW p \in Reqs,
           rec' \in [Recs -> Row \cup {Null}],
           \A r \in Recs : rec[r] # Null => rec'[r] # Null,
           log' \in Seq(Entry), DOMAIN log \subseteq DOMAIN log',
           \A i \in DOMAIN log : log'[i] = log[i],
           \A i \in DOMAIN log' \ DOMAIN log :
               rec'[log'[i].target] # Null /\ (log'[i].action = "UPDATE" => log'[i].before \in Row),
           rolledBack' \subseteq DOMAIN log', undone' \subseteq Reqs \X DOMAIN log',
           pc' \in [Reqs -> Steps], \A o \in Reqs \ {p} : pc'[o] = pc[o],
           req' \in [Reqs -> Request], \A o \in Reqs \ {p} : req'[o] = req[o],
           req'[p].todo \subseteq DOMAIN log', RequestWellFormed(p)'
    PROVE  TInv'
<1> USE DEF Steps
<1>1. TypeOK'
  BY DEF TInv, TypeOK
<1>2. EntriesWellFormed'
  <2> SUFFICES ASSUME NEW i \in DOMAIN log'
               PROVE  rec'[log'[i].target] # Null /\ (log'[i].action = "UPDATE" => log'[i].before \in Row)
    BY DEF EntriesWellFormed, Exists
  <2>1. CASE i \in DOMAIN log
    <3>1. rec[log[i].target] # Null /\ log[i].target \in Recs
      <4>1. log[i] \in Entry
        BY <2>1 DEF TInv, TypeOK
      <4>2. QED
        BY <2>1, <4>1 DEF TInv, WellFormed, EntriesWellFormed, Exists, Entry
    <3>2. log[i].action = "UPDATE" => log[i].before \in Row
      BY <2>1 DEF TInv, WellFormed, EntriesWellFormed
    <3>3. QED
      BY <2>1, <3>1, <3>2
  <2>2. QED
    BY <2>1
<1>3. ASSUME NEW o \in Reqs \ {p} PROVE RequestWellFormed(o)'
  <2>1. RequestWellFormed(o) /\ req[o] \in Request /\ req[o].todo \subseteq DOMAIN log
    BY DEF TInv, WellFormed, TypeOK
  <2>2. pc'[o] = pc[o] /\ req'[o] = req[o]
    OBVIOUS
  <2>3. rec[req[o].target] # Null => rec'[req[o].target] # Null
    BY <2>1 DEF Request
  <2>4. \A i \in req[o].todo : log'[i] = log[i]
    BY <2>1
  <2>5. QED
    BY <2>1, <2>2, <2>3, <2>4 DEF RequestWellFormed, Exists
<1>4. QED
  BY <1>1, <1>2, <1>3 DEF TInv, WellFormed

LEMMA TInvInit == Init => TInv
<1> SUFFICES ASSUME Init PROVE TInv
  OBVIOUS
<1>1. rec \in [Recs -> Row \cup {Null}]
  <2>1. \A c \in Seeds : NewRow(c) \in Row
    BY RowsAssumption DEF NewRow, Row
  <2>2. {Null} \cup {NewRow(c) : c \in Seeds} \subseteq Row \cup {Null}
    BY <2>1
  <2>3. rec \in [Recs -> {Null} \cup {NewRow(c) : c \in Seeds}]
    BY DEF Init
  <2>4. QED
    BY <2>2, <2>3
<1>2. log \in Seq(Entry) /\ DOMAIN log = {}
  BY DEF Init
<1>3. TypeOK
  BY <1>1, <1>2, BlankType DEF Init, TypeOK
<1>4. WellFormed
  BY <1>2, BlankType DEF Init, WellFormed, EntriesWellFormed, RequestWellFormed
<1>5. QED
  BY <1>3, <1>4 DEF TInv

\* Arriving changes one request only.
LEMMA TInvArrive ==
    ASSUME TInv, NEW p \in Reqs, NEW q \in Request,
           NEW step \in {"own", "lookup", "insert", "write", "check"},
           Arrive(p, step, q),
           q.todo \subseteq Undoable,
           step = "insert" => q.left >= 1,
           step = "lookup" => q.op = "tag",
           step = "own" => q.op \in {"update", "delete"},
           step = "write" => q.op \in {"pageUpdate", "pageDelete", "pageTag"},
           step \in {"own", "write"} => Exists(q.target)
    PROVE  TInv'
<1>1. pc' = [pc EXCEPT ![p] = step] /\ req' = [req EXCEPT ![p] = q]
  BY DEF Arrive
<1>2. UNCHANGED <<rec, log, rolledBack, undone>>
  BY DEF Arrive
<1>3. TypeOK
  BY DEF TInv
<1>4. pc' \in [Reqs -> Steps] /\ pc'[p] = step /\ \A o \in Reqs \ {p} : pc'[o] = pc[o]
  BY <1>1, <1>3 DEF TypeOK, Steps, Awaits
<1>5. req' \in [Reqs -> Request] /\ req'[p] = q /\ \A o \in Reqs \ {p} : req'[o] = req[o]
  BY <1>1, <1>3 DEF TypeOK
<1>6. q.todo \subseteq DOMAIN log /\ \A i \in q.todo : log[i].action # "ROLLBACK"
  BY DEF Undoable
<1>7. RequestWellFormed(p)'
  BY <1>2, <1>4, <1>5, <1>6 DEF RequestWellFormed, Exists
<1>8. QED
  BY <1>2, <1>3, <1>4, <1>5, <1>6, <1>7, TInvFrame DEF TypeOK, Exists

\* A form that is submitted is one action with a row, a content and a first await.
LEMMA PageSubmits ==
    ASSUME NEW p \in Reqs, StartPage(p)
    PROVE  \E op \in PageOps, step \in {"insert", "write"}, r \in Recs, c \in Contents, n \in {0, 1} :
               /\ step = "insert" => n = 1
               /\ step = "write" => op # "pageCreate" /\ Exists(r)
               /\ Arrive(p, step, [Blank EXCEPT !.op = op, !.target = r, !.content = c, !.left = n])
<1>1. Blank.content \in Contents /\ Project \in Recs /\ Tags \subseteq Recs
  BY BlankType, RowsAssumption DEF Request
<1> DEFINE Submit(op, step, r, c, n) ==
        Arrive(p, step, [Blank EXCEPT !.op = op, !.target = r, !.content = c, !.left = n])
<1>2. \/ \E c \in Contents : Submit("pageCreate", "insert", Project, c, 1)
      \/ \E r \in Recs, c \in Contents : Exists(r) /\ Submit("pageUpdate", "write", r, c, 0)
      \/ \E r \in Recs : Exists(r) /\ Submit("pageDelete", "write", r, Blank.content, 0)
      \/ \E r \in Tags : Exists(r) /\ Submit("pageTag", "write", r, Blank.content, 0)
      \/ \E r \in Tags : Submit("pageTag", "insert", r, Blank.content, 1)
  BY DEF StartPage, Live
<1> HIDE DEF Submit
<1>3. \E op \in PageOps, step \in {"insert", "write"}, r \in Recs, c \in Contents, n \in {0, 1} :
          /\ step = "insert" => n = 1
          /\ step = "write" => op # "pageCreate" /\ Exists(r)
          /\ Submit(op, step, r, c, n)
  <2>1. /\ "pageCreate" \in PageOps /\ "pageUpdate" \in PageOps
        /\ "pageDelete" \in PageOps /\ "pageTag" \in PageOps
    BY DEF PageOps
  <2>2. CASE \E c \in Contents : Submit("pageCreate", "insert", Project, c, 1)
    BY <1>1, <2>1, <2>2
  <2>3. CASE \E r \in Recs, c \in Contents : Exists(r) /\ Submit("pageUpdate", "write", r, c, 0)
    BY <2>1, <2>3
  <2>4. CASE \E r \in Recs : Exists(r) /\ Submit("pageDelete", "write", r, Blank.content, 0)
    BY <1>1, <2>1, <2>4
  <2>5. CASE \E r \in Tags : Exists(r) /\ Submit("pageTag", "write", r, Blank.content, 0)
    BY <1>1, <2>1, <2>5
  <2>6. CASE \E r \in Tags : Submit("pageTag", "insert", r, Blank.content, 1)
    BY <1>1, <2>1, <2>6
  <2>7. QED
    BY <1>2, <2>2, <2>3, <2>4, <2>5, <2>6
<1>4. QED
  BY <1>3 DEF Submit

\* A request that arrives is well formed.
LEMMA TInvStart == ASSUME TInv, NEW p \in Reqs, Start(p) PROVE TInv'
<1>1. Blank \in Request /\ Blank.todo = {} /\ Project \in Recs
  BY BlankType, RowsAssumption
<1>2. CASE StartCreate(p)
  <2>1. PICK c \in Contents, n \in {1, 2}, tx \in {p, Null} :
            Arrive(p, "insert", [Blank EXCEPT !.op = "create", !.content = c,
                                              !.left = n, !.tx = tx])
    BY <1>2 DEF StartCreate
  <2> DEFINE q == [Blank EXCEPT !.op = "create", !.content = c, !.left = n, !.tx = tx]
  <2>2. q \in Request /\ q.todo = {} /\ q.left >= 1
    <3>1. "create" \in Ops /\ n \in 0 .. 2 /\ n >= 1 /\ tx \in Reqs \cup {Null}
      BY DEF Ops, Mutations
    <3>2. q \in Request /\ q.todo = {} /\ q.left = n
      BY <1>1, <3>1 DEF Request
    <3>3. QED
      BY <3>1, <3>2
  <2>3. Arrive(p, "insert", q)
    BY <2>1
  <2> HIDE DEF q
  <2>4. QED
    BY <2>1, <2>2, <2>3, TInvArrive
<1>3. CASE StartNewProject(p)
  <2>1. PICK c \in Contents :
            Arrive(p, "insert", [Blank EXCEPT !.op = "create", !.content = c,
                                              !.left = 2, !.tx = p])
    BY <1>3 DEF StartNewProject
  <2> DEFINE q == [Blank EXCEPT !.op = "create", !.content = c, !.left = 2, !.tx = p]
  <2>2. q \in Request /\ q.todo = {} /\ q.left >= 1
    <3>1. "create" \in Ops /\ 2 \in 0 .. 2 /\ 2 >= 1 /\ p \in Reqs \cup {Null}
      BY DEF Ops, Mutations
    <3>2. q \in Request /\ q.todo = {} /\ q.left = 2
      BY <1>1, <3>1 DEF Request
    <3>3. QED
      BY <3>1, <3>2
  <2>3. Arrive(p, "insert", q)
    BY <2>1
  <2> HIDE DEF q
  <2>4. QED
    BY <2>1, <2>2, <2>3, TInvArrive
<1>4. CASE StartChange(p)
  <2>1. PICK r \in Recs, op \in {"update", "delete"}, c \in Contents :
            /\ Live(r)
            /\ Arrive(p, "own", [Blank EXCEPT !.op = op, !.target = r, !.content = c,
                                              !.before = rec[r]])
    BY <1>1, <1>4 DEF StartChange, Request
  <2> DEFINE q == [Blank EXCEPT !.op = op, !.target = r, !.content = c, !.before = rec[r]]
  <2>2. rec[r] \in Row \cup {Null}
    BY DEF TInv, TypeOK
  <2>3. q \in Request /\ q.todo = {} /\ q.op = op /\ q.target = r
    BY <1>1, <2>2 DEF Request, Ops, Mutations
  <2>4. Arrive(p, "own", q)
    BY <2>1
  <2> HIDE DEF q
  <2>5. QED
    BY <2>1, <2>3, <2>4, TInvArrive DEF Live
<1>5. CASE StartTag(p)
  <2>1. PICK r \in Tags : Arrive(p, "lookup", [Blank EXCEPT !.op = "tag", !.target = r])
    BY <1>5 DEF StartTag
  <2> DEFINE q == [Blank EXCEPT !.op = "tag", !.target = r]
  <2>2. q \in Request /\ q.todo = {} /\ q.op = "tag"
    BY <1>1, RowsAssumption DEF Request, Ops, Mutations
  <2>3. Arrive(p, "lookup", q)
    BY <2>1
  <2> HIDE DEF q
  <2>4. QED
    BY <2>1, <2>2, <2>3, TInvArrive
<1>6. CASE StartPage(p)
  <2>1. PICK op \in PageOps, step \in {"insert", "write"}, r \in Recs, c \in Contents, n \in {0, 1} :
            /\ step = "insert" => n = 1
            /\ step = "write" => op # "pageCreate" /\ Exists(r)
            /\ Arrive(p, step, [Blank EXCEPT !.op = op, !.target = r, !.content = c, !.left = n])
    BY <1>6, PageSubmits
  <2> DEFINE q == [Blank EXCEPT !.op = op, !.target = r, !.content = c, !.left = n]
  <2>2. q \in Request /\ q.todo = {} /\ q.op = op /\ q.target = r /\ q.left = n
    <3>1. op \in Ops /\ n \in 0 .. 2
      BY DEF Ops
    <3>2. QED
      BY <1>1, <3>1 DEF Request
  <2>3. Arrive(p, step, q)
    BY <2>1
  <2> HIDE DEF q
  <2>4. QED
    BY <2>1, <2>2, <2>3, TInvArrive DEF PageOps
<1>7. CASE StartUndo(p)
  <2>1. PICK f \in BOOLEAN, op \in Undos, tx \in Reqs \cup {Null}, S \in SUBSET Undoable :
            Arrive(p, "check", [Blank EXCEPT !.op = op, !.force = f, !.tx = tx, !.todo = S])
    BY <1>7, RowsAssumption DEF StartUndo, Undos, KnownTx, Newest
  <2> DEFINE q == [Blank EXCEPT !.op = op, !.force = f, !.tx = tx, !.todo = S]
  <2>2. DOMAIN log \subseteq Nat
    BY LogDomain DEF TInv, TypeOK
  <2>3. q \in Request /\ q.todo = S
    BY <1>1, <2>2 DEF Request, Ops, Undoable
  <2>4. Arrive(p, "check", q)
    BY <2>1
  <2> HIDE DEF q
  <2>5. QED
    BY <2>1, <2>3, <2>4, TInvArrive
<1>8. QED
  BY <1>2, <1>3, <1>4, <1>5, <1>6, <1>7 DEF Start

\* What TInv says of the request that takes a step.
LEMMA RequestFacts ==
    ASSUME TInv, NEW p \in Reqs
    PROVE  /\ req[p] \in Request /\ req[p].todo \subseteq DOMAIN log
           /\ req[p].target \in Recs
           /\ RequestWellFormed(p)
           /\ rec[req[p].target] \in Row \cup {Null}
           /\ \A r \in Recs : rec[r] \in Row \cup {Null}
BY DEF TInv, TypeOK, WellFormed, Request

\* A step that moves one request on and leaves the tables alone.
LEMMA TInvMove ==
    ASSUME TInv, NEW p \in Reqs, NEW step \in Steps, NEW q \in Request,
           Goto(p, step), req' = [req EXCEPT ![p] = q],
           UNCHANGED <<rec, log, rolledBack, undone>>,
           q.todo = req[p].todo, RequestWellFormed(p)'
    PROVE  TInv'
<1>1. TypeOK
  BY DEF TInv
<1>2. pc' \in [Reqs -> Steps] /\ \A o \in Reqs \ {p} : pc'[o] = pc[o]
  BY <1>1 DEF Goto, TypeOK, Steps
<1>3. req' \in [Reqs -> Request] /\ req'[p] = q /\ \A o \in Reqs \ {p} : req'[o] = req[o]
  BY <1>1 DEF TypeOK
<1>4. QED
  BY <1>1, <1>2, <1>3, TInvFrame, RequestFacts DEF TypeOK

\* A step that writes one row of request p.
LEMMA TInvWrite ==
    ASSUME TInv, NEW p \in Reqs, NEW step \in Steps, NEW q \in Request,
           NEW row \in Row, NEW r \in Recs,
           Goto(p, step), req' = [req EXCEPT ![p] = q],
           rec' = [rec EXCEPT ![r] = row],
           UNCHANGED <<log, rolledBack>>, undone' \subseteq Reqs \X DOMAIN log,
           q.todo = req[p].todo, RequestWellFormed(p)'
    PROVE  TInv'
<1>1. TypeOK
  BY DEF TInv
<1>2. pc' \in [Reqs -> Steps] /\ \A o \in Reqs \ {p} : pc'[o] = pc[o]
  BY <1>1 DEF Goto, TypeOK, Steps
<1>3. req' \in [Reqs -> Request] /\ req'[p] = q /\ \A o \in Reqs \ {p} : req'[o] = req[o]
  BY <1>1 DEF TypeOK
<1>4. rec' \in [Recs -> Row \cup {Null}] /\ \A x \in Recs : rec[x] # Null => rec'[x] # Null
  BY <1>1, RowsAssumption DEF TypeOK
<1>5. QED
  BY <1>1, <1>2, <1>3, <1>4, TInvFrame, RequestFacts DEF TypeOK

\* A step that inserts entry e and moves request p on.
LEMMA TInvAppend ==
    ASSUME TInv, NEW p \in Reqs, NEW step \in Steps, NEW q \in Request, NEW e \in Entry,
           Goto(p, step), req' = [req EXCEPT ![p] = q], log' = Append(log, e),
           UNCHANGED <<rec, rolledBack, undone>>,
           Exists(e.target), e.action = "UPDATE" => e.before \in Row,
           q.todo = req[p].todo, RequestWellFormed(p)'
    PROVE  TInv'
<1>1. TypeOK
  BY DEF TInv
<1>2. pc' \in [Reqs -> Steps] /\ \A o \in Reqs \ {p} : pc'[o] = pc[o]
  BY <1>1 DEF Goto, TypeOK, Steps
<1>3. req' \in [Reqs -> Request] /\ req'[p] = q /\ \A o \in Reqs \ {p} : req'[o] = req[o]
  BY <1>1 DEF TypeOK
<1>4. /\ log' \in Seq(Entry) /\ DOMAIN log \subseteq DOMAIN log'
      /\ \A i \in DOMAIN log : log'[i] = log[i]
      /\ \A i \in DOMAIN log' \ DOMAIN log : log'[i] = e
  BY <1>1, AppendEntry DEF TypeOK
<1>5. \A i \in DOMAIN log' \ DOMAIN log :
          rec'[log'[i].target] # Null /\ (log'[i].action = "UPDATE" => log'[i].before \in Row)
  BY <1>4 DEF Exists
<1>6. undone' \subseteq Reqs \X DOMAIN log' /\ rolledBack' \subseteq DOMAIN log'
  BY <1>1, <1>4 DEF TypeOK
<1>7. q.todo \subseteq DOMAIN log'
  BY <1>4, RequestFacts
<1>8. QED
  BY <1>1, <1>2, <1>3, <1>4, <1>5, <1>6, <1>7, TInvFrame DEF TypeOK

LEMMA TInvMutation ==
    ASSUME TInv, NEW p \in Reqs,
           Own(p) \/ LookupTag(p) \/ Insert(p) \/ Write(p) \/ Log(p)
    PROVE  TInv'
<1> DEFINE q == req[p]
<1>1. /\ q \in Request /\ q.target \in Recs /\ RequestWellFormed(p) /\ TypeOK
      /\ \A r \in Recs : rec[r] \in Row \cup {Null}
  BY RequestFacts DEF TInv
<1>a. pc \in [Reqs -> Steps] /\ req \in [Reqs -> Request] /\ req = [req EXCEPT ![p] = q]
  BY <1>1 DEF TypeOK, Steps
<1>2. CASE Own(p)
  <2>1. PICK step \in {"write", "notfound"} : Goto(p, step) /\ pc[p] = "own"
    BY <1>2 DEF Own, At
  <2>2. pc'[p] = step /\ req' = [req EXCEPT ![p] = q] /\ UNCHANGED <<rec, log, rolledBack, undone, req>>
    BY <1>2, <1>a, <2>1 DEF Own, Goto
  <2>3. RequestWellFormed(p)'
    BY <1>1, <2>1, <2>2 DEF RequestWellFormed, Exists
  <2>4. QED
    BY <1>1, <2>1, <2>2, <2>3, TInvMove DEF Steps, Awaits, Replies
<1>3. CASE LookupTag(p)
  <2> DEFINE row == rec[q.target]
             n == [q EXCEPT !.before = row, !.left = IF row = Null THEN 1 ELSE 0]
  <2>1. PICK step \in {"insert", "write", "ok"} :
            /\ Goto(p, step) /\ pc[p] = "lookup"
            /\ step = "insert" => row = Null
            /\ step = "write" => row # Null
    BY <1>3 DEF LookupTag, At
  <2>2. /\ n \in Request /\ n.todo = q.todo /\ n.target = q.target /\ n.op = q.op
        /\ row = Null => n.left >= 1
    <3>1. (IF row = Null THEN 1 ELSE 0) \in 0 .. 2
      OBVIOUS
    <3>2. row \in Row \cup {Null}
      BY <1>1
    <3> HIDE DEF row
    <3>3. n \in Request /\ n.left = IF row = Null THEN 1 ELSE 0
      BY <1>1, <3>1, <3>2 DEF Request
    <3>4. QED
      BY <3>3
  <2>3. req' = [req EXCEPT ![p] = n] /\ UNCHANGED <<rec, log, rolledBack, undone>>
    BY <1>3 DEF LookupTag
  <2>4. req'[p] = n /\ pc'[p] = step
    BY <1>a, <2>1, <2>3 DEF Goto
  <2> HIDE DEF n
  <2>5. RequestWellFormed(p)'
    BY <1>1, <2>1, <2>2, <2>3, <2>4 DEF RequestWellFormed, Exists
  <2>6. QED
    BY <2>1, <2>2, <2>3, <2>5, TInvMove DEF Steps, Awaits, Replies
<1>4. CASE Insert(p)
  <2>1. PICK r \in Fresh(p) : 
            IF Exists(r)
            THEN Goto(p, "error") /\ UNCHANGED <<rec, req>>
            ELSE /\ Goto(p, AfterWrite(q.op))
                 /\ rec' = [rec EXCEPT ![r] = NewRow(q.content)]
                 /\ req' = [req EXCEPT ![p].target = r, ![p].before = Null,
                                       ![p].after = NewRow(q.content),
                                       ![p].left = @ - 1]
    BY <1>4 DEF Insert
  <2>2. r \in Recs
    BY <1>1, RowsAssumption DEF Fresh
  <2>3. pc[p] = "insert" /\ UNCHANGED <<log, rolledBack, undone>>
    BY <1>4 DEF Insert, At
  <2>4. CASE Exists(r)
    <3>1. Goto(p, "error") /\ UNCHANGED <<rec, req>>
      BY <2>1, <2>4
    <3>2. pc'[p] = "error" /\ req' = [req EXCEPT ![p] = q]
      BY <1>a, <3>1 DEF Goto
    <3>3. RequestWellFormed(p)'
      BY <1>1, <2>3, <3>1, <3>2 DEF RequestWellFormed, Exists
    <3>4. QED
      BY <1>1, <2>3, <3>1, <3>2, <3>3, TInvMove DEF Steps, Replies
  <2>5. CASE ~Exists(r)
    <3> DEFINE row == NewRow(q.content)
               n == [q EXCEPT !.target = r, !.before = Null, !.after = row, !.left = @ - 1]
    <3>1. row \in Row
      BY <1>1 DEF NewRow, Row, Request
    <3>2. n \in Request /\ n.todo = q.todo /\ n.target = r
      <4>1. q.left - 1 \in 0 .. 2
        BY <1>1, <2>3 DEF Request, RequestWellFormed
      <4>2. QED
        BY <1>1, <2>2, <3>1, <4>1 DEF Request
    <3>3. PICK step \in {"ok", "log"} : Goto(p, step)
      BY <2>1, <2>5 DEF AfterWrite
    <3>4. req' = [req EXCEPT ![p] = n] /\ rec' = [rec EXCEPT ![r] = row]
      BY <2>1, <2>5
    <3>5. req'[p] = n /\ pc'[p] = step /\ rec'[r] = row
      BY <1>a, <1>1, <2>2, <3>3, <3>4 DEF Goto, TypeOK
    <3> HIDE DEF n, row
    <3>6. RequestWellFormed(p)'
      BY <1>1, <2>3, <3>1, <3>2, <3>5, RowsAssumption DEF RequestWellFormed, Exists
    <3>7. undone' \subseteq Reqs \X DOMAIN log
      BY <1>1, <2>3 DEF TypeOK
    <3>8. QED
      BY <2>2, <2>3, <3>1, <3>2, <3>3, <3>4, <3>6, <3>7, TInvWrite DEF Steps, Awaits, Replies
  <2>6. QED
    BY <2>4, <2>5
<1>5. CASE Write(p)
  <2> DEFINE row == Written(q.op, q.content, rec[q.target])
             n == [q EXCEPT !.after = row]
  <2>1. pc[p] = "write" /\ UNCHANGED <<log, rolledBack, undone>>
    BY <1>5 DEF Write, At
  <2>2. row \in Row
    <3>1. rec[q.target] \in Row
      BY <1>1, <2>1 DEF RequestWellFormed, Exists
    <3>2. q.op \in {"update", "delete", "tag", "pageUpdate", "pageDelete", "pageTag"} /\ q.content \in Contents
      BY <1>1, <2>1 DEF RequestWellFormed, Request
    <3>3. QED
      BY <3>1, <3>2, WrittenType
  <2>3. PICK step \in {"ok", "log"} : Goto(p, step)
    BY <1>5 DEF Write, AfterWrite
  <2>4. req' = [req EXCEPT ![p] = n] /\ rec' = [rec EXCEPT ![q.target] = row]
    BY <1>5 DEF Write
  <2> HIDE DEF row
  <2>5. n \in Request /\ n.todo = q.todo /\ n.target = q.target
    BY <1>1, <2>2 DEF Request
  <2>6. req'[p] = n /\ pc'[p] = step /\ rec'[q.target] = row
    BY <1>1, <1>a, <2>3, <2>4 DEF Goto, TypeOK
  <2> HIDE DEF n
  <2>7. RequestWellFormed(p)'
    BY <1>1, <2>1, <2>2, <2>5, <2>6, RowsAssumption DEF RequestWellFormed, Exists
  <2>8. undone' \subseteq Reqs \X DOMAIN log
    BY <1>1, <2>1 DEF TypeOK
  <2>9. QED
    BY <1>1, <2>1, <2>2, <2>3, <2>4, <2>5, <2>7, <2>8, TInvWrite DEF Steps, Awaits, Replies
<1>6. CASE Log(p)
  <2> DEFINE n == [q EXCEPT !.cur = Len(log) + 1]
  <2>1. PICK at \in Stamps : log' = Append(log, MutationEntry(q, at))
    BY <1>6 DEF Log
  <2> DEFINE e == MutationEntry(q, at)
  <2>2. e \in Entry
    BY <1>1, StampsType, EntryType DEF TypeOK
  <2>3. e.target = q.target /\ (e.action = "UPDATE" => e.before \in Row)
    BY <1>1 DEF MutationEntry, ActionOf, Request
  <2>4. pc[p] = "log" /\ UNCHANGED <<rec, rolledBack, undone>> /\ req' = [req EXCEPT ![p] = n]
    BY <1>6 DEF Log, At
  <2>5. PICK step \in {"insert", "ok"} : Goto(p, step) /\ (step = "insert" => q.left > 0)
    BY <1>6 DEF Log
  <2>6. n \in Request /\ n.todo = q.todo /\ n.target = q.target /\ n.left = q.left
    <3>1. Len(log) + 1 \in Nat
      BY <1>1, LenProperties DEF TypeOK
    <3>2. QED
      BY <1>1, <3>1 DEF Request
  <2>7. req'[p] = n /\ pc'[p] = step
    BY <1>a, <2>4, <2>5 DEF Goto
  <2>8. \A i \in q.todo : log'[i] = log[i]
    BY <1>1, <2>1, <2>2, AppendEntry, RequestFacts DEF TypeOK
  <2>9. Exists(e.target)
    BY <1>1, <2>3, <2>4 DEF RequestWellFormed, Exists
  <2> HIDE DEF n, e
  <2>10. RequestWellFormed(p)'
    <3>1. q.left \in 0 .. 2
      BY <1>1 DEF Request
    <3>2. QED
      BY <1>1, <2>5, <2>6, <2>7, <2>8, <3>1 DEF RequestWellFormed, Exists
  <2>11. QED
    BY <2>1, <2>2, <2>3, <2>4, <2>5, <2>6, <2>9, <2>10, TInvAppend DEF e, Steps, Awaits, Replies
<1>7. QED
  BY <1>2, <1>3, <1>4, <1>5, <1>6
LEMMA TInvRollback ==
    ASSUME TInv, NEW p \in Reqs,
           Check(p) \/ Fetch(p) \/ Undo(p) \/ Mark(p) \/ LogBack(p)
    PROVE  TInv'
<1> DEFINE q == req[p]
<1>1. /\ q \in Request /\ q.target \in Recs /\ RequestWellFormed(p) /\ TypeOK
      /\ q.todo \subseteq DOMAIN log
      /\ \A r \in Recs : rec[r] \in Row \cup {Null}
  BY RequestFacts DEF TInv
<1>2. /\ pc \in [Reqs -> Steps] /\ req \in [Reqs -> Request] /\ req = [req EXCEPT ![p] = q]
      /\ DOMAIN log \subseteq Nat /\ \A i \in DOMAIN log : log[i] \in Entry
  BY <1>1, LogDomain DEF TypeOK, Steps
<1>3. CASE Check(p)
  <2>1. PICK i \in q.todo : req' = [req EXCEPT ![p].cur = i, ![p].target = log[i].target]
    BY <1>3 DEF Check, Newest
  <2> DEFINE n == [q EXCEPT !.cur = i, !.target = log[i].target]
  <2>2. PICK step \in {"conflict", "fetch"} : Goto(p, step)
    BY <1>3 DEF Check
  <2>3. UNCHANGED <<rec, log, rolledBack, undone>> /\ req' = [req EXCEPT ![p] = n]
    BY <1>3, <2>1 DEF Check
  <2>4. log[i].target \in Recs /\ i \in Nat /\ Exists(log[i].target)
    BY <1>1, <1>2 DEF Entry, TInv, WellFormed, EntriesWellFormed
  <2>5. n \in Request /\ n.todo = q.todo /\ n.target = log[i].target /\ n.cur = i
    BY <1>1, <2>4 DEF Request
  <2>6. req'[p] = n /\ pc'[p] = step
    BY <1>2, <2>2, <2>3 DEF Goto
  <2> HIDE DEF n
  <2>7. RequestWellFormed(p)'
    BY <1>1, <2>3, <2>4, <2>5, <2>6 DEF RequestWellFormed, Exists
  <2>8. QED
    BY <1>1, <2>2, <2>3, <2>5, <2>7, TInvMove DEF Steps, Awaits, Replies
<1>4. CASE Fetch(p)
  <2> DEFINE n == [q EXCEPT !.before = rec[q.target]]
  <2>1. /\ pc[p] = "fetch" /\ Goto(p, "undo") /\ req' = [req EXCEPT ![p] = n]
        /\ UNCHANGED <<rec, log, rolledBack, undone>>
    BY <1>4 DEF Fetch, At
  <2>2. n \in Request /\ n.todo = q.todo /\ n.target = q.target /\ n.cur = q.cur
    BY <1>1 DEF Request
  <2>3. req'[p] = n /\ pc'[p] = "undo"
    BY <1>2, <2>1 DEF Goto
  <2> HIDE DEF n
  <2>4. RequestWellFormed(p)'
    BY <1>1, <2>1, <2>2, <2>3 DEF RequestWellFormed, Exists
  <2>5. QED
    BY <1>1, <2>1, <2>2, <2>4, TInvMove DEF Steps, Awaits
<1>5. CASE Undo(p)
  <2> DEFINE row == Restored(log[q.cur], rec[q.target])
             n == [q EXCEPT !.after = row]
  <2>1. /\ pc[p] = "undo" /\ Goto(p, "mark") /\ req' = [req EXCEPT ![p] = n]
        /\ rec' = [rec EXCEPT ![q.target] = row]
        /\ undone' = undone \cup {<<p, q.cur>>}
        /\ UNCHANGED <<log, rolledBack>>
    BY <1>5 DEF Undo, At
  <2>2. q.cur \in q.todo /\ q.cur \in DOMAIN log /\ log[q.cur].action # "ROLLBACK"
    BY <1>1, <2>1 DEF RequestWellFormed
  <2>3. row \in Row
    <3>1. rec[q.target] \in Row
      BY <1>1, <2>1 DEF RequestWellFormed, Exists
    <3>2. log[q.cur].action = "UPDATE" => log[q.cur].before \in Row
      BY <2>2 DEF TInv, WellFormed, EntriesWellFormed
    <3>3. QED
      BY <1>2, <2>2, <3>1, <3>2, RestoredType
  <2> HIDE DEF row
  <2>4. n \in Request /\ n.todo = q.todo /\ n.target = q.target /\ n.cur = q.cur
    BY <1>1, <2>3 DEF Request
  <2>5. req'[p] = n /\ pc'[p] = "mark" /\ rec'[q.target] = row
    BY <1>1, <1>2, <2>1 DEF Goto, TypeOK
  <2> HIDE DEF n
  <2>6. RequestWellFormed(p)'
    BY <1>1, <2>1, <2>3, <2>4, <2>5, RowsAssumption DEF RequestWellFormed, Exists
  <2>7. undone' \subseteq Reqs \X DOMAIN log
    BY <1>1, <2>1, <2>2 DEF TypeOK
  <2>8. QED
    BY <1>1, <2>1, <2>3, <2>4, <2>6, <2>7, TInvWrite DEF Steps, Awaits
<1>6. CASE Mark(p)
  <2> DEFINE n == [q EXCEPT !.todo = @ \ {q.cur}]
  <2>1. /\ pc[p] = "mark" /\ Goto(p, "logback") /\ req' = [req EXCEPT ![p] = n]
        /\ rolledBack' = rolledBack \cup {q.cur} /\ UNCHANGED <<rec, log, undone>>
    BY <1>6 DEF Mark, At
  <2>2. q.cur \in DOMAIN log
    BY <1>1, <2>1 DEF RequestWellFormed
  <2>3. n \in Request /\ n.todo \subseteq q.todo /\ n.target = q.target
    BY <1>1 DEF Request
  <2>4. /\ pc' \in [Reqs -> Steps] /\ pc'[p] = "logback"
        /\ \A o \in Reqs \ {p} : pc'[o] = pc[o]
    BY <1>2, <2>1 DEF Goto, Steps, Awaits
  <2> HIDE DEF n
  <2>5. /\ req' \in [Reqs -> Request] /\ req'[p] = n
        /\ \A o \in Reqs \ {p} : req'[o] = req[o]
    BY <1>2, <2>1, <2>3
  <2>6. RequestWellFormed(p)'
    BY <1>1, <2>1, <2>3, <2>4, <2>5 DEF RequestWellFormed, Exists
  <2>7. rolledBack' \subseteq DOMAIN log /\ undone' \subseteq Reqs \X DOMAIN log
    BY <1>1, <2>1, <2>2 DEF TypeOK
  <2>8. QED
    BY <1>1, <2>1, <2>3, <2>4, <2>5, <2>6, <2>7, TInvFrame DEF TypeOK
<1>7. CASE LogBack(p)
  <2>1. PICK at \in Stamps : log' = Append(log, RollbackEntry(q, at))
    BY <1>7 DEF LogBack
  <2> DEFINE e == RollbackEntry(q, at)
  <2>2. e \in Entry
    BY <1>1, StampsType, EntryType DEF TypeOK
  <2>3. e.target = q.target /\ e.action = "ROLLBACK"
    BY DEF RollbackEntry
  <2>4. pc[p] = "logback" /\ UNCHANGED <<rec, rolledBack, undone, req>>
    BY <1>7 DEF LogBack, At
  <2>5. PICK step \in {"check", "ok"} : Goto(p, step)
    BY <1>7 DEF LogBack
  <2>6. req' = [req EXCEPT ![p] = q] /\ pc'[p] = step
    BY <1>2, <2>4, <2>5 DEF Goto
  <2>7. \A i \in q.todo : log'[i] = log[i]
    BY <1>1, <2>1, <2>2, AppendEntry DEF TypeOK
  <2>8. Exists(e.target)
    BY <1>1, <2>3, <2>4 DEF RequestWellFormed, Exists
  <2> HIDE DEF e
  <2>9. RequestWellFormed(p)'
    BY <1>1, <2>4, <2>5, <2>6, <2>7 DEF RequestWellFormed, Exists
  <2>10. QED
    BY <1>1, <2>1, <2>2, <2>3, <2>4, <2>5, <2>6, <2>8, <2>9, TInvAppend DEF e, Steps, Awaits, Replies
<1>8. QED
  BY <1>3, <1>4, <1>5, <1>6, <1>7

LEMMA TInvCrash == ASSUME TInv, NEW p \in Reqs, Crash(p) PROVE TInv'
<1>1. req[p] \in Request /\ req' = [req EXCEPT ![p] = req[p]] /\ TypeOK
  BY DEF TInv, TypeOK, Crash
<1>2. Goto(p, "lost") /\ UNCHANGED <<rec, log, rolledBack, req, undone>> /\ pc'[p] = "lost"
  BY <1>1 DEF Crash, Goto, TypeOK
<1>3. RequestWellFormed(p)'
  BY <1>2, RequestFacts DEF RequestWellFormed
<1>4. QED
  BY <1>1, <1>2, <1>3, TInvMove DEF Steps, Replies

LEMMA TInvNext == TInv /\ [Next]_vars => TInv'
<1> SUFFICES ASSUME TInv, [Next]_vars PROVE TInv'
  OBVIOUS
<1>1. CASE UNCHANGED vars
  BY <1>1 DEF vars, TInv, TypeOK, WellFormed, EntriesWellFormed, RequestWellFormed, Exists
<1>2. ASSUME NEW p \in Reqs, Start(p) \/ Serve(p) \/ Crash(p) PROVE TInv'
  BY <1>2, TInvStart, TInvMutation, TInvRollback, TInvCrash DEF Serve
<1>3. QED
  BY <1>1, <1>2 DEF Next

\* Every reachable state is type correct and well formed: the tables hold rows
\* and entries, every entry's row exists, and each request may rely on what its
\* await assumes.
THEOREM TypeCorrect == Spec => []TypeOK
<1>1. Spec => []TInv
  BY TInvInit, TInvNext, PTL DEF Spec
<1>2. TInv => TypeOK
  BY DEF TInv
<1>3. QED
  BY <1>1, <1>2, PTL
(***************************************************************************)
(* Undone before marked.                                                   *)
(***************************************************************************)
LEMMA UInvInit == Init => UInv
BY DEF Init, UInv, MarkedWasUndone

LEMMA UInvNext == TInv /\ UInv /\ [Next]_vars => UInv'
<1> SUFFICES ASSUME TInv, UInv, [Next]_vars PROVE UInv'
  OBVIOUS
<1>1. CASE UNCHANGED vars
  BY <1>1 DEF vars, UInv, MarkedWasUndone
<1>2. pc \in [Reqs -> Steps] /\ req \in [Reqs -> Request]
  BY DEF TInv, TypeOK, Steps

\* A step that neither marks nor undoes, nor puts its request before a mark.
<1>3. ASSUME NEW p \in Reqs, NEW step \in Steps \ {"mark"},
             pc' = [pc EXCEPT ![p] = step],
             \A o \in Reqs \ {p} : req'[o] = req[o],
             UNCHANGED <<rolledBack, undone>>
      PROVE  UInv'
  BY <1>2, <1>3 DEF UInv, MarkedWasUndone
<1>4. ASSUME NEW p \in Reqs, NEW step, NEW q, Arrive(p, step, q), step \in Steps \ {"mark"}
      PROVE  UInv'
  BY <1>2, <1>3, <1>4 DEF Arrive
<1>5. ASSUME NEW p \in Reqs, Start(p) PROVE UInv'
  BY <1>4, <1>5 DEF Start, StartCreate, StartNewProject, StartChange, StartTag, StartPage,
                    StartUndo, Steps, Awaits
<1>6. ASSUME NEW p \in Reqs,
             \/ Own(p) \/ LookupTag(p) \/ Insert(p) \/ Write(p) \/ Log(p)
             \/ Check(p) \/ Fetch(p) \/ LogBack(p) \/ Crash(p)
      PROVE  UInv'
  <2>1. PICK step \in Steps \ {"mark"} : pc' = [pc EXCEPT ![p] = step]
    BY <1>6 DEF Own, LookupTag, Insert, Write, Log, Check, Fetch, LogBack, Crash, Goto, AfterWrite,
                Steps, Awaits, Replies
  <2>2. UNCHANGED <<rolledBack, undone>> /\ \A o \in Reqs \ {p} : req'[o] = req[o]
    BY <1>2, <1>6 DEF Own, LookupTag, Insert, Write, Log, Check, Fetch, LogBack, Crash
  <2>3. QED
    BY <1>3, <2>1, <2>2
<1>7. ASSUME NEW p \in Reqs, Undo(p) PROVE UInv'
  <2>1. /\ pc' = [pc EXCEPT ![p] = "mark"] /\ undone' = undone \cup {<<p, req[p].cur>>}
        /\ rolledBack' = rolledBack
    BY <1>7 DEF Undo, Goto
  <2>2. req'[p].cur = req[p].cur /\ \A o \in Reqs \ {p} : req'[o] = req[o]
    BY <1>2, <1>7 DEF Undo, Request
  <2>3. QED
    BY <1>2, <2>1, <2>2 DEF UInv, MarkedWasUndone
<1>8. ASSUME NEW p \in Reqs, Mark(p) PROVE UInv'
  <2>1. /\ pc[p] = "mark" /\ pc' = [pc EXCEPT ![p] = "logback"]
        /\ rolledBack' = rolledBack \cup {req[p].cur} /\ undone' = undone
    BY <1>8 DEF Mark, At, Goto
  <2>2. \A o \in Reqs \ {p} : req'[o] = req[o]
    BY <1>2, <1>8 DEF Mark
  <2>3. <<p, req[p].cur>> \in undone
    BY <2>1 DEF UInv
  <2>4. QED
    BY <1>2, <2>1, <2>2, <2>3 DEF UInv, MarkedWasUndone
<1>9. QED
  BY <1>1, <1>5, <1>6, <1>7, <1>8 DEF Next, Serve

\* An entry is marked rolled back only after its effect has been undone, however
\* requests interleave and wherever they die.
THEOREM UndoneBeforeMarked == Spec => []MarkedWasUndone
<1>1. Init => TInv /\ UInv
  BY TInvInit, UInvInit
<1>2. TInv /\ UInv /\ [Next]_vars => TInv' /\ UInv'
  BY TInvNext, UInvNext
<1>3. UInv => MarkedWasUndone
  BY DEF UInv
<1>4. QED
  BY <1>1, <1>2, <1>3, PTL DEF Spec
(***************************************************************************)
(* The journal explains the rows.                                          *)
(***************************************************************************)
HasWritten == {"log", "mark", "logback"}
Final == {"ok", "lost"}

\* JInv, for one row and without sets.
JInvAt(r) ==
    \/ Stray(r)
    \/ /\ \A i \in DOMAIN log : log[i].target # r
       /\ \A p \in Reqs : req[p].target = r => pc[p] \notin HasWritten
    \/ \E i \in DOMAIN log : log[i].target = r /\ rec[r] = log[i].after
    \/ \E p \in Reqs : req[p].target = r /\ pc[p] \in HasWritten /\ rec[r] = req[p].after

LEMMA JInvPointwise == JInv <=> \A r \in Recs : JInvAt(r)
<1> SUFFICES ASSUME NEW r \in Recs
             PROVE  (\/ Stray(r)
                     \/ Afters(r) = {} /\ Writers(r) = {}
                     \/ rec[r] \in Afters(r) \cup {req[p].after : p \in Writers(r)}) <=> JInvAt(r)
  BY DEF JInv
<1>1. Afters(r) = {} <=> \A i \in DOMAIN log : log[i].target # r
  BY DEF Afters
<1>2. Writers(r) = {} <=> \A p \in Reqs : req[p].target = r => pc[p] \notin HasWritten
  BY DEF Writers, HasWritten
<1>3. rec[r] \in Afters(r) <=> \E i \in DOMAIN log : log[i].target = r /\ rec[r] = log[i].after
  BY DEF Afters
<1>4. rec[r] \in {req[p].after : p \in Writers(r)}
        <=> \E p \in Reqs : req[p].target = r /\ pc[p] \in HasWritten /\ rec[r] = req[p].after
  BY DEF Writers, HasWritten
<1>5. QED
  BY <1>1, <1>2, <1>3, <1>4 DEF JInvAt

LEMMA JInvPointwiseNext == (\A r \in Recs : JInvAt(r))' => JInv'
<1>1. JInv <=> \A r \in Recs : JInvAt(r)
  BY JInvPointwise
<1>2. QED
  BY <1>1, PTL

\* A step of a request that has no write to log, and does not write.
LEMMA JInvQuiet ==
    ASSUME TInv, JInv, NEW p \in Reqs, NEW step \in Steps \ HasWritten,
           pc' = [pc EXCEPT ![p] = step], pc[p] \notin HasWritten \cup Final,
           \A o \in Reqs \ {p} : req'[o] = req[o],
           UNCHANGED <<rec, log>>
    PROVE  JInv'
<1>1. pc \in [Reqs -> Steps]
  BY DEF TInv, TypeOK, Steps
<1>2. /\ pc'[p] = step /\ \A o \in Reqs \ {p} : pc'[o] = pc[o] /\ req'[o] = req[o]
      /\ rec' = rec /\ log' = log
  BY <1>1
<1>3. ASSUME NEW r \in Recs PROVE JInvAt(r)'
  <2>1. JInvAt(r)
    BY JInvPointwise
  <2>2. Stray(r) => Stray(r)'
    BY <1>2 DEF Stray, Final
  <2>3. QED
    BY <1>2, <2>1, <2>2 DEF JInvAt
<1>4. QED
  BY <1>3, JInvPointwiseNext

\* A step that writes row r, and goes to log it or is a page action's.
LEMMA JInvWrite ==
    ASSUME TInv, JInv, NEW p \in Reqs, NEW step \in Steps, NEW r \in Recs, NEW row,
           pc' = [pc EXCEPT ![p] = step], pc[p] \notin HasWritten \cup Final,
           \A o \in Reqs \ {p} : req'[o] = req[o],
           req'[p].target = r, req'[p].after = row,
           step \in HasWritten \/ (step = "ok" /\ req'[p].op \in PageOps),
           rec' = [rec EXCEPT ![r] = row], UNCHANGED log
    PROVE  JInv'
<1>1. pc \in [Reqs -> Steps] /\ rec \in [Recs -> Row \cup {Null}]
  BY DEF TInv, TypeOK, Steps
<1>2. /\ pc'[p] = step /\ \A o \in Reqs \ {p} : pc'[o] = pc[o] /\ req'[o] = req[o]
      /\ rec'[r] = row /\ \A x \in Recs \ {r} : rec'[x] = rec[x]
      /\ log' = log
  BY <1>1
<1>3. JInvAt(r)'
  BY <1>2 DEF JInvAt, Stray
<1>4. ASSUME NEW x \in Recs \ {r} PROVE JInvAt(x)'
  <2>1. JInvAt(x)
    BY JInvPointwise
  <2>2. Stray(x) => Stray(x)'
    BY <1>2 DEF Stray, Final
  <2>3. QED
    BY <1>2, <2>1, <2>2 DEF JInvAt
<1>5. QED
  BY <1>3, <1>4, JInvPointwiseNext

\* A step that logs the row its request wrote.
LEMMA JInvLog ==
    ASSUME TInv, JInv, NEW p \in Reqs, NEW step \in Steps \ HasWritten, NEW e \in Entry,
           pc' = [pc EXCEPT ![p] = step], pc[p] \in HasWritten,
           \A o \in Reqs \ {p} : req'[o] = req[o],
           req'[p].target = req[p].target,
           e.target = req[p].target, e.after = req[p].after,
           log' = Append(log, e), UNCHANGED rec
    PROVE  JInv'
<1>1. pc \in [Reqs -> Steps] /\ log \in Seq(Entry)
  BY DEF TInv, TypeOK, Steps
<1>2. /\ pc'[p] = step /\ \A o \in Reqs \ {p} : pc'[o] = pc[o] /\ req'[o] = req[o]
      /\ rec' = rec
  BY <1>1
<1>3. /\ DOMAIN log' = DOMAIN log \cup {Len(log) + 1} /\ log'[Len(log) + 1] = e
      /\ \A i \in DOMAIN log : log'[i] = log[i]
  BY <1>1, AppendEntry
<1>4. ASSUME NEW r \in Recs PROVE JInvAt(r)'
  <2>1. JInvAt(r)
    BY JInvPointwise
  <2>2. Stray(r) => Stray(r)'
    BY <1>2 DEF Stray, HasWritten
  <2>3. CASE \E i \in DOMAIN log : log[i].target = r /\ rec[r] = log[i].after
    BY <1>2, <1>3, <2>3 DEF JInvAt
  <2>4. CASE \E o \in Reqs : req[o].target = r /\ pc[o] \in HasWritten /\ rec[r] = req[o].after
    BY <1>2, <1>3, <2>4 DEF JInvAt
  <2>5. CASE /\ \A i \in DOMAIN log : log[i].target # r
             /\ \A o \in Reqs : req[o].target = r => pc[o] \notin HasWritten
    <3>1. req[p].target # r
      BY <2>5
    <3>2. \A i \in DOMAIN log' : log'[i].target # r
      BY <1>3, <2>5, <3>1
    <3>3. \A o \in Reqs : req'[o].target = r => pc'[o] \notin HasWritten
      BY <1>2, <2>5, <3>1
    <3>4. QED
      BY <3>2, <3>3 DEF JInvAt
  <2>6. QED
    BY <2>1, <2>2, <2>3, <2>4, <2>5 DEF JInvAt
<1>5. QED
  BY <1>4, JInvPointwiseNext
LEMMA JInvInit == Init => JInv
BY DEF Init, JInv, Afters, Writers

LEMMA JInvNext == TInv /\ JInv /\ [Next]_vars => JInv'
<1> SUFFICES ASSUME TInv, JInv, [Next]_vars PROVE JInv'
  OBVIOUS
<1> USE DEF HasWritten, Final
<1>1. CASE UNCHANGED vars
  <2>1. UNCHANGED <<rec, log, pc, req>>
    BY <1>1 DEF vars
  <2>2. QED
    BY <2>1 DEF JInv, Stray, Afters, Writers
<1>2. /\ pc \in [Reqs -> Steps] /\ req \in [Reqs -> Request] /\ log \in Seq(Entry)
      /\ rec \in [Recs -> Row \cup {Null}]
  BY DEF TInv, TypeOK, Steps
<1>3. ASSUME NEW p \in Reqs, NEW step \in Steps \ HasWritten, NEW q, Arrive(p, step, q)
      PROVE  JInv'
  <2>1. /\ pc' = [pc EXCEPT ![p] = step] /\ req' = [req EXCEPT ![p] = q] /\ pc[p] = "idle"
        /\ UNCHANGED <<rec, log>>
    BY <1>3 DEF Arrive
  <2>2. QED
    BY <1>2, <2>1, JInvQuiet
<1>4. ASSUME NEW p \in Reqs, Start(p) PROVE JInv'
  BY <1>3, <1>4 DEF Start, StartCreate, StartNewProject, StartChange, StartTag, StartPage,
                    StartUndo, Steps, Awaits
<1>5. ASSUME NEW p \in Reqs, Own(p) \/ LookupTag(p) \/ Check(p) \/ Fetch(p) PROVE JInv'
  <2>1. PICK step \in Steps \ HasWritten : pc' = [pc EXCEPT ![p] = step]
    BY <1>5 DEF Own, LookupTag, Check, Fetch, Goto, Steps, Awaits, Replies
  <2>2. pc[p] \notin HasWritten \cup Final
    BY <1>5 DEF Own, LookupTag, Check, Fetch, At
  <2>3. UNCHANGED <<rec, log>> /\ \A o \in Reqs \ {p} : req'[o] = req[o]
    BY <1>2, <1>5 DEF Own, LookupTag, Check, Fetch
  <2>4. QED
    BY <2>1, <2>2, <2>3, JInvQuiet
<1>6. ASSUME NEW p \in Reqs, Insert(p) PROVE JInv'
  <2>1. PICK r \in Fresh(p) :
            IF Exists(r)
            THEN Goto(p, "error") /\ UNCHANGED <<rec, req>>
            ELSE /\ Goto(p, AfterWrite(req[p].op))
                 /\ rec' = [rec EXCEPT ![r] = NewRow(req[p].content)]
                 /\ req' = [req EXCEPT ![p].target = r, ![p].before = Null,
                                       ![p].after = NewRow(req[p].content),
                                       ![p].left = @ - 1]
    BY <1>6 DEF Insert
  <2>2. pc[p] = "insert" /\ log' = log
    BY <1>6 DEF Insert, At
  <2>3. CASE Exists(r)
    <3>1. pc' = [pc EXCEPT ![p] = "error"] /\ UNCHANGED <<rec, req>>
      BY <2>1, <2>3 DEF Goto
    <3>2. QED
      BY <2>2, <3>1, JInvQuiet DEF Steps, Replies
  <2>4. CASE ~Exists(r)
    <3> DEFINE row == NewRow(req[p].content)
               step == AfterWrite(req[p].op)
    <3>1. pc' = [pc EXCEPT ![p] = step] /\ rec' = [rec EXCEPT ![r] = row]
      BY <2>1, <2>4 DEF Goto
    <3>2. r \in Recs
      BY <1>2, RowsAssumption DEF Fresh, Request
    <3>3. /\ req'[p].target = r /\ req'[p].after = row /\ req'[p].op = req[p].op
          /\ \A o \in Reqs \ {p} : req'[o] = req[o]
      BY <1>2, <2>1, <2>4 DEF Request
    <3>4. /\ step \in Steps
          /\ step \in HasWritten \/ (step = "ok" /\ req[p].op \in PageOps)
      BY DEF AfterWrite, Steps, Awaits, Replies
    <3> HIDE DEF row, step
    <3>5. QED
      BY <2>2, <3>1, <3>2, <3>3, <3>4, JInvWrite
  <2>5. QED
    BY <2>3, <2>4
<1>7. ASSUME NEW p \in Reqs, Write(p) PROVE JInv'
  <2> DEFINE row == Written(req[p].op, req[p].content, rec[req[p].target])
             step == AfterWrite(req[p].op)
  <2>1. /\ pc[p] = "write" /\ pc' = [pc EXCEPT ![p] = step]
        /\ rec' = [rec EXCEPT ![req[p].target] = row] /\ req' = [req EXCEPT ![p].after = row]
        /\ log' = log
    BY <1>7 DEF Write, At, Goto
  <2>2. req[p].target \in Recs
    BY <1>2 DEF Request
  <2>3. /\ step \in Steps
        /\ step \in HasWritten \/ (step = "ok" /\ req[p].op \in PageOps)
    BY DEF AfterWrite, Steps, Awaits, Replies
  <2> HIDE DEF row, step
  <2>4. /\ req'[p].target = req[p].target /\ req'[p].after = row /\ req'[p].op = req[p].op
        /\ \A o \in Reqs \ {p} : req'[o] = req[o]
    BY <1>2, <2>1 DEF Request
  <2>5. QED
    BY <2>1, <2>2, <2>3, <2>4, JInvWrite
<1>8. ASSUME NEW p \in Reqs, Undo(p) PROVE JInv'
  <2> DEFINE row == Restored(log[req[p].cur], rec[req[p].target])
  <2>1. /\ pc[p] = "undo" /\ pc' = [pc EXCEPT ![p] = "mark"]
        /\ rec' = [rec EXCEPT ![req[p].target] = row] /\ req' = [req EXCEPT ![p].after = row]
        /\ log' = log
    BY <1>8 DEF Undo, At, Goto
  <2>2. req[p].target \in Recs
    BY <1>2 DEF Request
  <2> HIDE DEF row
  <2>3. /\ req'[p].target = req[p].target /\ req'[p].after = row
        /\ \A o \in Reqs \ {p} : req'[o] = req[o]
    BY <1>2, <2>1 DEF Request
  <2>4. QED
    BY <2>1, <2>2, <2>3, JInvWrite DEF Steps, Awaits

\* Between the write and the insert of its entry a rollback marks; that keeps JInv
\* as it is: the request still has its row to log.
<1>9. ASSUME NEW p \in Reqs, Mark(p) PROVE JInv'
  <2>1. /\ pc[p] = "mark" /\ pc'[p] = "logback" /\ \A o \in Reqs \ {p} : pc'[o] = pc[o]
        /\ UNCHANGED <<rec, log>>
    BY <1>2, <1>9 DEF Mark, At, Goto
  <2>2. /\ req'[p].target = req[p].target /\ req'[p].after = req[p].after
        /\ \A o \in Reqs \ {p} : req'[o] = req[o]
    BY <1>2, <1>9 DEF Mark, Request
  <2>3. ASSUME NEW r \in Recs PROVE JInvAt(r)'
    <3>1. JInvAt(r)
      BY JInvPointwise
    <3>2. Stray(r) => Stray(r)'
      BY <2>1, <2>2 DEF Stray
    <3>3. QED
      BY <2>1, <2>2, <3>1, <3>2 DEF JInvAt
  <2>4. QED
    BY <2>3, JInvPointwiseNext
<1>10. ASSUME NEW p \in Reqs, Log(p) PROVE JInv'
  <2>1. PICK at \in Stamps : log' = Append(log, MutationEntry(req[p], at))
    BY <1>10 DEF Log
  <2> DEFINE e == MutationEntry(req[p], at)
  <2>2. e \in Entry /\ e.target = req[p].target /\ e.after = req[p].after
    BY <1>2, StampsType, EntryType DEF MutationEntry
  <2>3. PICK step \in {"insert", "ok"} : pc' = [pc EXCEPT ![p] = step]
    BY <1>10 DEF Log, Goto
  <2>4. pc[p] = "log" /\ rec' = rec /\ req' = [req EXCEPT ![p].cur = Len(log) + 1]
    BY <1>10 DEF Log, At
  <2>5. req'[p].target = req[p].target /\ \A o \in Reqs \ {p} : req'[o] = req[o]
    BY <1>2, <2>4 DEF Request
  <2> HIDE DEF e
  <2>6. QED
    BY <2>1, <2>2, <2>3, <2>4, <2>5, JInvLog DEF e, Steps, Awaits, Replies
<1>11. ASSUME NEW p \in Reqs, LogBack(p) PROVE JInv'
  <2>1. PICK at \in Stamps : log' = Append(log, RollbackEntry(req[p], at))
    BY <1>11 DEF LogBack
  <2> DEFINE e == RollbackEntry(req[p], at)
  <2>2. e \in Entry /\ e.target = req[p].target /\ e.after = req[p].after
    BY <1>2, StampsType, EntryType DEF RollbackEntry
  <2>3. PICK step \in {"check", "ok"} : pc' = [pc EXCEPT ![p] = step]
    BY <1>11 DEF LogBack, Goto
  <2>4. pc[p] = "logback" /\ UNCHANGED <<rec, req>>
    BY <1>11 DEF LogBack, At
  <2> HIDE DEF e
  <2>5. QED
    BY <2>1, <2>2, <2>3, <2>4, JInvLog DEF e, Steps, Awaits, Replies
<1>12. ASSUME NEW p \in Reqs, Crash(p) PROVE JInv'
  <2>1. /\ pc'[p] = "lost" /\ \A o \in Reqs \ {p} : pc'[o] = pc[o]
        /\ pc[p] \in Awaits /\ UNCHANGED <<rec, log, req>>
    BY <1>2, <1>12 DEF Crash, Goto
  <2>2. ASSUME NEW r \in Recs PROVE JInvAt(r)'
    <3>1. JInvAt(r)
      BY JInvPointwise
    <3>2. Stray(r) => Stray(r)'
      BY <2>1 DEF Stray
    <3>3. CASE req[p].target = r
      BY <2>1, <3>3 DEF JInvAt, Stray
    <3>4. CASE req[p].target # r
      BY <2>1, <3>1, <3>2, <3>4 DEF JInvAt
    <3>5. QED
      BY <3>3, <3>4
  <2>3. QED
    BY <2>2, JInvPointwiseNext
<1>13. QED
  BY <1>1, <1>4, <1>5, <1>6, <1>7, <1>8, <1>9, <1>10, <1>11, <1>12 DEF Next, Serve

\* Once its writers have logged what they wrote, a row is one the journal holds,
\* for any number of concurrent updates, deletes, revivals and rollbacks.
THEOREM JournalExplains == Spec => []JournalExplainsRows
<1>1. Init => TInv /\ JInv
  BY TInvInit, JInvInit
<1>2. TInv /\ JInv /\ [Next]_vars => TInv' /\ JInv'
  BY TInvNext, JInvNext
<1>3. JInv => JournalExplainsRows
  <2> SUFFICES ASSUME JInv, NEW r \in Recs, ~Unlogged(r)
               PROVE  Afters(r) = {} \/ rec[r] \in Afters(r)
    BY DEF JournalExplainsRows
  <2>1. ~Stray(r) /\ Writers(r) = {}
    BY DEF Stray, Writers, Unlogged
  <2>2. QED
    BY <2>1 DEF JInv
<1>4. QED
  BY <1>1, <1>2, <1>3, PTL DEF Spec
(***************************************************************************)
(* A transaction is undone newest entry first, and whole.                  *)
(***************************************************************************)

\* A command that has answered ok takes no further step.
LEMMA KnownTxGrows ==
    ASSUME NEW p \in Reqs, pc[p] # "ok",
           \A o \in Reqs \ {p} : pc'[o] = pc[o] /\ req'[o] = req[o]
    PROVE  KnownTx \subseteq KnownTx'
BY DEF KnownTx

\* A step of p that appends only p's own entries, or untagged ones.
LEMMA XInvFrame ==
    ASSUME TInv, XInv, NEW p \in Reqs, pc[p] # "ok", pc'[p] # "idle",
           \A o \in Reqs \ {p} : pc'[o] = pc[o] /\ req'[o] = req[o],
           rolledBack \subseteq rolledBack', DOMAIN log \subseteq DOMAIN log',
           \A i \in DOMAIN log : log'[i] = log[i],
           \A i \in DOMAIN log' \ DOMAIN log :
               /\ log'[i].action = "ROLLBACK" => log'[i].tx = Null
               /\ log'[i].tx \in {p, Null}
               /\ log'[i].tx = p => req'[p].op \notin Undos,
           pc[p] # "idle" => req'[p].op = req[p].op,
           CommandWellFormed(p)'
    PROVE  XInv'
<1>1. \A o \in Reqs : req[o].todo \subseteq DOMAIN log
  BY DEF TInv, TypeOK
<1>2. \A i \in DOMAIN log : log[i].tx \in Reqs \cup {Null}
  BY LogDomain DEF TInv, TypeOK, Entry
<1>3. EntriesOfCommands'
  <2> SUFFICES ASSUME NEW i \in DOMAIN log'
               PROVE  /\ log'[i].action = "ROLLBACK" => log'[i].tx = Null
                      /\ log'[i].tx # Null => /\ pc'[log'[i].tx] # "idle"
                                              /\ req'[log'[i].tx].op \notin Undos
    BY DEF EntriesOfCommands
  <2>1. CASE i \in DOMAIN log
    BY <1>2, <2>1 DEF XInv, EntriesOfCommands
  <2>2. CASE i \notin DOMAIN log
    BY <2>2
  <2>3. QED
    BY <2>1, <2>2
<1>4. ASSUME NEW o \in Reqs \ {p} PROVE CommandWellFormed(o)'
  <2>1. CommandWellFormed(o) /\ pc'[o] = pc[o] /\ req'[o] = req[o]
    BY DEF XInv
  <2>2. (pc[o] \in Holding => req[o].cur \in Newest(req[o].todo))'
    <3>1. req[o].todo \subseteq DOMAIN log
      BY <1>1
    <3>2. QED
      BY <2>1, <3>1 DEF CommandWellFormed, Newest
  <2>3. ASSUME req[o].op = "undoTransaction"
        PROVE  \A j \in DOMAIN log' :
                   log'[j].tx = req[o].tx => j \in rolledBack' \cup req[o].todo
    <3>1. req[o].tx \in KnownTx
      BY <2>1, <2>3 DEF CommandWellFormed
    <3>2. req[o].tx \notin {p, Null}
      BY <3>1, RowsAssumption DEF KnownTx
    <3>3. QED
      BY <2>1, <2>3, <3>2 DEF CommandWellFormed
  <2>4. KnownTx \subseteq KnownTx'
    BY KnownTxGrows
  <2>5. QED
    BY <2>1, <2>2, <2>3, <2>4 DEF CommandWellFormed
<1>5. QED
  BY <1>3, <1>4 DEF XInv

\* A step of p that leaves the log, its marks and what p waits for alone.
LEMMA XInvQuiet ==
    ASSUME TInv, XInv, NEW p \in Reqs, NEW step,
           pc[p] \notin {"ok", "idle"}, step # "idle",
           pc' = [pc EXCEPT ![p] = step],
           \A o \in Reqs \ {p} : req'[o] = req[o],
           UNCHANGED <<log, rolledBack>>,
           req'[p].op = req[p].op, req'[p].tx = req[p].tx, req'[p].todo = req[p].todo,
           step \in Mutating \cup {"ok"} => pc[p] \in Mutating,
           step \in Holding => req'[p].cur \in Newest(req[p].todo)
    PROVE  XInv'
<1>1. pc'[p] = step /\ \A o \in Reqs \ {p} : pc'[o] = pc[o] /\ req'[o] = req[o]
  BY DEF TInv, TypeOK
<1>2. KnownTx \subseteq KnownTx'
  BY <1>1, KnownTxGrows
<1>3. CommandWellFormed(p)
  BY DEF XInv
<1>4. (pc[p] \in Holding => req[p].cur \in Newest(req[p].todo))'
  BY <1>1 DEF Newest
<1>5. pc'[p] = "ok" => req'[p].op # "undoTransaction"
  BY <1>1, <1>3 DEF CommandWellFormed, Undos, Mutating
<1>6. CommandWellFormed(p)'
  BY <1>1, <1>2, <1>3, <1>4, <1>5 DEF CommandWellFormed
<1>7. QED
  BY <1>1, <1>6, XInvFrame

\* A request arrives with a mutation to make, or with all of a transaction to undo.
LEMMA XInvArrive ==
    ASSUME TInv, XInv, NEW p \in Reqs, NEW step, NEW q, Arrive(p, step, q),
           step \in (Mutating \cup {"check"}) \ {"log"},
           step \in Mutating => q.op \notin Undos /\ q.tx \in {p, Null},
           q.op = "undoTransaction" =>
               /\ q.tx \in KnownTx
               /\ \A j \in DOMAIN log : log[j].tx = q.tx => j \in rolledBack \cup q.todo
    PROVE  XInv'
<1>1. /\ pc[p] = "idle" /\ pc'[p] = step /\ req'[p] = q /\ UNCHANGED <<log, rolledBack>>
      /\ \A o \in Reqs \ {p} : pc'[o] = pc[o] /\ req'[o] = req[o]
  BY DEF Arrive, TInv, TypeOK
<1>2. KnownTx \subseteq KnownTx'
  BY <1>1, KnownTxGrows
<1>3. step \notin Holding \cup {"ok", "idle"}
  BY DEF Mutating, Holding
<1>4. CommandWellFormed(p)'
  BY <1>1, <1>2, <1>3 DEF CommandWellFormed
<1>5. QED
  BY <1>1, <1>3, <1>4, XInvFrame

LEMMA XInvStart == ASSUME TInv, XInv, NEW p \in Reqs, Start(p) PROVE XInv'
<1>1. Blank \in Request
  BY BlankType
<1>2. CASE StartCreate(p) \/ StartNewProject(p)
  <2>1. PICK c \in Contents, n \in {1, 2}, tx \in {p, Null} :
            Arrive(p, "insert", [Blank EXCEPT !.op = "create", !.content = c, !.left = n, !.tx = tx])
    BY <1>2 DEF StartCreate, StartNewProject
  <2> DEFINE q == [Blank EXCEPT !.op = "create", !.content = c, !.left = n, !.tx = tx]
  <2>2. q.op = "create" /\ q.tx \in {p, Null} /\ Arrive(p, "insert", q)
    BY <1>1, <2>1 DEF Request
  <2> HIDE DEF q
  <2>3. QED
    BY <2>2, XInvArrive DEF Mutating, Undos
<1>3. CASE StartChange(p)
  <2>1. PICK r \in Recs, op \in {"update", "delete"}, c \in Contents \cup {Blank.content} :
            Arrive(p, "own", [Blank EXCEPT !.op = op, !.target = r,
                                           !.content = c, !.before = rec[r]])
    BY <1>3 DEF StartChange
  <2> DEFINE q == [Blank EXCEPT !.op = op, !.target = r, !.content = c, !.before = rec[r]]
  <2>2. q.op = op /\ q.tx = Null /\ Arrive(p, "own", q)
    BY <1>1, <2>1 DEF Request, Blank
  <2> HIDE DEF q
  <2>3. QED
    BY <2>2, XInvArrive DEF Mutating, Undos
<1>4. CASE StartTag(p)
  <2>1. PICK r \in Tags : Arrive(p, "lookup", [Blank EXCEPT !.op = "tag", !.target = r])
    BY <1>4 DEF StartTag
  <2> DEFINE q == [Blank EXCEPT !.op = "tag", !.target = r]
  <2>2. q.op = "tag" /\ q.tx = Null /\ Arrive(p, "lookup", q)
    BY <1>1, <2>1 DEF Request, Blank
  <2> HIDE DEF q
  <2>3. QED
    BY <2>2, XInvArrive DEF Mutating, Undos
<1>5. CASE StartPage(p)
  <2>1. PICK op \in PageOps, step \in {"insert", "write"}, r \in Recs, c \in Contents, n \in {0, 1} :
            Arrive(p, step, [Blank EXCEPT !.op = op, !.target = r, !.content = c, !.left = n])
    BY <1>5, PageSubmits
  <2> DEFINE q == [Blank EXCEPT !.op = op, !.target = r, !.content = c, !.left = n]
  <2>2. q.op = op /\ q.tx = Null /\ Arrive(p, step, q)
    BY <1>1, <2>1 DEF Request, Blank
  <2> HIDE DEF q
  <2>3. QED
    BY <2>1, <2>2, XInvArrive DEF Mutating, Undos, PageOps
<1>6. CASE StartUndo(p)
  <2>1. PICK f \in Forces, op \in Undos, tx \in Reqs \cup {Null}, S \in SUBSET Undoable :
            /\ Arrive(p, "check", [Blank EXCEPT !.op = op, !.force = f, !.tx = tx, !.todo = S])
            /\ op = "undoTransaction" =>
                   tx \in KnownTx /\ S = {i \in Undoable : log[i].tx = tx}
    <3> DEFINE Ask(f, op, tx, S) ==
            Arrive(p, "check", [Blank EXCEPT !.op = op, !.force = f, !.tx = tx, !.todo = S])
    <3>1. PICK f \in Forces :
              \/ \E i \in Undoable : Ask(f, "undoCommand", Null, {i})
              \/ \E x \in KnownTx : Ask(f, "undoTransaction", x, {i \in Undoable : log[i].tx = x})
              \/ \E i \in Newest(Undoable) : Ask(f, "undoLast", Null, {i})
      BY <1>6 DEF StartUndo
    <3> HIDE DEF Ask
    <3>2. \E op \in Undos, tx \in Reqs \cup {Null}, S \in SUBSET Undoable :
              /\ Ask(f, op, tx, S)
              /\ op = "undoTransaction" =>
                     tx \in KnownTx /\ S = {i \in Undoable : log[i].tx = tx}
      <4>1. CASE \E i \in Undoable : Ask(f, "undoCommand", Null, {i})
        <5>1. PICK i \in Undoable : Ask(f, "undoCommand", Null, {i})
          BY <4>1
        <5>2. {i} \in SUBSET Undoable /\ "undoCommand" \in Undos
          BY DEF Undos
        <5>3. QED
          BY <5>1, <5>2
      <4>2. CASE \E x \in KnownTx : Ask(f, "undoTransaction", x, {i \in Undoable : log[i].tx = x})
        <5>1. KnownTx \subseteq Reqs /\ "undoTransaction" \in Undos
          BY DEF KnownTx, Undos
        <5>2. QED
          BY <4>2, <5>1
      <4>3. CASE \E i \in Newest(Undoable) : Ask(f, "undoLast", Null, {i})
        <5>1. PICK i \in Newest(Undoable) : Ask(f, "undoLast", Null, {i})
          BY <4>3
        <5>2. {i} \in SUBSET Undoable /\ "undoLast" \in Undos
          BY DEF Newest, Undos
        <5>3. QED
          BY <5>1, <5>2
      <4>4. QED
        BY <3>1, <4>1, <4>2, <4>3
    <3>3. QED
      BY <3>2 DEF Ask
  <2> DEFINE q == [Blank EXCEPT !.op = op, !.force = f, !.tx = tx, !.todo = S]
  <2>2. q.op = op /\ q.tx = tx /\ q.todo = S /\ Arrive(p, "check", q)
    BY <1>1, <2>1 DEF Request
  <2> HIDE DEF q
  <2>3. ASSUME op = "undoTransaction"
        PROVE  \A j \in DOMAIN log : log[j].tx = tx => j \in rolledBack \cup S
    <3>1. tx # Null
      BY <2>1, <2>3, RowsAssumption DEF KnownTx
    <3>2. QED
      BY <2>1, <2>3, <3>1 DEF XInv, EntriesOfCommands, Undoable
  <2>4. QED
    BY <2>1, <2>2, <2>3, XInvArrive DEF Mutating
<1>7. QED
  BY <1>2, <1>3, <1>4, <1>5, <1>6 DEF Start

LEMMA XInvInit == Init => XInv
<1>1. Blank.op = "create"
  BY DEF Blank
<1>2. QED
  BY <1>1 DEF Init, XInv, EntriesOfCommands, CommandWellFormed, Mutating, Holding

LEMMA XInvNext == TInv /\ XInv /\ [Next]_vars => XInv'
<1> SUFFICES ASSUME TInv, XInv, [Next]_vars PROVE XInv'
  OBVIOUS
<1> USE DEF Mutating, Holding
<1>1. CASE UNCHANGED vars
  BY <1>1 DEF vars, XInv, EntriesOfCommands, CommandWellFormed, KnownTx, Newest
<1>2. /\ pc \in [Reqs -> Steps] /\ req \in [Reqs -> Request] /\ log \in Seq(Entry)
      /\ \A i \in DOMAIN log : log[i] \in Entry
  BY LogDomain DEF TInv, TypeOK, Steps
<1>3. ASSUME NEW p \in Reqs, Own(p) \/ LookupTag(p) \/ Insert(p) \/ Write(p) PROVE XInv'
  <2>1. PICK step : pc' = [pc EXCEPT ![p] = step]
                    /\ step \in {"insert", "write", "log", "ok", "error", "notfound"}
    BY <1>3 DEF Own, LookupTag, Insert, Write, Goto, AfterWrite
  <2>2. pc[p] \in Mutating
    BY <1>3 DEF Own, LookupTag, Insert, Write, At
  <2>3. UNCHANGED <<log, rolledBack>> /\ \A o \in Reqs \ {p} : req'[o] = req[o]
    BY <1>2, <1>3 DEF Own, LookupTag, Insert, Write
  <2>4. req'[p].op = req[p].op /\ req'[p].tx = req[p].tx /\ req'[p].todo = req[p].todo
    <3>1. req[p] \in Request
      BY <1>2
    <3>2. CASE Own(p)
      BY <3>2 DEF Own
    <3>3. CASE LookupTag(p)
      BY <1>2, <3>1, <3>3 DEF LookupTag, Request
    <3>4. CASE Insert(p)
      BY <1>2, <3>1, <3>4 DEF Insert, Request
    <3>5. CASE Write(p)
      BY <1>2, <3>1, <3>5 DEF Write, Request
    <3>6. QED
      BY <1>3, <3>2, <3>3, <3>4, <3>5
  <2>5. pc[p] \notin {"ok", "idle"} /\ step # "idle" /\ step \notin Holding
    BY <2>1, <2>2
  <2>6. QED
    BY <2>1, <2>2, <2>3, <2>4, <2>5, XInvQuiet
<1>4. ASSUME NEW p \in Reqs, Check(p) PROVE XInv'
  <2>1. PICK i \in Newest(req[p].todo) :
            req' = [req EXCEPT ![p].cur = i, ![p].target = log[i].target]
    BY <1>4 DEF Check
  <2>2. PICK step \in {"conflict", "fetch"} : pc' = [pc EXCEPT ![p] = step]
    BY <1>4 DEF Check, Goto
  <2>3. pc[p] = "check" /\ UNCHANGED <<log, rolledBack>>
    BY <1>4 DEF Check, At
  <2>4. /\ req'[p].op = req[p].op /\ req'[p].tx = req[p].tx /\ req'[p].todo = req[p].todo
        /\ req'[p].cur = i /\ \A o \in Reqs \ {p} : req'[o] = req[o]
    BY <1>2, <2>1 DEF Request
  <2>5. QED
    BY <2>1, <2>2, <2>3, <2>4, XInvQuiet
<1>5. ASSUME NEW p \in Reqs, Fetch(p) \/ Undo(p) PROVE XInv'
  <2>1. PICK step \in {"undo", "mark"} : pc' = [pc EXCEPT ![p] = step]
    BY <1>5 DEF Fetch, Undo, Goto
  <2>2. pc[p] \in Holding /\ UNCHANGED <<log, rolledBack>>
    BY <1>5 DEF Fetch, Undo, At
  <2>3. /\ req'[p].op = req[p].op /\ req'[p].tx = req[p].tx /\ req'[p].todo = req[p].todo
        /\ req'[p].cur = req[p].cur /\ \A o \in Reqs \ {p} : req'[o] = req[o]
    BY <1>2, <1>5 DEF Fetch, Undo, Request
  <2>4. req[p].cur \in Newest(req[p].todo)
    BY <2>2 DEF XInv, CommandWellFormed
  <2>5. QED
    BY <2>1, <2>2, <2>3, <2>4, XInvQuiet
<1>6. ASSUME NEW p \in Reqs, Crash(p) PROVE XInv'
  <2>1. pc[p] \in Awaits /\ pc' = [pc EXCEPT ![p] = "lost"] /\ UNCHANGED <<log, rolledBack, req>>
    BY <1>6 DEF Crash, Goto
  <2>2. QED
    BY <2>1, XInvQuiet DEF Awaits
<1>7. ASSUME NEW p \in Reqs, Log(p) PROVE XInv'
  <2>1. PICK at \in Stamps : log' = Append(log, MutationEntry(req[p], at))
    BY <1>7 DEF Log
  <2> DEFINE e == MutationEntry(req[p], at)
  <2>2. e \in Entry /\ e.tx = req[p].tx /\ e.action # "ROLLBACK"
    BY <1>2, StampsType, EntryType DEF MutationEntry, ActionOf
  <2>3. PICK step \in {"insert", "ok"} : pc'[p] = step /\ \A o \in Reqs \ {p} : pc'[o] = pc[o]
    BY <1>2, <1>7 DEF Log, Goto
  <2>4. /\ req'[p].op = req[p].op /\ req'[p].tx = req[p].tx
        /\ \A o \in Reqs \ {p} : req'[o] = req[o]
    BY <1>2, <1>7 DEF Log, Request
  <2>5. pc[p] = "log" /\ rolledBack' = rolledBack
    BY <1>7 DEF Log, At
  <2>6. req[p].op \notin Undos /\ req[p].tx \in {p, Null}
    BY <2>5 DEF XInv, CommandWellFormed
  <2> HIDE DEF e
  <2>7. /\ DOMAIN log' = DOMAIN log \cup {Len(log) + 1} /\ log'[Len(log) + 1] = e
        /\ \A i \in DOMAIN log : log'[i] = log[i]
    BY <1>2, <2>1, <2>2, AppendEntry DEF e
  <2>8. CommandWellFormed(p)'
    BY <2>3, <2>4, <2>6 DEF CommandWellFormed, Undos
  <2>9. QED
    BY <2>2, <2>3, <2>4, <2>5, <2>6, <2>7, <2>8, XInvFrame
<1>8. ASSUME NEW p \in Reqs, Mark(p) PROVE XInv'
  <2>1. /\ pc[p] = "mark" /\ pc'[p] = "logback" /\ \A o \in Reqs \ {p} : pc'[o] = pc[o]
        /\ rolledBack' = rolledBack \cup {req[p].cur} /\ log' = log
    BY <1>2, <1>8 DEF Mark, At, Goto
  <2>2. /\ req'[p].op = req[p].op /\ req'[p].tx = req[p].tx
        /\ req'[p].todo = req[p].todo \ {req[p].cur}
        /\ \A o \in Reqs \ {p} : req'[o] = req[o]
    BY <1>2, <1>8 DEF Mark, Request
  <2>3. KnownTx \subseteq KnownTx'
    BY <2>1, <2>2, KnownTxGrows
  <2>4. CommandWellFormed(p)'
    BY <2>1, <2>2, <2>3 DEF XInv, CommandWellFormed
  <2>5. QED
    BY <2>1, <2>2, <2>4, XInvFrame
<1>9. ASSUME NEW p \in Reqs, LogBack(p) PROVE XInv'
  <2>1. PICK at \in Stamps : log' = Append(log, RollbackEntry(req[p], at))
    BY <1>9 DEF LogBack
  <2> DEFINE e == RollbackEntry(req[p], at)
  <2>2. e \in Entry /\ e.tx = Null
    BY <1>2, StampsType, EntryType DEF RollbackEntry
  <2>3. PICK step \in {"check", "ok"} :
            /\ pc'[p] = step /\ \A o \in Reqs \ {p} : pc'[o] = pc[o]
            /\ step = "ok" => req[p].todo = {}
    BY <1>2, <1>9 DEF LogBack, Goto
  <2>4. pc[p] = "logback" /\ UNCHANGED <<rolledBack, req>>
    BY <1>9 DEF LogBack, At
  <2> HIDE DEF e
  <2>5. /\ DOMAIN log' = DOMAIN log \cup {Len(log) + 1} /\ log'[Len(log) + 1] = e
        /\ \A i \in DOMAIN log : log'[i] = log[i]
    BY <1>2, <2>1, <2>2, AppendEntry DEF e
  <2>6. KnownTx \subseteq KnownTx'
    BY <2>3, <2>4, KnownTxGrows
  <2>7. ASSUME req[p].op = "undoTransaction"
        PROVE  \A j \in DOMAIN log' :
                   log'[j].tx = req[p].tx => j \in rolledBack \cup req[p].todo
    <3>1. req[p].tx # Null
      BY <2>7, RowsAssumption DEF XInv, CommandWellFormed, KnownTx
    <3>2. QED
      BY <2>2, <2>5, <2>7, <3>1 DEF XInv, CommandWellFormed
  <2>8. CommandWellFormed(p)
    BY DEF XInv
  <2>9. CommandWellFormed(p)'
    BY <2>3, <2>4, <2>6, <2>7, <2>8 DEF CommandWellFormed
  <2>10. QED
    BY <2>2, <2>3, <2>4, <2>5, <2>9, RowsAssumption, XInvFrame
<1>10. QED
  BY <1>1, <1>3, <1>4, <1>5, <1>6, <1>7, <1>8, <1>9, XInvStart DEF Next, Serve

LEMMA CommandsWellFormed == Spec => [](TInv /\ XInv)
<1>1. Init => TInv /\ XInv
  BY TInvInit, XInvInit
<1>2. TInv /\ XInv /\ [Next]_vars => TInv' /\ XInv'
  BY TInvNext, XInvNext
<1>3. QED
  BY <1>1, <1>2, PTL DEF Spec

\* Stamps never decrease along the log, however many entries share one.
StampsOrdered == \A i, j \in DOMAIN log : i < j => log[i].at <= log[j].at

\* An entry stamped with what the clock may show keeps the stamps in order.
LEMMA StampsStayOrdered ==
    ASSUME log \in Seq(Entry), StampsOrdered, NEW e \in Entry, e.at \in Stamps, log' = Append(log, e)
    PROVE  StampsOrdered'
<1> DEFINE k == Len(log) + 1
<1>0. DOMAIN log = 1 .. Len(log) /\ \A i \in DOMAIN log : log[i] \in Entry
  BY LogDomain
<1>1. /\ log' \in Seq(Entry) /\ DOMAIN log' = DOMAIN log \cup {k} /\ log'[k] = e /\ k \notin DOMAIN log
      /\ \A i \in DOMAIN log : log'[i] = log[i] /\ i < k
  BY <1>0, AppendEntry
<1>2. ASSUME NEW i \in DOMAIN log PROVE log[i].at <= LastAt
  <2>1. /\ i \in Nat /\ Len(log) \in DOMAIN log /\ i <= Len(log) /\ log # <<>>
        /\ log[i].at \in Nat /\ log[Len(log)].at \in Nat
    <3>1. Len(log) \in DOMAIN log /\ i \in Nat /\ i <= Len(log) /\ log # <<>>
      BY <1>0
    <3>2. QED
      BY <1>0, <3>1 DEF Entry
  <2>2. i = Len(log) \/ i < Len(log)
    BY <2>1
  <2>3. QED
    BY <1>2, <2>1, <2>2 DEF StampsOrdered, LastAt
<1>3. LastAt \in Nat
  BY <1>0 DEF LastAt, Entry
<1>4. e.at \in Nat /\ LastAt <= e.at
  BY <1>3 DEF Stamps, Entry
<1> HIDE DEF k
<1>5. ASSUME NEW i \in DOMAIN log', NEW j \in DOMAIN log', i < j
      PROVE  log'[i].at <= log'[j].at
  <2>1. i # k /\ i \in DOMAIN log
    BY <1>0, <1>1, <1>5
  <2>2. CASE j \in DOMAIN log
    BY <1>1, <1>5, <2>1, <2>2 DEF StampsOrdered
  <2>3. CASE j = k
    <3>1. log[i].at \in Nat /\ log[i].at <= LastAt /\ log'[i] = log[i] /\ log'[j].at = e.at
      BY <1>0, <1>1, <1>2, <2>1, <2>3 DEF Entry
    <3>2. QED
      BY <1>3, <1>4, <3>1
  <2>4. QED
    BY <1>1, <2>2, <2>3
<1>6. QED
  BY <1>5 DEF StampsOrdered

\* Only Log and LogBack write the log, each one entry with the clock's stamp.
LEMMA StampsOrderedNext == TInv /\ StampsOrdered /\ [Next]_vars => StampsOrdered'
<1> SUFFICES ASSUME TInv, StampsOrdered, [Next]_vars PROVE StampsOrdered'
  OBVIOUS
<1>0. log \in Seq(Entry) /\ TypeOK
  BY DEF TInv, TypeOK
<1>1. CASE UNCHANGED log
  BY <1>1 DEF StampsOrdered
<1>2. ASSUME NEW p \in Reqs, Log(p) PROVE StampsOrdered'
  <2>1. PICK at \in Stamps : log' = Append(log, MutationEntry(req[p], at))
    BY <1>2 DEF Log
  <2>2. at \in Nat \ {0} /\ req[p] \in Request
    BY <1>0, StampsType DEF TypeOK
  <2>3. MutationEntry(req[p], at) \in Entry /\ MutationEntry(req[p], at).at = at
    BY <2>2, EntryType DEF MutationEntry
  <2>4. QED
    BY <1>0, <2>1, <2>3, StampsStayOrdered
<1>3. ASSUME NEW p \in Reqs, LogBack(p) PROVE StampsOrdered'
  <2>1. PICK at \in Stamps : log' = Append(log, RollbackEntry(req[p], at))
    BY <1>3 DEF LogBack
  <2>2. at \in Nat \ {0} /\ req[p] \in Request
    BY <1>0, StampsType DEF TypeOK
  <2>3. RollbackEntry(req[p], at) \in Entry /\ RollbackEntry(req[p], at).at = at
    BY <2>2, EntryType DEF RollbackEntry
  <2>4. QED
    BY <1>0, <2>1, <2>3, StampsStayOrdered
<1>4. ASSUME NEW p \in Reqs, Start(p) PROVE UNCHANGED log
  BY <1>4 DEF Start, StartCreate, StartNewProject, StartChange, StartTag, StartPage, StartUndo, Arrive
<1>5. ASSUME NEW p \in Reqs,
             Own(p) \/ LookupTag(p) \/ Insert(p) \/ Write(p) \/ Check(p) \/ Fetch(p)
             \/ Undo(p) \/ Mark(p) \/ Crash(p)
      PROVE  UNCHANGED log
  BY <1>5 DEF Own, LookupTag, Insert, Write, Check, Fetch, Undo, Mark, Crash
<1>6. CASE UNCHANGED vars
  BY <1>1, <1>6 DEF vars
<1>7. CASE Next
  BY <1>1, <1>2, <1>3, <1>4, <1>5, <1>7 DEF Next, Serve
<1>8. QED
  BY <1>6, <1>7

\* While a rollback by transactionId works on an entry, everything its command
\* logged after it has been rolled back, but for entries of the same stamp.
THEOREM NewestFirst == Spec => []TransactionUndoneNewestFirst
<1>1. Init => TInv /\ XInv /\ StampsOrdered
  BY TInvInit, XInvInit DEF Init, StampsOrdered
<1>2. TInv /\ XInv /\ StampsOrdered /\ [Next]_vars => TInv' /\ XInv' /\ StampsOrdered'
  BY TInvNext, XInvNext, StampsOrderedNext
<1>3. TInv /\ XInv /\ StampsOrdered => TransactionUndoneNewestFirst
  <2> SUFFICES ASSUME TInv, XInv, StampsOrdered, NEW p \in Reqs, UndoingTransaction(p),
                      NEW j \in LaterParts(p)
               PROVE  log[j].at = log[req[p].cur].at \/ j \in rolledBack
    BY DEF TransactionUndoneNewestFirst
  <2>0. /\ req[p].op = "undoTransaction" /\ pc[p] \in Holding
        /\ j \in DOMAIN log /\ log[j].tx = req[p].tx /\ j > req[p].cur
    BY DEF UndoingTransaction, Holding, LaterParts
  <2>1. CommandWellFormed(p) /\ req[p].todo \subseteq DOMAIN log
    BY DEF XInv, TInv, TypeOK
  <2>2. req[p].cur \in DOMAIN log /\ \A i \in req[p].todo : log[i].at <= log[req[p].cur].at
    BY <2>0, <2>1 DEF CommandWellFormed, Newest
  <2>3. log[j].at \in Nat /\ log[req[p].cur].at \in Nat /\ j \in Nat /\ req[p].cur \in Nat
    BY <2>0, <2>2, LogDomain DEF TInv, TypeOK, Entry
  <2>4. log[req[p].cur].at <= log[j].at
    BY <2>0, <2>2, <2>3 DEF StampsOrdered
  <2>5. j \in rolledBack \cup req[p].todo
    BY <2>0, <2>1 DEF CommandWellFormed
  <2>6. QED
    BY <2>2, <2>3, <2>4, <2>5
<1>4. QED
  BY <1>1, <1>2, <1>3, PTL DEF Spec

\* A rollback by transactionId that answers ok leaves no entry of it standing.
THEOREM UndoneWhole == Spec => []TransactionUndoneWhole
<1>1. TInv /\ XInv => TransactionUndoneWhole
  BY DEF XInv, CommandWellFormed, TransactionUndoneWhole
<1>2. QED
  BY <1>1, CommandsWellFormed, PTL

(***************************************************************************)
(* A client who waits: one request at a time, none of which dies, no page  *)
(* forms and no force, and a clock that tells entries apart.  Rows,        *)
(* contents, requests and their number are any.                            *)
(***************************************************************************)
\* What the client, the Worker and the clock are assumed to do.
Serial ==
    /\ MaxInFlight = 1
    /\ ~Crashes /\ ~Ties /\ ~Pages
    /\ Forces \subseteq {FALSE}

(***************************************************************************)
(* The inductive invariant.                                                *)
(***************************************************************************)
Undoing == {"check", "fetch", "undo", "mark", "logback"}

\* Nobody but p is being served.
Others(p) == \A q \in Reqs \ {p} : pc[q] \notin Awaits

Alone == \A p \in Reqs : pc[p] \in Awaits => Others(p)

\* The log is in the order of its stamps.
InOrder == \A i, j \in DOMAIN log : i < j => log[i].at < log[j].at

\* Undoing the change the entry records gives the row before it, or deletes the new one.
Invertible(e) ==
    \/ e.action = "ROLLBACK"
    \/ /\ e.after \in Row
       /\ e.before = Null <=> e.action = "CREATE"
       /\ Restored(e, e.after) =
             IF e.before = Null THEN [e.after EXCEPT !.deleted = TRUE] ELSE e.before

\* What a request alone may rely on between its awaits.
Poised(p) ==
    /\ req[p].op \notin PageOps /\ ~req[p].force
    /\ req[p].op = "delete" => req[p].left = 0
    /\ pc[p] \in {"own", "write"} =>
           /\ rec[req[p].target] = req[p].before
           /\ req[p].op = "delete" => ~req[p].before.deleted
    /\ pc[p] = "log" => /\ rec[req[p].target] = req[p].after
                        /\ Invertible(MutationEntry(req[p], 1))
    /\ pc[p] \in Undoing => req[p].todo \subseteq Undoable
    /\ pc[p] \in Holding => LaterMutation(req[p].cur) = {}

\* A row's standing entries, each made on the row that the one before it left; the
\* last left the row there is, or the one that the request about to log has replaced.
Linked(r) ==
    /\ \A i, j \in Standing(r) :
           i < j /\ (\A k \in Standing(r) : k <= i \/ j <= k) => log[j].before = log[i].after
    /\ \A i \in Standing(r) :
           (\A k \in Standing(r) : k <= i) =>
               /\ Writing(r) = {} => log[i].after = rec[r]
               /\ \A p \in Writing(r) : log[i].after = req[p].before

SInv ==
    /\ Alone
    /\ InOrder
    /\ \A i \in DOMAIN log : Invertible(log[i])
    /\ \A p \in Reqs : Poised(p)
    /\ \A r \in Recs : Linked(r)

(***************************************************************************)
(* Operators, when nobody but p is being served.                           *)
(***************************************************************************)
Chain(r) == {i \in Undoable : log[i].target = r}

\* Who writes r, and what of r stands.
LEMMA OnlyOne ==
    ASSUME NEW p \in Reqs, Others(p), NEW r \in Recs
    PROVE  /\ Writing(r) = IF pc[p] = "log" /\ req[p].target = r THEN {p} ELSE {}
           /\ Standing(r) = Chain(r) \ (IF pc[p] = "mark" THEN {req[p].cur} ELSE {})
BY DEF Others, Writing, Standing, Awaits, Chain

\* The same of the next state.
LEMMA OnlyOneNext ==
    ASSUME NEW p \in Reqs, Others(p)', NEW r \in Recs
    PROVE  /\ Writing(r)' = IF pc'[p] = "log" /\ req'[p].target = r THEN {p} ELSE {}
           /\ Standing(r)' = Chain(r)' \ (IF pc'[p] = "mark" THEN {req'[p].cur} ELSE {})
BY DEF Others, Writing, Standing, Awaits, Chain

\* The past of a row that nobody has written without logging it.
LEMMA PastLogged ==
    ASSUME NEW r
    PROVE  /\ Writing(r) = {} => Past(r) = [i \in Standing(r) |-> log[i].before]
           /\ Writing(r)' = {} => Past(r)' = [i \in Standing(r)' |-> log'[i].before]
BY DEF Past

\* What the step of one request leaves alone.
LEMMA SerialFrame ==
    ASSUME SInv, NEW p \in Reqs, Others(p)',
           \A q \in Reqs \ {p} : pc'[q] = pc[q] /\ req'[q] = req[q],
           InOrder', \A i \in DOMAIN log' : Invertible(log'[i]),
           Poised(p)', \A r \in Recs : Linked(r)'
    PROVE  SInv'
<1>1. Alone'
  BY DEF Alone, Others
<1>2. ASSUME NEW q \in Reqs \ {p} PROVE Poised(q)'
  <2>1. req'[q] = req[q] /\ pc'[q] \notin Awaits /\ Poised(q)
    BY DEF Others, SInv
  <2>2. pc'[q] \notin {"own", "write", "log"} \cup Undoing \cup Holding
    BY <2>1 DEF Awaits, Undoing, Holding
  <2>3. QED
    BY <2>1, <2>2 DEF Poised
<1>3. QED
  BY <1>1, <1>2 DEF SInv

\* A request arrives when none is served, and each step is that of one request.
LEMMA OneStepper ==
    ASSUME Serial, TInv, Alone, NEW p \in Reqs,
           (\E step, q : Arrive(p, step, q)) \/ Serve(p)
    PROVE  /\ Others(p) /\ Others(p)'
           /\ \A q \in Reqs \ {p} : pc'[q] = pc[q] /\ req'[q] = req[q]
<1>1. \A q \in Reqs \ {p} : pc'[q] = pc[q] /\ req'[q] = req[q]
  <2>1. pc \in [Reqs -> Steps] /\ req \in [Reqs -> Request]
    BY DEF TInv, TypeOK, Steps
  <2>2. CASE \E step, q : Arrive(p, step, q)
    BY <2>1, <2>2 DEF Arrive
  <2>3. CASE Serve(p)
    BY <2>1, <2>3 DEF Serve, Own, LookupTag, Insert, Write, Log, Check, Fetch, Undo, Mark, LogBack, Goto
  <2>4. QED
    BY <2>2, <2>3
<1>2. Others(p)
  <2>1. CASE \E step, q : Arrive(p, step, q)
    <3>1. Cardinality(InFlight) < 1
      BY <2>1 DEF Arrive, Serial
    <3>2. ASSUME NEW x \in InFlight PROVE FALSE
      <4>1. InFlight = {x}
        BY DEF InFlight, Alone, Others
      <4>2. Cardinality(InFlight) = 1
        BY <4>1, FS_Singleton
      <4>3. QED
        BY <3>1, <4>2
    <3>3. QED
      BY <3>2 DEF InFlight, Others
  <2>2. CASE Serve(p)
    <3>1. pc[p] \in Awaits
      BY <2>2 DEF Serve, Own, LookupTag, Insert, Write, Log, Check, Fetch, Undo, Mark, LogBack, At, Awaits
    <3>2. QED
      BY <3>1 DEF Alone
  <2>3. QED
    BY <2>1, <2>2
<1>3. QED
  BY <1>1, <1>2 DEF Others

(***************************************************************************)
(* The kinds of steps: what each does to the chains, and to the stacks.    *)
(***************************************************************************)
Pasts == [r \in Recs |-> Past(r)]

\* An entry stamped by a clock that moves on comes after all others.
LEMMA StillInOrder ==
    ASSUME log \in Seq(Entry), InOrder, NEW e \in Entry, e.at = LastAt + 1, log' = Append(log, e)
    PROVE  InOrder'
<1> DEFINE k == Len(log) + 1
<1>0. DOMAIN log = 1 .. Len(log) /\ \A i \in DOMAIN log : log[i] \in Entry
  BY LogDomain
<1>1. /\ log' \in Seq(Entry) /\ DOMAIN log' = DOMAIN log \cup {k} /\ log'[k] = e /\ k \notin DOMAIN log
      /\ \A i \in DOMAIN log : log'[i] = log[i] /\ i < k
  BY <1>0, AppendEntry
<1>2. \A i \in DOMAIN log : log[i].at <= LastAt
  <2>1. CASE log = <<>>
    BY <2>1
  <2>2. ASSUME NEW i \in DOMAIN log, log # <<>> PROVE log[i].at <= log[Len(log)].at
    <3>1. /\ i \in Nat /\ Len(log) \in DOMAIN log /\ i <= Len(log)
          /\ log[i].at \in Nat /\ log[Len(log)].at \in Nat
      <4>1. Len(log) \in DOMAIN log /\ i \in Nat /\ i <= Len(log)
        BY <1>0, <2>2
      <4>2. QED
        BY <1>0, <2>2, <4>1 DEF Entry
    <3>2. CASE i = Len(log)
      BY <3>1, <3>2
    <3>3. CASE i < Len(log)
      BY <3>1, <3>3 DEF InOrder
    <3>4. QED
      BY <1>0, <3>1, <3>2, <3>3
  <2>3. QED
    BY <2>1, <2>2 DEF LastAt
<1>3. LastAt \in Nat
  BY <1>0 DEF LastAt, Entry
<1> HIDE DEF k
<1>4. ASSUME NEW i \in DOMAIN log', NEW j \in DOMAIN log', i < j
      PROVE  log'[i].at < log'[j].at
  <2>1. CASE j \in DOMAIN log
    <3>1. i # k /\ i \in DOMAIN log
      BY <1>0, <1>1, <1>4, <2>1
    <3>2. QED
      BY <1>1, <1>4, <2>1, <3>1 DEF InOrder
  <2>2. CASE j = k
    <3>1. i \in DOMAIN log
      BY <1>0, <1>1, <1>4, <2>2
    <3>2. log[i].at \in Nat /\ log[i].at <= LastAt /\ log'[i] = log[i] /\ log'[j].at = LastAt + 1
      BY <1>0, <1>1, <1>2, <2>2, <3>1 DEF Entry
    <3>3. QED
      BY <1>3, <3>2
  <2>3. QED
    BY <1>1, <2>1, <2>2
<1>5. QED
  BY <1>4 DEF InOrder

\* A step that neither writes, logs nor marks.
LEMMA SerialQuiet ==
    ASSUME SInv, NEW p \in Reqs, Others(p), Others(p)',
           \A q \in Reqs \ {p} : pc'[q] = pc[q] /\ req'[q] = req[q],
           pc[p] \notin {"log", "mark"}, pc'[p] \notin {"log", "mark"},
           UNCHANGED <<rec, log, rolledBack>>, Poised(p)'
    PROVE  SInv' /\ UNCHANGED <<rec, Pasts>>
<1>1. ASSUME NEW r \in Recs
      PROVE  Writing(r)' = {} /\ Writing(r) = {} /\ Standing(r)' = Standing(r)
  <2>1. Chain(r)' = Chain(r)
    BY DEF Chain, Undoable
  <2>2. QED
    BY <2>1, OnlyOne, OnlyOneNext
<1>2. \A r \in Recs : Linked(r)'
  BY <1>1 DEF SInv, Linked
<1>3. \A r \in Recs : Past(r)' = Past(r)
  BY <1>1, PastLogged
<1>4. InOrder' /\ \A i \in DOMAIN log' : Invertible(log'[i])
  BY DEF SInv, InOrder
<1>5. QED
  BY <1>2, <1>3, <1>4, SerialFrame DEF Pasts

\* A step that writes row r and has yet to log it: a change.
LEMMA SerialWrite ==
    ASSUME TInv, SInv, NEW p \in Reqs, Others(p), Others(p)',
           \A q \in Reqs \ {p} : pc'[q] = pc[q] /\ req'[q] = req[q],
           pc[p] \notin {"log", "mark"}, pc'[p] = "log",
           NEW r \in Recs, NEW new \in Row, rec' = [rec EXCEPT ![r] = new],
           UNCHANGED <<log, rolledBack>>,
           req'[p].target = r, req'[p].before = rec[r], Poised(p)'
    PROVE  SInv' /\ Stack!Next
<1>0. log \in Seq(Entry) /\ rec \in [Recs -> Row \cup {Null}] /\ DOMAIN log = 1 .. Len(log)
  BY LogDomain DEF TInv, TypeOK
<1>1. ASSUME NEW x \in Recs
      PROVE  /\ Writing(x) = {} /\ Writing(x)' = IF x = r THEN {p} ELSE {}
             /\ Standing(x)' = Standing(x) /\ Standing(x) \subseteq DOMAIN log
  <2>1. Chain(x)' = Chain(x) /\ Chain(x) \subseteq DOMAIN log
    BY DEF Chain, Undoable
  <2>2. QED
    BY <2>1, OnlyOne, OnlyOneNext
<1>2. ASSUME NEW x \in Recs PROVE Linked(x)'
  <2>1. Linked(x) /\ (x # r => rec'[x] = rec[x])
    BY <1>0 DEF SInv
  <2>2. QED
    BY <1>1, <2>1 DEF Linked
<1>3. InOrder' /\ \A i \in DOMAIN log' : Invertible(log'[i])
  BY DEF SInv, InOrder
<1>4. SInv'
  BY <1>2, <1>3, SerialFrame
<1> DEFINE k == Len(log) + 1
<1>5. \A x \in Recs : Past(x) = [i \in Standing(x) |-> log[i].before]
  BY <1>1, PastLogged
<1>6. \A x \in Recs \ {r} : Past(x)' = Past(x)
  BY <1>1, <1>5, PastLogged
<1>7. Past(r)' = [i \in Standing(r) \cup {k} |-> IF i \in DOMAIN log THEN log[i].before ELSE rec[r]]
  <2>1. Writing(r)' = {p} /\ Standing(r)' = Standing(r)
    BY <1>1
  <2>2. Past(r)' = [i \in Standing(r)' \cup {Len(log') + 1} |->
                       IF i \in DOMAIN log' THEN log'[i].before ELSE req'[p].before]
    BY <2>1 DEF Past
  <2>3. QED
    BY <2>1, <2>2
<1>8. k \notin DOMAIN log /\ \A i \in DOMAIN log : i < k
  BY <1>0
<1> HIDE DEF k
<1>9. Past(r)' = [i \in DOMAIN Past(r) \cup {k} |-> IF i = k THEN rec[r] ELSE Past(r)[i]]
  BY <1>1, <1>5, <1>7, <1>8
<1>10. Pasts' = [Pasts EXCEPT ![r] =
                    [i \in DOMAIN Pasts[r] \cup {k} |-> IF i = k THEN rec[r] ELSE Pasts[r][i]]]
  BY <1>6, <1>9 DEF Pasts
<1>11. \A i \in DOMAIN Pasts[r] : i < k
  BY <1>1, <1>5, <1>8 DEF Pasts
<1>12. k \in DOMAIN Pasts'[r]
  BY <1>9 DEF Pasts
<1>13. Stack!Change(r, k, new)
  BY <1>10, <1>11 DEF Stack!Change, Pasts
<1>14. QED
  BY <1>4, <1>12, <1>13 DEF Stack!Next, Pasts, Stack!Row, Row

\* The entry of a change is inserted: it becomes the last of the row's chain.
LEMMA SerialLog ==
    ASSUME TInv, SInv, NEW p \in Reqs, Others(p), Others(p)',
           \A q \in Reqs \ {p} : pc'[q] = pc[q] /\ req'[q] = req[q],
           pc[p] = "log", pc'[p] \notin {"log", "mark"},
           NEW e \in Entry, e.action # "ROLLBACK", e.target = req[p].target,
           e.before = req[p].before, e.after = req[p].after, Invertible(e),
           e.at = LastAt + 1, log' = Append(log, e),
           UNCHANGED <<rec, rolledBack>>, Poised(p)'
    PROVE  SInv' /\ UNCHANGED <<rec, Pasts>>
<1> DEFINE k == Len(log) + 1
<1>0. /\ log \in Seq(Entry) /\ DOMAIN log = 1 .. Len(log) /\ rolledBack \subseteq DOMAIN log
      /\ \A i \in DOMAIN log : log[i] \in Entry
  BY LogDomain DEF TInv, TypeOK
<1>1. /\ log' \in Seq(Entry) /\ DOMAIN log' = DOMAIN log \cup {k} /\ log'[k] = e /\ k \notin DOMAIN log
      /\ \A i \in DOMAIN log : log'[i] = log[i] /\ i < k
  BY <1>0, AppendEntry
<1>4. InOrder'
  BY <1>0, StillInOrder DEF SInv
<1> HIDE DEF k
<1>5. \A i \in DOMAIN log' : Invertible(log'[i])
  BY <1>1 DEF SInv
<1>6. ASSUME NEW r \in Recs
      PROVE  /\ Writing(r)' = {} /\ Writing(r) = IF r = e.target THEN {p} ELSE {}
             /\ Standing(r)' = Standing(r) \cup (IF r = e.target THEN {k} ELSE {})
             /\ Standing(r) \subseteq DOMAIN log
  BY <1>0, <1>1, OnlyOne, OnlyOneNext DEF Chain, Undoable
<1>7. ASSUME NEW r \in Recs PROVE Linked(r)' /\ Past(r)' = Past(r)
  <2>1. Linked(r)
    BY DEF SInv
  <2>2. CASE r # e.target
    <3>1. Writing(r)' = {} /\ Writing(r) = {} /\ Standing(r)' = Standing(r) /\ Standing(r) \subseteq DOMAIN log
      BY <1>6, <2>2
    <3>2. \A i \in Standing(r) : log'[i] = log[i]
      BY <1>1, <3>1
    <3>3. Linked(r)'
      BY <2>1, <3>1, <3>2 DEF Linked
    <3>4. QED
      BY <3>1, <3>2, <3>3, PastLogged
  <2>3. CASE r = e.target
    <3>1. /\ Writing(r)' = {} /\ Writing(r) = {p} /\ Standing(r)' = Standing(r) \cup {k}
          /\ Standing(r) \subseteq DOMAIN log
      BY <1>6, <2>3
    <3>2. /\ \A i \in Standing(r) : log'[i] = log[i] /\ i < k /\ i \in Nat
          /\ k \in Nat /\ log'[k] = e
      BY <1>0, <1>1, <3>1 DEF k
    <3>3. \A i \in Standing(r) : (\A j \in Standing(r) : j <= i) => log[i].after = e.before
      BY <2>1, <3>1 DEF Linked
    <3>4. rec[r] = e.after
      BY <2>3 DEF SInv, Poised
    <3>5. Linked(r)'
      <4>1. ASSUME NEW i \in Standing(r)', NEW j \in Standing(r)', i < j,
                   \A x \in Standing(r)' : x <= i \/ j <= x
            PROVE  log'[j].before = log'[i].after
        <5>1. i \in Standing(r)
          BY <3>1, <3>2, <4>1
        <5>2. CASE j = k
          <6>1. \A x \in Standing(r) : x <= i
            BY <3>1, <3>2, <4>1, <5>2
          <6>2. QED
            BY <3>2, <3>3, <5>1, <5>2, <6>1
        <5>3. CASE j \in Standing(r)
          <6>1. \A x \in Standing(r) : x <= i \/ j <= x
            BY <3>1, <4>1
          <6>2. QED
            BY <2>1, <3>2, <4>1, <5>1, <5>3, <6>1 DEF Linked
        <5>4. QED
          BY <3>1, <5>2, <5>3
      <4>2. ASSUME NEW i \in Standing(r)', \A x \in Standing(r)' : x <= i
            PROVE  log'[i].after = rec'[r]
        <5>1. i = k
          BY <3>1, <3>2, <4>2
        <5>2. QED
          BY <3>2, <3>4, <5>1
      <4>3. QED
        BY <3>1, <4>1, <4>2 DEF Linked
    <3>6. Past(r) = [i \in Standing(r) \cup {k} |->
                        IF i \in DOMAIN log THEN log[i].before ELSE req[p].before]
      <4>1. Past(r) = [i \in Standing(r) \cup {Len(log) + 1} |->
                          IF i \in DOMAIN log THEN log[i].before ELSE req[p].before]
        BY <3>1 DEF Past
      <4>2. QED
        BY <4>1 DEF k
    <3>7. Past(r)' = [i \in Standing(r) \cup {k} |-> log'[i].before]
      BY <3>1, PastLogged
    <3>8. \A i \in Standing(r) \cup {k} :
              log'[i].before = IF i \in DOMAIN log THEN log[i].before ELSE req[p].before
      BY <1>1, <3>1, <3>2
    <3>9. QED
      BY <3>5, <3>6, <3>7, <3>8
  <2>4. QED
    BY <2>2, <2>3
<1>8. QED
  BY <1>4, <1>5, <1>7, SerialFrame DEF Pasts

\* The entry that a rollback is about to undo is the last of its row's chain, and the row
\* is as that entry left it.
LEMMA LastOfChain ==
    ASSUME TInv, SInv, NEW p \in Reqs, pc[p] = "undo",
           NEW c, NEW t, c = req[p].cur, t = req[p].target
    PROVE  /\ t \in Recs /\ c \in Chain(t) /\ \A i \in Chain(t) : i <= c
           /\ log[c].after = rec[t] /\ rec[t] \in Row
<1>0. /\ log \in Seq(Entry) /\ DOMAIN log \subseteq Nat /\ \A i \in DOMAIN log : log[i] \in Entry
  BY LogDomain DEF TInv, TypeOK
<1>1. /\ t \in Recs /\ log[c].target = t /\ c \in Undoable /\ LaterMutation(c) = {} /\ rec[t] \in Row
  <2>1. RequestWellFormed(p) /\ Poised(p) /\ t \in Recs /\ rec[t] \in Row \cup {Null}
    BY RequestFacts DEF SInv
  <2>2. c \in req[p].todo /\ log[c].target = t /\ rec[t] # Null
    BY <2>1 DEF RequestWellFormed, Exists
  <2>3. req[p].todo \subseteq Undoable /\ LaterMutation(c) = {}
    BY <2>1 DEF Poised, Undoing, Holding
  <2>4. QED
    BY <2>1, <2>2, <2>3
<1>2. ASSUME NEW i \in Chain(t), i > c PROVE FALSE
  <2>1. i \in Undoable /\ i \in DOMAIN log /\ c \in DOMAIN log /\ log[i].target = log[c].target
    BY <1>1 DEF Chain, Undoable
  <2>2. log[c].at < log[i].at
    BY <1>0, <1>2, <2>1 DEF SInv, InOrder
  <2>3. log[i].at > log[c].at
    BY <1>0, <2>1, <2>2 DEF Entry
  <2>4. QED
    BY <1>1, <2>1, <2>3 DEF LaterMutation
<1>3. c \in Chain(t) /\ \A i \in Chain(t) : i <= c
  BY <1>0, <1>1, <1>2 DEF Chain, Undoable
<1>4. Standing(t) = Chain(t) /\ Writing(t) = {} /\ Linked(t)
  <2>1. Others(p)
    BY DEF SInv, Alone, Awaits
  <2>2. Standing(t) = Chain(t) /\ Writing(t) = {}
    BY <1>1, <2>1, OnlyOne
  <2>3. QED
    BY <1>1, <2>2 DEF SInv
<1>5. log[c].after = rec[t]
  BY <1>3, <1>4 DEF Linked
<1>6. QED
  BY <1>1, <1>3, <1>5

\* An undo: the entry is the last of its row's chain, and its change goes.
LEMMA SerialUndo ==
    ASSUME TInv, SInv, NEW p \in Reqs, Undo(p)
    PROVE  /\ Poised(p)'
           /\ \A r \in Recs : Linked(r)'
           /\ Stack!Next
<1>p. PICK c \in Nat, t \in Recs : c = req[p].cur /\ t = req[p].target
  BY RequestFacts DEF Request
<1> DEFINE e == log[c]
           new == Restored(e, rec[t])
<1>0. /\ log \in Seq(Entry) /\ rec \in [Recs -> Row \cup {Null}] /\ pc \in [Reqs -> Steps]
      /\ req \in [Reqs -> Request]
      /\ DOMAIN log \subseteq Nat /\ \A i \in DOMAIN log : log[i] \in Entry
  BY LogDomain DEF TInv, TypeOK, Steps
<1>1. /\ pc[p] = "undo" /\ pc' = [pc EXCEPT ![p] = "mark"] /\ rec' = [rec EXCEPT ![t] = new]
      /\ req' = [req EXCEPT ![p].after = new] /\ UNCHANGED <<log, rolledBack>>
  BY <1>p DEF Undo, At, Goto
<1>2. /\ t \in Recs /\ e.target = t /\ c \in Undoable /\ c \in req[p].todo /\ LaterMutation(c) = {}
      /\ req[p].todo \subseteq Undoable /\ req[p].op \notin PageOps /\ ~req[p].force
      /\ (req[p].op = "delete" => req[p].left = 0)
      /\ rec[t] \in Row /\ Invertible(e) /\ e.action # "ROLLBACK" /\ e \in Entry
  <2>1. RequestWellFormed(p) /\ Poised(p) /\ t \in Recs /\ rec[t] \in Row \cup {Null}
    BY <1>p, RequestFacts DEF SInv
  <2>2. /\ c \in req[p].todo /\ e.target = t /\ rec[t] # Null
    BY <1>1, <1>p, <2>1 DEF RequestWellFormed, Exists
  <2>3. /\ req[p].todo \subseteq Undoable /\ LaterMutation(c) = {}
        /\ req[p].op \notin PageOps /\ ~req[p].force /\ (req[p].op = "delete" => req[p].left = 0)
    BY <1>1, <1>p, <2>1 DEF Poised, Undoing, Holding
  <2>4. QED
    BY <1>0, <2>1, <2>2, <2>3 DEF SInv, Undoable
<1>3. Others(p) /\ Others(p)'
  BY <1>0, <1>1 DEF SInv, Alone, Awaits, Others
<1>4. /\ pc'[p] = "mark" /\ req'[p].cur = c /\ req'[p].target = t /\ req'[p].todo = req[p].todo
      /\ req'[p].op = req[p].op /\ req'[p].force = req[p].force /\ req'[p].left = req[p].left
  BY <1>0, <1>1, <1>p DEF Request
<1>5. Undoable' = Undoable /\ LaterMutation(c)' = LaterMutation(c) /\ \A r \in Recs : Chain(r)' = Chain(r)
  BY <1>1 DEF Undoable, LaterMutation, Chain
<1>6. Poised(p)'
  BY <1>2, <1>4, <1>5 DEF Poised, Undoing, Holding
<1>7. c \in Chain(t) /\ \A i \in Chain(t) : i <= c
  BY <1>1, <1>p, LastOfChain
<1> HIDE DEF e, new
<1>8. ASSUME NEW r \in Recs
      PROVE  /\ Writing(r) = {} /\ Writing(r)' = {} /\ Standing(r) = Chain(r)
             /\ Standing(r)' = Chain(r) \ {c} /\ Chain(r) \subseteq DOMAIN log
             /\ r # t => c \notin Chain(r)
  <2>1. Writing(r) = {} /\ Standing(r) = Chain(r)
    BY <1>1, <1>3, OnlyOne
  <2>2. Writing(r)' = {} /\ Standing(r)' = Chain(r)' \ {c}
    BY <1>3, <1>4, OnlyOneNext
  <2>3. Chain(r) \subseteq DOMAIN log /\ (r # t => c \notin Chain(r))
    BY <1>2 DEF Chain, Undoable, e
  <2>4. QED
    BY <1>5, <2>1, <2>2, <2>3
<1>9. c \in Chain(t) /\ e.after = rec[t]
  BY <1>1, <1>p, LastOfChain DEF e
<1>10. new = IF e.before = Null THEN [rec[t] EXCEPT !.deleted = TRUE] ELSE e.before
  BY <1>2, <1>9 DEF Invertible, new
<1>11. ASSUME NEW r \in Recs PROVE Linked(r)'
  <2>1. Linked(r)
    BY DEF SInv
  <2>2. CASE r # t
    BY <1>0, <1>1, <1>8, <2>1, <2>2 DEF Linked
  <2>3. CASE r = t
    <3>1. ASSUME NEW i \in Standing(r)', NEW j \in Standing(r)', i < j,
                 \A k \in Standing(r)' : k <= i \/ j <= k
          PROVE  log[j].before = log[i].after
      <4>1. i \in Standing(r) /\ j \in Standing(r) /\ j \in Chain(t) /\ j <= c
        <5>1. i \in Standing(r) /\ j \in Standing(r) /\ j \in Chain(t)
          BY <1>8, <2>3, <3>1
        <5>2. QED
          BY <1>7, <5>1
      <4>2. \A k \in Standing(r) : k <= i \/ j <= k
        BY <1>8, <3>1, <4>1
      <4>3. QED
        BY <2>1, <3>1, <4>1, <4>2 DEF Linked
    <3>2. ASSUME NEW i \in Standing(r)', \A k \in Standing(r)' : k <= i
          PROVE  log[i].after = rec'[r]
      <4>1. i \in Standing(r) /\ c \in Standing(r) /\ i \in DOMAIN log /\ c \in DOMAIN log /\ i # c /\ i <= c
        <5>1. i \in Chain(t) /\ i # c
          BY <1>8, <2>3, <3>2
        <5>2. Standing(r) = Chain(t) /\ Chain(t) \subseteq DOMAIN log
          BY <1>8, <2>3
        <5>3. i <= c /\ c \in Chain(t)
          BY <1>7, <5>1
        <5>4. QED
          BY <5>1, <5>2, <5>3
      <4>2. i < c /\ \A k \in Standing(r) : k <= i \/ c <= k
        <5>1. i \in Nat /\ c \in Nat
          BY <1>0, <4>1
        <5>2. \A k \in Standing(r) : k = c \/ k <= i
          BY <1>8, <3>2
        <5>3. QED
          BY <4>1, <5>1, <5>2
      <4>3. e.before = log[i].after
        BY <2>1, <4>1, <4>2 DEF Linked, e
      <4>4. log[i].after \in Row
        <5>1. Invertible(log[i]) /\ log[i].action # "ROLLBACK"
          BY <1>8, <2>3, <4>1 DEF SInv, Chain, Undoable
        <5>2. QED
          BY <5>1 DEF Invertible
      <4>5. QED
        BY <1>0, <1>1, <1>2, <1>10, <2>3, <4>3, <4>4, RowsAssumption
    <3>3. QED
      BY <1>1, <1>8, <3>1, <3>2 DEF Linked
  <2>4. QED
    BY <2>2, <2>3
<1>12. ASSUME NEW r \in Recs
       PROVE  DOMAIN Past(r) = Chain(r) /\ \A i \in Chain(r) : Past(r)[i] = log[i].before
  <2>1. Past(r) = [i \in Standing(r) |-> log[i].before]
    BY <1>8, PastLogged
  <2>2. QED
    BY <1>8, <2>1
<1>13. ASSUME NEW r \in Recs \ {t} PROVE Past(r)' = Past(r)
  <2>1. Past(r) = [i \in Standing(r) |-> log[i].before]
    BY <1>8, PastLogged
  <2>2. Past(r)' = [i \in Standing(r)' |-> log'[i].before]
    BY <1>8, PastLogged
  <2>3. QED
    BY <1>1, <1>8, <2>1, <2>2
<1> DEFINE rest == [i \in DOMAIN Past(t) \ {c} |-> Past(t)[i]]
<1>14. Past(t)' = rest
  <2>1. Past(t)' = [i \in Standing(t)' |-> log'[i].before]
    BY <1>2, <1>8, PastLogged
  <2>2. QED
    BY <1>1, <1>2, <1>8, <1>12, <2>1
<1>15. Pasts[t] = Past(t) /\ Pasts' = [Pasts EXCEPT ![t] = rest]
  <2> HIDE DEF rest
  <2>1. QED
    BY <1>2, <1>13, <1>14 DEF Pasts
<1>16. c \in DOMAIN Pasts[t] /\ Pasts[t][c] = e.before /\ \A i \in DOMAIN Pasts[t] : i <= c
  BY <1>2, <1>7, <1>9, <1>12, <1>15 DEF e
<1>17. Stack!Undo(t, c)
  BY <1>1, <1>10, <1>15, <1>16 DEF Stack!Undo, Pasts
<1>18. QED
  BY <1>2, <1>6, <1>11, <1>16, <1>17 DEF Stack!Next, Pasts

\* The mark comes after the undo, and changes no chain.
LEMMA SerialMark ==
    ASSUME TInv, SInv, NEW p \in Reqs, Mark(p)
    PROVE  /\ Poised(p)'
           /\ \A r \in Recs : Linked(r)'
           /\ UNCHANGED <<rec, Pasts>>
<1>0. pc \in [Reqs -> Steps] /\ req \in [Reqs -> Request]
  BY DEF TInv, TypeOK, Steps
<1>1. /\ pc[p] = "mark" /\ pc' = [pc EXCEPT ![p] = "logback"] /\ UNCHANGED <<rec, log>>
      /\ rolledBack' = rolledBack \cup {req[p].cur}
      /\ req' = [req EXCEPT ![p].todo = @ \ {req[p].cur}]
  BY DEF Mark, At, Goto
<1>2. Others(p) /\ Others(p)'
  BY <1>0, <1>1 DEF SInv, Alone, Awaits, Others
<1>3. Undoable' = Undoable \ {req[p].cur}
  BY <1>1 DEF Undoable
<1>4. Poised(p)'
  <2>1. Poised(p) /\ req[p].todo \subseteq Undoable
    BY <1>1 DEF SInv, Poised, Undoing
  <2>2. /\ pc'[p] = "logback" /\ req'[p].todo = req[p].todo \ {req[p].cur}
        /\ req'[p].op = req[p].op /\ req'[p].force = req[p].force /\ req'[p].left = req[p].left
    BY <1>0, <1>1 DEF Request
  <2>3. QED
    BY <1>3, <2>1, <2>2 DEF Poised, Holding
<1>5. ASSUME NEW r \in Recs
      PROVE  Writing(r)' = {} /\ Writing(r) = {} /\ Standing(r)' = Standing(r)
  <2>1. Chain(r)' = Chain(r) \ {req[p].cur}
    BY <1>1, <1>3 DEF Chain
  <2>2. pc'[p] = "logback"
    BY <1>0, <1>1
  <2>3. QED
    BY <1>1, <1>2, <2>1, <2>2, OnlyOne, OnlyOneNext
<1>6. \A r \in Recs : Linked(r)'
  BY <1>1, <1>5 DEF SInv, Linked
<1>7. \A r \in Recs : Past(r)' = Past(r)
  BY <1>1, <1>5, PastLogged
<1>8. QED
  BY <1>1, <1>4, <1>6, <1>7 DEF Pasts

\* The entry of an undo joins no chain.
LEMMA SerialLogBack ==
    ASSUME Serial, TInv, SInv, NEW p \in Reqs, LogBack(p)
    PROVE  /\ InOrder' /\ \A i \in DOMAIN log' : Invertible(log'[i])
           /\ Poised(p)'
           /\ \A r \in Recs : Linked(r)'
           /\ UNCHANGED <<rec, Pasts>>
<1>0. /\ pc \in [Reqs -> Steps] /\ log \in Seq(Entry) /\ rolledBack \subseteq DOMAIN log
      /\ DOMAIN log = 1 .. Len(log) /\ \A i \in DOMAIN log : log[i] \in Entry
  BY LogDomain DEF TInv, TypeOK, Steps
<1>1. PICK at \in Stamps : log' = Append(log, RollbackEntry(req[p], at))
  BY DEF LogBack
<1> DEFINE e == RollbackEntry(req[p], at)
           k == Len(log) + 1
<1>2. e \in Entry /\ e.action = "ROLLBACK" /\ e.at = LastAt + 1
  BY <1>0, StampsType, EntryType, RequestFacts DEF RollbackEntry, Stamps, Serial
<1>3. PICK step \in {"check", "ok"} : pc'[p] = step
  BY <1>0 DEF LogBack, Goto
<1>4. pc[p] = "logback" /\ UNCHANGED <<rec, rolledBack, req>>
  BY DEF LogBack, At
<1>5. Others(p) /\ Others(p)'
  BY <1>0, <1>3, <1>4 DEF SInv, Alone, Awaits, Others, LogBack, Goto
<1> HIDE DEF e
<1>6. /\ DOMAIN log' = DOMAIN log \cup {k} /\ log'[k] = e /\ k \notin DOMAIN log
      /\ \A i \in DOMAIN log : log'[i] = log[i]
  BY <1>0, <1>1, <1>2, AppendEntry DEF e
<1>7. Undoable' = Undoable /\ Undoable \subseteq DOMAIN log
  BY <1>2, <1>4, <1>6 DEF Undoable
<1>8. InOrder'
  BY <1>0, <1>1, <1>2, StillInOrder DEF SInv, e
<1>9. \A i \in DOMAIN log' : Invertible(log'[i])
  BY <1>2, <1>6 DEF SInv, Invertible
<1>10. Poised(p)'
  <2>1. Poised(p) /\ req[p].todo \subseteq Undoable
    BY <1>4 DEF SInv, Poised, Undoing
  <2>2. QED
    BY <1>3, <1>4, <1>7, <2>1 DEF Poised, Holding
<1>11. ASSUME NEW r \in Recs
       PROVE  /\ Writing(r)' = {} /\ Writing(r) = {} /\ Standing(r)' = Standing(r)
              /\ Standing(r) \subseteq DOMAIN log
  <2>1. Chain(r)' = Chain(r) /\ Chain(r) \subseteq DOMAIN log
    BY <1>6, <1>7 DEF Chain
  <2>2. QED
    BY <1>3, <1>4, <1>5, <2>1, OnlyOne, OnlyOneNext
<1>12. \A r \in Recs : Linked(r)'
  BY <1>4, <1>6, <1>11 DEF SInv, Linked
<1>13. ASSUME NEW r \in Recs PROVE Past(r)' = Past(r)
  BY <1>6, <1>11, PastLogged
<1>14. QED
  BY <1>4, <1>8, <1>9, <1>10, <1>12, <1>13 DEF Pasts

(***************************************************************************)
(* Every step is of one of these kinds.                                    *)
(***************************************************************************)
LEMMA SerialRollback ==
    ASSUME Serial, TInv, SInv, NEW p \in Reqs,
           Check(p) \/ Fetch(p) \/ Undo(p) \/ Mark(p) \/ LogBack(p)
    PROVE  SInv' /\ (Stack!Next \/ UNCHANGED <<rec, Pasts>>)
<1>0. /\ pc \in [Reqs -> Steps] /\ req \in [Reqs -> Request] /\ Poised(p) /\ req[p].todo \subseteq DOMAIN log
      /\ InOrder /\ \A i \in DOMAIN log : Invertible(log[i])
  BY DEF TInv, TypeOK, Steps, SInv
<1>1. /\ Others(p) /\ Others(p)' /\ \A q \in Reqs \ {p} : pc'[q] = pc[q] /\ req'[q] = req[q]
  BY OneStepper DEF Serve, SInv
<1>2. CASE Check(p)
  <2>1. PICK i \in req[p].todo :
            /\ \/ pc'[p] = "conflict"
               \/ pc'[p] = "fetch" /\ (LaterMutation(i) = {} \/ req[p].force)
            /\ req' = [req EXCEPT ![p].cur = i, ![p].target = log[i].target]
            /\ pc[p] = "check" /\ UNCHANGED <<rec, log, rolledBack>>
    BY <1>0, <1>2 DEF Check, At, Goto, Newest
  <2>2. /\ req'[p].cur = i /\ req'[p].todo = req[p].todo
        /\ req'[p].op = req[p].op /\ req'[p].force = req[p].force /\ req'[p].left = req[p].left
    BY <1>0, <2>1 DEF Request
  <2>3. Undoable' = Undoable /\ LaterMutation(i)' = LaterMutation(i)
    BY <2>1 DEF Undoable, LaterMutation
  <2>4. Poised(p)'
    <3>1. pc'[p] = "fetch" => LaterMutation(i) = {}
      BY <1>0, <2>1 DEF Poised
    <3>2. LaterMutation(req[p].cur)' = LaterMutation(i)
      BY <2>1, <2>2 DEF Undoable, LaterMutation
    <3>3. req[p].todo \subseteq Undoable
      BY <1>0, <2>1 DEF Poised, Undoing
    <3>4. QED
      BY <1>0, <2>1, <2>2, <2>3, <3>1, <3>2, <3>3 DEF Poised, Undoing, Holding
  <2>5. QED
    BY <1>1, <2>1, <2>4, SerialQuiet
<1>3. CASE Fetch(p)
  <2>1. /\ pc[p] = "fetch" /\ pc'[p] = "undo" /\ UNCHANGED <<rec, log, rolledBack>>
        /\ req'[p].cur = req[p].cur /\ req'[p].todo = req[p].todo
        /\ req'[p].op = req[p].op /\ req'[p].force = req[p].force /\ req'[p].left = req[p].left
    BY <1>0, <1>3 DEF Fetch, At, Goto, Request
  <2>2. Undoable' = Undoable /\ LaterMutation(req[p].cur)' = LaterMutation(req[p].cur)
    BY <2>1 DEF Undoable, LaterMutation
  <2>3. Poised(p)'
    BY <1>0, <2>1, <2>2 DEF Poised, Undoing, Holding
  <2>4. QED
    BY <1>1, <2>1, <2>3, SerialQuiet
<1>4. CASE Undo(p)
  <2>1. log' = log
    BY <1>4 DEF Undo
  <2>2. InOrder' /\ \A i \in DOMAIN log' : Invertible(log'[i])
    BY <1>0, <2>1 DEF InOrder
  <2>3. QED
    BY <1>1, <1>4, <2>2, SerialUndo, SerialFrame
<1>5. CASE Mark(p)
  <2>1. log' = log
    BY <1>5 DEF Mark
  <2>2. InOrder' /\ \A i \in DOMAIN log' : Invertible(log'[i])
    BY <1>0, <2>1 DEF InOrder
  <2>3. QED
    BY <1>1, <1>5, <2>2, SerialMark, SerialFrame
<1>6. CASE LogBack(p)
  BY <1>1, <1>6, SerialLogBack, SerialFrame
<1>7. QED
  BY <1>2, <1>3, <1>4, <1>5, <1>6

\* What a mutation is about to log can be undone.
LEMMA ChangesInvertible ==
    ASSUME NEW q \in Request,
           \/ q.before = Null /\ q.op # "delete" /\ q.after \in Row
           \/ /\ q.before \in Row /\ q.content \in Contents
              /\ q.op \in {"update", "delete", "tag"}
              /\ q.op = "delete" => ~q.before.deleted
              /\ q.after = Written(q.op, q.content, q.before)
    PROVE  \A at : Invertible(MutationEntry(q, at))
<1> SUFFICES ASSUME NEW at PROVE Invertible(MutationEntry(q, at))
  OBVIOUS
<1> DEFINE e == MutationEntry(q, at)
<1>1. e.action = ActionOf(q) /\ e.before = q.before /\ e.after = q.after
  BY DEF MutationEntry
<1> HIDE DEF e
<1>2. CASE q.before = Null /\ q.op # "delete" /\ q.after \in Row
  <2>1. e.action = "CREATE"
    BY <1>1, <1>2 DEF ActionOf
  <2>2. QED
    BY <1>1, <1>2, <2>1 DEF Invertible, Restored, e
<1>3. CASE q.before \in Row /\ q.op = "delete" /\ ~q.before.deleted
           /\ q.after = Written(q.op, q.content, q.before)
  <2>1. e.action = "DELETE" /\ q.before # Null
    BY <1>1, <1>3, RowsAssumption DEF ActionOf
  <2>2. q.after = [q.before EXCEPT !.deleted = TRUE] /\ q.after \in Row
    BY <1>3 DEF Written, Row, TagOps
  <2>3. [q.after EXCEPT !.deleted = FALSE] = q.before
    <3>1. q.before.deleted = FALSE
      BY <1>3 DEF Row
    <3>2. QED
      BY <1>3, <2>2, <3>1 DEF Row
  <2>4. Restored(e, q.after) = q.before
    BY <2>1, <2>3 DEF Restored
  <2>5. QED
    BY <1>1, <2>1, <2>2, <2>4 DEF Invertible, e
<1>4. CASE q.before \in Row /\ q.content \in Contents /\ q.op \in {"update", "tag"}
           /\ q.after = Written(q.op, q.content, q.before)
  <2>1. e.action = "UPDATE" /\ q.before # Null
    BY <1>1, <1>4, RowsAssumption DEF ActionOf
  <2>2. q.after \in Row
    BY <1>4, WrittenType
  <2>3. QED
    BY <1>1, <2>1, <2>2 DEF Invertible, Restored, e
<1>5. QED
  BY <1>2, <1>3, <1>4

LEMMA SerialMutation ==
    ASSUME Serial, TInv, SInv, NEW p \in Reqs,
           Own(p) \/ LookupTag(p) \/ Insert(p) \/ Write(p) \/ Log(p)
    PROVE  SInv' /\ (Stack!Next \/ UNCHANGED <<rec, Pasts>>)
<1>0. /\ pc \in [Reqs -> Steps] /\ req \in [Reqs -> Request] /\ Poised(p)
      /\ rec \in [Recs -> Row \cup {Null}] /\ log \in Seq(Entry)
      /\ req[p] \in Request /\ req[p].target \in Recs /\ RequestWellFormed(p)
  BY RequestFacts DEF TInv, TypeOK, Steps, SInv
<1>1. /\ Others(p) /\ Others(p)' /\ \A q \in Reqs \ {p} : pc'[q] = pc[q] /\ req'[q] = req[q]
  BY OneStepper DEF Serve, SInv
<1>2. req[p].op \notin PageOps /\ ~req[p].force /\ (req[p].op = "delete" => req[p].left = 0)
  BY <1>0 DEF Poised
<1>3. CASE Own(p)
  <2>1. /\ pc[p] = "own" /\ pc'[p] \in {"write", "notfound"}
        /\ UNCHANGED <<rec, log, rolledBack, req>>
    BY <1>0, <1>3 DEF Own, At, Goto
  <2>2. Poised(p)'
    BY <1>0, <2>1 DEF Poised, Undoing, Holding
  <2>3. QED
    BY <1>1, <2>1, <2>2, SerialQuiet
<1>4. CASE LookupTag(p)
  <2>1. /\ pc[p] = "lookup" /\ pc'[p] \in {"insert", "write", "ok"}
        /\ UNCHANGED <<rec, log, rolledBack>>
    BY <1>0, <1>4 DEF LookupTag, At, Goto
  <2>2. /\ req'[p].before = rec[req[p].target] /\ req'[p].target = req[p].target
        /\ req'[p].op = req[p].op /\ req'[p].force = req[p].force
    BY <1>0, <1>4 DEF LookupTag, Request
  <2>3. req[p].op = "tag"
    BY <1>0, <2>1 DEF RequestWellFormed
  <2>4. Poised(p)'
    BY <1>2, <2>1, <2>2, <2>3 DEF Poised, Undoing, Holding
  <2>5. QED
    BY <1>1, <2>1, <2>4, SerialQuiet
<1>5. CASE Insert(p)
  <2>1. PICK r \in Fresh(p) :
            IF Exists(r) THEN pc' = [pc EXCEPT ![p] = "error"] /\ UNCHANGED <<rec, req>>
            ELSE /\ pc' = [pc EXCEPT ![p] = AfterWrite(req[p].op)]
                 /\ rec' = [rec EXCEPT ![r] = NewRow(req[p].content)]
                 /\ req' = [req EXCEPT ![p].target = r, ![p].before = Null,
                                       ![p].after = NewRow(req[p].content),
                                       ![p].left = @ - 1]
    BY <1>5 DEF Insert, Goto
  <2>2. pc[p] = "insert" /\ UNCHANGED <<log, rolledBack>> /\ r \in Recs
    BY <1>0, <1>5, RowsAssumption DEF Insert, At, Fresh
  <2>3. req[p].op # "delete"
    BY <1>0, <1>2, <2>2 DEF RequestWellFormed, Request
  <2>4. CASE Exists(r)
    <3>1. pc'[p] = "error" /\ UNCHANGED <<rec, req>>
      BY <1>0, <2>1, <2>4
    <3>2. Poised(p)'
      BY <1>2, <3>1 DEF Poised, Undoing, Holding
    <3>3. QED
      BY <1>1, <2>2, <3>1, <3>2, SerialQuiet
  <2>5. CASE ~Exists(r)
    <3> DEFINE new == NewRow(req[p].content)
    <3>1. new \in Row
      BY <1>0 DEF NewRow, Row, Request
    <3>2. /\ pc' = [pc EXCEPT ![p] = AfterWrite(req[p].op)] /\ rec' = [rec EXCEPT ![r] = new]
          /\ req' = [req EXCEPT ![p].target = r, ![p].before = Null, ![p].after = new, ![p].left = @ - 1]
      BY <2>1, <2>5
    <3> HIDE DEF new
    <3>3. pc'[p] = "log" /\ rec'[r] = new
      BY <1>0, <1>2, <2>2, <3>2 DEF AfterWrite
    <3>4. /\ req'[p].target = r /\ req'[p].before = Null /\ req'[p].after = new
          /\ req'[p].op = req[p].op /\ req'[p].force = req[p].force
      BY <1>0, <3>2 DEF Request
    <3>5. rec[r] = Null
      BY <2>5 DEF Exists
    <3>6. Invertible(MutationEntry(req[p], 1))'
      <4>1. TInv'
        BY <1>5, TInvMutation
      <4>2. req'[p] \in Request
        BY <4>1 DEF TInv, TypeOK
      <4>3. Invertible(MutationEntry(req'[p], 1))
        BY <2>3, <3>1, <3>4, <4>2, ChangesInvertible
      <4>4. QED
        BY <4>3 DEF Invertible, MutationEntry, ActionOf
    <3>7. Poised(p)'
      BY <1>2, <2>3, <3>3, <3>4, <3>6 DEF Poised, Undoing, Holding
    <3>8. QED
      BY <1>1, <2>2, <3>1, <3>2, <3>3, <3>4, <3>5, <3>7, SerialWrite
  <2>6. QED
    BY <2>4, <2>5
<1>6. CASE Write(p)
  <2> DEFINE new == Written(req[p].op, req[p].content, rec[req[p].target])
  <2>1. /\ pc[p] = "write" /\ pc' = [pc EXCEPT ![p] = AfterWrite(req[p].op)]
        /\ rec' = [rec EXCEPT ![req[p].target] = new] /\ req' = [req EXCEPT ![p].after = new]
        /\ UNCHANGED <<log, rolledBack>>
    BY <1>6 DEF Write, At, Goto
  <2>2. /\ req[p].op \in {"update", "delete", "tag"} /\ rec[req[p].target] \in Row
        /\ rec[req[p].target] = req[p].before /\ (req[p].op = "delete" => ~req[p].before.deleted)
        /\ req[p].content \in Contents
    BY <1>0, <1>2, <2>1 DEF RequestWellFormed, Exists, PageOps, Poised, Request
  <2>3. new \in Row
    BY <2>2, WrittenType
  <2>4. new = Written(req[p].op, req[p].content, req[p].before)
    BY <2>2
  <2> HIDE DEF new
  <2>5. pc'[p] = "log" /\ rec'[req[p].target] = new
    BY <1>0, <1>2, <2>1 DEF AfterWrite
  <2>6. /\ req'[p].target = req[p].target /\ req'[p].before = req[p].before /\ req'[p].after = new
        /\ req'[p].op = req[p].op /\ req'[p].force = req[p].force /\ req'[p].left = req[p].left /\ req'[p].content = req[p].content
    BY <1>0, <2>1 DEF Request
  <2>7. Invertible(MutationEntry(req[p], 1))'
    <3>1. TInv'
      BY <1>6, TInvMutation
    <3>2. req'[p] \in Request
      BY <3>1 DEF TInv, TypeOK
    <3>3. Invertible(MutationEntry(req'[p], 1))
      BY <2>2, <2>4, <2>6, <3>2, ChangesInvertible
    <3>4. QED
      BY <3>3 DEF Invertible, MutationEntry, ActionOf
  <2>8. Poised(p)'
    BY <1>2, <2>5, <2>6, <2>7 DEF Poised, Undoing, Holding
  <2>9. PICK r \in Recs : r = req[p].target
    BY <1>0
  <2>10. QED
    BY <1>1, <2>1, <2>2, <2>3, <2>5, <2>6, <2>8, <2>9, SerialWrite
<1>7. CASE Log(p)
  <2>1. PICK at \in Stamps : log' = Append(log, MutationEntry(req[p], at))
    BY <1>7 DEF Log
  <2>2. at = LastAt + 1 /\ at \in Nat \ {0}
    BY <1>0, <2>1, StampsType DEF Stamps, Serial
  <2>3. /\ pc[p] = "log" /\ pc'[p] \in {"insert", "ok"} /\ UNCHANGED <<rec, rolledBack>>
        /\ req'[p].op = req[p].op /\ req'[p].force = req[p].force /\ req'[p].left = req[p].left
    BY <1>0, <1>7 DEF Log, At, Goto, Request
  <2> DEFINE e == MutationEntry(req[p], at)
  <2>4. /\ e \in Entry /\ e.action # "ROLLBACK" /\ e.target = req[p].target
        /\ e.before = req[p].before /\ e.after = req[p].after /\ e.at = at
    BY <1>0, <2>2, EntryType DEF MutationEntry, ActionOf
  <2>5. Invertible(e)
    <3>1. Invertible(MutationEntry(req[p], 1))
      BY <1>0, <2>3 DEF Poised
    <3>2. QED
      BY <3>1 DEF Invertible, MutationEntry, Restored
  <2>6. Poised(p)'
    BY <1>2, <2>3 DEF Poised, Undoing, Holding
  <2> HIDE DEF e
  <2>7. log' = Append(log, e)
    BY <2>1 DEF e
  <2>8. QED
    BY <1>1, <2>2, <2>3, <2>4, <2>5, <2>6, <2>7, SerialLog
<1>8. QED
  BY <1>3, <1>4, <1>5, <1>6, <1>7

\* A request that arrives finds no other, and has changed nothing.
LEMMA SerialArrive ==
    ASSUME Serial, TInv, SInv, NEW p \in Reqs, NEW step, NEW q, Arrive(p, step, q),
           step \in {"own", "lookup", "insert", "check"},
           q.op \notin PageOps, ~q.force, q.op = "delete" => q.left = 0,
           step = "own" => rec[q.target] = q.before /\ ~q.before.deleted,
           step = "check" => q.todo \subseteq Undoable
    PROVE  SInv' /\ UNCHANGED <<rec, Pasts>>
<1>1. /\ pc[p] = "idle" /\ pc'[p] = step /\ req'[p] = q /\ UNCHANGED <<rec, log, rolledBack>>
  BY DEF Arrive, TInv, TypeOK
<1>2. /\ Others(p) /\ Others(p)' /\ \A o \in Reqs \ {p} : pc'[o] = pc[o] /\ req'[o] = req[o]
  BY OneStepper DEF SInv
<1>3. Undoable' = Undoable
  BY <1>1 DEF Undoable
<1>4. Poised(p)'
  BY <1>1, <1>3 DEF Poised, Undoing, Holding
<1>5. QED
  BY <1>1, <1>2, <1>4, SerialQuiet

LEMMA SerialStart ==
    ASSUME Serial, TInv, SInv, NEW p \in Reqs, Start(p)
    PROVE  SInv' /\ UNCHANGED <<rec, Pasts>>
<1>1. Blank \in Request /\ Blank.left = 0 /\ ~Blank.force
  BY BlankType DEF Blank
<1>2. CASE StartCreate(p) \/ StartNewProject(p)
  <2>1. PICK c \in Contents, n \in {1, 2}, tx \in {p, Null} :
            Arrive(p, "insert", [Blank EXCEPT !.op = "create", !.content = c, !.left = n, !.tx = tx])
    BY <1>2 DEF StartCreate, StartNewProject
  <2> DEFINE q == [Blank EXCEPT !.op = "create", !.content = c, !.left = n, !.tx = tx]
  <2>2. q.op = "create" /\ ~q.force /\ Arrive(p, "insert", q)
    BY <1>1, <2>1 DEF Request
  <2> HIDE DEF q
  <2>3. QED
    BY <2>2, SerialArrive DEF PageOps
<1>3. CASE StartChange(p)
  <2>1. PICK r \in Recs, op \in {"update", "delete"}, c \in Contents \cup {Blank.content} :
            /\ Live(r)
            /\ Arrive(p, "own", [Blank EXCEPT !.op = op, !.target = r,
                                              !.content = c, !.before = rec[r]])
    BY <1>3 DEF StartChange
  <2> DEFINE q == [Blank EXCEPT !.op = op, !.target = r, !.content = c, !.before = rec[r]]
  <2>2. /\ q.op = op /\ q.left = 0 /\ ~q.force /\ q.target = r /\ q.before = rec[r]
        /\ Arrive(p, "own", q)
    BY <1>1, <2>1 DEF Request
  <2>3. ~rec[r].deleted
    BY <2>1 DEF Live
  <2> HIDE DEF q
  <2>4. QED
    BY <2>2, <2>3, SerialArrive DEF PageOps
<1>4. CASE StartTag(p)
  <2>1. PICK r \in Tags : Arrive(p, "lookup", [Blank EXCEPT !.op = "tag", !.target = r])
    BY <1>4 DEF StartTag
  <2> DEFINE q == [Blank EXCEPT !.op = "tag", !.target = r]
  <2>2. q.op = "tag" /\ ~q.force /\ Arrive(p, "lookup", q)
    BY <1>1, <2>1 DEF Request
  <2> HIDE DEF q
  <2>3. QED
    BY <2>2, SerialArrive DEF PageOps
<1>5. CASE StartPage(p)
  BY <1>5 DEF StartPage, Serial
<1>6. CASE StartUndo(p)
  <2>1. PICK f \in Forces, op \in Undos, tx \in Reqs \cup {Null}, S \in SUBSET Undoable :
            Arrive(p, "check", [Blank EXCEPT !.op = op, !.force = f, !.tx = tx, !.todo = S])
    BY <1>6 DEF StartUndo, Undos, KnownTx, Newest
  <2> DEFINE q == [Blank EXCEPT !.op = op, !.force = f, !.tx = tx, !.todo = S]
  <2>2. q.op = op /\ q.left = 0 /\ ~q.force /\ q.todo = S /\ Arrive(p, "check", q)
    <3>1. f = FALSE
      BY <2>1 DEF Serial
    <3>2. QED
      BY <1>1, <2>1, <3>1 DEF Request
  <2> HIDE DEF q
  <2>3. QED
    BY <2>1, <2>2, SerialArrive DEF PageOps, Undos
<1>7. QED
  BY <1>2, <1>3, <1>4, <1>5, <1>6 DEF Start

(***************************************************************************)
(* The theorems.                                                           *)
(***************************************************************************)
LEMMA SerialInit == Init => SInv /\ Stack!Init
<1> SUFFICES ASSUME Init PROVE SInv /\ Stack!Init
  OBVIOUS
<1>1. /\ \A p \in Reqs : pc[p] = "idle" /\ req[p] = Blank
      /\ log = <<>> /\ DOMAIN log = {} /\ rec \in [Recs -> {Null} \cup Row]
  BY TInvInit DEF Init, TInv, TypeOK
<1>2. \A r \in Recs : Standing(r) = {} /\ Writing(r) = {}
  BY <1>1 DEF Standing, Writing, Undoable
<1>3. SInv
  <2>1. Alone /\ InOrder
    BY <1>1 DEF Alone, InOrder, Awaits
  <2>2. \A p \in Reqs : Poised(p)
    <3>1. Blank.op = "create" /\ ~Blank.force
      BY DEF Blank
    <3>2. QED
      BY <1>1, <3>1 DEF Poised, PageOps, Undoing, Holding
  <2>3. \A r \in Recs : Linked(r)
    BY <1>2 DEF Linked
  <2>4. QED
    BY <1>1, <2>1, <2>2, <2>3 DEF SInv
<1>4. ASSUME NEW r \in Recs PROVE Past(r) = [k \in {} |-> Null]
  <2>1. Past(r) = [i \in Standing(r) |-> log[i].before]
    BY <1>2, PastLogged
  <2>2. QED
    BY <1>2, <2>1
<1>5. Pasts = [r \in Recs |-> [k \in {} |-> Null]]
  BY <1>4 DEF Pasts
<1>6. QED
  BY <1>1, <1>3, <1>5 DEF Stack!Init, Stack!Row, Row, Pasts

LEMMA SerialNext ==
    ASSUME Serial
    PROVE  TInv /\ SInv /\ [Next]_vars => SInv' /\ [Stack!Next]_(Stack!vars)
<1> SUFFICES ASSUME TInv, SInv, [Next]_vars
             PROVE  SInv' /\ (Stack!Next \/ UNCHANGED <<rec, Pasts>>)
  BY DEF Stack!vars, Pasts
<1>1. CASE UNCHANGED vars
  <2>1. SInv'
    BY <1>1 DEF vars, SInv, Alone, Others, InOrder, Poised, Linked, Standing, Writing, Undoable, LaterMutation
  <2>2. \A r \in Recs : Past(r)' = Past(r)
    BY <1>1 DEF vars, Past, Standing, Writing, Undoable
  <2>3. QED
    BY <1>1, <2>1, <2>2 DEF vars, Pasts
<1>2. ASSUME NEW p \in Reqs, Start(p) \/ Serve(p) \/ Crash(p)
      PROVE  SInv' /\ (Stack!Next \/ UNCHANGED <<rec, Pasts>>)
  <2>1. ~Crash(p)
    BY DEF Crash, Serial
  <2>2. QED
    BY <1>2, <2>1, SerialStart, SerialMutation, SerialRollback DEF Serve
<1>3. QED
  BY <1>1, <1>2 DEF Next

LEMMA SerialInvariant == ASSUME Serial PROVE Spec => [](TInv /\ SInv)
<1>1. Init => TInv /\ SInv
  BY TInvInit, SerialInit
<1>2. TInv /\ SInv /\ [Next]_vars => TInv' /\ SInv'
  BY TInvNext, SerialNext
<1>3. QED
  BY <1>1, <1>2, PTL DEF Spec

\* A client that waits for its answers has, for each row, an undo stack: a change pushes
\* the row it replaced, a rollback that is not refused puts back exactly what the latest
\* change replaced (deleting the row, if that change created it), and nothing else --
\* marking, logging, checking -- touches what can be undone.
THEOREM WaitingClientHasUndoStack == ASSUME Serial PROVE Spec => ImplementsUndoStack
<1>1. Init => Stack!Init
  BY SerialInit
<1>2. TInv /\ SInv /\ [Next]_vars => [Stack!Next]_(Stack!vars)
  BY SerialNext
<1>3. QED
  BY <1>1, <1>2, SerialInvariant, PTL DEF Spec, Stack!Spec, ImplementsUndoStack

\* Between its commands, the entries of a row that are not rolled back form a chain that
\* ends in the row there is.
THEOREM HistoryIsChained == ASSUME Serial PROVE Spec => []VersionChain
<1>1. TInv /\ SInv => VersionChain
  <2> SUFFICES ASSUME TInv, SInv, InFlight = {}, NEW r \in Recs, NEW i \in Chain(r)
               PROVE  LET later == {j \in Chain(r) : j > i} IN
                      IF later = {} THEN rec[r] = log[i].after
                      ELSE \A j \in later :
                              (\A k \in later : j <= k) => log[j].before = log[i].after
    BY DEF VersionChain, Chain
  <2>1. Standing(r) = Chain(r) /\ Writing(r) = {} /\ Linked(r) /\ Chain(r) \subseteq Nat
    BY LogDomain DEF InFlight, Standing, Writing, Chain, Undoable, Awaits, SInv, TInv, TypeOK
  <2>2. CASE {j \in Chain(r) : j > i} = {}
    <3>1. \A k \in Chain(r) : k <= i
      BY <2>1, <2>2
    <3>2. rec[r] = log[i].after
      BY <2>1, <3>1 DEF Linked
    <3>3. QED
      BY <2>2, <3>2
  <2>3. CASE {j \in Chain(r) : j > i} # {}
    <3>1. ASSUME NEW j \in Chain(r), j > i, \A k \in Chain(r) : k > i => j <= k
          PROVE  log[j].before = log[i].after
      <4>1. i < j /\ \A k \in Chain(r) : k <= i \/ j <= k
        BY <2>1, <3>1
      <4>2. QED
        BY <2>1, <4>1 DEF Linked
    <3>2. QED
      BY <2>3, <3>1
  <2>4. QED
    BY <2>2, <2>3
<1>2. QED
  BY <1>1, SerialInvariant, PTL

\* Without force, a rollback replaces the very row its own operation left.
THEOREM UndoMeetsItsOwnWrite == ASSUME Serial PROVE Spec => UnforcedUndoMeetsItsOwnWrite
<1>1. TInv /\ SInv /\ [Next]_vars =>
          [\A p \in Reqs :
              pc[p] = "undo" /\ pc'[p] = "mark" /\ ~req[p].force =>
                  rec[req[p].target] = log[req[p].cur].after]_vars
  <2> SUFFICES ASSUME TInv, SInv, NEW p \in Reqs, pc[p] = "undo"
               PROVE  rec[req[p].target] = log[req[p].cur].after
    OBVIOUS
  <2>1. QED
    BY LastOfChain
<1>2. QED
  BY <1>1, SerialInvariant, PTL DEF Spec, UnforcedUndoMeetsItsOwnWrite
=============================================================================
