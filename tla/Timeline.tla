------------------------------ MODULE Timeline ------------------------------
(***************************************************************************)
(* The events of one project's timeline and the requests that place them:  *)
(* createEvent, updateEvent, moveEvent and deleteEvent of the timeline     *)
(* page, and the API's timeline-events handlers and rollbacks, which do    *)
(* the same to `order` and `deletedAt`.                                    *)
(*                                                                         *)
(* An event's id is its rank by createdAt.  Of its columns only `order`    *)
(* and deletedAt are kept.  Next to the database every await is one step;  *)
(* moveEvent's $transaction commits all of its updates in one, or none.    *)
(***************************************************************************)
EXTENDS Order

CONSTANTS
    Reqs,        \* requests
    Null,        \* an argument that is not given
    Orders,      \* bound: the orders that are typed into a form or sent
    MaxEvents,   \* bound: events ever created
    MaxInFlight, \* bound: requests being served at the same time
    Failures     \* may a request fail between two awaits?

ASSUME TimelineAssumption ==
    /\ Orders \subseteq Nat /\ Null \notin Nat
    /\ MaxEvents \in Nat /\ MaxInFlight \in Nat
    /\ Failures \in BOOLEAN

Row == [order : Nat, deleted : BOOLEAN]

VARIABLES
    ev,   \* the TimelineEvent rows, by id
    pc,   \* where each request is: an await, or its outcome
    req   \* each request's parameters and local variables

tvars == <<ev, pc, req>>

Awaits   == {"insert", "place", "delete", "revive", "commit"}
Outcomes == {"ok", "moved", "unmoved", "failed"}

Ids == 1 .. MaxEvents

\* What a list tells moveEvent: the event, and the neighbours it landed between.
MoveArgs == [id : Ids, after : Ids \cup {Null}, before : Ids \cup {Null}]

(***************************************************************************)
(* The stored order.                                                       *)
(***************************************************************************)
Live == {e \in DOMAIN ev : ~ev[e].deleted}

\* orderBy order, createdAt.
Sooner(a, b) == ev[a].order < ev[b].order \/ (ev[a].order = ev[b].order /\ a < b)

Stored == InOrder(Live, {p \in Live \X Live : Sooner(p[1], p[2])})

\* moveEvent's `next`: behind the one neighbour or, if that is gone, before the other.
Moved(s, m) ==
    LET rest == Without(s, m.id) IN
    IF m.id \notin ToSet(s) THEN s
    ELSE IF m.after \in ToSet(rest) THEN InsertAt(rest, PlaceOf(rest, m.after) + 1, m.id)
    ELSE IF m.before \in ToSet(rest) THEN InsertAt(rest, PlaceOf(rest, m.before), m.id)
    ELSE s

(***************************************************************************)
(* Requests.                                                               *)
(***************************************************************************)
Blank == [id |-> Null, order |-> 0, last |-> FALSE, move |-> Null, read |-> <<>>]

Request == [id    : Ids \cup {Null},
            order : Nat,
            last  : BOOLEAN,            \* created without an order
            move  : MoveArgs \cup {Null},
            read  : Seq(Ids)]

Idle     == {p \in Reqs : pc[p] = "idle"}
InFlight == {p \in Reqs : pc[p] \in Awaits}

Init ==
    /\ \E n \in 0 .. MaxEvents : ev \in [1 .. n -> [order : Orders, deleted : BOOLEAN]]
    /\ pc = [p \in Reqs |-> "idle"]
    /\ req = [p \in Reqs |-> Blank]

\* A request arrives: its first query of the events is part of the step.
Arrive(p, step, q) ==
    /\ pc[p] = "idle"
    /\ Cardinality(InFlight) < MaxInFlight
    /\ pc' = [pc EXCEPT ![p] = step]
    /\ req' = [req EXCEPT ![p] = q]
    /\ UNCHANGED ev

\* Without an order, an event gets the number of live ones.
StartCreate(p) ==
    \E o \in Orders \cup {Null} :
        /\ Len(ev) + Cardinality({x \in Reqs : pc[x] = "insert"}) < MaxEvents
        /\ Arrive(p, "insert", [Blank EXCEPT !.order = IF o = Null THEN Cardinality(Live) ELSE o,
                                             !.last = (o = Null)])

\* Mutant: without an order, none is written.
MutStartEdit(p) ==
    \E e \in Live, o \in Orders \cup {Null} :
        Arrive(p, "place", [Blank EXCEPT !.id = e, !.order = o])

\* updateEvent writes the order it was sent or, without one, the order it read.
StartEdit(p) ==
    \E e \in Live, o \in Orders \cup {Null} :
        Arrive(p, "place", [Blank EXCEPT !.id = e, !.order = IF o = Null THEN ev[e].order ELSE o])

StartDelete(p) ==
    \E e \in Live : Arrive(p, "delete", [Blank EXCEPT !.id = e])

\* rollback-command of a delete.
StartRevive(p) ==
    \E e \in DOMAIN ev \ Live : Arrive(p, "revive", [Blank EXCEPT !.id = e])

\* moveEvent reads the live events and works out their new sequence.
StartMove(p, m) ==
    \E read \in {Stored} :
        Arrive(p, IF Moved(read, m) = read THEN "unmoved" ELSE "commit",
               [Blank EXCEPT !.id = m.id, !.move = m, !.read = read])

\* The moves some list could send.
AnyMove(p) ==
    \E e \in DOMAIN ev, a, b \in DOMAIN ev \cup {Null} :
        /\ Cardinality({e, a, b}) = 3
        /\ StartMove(p, [id |-> e, after |-> a, before |-> b])

Start(p) == StartCreate(p) \/ StartEdit(p) \/ StartDelete(p) \/ StartRevive(p) \/ AnyMove(p)

Finish(p, step, outcome, rows) ==
    /\ pc[p] = step
    /\ pc' = [pc EXCEPT ![p] = outcome]
    /\ ev' = rows
    /\ UNCHANGED req

Insert(p) ==
    Finish(p, "insert", "ok", Append(ev, [order |-> req[p].order, deleted |-> FALSE]))

Place(p)  == Finish(p, "place", "ok", [ev EXCEPT ![req[p].id].order = req[p].order])
Delete(p) == Finish(p, "delete", "ok", [ev EXCEPT ![req[p].id].deleted = TRUE])
Revive(p) == Finish(p, "revive", "ok", [ev EXCEPT ![req[p].id].deleted = FALSE])

\* Mutant: only the moved event gets a new order.
MutCommit(p) ==
    LET next == Moved(req[p].read, req[p].move) IN
    Finish(p, "commit", "moved",
           [ev EXCEPT ![req[p].id].order = PlaceOf(next, req[p].id) - 1])

\* One transaction numbers the rows that were read, from 0.
Commit(p) ==
    /\ pc[p] = "commit"
    /\ \E next \in {Moved(req[p].read, req[p].move)} :
          Finish(p, "commit", "moved",
                 [e \in DOMAIN ev |-> IF e \in ToSet(next)
                                      THEN [ev[e] EXCEPT !.order = PlaceOf(next, e) - 1]
                                      ELSE ev[e]])

\* A query throws or the Worker is evicted; a transaction may be refused because
\* another one holds its rows.
Fail(p) ==
    /\ Failures
    /\ pc[p] \in Awaits
    /\ pc' = [pc EXCEPT ![p] = "failed"]
    /\ UNCHANGED <<ev, req>>

Serve(p) == Insert(p) \/ Place(p) \/ Delete(p) \/ Revive(p) \/ Commit(p)

Next == \E p \in Reqs : Start(p) \/ Serve(p) \/ Fail(p)

Spec == Init /\ [][Next]_tvars

(***************************************************************************)
(* Properties.                                                             *)
(***************************************************************************)
TimelineTypeOK ==
    /\ ev \in Seq(Row) /\ Len(ev) <= MaxEvents
    /\ pc \in [Reqs -> {"idle"} \cup Awaits \cup Outcomes]
    /\ req \in [Reqs -> Request]

Commits(p) == pc[p] = "commit" /\ pc'[p] = "moved"

\* Request p's move leaves the other events in the order they were in, and its
\* event next to the neighbour it was anchored to.
MovesItsEventOnly(p) ==
    LET m == req[p].move
        new == Stored'
        i == PlaceOf(new, m.id)
    IN /\ Without(new, m.id) = Without(Stored, m.id)
       /\ \/ i > 1 /\ new[i - 1] = m.after
          \/ i < Len(new) /\ new[i + 1] = m.before

\* A move whose rows nobody has touched since it read them moves its event only,
\* whatever ties and gaps there were in the orders.
MoveKeepsTheRest ==
    [][\A p \in Reqs : Commits(p) /\ Stored = req[p].read => MovesItsEventOnly(p)]_tvars
=============================================================================
