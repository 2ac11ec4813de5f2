---------------------------- MODULE TimelineList ----------------------------
(***************************************************************************)
(* One open timeline page: the reorderable list of                         *)
(* components/timeline-reorder-list.tsx, which shows an order before the   *)
(* server has stored it, over the requests of Timeline.                    *)
(*                                                                         *)
(* The framework sends a page's server actions one after another.  The     *)
(* page answers a move that changed something with its events read anew.   *)
(***************************************************************************)
EXTENDS Timeline

CONSTANTS
    Visible,  \* ids of the events that pass the page's filter
    Own       \* the requests of this page; the others are of other pages and clients

ASSUME ListAssumption == Own \subseteq Reqs /\ Null \notin Reqs

VARIABLES
    items,     \* the order of the last render by the server (serverOrder)
    shown,     \* orderRef: the order moves start from
    drawn,     \* the `order` state: what the cards are drawn in
    drag,      \* the card under the pointer, or Null
    dirty,     \* has the drag moved it?
    queue,     \* the moves that were committed and not sent
    serving,   \* the request that carries the move sent, or Null
    disturbed  \* history: someone else has written, or a save failed, or a key
               \* was used during a drag

lvars == <<items, shown, drawn, drag, dirty, queue, serving, disturbed>>
vars  == <<tvars, lvars>>

Filtered(s) == Only(s, Visible)

Pending == queue # <<>> \/ serving # Null
Cards   == ToSet(drawn) \cap ToSet(items)

\* Bound: a request is left for every move that is or may be queued.
Room == Cardinality(Idle \cap Own) > Len(queue) + (IF drag = Null THEN 0 ELSE 1)

ListInit ==
    /\ Init
    /\ items = Filtered(Stored)
    /\ shown = items
    /\ drawn = items
    /\ drag = Null /\ dirty = FALSE
    /\ queue = <<>> /\ serving = Null
    /\ disturbed = FALSE

(***************************************************************************)
(* The author.                                                             *)
(***************************************************************************)
Neighbour(s, i) == IF i \in DOMAIN s THEN s[i] ELSE Null

\* Mutant: the neighbours are those of the order before the move.
MutCommitted(e, s) ==
    LET i == PlaceOf(shown, e)
        m == [id |-> e, after |-> Neighbour(shown, i - 1), before |-> Neighbour(shown, i + 1)]
    IN IF m.after = Null /\ m.before = Null THEN queue ELSE Append(queue, m)

\* commit: the queue once the move of e to its place in s is on it.
Committed(e, s) ==
    LET i == PlaceOf(s, e)
        m == [id |-> e, after |-> Neighbour(s, i - 1), before |-> Neighbour(s, i + 1)]
    IN IF m.after = Null /\ m.before = Null THEN queue ELSE Append(queue, m)

Grab(e) ==
    /\ drag = Null /\ Room
    /\ e \in Cards
    /\ drag' = e /\ dirty' = FALSE
    /\ UNCHANGED <<tvars, items, shown, drawn, queue, serving, disturbed>>

\* onPointerMove: the card goes before the first card below the pointer, or last.
DragTo(i) ==
    LET rest == Without(shown, drag)
        next == Replaced(shown, drag, i)
    IN /\ drag \in Cards
       /\ i = Len(rest) + 1 \/ (i \in DOMAIN rest /\ rest[i] \in Cards)
       /\ next # shown
       /\ shown' = next /\ drawn' = next /\ dirty' = TRUE
       /\ UNCHANGED <<tvars, items, drag, queue, serving, disturbed>>

Drop ==
    /\ drag # Null
    /\ drag' = Null
    /\ queue' = IF dirty /\ drag \in ToSet(shown) THEN Committed(drag, shown) ELSE queue
    /\ UNCHANGED <<tvars, items, shown, drawn, dirty, serving, disturbed>>

\* onKeyDown: one place up or down.
Key(e, i) ==
    LET next == Replaced(shown, e, i) IN
    /\ e \in Cards \cap ToSet(shown) /\ Room
    /\ i \in DOMAIN shown /\ PlaceOf(shown, e) \in {i - 1, i + 1}
    /\ shown' = next /\ drawn' = next
    /\ queue' = Committed(e, next)
    /\ disturbed' = (disturbed \/ drag # Null)
    /\ UNCHANGED <<tvars, items, drag, dirty, serving>>

(***************************************************************************)
(* The page.                                                               *)
(***************************************************************************)

\* The next move is sent when the one before it has been answered.
Dispatch(p) ==
    /\ serving = Null /\ queue # <<>> /\ p \in Own
    /\ StartMove(p, Head(queue))
    /\ serving' = p
    /\ queue' = Tail(queue)
    /\ UNCHANGED <<items, shown, drawn, drag, dirty, disturbed>>

\* The answer: revalidatePath renders the events anew, an unmoved event renders
\* nothing, and the catch drops the order that was shown.
Answer ==
    /\ serving # Null
    /\ pc[serving] \in Outcomes
    /\ \E read \in {Stored} : items' = IF pc[serving] = "moved" THEN Filtered(read) ELSE items
    /\ shown' = IF pc[serving] = "failed" THEN <<>> ELSE shown
    /\ serving' = Null
    /\ UNCHANGED <<tvars, drawn, drag, dirty, queue, disturbed>>

\* The page is rendered for another reason.
Refresh ==
    /\ items # Filtered(Stored)
    /\ items' = Filtered(Stored)
    /\ UNCHANGED <<tvars, shown, drawn, drag, dirty, queue, serving, disturbed>>

\* Mutant: only a list of other length is taken over.
MutSync ==
    /\ ~Pending /\ drag = Null
    /\ Len(items) # Len(shown)
    /\ shown' = items /\ drawn' = items
    /\ UNCHANGED <<tvars, items, drag, dirty, queue, serving, disturbed>>

\* The effect that reconciles the list on every settled render.
Sync ==
    /\ ~Pending /\ drag = Null
    /\ items # shown
    /\ shown' = items /\ drawn' = items
    /\ UNCHANGED <<tvars, items, drag, dirty, queue, serving, disturbed>>

(***************************************************************************)
(* Everyone else, and the server.                                          *)
(***************************************************************************)
Others(p) ==
    /\ p \notin Own
    /\ Start(p)
    /\ disturbed' = TRUE
    /\ UNCHANGED <<items, shown, drawn, drag, dirty, queue, serving>>

Server(p) ==
    /\ Serve(p)
    /\ UNCHANGED lvars

Failure(p) ==
    /\ Fail(p)
    /\ disturbed' = TRUE
    /\ UNCHANGED <<items, shown, drawn, drag, dirty, queue, serving>>

ListNext ==
    \/ \E e \in Ids : Grab(e)
    \/ \E i \in Ids : DragTo(i)
    \/ Drop
    \/ \E e, i \in Ids : Key(e, i)
    \/ \E p \in Reqs : Dispatch(p) \/ Others(p) \/ Server(p) \/ Failure(p)
    \/ Answer \/ Refresh \/ Sync

\* The author lets go of a card, the framework sends what is queued, the server
\* answers or fails, and an effect that a render scheduled is run.
ListSpec ==
    /\ ListInit /\ [][ListNext]_vars
    /\ WF_vars(Drop)
    /\ WF_vars(\E p \in Reqs : Dispatch(p))
    /\ \A p \in Reqs : WF_vars(Server(p) \/ Failure(p))
    /\ WF_vars(Answer)
    /\ SF_vars(Sync)

(***************************************************************************)
(* Properties.                                                             *)
(***************************************************************************)
\* Events, requests and lists are typed, and no list shows an event twice.
ListTypeOK ==
    /\ TimelineTypeOK
    /\ \A list \in {items, shown, drawn} :
          list \in Seq(Ids) /\ \A i, j \in DOMAIN list : list[i] = list[j] => i = j
    /\ drag \in Ids \cup {Null} /\ dirty \in BOOLEAN
    /\ queue \in Seq(MoveArgs)
    /\ serving \in Reqs \cup {Null}
    /\ disturbed \in BOOLEAN

\* The moves on their way, in the order they will take effect.
Underway ==
    (IF serving # Null /\ pc[serving] = "commit" THEN <<req[serving].move>> ELSE <<>>) \o queue

\* What a list is after some moves.
After(s, moves) ==
    LET after[k \in 0 .. Len(moves)] == IF k = 0 THEN s ELSE Moved(after[k - 1], moves[k])
    IN after[Len(moves)]

\* While nobody else writes and no save fails, the order the list shows ahead of
\* the server is the one the server will store: each move was told by its
\* neighbours, was worked out anew, and skipped what the filter hides.
WillBeStored ==
    ~disturbed /\ drag = Null => shown = Filtered(After(Stored, Underway))

\* The list never stays with an order of its own: it comes back to what the server
\* rendered, after a move that was applied, ignored or refused alike.
Settles == []<>(shown = items /\ drawn = items)
=============================================================================
