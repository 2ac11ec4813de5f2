---------------------------- MODULE BillingProofs ----------------------------
(***************************************************************************)
(* Proofs about Billing, for any handlers, customers, subscriptions,       *)
(* statuses, prices and bounds, with webhooks in any order.                *)
(***************************************************************************)
EXTENDS Billing, TLAPS

\* What a row may say: a pair that came from one writer.
Sayable == Said \cup granted \cup {<<"FREE", "ACTIVE">>}

\* Every customer a row, a subscription or a handler names was made for the user.
CustomersKnown ==
    /\ row # Null => row.customer \in customers \cup {Null}
    /\ \A s \in Subs : \A i \in DOMAIN stripe[s] : stripe[s][i].customer \in customers

\* What a handler carries was said by Stripe, and who is about to update finds a row.
Carries(p) ==
    /\ pc[p] \in {"find", "update", "create"} =>
          /\ req[p].snap \in StripeSub /\ req[p].event \in Event
          /\ Says(req[p].snap) \in Said /\ req[p].snap.customer \in customers
    /\ pc[p] = "update" => row # Null
    /\ pc[p] \in {"upsert", "session"} => req[p].customer \in customers

BillingIInv == TypeOK /\ PlanExplained /\ CustomersKnown /\ \A p \in Handlers : Carries(p)

-----------------------------------------------------------------------------
(* What a subscription says *)

\* The plan a subscription stands for is a plan that is sold, or the one of its checkout.
LEMMA PlanOfSnap ==
    ASSUME NEW snap \in StripeSub
    PROVE  PlanOf(snap) \in Paid /\ <<PlanOf(snap), StatusOf(snap)>> = Says(snap)
<1>1. snap.meta \in Paid /\ Null \notin Paid
  BY BillingAssumption DEF StripeSub
<1>2. CASE snap.price \in {PriceOf[plan] : plan \in Paid}
  <2>1. PlanFromPrice(snap.price) \in Paid
    BY <1>2 DEF PlanFromPrice
  <2>2. QED
    BY <1>1, <1>2, <2>1 DEF PlanOf, StatusOf, Says
<1>3. CASE snap.price \notin {PriceOf[plan] : plan \in Paid}
  <2>1. PlanFromPrice(snap.price) = Null
    BY <1>3 DEF PlanFromPrice
  <2>2. QED
    BY <1>1, <1>3, <2>1 DEF PlanOf, StatusOf, Says
<1>4. QED
  BY <1>2, <1>3

LEMMA StatusOfSnap == ASSUME NEW snap \in StripeSub PROVE StatusOf(snap) \in RowStatuses
<1>1. snap.status \in {"active", "trialing", "past_due", "canceled", "incomplete",
                       "incomplete_expired", "unpaid", "paused"}
  BY BillingAssumption DEF StripeSub, StatusMap
<1>2. QED
  BY <1>1 DEF StatusOf, StatusMap, RowStatuses

LEMMA SyncedRow ==
    ASSUME NEW snap \in StripeSub, NEW s \in Subs
    PROVE  Synced(snap, s) \in Row /\ <<Synced(snap, s).plan, Synced(snap, s).status>> = Says(snap)
<1>1. snap.customer \in Customers
  BY DEF StripeSub
<1>2. QED
  BY <1>1, PlanOfSnap, StatusOfSnap DEF Synced, Row, Plans

-----------------------------------------------------------------------------
(* Types *)

LEMMA BlankLocal == Blank \in Local /\ Blank.event = Null
BY DEF Blank, Local, Paid

LEMMA BillingInitial == Init => BillingIInv
<1> SUFFICES ASSUME Init PROVE BillingIInv
  OBVIOUS
<1>1. stripe \in [Subs -> Seq(StripeSub)] /\ \A s \in Subs : Len(stripe[s]) <= MaxChanges
  BY BillingAssumption DEF Init
<1>2. TypeOK
  BY <1>1, BlankLocal DEF Init, TypeOK
<1>3. QED
  BY <1>2 DEF Init, BillingIInv, PlanExplained, CustomersKnown, Carries

\* A handler that is done has forgotten its request.
LEMMA DoneTypes ==
    ASSUME TypeOK, NEW p \in Handlers, Done(p)
    PROVE  /\ pc' \in [Handlers -> Awaits \cup {"idle"}] /\ req' \in [Handlers -> Local]
           /\ pc'[p] = "idle" /\ \A q \in Handlers \ {p} : pc'[q] = pc[q] /\ req'[q] = req[q]
BY BlankLocal DEF TypeOK, Done, Goto

\* A handler that goes on with its locals as they are, or as given.
LEMMA GoTypes ==
    ASSUME TypeOK, NEW p \in Handlers, NEW step \in Awaits, Goto(p, step), NEW local \in Local,
           req' = [req EXCEPT ![p] = local]
    PROVE  /\ pc' \in [Handlers -> Awaits \cup {"idle"}] /\ req' \in [Handlers -> Local]
           /\ pc'[p] = step /\ req'[p] = local
           /\ \A q \in Handlers \ {p} : pc'[q] = pc[q] /\ req'[q] = req[q]
BY DEF TypeOK, Goto

\* Handlers other than p carry what they carried, if nothing Stripe said is forgotten and the
\* row does not go away.
LEMMA OthersCarry ==
    ASSUME BillingIInv, NEW p, Said \subseteq Said', customers \subseteq customers',
           row # Null => row' # Null,
           \A q \in Handlers \ {p} : pc'[q] = pc[q] /\ req'[q] = req[q]
    PROVE  \A q \in Handlers \ {p} : Carries(q)'
BY DEF BillingIInv, Carries, Says

\* What Stripe has said is not taken back, nor what an admin has set.
LEMMA StillExplained ==
    ASSUME PlanExplained, row' = row, Said \subseteq Said', granted \subseteq granted'
    PROVE  PlanExplained'
BY DEF PlanExplained

-----------------------------------------------------------------------------
(* The steps of a handler *)

\* Steps that write neither the row nor anything at Stripe but a customer and a session.
LEMMA HandlerMoves ==
    ASSUME BillingIInv, NEW p \in Handlers, UNCHANGED <<row, stripe, granted>>,
           customers \subseteq customers', customers' \subseteq Customers,
           sessions' \subseteq customers' \X Paid, outbox' \subseteq outbox,
           live' \in BOOLEAN, hurried' \in BOOLEAN, reordered' \in BOOLEAN,
           pc' \in [Handlers -> Awaits \cup {"idle"}], req' \in [Handlers -> Local],
           \A q \in Handlers \ {p} : pc'[q] = pc[q] /\ req'[q] = req[q],
           Carries(p)'
    PROVE  BillingIInv'
<1>1. Said' = Said
  BY DEF Said, Says
<1>2. TypeOK'
  BY DEF BillingIInv, TypeOK
<1>3. \A q \in Handlers \ {p} : Carries(q)'
  BY <1>1, OthersCarry
<1>4. PlanExplained'
  BY <1>1, StillExplained DEF BillingIInv
<1>5. CustomersKnown'
  BY DEF BillingIInv, CustomersKnown
<1>6. QED
  BY <1>2, <1>3, <1>4, <1>5 DEF BillingIInv

LEMMA CheckoutSteps ==
    ASSUME BillingIInv, NEW p \in Handlers,
           \/ \E plan \in Offers : StartCheckout(p, plan)
           \/ CreateCustomer(p) \/ CreateSession(p)
    PROVE  BillingIInv'
<1> USE DEF BillingIInv, TypeOK, stripeVars, history
<1>1. ASSUME NEW plan \in Offers, StartCheckout(p, plan) PROVE BillingIInv'
  <2> DEFINE known == IF row = Null THEN Null ELSE row.customer
             local == [Blank EXCEPT !.plan = plan, !.customer = known]
  <2>1. known \in customers \cup {Null}
    BY DEF CustomersKnown
  <2>2. local \in Local /\ local.customer = known
    <3> HIDE DEF known
    <3>1. plan \in Paid
      BY BillingAssumption
    <3>2. QED
      BY <2>1, <3>1, BlankLocal DEF Local
  <2>3. PICK step \in {"session", "customer"} :
            Goto(p, step) /\ (step = "session" => known # Null)
    BY <1>1 DEF StartCheckout
  <2>4. /\ req' = [req EXCEPT ![p] = local] /\ hurried' \in BOOLEAN
        /\ UNCHANGED <<row, stripeVars, live, granted, reordered>>
    BY <1>1 DEF StartCheckout
  <2>5. /\ pc' \in [Handlers -> Awaits \cup {"idle"}] /\ req' \in [Handlers -> Local]
        /\ pc'[p] = step /\ req'[p] = local
        /\ \A q \in Handlers \ {p} : pc'[q] = pc[q] /\ req'[q] = req[q]
    <3> HIDE DEF local
    <3>1. step \in Awaits /\ Goto(p, step) /\ local \in Local /\ req' = [req EXCEPT ![p] = local]
      BY <2>2, <2>3, <2>4 DEF Awaits
    <3>2. TypeOK
      OBVIOUS
    <3> HIDE DEF TypeOK
    <3>3. QED
      BY <3>1, <3>2, GoTypes
  <2>6. Carries(p)'
    <3> HIDE DEF local, known
    <3>1. QED
      BY <2>1, <2>2, <2>3, <2>4, <2>5 DEF Carries
  <2>7. QED
    BY <2>4, <2>5, <2>6, HandlerMoves
<1>2. CASE CreateCustomer(p)
  <2>1. PICK c \in Customers \ customers :
            customers' = customers \cup {c} /\ req' = [req EXCEPT ![p].customer = c]
    BY <1>2 DEF CreateCustomer
  <2>2. [req[p] EXCEPT !.customer = c] \in Local
    BY DEF Local
  <2>3. [req[p] EXCEPT !.customer = c].customer = c
    BY DEF Local
  <2>4. /\ pc' \in [Handlers -> Awaits \cup {"idle"}] /\ req' \in [Handlers -> Local]
        /\ pc'[p] = "upsert" /\ req'[p] = [req[p] EXCEPT !.customer = c]
        /\ \A q \in Handlers \ {p} : pc'[q] = pc[q] /\ req'[q] = req[q]
    BY <1>2, <2>1, <2>2, GoTypes DEF CreateCustomer, Awaits
  <2>5. Carries(p)'
    BY <2>1, <2>3, <2>4 DEF Carries
  <2>6. UNCHANGED <<row, sessions, stripe, outbox, live, history>>
    BY <1>2 DEF CreateCustomer
  <2>7. QED
    BY <2>1, <2>4, <2>5, <2>6, HandlerMoves
<1>3. CASE CreateSession(p)
  <2>1. req[p].customer \in customers /\ req[p].plan \in Paid
    BY <1>3 DEF CreateSession, At, Carries, Local
  <2>2. Done(p) /\ UNCHANGED <<row, customers, stripe, outbox, live, history>>
        /\ sessions' = sessions \cup {<<req[p].customer, req[p].plan>>}
    BY <1>3 DEF CreateSession
  <2>3. Carries(p)'
    BY <2>2, DoneTypes DEF Carries
  <2>4. QED
    BY <2>1, <2>2, <2>3, DoneTypes, HandlerMoves
<1>4. QED
  BY <1>1, <1>2, <1>3
\* What a webhook delivers was said by Stripe.
LEMMA Delivered ==
    ASSUME BillingIInv, NEW s \in Subs, NEW i \in DOMAIN stripe[s]
    PROVE  /\ stripe[s][i] \in StripeSub /\ Says(stripe[s][i]) \in Said
           /\ stripe[s][i].customer \in customers
BY DEF BillingIInv, TypeOK, CustomersKnown, Said

LEMMA WebhookSteps ==
    ASSUME BillingIInv, NEW p \in Handlers,
           (\E e \in outbox : Receive(p, e)) \/ Find(p) \/ Reply(p) \/ Crash(p)
    PROVE  BillingIInv'
<1>0. TypeOK
  BY DEF BillingIInv
<1>1. ASSUME NEW e \in outbox, Receive(p, e) PROVE BillingIInv'
  <2> DEFINE snap == IF e.kind = "checkout" THEN Latest(e.sub) ELSE stripe[e.sub][e.version]
             local == [Blank EXCEPT !.event = e, !.snap = snap]
  <2>1. e \in Event /\ e.sub \in Subs /\ e.version \in DOMAIN stripe[e.sub]
    BY <1>0 DEF TypeOK, Event
  <2>2. Len(stripe[e.sub]) \in DOMAIN stripe[e.sub]
    BY <1>0, <2>1 DEF TypeOK
  <2>3. snap \in StripeSub /\ Says(snap) \in Said /\ snap.customer \in customers
    BY <2>1, <2>2, Delivered DEF Latest
  <2> HIDE DEF snap
  <2>4. local \in Local /\ local.event = e /\ local.snap = snap
    BY <2>1, <2>3, BlankLocal DEF Local
  <2>5. PICK step \in {"find", "update", "create"} :
            Goto(p, step) /\ (step = "update" => row # Null)
    BY <1>1 DEF Receive, Found
  <2>6. req' = [req EXCEPT ![p] = local] /\ UNCHANGED <<row, stripeVars, live, granted, hurried>>
    BY <1>1 DEF Receive, snap
  <2>7. reordered' \in BOOLEAN
    BY <1>0, <1>1 DEF Receive, Late, TypeOK
  <2> HIDE DEF local
  <2>8. /\ pc' \in [Handlers -> Awaits \cup {"idle"}] /\ req' \in [Handlers -> Local]
        /\ pc'[p] = step /\ req'[p] = local
        /\ \A q \in Handlers \ {p} : pc'[q] = pc[q] /\ req'[q] = req[q]
    <3>1. step \in Awaits
      BY <2>5 DEF Awaits
    <3>2. QED
      BY <1>0, <2>4, <2>5, <2>6, <3>1, GoTypes
  <2>9. Said' = Said
    BY <2>6 DEF stripeVars, Said, Says
  <2>10. Carries(p)'
    BY <2>1, <2>3, <2>4, <2>5, <2>6, <2>8, <2>9 DEF Carries, stripeVars, Says
  <2>11. QED
    BY <1>0, <2>6, <2>7, <2>8, <2>10, HandlerMoves DEF stripeVars, TypeOK
<1>2. CASE Find(p)
  <2>1. Carries(p) /\ pc[p] = "find"
    BY <1>2 DEF BillingIInv, Find, At
  <2>2. PICK step \in {"update", "create"} : Goto(p, step) /\ (step = "update" => row # Null)
    BY <1>2 DEF Find, Found
  <2>3. UNCHANGED <<row, stripeVars, live, req, history>>
    BY <1>2 DEF Find
  <2>4. /\ pc' \in [Handlers -> Awaits \cup {"idle"}] /\ pc'[p] = step
        /\ \A q \in Handlers \ {p} : pc'[q] = pc[q]
    BY <1>0, <2>2 DEF TypeOK, Goto, Awaits
  <2>5. Said' = Said
    BY <2>3 DEF stripeVars, Said, Says
  <2>6. Carries(p)'
    BY <2>1, <2>2, <2>3, <2>4, <2>5 DEF Carries, stripeVars, Says
  <2>7. QED
    BY <1>0, <2>3, <2>4, <2>6, HandlerMoves DEF stripeVars, history, TypeOK
<1>3. CASE Reply(p) \/ Crash(p)
  <2>1. Done(p) /\ UNCHANGED <<row, customers, sessions, stripe, live, granted, reordered>>
    BY <1>3 DEF Reply, Crash, history, stripeVars
  <2>2. outbox' \subseteq outbox /\ hurried' \in BOOLEAN
    BY <1>0, <1>3 DEF Reply, Crash, history, stripeVars, TypeOK, At
  <2>3. Carries(p)'
    BY <1>0, <2>1, DoneTypes DEF Carries
  <2>4. QED
    BY <1>0, <2>1, <2>2, <2>3, DoneTypes, HandlerMoves DEF TypeOK
<1>4. QED
  BY <1>1, <1>2, <1>3

-----------------------------------------------------------------------------
(* Who writes the row *)

\* A row that is written says something sayable and names a customer there is.
LEMMA RowWritten ==
    ASSUME BillingIInv, NEW p, UNCHANGED <<customers, sessions, stripe, outbox, live>>,
           hurried' \in BOOLEAN, reordered' \in BOOLEAN,
           granted \subseteq granted', granted' \subseteq Grants \cup {<<"FREE", "CANCELED">>},
           row' \in Row, row'.customer \in customers \cup {Null},
           <<row'.plan, row'.status>> \in Said \cup granted' \cup {<<"FREE", "ACTIVE">>},
           pc' \in [Handlers -> Awaits \cup {"idle"}], req' \in [Handlers -> Local],
           \A q \in Handlers \ {p} : pc'[q] = pc[q] /\ req'[q] = req[q],
           p \in Handlers => Carries(p)'
    PROVE  BillingIInv'
<1>1. Said' = Said
  BY DEF Said, Says
<1>2. TypeOK'
  BY DEF BillingIInv, TypeOK
<1>3. row' # Null
  BY BillingAssumption
<1>4. \A q \in Handlers \ {p} : Carries(q)'
  BY <1>1, <1>3, OthersCarry
<1>5. PlanExplained'
  BY <1>1 DEF PlanExplained
<1>6. CustomersKnown'
  BY DEF BillingIInv, CustomersKnown
<1>7. QED
  BY <1>2, <1>4, <1>5, <1>6 DEF BillingIInv

\* The row a writer begins with, if there is none.
LEMMA BaseRow ==
    ASSUME BillingIInv, NEW base, base = IF row = Null THEN FreshRow ELSE row
    PROVE  /\ base \in Row /\ base.customer \in customers \cup {Null}
           /\ <<base.plan, base.status>> \in Sayable
<1>1. CASE row = Null
  BY <1>1 DEF FreshRow, Row, Plans, RowStatuses, Sayable
<1>2. CASE row # Null
  BY <1>2 DEF BillingIInv, TypeOK, CustomersKnown, PlanExplained, Sayable
<1>3. QED
  BY <1>1, <1>2
LEMMA CustomerWritten == ASSUME BillingIInv, NEW p \in Handlers, UpsertCustomer(p) PROVE BillingIInv'
<1> DEFINE base == IF row = Null THEN FreshRow ELSE row
<1>1. base \in Row /\ <<base.plan, base.status>> \in Sayable
  BY BaseRow
<1>2. req[p].customer \in customers /\ customers \subseteq Customers
  BY DEF UpsertCustomer, At, BillingIInv, Carries, TypeOK
<1>3. row' = [base EXCEPT !.customer = req[p].customer]
  BY DEF UpsertCustomer
<1> HIDE DEF base
<1>4. /\ row' \in Row /\ row'.customer = req[p].customer
      /\ row'.plan = base.plan /\ row'.status = base.status
  BY <1>1, <1>2, <1>3 DEF Row
<1>5. /\ UNCHANGED <<stripeVars, live, req, history>> /\ pc' = [pc EXCEPT ![p] = "session"]
  BY DEF UpsertCustomer, Goto
<1>6. /\ pc' \in [Handlers -> Awaits \cup {"idle"}] /\ pc'[p] = "session"
      /\ \A q \in Handlers \ {p} : pc'[q] = pc[q]
  BY <1>5 DEF BillingIInv, TypeOK, Awaits
<1>7. Carries(p)'
  BY <1>2, <1>5, <1>6 DEF Carries, stripeVars
<1>8. QED
  BY <1>1, <1>2, <1>4, <1>5, <1>6, <1>7, RowWritten DEF stripeVars, history, BillingIInv, TypeOK, Sayable

\* A handler that has synced the row has only its answer left.
LEMMA Synchronised ==
    ASSUME BillingIInv, NEW p \in Handlers, pc[p] \in {"update", "create"},
           row' = Synced(req[p].snap, req[p].event.sub),
           Goto(p, "reply"), req' = [req EXCEPT ![p].snap = Null],
           UNCHANGED <<stripeVars, live, history>>
    PROVE  BillingIInv'
<1>0. TypeOK
  BY DEF BillingIInv
<1>1. /\ req[p].snap \in StripeSub /\ req[p].event.sub \in Subs
      /\ Says(req[p].snap) \in Said /\ req[p].snap.customer \in customers
  BY DEF BillingIInv, Carries, Event
<1>2. row' \in Row /\ <<row'.plan, row'.status>> \in Said
  BY <1>1, SyncedRow
<1>3. row'.customer \in customers
  BY <1>1 DEF Synced
<1>4. [req[p] EXCEPT !.snap = Null] \in Local
  BY <1>0 DEF TypeOK, Local
<1>5. /\ pc' \in [Handlers -> Awaits \cup {"idle"}] /\ req' \in [Handlers -> Local] /\ pc'[p] = "reply"
      /\ \A q \in Handlers \ {p} : pc'[q] = pc[q] /\ req'[q] = req[q]
  BY <1>0, <1>4, GoTypes DEF Awaits
<1>6. Carries(p)'
  BY <1>5 DEF Carries
<1>7. QED
  BY <1>0, <1>2, <1>3, <1>5, <1>6, RowWritten DEF stripeVars, history, TypeOK

LEMMA SyncSteps ==
    ASSUME BillingIInv, NEW p \in Handlers, Update(p) \/ Create(p)
    PROVE  BillingIInv'
<1>1. CASE Update(p)
  BY <1>1, Synchronised DEF Update, At
<1>2. CASE Create(p) /\ row = Null
  BY <1>2, Synchronised DEF Create, At
<1>3. CASE Create(p) /\ row # Null
  <2>1. Done(p) /\ UNCHANGED <<row, stripeVars, live, history>> /\ TypeOK
    BY <1>3 DEF Create, BillingIInv
  <2>2. Carries(p)'
    BY <2>1, DoneTypes DEF Carries
  <2>3. QED
    BY <2>1, <2>2, DoneTypes, HandlerMoves DEF stripeVars, history, TypeOK
<1>4. QED
  BY <1>1, <1>2, <1>3

LEMMA AdminSteps ==
    ASSUME BillingIInv, (\E pair \in Grants : GrantPlan(pair)) \/ RevokePlan
    PROVE  BillingIInv'
<1> DEFINE base == IF row = Null THEN FreshRow ELSE row
<1>0. TypeOK
  BY DEF BillingIInv
<1>1. base \in Row /\ base.customer \in customers \cup {Null}
  BY BaseRow
<1>2. PICK plan, status :
          /\ plan \in Plans /\ status \in RowStatuses
          /\ <<plan, status>> \in Grants \cup {<<"FREE", "CANCELED">>}
          /\ granted' = granted \cup {<<plan, status>>}
          /\ row' = [base EXCEPT !.plan = plan, !.status = status]
          /\ UNCHANGED <<stripeVars, live, pc, req, hurried, reordered>>
  <2>1. ASSUME NEW pair \in Grants, GrantPlan(pair)
        PROVE  /\ pair = <<pair[1], pair[2]>> /\ pair[1] \in Plans /\ pair[2] \in RowStatuses
               /\ granted' = granted \cup {pair}
               /\ row' = [base EXCEPT !.plan = pair[1], !.status = pair[2]]
               /\ UNCHANGED <<stripeVars, live, pc, req, hurried, reordered>>
    <3>1. pair \in Plans \X RowStatuses
      BY BillingAssumption
    <3>2. pair = <<pair[1], pair[2]>> /\ pair[1] \in Plans /\ pair[2] \in RowStatuses
      BY <3>1
    <3>3. QED
      BY <2>1, <3>2 DEF GrantPlan
  <2>2. ASSUME RevokePlan
        PROVE  /\ "FREE" \in Plans /\ "CANCELED" \in RowStatuses
               /\ granted' = granted \cup {<<"FREE", "CANCELED">>}
               /\ row' = [base EXCEPT !.plan = "FREE", !.status = "CANCELED"]
               /\ UNCHANGED <<stripeVars, live, pc, req, hurried, reordered>>
    BY <2>2 DEF RevokePlan, Plans, RowStatuses
  <2> HIDE DEF base
  <2>3. CASE \E pair \in Grants : GrantPlan(pair)
    <3>1. PICK pair \in Grants : GrantPlan(pair)
      BY <2>3
    <3>2. WITNESS pair[1], pair[2]
    <3>3. QED
      BY <2>1, <3>1
  <2>4. CASE RevokePlan
    <3>1. WITNESS "FREE", "CANCELED"
    <3>2. QED
      BY <2>2, <2>4
  <2>5. QED
    BY <2>3, <2>4
<1> HIDE DEF base
<1>3. /\ row' \in Row /\ row'.customer = base.customer /\ row'.plan = plan /\ row'.status = status
  BY <1>1, <1>2 DEF Row
<1>4. \A q \in Handlers : Carries(q)'
  <2>1. \A q \in Handlers : Carries(q)
    BY DEF BillingIInv
  <2>2. row' # Null
    BY <1>3, BillingAssumption
  <2>3. QED
    BY <1>2, <2>1, <2>2 DEF Carries, Said, Says, stripeVars
<1>5. granted' \subseteq Grants \cup {<<"FREE", "CANCELED">>}
  BY <1>0, <1>2 DEF TypeOK
<1>6. QED
  <2>1. \A q \in Handlers \ {Null} : pc'[q] = pc[q] /\ req'[q] = req[q]
    BY <1>2
  <2>2. Null \in Handlers => Carries(Null)'
    BY <1>4
  <2>3. /\ pc' \in [Handlers -> Awaits \cup {"idle"}] /\ req' \in [Handlers -> Local]
        /\ hurried' \in BOOLEAN /\ reordered' \in BOOLEAN
    BY <1>0, <1>2 DEF TypeOK
  <2>4. <<row'.plan, row'.status>> \in Said \cup granted' \cup {<<"FREE", "ACTIVE">>}
    BY <1>2, <1>3
  <2>5. UNCHANGED <<customers, sessions, stripe, outbox, live>> /\ granted \subseteq granted'
    BY <1>2 DEF stripeVars
  <2>6. QED
    BY <1>1, <1>3, <1>5, <2>1, <2>2, <2>3, <2>4, <2>5, RowWritten

-----------------------------------------------------------------------------
(* Stripe *)

\* What Stripe does on its own: one subscription gets one more version, and its events go out.
StripeStep(s, snap) ==
    /\ Len(stripe[s]) < MaxChanges /\ stripe' = [stripe EXCEPT ![s] = Append(@, snap)]
    /\ \E kinds \in {{"subscription"}, {"checkout", "subscription"}} :
          outbox' = outbox \cup Events(kinds, s, Len(stripe[s]) + 1)
    /\ sessions' \subseteq sessions
    /\ UNCHANGED <<row, customers, live, pc, req, history>>

LEMMA StripeSteps ==
    ASSUME BillingIInv, Pay \/ Change
    PROVE  \E s \in Subs, snap \in StripeSub : StripeStep(s, snap) /\ snap.customer \in customers
<1>0. TypeOK
  BY DEF BillingIInv
<1>1. CASE Pay
  <2>1. PICK session \in sessions, s \in {x \in Subs : ~Sold(x)} :
          /\ stripe' = [stripe EXCEPT ![s] =
                <<[customer |-> session[1], price |-> PriceOf[session[2]],
                   meta |-> session[2], status |-> "active"]>>]
          /\ outbox' = outbox \cup Events({"checkout", "subscription"}, s, 1)
          /\ sessions' = sessions \ {session}
          /\ UNCHANGED <<row, customers, live, pc, req, history>>
    BY <1>1 DEF Pay
  <2> DEFINE snap == [customer |-> session[1], price |-> PriceOf[session[2]],
                      meta |-> session[2], status |-> "active"]
  <2>2. session[1] \in customers /\ session[2] \in Paid /\ customers \subseteq Customers
    BY <1>0 DEF TypeOK
  <2>3. snap \in StripeSub /\ snap.customer \in customers
    BY <2>2, BillingAssumption DEF StripeSub
  <2>4. stripe[s] = <<>> /\ Len(stripe[s]) = 0 /\ MaxChanges \in Nat \ {0}
    BY <2>1, BillingAssumption DEF Sold
  <2> HIDE DEF snap
  <2>5. Append(stripe[s], snap) = <<snap>>
    BY <2>3, <2>4
  <2>6. stripe' = [stripe EXCEPT ![s] = Append(@, snap)]
    BY <2>1, <2>5 DEF snap
  <2>7. StripeStep(s, snap)
    <3>1. Len(stripe[s]) < MaxChanges /\ sessions' \subseteq sessions
      BY <2>1, <2>4
    <3>2. outbox' = outbox \cup Events({"checkout", "subscription"}, s, Len(stripe[s]) + 1)
      BY <2>1, <2>4
    <3>3. QED
      BY <2>1, <2>6, <3>1, <3>2 DEF StripeStep
  <2>8. QED
    BY <2>1, <2>3, <2>7
<1>2. CASE Change
  <2>1. PICK s \in {x \in Subs : Sold(x)} :
          \E next \in {[Latest(s) EXCEPT !.status = status] : status \in Statuses}
                      \cup {[Latest(s) EXCEPT !.price = price] : price \in Prices} :
             /\ Len(stripe[s]) < MaxChanges
             /\ stripe' = [stripe EXCEPT ![s] = Append(@, next)]
             /\ outbox' = outbox \cup Events({"subscription"}, s, Len(stripe[s]) + 1)
             /\ UNCHANGED <<row, customers, sessions, live, pc, req, history>>
    BY <1>2 DEF Change
  <2>2. Len(stripe[s]) \in DOMAIN stripe[s]
    BY <1>0, <2>1 DEF TypeOK, Sold
  <2>3. Latest(s) \in StripeSub /\ Latest(s).customer \in customers
    BY <2>2, Delivered DEF Latest
  <2>4. PICK next \in {[Latest(s) EXCEPT !.status = status] : status \in Statuses}
                      \cup {[Latest(s) EXCEPT !.price = price] : price \in Prices} :
             /\ Len(stripe[s]) < MaxChanges
             /\ stripe' = [stripe EXCEPT ![s] = Append(@, next)]
             /\ outbox' = outbox \cup Events({"subscription"}, s, Len(stripe[s]) + 1)
             /\ UNCHANGED <<row, customers, sessions, live, pc, req, history>>
    BY <2>1
  <2>5. next \in StripeSub /\ next.customer = Latest(s).customer
    BY <2>3 DEF StripeSub
  <2>6. StripeStep(s, next)
    BY <2>4 DEF StripeStep
  <2>7. QED
    BY <2>3, <2>5, <2>6
<1>3. QED
  BY <1>1, <1>2

\* Every version of every subscription keeps its place, and only s has a new one.
LEMMA StripeVersions ==
    ASSUME BillingIInv, NEW s \in Subs, NEW snap \in StripeSub, StripeStep(s, snap)
    PROVE  /\ stripe' \in [Subs -> Seq(StripeSub)] /\ Len(stripe'[s]) = Len(stripe[s]) + 1
           /\ stripe'[s][Len(stripe[s]) + 1] = snap
           /\ \A x \in Subs \ {s} : stripe'[x] = stripe[x]
           /\ \A i \in DOMAIN stripe[s] : stripe'[s][i] = stripe[s][i]
BY DEF BillingIInv, TypeOK, StripeStep

\* A subscription that goes on says what it said, and one thing more.
LEMMA StripeGoesOn ==
    ASSUME BillingIInv, NEW s \in Subs, NEW snap \in StripeSub, StripeStep(s, snap),
           snap.customer \in customers
    PROVE  BillingIInv'
<1>0. TypeOK /\ MaxChanges \in Nat
  BY BillingAssumption DEF BillingIInv
<1>1. /\ stripe' \in [Subs -> Seq(StripeSub)] /\ Len(stripe'[s]) = Len(stripe[s]) + 1
      /\ stripe'[s][Len(stripe[s]) + 1] = snap
      /\ \A x \in Subs \ {s} : stripe'[x] = stripe[x]
      /\ \A i \in DOMAIN stripe[s] : stripe'[s][i] = stripe[s][i]
  BY StripeVersions
<1>2. \A x \in Subs : /\ DOMAIN stripe[x] \subseteq DOMAIN stripe'[x]
                      /\ \A i \in DOMAIN stripe[x] : stripe'[x][i] = stripe[x][i]
                      /\ \A i \in DOMAIN stripe'[x] : i \in DOMAIN stripe[x] \/ stripe'[x][i] = snap
  <2>1. \A x \in Subs : /\ stripe[x] \in Seq(StripeSub) /\ stripe'[x] \in Seq(StripeSub)
                        /\ Len(stripe[x]) \in Nat
                        /\ DOMAIN stripe[x] = 1 .. Len(stripe[x]) /\ DOMAIN stripe'[x] = 1 .. Len(stripe'[x])
    BY <1>0, <1>1 DEF TypeOK
  <2>2. QED
    BY <1>1, <2>1
<1>3. Said \subseteq Said'
  BY <1>2 DEF Said, Says
<1>4. TypeOK'
  <2>1. \A x \in Subs : Len(stripe'[x]) <= MaxChanges
    BY <1>0, <1>1 DEF TypeOK, StripeStep
  <2>2. PICK kinds \in {{"subscription"}, {"checkout", "subscription"}} :
            outbox' = outbox \cup Events(kinds, s, Len(stripe[s]) + 1)
    BY DEF StripeStep
  <2>3. \A x \in Events(kinds, s, Len(stripe[s]) + 1) :
            x \in Event /\ x.sub = s /\ x.version = Len(stripe[s]) + 1
    BY <1>0 DEF Events, Event, StripeStep, TypeOK
  <2>4. outbox' \subseteq Event /\ \A x \in outbox' : x.version \in DOMAIN stripe'[x.sub]
    BY <1>0, <1>1, <1>2, <2>2, <2>3 DEF TypeOK, Event
  <2>5. QED
    BY <1>0, <1>1, <2>1, <2>4 DEF TypeOK, history, StripeStep
<1>5. CustomersKnown'
  BY <1>2 DEF BillingIInv, CustomersKnown, StripeStep
<1>6. PlanExplained'
  BY <1>3, StillExplained DEF BillingIInv, history, StripeStep
<1>7. \A q \in Handlers : Carries(q)'
  BY <1>3 DEF BillingIInv, Carries, Says, StripeStep
<1>8. QED
  BY <1>4, <1>5, <1>6, <1>7 DEF BillingIInv

-----------------------------------------------------------------------------

LEMMA BillingInductive == Spec => []BillingIInv
<1>1. BillingIInv /\ [Next]_vars => BillingIInv'
  <2> SUFFICES ASSUME BillingIInv, [Next]_vars PROVE BillingIInv'
    OBVIOUS
  <2>1. ASSUME NEW p \in Handlers, Step(p) PROVE BillingIInv'
    BY <2>1, CheckoutSteps, CustomerWritten, WebhookSteps, SyncSteps DEF Step
  <2>2. CASE Pay \/ Change
    BY <2>2, StripeSteps, StripeGoesOn
  <2>3. CASE (\E pair \in Grants : GrantPlan(pair)) \/ RevokePlan
    BY <2>3, AdminSteps
  <2>4. CASE SwitchOff \/ UNCHANGED vars
    <3>1. UNCHANGED <<row, stripeVars, pc, req, history>> /\ live' \in BOOLEAN
      BY <2>4 DEF SwitchOff, vars, stripeVars, history, BillingIInv, TypeOK
    <3>2. QED
      <4>1. TypeOK'
        BY <3>1 DEF BillingIInv, TypeOK, stripeVars, history
      <4>2. Said' = Said
        BY <3>1 DEF stripeVars, Said, Says
      <4>3. PlanExplained' /\ CustomersKnown'
        BY <3>1, <4>2 DEF BillingIInv, PlanExplained, CustomersKnown, stripeVars, history
      <4>4. \A p \in Handlers : Carries(p)'
        BY <3>1, <4>2 DEF BillingIInv, Carries, Says, stripeVars
      <4>5. QED
        BY <4>1, <4>3, <4>4 DEF BillingIInv
  <2>5. QED
    BY <2>1, <2>2, <2>3, <2>4 DEF Next
<1>2. QED
  BY <1>1, BillingInitial, PTL DEF Spec

\* The row, the handlers and Stripe have the types their columns and code give them.
THEOREM BillingTypes == Spec => []TypeOK
<1>1. BillingIInv => TypeOK
  BY DEF BillingIInv
<1>2. QED
  BY <1>1, BillingInductive, PTL

\* Plan and status of the row were said together by one writer, however webhooks, checkouts
\* and admins interleave, and in whatever order events arrive.
THEOREM RowIsExplained == Spec => []PlanExplained
<1>1. BillingIInv => PlanExplained
  BY DEF BillingIInv
<1>2. QED
  BY <1>1, BillingInductive, PTL
-----------------------------------------------------------------------------
(* What is told last *)

\* The event of the newest version of a subscription.
News(s) == [kind |-> "subscription", sub |-> s, version |-> Len(stripe[s])]

Serves(p) == pc[p] \in {"find", "update", "create", "reply"}

\* The newest version of s has reached the row: the handler that wrote it answers, or has.
Told(s) == News(s) \notin outbox \/ \E p \in Handlers : pc[p] = "reply" /\ req[p].event = News(s)

\* An event that is worked on has not been answered, and no other handler works on it.
ServedOnce ==
    /\ \A p \in Handlers : Serves(p) => req[p].event \in outbox
    /\ \A p, q \in Handlers : Serves(p) /\ Serves(q) /\ p # q => req[p].event # req[q].event

\* What is carried of the newest version is that version, a checkout's second look included.
CarriesNews ==
    \A p \in Handlers :
       LET e == req[p].event IN
       /\ pc[p] \in {"find", "update", "create"} /\ e.version = Len(stripe[e.sub])
       => req[p].snap = Latest(e.sub)

\* With events in order, nobody works on news while something older has no answer.
NewsWaits ==
    \A e \in outbox : e.version < Len(stripe[e.sub]) =>
        /\ News(e.sub) \in outbox
        /\ \A p \in Handlers : Serves(p) => req[p].event # News(e.sub)

\* A row that names a subscription says its newest version, or an admin's grant, or the
\* news is still to come.
RowFollows ==
    row # Null =>
      /\ row.sub \in Subs =>
            Sold(row.sub) /\ (Told(row.sub) => <<row.plan, row.status>> \in {Says(Latest(row.sub))} \cup granted)
      /\ row.sub = Null => <<row.plan, row.status>> \in {<<"FREE", "ACTIVE">>} \cup granted

\* Once a version reached the row, it names a subscription and a customer.
RowNames ==
    /\ \A s \in Subs : Sold(s) /\ Told(s) => row # Null /\ row.sub # Null
    /\ row # Null /\ row.sub # Null => row.customer # Null

\* Checkouts that do not hurry make one customer, and the row remembers it.
OneCustomer ==
    /\ \A p, q \in MakingCustomer : p = q
    /\ \A p \in Handlers : pc[p] = "customer" => customers = {}
    /\ \/ customers = {}
       \/ row # Null /\ row.customer # Null
       \/ \E p \in Handlers : pc[p] = "upsert"
    /\ \A c, d \in customers : c = d

TellIInv ==
    /\ ServedOnce /\ CarriesNews /\ RowNames
    /\ ~reordered => NewsWaits /\ RowFollows
    /\ ~hurried => OneCustomer

LEMMA TellInitial == Init => TellIInv
<1> SUFFICES ASSUME Init PROVE TellIInv
  OBVIOUS
<1>1. \A s \in Subs : ~Sold(s)
  BY DEF Init, Sold
<1>2. MakingCustomer = {}
  BY DEF Init, MakingCustomer
<1>3. QED
  BY <1>1, <1>2 DEF Init, TellIInv, ServedOnce, CarriesNews, NewsWaits, RowFollows, RowNames,
                    OneCustomer, Serves

-----------------------------------------------------------------------------
(* The effects of the steps on events and those who work on them *)

Quietly(p) ==
    \/ \E plan \in Offers : StartCheckout(p, plan)
    \/ CreateCustomer(p) \/ UpsertCustomer(p) \/ CreateSession(p)
    \/ Find(p) \/ Update(p) \/ Create(p) \/ Crash(p)

\* Steps that take no event up and answer none: who works on an event did before, with what
\* it carried, and who is to answer was, or has just written the row.
LEMMA QuietSteps ==
    ASSUME BillingIInv, NEW p \in Handlers, Quietly(p)
    PROVE  /\ UNCHANGED <<stripe, outbox, granted, reordered>>
           /\ \A q \in Handlers \ {p} : pc'[q] = pc[q] /\ req'[q] = req[q]
           /\ Serves(p)' => Serves(p) /\ req'[p].event = req[p].event
           /\ pc'[p] \in {"find", "update", "create"} => pc[p] = "find" /\ req'[p].snap = req[p].snap
           /\ pc'[p] = "reply" => pc[p] \in {"update", "create"}
                                  /\ row' = Synced(req[p].snap, req[p].event.sub)
           /\ pc'[p] # "reply" => UpsertCustomer(p) \/ row' = row
<1>0. TypeOK
  BY DEF BillingIInv
<1>1. ASSUME NEW plan \in Offers, StartCheckout(p, plan)
      PROVE  /\ UNCHANGED <<row, stripe, outbox, granted, reordered>>
             /\ pc'[p] \in {"session", "customer"}
             /\ \A q \in Handlers \ {p} : pc'[q] = pc[q] /\ req'[q] = req[q]
  BY <1>0, <1>1 DEF StartCheckout, stripeVars, Goto, TypeOK
<1>2. CASE CreateCustomer(p)
  BY <1>0, <1>2 DEF CreateCustomer, history, Goto, TypeOK, Serves
<1>3. CASE UpsertCustomer(p)
  BY <1>0, <1>3 DEF UpsertCustomer, history, stripeVars, Goto, TypeOK, Serves
<1>4. CASE CreateSession(p) \/ Crash(p)
  <2>1. UNCHANGED <<row, stripe, outbox, granted, reordered>> /\ Done(p)
    BY <1>4 DEF CreateSession, Crash, history, stripeVars
  <2>2. QED
    BY <1>0, <2>1, DoneTypes DEF Serves
<1>5. CASE Find(p)
  <2>1. UNCHANGED <<row, stripe, outbox, granted, reordered, req>> /\ pc[p] = "find"
    BY <1>5 DEF Find, At, history, stripeVars
  <2>2. pc'[p] \in {"update", "create"} /\ \A q \in Handlers \ {p} : pc'[q] = pc[q]
    BY <1>0, <1>5 DEF Find, Found, Goto, TypeOK
  <2>3. QED
    BY <2>1, <2>2 DEF Serves
<1>6. ASSUME pc[p] \in {"update", "create"}, row' = Synced(req[p].snap, req[p].event.sub),
             Goto(p, "reply"), req' = [req EXCEPT ![p].snap = Null],
             UNCHANGED <<stripeVars, live, history>>
      PROVE  /\ UNCHANGED <<stripe, outbox, granted, reordered>>
             /\ \A q \in Handlers \ {p} : pc'[q] = pc[q] /\ req'[q] = req[q]
             /\ Serves(p) /\ req'[p].event = req[p].event /\ pc'[p] = "reply"
  BY <1>0, <1>6 DEF Goto, history, stripeVars, TypeOK, Serves, Local
<1>7. CASE Update(p)
  BY <1>6, <1>7 DEF Update, At
<1>8. CASE Create(p) /\ row = Null
  BY <1>6, <1>8 DEF Create, At
<1>9. CASE Create(p) /\ row # Null
  <2>1. UNCHANGED <<row, stripe, outbox, granted, reordered>> /\ Done(p)
    BY <1>9 DEF Create, history, stripeVars
  <2>2. QED
    BY <1>0, <2>1, DoneTypes DEF Serves
<1>10. QED
  BY <1>1, <1>2, <1>3, <1>4, <1>5, <1>7, <1>8, <1>9 DEF Quietly, Serves

\* A handler takes up an event no other handler works on.
LEMMA ReceiveStep ==
    ASSUME BillingIInv, NEW p \in Handlers, NEW e \in outbox, Receive(p, e)
    PROVE  /\ UNCHANGED <<row, stripe, customers, outbox, granted, hurried>>
           /\ \A q \in Handlers \ {p} : pc'[q] = pc[q] /\ req'[q] = req[q] /\ req[q].event # e
           /\ pc'[p] \in {"find", "update", "create"} /\ req'[p].event = e
           /\ e.version = Len(stripe[e.sub]) => req'[p].snap = Latest(e.sub)
           /\ ~reordered' => ~reordered /\ ~Late(e)
           /\ pc[p] = "idle"
<1>0. TypeOK
  BY DEF BillingIInv
<1>1. UNCHANGED <<row, stripe, customers, outbox, granted, hurried>> /\ pc[p] = "idle"
      /\ e \notin BeingServed /\ reordered' = (reordered \/ Late(e))
  BY DEF Receive, At, stripeVars
<1> DEFINE snap == IF e.kind = "checkout" THEN Latest(e.sub) ELSE stripe[e.sub][e.version]
<1>2. req' = [req EXCEPT ![p] = [Blank EXCEPT !.event = e, !.snap = snap]]
  BY DEF Receive
<1>3. pc'[p] \in {"find", "update", "create"} /\ \A q \in Handlers \ {p} : pc'[q] = pc[q]
  BY <1>0 DEF Receive, Found, Goto, TypeOK
<1>4. e.version = Len(stripe[e.sub]) => snap = Latest(e.sub)
  BY DEF Latest
<1> HIDE DEF snap
<1>5. [Blank EXCEPT !.event = e, !.snap = snap].event = e /\ [Blank EXCEPT !.event = e, !.snap = snap].snap = snap
  BY DEF Blank
<1>6. req'[p].event = e /\ req'[p].snap = snap /\ \A q \in Handlers \ {p} : req'[q] = req[q]
  BY <1>0, <1>2, <1>5 DEF TypeOK
<1>7. QED
  BY <1>1, <1>3, <1>4, <1>6 DEF BeingServed

\* A handler answers the event it worked on, and no other.
LEMMA ReplyStep ==
    ASSUME BillingIInv, NEW p \in Handlers, Reply(p)
    PROVE  /\ UNCHANGED <<row, stripe, customers, history>>
           /\ \A q \in Handlers \ {p} : pc'[q] = pc[q] /\ req'[q] = req[q]
           /\ pc[p] = "reply" /\ pc'[p] = "idle" /\ outbox' = outbox \ {req[p].event}
BY DoneTypes DEF Reply, At, BillingIInv, history

\* News of s is on its way and nobody has it yet; other subscriptions' news is what it was.
LEMMA StripeNews ==
    ASSUME BillingIInv, ServedOnce, NEW s \in Subs, NEW snap \in StripeSub, StripeStep(s, snap)
    PROVE  /\ News(s)' \in outbox' /\ \A p \in Handlers : Serves(p) => req[p].event # News(s)'
           /\ outbox \subseteq outbox' /\ \A o \in outbox' \ outbox : o.sub = s
           /\ \A x \in Subs \ {s} : /\ News(x)' = News(x) /\ Latest(x)' = Latest(x)
                                    /\ Sold(x)' = Sold(x) /\ Told(x)' = Told(x)
           /\ ~Told(s)' /\ Sold(s)'
<1>1. /\ Len(stripe'[s]) = Len(stripe[s]) + 1 /\ Len(stripe[s]) \in Nat
      /\ \A x \in Subs \ {s} : stripe'[x] = stripe[x]
  BY StripeVersions DEF BillingIInv, TypeOK
<1>2. PICK kinds \in {{"subscription"}, {"checkout", "subscription"}} :
          outbox' = outbox \cup Events(kinds, s, Len(stripe[s]) + 1)
  BY DEF StripeStep
<1>3. News(s)' = [kind |-> "subscription", sub |-> s, version |-> Len(stripe[s]) + 1]
  BY <1>1 DEF News
<1>4. News(s)' \in outbox'
  BY <1>2, <1>3 DEF Events
<1>5. \A o \in outbox : o.sub \in Subs /\ (o.sub = s => o.version <= Len(stripe[s]))
  BY DEF BillingIInv, TypeOK, Event
<1>6. News(s)'.sub = s /\ News(s)'.version = Len(stripe[s]) + 1
  BY <1>3
<1>7. News(s)' \notin outbox
  BY <1>1, <1>5, <1>6
<1>8. \A p \in Handlers : Serves(p) => req[p].event # News(s)'
  BY <1>7 DEF ServedOnce
<1>9. UNCHANGED <<pc, req>>
  BY DEF StripeStep
<1>10. ~Told(s)' /\ Sold(s)'
  <2>1. stripe'[s] # <<>>
    BY <1>1
  <2>2. QED
    BY <1>4, <1>8, <1>9, <2>1 DEF Told, Serves, Sold
<1>11. \A o \in outbox' \ outbox : o.sub = s
  BY <1>2 DEF Events
<1>12. ASSUME NEW x \in Subs \ {s}
       PROVE  News(x)' = News(x) /\ Latest(x)' = Latest(x) /\ Sold(x)' = Sold(x) /\ Told(x)' = Told(x)
  <2>1. News(x)' = News(x) /\ Latest(x)' = Latest(x) /\ Sold(x)' = Sold(x)
    BY <1>1 DEF News, Latest, Sold
  <2>2. News(x).sub # s
    BY DEF News
  <2>3. News(x)' \in outbox' <=> News(x) \in outbox
    BY <1>2, <1>11, <2>1, <2>2
  <2>4. QED
    BY <1>9, <2>1, <2>3 DEF Told
<1>13. QED
  BY <1>2, <1>4, <1>8, <1>10, <1>11, <1>12

-----------------------------------------------------------------------------
(* The clauses are kept *)

LEMMA ServedOnceStep ==
    ASSUME BillingIInv, ServedOnce, NEW p \in Handlers, Step(p)
    PROVE  ServedOnce'
<1>1. CASE Quietly(p)
  BY <1>1, QuietSteps DEF ServedOnce, Serves
<1>2. ASSUME NEW e \in outbox, Receive(p, e) PROVE ServedOnce'
  BY <1>2, ReceiveStep DEF ServedOnce, Serves
<1>3. CASE Reply(p)
  BY <1>3, ReplyStep DEF ServedOnce, Serves
<1>4. QED
  BY <1>1, <1>2, <1>3 DEF Step, Quietly

LEMMA CarriesNewsStep ==
    ASSUME BillingIInv, CarriesNews, NEW p \in Handlers, Step(p)
    PROVE  CarriesNews'
<1>1. CASE Quietly(p)
  BY <1>1, QuietSteps DEF CarriesNews, Latest, Serves
<1>2. ASSUME NEW e \in outbox, Receive(p, e) PROVE CarriesNews'
  BY <1>2, ReceiveStep DEF CarriesNews, Latest
<1>3. CASE Reply(p)
  BY <1>3, ReplyStep DEF CarriesNews, Latest
<1>4. QED
  BY <1>1, <1>2, <1>3 DEF Step, Quietly

LEMMA NewsWaitsStep ==
    ASSUME BillingIInv, ServedOnce, ~reordered => NewsWaits, NEW p \in Handlers, Step(p), ~reordered'
    PROVE  NewsWaits'
<1>1. CASE Quietly(p)
  <2>1. UNCHANGED <<stripe, outbox, reordered>>
    BY <1>1, QuietSteps
  <2>2. \A q \in Handlers : Serves(q)' => Serves(q) /\ req'[q].event = req[q].event
    BY <1>1, QuietSteps DEF Serves
  <2>3. QED
    BY <2>1, <2>2 DEF NewsWaits, News
<1>2. ASSUME NEW e \in outbox, Receive(p, e) PROVE NewsWaits'
  <2>1. UNCHANGED <<stripe, outbox>> /\ ~reordered /\ ~Late(e) /\ req'[p].event = e
        /\ \A q \in Handlers \ {p} : pc'[q] = pc[q] /\ req'[q] = req[q]
    BY <1>2, ReceiveStep
  <2>2. ASSUME NEW o \in outbox, o.version < Len(stripe[o.sub])
        PROVE  e # News(o.sub)
    BY <2>1, <2>2 DEF Late, News
  <2>3. QED
    BY <2>1, <2>2 DEF NewsWaits, News, Serves
<1>3. CASE Reply(p)
  <2>1. UNCHANGED <<stripe, reordered>> /\ outbox' = outbox \ {req[p].event}
        /\ Serves(p) /\ ~Serves(p)' /\ \A q \in Handlers \ {p} : pc'[q] = pc[q] /\ req'[q] = req[q]
    BY <1>3, ReplyStep DEF history, Serves
  <2>2. QED
    BY <2>1 DEF NewsWaits, News, Serves
<1>4. QED
  BY <1>1, <1>2, <1>3 DEF Step, Quietly

\* Who is about to write the row carries the newest version, or the newest one has not reached
\* any handler.
LEMMA WriterKnows ==
    ASSUME BillingIInv, ServedOnce, CarriesNews, NEW p \in Handlers, pc[p] \in {"find", "update", "create"}
    PROVE  LET s == req[p].event.sub IN
           /\ s \in Subs /\ Sold(s)
           /\ NewsWaits => req[p].snap = Latest(s) \/ ~Told(s)
           /\ req[p].event = News(s) => req[p].snap = Latest(s)
<1> DEFINE e == req[p].event
           s == e.sub
<1>1. e \in outbox /\ e \in Event /\ s \in Subs /\ e.version \in DOMAIN stripe[s]
  BY DEF ServedOnce, Serves, BillingIInv, TypeOK, Event
<1>2. stripe[s] \in Seq(StripeSub) /\ e.version \in Nat /\ Len(stripe[s]) \in Nat
      /\ e.version <= Len(stripe[s]) /\ Sold(s)
  BY <1>1 DEF BillingIInv, TypeOK, Sold, Event
<1>3. e.version = Len(stripe[s]) => req[p].snap = Latest(s)
  BY DEF CarriesNews
<1>4. ASSUME NewsWaits, e.version < Len(stripe[s]) PROVE ~Told(s)
  <2>1. News(s) \in outbox /\ \A q \in Handlers : Serves(q) => req[q].event # News(s)
    BY <1>1, <1>4 DEF NewsWaits
  <2>2. QED
    BY <2>1 DEF Told, Serves
<1>5. e = News(s) => e.version = Len(stripe[s])
  BY DEF News
<1>6. QED
  BY <1>1, <1>2, <1>3, <1>4, <1>5

\* Unless p writes the row, nothing more is told than was.
LEMMA StillTold ==
    ASSUME BillingIInv, NEW p \in Handlers, Step(p), pc'[p] # "reply", NEW s \in Subs, Told(s)'
    PROVE  Told(s)
<1>1. CASE Quietly(p)
  BY <1>1, QuietSteps DEF Told, News
<1>2. ASSUME NEW e \in outbox, Receive(p, e) PROVE Told(s)
  BY <1>2, ReceiveStep DEF Told, News
<1>3. CASE Reply(p)
  BY <1>3, ReplyStep DEF Told, News
<1>4. QED
  BY <1>1, <1>2, <1>3 DEF Step, Quietly

\* What a step that does not sync the row does to it.
LEMMA RowKept ==
    ASSUME BillingIInv, NEW p \in Handlers, Step(p), pc'[p] # "reply"
    PROVE  /\ UNCHANGED <<stripe, granted>>
           /\ row' = row \/ UpsertCustomer(p)
<1>1. CASE Quietly(p)
  BY <1>1, QuietSteps
<1>2. ASSUME NEW e \in outbox, Receive(p, e) PROVE UNCHANGED <<stripe, granted, row>>
  BY <1>2, ReceiveStep
<1>3. CASE Reply(p)
  BY <1>3, ReplyStep DEF history
<1>4. QED
  BY <1>1, <1>2, <1>3 DEF Step, Quietly

\* A customer written into the row changes nothing else of it.
LEMMA Upserted ==
    ASSUME BillingIInv, NEW p \in Handlers, UpsertCustomer(p)
    PROVE  /\ row' # Null /\ row'.customer \in customers /\ row'.customer # Null
           /\ row # Null => row'.plan = row.plan /\ row'.status = row.status /\ row'.sub = row.sub
           /\ row = Null => row'.plan = "FREE" /\ row'.status = "ACTIVE" /\ row'.sub = Null
<1> DEFINE base == IF row = Null THEN FreshRow ELSE row
<1>1. base \in Row
  BY BaseRow
<1>2. req[p].customer \in customers /\ customers \subseteq Customers
  BY DEF UpsertCustomer, At, BillingIInv, Carries, TypeOK
<1>3. row' = [base EXCEPT !.customer = req[p].customer]
  BY DEF UpsertCustomer
<1>4. row = Null => base.plan = "FREE" /\ base.status = "ACTIVE" /\ base.sub = Null
  BY DEF FreshRow
<1>5. row # Null => base = row
  OBVIOUS
<1> HIDE DEF base
<1>6. /\ row' \in Row /\ row'.customer = req[p].customer /\ row'.sub = base.sub
      /\ row'.plan = base.plan /\ row'.status = base.status
  BY <1>1, <1>2, <1>3 DEF Row
<1>7. QED
  BY <1>2, <1>4, <1>5, <1>6, BillingAssumption

\* A synced row names the subscription it was synced from, and a customer.
LEMMA SyncedNames ==
    ASSUME BillingIInv, NEW p \in Handlers, Step(p), pc'[p] = "reply"
    PROVE  LET s == req[p].event.sub IN
           /\ UNCHANGED <<stripe, outbox, granted, reordered>> /\ pc[p] \in {"update", "create"}
           /\ req'[p].event = req[p].event
           /\ \A q \in Handlers \ {p} : pc'[q] = pc[q] /\ req'[q] = req[q]
           /\ row' # Null /\ row'.sub = s /\ row'.sub \in Subs /\ row'.sub # Null
           /\ row'.customer # Null
           /\ <<row'.plan, row'.status>> = Says(req[p].snap)
<1>1. Quietly(p)
  <2>1. ~Reply(p)
    BY ReplyStep
  <2>2. \A e \in outbox : ~Receive(p, e)
    BY ReceiveStep
  <2>3. QED
    BY <2>1, <2>2 DEF Step, Quietly
<1>2. /\ UNCHANGED <<stripe, outbox, granted, reordered>> /\ pc[p] \in {"update", "create"}
      /\ req'[p].event = req[p].event /\ row' = Synced(req[p].snap, req[p].event.sub)
      /\ \A q \in Handlers \ {p} : pc'[q] = pc[q] /\ req'[q] = req[q]
  BY <1>1, QuietSteps DEF Serves
<1>3. req[p].snap \in StripeSub /\ req[p].event.sub \in Subs /\ req[p].snap.customer \in customers
  BY <1>2 DEF BillingIInv, Carries, Event
<1>4. row' \in Row /\ <<row'.plan, row'.status>> = Says(req[p].snap)
  BY <1>2, <1>3, SyncedRow
<1>5. row'.sub = req[p].event.sub /\ row'.customer = req[p].snap.customer
  BY <1>2 DEF Synced
<1>6. QED
  BY <1>2, <1>3, <1>4, <1>5, BillingAssumption DEF BillingIInv, TypeOK

LEMMA RowFollowsStep ==
    ASSUME BillingIInv, ServedOnce, CarriesNews, ~reordered => NewsWaits /\ RowFollows,
           NEW p \in Handlers, Step(p), ~reordered'
    PROVE  RowFollows'
<1>0. ~reordered
  <2>1. ASSUME NEW e \in outbox, Receive(p, e) PROVE ~reordered
    BY <2>1, ReceiveStep
  <2>2. CASE Quietly(p)
    BY <2>2, QuietSteps
  <2>3. CASE Reply(p)
    BY <2>3, ReplyStep DEF history
  <2>4. QED
    BY <2>1, <2>2, <2>3 DEF Step, Quietly
<1>1. CASE pc'[p] = "reply"
  <2>0. PICK s : s = req[p].event.sub
    OBVIOUS
  <2>1. /\ UNCHANGED <<stripe, outbox, granted>> /\ req'[p].event = req[p].event
        /\ \A q \in Handlers \ {p} : pc'[q] = pc[q] /\ req'[q] = req[q]
        /\ row' # Null /\ row'.sub = s /\ row'.sub # Null /\ <<row'.plan, row'.status>> = Says(req[p].snap)
        /\ pc[p] \in {"find", "update", "create"}
    BY <1>1, <2>0, SyncedNames
  <2>2. /\ s \in Subs /\ Sold(s)
        /\ req[p].snap = Latest(s) \/ ~Told(s)
        /\ req[p].event = News(s) => req[p].snap = Latest(s)
    BY <1>0, <2>0, <2>1, WriterKnows
  <2>3. News(s)' = News(s) /\ Latest(s)' = Latest(s) /\ Sold(s)' = Sold(s)
    BY <2>1 DEF News, Latest, Sold
  <2>4. Told(s)' => Told(s) \/ req[p].event = News(s)
    BY <2>1, <2>3 DEF Told
  <2>5. Told(s)' => <<row'.plan, row'.status>> = Says(Latest(s))
    BY <2>1, <2>2, <2>4
  <2>6. Says(Latest(s))' = Says(Latest(s))
    BY <2>3 DEF Says
  <2>7. Told(row.sub)' <=> Told(s)'
    BY <2>1 DEF Told, News
  <2>8. Sold(row.sub)' /\ Says(Latest(row.sub))' = Says(Latest(s))'
    BY <2>1, <2>2, <2>3 DEF Sold, Latest, Says
  <2>9. QED
    BY <2>1, <2>5, <2>6, <2>7, <2>8 DEF RowFollows
<1>2. CASE pc'[p] # "reply"
  <2>1. UNCHANGED <<stripe, granted>> /\ (row' = row \/ UpsertCustomer(p))
    BY <1>2, RowKept
  <2>2. ASSUME NEW s \in Subs PROVE (Told(s)' => Told(s)) /\ Latest(s)' = Latest(s) /\ Sold(s)' = Sold(s)
    BY <1>2, <2>1, StillTold DEF Latest, Sold
  <2>3. CASE row' = row
    <3>1. SUFFICES ASSUME row # Null PROVE RowFollows'
      BY <2>3 DEF RowFollows
    <3>2. CASE row.sub \in Subs
      <4>1. Told(row.sub)' => Told(row.sub)
        BY <1>2, <2>3, <3>2, StillTold DEF Told, News
      <4>2. Sold(row.sub)' = Sold(row.sub) /\ Says(Latest(row.sub))' = Says(Latest(row.sub))
        BY <2>1, <2>3 DEF Sold, Latest, Says
      <4>3. QED
        BY <1>0, <2>1, <2>3, <3>1, <3>2, <4>1, <4>2, BillingAssumption DEF RowFollows
    <3>3. CASE row.sub = Null
      BY <1>0, <2>1, <2>3, <3>1, <3>3, BillingAssumption DEF RowFollows
    <3>4. QED
      BY <3>1, <3>2, <3>3 DEF BillingIInv, TypeOK, Row
  <2>4. CASE UpsertCustomer(p) /\ row # Null
    <3>1. row' # Null /\ row'.plan = row.plan /\ row'.status = row.status /\ row'.sub = row.sub
      BY <2>4, Upserted
    <3>2. CASE row.sub \in Subs
      <4>1. Told(row.sub)' => Told(row.sub)
        BY <1>2, <3>1, <3>2, StillTold DEF Told, News
      <4>2. Sold(row.sub)' = Sold(row.sub) /\ Says(Latest(row.sub))' = Says(Latest(row.sub))
        BY <2>1, <3>1 DEF Sold, Latest, Says
      <4>3. QED
        BY <1>0, <2>1, <2>4, <3>1, <3>2, <4>1, <4>2, BillingAssumption DEF RowFollows
    <3>3. CASE row.sub = Null
      BY <1>0, <2>1, <2>4, <3>1, <3>3, BillingAssumption DEF RowFollows
    <3>4. QED
      BY <2>4, <3>2, <3>3 DEF BillingIInv, TypeOK, Row
  <2>5. CASE UpsertCustomer(p) /\ row = Null
    BY <2>5, Upserted, BillingAssumption DEF RowFollows
  <2>6. QED
    BY <2>1, <2>3, <2>4, <2>5
<1>3. QED
  BY <1>1, <1>2

LEMMA RowNamesStep ==
    ASSUME BillingIInv, RowNames, NEW p \in Handlers, Step(p)
    PROVE  RowNames'
<1>1. CASE pc'[p] = "reply"
  <2>1. row' # Null /\ row'.sub # Null /\ row'.customer # Null
    BY <1>1, SyncedNames
  <2>2. QED
    BY <2>1 DEF RowNames
<1>2. CASE pc'[p] # "reply"
  <2>1. UNCHANGED <<stripe, granted>> /\ (row' = row \/ UpsertCustomer(p))
    BY <1>2, RowKept
  <2>2. ASSUME NEW s \in Subs PROVE Sold(s)' /\ Told(s)' => Sold(s) /\ Told(s)
    BY <1>2, <2>1, StillTold DEF Sold
  <2>3. row # Null => row' # Null /\ row'.sub = row.sub
    BY <2>1, Upserted
  <2>4. row' # Null /\ row'.sub # Null => row'.customer # Null
    BY <2>1, Upserted DEF RowNames
  <2>5. QED
    BY <2>2, <2>3, <2>4 DEF RowNames
<1>3. QED
  BY <1>1, <1>2

\* A checkout makes a customer only when the row has none and no other checkout makes one.
LEMMA OneCustomerStep ==
    ASSUME BillingIInv, RowNames, ~hurried => OneCustomer, NEW p \in Handlers, Step(p), ~hurried'
    PROVE  OneCustomer'
<1>0. TypeOK
  BY DEF BillingIInv
<1>1. ASSUME ~hurried, UNCHANGED customers,
             \A q \in Handlers \ {p} : pc'[q] = pc[q],
             pc'[p] \notin {"customer", "upsert"}, pc[p] # "upsert",
             row # Null => row' # Null,
             row # Null /\ row.customer # Null => row'.customer # Null
      PROVE  OneCustomer'
  <2>1. OneCustomer /\ MakingCustomer' \subseteq MakingCustomer
    BY <1>1 DEF MakingCustomer
  <2>2. \A q \in Handlers : pc'[q] = "customer" => pc[q] = "customer"
    BY <1>1
  <2>3. ASSUME NEW q \in Handlers, pc[q] = "upsert" PROVE pc'[q] = "upsert"
    BY <1>1, <2>3
  <2>4. QED
    BY <1>1, <2>1, <2>2, <2>3 DEF OneCustomer
<1>2. ASSUME NEW plan \in Offers, StartCheckout(p, plan) PROVE OneCustomer'
  <2>1. /\ UNCHANGED <<row, customers>> /\ pc[p] = "idle"
        /\ \A q \in Handlers \ {p} : pc'[q] = pc[q]
    BY <1>0, <1>2 DEF StartCheckout, stripeVars, Goto, At, TypeOK
  <2>2. ~hurried
    BY <1>2 DEF StartCheckout
  <2>3. CASE pc'[p] # "customer"
    <3>1. pc'[p] = "session"
      BY <1>0, <1>2, <2>3 DEF StartCheckout, Goto, TypeOK
    <3>2. QED
      BY <1>1, <2>1, <2>2, <3>1
  <2>4. CASE pc'[p] = "customer"
    <3>1. (row = Null \/ row.customer = Null) /\ MakingCustomer = {}
      BY <1>0, <1>2, <2>4 DEF StartCheckout, Goto, TypeOK
    <3>2. customers = {}
      BY <2>2, <3>1 DEF OneCustomer, MakingCustomer
    <3>3. MakingCustomer' = {p}
      BY <2>1, <2>4, <3>1 DEF MakingCustomer
    <3>4. QED
      BY <2>1, <3>2, <3>3 DEF OneCustomer
  <2>5. QED
    BY <2>3, <2>4
<1>3. CASE CreateCustomer(p)
  <2>1. /\ UNCHANGED <<row, hurried>> /\ pc[p] = "customer" /\ pc'[p] = "upsert"
        /\ \A q \in Handlers \ {p} : pc'[q] = pc[q]
        /\ \E c \in Customers \ customers : customers' = customers \cup {c}
    BY <1>0, <1>3 DEF CreateCustomer, history, Goto, At, TypeOK
  <2>2. OneCustomer /\ customers = {}
    BY <2>1 DEF OneCustomer
  <2>3. MakingCustomer' = MakingCustomer /\ p \in MakingCustomer
    BY <2>1 DEF MakingCustomer
  <2>4. \A q \in Handlers : pc'[q] # "customer"
    BY <2>1, <2>2, <2>3 DEF OneCustomer, MakingCustomer
  <2>5. QED
    BY <2>1, <2>2, <2>3, <2>4 DEF OneCustomer
<1>4. CASE UpsertCustomer(p)
  <2>1. /\ UNCHANGED <<customers, hurried>> /\ pc[p] = "upsert" /\ pc'[p] = "session"
        /\ \A q \in Handlers \ {p} : pc'[q] = pc[q]
    BY <1>0, <1>4 DEF UpsertCustomer, history, stripeVars, Goto, At, TypeOK
  <2>2. row' # Null /\ row'.customer # Null
    BY <1>4, Upserted
  <2>3. MakingCustomer' \subseteq MakingCustomer /\ \A q \in Handlers : pc'[q] = "customer" => pc[q] = "customer"
    BY <2>1 DEF MakingCustomer
  <2>4. QED
    BY <2>1, <2>2, <2>3 DEF OneCustomer
<1>5. CASE pc'[p] = "reply"
  <2>1. /\ row' # Null /\ row'.customer # Null /\ pc[p] \in {"update", "create"}
        /\ \A q \in Handlers \ {p} : pc'[q] = pc[q]
    BY <1>5, SyncedNames
  <2>2. UNCHANGED <<customers, hurried>>
    <3>1. ~CreateCustomer(p) /\ ~Crash(p) /\ \A plan \in Offers : ~StartCheckout(p, plan)
      BY <1>0, <1>5, <2>1 DEF CreateCustomer, StartCheckout, Crash, Done, Goto, At, TypeOK
    <3>2. QED
      BY <3>1 DEF Step, UpsertCustomer, CreateSession, Receive, Find, Update, Create, Reply,
                  history, stripeVars
  <2>3. QED
    BY <1>1, <1>5, <2>1, <2>2
<1>6. CASE CreateSession(p) \/ Find(p) \/ Crash(p) \/ Reply(p)
           \/ (pc'[p] # "reply" /\ (Update(p) \/ Create(p)))
  <2>1. pc'[p] # "reply" /\ ~UpsertCustomer(p)
    BY <1>0, <1>6 DEF CreateSession, Find, Found, Crash, Reply, Update, Create, UpsertCustomer, Done,
                      Goto, At, TypeOK
  <2>2. row' = row
    BY <2>1, RowKept
  <2>3. pc[p] # "upsert" /\ ~hurried /\ UNCHANGED customers
    <3>1. CASE Crash(p)
      BY <3>1 DEF Crash, At, stripeVars
    <3>2. CASE ~Crash(p)
      BY <1>6, <3>2 DEF CreateSession, Find, Reply, Update, Create, At, history, stripeVars
    <3>3. QED
      BY <3>1, <3>2
  <2>4. pc'[p] \notin {"customer", "upsert"} /\ \A q \in Handlers \ {p} : pc'[q] = pc[q]
    BY <1>0, <1>6 DEF CreateSession, Find, Found, Crash, Reply, Update, Create, Done, Goto, TypeOK
  <2>5. QED
    BY <1>1, <2>2, <2>3, <2>4
<1>7. ASSUME NEW e \in outbox, Receive(p, e) PROVE OneCustomer'
  BY <1>1, <1>7, ReceiveStep
<1>8. QED
  BY <1>2, <1>3, <1>4, <1>5, <1>6, <1>7 DEF Step

LEMMA HandlerTells ==
    ASSUME BillingIInv, TellIInv, NEW p \in Handlers, Step(p)
    PROVE  TellIInv'
BY ServedOnceStep, CarriesNewsStep, NewsWaitsStep, RowFollowsStep, RowNamesStep, OneCustomerStep
   DEF TellIInv

\* News makes what was told stale, until it reaches a handler.
LEMMA StripeTells ==
    ASSUME BillingIInv, TellIInv, NEW s \in Subs, NEW snap \in StripeSub, StripeStep(s, snap)
    PROVE  TellIInv'
<1>1. /\ News(s)' \in outbox' /\ \A p \in Handlers : Serves(p) => req[p].event # News(s)'
      /\ outbox \subseteq outbox' /\ \A o \in outbox' \ outbox : o.sub = s
      /\ \A x \in Subs \ {s} : /\ News(x)' = News(x) /\ Latest(x)' = Latest(x)
                               /\ Sold(x)' = Sold(x) /\ Told(x)' = Told(x)
      /\ ~Told(s)' /\ Sold(s)'
  BY StripeNews DEF TellIInv
<1>2. UNCHANGED <<row, customers, pc, req, granted, hurried, reordered>>
  BY DEF StripeStep, history
<1>3. /\ Len(stripe'[s]) = Len(stripe[s]) + 1 /\ Len(stripe[s]) \in Nat
      /\ \A x \in Subs \ {s} : stripe'[x] = stripe[x]
  BY StripeVersions DEF BillingIInv, TypeOK
<1>4. ServedOnce'
  BY <1>1, <1>2 DEF TellIInv, ServedOnce, Serves
<1>5. CarriesNews'
  <2> SUFFICES ASSUME NEW p \in Handlers, pc'[p] \in {"find", "update", "create"},
                      req'[p].event.version = Len(stripe'[req'[p].event.sub])
               PROVE  req'[p].snap = Latest(req[p].event.sub)'
    BY DEF CarriesNews
  <2>1. PICK e \in outbox : e = req[p].event
    BY <1>2 DEF TellIInv, ServedOnce, Serves
  <2>2. e.sub \in Subs /\ e.version <= Len(stripe[e.sub]) /\ e.version \in Nat
    BY DEF BillingIInv, TypeOK, Event
  <2>3. e.sub # s
    BY <1>2, <1>3, <2>1, <2>2
  <2>4. req[p].snap = Latest(e.sub)
    BY <1>2, <1>3, <2>1, <2>2, <2>3 DEF TellIInv, CarriesNews
  <2>5. QED
    BY <1>2, <1>3, <2>1, <2>2, <2>3, <2>4 DEF Latest
<1>6. ASSUME ~reordered' PROVE NewsWaits'
  <2> SUFFICES ASSUME NEW o \in outbox', o.version < Len(stripe'[o.sub])
               PROVE  /\ News(o.sub)' \in outbox'
                      /\ \A p \in Handlers : Serves(p)' => req'[p].event # News(o.sub)'
    BY DEF NewsWaits
  <2>1. CASE o.sub = s
    BY <1>1, <1>2, <2>1 DEF Serves
  <2>2. CASE o.sub # s
    <3>1. o \in outbox /\ o.sub \in Subs
      BY <1>1, <2>2 DEF BillingIInv, TypeOK, Event
    <3>2. QED
      BY <1>1, <1>2, <1>3, <1>6, <2>2, <3>1 DEF TellIInv, NewsWaits, Serves
  <2>3. QED
    BY <2>1, <2>2
<1>7. ASSUME ~reordered' PROVE RowFollows'
  <2>1. RowFollows
    BY <1>2, <1>7 DEF TellIInv
  <2>2. SUFFICES ASSUME row # Null PROVE RowFollows'
    BY <1>2 DEF RowFollows
  <2>3. CASE row.sub \in Subs \ {s}
    <3>1. Told(row.sub)' = Told(row.sub) /\ Sold(row.sub)' = Sold(row.sub)
          /\ Says(Latest(row.sub))' = Says(Latest(row.sub))
      BY <1>1, <1>2, <1>3, <2>3 DEF Told, News, Sold, Says, Latest
    <3>2. QED
      BY <1>2, <2>1, <2>2, <2>3, <3>1, BillingAssumption DEF RowFollows
  <2>4. CASE row.sub = s
    <3>1. ~Told(row.sub)' /\ Sold(row.sub)'
      BY <1>1, <1>2, <2>4 DEF Told, News, Sold
    <3>2. row.sub # Null
      BY <2>4, BillingAssumption
    <3>3. QED
      BY <1>2, <3>1, <3>2 DEF RowFollows
  <2>5. CASE row.sub = Null
    BY <1>2, <2>1, <2>2, <2>5, BillingAssumption DEF RowFollows
  <2>6. QED
    BY <2>2, <2>3, <2>4, <2>5 DEF BillingIInv, TypeOK, Row
<1>8. RowNames'
  BY <1>1, <1>2 DEF TellIInv, RowNames
<1>9. ASSUME ~hurried' PROVE OneCustomer'
  BY <1>2, <1>9 DEF TellIInv, OneCustomer, MakingCustomer
<1>10. QED
  BY <1>4, <1>5, <1>6, <1>7, <1>8, <1>9 DEF TellIInv

\* What an admin sets, a grant explains; who a row names stays.
LEMMA AdminTells ==
    ASSUME BillingIInv, TellIInv, (\E pair \in Grants : GrantPlan(pair)) \/ RevokePlan
    PROVE  TellIInv'
<1> DEFINE base == IF row = Null THEN FreshRow ELSE row
<1>1. base \in Row /\ UNCHANGED <<customers, stripe, outbox, pc, req, hurried, reordered>>
  BY BaseRow DEF GrantPlan, RevokePlan, stripeVars
<1>2. /\ row' \in Row /\ row'.sub = base.sub /\ row'.customer = base.customer
      /\ <<row'.plan, row'.status>> \in granted'
  <2>1. ASSUME NEW plan, NEW status, row' = [base EXCEPT !.plan = plan, !.status = status],
               plan \in Plans, status \in RowStatuses, <<plan, status>> \in granted'
        PROVE  /\ row' \in Row /\ row'.sub = base.sub /\ row'.customer = base.customer
               /\ <<row'.plan, row'.status>> \in granted'
    <3> HIDE DEF base
    <3>1. QED
      BY <1>1, <2>1 DEF Row
  <2>2. ASSUME NEW pair \in Grants, GrantPlan(pair)
        PROVE  /\ row' = [base EXCEPT !.plan = pair[1], !.status = pair[2]]
               /\ pair[1] \in Plans /\ pair[2] \in RowStatuses /\ <<pair[1], pair[2]>> \in granted'
    <3>1. pair \in Plans \X RowStatuses
      BY BillingAssumption
    <3>2. pair = <<pair[1], pair[2]>> /\ pair[1] \in Plans /\ pair[2] \in RowStatuses
      BY <3>1
    <3>3. QED
      BY <2>2, <3>2 DEF GrantPlan
  <2>3. CASE RevokePlan
    BY <2>1, <2>3 DEF RevokePlan, Plans, RowStatuses
  <2>4. QED
    <3> HIDE DEF base
    <3>1. QED
      BY <2>1, <2>2, <2>3
<1>3. /\ row' # Null /\ (row # Null => row'.sub = row.sub /\ row'.customer = row.customer)
      /\ (row = Null => row'.sub = Null)
  BY <1>2, BillingAssumption DEF FreshRow
<1>4. ServedOnce' /\ CarriesNews' /\ (~reordered' => NewsWaits')
  BY <1>1 DEF TellIInv, ServedOnce, CarriesNews, NewsWaits, Serves, Latest, News
<1>5. ASSUME ~reordered' PROVE RowFollows'
  <2>1. RowFollows
    BY <1>1, <1>5 DEF TellIInv
  <2>2. <<row'.plan, row'.status>> \in granted'
    BY <1>2
  <2>3. ASSUME row'.sub \in Subs PROVE Sold(row.sub)'
    <3>1. row # Null /\ row'.sub = row.sub
      BY <1>3, <2>3, BillingAssumption
    <3>2. QED
      BY <1>1, <2>1, <2>3, <3>1 DEF RowFollows, Sold
  <2>4. QED
    BY <2>2, <2>3 DEF RowFollows
<1>6. RowNames'
  <2>1. \A s \in Subs : Sold(s)' = Sold(s) /\ Told(s)' = Told(s)
    BY <1>1 DEF Sold, Told, News
  <2>2. QED
    BY <1>3, <2>1 DEF TellIInv, RowNames
<1>7. ~hurried' => OneCustomer'
  BY <1>1, <1>3 DEF TellIInv, OneCustomer, MakingCustomer
<1>8. QED
  BY <1>4, <1>5, <1>6, <1>7 DEF TellIInv

\* Checkouts, webhooks and admins keep what is told, whatever the kill switch says.
LEMMA TellInductive == Spec => []TellIInv
<1>1. BillingIInv /\ TellIInv /\ [Next]_vars => TellIInv'
  <2> SUFFICES ASSUME BillingIInv, TellIInv, [Next]_vars PROVE TellIInv'
    OBVIOUS
  <2>1. ASSUME NEW p \in Handlers, Step(p) PROVE TellIInv'
    BY <2>1, HandlerTells
  <2>2. CASE Pay \/ Change
    BY <2>2, StripeSteps, StripeTells
  <2>3. CASE (\E pair \in Grants : GrantPlan(pair)) \/ RevokePlan
    BY <2>3, AdminTells
  <2>4. CASE SwitchOff \/ UNCHANGED vars
    <3>1. UNCHANGED <<row, customers, stripe, outbox, pc, req, granted, hurried, reordered>>
      BY <2>4 DEF SwitchOff, vars, stripeVars, history
    <3>2. ServedOnce' /\ CarriesNews' /\ (~reordered' => NewsWaits')
      BY <3>1 DEF TellIInv, ServedOnce, CarriesNews, NewsWaits, Serves, Latest, News
    <3>3. ~reordered' => RowFollows'
      BY <3>1 DEF TellIInv, RowFollows, Sold, Told, News, Says, Latest
    <3>4. RowNames' /\ (~hurried' => OneCustomer')
      BY <3>1 DEF TellIInv, RowNames, Sold, Told, News, OneCustomer, MakingCustomer
    <3>5. QED
      BY <3>2, <3>3, <3>4 DEF TellIInv
  <2>5. QED
    BY <2>1, <2>2, <2>3, <2>4 DEF Next
<1>2. QED
  BY <1>1, TellInitial, BillingInductive, PTL DEF Spec

-----------------------------------------------------------------------------

\* When every subscription is canceled and every event answered, with events delivered in the
\* order they happened, no paid plan is left but one an admin gave: handlers may die and be
\* called again, customers and subscriptions be any number, billing be switched off.
THEOREM CancellationEndsAccess == Spec => []CancelledEndsAccess
<1>1. BillingIInv /\ TellIInv => CancelledEndsAccess
  <2> SUFFICES ASSUME BillingIInv, TellIInv, Settled, ~reordered,
                      granted \subseteq {<<"FREE", "CANCELED">>},
                      \A s \in Subs : Sold(s) => Latest(s).status = "canceled",
                      row # Null, row.status \in {"ACTIVE", "TRIALING"}
               PROVE  row.plan = "FREE"
    BY DEF CancelledEndsAccess, EntitledPlan
  <2>1. RowFollows /\ \A s \in Subs : Told(s)
    BY DEF TellIInv, Settled, Told
  <2>2. CASE row.sub \in Subs
    <3>1. Says(Latest(row.sub))[2] = "CANCELED"
      BY <2>1, <2>2 DEF RowFollows, Says, StatusMap
    <3>2. <<row.plan, row.status>>[2] = row.status
      OBVIOUS
    <3>3. QED
      BY <2>1, <2>2, <3>1, <3>2 DEF RowFollows
  <2>3. CASE row.sub = Null
    BY <2>1, <2>3 DEF RowFollows
  <2>4. QED
    BY <2>2, <2>3 DEF BillingIInv, TypeOK, Row
<1>2. QED
  BY <1>1, BillingInductive, TellInductive, PTL

\* One subscription sold, no admin, events in order and checkouts one after the other: the row
\* says what Stripe says of it, once every event is answered.
THEOREM RowAgreesWithStripe == Spec => []RowSaysWhatStripeSays
<1>1. BillingIInv /\ TellIInv => RowSaysWhatStripeSays
  <2> SUFFICES ASSUME BillingIInv, TellIInv, Settled, ~reordered, granted = {}, ~hurried,
                      \A s, x \in Subs : Sold(s) /\ Sold(x) => s = x, NEW s \in Subs, Sold(s)
               PROVE  /\ <<row.plan, row.status>> = Says(Latest(s))
                      /\ row.sub = s /\ row.customer = Latest(s).customer
    BY DEF RowSaysWhatStripeSays
  <2>1. RowFollows /\ RowNames /\ OneCustomer /\ \A x \in Subs : Told(x)
    BY DEF TellIInv, Settled, Told
  <2>2. row # Null /\ row.sub \in Subs /\ Sold(row.sub) /\ row.customer # Null
    BY <2>1 DEF RowNames, RowFollows, BillingIInv, TypeOK, Row
  <2>3. row.sub = s
    BY <2>2
  <2>4. <<row.plan, row.status>> = Says(Latest(s))
    BY <2>1, <2>2, <2>3 DEF RowFollows
  <2>5. Len(stripe[s]) \in DOMAIN stripe[s]
    BY DEF BillingIInv, TypeOK, Sold
  <2>6. Latest(s).customer \in customers /\ row.customer \in customers
    BY <2>2, <2>5, Delivered DEF Latest, BillingIInv, CustomersKnown
  <2>7. QED
    BY <2>1, <2>3, <2>4, <2>6 DEF OneCustomer
<1>2. QED
  BY <1>1, BillingInductive, TellInductive, PTL
=============================================================================
