------------------------------ MODULE Billing ------------------------------
(***************************************************************************)
(* The Subscription row of one user and what writes it: the checkout       *)
(* (settings/billing-actions.ts), Stripe's webhooks                        *)
(* (api/stripe/webhook/route.ts) and the admin page's grants               *)
(* (admin/actions.ts).  Stripe is external: customers, checkout sessions,  *)
(* subscriptions that live their own life, and the events it emits about   *)
(* them until each is answered with success.                               *)
(*                                                                         *)
(* A handler is a process and every awaited query or Stripe call one       *)
(* atomic step; the first one belongs to the action that starts it.        *)
(***************************************************************************)
EXTENDS Naturals, Sequences, FiniteSets

CONSTANTS
    Handlers,     \* requests the server works on at the same time
    Customers,    \* ids Stripe may give to customers
    Subs,         \* ids Stripe may give to subscriptions
    Statuses,     \* Stripe's statuses that subscriptions take here
    Prices,       \* price ids subscriptions carry
    Offers,       \* the plans buyers ask for; they can switch later
    Grants,       \* plan and status pairs an admin may set
    Null,         \* SQL NULL, and the row that does not exist
    MaxGrants,    \* bound: pairs set on the admin page
    MaxChanges    \* bound: what a subscription goes through, its sale included

Paid == {"PLUS", "PRO"}
Plans == Paid \cup {"FREE"}
RowStatuses == {"ACTIVE", "TRIALING", "PAST_DUE", "CANCELED", "INCOMPLETE"}

\* STATUS_MAP.
StatusMap ==
    [active |-> "ACTIVE", trialing |-> "TRIALING", past_due |-> "PAST_DUE",
     canceled |-> "CANCELED", incomplete |-> "INCOMPLETE",
     incomplete_expired |-> "CANCELED", unpaid |-> "PAST_DUE", paused |-> "CANCELED"]

\* The price ids the environment names, and the plan each one grants.
PriceOf == [PLUS |-> "pricePlus", PRO |-> "pricePro"]
PlanFromPrice(price) ==
    IF \E plan \in Paid : PriceOf[plan] = price
    THEN CHOOSE plan \in Paid : PriceOf[plan] = price
    ELSE Null

\* A subscription at Stripe; `meta` is the plan in the metadata of its checkout.
StripeSub == [customer : Customers, price : Prices, meta : Paid, status : Statuses]
Row == [plan : Plans, status : RowStatuses,
        customer : Customers \cup {Null}, sub : Subs \cup {Null}]
\* The checkout that made a subscription, or one of the versions it went through.
Event == [kind : {"checkout", "subscription"}, sub : Subs, version : 1 .. MaxChanges]

ASSUME BillingAssumption ==
    /\ Null \notin Customers \cup Subs \cup Row \cup StripeSub \cup Paid
    /\ Statuses \subseteq DOMAIN StatusMap
    /\ {"active", "canceled"} \subseteq Statuses
    /\ {PriceOf[plan] : plan \in Paid} \subseteq Prices
    /\ Offers \subseteq Paid
    /\ Grants \subseteq Plans \X RowStatuses
    /\ MaxGrants \in Nat /\ MaxChanges \in Nat \ {0}

VARIABLES
    row,        \* the user's Subscription row, or Null
    customers,  \* the customers made at Stripe for the user
    sessions,   \* open checkout sessions: customer and plan
    stripe,     \* the versions of each of Stripe's subscriptions, the last one current
    outbox,     \* the events Stripe wants an answer to
    live,       \* isBillingLive(), as of the last restart
    pc, req,    \* where each handler stands, and its local variables
    granted,    \* history: the pairs an admin has set
    hurried,    \* history: a checkout began while another was making the customer
    reordered   \* history: an event was delivered before an older one was answered

vars == <<row, customers, sessions, stripe, outbox, live, pc, req, granted, hurried, reordered>>
stripeVars == <<customers, sessions, stripe, outbox>>
history == <<granted, hurried, reordered>>

Awaits == {"customer", "upsert", "session", "find", "update", "create", "reply"}
Local == [plan : Paid, customer : Customers \cup {Null},
          event : Event \cup {Null}, snap : StripeSub \cup {Null}]
Blank == [plan |-> "PLUS", customer |-> Null, event |-> Null, snap |-> Null]

At(p, step)   == pc[p] = step
Goto(p, step) == pc' = [pc EXCEPT ![p] = step]
Done(p) == Goto(p, "idle") /\ req' = [req EXCEPT ![p] = Blank]

\* Mutant: a deletion is answered without syncing it.
MutStatusOf(snap) == IF snap.status = "canceled" THEN snap.status ELSE StatusMap[snap.status]

StatusOf(snap) == StatusMap[snap.status]

\* Mutant: the metadata written at checkout is asked before the price.
MutPlanOf(snap) == snap.meta

PlanOf(snap) == LET plan == PlanFromPrice(snap.price) IN IF plan # Null THEN plan ELSE snap.meta

\* The columns syncSubscription writes, whether it finds a row or not.
Synced(snap, s) ==
    [plan |-> PlanOf(snap), status |-> StatusOf(snap), customer |-> snap.customer, sub |-> s]

Sold(s)   == stripe[s] # <<>>
Latest(s) == stripe[s][Len(stripe[s])]

TypeOK ==
    /\ row \in Row \cup {Null}
    /\ customers \subseteq Customers
    /\ sessions \subseteq customers \X Paid
    /\ stripe \in [Subs -> Seq(StripeSub)]
    /\ \A s \in Subs : Len(stripe[s]) <= MaxChanges
    /\ outbox \subseteq Event
    /\ \A e \in outbox : e.version \in DOMAIN stripe[e.sub]
    /\ live \in BOOLEAN /\ hurried \in BOOLEAN /\ reordered \in BOOLEAN
    /\ pc \in [Handlers -> Awaits \cup {"idle"}]
    /\ req \in [Handlers -> Local]
    /\ granted \subseteq Grants \cup {<<"FREE", "CANCELED">>}

Init ==
    /\ row = Null
    /\ customers = {} /\ sessions = {}
    /\ stripe = [s \in Subs |-> <<>>]
    /\ outbox = {}
    /\ live = TRUE
    /\ pc = [p \in Handlers |-> "idle"]
    /\ req = [p \in Handlers |-> Blank]
    /\ granted = {} /\ hurried = FALSE /\ reordered = FALSE

\* What a plan check reads: getPlan.
EntitledPlan ==
    IF row # Null /\ row.status \in {"ACTIVE", "TRIALING"} THEN row.plan ELSE "FREE"

\* PAYMENT_MODE is taken away: the kill switch, read on every call.
SwitchOff == /\ live /\ live' = FALSE
             /\ UNCHANGED <<row, stripeVars, pc, req, history>>

-----------------------------------------------------------------------------
(* Checkout *)

FreshRow == [plan |-> "FREE", status |-> "ACTIVE", customer |-> Null, sub |-> Null]

MakingCustomer == {p \in Handlers : pc[p] \in {"customer", "upsert"}}

\* createCheckoutSession up to the first query of findOrCreateStripeCustomerId.  Bound:
\* nobody goes to a checkout when Stripe's ids are used up.
StartCheckout(p, plan) ==
    LET known == IF row = Null THEN Null ELSE row.customer IN
    /\ At(p, "idle") /\ live /\ \E s \in Subs : ~Sold(s)
    /\ req' = [req EXCEPT ![p] = [Blank EXCEPT !.plan = plan, !.customer = known]]
    /\ Goto(p, IF known # Null THEN "session" ELSE "customer")
    /\ hurried' = (hurried \/ (known = Null /\ MakingCustomer # {}))
    /\ UNCHANGED <<row, stripeVars, live, granted, reordered>>

CreateCustomer(p) ==
    /\ At(p, "customer")
    /\ \E c \in Customers \ customers :
          /\ customers' = customers \cup {c}
          /\ req' = [req EXCEPT ![p].customer = c]
    /\ Goto(p, "upsert")
    /\ UNCHANGED <<row, sessions, stripe, outbox, live, history>>

UpsertCustomer(p) ==
    /\ At(p, "upsert")
    /\ row' = [(IF row = Null THEN FreshRow ELSE row) EXCEPT !.customer = req[p].customer]
    /\ Goto(p, "session")
    /\ UNCHANGED <<stripeVars, live, req, history>>

CreateSession(p) ==
    /\ At(p, "session")
    /\ sessions' = sessions \cup {<<req[p].customer, req[p].plan>>}
    /\ Done(p)
    /\ UNCHANGED <<row, customers, stripe, outbox, live, history>>

-----------------------------------------------------------------------------
(* Stripe *)

Events(kinds, s, version) == {[kind |-> k, sub |-> s, version |-> version] : k \in kinds}

\* The buyer pays: the session becomes a subscription.
Pay ==
    \E session \in sessions, s \in {x \in Subs : ~Sold(x)} :
       /\ stripe' = [stripe EXCEPT ![s] =
             <<[customer |-> session[1], price |-> PriceOf[session[2]],
                meta |-> session[2], status |-> "active"]>>]
       /\ outbox' = outbox \cup Events({"checkout", "subscription"}, s, 1)
       /\ sessions' = sessions \ {session}
       /\ UNCHANGED <<row, customers, live, pc, req, history>>

\* A renewal fails or succeeds, the buyer cancels or switches plans in the billing
\* portal, a price is replaced: a canceled subscription stays canceled.
Change ==
    \E s \in {x \in Subs : Sold(x)} :
      \E next \in {[Latest(s) EXCEPT !.status = status] : status \in Statuses}
                  \cup {[Latest(s) EXCEPT !.price = price] : price \in Prices} :
         /\ Latest(s).status # "canceled" /\ next # Latest(s)
         /\ Len(stripe[s]) < MaxChanges
         /\ stripe' = [stripe EXCEPT ![s] = Append(@, next)]
         /\ outbox' = outbox \cup Events({"subscription"}, s, Len(stripe[s]) + 1)
         /\ UNCHANGED <<row, customers, sessions, live, pc, req, history>>

-----------------------------------------------------------------------------
(* Webhooks *)

BeingServed == {req[p].event : p \in Handlers}

Late(e) == \E o \in outbox : o.sub = e.sub /\ o.version < e.version

\* syncSubscription's findFirst, by subscription or by customer, and the write it leads to.
Found(snap, s) ==
    IF row # Null /\ (row.sub = s \/ row.customer = snap.customer) THEN "update" ELSE "create"

\* Mutant: with billing switched off, events are answered and passed over.
MutReceive(p, e) ==
    /\ At(p, "idle") /\ e \notin BeingServed
    /\ LET snap == IF e.kind = "checkout" THEN Latest(e.sub) ELSE stripe[e.sub][e.version]
       IN /\ req' = [req EXCEPT ![p] = [Blank EXCEPT !.event = e, !.snap = IF live THEN snap ELSE Null]]
          /\ Goto(p, IF ~live THEN "reply"
                     ELSE IF e.kind = "checkout" THEN "find" ELSE Found(snap, e.sub))
    /\ reordered' = (reordered \/ Late(e))
    /\ UNCHANGED <<row, stripeVars, live, granted, hurried>>

\* POST up to its second await: a finished checkout is looked up at Stripe again, other
\* events carry the subscription as it was when they happened.
Receive(p, e) ==
    /\ At(p, "idle") /\ e \notin BeingServed
    /\ LET snap == IF e.kind = "checkout" THEN Latest(e.sub) ELSE stripe[e.sub][e.version]
       IN /\ req' = [req EXCEPT ![p] = [Blank EXCEPT !.event = e, !.snap = snap]]
          /\ Goto(p, IF e.kind = "checkout" THEN "find" ELSE Found(snap, e.sub))
    /\ reordered' = (reordered \/ Late(e))
    /\ UNCHANGED <<row, stripeVars, live, granted, hurried>>

Find(p) ==
    /\ At(p, "find")
    /\ Goto(p, Found(req[p].snap, req[p].event.sub))
    /\ UNCHANGED <<row, stripeVars, live, req, history>>

\* Mutant: a row that exists keeps its plan.
MutUpdate(p) ==
    /\ At(p, "update")
    /\ row' = [Synced(req[p].snap, req[p].event.sub) EXCEPT !.plan = row.plan]
    /\ Goto(p, "reply") /\ req' = [req EXCEPT ![p].snap = Null]
    /\ UNCHANGED <<stripeVars, live, history>>

Update(p) ==
    /\ At(p, "update")
    /\ row' = Synced(req[p].snap, req[p].event.sub)
    /\ Goto(p, "reply") /\ req' = [req EXCEPT ![p].snap = Null]
    /\ UNCHANGED <<stripeVars, live, history>>

\* userId is unique: a user whose row names another customer is refused, the answer is
\* an error, and Stripe will deliver the event again.
Create(p) ==
    /\ At(p, "create")
    /\ IF row = Null
       THEN /\ row' = Synced(req[p].snap, req[p].event.sub)
            /\ Goto(p, "reply") /\ req' = [req EXCEPT ![p].snap = Null]
       ELSE Done(p) /\ UNCHANGED row
    /\ UNCHANGED <<stripeVars, live, history>>

Reply(p) ==
    /\ At(p, "reply")
    /\ outbox' = outbox \ {req[p].event}
    /\ Done(p)
    /\ UNCHANGED <<row, customers, sessions, stripe, live, history>>

-----------------------------------------------------------------------------
(* Admin page *)

\* Mutant: a grant makes the row anew.
MutGrantPlan(pair) ==
    /\ row' = [FreshRow EXCEPT !.plan = pair[1], !.status = pair[2]]
    /\ granted' = granted \cup {pair} /\ Cardinality(granted') <= MaxGrants
    /\ UNCHANGED <<stripeVars, live, pc, req, hurried, reordered>>

\* grantPlan's upsert; the audit entry that follows is not read by the program.
GrantPlan(pair) ==
    /\ row' = [(IF row = Null THEN FreshRow ELSE row) EXCEPT !.plan = pair[1], !.status = pair[2]]
    /\ granted' = granted \cup {pair} /\ Cardinality(granted') <= MaxGrants
    /\ UNCHANGED <<stripeVars, live, pc, req, hurried, reordered>>

\* revokePlan: the row its first query finds does not go away before the second.
RevokePlan ==
    /\ row # Null
    /\ row' = [row EXCEPT !.plan = "FREE", !.status = "CANCELED"]
    /\ granted' = granted \cup {<<"FREE", "CANCELED">>} /\ Cardinality(granted') <= MaxGrants
    /\ UNCHANGED <<stripeVars, live, pc, req, hurried, reordered>>

-----------------------------------------------------------------------------

\* A handler dies, or Stripe or the database answers it with an error: what it has
\* written stays.  A checkout that dies after making a customer has left one behind.
Crash(p) ==
    /\ pc[p] \in Awaits
    /\ hurried' = (hurried \/ At(p, "upsert"))
    /\ Done(p)
    /\ UNCHANGED <<row, stripeVars, live, granted, reordered>>

Step(p) ==
    \/ \E plan \in Offers : StartCheckout(p, plan)
    \/ CreateCustomer(p) \/ UpsertCustomer(p) \/ CreateSession(p)
    \/ \E e \in outbox : Receive(p, e)
    \/ Find(p) \/ Update(p) \/ Create(p) \/ Reply(p)
    \/ Crash(p)

Next ==
    \/ Pay \/ Change \/ SwitchOff
    \/ \E pair \in Grants : GrantPlan(pair)
    \/ RevokePlan
    \/ \E p \in Handlers : Step(p)

Spec == Init /\ [][Next]_vars

-----------------------------------------------------------------------------
(* Properties *)

\* What Stripe says of a version of a subscription: the plan its price stands for, or,
\* when the price is none of today's, the one bought.
Says(v) == <<IF v.price \in {PriceOf[plan] : plan \in Paid} THEN PlanFromPrice(v.price) ELSE v.meta,
             StatusMap[v.status]>>

Said == UNION {{Says(stripe[s][i]) : i \in DOMAIN stripe[s]} : s \in Subs}

\* Plan and status stand together: whatever the row says was said by one event of
\* Stripe, by one admin, or is the row a checkout begins with.  A row never pairs the plan
\* of one writer with the status of another, however webhooks, checkouts and admins
\* interleave and in whatever order events arrive.
PlanExplained ==
    row # Null => <<row.plan, row.status>> \in Said \cup granted \cup {<<"FREE", "ACTIVE">>}

\* Nothing is under way and every event is answered.
Settled == outbox = {} /\ \A p \in Handlers : pc[p] = "idle"

\* When Stripe has no subscription that is not canceled and every event is answered, the
\* user has no paid plan, unless an admin gave one: no paid access is stranded, billing
\* switched off or not (webhook/route.ts:51).  Holds with handlers dying, several
\* subscriptions and two customers, for events delivered in the order they happened.
CancelledEndsAccess ==
    /\ Settled /\ ~reordered /\ granted \subseteq {<<"FREE", "CANCELED">>}
    /\ \A s \in Subs : Sold(s) => Latest(s).status = "canceled"
    => EntitledPlan = "FREE"

\* With one subscription ever sold, no admin and events in order, the row says what
\* Stripe says once every event is answered, the event that sold it delivered before,
\* after or between the others.
RowSaysWhatStripeSays ==
    /\ Settled /\ ~reordered /\ granted = {} /\ ~hurried
    /\ \A s, x \in Subs : Sold(s) /\ Sold(x) => s = x
    => \A s \in Subs : Sold(s) =>
            /\ <<row.plan, row.status>> = Says(Latest(s))
            /\ row.sub = s /\ row.customer = Latest(s).customer

=============================================================================
