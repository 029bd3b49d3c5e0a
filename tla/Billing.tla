------------------------------- MODULE Billing -------------------------------
(***************************************************************************)
(* How a shop's row follows its Stripe subscriptions: the webhook handlers *)
(* of backend/billing/service.py and the deliveries they get.              *)
(*                                                                         *)
(* Stripe is external.  It keeps the subscriptions, puts an event with a   *)
(* snapshot into its outbox for every change and delivers each event until *)
(* it is acknowledged: at least once and in any order.  A                  *)
(* handler reads the row, and commits an UPDATE of the columns it changed  *)
(* with respect to what it read; handlers of several workers overlap.  A   *)
(* handler that raises rolls back, and the event is still in the outbox.   *)
(***************************************************************************)
EXTENDS Naturals, Sequences, FiniteSets, SequencesExt

CONSTANTS
    Sub,            \* Stripe subscriptions of the shop, one per paid checkout
    NoSub,          \* stripe_subscription_id is NULL
    Plan,           \* plans a Stripe price stands for
    Priced,         \* plans whose stripe_price_id is configured
    Worker,         \* handlers that may run at the same time
    Retries,        \* bound on the repeated deliveries of one event
    MaxChanges      \* bound on the changes of the subscriptions

ASSUME NoSubAssumption == NoSub \notin Sub
ASSUME PlanAssumption == Priced \subseteq Plan /\ "starter" \in Priced
ASSUME BoundsAssumption == Retries \in Nat /\ MaxChanges \in Nat

Statuses == {"inactive", "active", "past_due", "canceled"}

\* A billing cycle stands for its current_period_start; 0 is "not subscribed".  Stripe
\* is assumed to let a cycle's start fix its end (create_checkout_session asks for no
\* trial, and nothing in the code moves a billing date) and to send both.
Cycles == 0 .. MaxChanges
Snapshot == [status : Statuses, cycle : Cycles, plan : Plan]

Event == [type : {"checkout.session.completed", "customer.subscription.created",
                  "customer.subscription.updated", "customer.subscription.deleted"},
          sub : Sub, snapshot : Snapshot, left : 0 .. Retries]

\* The billing columns of the shop; a period column that is NULL is 0.
Row == [customer : BOOLEAN, sub : Sub \cup {NoSub}, status : Statuses,
        start : Cycles, end : 0 .. MaxChanges + 1, plan : Plan]

VARIABLES
    subscription,   \* Stripe: subscription -> its current snapshot
    changes,        \* Stripe: changes made so far
    outbox,         \* Stripe: events not yet acknowledged, oldest first
    row,            \* the committed row of the shop
    handler,        \* worker -> the events it handles and the row it read
    orderly,        \* every event so far was handled alone and in Stripe's order
    latest,         \* the subscription that was paid last, or NoSub
    overtaken       \* its checkout was handled while another one's was to come

observers == <<latest, overtaken>>
vars == <<subscription, changes, outbox, row, handler, orderly, latest, overtaken>>

Init ==
    /\ subscription =
           [s \in Sub |-> [status |-> "inactive", cycle |-> 0, plan |-> "starter"]]
    /\ changes = 0
    /\ outbox = <<>>
    /\ row = [customer |-> FALSE, sub |-> NoSub, status |-> "inactive",
              start |-> 0, end |-> 0, plan |-> "starter"]
    /\ handler = [w \in Worker |-> <<>>]
    /\ orderly = TRUE
    /\ latest = NoSub
    /\ overtaken = FALSE

(***************************************************************************)
(* Stripe and the shop owner                                               *)
(***************************************************************************)
Announces(s, snapshot, types) ==
    /\ changes < MaxChanges
    /\ changes' = changes + 1
    /\ subscription' = [subscription EXCEPT ![s] = snapshot]
    /\ outbox' = outbox \o [i \in DOMAIN types |->
           [type |-> types[i], sub |-> s, snapshot |-> snapshot, left |-> Retries]]
    /\ UNCHANGED <<row, handler, orderly>>

Live(s) == subscription[s].status \in {"active", "past_due"}

\* A checkout session of create_checkout_session is paid; the endpoint makes
\* one for every priced plan, also for a shop that has a subscription.
Subscribe(s, p) ==
    /\ subscription[s].status = "inactive"
    /\ p \in Priced
    /\ Announces(s, [status |-> "active", cycle |-> 1, plan |-> p],
                 <<"checkout.session.completed", "customer.subscription.created">>)
    /\ latest' = s
    /\ overtaken' = FALSE

Renew(s) ==
    /\ Live(s)
    /\ Announces(s, [subscription[s] EXCEPT !.status = "active", !.cycle = @ + 1],
                 <<"customer.subscription.updated">>)
    /\ UNCHANGED observers

FailPayment(s) ==
    /\ subscription[s].status = "active"
    /\ Announces(s, [subscription[s] EXCEPT !.status = "past_due"],
                 <<"customer.subscription.updated">>)
    /\ UNCHANGED observers

\* In the customer portal, which create_portal_session opens for a known customer.
ChangePlan(s, p) ==
    /\ Live(s) /\ row.customer
    /\ p # subscription[s].plan
    /\ Announces(s, [subscription[s] EXCEPT !.plan = p],
                 <<"customer.subscription.updated">>)
    /\ UNCHANGED observers

Cancel(s) ==
    /\ Live(s)
    /\ Announces(s, [subscription[s] EXCEPT !.status = "canceled"],
                 <<"customer.subscription.deleted">>)
    /\ UNCHANGED observers

(***************************************************************************)
(* handle_stripe_webhook                                                   *)
(***************************************************************************)
\* The event leaves the outbox, or the acknowledgement will not arrive in time
\* and it will be delivered again.
Taken(i) ==
    /\ \/ outbox' = RemoveAt(outbox, i)
       \/ /\ outbox[i].left > 0
          /\ outbox' = [outbox EXCEPT ![i].left = @ - 1]
    /\ orderly' = (orderly /\ i = 1 /\ \A w \in Worker : handler[w] = <<>>)

\* _handle_checkout_completed finds the shop by the metadata, the other handlers
\* by the subscription id.
Checkout(event) == event.type = "checkout.session.completed"
Concerns(event) == Checkout(event) \/ row.sub = event.sub

\* "if shop is None: return", and still a 200.
Ignore(w, i) ==
    /\ handler[w] = <<>>
    /\ ~Concerns(outbox[i])
    /\ Taken(i)
    /\ UNCHANGED <<subscription, changes, row, handler, latest, overtaken>>

\* A checkout of another subscription is to be delivered or being handled.
OtherCheckoutPending ==
    \/ \E i \in DOMAIN outbox : Checkout(outbox[i]) /\ outbox[i].sub # latest
    \/ \E w \in Worker : /\ handler[w] # <<>>
                         /\ Checkout(handler[w][1].event)
                         /\ handler[w][1].event.sub # latest

Read(w, i) ==
    /\ handler[w] = <<>>
    /\ Concerns(outbox[i])
    /\ Taken(i)
    /\ handler' = [handler EXCEPT ![w] = <<[event |-> outbox[i], read |-> row]>>]
    /\ overtaken' = \/ overtaken
                    \/ /\ Checkout(outbox[i]) /\ outbox[i].sub = latest
                       /\ OtherCheckoutPending
    /\ UNCHANGED <<subscription, changes, row, latest>>

\* Mutant of ResolvePlan: an unknown price clears the plan.
ResolveToNull(p, current) == IF p \in Priced THEN p ELSE "null"

\* The plan is kept when no plan has the price.
ResolvePlan(p, current) == IF p \in Priced THEN p ELSE current

HandleCheckoutCompleted(event, read) ==
    [read EXCEPT !.customer = TRUE, !.sub = event.sub, !.status = "active"]

\* Mutants of HandleSubscriptionChanged: the plan is not taken over, and the
\* end of the period is not.
PlanForgotten(event, read) ==
    [read EXCEPT !.status = event.snapshot.status,
                 !.start = event.snapshot.cycle, !.end = event.snapshot.cycle + 1]
EndForgotten(event, read) ==
    [read EXCEPT !.status = event.snapshot.status,
                 !.start = event.snapshot.cycle,
                 !.end = IF @ = 0 THEN event.snapshot.cycle + 1 ELSE @,
                 !.plan = ResolvePlan(event.snapshot.plan, @)]

HandleSubscriptionChanged(event, read) ==
    [read EXCEPT !.status = event.snapshot.status,
                 !.start = event.snapshot.cycle, !.end = event.snapshot.cycle + 1,
                 !.plan = ResolvePlan(event.snapshot.plan, @)]

HandleSubscriptionDeleted(event, read) == [read EXCEPT !.status = "canceled"]

\* The columns as the handler leaves them in its session.
Handled(event, read) ==
    IF Checkout(event) THEN HandleCheckoutCompleted(event, read)
    ELSE IF event.type = "customer.subscription.deleted"
         THEN HandleSubscriptionDeleted(event, read)
         ELSE HandleSubscriptionChanged(event, read)

\* Mutant of Written: all columns, as they were read, are written back.
WrittenWhole(event, read) == Handled(event, read)

\* SQLAlchemy's UPDATE: the columns that differ from what was read.
Written(event, read) ==
    [c \in DOMAIN row |-> IF Handled(event, read)[c] # read[c]
                          THEN Handled(event, read)[c] ELSE row[c]]

Commit(w) ==
    /\ handler[w] # <<>>
    /\ row' = Written(handler[w][1].event, handler[w][1].read)
    /\ handler' = [handler EXCEPT ![w] = <<>>]
    /\ UNCHANGED <<subscription, changes, outbox, orderly, latest, overtaken>>

(***************************************************************************)
(* Specification                                                           *)
(***************************************************************************)
Stripe(s) ==
    \/ \E p \in Plan : Subscribe(s, p) \/ ChangePlan(s, p)
    \/ Renew(s) \/ FailPayment(s) \/ Cancel(s)

Webhook(w) ==
    \/ \E i \in DOMAIN outbox : Ignore(w, i) \/ Read(w, i)
    \/ Commit(w)

Next == (\E s \in Sub : Stripe(s)) \/ (\E w \in Worker : Webhook(w))

Spec == Init /\ [][Next]_vars

(***************************************************************************)
(* Properties                                                              *)
(***************************************************************************)
TypeOK ==
    /\ subscription \in [Sub -> Snapshot]
    /\ changes \in 0 .. MaxChanges
    /\ outbox \in Seq(Event)
    /\ row \in Row
    /\ handler \in [Worker -> Seq([event : Event, read : Row])]
    /\ \A w \in Worker : Len(handler[w]) <= 1
    /\ orderly \in BOOLEAN
    /\ latest \in Sub \cup {NoSub}
    /\ overtaken \in BOOLEAN

Quiet == outbox = <<>> /\ \A w \in Worker : handler[w] = <<>>

\* When the events were delivered in order (checkout.session.completed first)
\* and handled one by one, the row says what Stripe says as soon as all of them
\* are handled, repeated ones included: the status, the period and the plan of
\* the latest checkout.
RowFollowsStripe ==
    orderly /\ Quiet /\ row.sub # NoSub =>
        /\ row.status = subscription[row.sub].status
        /\ row.start = subscription[row.sub].cycle
        /\ row.plan = ResolvePlan(subscription[row.sub].plan, row.plan)

\* In whatever order, as often and as overlapping as the events are handled, when all
\* are, the shop of a paid checkout is linked to a subscription, and that is the one
\* paid last, unless its checkout was handled while another one's was still to come:
\* nothing else, repeated and stale events of older subscriptions included, relinks it.
PaidIsLinked ==
    Quiet /\ latest # NoSub =>
        /\ row.customer /\ row.sub # NoSub
        /\ ~overtaken => row.sub = latest

\* The two period columns belong to one cycle, even when the UPDATEs of overlapping
\* handlers mix the columns of two events.  (Cycles has the assumption on Stripe.)
PeriodNotTorn == row.end = IF row.start = 0 THEN 0 ELSE row.start + 1
==============================================================================
