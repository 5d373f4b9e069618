------------------------------ MODULE Billing ------------------------------
(***************************************************************************)
(* Subscriptions of the server (server/billing.py, routers/billing.py).    *)
(* Stripe keeps the subscriptions and reports every change as an event;    *)
(* stripe_webhook copies what it is told into the org's row.  An event is  *)
(* delivered late, in any order and possibly twice.  The handler of one    *)
(* event commits as a whole: a delivery that fails (the row is locked, the *)
(* audit entry collides, the process dies) leaves the event undelivered.   *)
(* Stripe is modelled as the handlers read it: an event carries the fields *)
(* of its subscription and an "object" field, which is what the handler of *)
(* its type asks for or something else; time passes in billing months.     *)
(***************************************************************************)
EXTENDS Naturals, Sequences

CONSTANTS
    Customers,      \* orgs that may pay
    Subs,           \* subscriptions Stripe may open
    SubOrg,         \* [Subs -> Customers]: metadata.org_slug of the checkout
    SubCustomer,    \* the Stripe customer of a subscription
    SubTier,        \* the paid tier it buys
    Nobody,         \* NULL
    LastMonth,      \* bound: months that pass
    MaxEvents,      \* bound: events Stripe sends
    MaxDeliveries   \* bound: deliveries of one event

ASSUME BillingAssumption ==
    /\ SubOrg \in [Subs -> Customers]
    /\ \A s, t \in Subs : SubCustomer[s] = SubCustomer[t] => SubOrg[s] = SubOrg[t]
    /\ \A s \in Subs : SubCustomer[s] # Nobody
    /\ Nobody \notin Nat /\ Nobody \notin Subs
    /\ LastMonth \in Nat /\ MaxEvents \in Nat /\ MaxDeliveries \in Nat \ {0}

VARIABLES
    \* Stripe
    month,          \* the current month
    plan,           \* the state of a subscription at Stripe
    paidFor,        \* the period Stripe reports for it
    events,         \* everything Stripe sent, in order
    \* the database
    sub,            \* an org's row in subscriptions
    trail,          \* an org's audit entries about Stripe events
    strays,         \* such entries of no org
    \* history
    delivered,      \* how often an event was handled
    disordered,     \* orgs that got an event twice or out of order
    doubled,        \* orgs that opened a subscription beside a live one
    blind           \* orgs whose last look at the Stripe period failed

stripe  == <<month, plan, paidFor, events>>
tenants == <<sub, trail, strays>>
billing == <<stripe, tenants, delivered, disordered, doubled, blind>>

Placeholder == [tier |-> "free", customer |-> Nobody, bought |-> Nobody,
                status |-> "none", period |-> Nobody]

BillingInit ==
    /\ month = 0
    /\ plan = [s \in Subs |-> "none"]
    /\ paidFor = [s \in Subs |-> 0]
    /\ events = << >> /\ delivered = << >>
    /\ sub = [o \in Customers |-> Placeholder]
    /\ trail = [o \in Customers |-> 0]
    /\ strays = 0
    /\ disordered = {} /\ doubled = {} /\ blind = {}

-----------------------------------------------------------------------------
(* Stripe.                                                                 *)

Live(s) == plan[s] \in {"active", "past_due"}

SubsOf(o) == {s \in Subs : SubOrg[s] = o}

Send(batch) ==
    /\ Len(events) + Len(batch) <= MaxEvents
    /\ events' = events \o batch
    /\ delivered' = delivered \o [i \in DOMAIN batch |-> 0]
    /\ UNCHANGED <<tenants, disordered, blind>>

\* event.get("object"): what the handler of the type reads, or not.
Objects == {"expected", "other"}

Event(kind, s, status, x) ==
    [kind |-> kind, of |-> s, status |-> status, object |-> x]

\* A Checkout page with the org and the tier in its metadata is paid.
CompleteCheckout(s, x) ==
    /\ plan[s] = "none"
    /\ plan' = [plan EXCEPT ![s] = "active"]
    /\ paidFor' = [paidFor EXCEPT ![s] = month]
    /\ doubled' = IF \E t \in SubsOf(SubOrg[s]) : Live(t)
                  THEN doubled \cup {SubOrg[s]} ELSE doubled
    /\ Send(<<Event("checkout.session.completed", s, "active", x)>>)
    /\ UNCHANGED month

\* A new period begins, paid or not.
Renew(s, status, invoice, x) ==
    /\ Live(s) /\ paidFor[s] < month
    /\ plan' = [plan EXCEPT ![s] = status]
    /\ paidFor' = [paidFor EXCEPT ![s] = month]
    /\ Send(<<Event(invoice, s, status, x),
              Event("customer.subscription.updated", s, status, x)>>)
    /\ UNCHANGED <<month, doubled>>

Cancel(s, x) ==
    /\ Live(s)
    /\ plan' = [plan EXCEPT ![s] = "canceled"]
    /\ Send(<<Event("customer.subscription.deleted", s, "canceled", x)>>)
    /\ UNCHANGED <<month, paidFor, doubled>>

NextMonth ==
    /\ month < LastMonth
    /\ month' = month + 1
    /\ UNCHANGED <<plan, paidFor, events, tenants, delivered,
                   disordered, doubled, blind>>

-----------------------------------------------------------------------------
(* The handlers.  Each takes an event to the new row of the org, before    *)
(* the period is looked at.                                                *)

\* Mutant of Account: the row is looked up by the tier of the subscription.
AccountByTier(s) == {o \in Customers : sub[o].tier = SubTier[s]}

\* The rows with the customer of the event.
Account(s) == {o \in Customers : sub[o].customer = SubCustomer[s]}

CheckoutCompleted(s, row) ==
    [row EXCEPT !.tier = SubTier[s], !.status = "active",
                !.customer = SubCustomer[s], !.bought = s]

SubscriptionUpdated(status, row) == [row EXCEPT !.status = status]

\* Mutant of SubscriptionDeleted: the tier stays.
SubscriptionDeletedKeepingTier(row) == [row EXCEPT !.status = "canceled"]

\* The customer, the subscription and the period stay in the row.
SubscriptionDeleted(row) == [row EXCEPT !.tier = "free", !.status = "canceled"]

PaymentFailed(row) == [row EXCEPT !.status = "past_due"]

Handled(e, row) ==
    CASE e.kind = "checkout.session.completed" -> CheckoutCompleted(e.of, row)
      [] e.kind = "customer.subscription.updated" ->
            SubscriptionUpdated(e.status, row)
      [] e.kind = "customer.subscription.deleted" -> SubscriptionDeleted(row)
      [] e.kind = "invoice.payment_failed" -> PaymentFailed(row)
      [] OTHER -> row

\* The kinds whose handler calls _update_subscription_period.
LooksUp(e) == e.kind \in {"checkout.session.completed",
                          "customer.subscription.updated",
                          "invoice.payment_succeeded"}

\* The row the handler changes: none if it reads no object of its own.
Targets(e) == IF e.object # "expected" THEN {}
              ELSE IF e.kind = "checkout.session.completed" THEN {SubOrg[e.of]}
                                                            ELSE Account(e.of)

\* The event reaches its org: the period becomes what Stripe reports now,
\* whatever it was when the event was sent, or stays if Stripe cannot say.
Apply(e, o) ==
    /\ \/ /\ LooksUp(e)
          /\ sub' = [sub EXCEPT ![o] =
                        [Handled(e, sub[o]) EXCEPT !.period = paidFor[e.of]]]
          /\ blind' = blind \ {o}
       \/ /\ sub' = [sub EXCEPT ![o] = Handled(e, sub[o])]
          /\ blind' = IF LooksUp(e) THEN blind \cup {o} ELSE blind
    /\ trail' = [trail EXCEPT ![o] = @ + 1]

OutOfTurn(i) ==
    \/ delivered[i] > 0
    \/ \E j \in DOMAIN events :
        /\ SubOrg[events[j].of] = SubOrg[events[i].of]
        /\ (j < i /\ delivered[j] = 0) \/ (j > i /\ delivered[j] > 0)

\* stripe_webhook, with a valid signature; 204 once the commit is through,
\* also when the handler has returned early.
Deliver(i) ==
    /\ delivered[i] < MaxDeliveries
    /\ \/ \E o \in Targets(events[i]) :
            Targets(events[i]) = {o} /\ Apply(events[i], o)
       \/ /\ Targets(events[i]) = {}
          /\ UNCHANGED <<sub, trail, blind>>
    /\ delivered' = [delivered EXCEPT ![i] = @ + 1]
    /\ disordered' = IF OutOfTurn(i)
                     THEN disordered \cup {SubOrg[events[i].of]} ELSE disordered
    /\ UNCHANGED <<stripe, strays, doubled>>

\* An event of another type, or a checkout without an org in its metadata.
DeliverStray ==
    /\ strays = 0
    /\ strays' = strays + 1
    /\ UNCHANGED <<stripe, sub, trail, delivered, disordered, doubled, blind>>

BillingNext ==
    \/ \E s \in Subs, x \in Objects :
        \/ CompleteCheckout(s, x) \/ Cancel(s, x)
        \/ Renew(s, "active", "invoice.payment_succeeded", x)
        \/ Renew(s, "past_due", "invoice.payment_failed", x)
    \/ NextMonth
    \/ \E i \in DOMAIN events : Deliver(i)
    \/ DeliverStray

BillingSpec == BillingInit /\ [][BillingNext]_billing

-----------------------------------------------------------------------------
(* What the rest of the server reads from the row.                         *)

\* current_period_bounds.
UsageMonth(o) == IF sub[o].period = Nobody THEN month ELSE sub[o].period

\* tier_token_cap and tier_usd_cap: only the free tier has caps.
Capped(o) == sub[o].tier = "free"

\* get_invoice_pdf for an invoice of subscription s.
MayFetchInvoice(o, s) ==
    /\ sub[o].customer # Nobody
    /\ sub[o].customer = SubCustomer[s]

-----------------------------------------------------------------------------
(* Properties.                                                             *)

\* Every event about the org was handled.
UpToDate(o) ==
    \A i \in DOMAIN events : SubOrg[events[i].of] = o =>
                            delivered[i] > 0 /\ events[i].object = "expected"

\* The events carry enough, and each handler copies enough of it: once an org
\* has received every event about it in order and once, each with the object
\* its handler asks for, and never held two subscriptions at a time, its tier
\* and status are those of its subscription at Stripe and its usage window is
\* the period Stripe bills, unless Stripe could not be asked.  Without a
\* subscription it has the caps of the free tier; those count the usage of the
\* calendar month if it never bought one, and of the last period of the one
\* that ended otherwise.
BillingFollowsStripe ==
    \A o \in Customers \ (disordered \cup doubled) : UpToDate(o) =>
        /\ \A s \in SubsOf(o) : Live(s) =>
            /\ sub[o].tier = SubTier[s]
            /\ sub[o].status = plan[s]
            /\ o \notin blind => UsageMonth(o) = paidFor[s]
        /\ (~\E s \in SubsOf(o) : Live(s)) =>
            /\ Capped(o)
            /\ sub[o].bought = Nobody => UsageMonth(o) = month
            /\ sub[o].bought # Nobody /\ o \notin blind =>
                    UsageMonth(o) = paidFor[sub[o].bought]

\* Whatever the order and the number of deliveries, an org has a paid tier
\* only after a checkout of its own at that tier, its status is what an event
\* about a subscription of its own said, and it is served no invoice of
\* another org.
TenantsStayApart ==
    \A o \in Customers :
        /\ ~Capped(o) => \E s \in SubsOf(o) :
                            plan[s] # "none" /\ SubTier[s] = sub[o].tier
        /\ sub[o].status # "none" => \E i \in DOMAIN events :
                            /\ SubOrg[events[i].of] = o /\ delivered[i] > 0
                            /\ events[i].status = sub[o].status
        /\ \A s \in Subs : MayFetchInvoice(o, s) => SubOrg[s] = o

=============================================================================
