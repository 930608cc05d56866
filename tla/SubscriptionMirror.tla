------------------------ MODULE SubscriptionMirror ------------------------
(***************************************************************************)
(* What the webhook's side effects do to a user's subscriptions and        *)
(* membership tier (_apply_event_side_effects and                          *)
(* _sync_membership_entitlement in backend/app/billing/store.py).          *)
(*                                                                         *)
(* The provider keeps the subscriptions of one user, all of the same       *)
(* product, charges one amount per period and sends an event for every     *)
(* change and every refund.  The store applies one event per transaction,  *)
(* in any order and possibly more than once; inOrder remembers whether     *)
(* they have all come in the order they were sent so far.  Every event     *)
(* carries the metadata, price and payment intent the checkout attached,   *)
(* so no row is an orphan for want of them.  A refund returns a charge in  *)
(* full and at once; RefundSync has refunds that add up.                   *)
(***************************************************************************)
EXTENDS Naturals, SequencesExt

CONSTANTS Subs,        \* provider subscription ids
          MaxChanges,  \* bound on the changes the provider makes
          LastPeriod   \* bound on the billing periods

ASSUME MirrorAssumption ==
    /\ MaxChanges \in Nat
    /\ LastPeriod \in Nat \ {0}

VARIABLES
    stripe,   \* the provider's subscriptions
    pending,  \* the events it has sent and not seen acknowledged
    inOrder,  \* no event has overtaken another
    mirror,   \* rows of public.subscriptions
    tier,     \* user_profiles.membership_tier
    now,      \* the current billing period
    charged,  \* charges the user has paid, by subscription and period
    orders,   \* those with a row in public.payment_orders
    refunded, \* those the provider has returned
    revoked,  \* subscriptions whose last news at the provider is a refund
    changes   \* changes and refunds made by the provider

vars == <<stripe, pending, inOrder, mirror, tier, now, charged, orders, refunded,
          revoked, changes>>

Live      == {"trialing", "active"}
Revocable == Live \union {"past_due", "unpaid"}
Statuses  == Revocable \union {"none", "incomplete", "canceled"}
Charges   == Subs \X (1..LastPeriod)

\* Period 0 is null: a row the checkout event inserted has no period yet.
Row   == [status : Statuses, period : 0..LastPeriod]
Kinds == {"checkout", "subscription", "invoice.paid", "invoice.payment_failed", "refund"}
Event == [kind : Kinds, sub : Subs, status : Statuses, period : 0..LastPeriod]

Init ==
    /\ stripe = [s \in Subs |-> [status |-> "none", period |-> 0]]
    /\ pending = << >>
    /\ inOrder = TRUE
    /\ mirror = [s \in Subs |-> [status |-> "none", period |-> 0]]
    /\ tier = "free_c"
    /\ now = 1
    /\ charged = {}
    /\ orders = {}
    /\ refunded = {}
    /\ revoked = {}
    /\ changes = 0

(***************************************************************************)
(* The provider.                                                           *)
(***************************************************************************)
Checkout(s, st)     == [kind |-> "checkout", sub |-> s, status |-> st, period |-> 0]
Subscription(s, st) == [kind |-> "subscription", sub |-> s, status |-> st, period |-> now]
Invoice(s, k)       == [kind |-> k, sub |-> s, status |-> "none", period |-> now]
Returned(s, n)      == [kind |-> "refund", sub |-> s, status |-> "none", period |-> n]

\* A subscription changes its status and the provider sends some events.
Change(s, from, to, events) ==
    /\ changes < MaxChanges
    /\ changes' = changes + 1
    /\ stripe[s].status \in from
    /\ stripe' = [stripe EXCEPT ![s] = [status |-> to, period |-> now]]
    /\ pending' = pending \o events
    /\ charged' = IF to = "active" THEN charged \union {<<s, now>>} ELSE charged
    /\ revoked' = revoked \ {s}
    /\ UNCHANGED <<inOrder, mirror, tier, now, orders, refunded>>

\* A checkout that is paid at once, or with a delayed payment method.
Buy(s) ==
    Change(s, {"none"}, "active",
           << Subscription(s, "incomplete"), Invoice(s, "invoice.paid"),
              Subscription(s, "active"), Checkout(s, "active") >>)

BuyLater(s) ==
    Change(s, {"none"}, "incomplete",
           << Subscription(s, "incomplete"), Checkout(s, "incomplete") >>)

PaymentArrives(s) ==
    Change(s, {"incomplete", "past_due"}, "active",
           << Invoice(s, "invoice.paid"), Subscription(s, "active") >>)

IsDue(s) == stripe[s].status = "active" /\ stripe[s].period < now

Renew(s) ==
    /\ IsDue(s)
    /\ Change(s, {"active"}, "active",
              << Subscription(s, "active"), Invoice(s, "invoice.paid") >>)

RenewalFails(s) ==
    /\ IsDue(s)
    /\ Change(s, {"active"}, "past_due",
              << Invoice(s, "invoice.payment_failed"), Subscription(s, "past_due") >>)

\* customer.subscription.deleted
Cancel(s) ==
    Change(s, {"incomplete", "active", "past_due"}, "canceled",
           << Subscription(s, "canceled") >>)

\* A charge is returned in full; the subscription goes on.
Refund(s, n) ==
    /\ changes < MaxChanges
    /\ changes' = changes + 1
    /\ <<s, n>> \in charged \ refunded
    /\ refunded' = refunded \union {<<s, n>>}
    /\ revoked' = revoked \union {r \in Subs : stripe[r].status \in Revocable}
    /\ pending' = Append(pending, Returned(s, n))
    /\ UNCHANGED <<stripe, inOrder, mirror, tier, now, charged, orders>>

NextPeriod ==
    /\ now < LastPeriod
    /\ now' = now + 1
    /\ UNCHANGED <<stripe, pending, inOrder, mirror, tier, charged, orders, refunded,
                   revoked, changes>>

(***************************************************************************)
(* The store.                                                              *)
(***************************************************************************)
\* Mutant: a subscription that waits for its first payment opens the tier.
TierOfEarly(status, period) ==
    IF status \in Live \union {"incomplete"} /\ (period = 0 \/ period >= now)
    THEN "c_plus" ELSE "free_c"

\* _sync_membership_entitlement
TierOf(status, period) ==
    IF status \in Live /\ (period = 0 \/ period >= now) THEN "c_plus" ELSE "free_c"

\* Mutant: an existing row is left alone.
UpsertInsertOnly(row, e) ==
    IF row.status = "none" THEN [status |-> e.status, period |-> e.period] ELSE row

\* The event's status replaces the row's whatever it was; a missing period
\* keeps the row's.
Upsert(row, e) ==
    [status |-> e.status,
     period |-> IF e.period = 0 THEN row.period ELSE e.period]

\* checkout.session.completed, customer.subscription.created, updated, deleted
MirrorEvent(e) ==
    /\ e.kind \in {"checkout", "subscription"}
    /\ mirror' = [mirror EXCEPT ![e.sub] = Upsert(@, e)]
    /\ tier' = TierOf(e.status, e.period)
    /\ UNCHANGED orders

ChargeOf(e) == <<e.sub, e.period>>

HasRow(s) == mirror[s].status # "none"

\* A canceled row stays canceled; the tier is synced as active all the same.
\* The charge gets its payment order.
InvoicePaid(e) ==
    /\ e.kind = "invoice.paid"
    /\ HasRow(e.sub)
    /\ mirror' = [mirror EXCEPT ![e.sub].status =
                    IF @ = "canceled" THEN @ ELSE "active"]
    /\ tier' = TierOf("active", mirror[e.sub].period)
    /\ orders' = orders \union {ChargeOf(e)}

\* Mutant: a failed payment cancels the mirror.
InvoiceFailedCancels(e) ==
    /\ e.kind = "invoice.payment_failed"
    /\ HasRow(e.sub)
    /\ mirror' = [mirror EXCEPT ![e.sub].status =
                    IF @ \in Revocable THEN "canceled" ELSE @]
    /\ tier' = TierOf("past_due", mirror[e.sub].period)
    /\ UNCHANGED orders

InvoiceFailed(e) ==
    /\ e.kind = "invoice.payment_failed"
    /\ HasRow(e.sub)
    /\ mirror' = [mirror EXCEPT ![e.sub].status =
                    IF @ \in Revocable THEN "past_due" ELSE @]
    /\ tier' = TierOf("past_due", mirror[e.sub].period)
    /\ UNCHANGED orders

\* Mutant: a refund cancels the rows whether or not its charge has an order.
RefundOfOrderAny(e) ==
    /\ e.kind = "refund"
    /\ mirror' = [s \in Subs |-> IF mirror[s].status \in Revocable
                                 THEN [mirror[s] EXCEPT !.status = "canceled"]
                                 ELSE mirror[s]]
    /\ tier' = TierOf("canceled", 0)
    /\ UNCHANGED orders

\* Mutant: the refund cancels the rows and leaves the tier.
RefundOfOrderTierKept(e) ==
    /\ e.kind = "refund"
    /\ ChargeOf(e) \in orders
    /\ mirror' = [s \in Subs |-> IF mirror[s].status \in Revocable
                                 THEN [mirror[s] EXCEPT !.status = "canceled"]
                                 ELSE mirror[s]]
    /\ UNCHANGED <<tier, orders>>

\* The order of the charge becomes refunded: every subscription of the user to
\* the product is canceled, whichever was charged, and the tier closes.
RefundOfOrder(e) ==
    /\ e.kind = "refund"
    /\ ChargeOf(e) \in orders
    /\ mirror' = [s \in Subs |-> IF mirror[s].status \in Revocable
                                 THEN [mirror[s] EXCEPT !.status = "canceled"]
                                 ELSE mirror[s]]
    /\ tier' = TierOf("canceled", 0)
    /\ UNCHANGED orders

\* An invoice of a subscription without a row, and a refund of a charge
\* without an order, are recorded as orphans.
Orphan(e) ==
    /\ \/ e.kind \in {"invoice.paid", "invoice.payment_failed"} /\ ~HasRow(e.sub)
       \/ e.kind = "refund" /\ ChargeOf(e) \notin orders
    /\ UNCHANGED <<mirror, tier, orders>>

ApplyEvent(e) ==
    MirrorEvent(e) \/ InvoicePaid(e) \/ InvoiceFailed(e) \/ RefundOfOrder(e) \/ Orphan(e)

\* One event is applied; it may come again.
Apply(i) ==
    /\ ApplyEvent(pending[i])
    /\ pending' \in {pending, RemoveAt(pending, i)}
    /\ inOrder' = (inOrder /\ i = 1)
    /\ UNCHANGED <<stripe, now, charged, refunded, revoked, changes>>

Provider(s) ==
    \/ Buy(s) \/ BuyLater(s) \/ PaymentArrives(s) \/ Renew(s) \/ RenewalFails(s) \/ Cancel(s)
    \/ \E n \in 1..LastPeriod : Refund(s, n)

Next ==
    \/ \E s \in Subs : Provider(s)
    \/ \E i \in 1..Len(pending) : Apply(i)
    \/ NextPeriod

Spec == Init /\ [][Next]_vars

(***************************************************************************)
(* Properties.                                                             *)
(***************************************************************************)
\* Every variable stays within its type.
TypeOK ==
    /\ stripe \in [Subs -> Row]
    /\ pending \in Seq(Event)
    /\ inOrder \in BOOLEAN
    /\ mirror \in [Subs -> Row]
    /\ tier \in {"free_c", "c_plus"}
    /\ now \in 1..LastPeriod
    /\ charged \subseteq Charges
    /\ orders \subseteq charged
    /\ refunded \subseteq charged
    /\ revoked \subseteq Subs
    /\ changes \in 0..MaxChanges

\* In whatever order events arrive, nobody has the paid tier who never paid.
NoTierWithoutPayment == tier = "c_plus" => charged # {}

\* In whatever order events arrive, a row is canceled only when the provider
\* has ended the subscription or has returned a charge the store has the order
\* of.
MirrorNeverAhead ==
    \A s \in Subs :
       mirror[s].status = "canceled" =>
          stripe[s].status = "canceled" \/ refunded \intersect orders # {}

\* In whatever order events arrive and repeat, neither the tier nor a row runs
\* ahead of what was paid and of what the provider has ended or returned.
NeverAhead == NoTierWithoutPayment /\ MirrorNeverAhead

\* Everything was delivered in order and no renewal is due.
InStep == inOrder /\ pending = << >> /\ \A s \in Subs : ~IsDue(s)

\* Delivered in order, repeats included, the events leave every row with the
\* provider's status, or canceled when a refund came after its last change,
\* and, for a user who never had a second subscription, the paid tier exactly
\* to an active or trialing row.
TierFollowsMirror ==
    InStep =>
      /\ \A s \in Subs :
            mirror[s].status = IF s \in revoked THEN "canceled" ELSE stripe[s].status
      /\ (\A r, s \in Subs : HasRow(r) /\ HasRow(s) => r = s) =>
           (tier = "c_plus" <=> \E s \in Subs : mirror[s].status \in Live)
=============================================================================
