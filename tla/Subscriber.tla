---------------------------- MODULE Subscriber ----------------------------
(***************************************************************************)
(* What one user does about subscriptions of their own: open a checkout,   *)
(* look at the status, open the customer portal, ask for a cancellation    *)
(* (backend/app/billing/service.py with routes.py, gateway.py and the      *)
(* reads and writes of store.py behind them).                              *)
(*                                                                         *)
(* A cancel request reads the newest subscription, calls the provider      *)
(* with no transaction open, and then flags whatever is newest by then.    *)
(* Meanwhile the webhook applies events, one transaction each, in any      *)
(* order and any number of times; SubscriptionMirror says what they do to  *)
(* the tier, this module what they do to the cancellation flag and to the  *)
(* customer.  Every status a request can cancel counts as active here.     *)
(***************************************************************************)
EXTENDS Naturals, SequencesExt

CONSTANTS Plans,    \* subscriptions, each bought through a session of its own
          Clicks,   \* cancel requests
          MaxTurns  \* bound on what the user does in the portal

ASSUME SubscriberAssumption == MaxTurns \in Nat

VARIABLES
    session,   \* the customer a plan's checkout session was opened for
    blind,     \* plans whose session was opened before a customer was known
    contract,  \* the provider's subscriptions
    accepted,  \* plans whose cancellation the provider has ever accepted
    sent,      \* events the provider delivers, again and again
    rows,      \* the user's public.subscriptions, oldest first
    customer,  \* billing_customers.stripe_customer_id
    click,     \* the cancel requests
    trail,     \* cancellations in audit_events
    moved,     \* plans that became the newest one during a cancel request
    turns      \* what the user has done in the portal

outside    == <<session, blind, contract, accepted, sent, turns>>
requested  == <<click, trail>>
subscriber == <<outside, rows, customer, requested, moved>>

None     == "none"
PlanRow  == [plan : Plans, status : {"active", "canceled"},
             flag : BOOLEAN, customer : Plans]
Notice   == [plan : Plans, status : {"active", "canceled"},
             flag : BOOLEAN, checkout : BOOLEAN]
Steps    == {"idle", "read", "asked", "recorded", "ok", "already", "failed", "missing"}
InFlight == {"read", "asked"}

SubscriberInit ==
    /\ session = [p \in Plans |-> None]
    /\ blind = {}
    /\ contract = [p \in Plans |-> [status |-> None, scheduled |-> FALSE]]
    /\ accepted = {}
    /\ sent = {}
    /\ rows = << >>
    /\ customer = None
    /\ click = [c \in Clicks |-> [at |-> "idle", plan |-> None]]
    /\ trail = {}
    /\ moved = {}
    /\ turns = 0

(***************************************************************************)
(* Reads.                                                                  *)
(***************************************************************************)
\* The positions of the rows that can be cancelled.
Cancellable(table) == {i \in DOMAIN table : table[i].status # "canceled"}

NewestOf(table) ==
    IF Cancellable(table) = {} THEN None ELSE table[Max(Cancellable(table))].plan

\* get_subscription: the newest row that can be cancelled.
Newest == NewestOf(rows)

FlagOf(p) == \E i \in DOMAIN rows : rows[i].plan = p /\ rows[i].flag

\* get_status: the newest row that has not ended, or else the newest row.
Shown ==
    IF rows = << >> THEN "404"
    ELSE IF Newest # None THEN Newest ELSE Last(rows).plan

\* get_subscription_for_read: the newest row, ended or not.
Listed == IF rows = << >> THEN "null" ELSE Last(rows).plan

\* create_portal: 409 for a user without a customer.
Portal == IF customer = None THEN "409" ELSE customer

(***************************************************************************)
(* The checkout and the provider.  A session opened without a customer     *)
(* makes the provider create one, which bears the plan's name here.        *)
(***************************************************************************)
\* Mutant: the known customer is not passed on.
OpenSessionAnew(p) ==
    /\ session[p] = None
    /\ blind' = IF customer = None THEN blind \union {p} ELSE blind
    /\ session' = [session EXCEPT ![p] = p]
    /\ UNCHANGED <<contract, accepted, sent, rows, customer, requested, moved, turns>>

\* create_checkout
OpenSession(p) ==
    /\ session[p] = None
    /\ blind' = IF customer = None THEN blind \union {p} ELSE blind
    /\ session' = [session EXCEPT ![p] = IF customer = None THEN p ELSE customer]
    /\ UNCHANGED <<contract, accepted, sent, rows, customer, requested, moved, turns>>

NoticeOf(p, c) ==
    [plan |-> p, status |-> c.status, flag |-> c.scheduled, checkout |-> FALSE]

Becomes(p, c) ==
    /\ contract' = [contract EXCEPT ![p] = c]
    /\ sent' = sent \union {NoticeOf(p, c)}

\* The session completes; its own event is sent beside the subscription's.
Subscribe(p) ==
    /\ session[p] # None
    /\ contract[p].status = None
    /\ LET c == [status |-> "active", scheduled |-> FALSE] IN
       /\ contract' = [contract EXCEPT ![p] = c]
       /\ sent' = sent \union {NoticeOf(p, c), [NoticeOf(p, c) EXCEPT !.checkout = TRUE]}
    /\ UNCHANGED <<session, blind, accepted, rows, customer, requested, moved, turns>>

\* In the portal the user schedules the end of a plan, or takes that back.
UsePortal(p, flag) ==
    /\ turns < MaxTurns
    /\ turns' = turns + 1
    /\ session[p] = Portal
    /\ contract[p].status = "active"
    /\ contract[p].scheduled # flag
    /\ Becomes(p, [contract[p] EXCEPT !.scheduled = flag])
    /\ accepted' = IF flag THEN accepted \union {p} ELSE accepted
    /\ UNCHANGED <<session, blind, rows, customer, requested, moved>>

\* A scheduled plan reaches the end of its period.
End(p) ==
    /\ contract[p].status = "active"
    /\ contract[p].scheduled
    /\ Becomes(p, [contract[p] EXCEPT !.status = "canceled"])
    /\ UNCHANGED <<session, blind, accepted, rows, customer, requested, moved, turns>>

(***************************************************************************)
(* The webhook applies an event.                                           *)
(***************************************************************************)
\* What the mirror makes of the row: the event's flag replaces the row's, and
\* a checkout's flag is always false.
RowAfter(n) ==
    [plan |-> n.plan, status |-> n.status, flag |-> n.flag /\ ~n.checkout,
     customer |-> session[n.plan]]

\* _upsert_subscription_mirror
UpsertRow(n) ==
    IF \E i \in DOMAIN rows : rows[i].plan = n.plan
    THEN [i \in DOMAIN rows |-> IF rows[i].plan = n.plan THEN RowAfter(n) ELSE rows[i]]
    ELSE Append(rows, RowAfter(n))

DeliverNotice(n) ==
    /\ n \in sent
    /\ rows' = UpsertRow(n)
    /\ customer' = IF n.checkout THEN session[n.plan] ELSE customer
    /\ moved' = IF \E c \in Clicks : click[c].at \in InFlight
                THEN moved \union {NewestOf(rows')} ELSE moved
    /\ UNCHANGED <<outside, requested>>

(***************************************************************************)
(* request_cancel                                                          *)
(***************************************************************************)
Turn(c, from, to) ==
    /\ click[c].at = from
    /\ click' = [click EXCEPT ![c].at = to]

\* Nothing to cancel, already flagged, or on to the provider.
ReadNewest(c) ==
    /\ click[c].at = "idle"
    /\ click' = [click EXCEPT ![c] =
                  [plan |-> Newest,
                   at |-> IF Newest = None THEN "missing"
                          ELSE IF FlagOf(Newest) THEN "already" ELSE "read"]]
    /\ UNCHANGED <<outside, rows, customer, trail, moved>>

\* The provider schedules the end; its answer may be lost.
Ask(c) ==
    /\ click[c].at = "read"
    /\ LET p == click[c].plan IN
       /\ contract[p].status = "active"
       /\ accepted' = accepted \union {p}
       /\ Becomes(p, [contract[p] EXCEPT !.scheduled = TRUE])
    /\ \E to \in {"asked", "failed"} : Turn(c, "read", to)
    /\ UNCHANGED <<session, blind, rows, customer, trail, moved, turns>>

FlagNewest ==
    rows' = [i \in DOMAIN rows |->
              IF rows[i].plan = Newest THEN [rows[i] EXCEPT !.flag = TRUE] ELSE rows[i]]

\* Mutant: the flag was recorded before the provider was asked.
RefuseFlagged(c) ==
    /\ Turn(c, "read", "failed")
    /\ FlagNewest
    /\ UNCHANGED <<outside, customer, trail, moved>>

\* The provider refuses, or cannot be reached.
Refuse(c) ==
    /\ Turn(c, "read", "failed")
    /\ UNCHANGED <<outside, rows, customer, trail, moved>>

\* record_cancel: the newest row by now.
Record(c) ==
    /\ Turn(c, "asked", "recorded")
    /\ FlagNewest
    /\ UNCHANGED <<outside, customer, trail, moved>>

Audit(c) ==
    /\ Turn(c, "recorded", "ok")
    /\ trail' = trail \union {click[c].plan}
    /\ UNCHANGED <<outside, rows, customer, moved>>

Cancelling(c) == ReadNewest(c) \/ Ask(c) \/ Refuse(c) \/ Record(c) \/ Audit(c)

ProviderMoves(p) ==
    \/ Subscribe(p)
    \/ \E flag \in BOOLEAN : UsePortal(p, flag)
    \/ End(p)

SubscriberNext ==
    \/ \E p \in Plans : OpenSession(p) \/ ProviderMoves(p)
    \/ \E n \in sent : DeliverNotice(n)
    \/ \E c \in Clicks : Cancelling(c)

SubscriberSpec == SubscriberInit /\ [][SubscriberNext]_subscriber

(***************************************************************************)
(* Properties.                                                             *)
(***************************************************************************)
\* Every variable stays within its type.
SubscriberTypeOK ==
    /\ session \in [Plans -> Plans \union {None}]
    /\ blind \subseteq Plans
    /\ accepted \subseteq Plans
    /\ sent \subseteq Notice
    /\ rows \in Seq(PlanRow)
    /\ customer \in Plans \union {None}
    /\ click \in [Clicks -> [at : Steps, plan : Plans \union {None}]]
    /\ trail \subseteq Plans
    /\ turns \in 0..MaxTurns

\* Who is told that a subscription will end, or finds its end audited, has had
\* the provider accept it: also when requests overlap, events come late and
\* answers are lost.  A plan that became the newest one during a request is the
\* exception: it is flagged without anybody having asked the provider.
CancellationsAreReal ==
    /\ \A c \in Clicks : click[c].at \in {"ok", "already"} =>
         click[c].plan \in accepted \union moved
    /\ trail \subseteq accepted

\* The pages agree: a plan has one row; the status shows the subscription a
\* cancel request would end; the plan page shows another one only when the
\* newest has ended and an older has not; and the portal opens on the customer
\* that has every subscription, as long as no two sessions were opened before
\* the first completion was applied.
PagesAgree ==
    /\ SubscriberTypeOK
    /\ \A i, j \in DOMAIN rows : rows[i].plan = rows[j].plan => i = j
    /\ Newest # None => Shown = Newest
    /\ rows # << >> /\ Listed # Shown => Newest \notin {None, Listed}
    /\ (customer # None /\ \A p, q \in blind : p = q) =>
         \A i \in DOMAIN rows : rows[i].customer = Portal
=============================================================================
