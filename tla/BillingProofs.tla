---------------------------- MODULE BillingProofs ----------------------------
(***************************************************************************)
(* Proofs about SubscriptionMirror, RefundSync and Subscriber: for any     *)
(* subscriptions, refunds, handlers, plans and cancel requests, any number *)
(* of changes and periods, and events in any order and number.             *)
(***************************************************************************)
EXTENDS SubscriptionMirror, RefundSync, Subscriber, SequenceTheorems, FiniteSetTheorems,
        WellFoundedInduction, TLAPS

\* Removing an element shifts the ones behind it.
LEMMA RemoveAtFacts ==
  ASSUME NEW S, NEW s \in Seq(S), NEW i \in 1..Len(s)
  PROVE  /\ RemoveAt(s, i) \in Seq(S)
         /\ Len(RemoveAt(s, i)) = Len(s) - 1
         /\ \A j \in 1..(Len(s) - 1) : RemoveAt(s, i)[j] = IF j < i THEN s[j] ELSE s[j + 1]
<1> DEFINE front == SubSeq(s, 1, i - 1)
           back  == SubSeq(s, i + 1, Len(s))
<1>1. Len(s) \in Nat /\ \A j \in 1..Len(s) : s[j] \in S
  BY LenProperties, ElementOfSeq
<1>2. /\ front \in Seq(S) /\ Len(front) = i - 1
      /\ \A j \in 1..(i - 1) : front[j] = s[j]
  <2>1. \A j \in 1..(i - 1) : s[j] \in S
    BY <1>1
  <2> QED
    BY <1>1, <2>1, SubSeqProperties
<1>3. /\ back \in Seq(S) /\ Len(back) = Len(s) - i
      /\ \A j \in 1..(Len(s) - i) : back[j] = s[i + j]
  <2>1. \A j \in (i + 1)..Len(s) : s[j] \in S
    BY <1>1
  <2> QED
    BY <1>1, <2>1, SubSeqProperties
<1>4. RemoveAt(s, i) = front \o back
  BY DEF RemoveAt
<1> HIDE DEF front, back
<1>5. /\ front \o back \in Seq(S)
      /\ Len(front \o back) = Len(front) + Len(back)
      /\ \A j \in 1..(Len(front) + Len(back)) :
            (front \o back)[j] = IF j <= Len(front) THEN front[j] ELSE back[j - Len(front)]
  BY <1>2, <1>3, ConcatProperties
<1>6. ASSUME NEW j \in 1..(Len(s) - 1)
      PROVE  (front \o back)[j] = IF j < i THEN s[j] ELSE s[j + 1]
  <2>1. Len(front) + Len(back) = Len(s) - 1
    BY <1>1, <1>2, <1>3
  <2>2. (front \o back)[j] = IF j <= i - 1 THEN front[j] ELSE back[j - (i - 1)]
    BY <1>2, <1>5, <2>1
  <2>3. CASE j < i
    BY <1>1, <1>2, <2>2, <2>3
  <2>4. CASE ~(j < i)
    <3>1. j - (i - 1) \in 1..(Len(s) - i) /\ i + (j - (i - 1)) = j + 1
      BY <1>1, <2>4
    <3> QED
      BY <1>1, <1>3, <2>2, <2>4, <3>1
  <2> QED
    BY <2>3, <2>4
<1>7. Len(front \o back) = Len(s) - 1
  BY <1>1, <1>2, <1>3, <1>5
<1> QED
  BY <1>4, <1>5, <1>6, <1>7

(***************************************************************************)
(* An event on its way keeps telling the truth: a payment or a refund it   *)
(* reports was made, and a subscription it reports canceled is so for      *)
(* ever, because the provider never leaves that status.  This is what      *)
(* makes the order of arrival harmless.                                    *)
(***************************************************************************)
Truthful(e) ==
    /\ e.status \in Live => charged # {}
    /\ e.kind = "invoice.paid" => ChargeOf(e) \in charged
    /\ e.kind = "refund" => ChargeOf(e) \in refunded
    /\ e.status = "canceled" => stripe[e.sub].status = "canceled"

PendingIsTrue == \A i \in 1..Len(pending) : Truthful(pending[i])

MirrorInv == TypeOK /\ PendingIsTrue /\ NoTierWithoutPayment /\ MirrorNeverAhead

(***************************************************************************)
(* Changes at the provider.                                                *)
(***************************************************************************)
\* What the events of one change may say of subscription s, now in status to.
Tells(events, s, to) ==
    /\ events \in Seq(Event)
    /\ \A i \in 1..Len(events) :
          /\ events[i].status \in Live => to = "active"
          /\ events[i].kind = "invoice.paid" => to = "active" /\ ChargeOf(events[i]) = <<s, now>>
          /\ events[i].kind # "refund"
          /\ events[i].status = "canceled" => events[i].sub = s /\ to = "canceled"

\* A change out of a status that is not final, which sends such events.
LEMMA ChangeKept ==
    ASSUME MirrorInv, NEW s \in Subs, NEW from, NEW to \in Statuses, NEW STATE events,
           "canceled" \notin from, Tells(events, s, to), Change(s, from, to, events)
    PROVE  MirrorInv'
<1> USE MirrorAssumption
<1>1. /\ pending' \in Seq(Event)
      /\ Len(pending') = Len(pending) + Len(events)
      /\ Len(pending) \in Nat /\ Len(events) \in Nat
      /\ \A i \in 1..Len(pending') :
            pending'[i] = IF i <= Len(pending) THEN pending[i] ELSE events[i - Len(pending)]
  BY ConcatProperties, LenProperties DEF MirrorInv, TypeOK, Tells, Change
<1>2. TypeOK'
  <2>1. [status |-> to, period |-> now] \in Row
    BY DEF MirrorInv, TypeOK, Row
  <2>2. stripe' \in [Subs -> Row]
    BY <2>1 DEF MirrorInv, TypeOK, Change
  <2>3. changes' \in 0..MaxChanges
    BY DEF MirrorInv, TypeOK, Change
  <2>4. /\ charged' \subseteq Charges /\ orders' \subseteq charged'
        /\ refunded' \subseteq charged' /\ revoked' \subseteq Subs
    BY DEF MirrorInv, TypeOK, Change, Charges
  <2> QED
    BY <1>1, <2>2, <2>3, <2>4 DEF MirrorInv, TypeOK, Change
<1>3. /\ charged \subseteq charged' /\ refunded' = refunded /\ orders' = orders
      /\ to = "active" => <<s, now>> \in charged'
      /\ stripe'[s].status = to
      /\ \A r \in Subs : stripe[r].status = "canceled" => stripe'[r].status = "canceled"
  BY DEF MirrorInv, TypeOK, Row, Change
<1>4. PendingIsTrue'
  <2> SUFFICES ASSUME NEW i \in 1..Len(pending')
               PROVE  /\ pending'[i].status \in Live => charged' # {}
                      /\ pending'[i].kind = "invoice.paid" => ChargeOf(pending'[i]) \in charged'
                      /\ pending'[i].kind = "refund" => ChargeOf(pending'[i]) \in refunded'
                      /\ pending'[i].status = "canceled"
                            => stripe'[pending'[i].sub].status = "canceled"
    BY DEF PendingIsTrue, Truthful, ChargeOf
  <2>1. CASE i <= Len(pending)
    <3>1. i \in 1..Len(pending) /\ pending'[i] = pending[i]
      BY <1>1, <2>1
    <3>2. pending[i] \in Event
      BY <3>1, ElementOfSeq DEF MirrorInv, TypeOK
    <3>3. Truthful(pending[i]) /\ pending[i].sub \in Subs
      BY <3>1, <3>2 DEF MirrorInv, PendingIsTrue, Event
    <3> QED
      BY <1>3, <3>1, <3>3 DEF Truthful
  <2>2. CASE ~(i <= Len(pending))
    <3>1. i - Len(pending) \in 1..Len(events) /\ pending'[i] = events[i - Len(pending)]
      BY <1>1, <2>2
    <3> QED
      BY <1>3, <3>1 DEF Tells
  <2> QED
    BY <2>1, <2>2
<1>5. NoTierWithoutPayment' /\ MirrorNeverAhead'
  BY <1>3 DEF MirrorInv, NoTierWithoutPayment, MirrorNeverAhead, Change
<1> QED
  BY <1>2, <1>4, <1>5 DEF MirrorInv

\* The events the provider builds are events.
LEMMA EventsTyped ==
    ASSUME TypeOK, NEW s \in Subs
    PROVE  /\ \A st \in Statuses : Checkout(s, st) \in Event /\ Subscription(s, st) \in Event
           /\ \A k \in Kinds : Invoice(s, k) \in Event
           /\ \A n \in 1..LastPeriod : Returned(s, n) \in Event
BY MirrorAssumption
   DEF TypeOK, Checkout, Subscription, Invoice, Returned, Event, Kinds, Statuses, Revocable, Live

\* Adding one event to the ones on their way.
LEMMA AppendFacts ==
    ASSUME NEW S, NEW q \in Seq(S), NEW x \in S
    PROVE  /\ Append(q, x) \in Seq(S) /\ Len(q) \in Nat /\ Len(Append(q, x)) = Len(q) + 1
           /\ \A i \in 1..Len(q) : i \in 1..(Len(q) + 1) /\ Append(q, x)[i] = q[i]
           /\ Len(q) + 1 \in 1..(Len(q) + 1) /\ Append(q, x)[Len(q) + 1] = x
           /\ \A i \in 1..(Len(q) + 1) : i \in 1..Len(q) \/ i = Len(q) + 1
BY AppendProperties, LenProperties

\* A refund keeps the invariant.
LEMMA RefundKept ==
    ASSUME MirrorInv, NEW s \in Subs, NEW n \in 1..LastPeriod, Refund(s, n)
    PROVE  MirrorInv'
<1>1. Returned(s, n) \in Event
  BY EventsTyped DEF MirrorInv
<1>2. /\ pending' \in Seq(Event) /\ Len(pending') = Len(pending) + 1
      /\ \A i \in 1..Len(pending') : \/ i \in 1..Len(pending) /\ pending'[i] = pending[i]
                                     \/ pending'[i] = Returned(s, n)
  BY <1>1, AppendFacts DEF MirrorInv, TypeOK, Refund
<1>3. TypeOK'
  <2>1. changes' \in 0..MaxChanges
    BY MirrorAssumption DEF MirrorInv, TypeOK, Refund
  <2> QED
    BY <1>2, <2>1 DEF MirrorInv, TypeOK, Refund
<1>4. PendingIsTrue'
  <2> SUFFICES ASSUME NEW i \in 1..Len(pending')
               PROVE  /\ pending'[i].status \in Live => charged' # {}
                      /\ pending'[i].kind = "invoice.paid" => ChargeOf(pending'[i]) \in charged'
                      /\ pending'[i].kind = "refund" => ChargeOf(pending'[i]) \in refunded'
                      /\ pending'[i].status = "canceled"
                            => stripe'[pending'[i].sub].status = "canceled"
    BY DEF PendingIsTrue, Truthful, ChargeOf
  <2>1. CASE i \in 1..Len(pending) /\ pending'[i] = pending[i]
    <3>1. Truthful(pending[i])
      BY <2>1 DEF MirrorInv, PendingIsTrue
    <3> QED
      BY <2>1, <3>1 DEF Refund, Truthful
  <2>2. CASE pending'[i] = Returned(s, n)
    BY <2>2 DEF Refund, Returned, ChargeOf, Live
  <2> QED
    BY <1>2, <2>1, <2>2
<1>5. NoTierWithoutPayment' /\ MirrorNeverAhead'
  BY DEF MirrorInv, NoTierWithoutPayment, MirrorNeverAhead, Refund
<1> QED
  BY <1>3, <1>4, <1>5 DEF MirrorInv

\* A change at the provider keeps the invariant.
LEMMA ProviderStep ==
    ASSUME MirrorInv, NEW s \in Subs, Provider(s)
    PROVE  MirrorInv'
<1> DEFINE used == {"incomplete", "active", "past_due", "canceled"}
<1>1. /\ \A st \in used : st \in Statuses /\ Checkout(s, st) \in Event /\ Subscription(s, st) \in Event
      /\ Invoice(s, "invoice.paid") \in Event
      /\ Invoice(s, "invoice.payment_failed") \in Event
  BY EventsTyped DEF MirrorInv, Statuses, Revocable, Live, Kinds
<1>2. CASE Buy(s)
  <2> DEFINE mail == << Subscription(s, "incomplete"), Invoice(s, "invoice.paid"),
                     Subscription(s, "active"), Checkout(s, "active") >>
  <2>1. mail \in Seq(Event)
    BY <1>1
  <2>2. Tells(mail, s, "active")
    BY <2>1 DEF Tells, Checkout, Subscription, Invoice, ChargeOf, Live
  <2> QED
    BY <1>1, <1>2, <2>2, ChangeKept DEF Buy
<1>3. CASE BuyLater(s)
  <2> DEFINE mail == << Subscription(s, "incomplete"), Checkout(s, "incomplete") >>
  <2>1. mail \in Seq(Event)
    BY <1>1
  <2>2. Tells(mail, s, "incomplete")
    BY <2>1 DEF Tells, Checkout, Subscription, Invoice, ChargeOf, Live
  <2> QED
    BY <1>1, <1>3, <2>2, ChangeKept DEF BuyLater
<1>4. CASE PaymentArrives(s)
  <2> DEFINE mail == << Invoice(s, "invoice.paid"), Subscription(s, "active") >>
  <2>1. mail \in Seq(Event)
    BY <1>1
  <2>2. Tells(mail, s, "active")
    BY <2>1 DEF Tells, Checkout, Subscription, Invoice, ChargeOf, Live
  <2> QED
    BY <1>1, <1>4, <2>2, ChangeKept DEF PaymentArrives
<1>5. CASE Renew(s)
  <2> DEFINE mail == << Subscription(s, "active"), Invoice(s, "invoice.paid") >>
  <2>1. mail \in Seq(Event)
    BY <1>1
  <2>2. Tells(mail, s, "active")
    BY <2>1 DEF Tells, Checkout, Subscription, Invoice, ChargeOf, Live
  <2> QED
    BY <1>1, <1>5, <2>2, ChangeKept DEF Renew
<1>6. CASE RenewalFails(s)
  <2> DEFINE mail == << Invoice(s, "invoice.payment_failed"), Subscription(s, "past_due") >>
  <2>1. mail \in Seq(Event)
    BY <1>1
  <2>2. Tells(mail, s, "past_due")
    BY <2>1 DEF Tells, Checkout, Subscription, Invoice, ChargeOf, Live
  <2> QED
    BY <1>1, <1>6, <2>2, ChangeKept DEF RenewalFails
<1>7. CASE Cancel(s)
  <2> DEFINE mail == << Subscription(s, "canceled") >>
  <2>1. mail \in Seq(Event)
    BY <1>1
  <2>2. Tells(mail, s, "canceled")
    BY <2>1 DEF Tells, Checkout, Subscription, Invoice, ChargeOf, Live
  <2> QED
    BY <1>1, <1>7, <2>2, ChangeKept DEF Cancel
<1> QED
  BY <1>2, <1>3, <1>4, <1>5, <1>6, <1>7, RefundKept DEF Provider

(***************************************************************************)
(* Events at the store.                                                    *)
(***************************************************************************)
\* Acknowledging an event leaves a sequence of the same events.
LEMMA PendingAfter ==
    ASSUME MirrorInv, NEW i \in 1..Len(pending), pending' \in {pending, RemoveAt(pending, i)},
           charged' = charged, refunded' = refunded, stripe' = stripe
    PROVE  pending' \in Seq(Event) /\ PendingIsTrue'
<1>1. CASE pending' = pending
  BY <1>1 DEF MirrorInv, TypeOK, PendingIsTrue, Truthful, ChargeOf
<1>2. CASE pending' = RemoveAt(pending, i)
  <2> DEFINE rest == RemoveAt(pending, i)
  <2>1. /\ rest \in Seq(Event) /\ Len(rest) = Len(pending) - 1
        /\ \A j \in 1..(Len(pending) - 1) :
              rest[j] = IF j < i THEN pending[j] ELSE pending[j + 1]
    BY RemoveAtFacts DEF MirrorInv, TypeOK
  <2>2. Len(pending) \in Nat
    BY LenProperties DEF MirrorInv, TypeOK
  <2> HIDE DEF rest
  <2>3. \A j \in 1..Len(rest) : \E k \in 1..Len(pending) : rest[j] = pending[k]
    <3> SUFFICES ASSUME NEW j \in 1..Len(rest)
                 PROVE  \/ rest[j] = pending[j] /\ j \in 1..Len(pending)
                        \/ rest[j] = pending[j + 1] /\ j + 1 \in 1..Len(pending)
      OBVIOUS
    <3> QED
      BY <2>1, <2>2
  <2>4. pending' = rest
    BY <1>2 DEF rest
  <2> QED
    BY <2>1, <2>3, <2>4 DEF MirrorInv, PendingIsTrue, Truthful, ChargeOf
<1> QED
  BY <1>1, <1>2

\* An event at the store keeps the invariant.
LEMMA ApplyStep ==
    ASSUME MirrorInv, NEW i \in 1..Len(pending), Apply(i)
    PROVE  MirrorInv'
<1> DEFINE e == pending[i]
<1>1. e \in Event /\ Truthful(e)
  BY ElementOfSeq DEF MirrorInv, TypeOK, PendingIsTrue
<1>2. pending' \in Seq(Event) /\ PendingIsTrue'
  BY PendingAfter DEF Apply
<1>3. /\ mirror' \in [Subs -> Row]
      /\ tier' \in {"free_c", "c_plus"}
      /\ orders' \subseteq charged' /\ orders \subseteq orders'
      /\ NoTierWithoutPayment'
      /\ MirrorNeverAhead'
  <2> USE <1>1 DEF MirrorInv, TypeOK, Apply, Truthful, NoTierWithoutPayment, MirrorNeverAhead,
                   Event, Row, TierOf, Live, Revocable, Statuses
  <2>1. CASE MirrorEvent(e)
    <3> DEFINE fresh == Upsert(mirror[e.sub], e)
    <3>1. fresh \in Row /\ fresh.status = e.status
      BY DEF Upsert
    <3>2. /\ mirror' = [mirror EXCEPT ![e.sub] = fresh] /\ orders' = orders
          /\ tier' = TierOf(e.status, e.period)
      BY <2>1 DEF MirrorEvent
    <3> HIDE DEF fresh
    <3>3. mirror' \in [Subs -> Row]
      BY <3>1, <3>2
    <3>4. \A s \in Subs : mirror'[s].status = "canceled" =>
             mirror[s].status = "canceled" \/ stripe[s].status = "canceled"
      BY <3>1, <3>2
    <3> QED
      BY <3>2, <3>3, <3>4
  <2>2. CASE InvoicePaid(e)
    <3>1. tier' \in {"free_c", "c_plus"} /\ charged # {}
      BY <2>2 DEF InvoicePaid
    <3>2. orders' = orders \union {ChargeOf(e)} /\ ChargeOf(e) \in charged
      BY <2>2 DEF InvoicePaid
    <3>3. \A s \in Subs : mirror'[s] \in Row /\ (mirror'[s].status = "canceled" => mirror[s].status = "canceled")
      BY <2>2 DEF InvoicePaid
    <3>4. mirror' \in [Subs -> Row]
      BY <2>2, <3>3 DEF InvoicePaid
    <3> QED
      BY <3>1, <3>2, <3>3, <3>4
  <2>3. CASE InvoiceFailed(e)
    <3>1. tier' = "free_c"
      BY <2>3 DEF InvoiceFailed
    <3>2. \A s \in Subs : mirror'[s] \in Row
      BY <2>3 DEF InvoiceFailed
    <3>3. \A s \in Subs : mirror'[s].status = "canceled" => mirror[s].status = "canceled"
      BY <2>3 DEF InvoiceFailed
    <3>4. mirror' \in [Subs -> Row]
      BY <2>3, <3>2 DEF InvoiceFailed
    <3>5. orders' = orders
      BY <2>3 DEF InvoiceFailed
    <3> QED
      BY <3>1, <3>3, <3>4, <3>5
  <2>4. CASE RefundOfOrder(e)
    <3>1. tier' = "free_c" /\ orders' = orders
      BY <2>4 DEF RefundOfOrder
    <3>2. mirror' \in [Subs -> Row]
      BY <2>4 DEF RefundOfOrder
    <3>3. refunded' \intersect orders' # {}
      BY <2>4 DEF RefundOfOrder
    <3> QED
      BY <3>1, <3>2, <3>3
  <2>5. CASE Orphan(e)
    BY <2>5 DEF Orphan
  <2> QED
    BY <2>1, <2>2, <2>3, <2>4, <2>5 DEF ApplyEvent
<1>4. inOrder' \in BOOLEAN
  BY DEF MirrorInv, TypeOK, Apply
<1> QED
  BY <1>2, <1>3, <1>4 DEF MirrorInv, TypeOK, Apply

(***************************************************************************)
(* The invariant.                                                          *)
(***************************************************************************)
\* The invariant holds at the start.
LEMMA MirrorStarts ==
    Init => MirrorInv
<1> SUFFICES ASSUME Init PROVE MirrorInv
  OBVIOUS
<1>1. pending \in Seq(Event) /\ Len(pending) = 0
  BY EmptySeq DEF Init
<1>2. TypeOK
  <2>1. [status |-> "none", period |-> 0] \in Row
    BY MirrorAssumption DEF Row, Statuses
  <2>2. now \in 1..LastPeriod /\ changes \in 0..MaxChanges
    BY MirrorAssumption DEF Init
  <2> QED
    BY <1>1, <2>1, <2>2 DEF Init, TypeOK
<1>3. PendingIsTrue /\ NoTierWithoutPayment /\ MirrorNeverAhead
  BY <1>1 DEF Init, PendingIsTrue, NoTierWithoutPayment, MirrorNeverAhead
<1> QED
  BY <1>2, <1>3 DEF MirrorInv

\* Every step keeps it.
LEMMA MirrorSteps ==
    MirrorInv /\ [Next]_vars => MirrorInv'
<1> SUFFICES ASSUME MirrorInv, [Next]_vars PROVE MirrorInv'
  OBVIOUS
<1>1. CASE NextPeriod
  BY <1>1, MirrorAssumption
     DEF NextPeriod, MirrorInv, TypeOK, PendingIsTrue, Truthful, ChargeOf, NoTierWithoutPayment,
         MirrorNeverAhead
<1>2. CASE UNCHANGED vars
  BY <1>2 DEF vars, MirrorInv, TypeOK, PendingIsTrue, Truthful, ChargeOf, NoTierWithoutPayment,
              MirrorNeverAhead
<1> QED
  BY <1>1, <1>2, ProviderStep, ApplyStep DEF Next

\* Every variable stays within its type.
THEOREM TypeCorrect == Spec => []TypeOK
<1>1. MirrorInv => TypeOK
  BY DEF MirrorInv
<1> QED
  BY <1>1, MirrorStarts, MirrorSteps, PTL DEF Spec

\* In whatever order events arrive, nobody has the paid tier who never paid.
THEOREM NoFreeTier == Spec => []NoTierWithoutPayment
<1>1. MirrorInv => NoTierWithoutPayment
  BY DEF MirrorInv
<1> QED
  BY <1>1, MirrorStarts, MirrorSteps, PTL DEF Spec

\* In whatever order events arrive, a row is canceled only when the provider
\* has ended the subscription or returned a charge the store has the order of.
THEOREM CancellationIsReal == Spec => []MirrorNeverAhead
<1>1. MirrorInv => MirrorNeverAhead
  BY DEF MirrorInv
<1> QED
  BY <1>1, MirrorStarts, MirrorSteps, PTL DEF Spec

\* Both together: nothing runs ahead of the provider.
THEOREM NothingAhead == Spec => []NeverAhead
<1>1. NoTierWithoutPayment /\ MirrorNeverAhead => NeverAhead
  BY DEF NeverAhead
<1> QED
  BY <1>1, NoFreeTier, CancellationIsReal, PTL

(***************************************************************************)
(* Events in order.                                                        *)
(***************************************************************************)
\* An event of the subscription itself, rather than a refund of its charge.
IsOf(e, s) == e.sub = s /\ e.kind # "refund"

\* Event i is the last that tells of subscription s.
IsLast(s, i) ==
    /\ IsOf(pending[i], s)
    /\ \A j \in 1..Len(pending) : j > i => ~IsOf(pending[j], s)

\* The last event of a subscription has its status; a payment comes right
\* after the renewal it is for, whose period the row has by the time the
\* payment is the next event.
IsCurrent(s, i) ==
    \/ /\ pending[i].kind = "checkout" /\ pending[i].period = 0
       /\ pending[i].status = stripe[s].status
    \/ /\ pending[i].kind = "subscription" /\ pending[i].period = stripe[s].period
       /\ pending[i].status = stripe[s].status
    \/ /\ pending[i].kind = "invoice.paid"
       /\ stripe[s].status = "active"
       /\ i = 1 => mirror[s] = stripe[s]
       /\ i > 1 => pending[i - 1] = [kind |-> "subscription", sub |-> s,
                                     status |-> "active", period |-> stripe[s].period]

IsSole(s) == \A r \in Subs : r # s => stripe[r].status = "none"

\* Nothing that tells of s comes after event k.
IsAfter(s, k) == \A i \in 1..Len(pending) : IsOf(pending[i], s) => i < k

Silent(s) == \A i \in 1..Len(pending) : ~IsOf(pending[i], s)

IsRefund(k) == pending[k].kind = "refund"

\* An event that makes the row of s.
MakesRow(e, s) == e.sub = s /\ e.kind \in {"checkout", "subscription"}

RowComes(s) == HasRow(s) \/ \E i \in 1..Len(pending) : MakesRow(pending[i], s)

RowBefore(s, n) == HasRow(s) \/ \E i \in 1..Len(pending) : i < n /\ MakesRow(pending[i], s)

\* An event that makes the payment order of a charge.
Pays(e, c) == e.kind = "invoice.paid" /\ ChargeOf(e) = c

OrderComes(c) == c \in orders \/ \E i \in 1..Len(pending) : Pays(pending[i], c)

OrderBefore(c, n) == c \in orders \/ \E i \in 1..Len(pending) : i < n /\ Pays(pending[i], c)

Returns(e, c) == e.kind = "refund" /\ ChargeOf(e) = c

\* What holds whatever the order.
Known ==
    /\ \A s \in Subs :
          stripe[s].status # "trialing" /\ (stripe[s].status # "none" => stripe[s].period # 0)
    /\ \A i \in 1..Len(pending) : stripe[pending[i].sub].status # "none"
    /\ tier = "c_plus" => \E s \in Subs : stripe[s].status # "none"
    /\ \A s \in revoked : stripe[s].status \in Revocable
    /\ \A c \in charged : stripe[c[1]].status # "none"

\* A subscription's row comes before its invoices.
RowsCome ==
    /\ \A s \in Subs : \A i \in 1..Len(pending) :
          /\ MakesRow(pending[i], s) => pending[i].status # "none"
          /\ pending[i].sub = s /\ pending[i].kind \in {"invoice.paid", "invoice.payment_failed"} =>
                RowBefore(s, i)
    /\ \A s \in Subs : stripe[s].status # "none" => RowComes(s)

\* A refund names the period of its charge.
RefundsTyped ==
    \A i \in 1..Len(pending) : pending[i].kind = "refund" => pending[i].period \in 1..LastPeriod

\* While no event has overtaken another, the payment order of a charge comes
\* before its refund.
OrdersCome ==
    /\ \A c \in charged : OrderComes(c)
    /\ \A c \in Charges : \A k \in 1..Len(pending) : Returns(pending[k], c) => OrderBefore(c, k)

\* While no event has overtaken another, a subscription the provider has
\* refunded since its last change is canceled or has the refund to come, and no
\* other is canceled by a refund.
RefundsCome ==
    /\ \A s \in revoked :
          \/ mirror[s].status = "canceled" /\ Silent(s)
          \/ \E k \in 1..Len(pending) : IsRefund(k) /\ IsAfter(s, k)
    /\ \A s \in Subs : \A k \in 1..Len(pending) :
          IsRefund(k) /\ IsAfter(s, k) => s \in revoked \/ stripe[s].status \notin Revocable

\* What holds while no event has overtaken another.
Following ==
    /\ \A s \in Subs :
          Silent(s) => \/ mirror[s].status = stripe[s].status
                       \/ s \in revoked /\ mirror[s].status = "canceled"
    /\ \A s \in Subs : \A i \in 1..Len(pending) : IsLast(s, i) => IsCurrent(s, i)
    /\ Len(pending) = 0 =>
          \A s \in Subs : IsSole(s) /\ ~IsDue(s) =>
             (tier = "c_plus" <=> s \notin revoked /\ stripe[s].status \in Live)

FollowInv ==
    Known /\ RowsCome /\ RefundsTyped /\ (inOrder => OrdersCome /\ RefundsCome /\ Following)

(***************************************************************************)
(* Changes at the provider.                                                *)
(***************************************************************************)
\* What two sequences joined consist of.
LEMMA JoinedFacts ==
    ASSUME NEW S, NEW p \in Seq(S), NEW x \in Seq(S), NEW q, q = p \o x,
           NEW m, m = Len(p), NEW n, n = Len(x)
    PROVE  /\ m \in Nat /\ n \in Nat /\ q \in Seq(S) /\ Len(q) = m + n
           /\ \A i \in 1..m : i \in 1..(m + n) /\ q[i] = p[i] /\ p[i] \in S
           /\ \A i \in 1..n : m + i \in 1..(m + n) /\ q[m + i] = x[i]
           /\ \A i \in 1..(m + n) : i \in 1..m \/ (i > m /\ i - m \in 1..n /\ q[i] = x[i - m])
<1>1. /\ m \in Nat /\ n \in Nat /\ q \in Seq(S) /\ Len(q) = m + n
      /\ \A i \in 1..(m + n) : q[i] = IF i <= m THEN p[i] ELSE x[i - m]
      /\ \A i \in 1..m : p[i] \in S
  BY ConcatProperties, LenProperties, ElementOfSeq
<1>2. \A i \in 1..n : m + i \in 1..(m + n) /\ ~(m + i <= m) /\ (m + i) - m = i
  BY <1>1
<1>3. \A i \in 1..(m + n) : i \in 1..m \/ (i > m /\ ~(i <= m) /\ i - m \in 1..n)
  BY <1>1
<1>4. ASSUME NEW i \in 1..n PROVE q[m + i] = x[i]
  BY <1>1, <1>2
<1> QED
  BY <1>1, <1>2, <1>3, <1>4

\* What is added to the events on their way leaves what comes before an event
\* before it.
LEMMA GrownBefore ==
    ASSUME NEW m \in Nat, NEW n \in Nat, m = Len(pending), Len(pending') = m + n,
           \A i \in 1..m : i \in 1..(m + n) /\ pending'[i] = pending[i],
           mirror' = mirror, orders' = orders
    PROVE  /\ \A r \in Subs : RowComes(r) =>
                 RowComes(r)' /\ \A l \in Int : l > m => RowBefore(r, l)'
           /\ \A c : OrderComes(c) =>
                 OrderComes(c)' /\ \A l \in Int : l > m => OrderBefore(c, l)'
           /\ \A r \in Subs : \A k \in 1..m : RowBefore(r, k) => RowBefore(r, k)'
           /\ \A c : \A k \in 1..m : OrderBefore(c, k) => OrderBefore(c, k)'
<1>1. \A i \in 1..m : i \in 1..Len(pending') /\ pending'[i] = pending[i] /\ \A l \in Int : l > m => i < l
  OBVIOUS
<1>2. \A r, i : i \in 1..m /\ MakesRow(pending[i], r) => MakesRow(pending'[i], r)
  BY <1>1
<1>3. \A c, i : i \in 1..m /\ Pays(pending[i], c) => Pays(pending'[i], c)
  BY <1>1
<1>4. ASSUME NEW r \in Subs
      PROVE  /\ RowComes(r) => RowComes(r)' /\ \A l \in Int : l > m => RowBefore(r, l)'
             /\ \A k \in 1..m : RowBefore(r, k) => RowBefore(r, k)'
  BY <1>1, <1>2 DEF RowComes, RowBefore, HasRow, MakesRow
<1>5. ASSUME NEW c
      PROVE  /\ OrderComes(c) => OrderComes(c)' /\ \A l \in Int : l > m => OrderBefore(c, l)'
             /\ \A k \in 1..m : OrderBefore(c, k) => OrderBefore(c, k)'
  BY <1>1, <1>3 DEF OrderComes, OrderBefore, Pays, ChargeOf
<1> QED
  BY <1>4, <1>5

\* What the events of one change, of subscription s to status to, tell of and
\* end with.
Announces(events, s, to) ==
    /\ events \in Seq(Event) /\ Len(events) # 0
    /\ \A i \in 1..Len(events) :
          /\ IsOf(events[i], s)
          /\ MakesRow(events[i], s) => events[i].status # "none"
    /\ stripe[s].status = "none" => MakesRow(events[1], s)
    /\ to = "active" => \E i \in 1..Len(events) : Pays(events[i], <<s, now>>)
    /\ LET n == Len(events) IN
       \/ events[n].kind = "checkout" /\ events[n].period = 0 /\ events[n].status = to
       \/ events[n].kind = "subscription" /\ events[n].period = now /\ events[n].status = to
       \/ /\ events[n].kind = "invoice.paid" /\ to = "active" /\ n > 1
          /\ events[n - 1] = [kind |-> "subscription", sub |-> s,
                              status |-> "active", period |-> now]

\* A change whose last event has the new status is followed.
LEMMA ChangeFollowed ==
    ASSUME TypeOK, FollowInv, NEW s \in Subs, NEW from, NEW to \in Statuses \ {"none", "trialing"},
           NEW STATE events, Announces(events, s, to), Change(s, from, to, events)
    PROVE  FollowInv'
<1>1. /\ stripe' = [stripe EXCEPT ![s] = [status |-> to, period |-> now]]
      /\ pending' = pending \o events
      /\ charged' \subseteq charged \union {<<s, now>>}
      /\ to # "active" => charged' = charged
      /\ revoked' = revoked \ {s}
      /\ UNCHANGED <<inOrder, mirror, tier, now, orders, refunded>>
  BY DEF Change
<1> DEFINE m == Len(pending)
           n == Len(events)
<1>2. pending \in Seq(Event) /\ events \in Seq(Event) /\ n # 0
  BY DEF Announces, TypeOK
<1>3. /\ m \in Nat /\ n \in Nat /\ Len(pending') = m + n
      /\ \A i \in 1..m : i \in 1..(m + n) /\ pending'[i] = pending[i] /\ pending[i] \in Event
      /\ \A i \in 1..n : m + i \in 1..(m + n) /\ pending'[m + i] = events[i]
      /\ \A i \in 1..(m + n) : \/ i \in 1..m
                               \/ i > m /\ i - m \in 1..n /\ pending'[i] = events[i - m]
  BY <1>1, <1>2, JoinedFacts
<1> HIDE DEF m, n
<1>4. /\ stripe'[s].status = to /\ stripe'[s].period = now
      /\ \A r \in Subs : r # s => stripe'[r] = stripe[r]
      /\ to # "none" /\ to # "trialing" /\ now # 0
  BY <1>1, MirrorAssumption DEF TypeOK
<1>5. \A i \in 1..(m + n) : \/ i \in 1..m
                            \/ i > m /\ IsOf(pending'[i], s) /\ pending'[i].kind # "refund"
  BY <1>3 DEF Announces, n, IsOf
<1>6. \A i \in 1..m : pending[i].sub \in Subs
  BY <1>3 DEF Event
<1>7. /\ \A r \in Subs : RowComes(r) => RowComes(r)' /\ \A l \in Int : l > m => RowBefore(r, l)'
      /\ \A c : OrderComes(c) => OrderComes(c)'
      /\ \A r \in Subs : \A k \in 1..m : RowBefore(r, k) => RowBefore(r, k)'
      /\ \A c : \A k \in 1..m : OrderBefore(c, k) => OrderBefore(c, k)'
  <2>1. m = Len(pending) /\ mirror' = mirror /\ orders' = orders
    BY <1>1 DEF m
  <2> QED
    BY <1>3, <2>1, GrownBefore
<1>8. Known'
  <2>1. \A r \in Subs : stripe'[r].status # "trialing" /\ (stripe'[r].status # "none" => stripe'[r].period # 0)
    BY <1>4 DEF FollowInv, Known
  <2>2. \A i \in 1..Len(pending') : stripe'[pending'[i].sub].status # "none"
    <3> SUFFICES ASSUME NEW i \in 1..(m + n) PROVE stripe'[pending'[i].sub].status # "none"
      BY <1>3
    <3>1. CASE i \in 1..m
      BY <1>3, <1>4, <1>6, <3>1 DEF FollowInv, Known, m
    <3>2. CASE IsOf(pending'[i], s)
      BY <1>4, <3>2 DEF IsOf
    <3> QED
      BY <1>5, <3>1, <3>2
  <2>3. \E r \in Subs : stripe'[r].status # "none"
    BY <1>4
  <2>4. \A r \in revoked' : stripe'[r].status \in Revocable
    BY <1>1, <1>4 DEF FollowInv, Known, TypeOK
  <2>5. \A c \in charged' : stripe'[c[1]].status # "none"
    <3>1. \A c \in charged : c[1] \in Subs
      BY DEF TypeOK, Charges
    <3> QED
      BY <1>1, <1>4, <3>1 DEF FollowInv, Known
  <2> QED
    BY <2>1, <2>2, <2>3, <2>4, <2>5 DEF Known
<1>9. RowsCome'
  <2>1. 1 \in 1..n /\ MakesRow(pending'[m + 1], events[1].sub) = MakesRow(events[1], events[1].sub)
    BY <1>2, <1>3 DEF MakesRow
  <2>2. ASSUME stripe[s].status = "none"
        PROVE  RowComes(s)' /\ \A l \in Int : l > m + 1 => RowBefore(s, l)'
    <3>1. m + 1 \in 1..Len(pending') /\ MakesRow(pending'[m + 1], s)
      BY <1>3, <2>1, <2>2 DEF Announces, MakesRow
    <3> QED
      BY <3>1 DEF RowComes, RowBefore, MakesRow
  <2>3. ASSUME NEW r \in Subs, NEW i \in 1..(m + n)
        PROVE  /\ MakesRow(pending'[i], r) => pending'[i].status # "none"
               /\ pending'[i].sub = r /\ pending'[i].kind \in {"invoice.paid", "invoice.payment_failed"} =>
                     RowBefore(r, i)'
    <3>1. CASE i \in 1..m
      <4>1. pending'[i] = pending[i]
        BY <1>3, <3>1
      <4>2. /\ MakesRow(pending[i], r) => pending[i].status # "none"
            /\ pending[i].sub = r /\ pending[i].kind \in {"invoice.paid", "invoice.payment_failed"} =>
                  RowBefore(r, i)
        BY <3>1 DEF FollowInv, RowsCome, m
      <4> QED
        BY <1>7, <3>1, <4>1, <4>2
    <3>2. CASE i > m /\ i - m \in 1..n /\ pending'[i] = events[i - m]
      <4>1. IsOf(events[i - m], s) /\ (MakesRow(events[i - m], s) => events[i - m].status # "none")
        BY <3>2 DEF Announces, n
      <4>2. ASSUME pending'[i].sub = r, pending'[i].kind \in {"invoice.paid", "invoice.payment_failed"}
            PROVE  RowBefore(r, i)'
        <5>1. r = s
          BY <3>2, <4>1, <4>2 DEF IsOf
        <5>2. CASE stripe[s].status = "none"
          <6>1. i - m # 1
            BY <3>2, <4>2, <5>2 DEF Announces, MakesRow
          <6>2. i > m + 1
            BY <1>3, <3>2, <6>1
          <6> QED
            BY <2>2, <5>1, <5>2, <6>2
        <5>3. CASE stripe[s].status # "none"
          <6>1. RowComes(s)
            BY <5>3 DEF FollowInv, RowsCome
          <6> QED
            BY <1>7, <3>2, <5>1, <6>1
        <5> QED
          BY <5>2, <5>3
      <4> QED
        BY <3>2, <4>1, <4>2 DEF IsOf, MakesRow
    <3> QED
      BY <1>3, <3>1, <3>2
  <2>4. ASSUME NEW r \in Subs, stripe'[r].status # "none"
        PROVE  RowComes(r)'
    <3>1. CASE r = s /\ stripe[s].status = "none"
      BY <2>2, <3>1
    <3>2. CASE stripe[r].status # "none"
      BY <1>7, <3>2 DEF FollowInv, RowsCome
    <3> QED
      BY <1>4, <2>4, <3>1, <3>2
  <2> QED
    BY <1>3, <2>3, <2>4 DEF RowsCome, MakesRow
<1>10. inOrder' => OrdersCome'
  <2> SUFFICES ASSUME OrdersCome PROVE OrdersCome'
    BY <1>1 DEF FollowInv
  <2>1. ASSUME NEW c \in charged' PROVE OrderComes(c)'
    <3>1. CASE c \in charged
      BY <1>7, <3>1 DEF OrdersCome
    <3>2. CASE to = "active" /\ c = <<s, now>>
      <4>1. PICK i \in 1..n : Pays(events[i], c)
        BY <3>2 DEF Announces, n
      <4>2. m + i \in 1..Len(pending') /\ Pays(pending'[m + i], c)
        BY <1>3, <4>1
      <4> QED
        BY <4>2 DEF OrderComes, Pays, ChargeOf
    <3> QED
      BY <1>1, <3>1, <3>2
  <2>2. ASSUME NEW c \in Charges, NEW k \in 1..(m + n), Returns(pending'[k], c)
        PROVE  OrderBefore(c, k)'
    <3>1. k \in 1..m
      BY <1>5, <2>2 DEF Returns
    <3>2. OrderBefore(c, k)
      BY <1>3, <2>2, <3>1 DEF OrdersCome, m
    <3> QED
      BY <1>7, <3>1, <3>2
  <2> QED
    BY <1>3, <2>1, <2>2 DEF OrdersCome, Returns, ChargeOf
<1>11. inOrder' => RefundsCome'
  <2> SUFFICES ASSUME RefundsCome PROVE RefundsCome'
    BY <1>1 DEF FollowInv
  <2>1. m + n \in 1..(m + n) /\ m + n > m /\ IsOf(pending'[m + n], s) /\ \A i \in 1..m : i < m + n
    BY <1>2, <1>3, <1>5
  <2>2. ASSUME NEW r \in Subs, r # s
        PROVE  /\ Silent(r) <=> Silent(r)'
               /\ \A k \in 1..m : IsAfter(r, k) <=> IsAfter(r, k)'
    <3>1. \A i \in 1..(m + n) : IsOf(pending'[i], r) => i \in 1..m
      BY <1>5, <2>2 DEF IsOf
    <3> QED
      BY <1>3, <3>1 DEF Silent, IsAfter, IsOf, m
  <2>3. ASSUME NEW r \in revoked'
        PROVE  \/ mirror'[r].status = "canceled" /\ Silent(r)'
               \/ \E k \in 1..(m + n) : IsRefund(k)' /\ IsAfter(r, k)'
    <3>1. r \in revoked /\ r # s /\ r \in Subs
      BY <1>1, <2>3 DEF TypeOK
    <3>2. CASE mirror[r].status = "canceled" /\ Silent(r)
      BY <1>1, <2>2, <3>1, <3>2
    <3>3. ASSUME NEW k \in 1..m, IsRefund(k), IsAfter(r, k)
          PROVE  k \in 1..(m + n) /\ IsRefund(k)' /\ IsAfter(r, k)'
      BY <1>3, <2>2, <3>1, <3>3 DEF IsRefund
    <3> QED
      BY <3>1, <3>2, <3>3 DEF RefundsCome, m
  <2>4. ASSUME NEW r \in Subs, NEW k \in 1..(m + n), IsRefund(k)', IsAfter(r, k)'
        PROVE  r \in revoked' \/ stripe'[r].status \notin Revocable
    <3>1. k \in 1..m
      BY <1>5, <2>4 DEF IsRefund
    <3>2. r # s
      <4>1. IsAfter(s, k)' => m + n < k
        BY <1>3, <2>1 DEF IsAfter
      <4> QED
        BY <1>3, <2>4, <3>1, <4>1
    <3>3. IsRefund(k) /\ IsAfter(r, k)
      BY <1>3, <2>2, <2>4, <3>1, <3>2 DEF IsRefund
    <3> QED
      BY <1>1, <1>4, <3>1, <3>2, <3>3 DEF RefundsCome, m
  <2> QED
    BY <1>3, <2>3, <2>4 DEF RefundsCome
<1>12. inOrder' => Following'
  <2> SUFFICES ASSUME Following PROVE Following'
    BY <1>1 DEF FollowInv
  <2>1. m + n \in 1..(m + n) /\ m + n > m /\ IsOf(pending'[m + n], s) /\ \A i \in 1..m : i < m + n
    BY <1>2, <1>3, <1>5
  <2>2. ASSUME NEW r \in Subs, Silent(r)'
        PROVE  \/ mirror'[r].status = stripe'[r].status
               \/ r \in revoked' /\ mirror'[r].status = "canceled"
    <3>1. r # s
      BY <1>3, <2>1, <2>2 DEF Silent
    <3>2. Silent(r)
      BY <1>3, <2>2 DEF Silent, IsOf, m
    <3> QED
      BY <1>1, <1>4, <3>1, <3>2 DEF Following
  <2>3. ASSUME NEW r \in Subs, NEW i \in 1..(m + n), IsLast(r, i)'
        PROVE  IsCurrent(r, i)'
    <3>1. IsOf(pending'[i], r) /\ \A j \in 1..(m + n) : j > i => ~IsOf(pending'[j], r)
      BY <1>3, <2>3 DEF IsLast
    <3>2. CASE r = s
      <4>1. i = m + n
        BY <1>3, <2>1, <3>1, <3>2
      <4>2. n \in 1..n /\ pending'[i] = events[n]
        BY <1>2, <1>3, <4>1
      <4>3. CASE events[n].kind # "invoice.paid"
        <5>1. \/ events[n].kind = "checkout" /\ events[n].period = 0 /\ events[n].status = to
              \/ events[n].kind = "subscription" /\ events[n].period = now /\ events[n].status = to
          BY <4>3 DEF Announces, n
        <5> QED
          BY <1>4, <3>2, <4>2, <5>1 DEF IsCurrent
      <4>4. CASE events[n].kind = "invoice.paid"
        <5>1. /\ to = "active" /\ n > 1
              /\ events[n - 1] = [kind |-> "subscription", sub |-> s,
                                  status |-> "active", period |-> now]
          BY <4>4 DEF Announces, n
        <5>2. n - 1 \in 1..n /\ m + (n - 1) = i - 1 /\ i > 1 /\ i # 1
          BY <1>3, <4>1, <5>1
        <5>3. pending'[i - 1] = events[n - 1]
          BY <1>3, <5>2
        <5> QED
          BY <1>4, <3>2, <4>2, <4>4, <5>1, <5>2, <5>3 DEF IsCurrent
      <4> QED
        BY <4>3, <4>4
    <3>3. CASE r # s
      <4>1. i \in 1..m
        BY <1>5, <3>1, <3>3 DEF IsOf
      <4>2. IsLast(r, i)
        BY <1>3, <3>1, <4>1 DEF IsLast, m
      <4>3. IsCurrent(r, i)
        BY <4>1, <4>2 DEF Following, m
      <4>4. pending'[i] = pending[i] /\ stripe'[r] = stripe[r] /\ mirror' = mirror
        BY <1>1, <1>3, <1>4, <3>3, <4>1
      <4>5. i > 1 => pending'[i - 1] = pending[i - 1]
        <5> SUFFICES ASSUME i > 1 PROVE pending'[i - 1] = pending[i - 1]
          OBVIOUS
        <5>1. i - 1 \in 1..m
          BY <1>3, <4>1
        <5> QED
          BY <1>3, <5>1
      <4> QED
        BY <4>3, <4>4, <4>5 DEF IsCurrent
    <3> QED
      BY <3>2, <3>3
  <2>4. Len(pending') # 0
    BY <1>2, <1>3
  <2>5. \A r \in Subs : \A i \in 1..Len(pending') : IsLast(r, i)' => IsCurrent(r, i)'
    BY <1>3, <2>3
  <2> QED
    BY <2>2, <2>4, <2>5 DEF Following
<1>13. RefundsTyped'
  <2> SUFFICES ASSUME NEW i \in 1..(m + n), pending'[i].kind = "refund"
               PROVE  pending'[i].period \in 1..LastPeriod
    BY <1>3 DEF RefundsTyped
  <2> QED
    BY <1>3, <1>5 DEF FollowInv, RefundsTyped, m
<1> QED
  BY <1>8, <1>9, <1>10, <1>11, <1>12, <1>13 DEF FollowInv

\* A refund is followed.
LEMMA RefundFollowed ==
    ASSUME TypeOK, FollowInv, NEW s \in Subs, NEW p \in 1..LastPeriod, Refund(s, p)
    PROVE  FollowInv'
<1> DEFINE m == Len(pending)
           c0 == <<s, p>>
<1>1. /\ c0 \in charged /\ c0 \in Charges /\ s \in Subs
      /\ revoked' = revoked \union {r \in Subs : stripe[r].status \in Revocable}
      /\ pending' = Append(pending, Returned(s, p))
      /\ UNCHANGED <<stripe, inOrder, mirror, tier, now, charged, orders>>
  BY DEF Refund, Charges
<1>2. Returned(s, p) \in Event /\ pending \in Seq(Event)
  BY EventsTyped DEF TypeOK
<1>3. /\ m \in Nat /\ Len(pending') = m + 1 /\ m = Len(pending)
      /\ \A i \in 1..m : i \in 1..(m + 1) /\ pending'[i] = pending[i] /\ i # m + 1 /\ i < m + 1
      /\ m + 1 \in 1..(m + 1) /\ pending'[m + 1] = Returned(s, p)
      /\ \A i \in 1..(m + 1) : i \in 1..m \/ i = m + 1
  BY <1>1, <1>2, AppendFacts
<1> HIDE DEF m, c0
<1>4. /\ ~IsOf(pending'[m + 1], s) /\ \A r : ~IsOf(pending'[m + 1], r) /\ ~MakesRow(pending'[m + 1], r)
      /\ Returns(pending'[m + 1], c0) /\ \A c : Returns(pending'[m + 1], c) => c = c0
      /\ pending'[m + 1].sub = s /\ pending'[m + 1].kind = "refund"
  BY <1>3 DEF IsOf, MakesRow, Returns, Returned, ChargeOf, c0
<1>5. /\ \A r \in Subs : RowComes(r) => RowComes(r)' /\ \A l \in Int : l > m => RowBefore(r, l)'
      /\ \A c : OrderComes(c) => OrderComes(c)' /\ \A l \in Int : l > m => OrderBefore(c, l)'
      /\ \A r \in Subs : \A k \in 1..m : RowBefore(r, k) => RowBefore(r, k)'
      /\ \A c : \A k \in 1..m : OrderBefore(c, k) => OrderBefore(c, k)'
  BY <1>1, <1>3, GrownBefore
<1>6. Known'
  <2>1. stripe[s].status # "none"
    BY <1>1 DEF FollowInv, Known, c0
  <2>2. \A i \in 1..Len(pending') : stripe'[pending'[i].sub].status # "none"
    BY <1>1, <1>3, <1>4, <2>1 DEF FollowInv, Known
  <2> QED
    BY <1>1, <2>2 DEF FollowInv, Known
<1>7. RowsCome'
  <2>1. ASSUME NEW r \in Subs, NEW i \in 1..(m + 1)
        PROVE  /\ MakesRow(pending'[i], r) => pending'[i].status # "none"
               /\ pending'[i].sub = r /\ pending'[i].kind \in {"invoice.paid", "invoice.payment_failed"} =>
                     RowBefore(r, i)'
    <3>1. CASE i \in 1..m
      BY <1>3, <1>5, <3>1 DEF FollowInv, RowsCome
    <3>2. CASE i = m + 1
      BY <1>4, <3>2
    <3> QED
      BY <1>3, <3>1, <3>2
  <2>2. \A r \in Subs : stripe'[r].status # "none" => RowComes(r)'
    BY <1>1, <1>5 DEF FollowInv, RowsCome
  <2> QED
    BY <1>3, <2>1, <2>2 DEF RowsCome, MakesRow
<1>8. inOrder' => OrdersCome'
  <2> SUFFICES ASSUME OrdersCome PROVE OrdersCome'
    BY <1>1 DEF FollowInv
  <2>1. \A c \in charged' : OrderComes(c)'
    BY <1>1, <1>5 DEF OrdersCome
  <2>2. ASSUME NEW c \in Charges, NEW k \in 1..(m + 1), Returns(pending'[k], c)
        PROVE  OrderBefore(c, k)'
    <3>1. CASE k \in 1..m
      BY <1>3, <1>5, <2>2, <3>1 DEF OrdersCome
    <3>2. CASE k = m + 1
      <4>1. c = c0 /\ OrderComes(c0)
        BY <1>1, <1>4, <2>2, <3>2 DEF OrdersCome
      <4>2. m + 1 \in Int /\ m + 1 > m
        BY <1>3
      <4> QED
        BY <1>5, <3>2, <4>1, <4>2
    <3> QED
      BY <1>3, <3>1, <3>2
  <2> QED
    BY <1>3, <2>1, <2>2 DEF OrdersCome, Returns, ChargeOf
<1>9. ASSUME NEW r \in Subs
      PROVE  /\ Silent(r)' <=> Silent(r)
             /\ \A k \in 1..m : IsAfter(r, k)' <=> IsAfter(r, k)
             /\ \A k \in 1..(m + 1) : k = m + 1 => IsAfter(r, k)' /\ ~IsLast(r, k)'
             /\ \A i \in 1..m : IsLast(r, i)' <=> IsLast(r, i)
  BY <1>3, <1>4 DEF Silent, IsAfter, IsLast, IsOf
<1>10. inOrder' => RefundsCome'
  <2> SUFFICES ASSUME RefundsCome PROVE RefundsCome'
    BY <1>1 DEF FollowInv
  <2>1. ASSUME NEW r \in Subs
        PROVE  \E k \in 1..(m + 1) : IsRefund(k)' /\ IsAfter(r, k)'
    BY <1>3, <1>4, <1>9 DEF IsRefund
  <2>2. ASSUME NEW r \in Subs, NEW k \in 1..(m + 1), IsRefund(k)', IsAfter(r, k)'
        PROVE  r \in revoked' \/ stripe'[r].status \notin Revocable
    BY <1>1
  <2>3. revoked' \subseteq Subs
    BY <1>1 DEF TypeOK
  <2> QED
    BY <1>3, <2>1, <2>2, <2>3 DEF RefundsCome
<1>11. inOrder' => Following'
  <2> SUFFICES ASSUME Following PROVE Following'
    BY <1>1 DEF FollowInv
  <2>1. ASSUME NEW r \in Subs, Silent(r)'
        PROVE  \/ mirror'[r].status = stripe'[r].status
               \/ r \in revoked' /\ mirror'[r].status = "canceled"
    BY <1>1, <1>9, <2>1 DEF Following
  <2>2. ASSUME NEW r \in Subs, NEW i \in 1..(m + 1), IsLast(r, i)'
        PROVE  IsCurrent(r, i)'
    <3>1. i \in 1..m /\ IsLast(r, i)
      BY <1>3, <1>9, <2>2
    <3>2. IsCurrent(r, i)
      BY <1>3, <3>1 DEF Following
    <3>3. pending'[i] = pending[i] /\ (i > 1 => pending'[i - 1] = pending[i - 1])
      <4>1. i > 1 => i - 1 \in 1..m
        BY <1>3, <3>1
      <4> QED
        BY <1>3, <3>1, <4>1
    <3> QED
      BY <1>1, <3>2, <3>3 DEF IsCurrent
  <2>3. Len(pending') # 0
    BY <1>3
  <2>4. \A r \in Subs : \A i \in 1..Len(pending') : IsLast(r, i)' => IsCurrent(r, i)'
    BY <1>3, <2>2
  <2> QED
    BY <2>1, <2>3, <2>4 DEF Following
<1>12. RefundsTyped'
  BY <1>3 DEF FollowInv, RefundsTyped, Returned
<1> QED
  BY <1>6, <1>7, <1>8, <1>10, <1>11, <1>12 DEF FollowInv

\* Every change at the provider is followed.
LEMMA ProviderFollowed ==
    ASSUME TypeOK, FollowInv, NEW s \in Subs, Provider(s)
    PROVE  FollowInv'
<1> DEFINE used == {"incomplete", "active", "past_due", "canceled"}
<1>1. /\ \A st \in used : /\ st \in Statuses \ {"none", "trialing"}
                         /\ Checkout(s, st) \in Event /\ Subscription(s, st) \in Event
      /\ Invoice(s, "invoice.paid") \in Event
      /\ Invoice(s, "invoice.payment_failed") \in Event
  BY EventsTyped DEF Statuses, Revocable, Live, Kinds
<1>2. CASE Buy(s)
  <2> DEFINE mail == << Subscription(s, "incomplete"), Invoice(s, "invoice.paid"),
                     Subscription(s, "active"), Checkout(s, "active") >>
  <2>1. mail \in Seq(Event)
    BY <1>1
  <2>2. MakesRow(mail[1], s)
    BY <1>2 DEF Buy, Change, MakesRow, Subscription
  <2>3. 2 \in 1..Len(mail) /\ Pays(mail[2], <<s, now>>)
    BY DEF Pays, Invoice, ChargeOf
  <2>4. Announces(mail, s, "active")
    BY <2>1, <2>2, <2>3 DEF Announces, Checkout, Subscription, Invoice, IsOf, MakesRow
  <2> QED
    BY <1>1, <1>2, <2>4, ChangeFollowed DEF Buy
<1>3. CASE BuyLater(s)
  <2> DEFINE mail == << Subscription(s, "incomplete"), Checkout(s, "incomplete") >>
  <2>1. mail \in Seq(Event)
    BY <1>1
  <2>2. MakesRow(mail[1], s)
    BY <1>3 DEF BuyLater, Change, MakesRow, Subscription
  <2>3. Announces(mail, s, "incomplete")
    BY <2>1, <2>2 DEF Announces, Checkout, Subscription, Invoice, IsOf, MakesRow
  <2> QED
    BY <1>1, <1>3, <2>3, ChangeFollowed DEF BuyLater
<1>4. CASE PaymentArrives(s)
  <2> DEFINE mail == << Invoice(s, "invoice.paid"), Subscription(s, "active") >>
  <2>1. mail \in Seq(Event)
    BY <1>1
  <2>2. stripe[s].status # "none"
    BY <1>4 DEF PaymentArrives, Change, MakesRow, Subscription
  <2>3. 1 \in 1..Len(mail) /\ Pays(mail[1], <<s, now>>)
    BY DEF Pays, Invoice, ChargeOf
  <2>4. Announces(mail, s, "active")
    BY <2>1, <2>2, <2>3 DEF Announces, Checkout, Subscription, Invoice, IsOf, MakesRow
  <2> QED
    BY <1>1, <1>4, <2>4, ChangeFollowed DEF PaymentArrives
<1>5. CASE Renew(s)
  <2> DEFINE mail == << Subscription(s, "active"), Invoice(s, "invoice.paid") >>
  <2>1. mail \in Seq(Event)
    BY <1>1
  <2>2. stripe[s].status # "none"
    BY <1>5 DEF Renew, Change, MakesRow, Subscription
  <2>3. 2 \in 1..Len(mail) /\ Pays(mail[2], <<s, now>>)
    BY DEF Pays, Invoice, ChargeOf
  <2>4. Announces(mail, s, "active")
    BY <2>1, <2>2, <2>3 DEF Announces, Checkout, Subscription, Invoice, IsOf, MakesRow
  <2> QED
    BY <1>1, <1>5, <2>4, ChangeFollowed DEF Renew
<1>6. CASE RenewalFails(s)
  <2> DEFINE mail == << Invoice(s, "invoice.payment_failed"), Subscription(s, "past_due") >>
  <2>1. mail \in Seq(Event)
    BY <1>1
  <2>2. stripe[s].status # "none"
    BY <1>6 DEF RenewalFails, Change, MakesRow, Subscription
  <2>3. Announces(mail, s, "past_due")
    BY <2>1, <2>2 DEF Announces, Checkout, Subscription, Invoice, IsOf, MakesRow
  <2> QED
    BY <1>1, <1>6, <2>3, ChangeFollowed DEF RenewalFails
<1>7. CASE Cancel(s)
  <2> DEFINE mail == << Subscription(s, "canceled") >>
  <2>1. mail \in Seq(Event)
    BY <1>1
  <2>2. stripe[s].status # "none"
    BY <1>7 DEF Cancel, Change, MakesRow, Subscription
  <2>3. Announces(mail, s, "canceled")
    BY <2>1, <2>2 DEF Announces, Checkout, Subscription, Invoice, IsOf, MakesRow
  <2> QED
    BY <1>1, <1>7, <2>3, ChangeFollowed DEF Cancel
<1> QED
  BY <1>2, <1>3, <1>4, <1>5, <1>6, <1>7, RefundFollowed DEF Provider

(***************************************************************************)
(* Events at the store, in order.                                          *)
(***************************************************************************)
\* What the store makes of an event, of the last one of a subscription, of a
\* renewal and its payment, and of a refund.
LEMMA EventApplied ==
    ASSUME TypeOK, NEW e \in Event, ApplyEvent(e),
           stripe[e.sub].status \notin {"none", "trialing"}, stripe[e.sub].period # 0,
           e.kind \in {"checkout", "subscription"} => e.status # "none"
    PROVE  /\ e.kind # "refund" => \A r \in Subs : r # e.sub => mirror'[r] = mirror[r]
           /\ e.kind \in {"checkout", "subscription"} =>
                 mirror'[e.sub].status = e.status /\ tier' = TierOf(e.status, e.period)
           /\ e.kind = "subscription" /\ e.status = stripe[e.sub].status
                 /\ e.period = stripe[e.sub].period => mirror'[e.sub] = stripe[e.sub]
           /\ e.kind = "invoice.paid" /\ stripe[e.sub].status = "active"
                 /\ mirror[e.sub] = stripe[e.sub] =>
                    mirror'[e.sub] = stripe[e.sub] /\ tier' = TierOf("active", stripe[e.sub].period)
           /\ \A r \in Subs : HasRow(r) => HasRow(r)'
           /\ e.kind \in {"checkout", "subscription"} => mirror'[e.sub].status # "none"
           /\ orders \subseteq orders'
           /\ e.kind = "invoice.paid" /\ HasRow(e.sub) => ChargeOf(e) \in orders'
           /\ e.kind = "refund" /\ ChargeOf(e) \in orders =>
                 /\ tier' = "free_c"
                 /\ \A r \in Subs : mirror'[r].status = IF mirror[r].status \in Revocable
                                                        THEN "canceled" ELSE mirror[r].status
<1>1. e.sub \in Subs /\ e.kind \in Kinds
  BY DEF Event
<1>2. \A r \in Subs : stripe[r] \in Row /\ mirror[r] \in Row
  BY DEF TypeOK
<1>3. CASE MirrorEvent(e)
  <2>1. /\ mirror' = [mirror EXCEPT ![e.sub] =
                        [status |-> e.status,
                         period |-> IF e.period = 0 THEN mirror[e.sub].period ELSE e.period]]
        /\ tier' = TierOf(e.status, e.period)
        /\ e.kind \in {"checkout", "subscription"}
        /\ orders' = orders
    BY <1>3 DEF MirrorEvent, Upsert
  <2>2. /\ \A r \in Subs : r # e.sub => mirror'[r] = mirror[r]
        /\ mirror'[e.sub] = [status |-> e.status,
                             period |-> IF e.period = 0 THEN mirror[e.sub].period ELSE e.period]
    BY <1>1, <2>1 DEF TypeOK
  <2>3. stripe[e.sub] = [status |-> stripe[e.sub].status, period |-> stripe[e.sub].period]
    BY <1>1, <1>2 DEF Row
  <2>4. mirror'[e.sub].status # "none" /\ \A r \in Subs : HasRow(r) => HasRow(r)'
    BY <1>1, <2>1, <2>2 DEF HasRow
  <2> QED
    BY <2>1, <2>2, <2>3, <2>4
<1>4. CASE InvoicePaid(e)
  <2>1. /\ mirror' = [mirror EXCEPT ![e.sub].status = IF @ = "canceled" THEN @ ELSE "active"]
        /\ tier' = TierOf("active", mirror[e.sub].period)
        /\ e.kind = "invoice.paid"
        /\ orders' = orders \union {ChargeOf(e)}
    BY <1>4 DEF InvoicePaid
  <2>2. \A r \in Subs : r # e.sub => mirror'[r] = mirror[r]
    BY <1>1, <2>1 DEF TypeOK
  <2>3. mirror[e.sub].status = "active" => mirror'[e.sub] = mirror[e.sub]
    BY <1>1, <1>2, <2>1 DEF TypeOK, Row
  <2>4. \A r \in Subs : HasRow(r) => HasRow(r)'
    BY <1>1, <1>2, <2>1 DEF HasRow, TypeOK, Row
  <2> QED
    BY <2>1, <2>2, <2>3, <2>4
<1>5. CASE InvoiceFailed(e)
  <2>1. /\ \A r \in Subs : r # e.sub => mirror'[r] = mirror[r]
        /\ e.kind = "invoice.payment_failed"
        /\ orders' = orders
    BY <1>1, <1>5 DEF InvoiceFailed, TypeOK
  <2>2. \A r \in Subs : HasRow(r) => HasRow(r)'
    BY <1>1, <1>2, <1>5 DEF InvoiceFailed, HasRow, TypeOK, Row
  <2> QED
    BY <2>1, <2>2
<1>6. CASE RefundOfOrder(e)
  <2>1. /\ \A r \in Subs : mirror'[r].status = IF mirror[r].status \in Revocable
                                               THEN "canceled" ELSE mirror[r].status
        /\ e.kind = "refund" /\ orders' = orders /\ tier' = "free_c"
    BY <1>2, <1>6 DEF RefundOfOrder, Row, TierOf, Live
  <2> QED
    BY <2>1 DEF HasRow
<1>7. CASE Orphan(e)
  BY <1>7 DEF Orphan, HasRow
<1> QED
  BY <1>3, <1>4, <1>5, <1>6, <1>7 DEF ApplyEvent

\* Applying event i leaves the others on their way, in the same order.
LEMMA QueueAfter ==
    ASSUME TypeOK, NEW i \in 1..Len(pending), pending' \in {pending, RemoveAt(pending, i)}
    PROVE  /\ Len(pending) \in Nat
           /\ \A j \in 1..Len(pending') : \E k \in 1..Len(pending) :
                 /\ pending'[j] = pending[k]
                 /\ \A l \in 1..Len(pending) : l < k /\ l # i =>
                       \E h \in 1..Len(pending') : h < j /\ pending'[h] = pending[l]
           /\ \A k \in 1..Len(pending) : k # i =>
                 \E h \in 1..Len(pending') : pending'[h] = pending[k]
           /\ \/ pending' = pending
              \/ /\ Len(pending') = Len(pending) - 1
                 /\ \A j \in 1..(Len(pending) - 1) :
                       pending'[j] = IF j < i THEN pending[j] ELSE pending[j + 1]
<1> DEFINE m == Len(pending)
<1>1. m \in Nat
  BY LenProperties DEF TypeOK
<1>2. CASE pending' = pending
  BY <1>1, <1>2
<1>3. CASE pending' = RemoveAt(pending, i)
  <2>1. /\ Len(pending') = m - 1
        /\ \A j \in 1..(m - 1) : pending'[j] = IF j < i THEN pending[j] ELSE pending[j + 1]
    BY <1>3, RemoveAtFacts DEF TypeOK
  <2> HIDE DEF m
  <2>2. ASSUME NEW k \in 1..m, k # i
        PROVE  LET h == IF k < i THEN k ELSE k - 1 IN
               h \in 1..(m - 1) /\ pending'[h] = pending[k]
    <3>1. CASE k < i
      <4>1. k \in 1..(m - 1)
        BY <1>1, <3>1 DEF m
      <4> QED
        BY <2>1, <3>1, <4>1
    <3>2. CASE ~(k < i)
      <4>1. k - 1 \in 1..(m - 1) /\ ~(k - 1 < i) /\ (k - 1) + 1 = k
        BY <1>1, <2>2, <3>2 DEF m
      <4>2. pending'[k - 1] = pending[(k - 1) + 1]
        BY <2>1, <4>1
      <4> QED
        BY <3>2, <4>1, <4>2
    <3> QED
      BY <3>1, <3>2
  <2>3. ASSUME NEW j \in 1..(m - 1)
        PROVE  \E k \in 1..m :
                 /\ pending'[j] = pending[k]
                 /\ \A l \in 1..m : l < k /\ l # i =>
                       \E h \in 1..(m - 1) : h < j /\ pending'[h] = pending[l]
    <3>1. CASE j < i
      <4>1. j \in 1..m /\ pending'[j] = pending[j]
        BY <1>1, <2>1, <3>1
      <4>2. ASSUME NEW l \in 1..m, l < j, l # i
            PROVE  l \in 1..(m - 1) /\ pending'[l] = pending[l]
        <5>1. l < i
          BY <3>1, <4>2
        <5> QED
          BY <2>2, <4>2, <5>1
      <4> QED
        BY <4>1, <4>2
    <3>2. CASE ~(j < i)
      <4>1. j + 1 \in 1..m /\ pending'[j] = pending[j + 1]
        BY <1>1, <2>1, <3>2
      <4>2. ASSUME NEW l \in 1..m, l < j + 1, l # i
            PROVE  \E h \in 1..(m - 1) : h < j /\ pending'[h] = pending[l]
        <5>1. (IF l < i THEN l ELSE l - 1) < j
          BY <1>1, <3>2, <4>2
        <5> QED
          BY <2>2, <4>2, <5>1
      <4> QED
        BY <4>1, <4>2
    <3> QED
      BY <3>1, <3>2
  <2>4. Len(pending') = m - 1
    BY <2>1
  <2> QED
    BY <1>1, <2>1, <2>2, <2>3, <2>4 DEF m
<1> QED
  BY <1>2, <1>3

\* An event is applied.
LEMMA ApplyFollowed ==
    ASSUME TypeOK, FollowInv, NEW i \in 1..Len(pending), Apply(i)
    PROVE  FollowInv'
<1> DEFINE e == pending[i]
           m == Len(pending)
<1>1. /\ m \in Nat /\ pending \in Seq(Event) /\ i \in 1..m
      /\ \A j \in 1..m : pending[j] \in Event /\ pending[j].sub \in Subs
  <2>1. Len(pending) \in Nat /\ \A j \in 1..Len(pending) : pending[j] \in Event
    BY LenProperties, ElementOfSeq DEF TypeOK
  <2> QED
    BY <2>1 DEF Event, TypeOK
<1>2. /\ e \in Event /\ e.sub \in Subs /\ ApplyEvent(e)
      /\ stripe[e.sub].status \notin {"none", "trialing"} /\ stripe[e.sub].period # 0
      /\ e.kind \in {"checkout", "subscription"} => e.status # "none"
  BY <1>1 DEF Apply, FollowInv, Known, RowsCome, MakesRow
<1>3. /\ UNCHANGED <<stripe, now, charged, refunded, revoked>> /\ inOrder' = (inOrder /\ i = 1)
      /\ pending' \in {pending, RemoveAt(pending, i)}
  BY DEF Apply
<1>4. /\ \A j \in 1..Len(pending') : \E k \in 1..m :
            /\ pending'[j] = pending[k]
            /\ \A l \in 1..m : l < k /\ l # i =>
                  \E h \in 1..Len(pending') : h < j /\ pending'[h] = pending[l]
      /\ \A k \in 1..m : k # i => \E h \in 1..Len(pending') : pending'[h] = pending[k]
      /\ \/ pending' = pending
         \/ /\ Len(pending') = m - 1
            /\ \A j \in 1..(m - 1) : pending'[j] = IF j < i THEN pending[j] ELSE pending[j + 1]
  BY <1>3, QueueAfter
<1>5. /\ e.kind # "refund" => \A r \in Subs : r # e.sub => mirror'[r] = mirror[r]
      /\ e.kind \in {"checkout", "subscription"} =>
            mirror'[e.sub].status = e.status /\ tier' = TierOf(e.status, e.period)
      /\ e.kind = "subscription" /\ e.status = stripe[e.sub].status
            /\ e.period = stripe[e.sub].period => mirror'[e.sub] = stripe[e.sub]
      /\ e.kind = "invoice.paid" /\ stripe[e.sub].status = "active"
            /\ mirror[e.sub] = stripe[e.sub] =>
               mirror'[e.sub] = stripe[e.sub] /\ tier' = TierOf("active", stripe[e.sub].period)
      /\ \A r \in Subs : HasRow(r) => HasRow(r)'
      /\ e.kind \in {"checkout", "subscription"} => mirror'[e.sub].status # "none"
      /\ orders \subseteq orders'
      /\ e.kind = "invoice.paid" /\ HasRow(e.sub) => ChargeOf(e) \in orders'
      /\ e.kind = "refund" /\ ChargeOf(e) \in orders =>
            /\ tier' = "free_c"
            /\ \A r \in Subs : mirror'[r].status = IF mirror[r].status \in Revocable
                                                   THEN "canceled" ELSE mirror[r].status
  BY <1>2, EventApplied
<1> HIDE DEF m, e
<1>6. Known'
  <2>1. \A j \in 1..Len(pending') : stripe'[pending'[j].sub].status # "none"
    <3>1. \A k \in 1..m : stripe[pending[k].sub].status # "none"
      BY DEF FollowInv, Known, m
    <3> SUFFICES ASSUME NEW j \in 1..Len(pending') PROVE stripe'[pending'[j].sub].status # "none"
      OBVIOUS
    <3>2. PICK k \in 1..m : pending'[j] = pending[k]
      BY <1>4
    <3> QED
      BY <1>3, <3>1, <3>2
  <2>2. e.sub \in Subs /\ stripe[e.sub].status # "none" /\ stripe' = stripe
    BY <1>2, <1>3
  <2>3. \E s \in Subs : stripe'[s].status # "none"
    BY <2>2
  <2> QED
    BY <1>3, <2>1, <2>3 DEF FollowInv, Known
<1>7. RowsCome'
  <2>1. ASSUME NEW s \in Subs, MakesRow(e, s) PROVE HasRow(s)'
    BY <1>2, <1>5, <2>1 DEF MakesRow, HasRow
  <2>2. ASSUME NEW s \in Subs, NEW j \in 1..Len(pending')
        PROVE  /\ MakesRow(pending'[j], s) => pending'[j].status # "none"
               /\ pending'[j].sub = s /\ pending'[j].kind \in {"invoice.paid", "invoice.payment_failed"} =>
                     RowBefore(s, j)'
    <3>1. PICK k \in 1..m : /\ pending'[j] = pending[k]
                            /\ \A l \in 1..m : l < k /\ l # i =>
                                  \E h \in 1..Len(pending') : h < j /\ pending'[h] = pending[l]
      BY <1>4
    <3>2. /\ MakesRow(pending[k], s) => pending[k].status # "none"
          /\ pending[k].sub = s /\ pending[k].kind \in {"invoice.paid", "invoice.payment_failed"} =>
                RowBefore(s, k)
      BY DEF FollowInv, RowsCome, m
    <3>3. ASSUME RowBefore(s, k) PROVE RowBefore(s, j)'
      <4>1. CASE HasRow(s)
        BY <1>5, <4>1 DEF RowBefore
      <4>2. ASSUME NEW l \in 1..m, l < k, MakesRow(pending[l], s) PROVE RowBefore(s, j)'
        <5>1. CASE l = i
          BY <2>1, <4>2, <5>1 DEF RowBefore, e
        <5>2. CASE l # i
          <6>1. PICK h \in 1..Len(pending') : h < j /\ pending'[h] = pending[l]
            BY <3>1, <4>2, <5>2
          <6> QED
            BY <4>2, <6>1 DEF RowBefore, MakesRow
        <5> QED
          BY <5>1, <5>2
      <4> QED
        BY <3>3, <4>1, <4>2 DEF RowBefore, m
    <3> QED
      BY <3>1, <3>2, <3>3
  <2>3. ASSUME NEW s \in Subs, stripe'[s].status # "none" PROVE RowComes(s)'
    <3>1. RowComes(s)
      BY <1>3, <2>3 DEF FollowInv, RowsCome
    <3>2. CASE HasRow(s)
      BY <1>5, <3>2 DEF RowComes
    <3>3. ASSUME NEW l \in 1..m, MakesRow(pending[l], s) PROVE RowComes(s)'
      <4>1. CASE l = i
        BY <2>1, <3>3, <4>1 DEF RowComes, e
      <4>2. CASE l # i
        <5>1. PICK h \in 1..Len(pending') : pending'[h] = pending[l]
          BY <1>4, <4>2
        <5> QED
          BY <3>3, <5>1 DEF RowComes, MakesRow
      <4> QED
        BY <4>1, <4>2
    <3> QED
      BY <3>1, <3>2, <3>3 DEF RowComes, m
  <2> QED
    BY <2>2, <2>3 DEF RowsCome, MakesRow
<1>8. inOrder' => OrdersCome'
  <2> SUFFICES ASSUME OrdersCome, i = 1 PROVE OrdersCome'
    BY <1>3 DEF FollowInv
  <2>1. ASSUME NEW c, Pays(e, c) PROVE c \in orders'
    <3>1. RowBefore(e.sub, 1)
      BY <1>1, <1>2, <2>1 DEF FollowInv, RowsCome, Pays, e, m
    <3>2. HasRow(e.sub)
      BY <3>1 DEF RowBefore
    <3> QED
      BY <1>5, <2>1, <3>2 DEF Pays
  <2>2. ASSUME NEW c \in charged' PROVE OrderComes(c)'
    <3>1. OrderComes(c)
      BY <1>3, <2>2 DEF OrdersCome
    <3>2. CASE c \in orders
      BY <1>5, <3>2 DEF OrderComes
    <3>3. ASSUME NEW l \in 1..m, Pays(pending[l], c) PROVE OrderComes(c)'
      <4>1. CASE l = i
        BY <2>1, <3>3, <4>1 DEF OrderComes, e
      <4>2. CASE l # i
        <5>1. PICK h \in 1..Len(pending') : pending'[h] = pending[l]
          BY <1>4, <4>2
        <5> QED
          BY <3>3, <5>1 DEF OrderComes, Pays, ChargeOf
      <4> QED
        BY <4>1, <4>2
    <3> QED
      BY <3>1, <3>2, <3>3 DEF OrderComes, m
  <2>3. ASSUME NEW c \in Charges, NEW j \in 1..Len(pending'), Returns(pending'[j], c)
        PROVE  OrderBefore(c, j)'
    <3>1. PICK k \in 1..m : /\ pending'[j] = pending[k]
                            /\ \A l \in 1..m : l < k /\ l # i =>
                                  \E h \in 1..Len(pending') : h < j /\ pending'[h] = pending[l]
      BY <1>4
    <3>2. OrderBefore(c, k)
      BY <2>3, <3>1 DEF OrdersCome, m
    <3>3. CASE c \in orders
      BY <1>5, <3>3 DEF OrderBefore
    <3>4. ASSUME NEW l \in 1..m, l < k, Pays(pending[l], c) PROVE OrderBefore(c, j)'
      <4>1. CASE l = i
        BY <2>1, <3>4, <4>1 DEF OrderBefore, e
      <4>2. CASE l # i
        <5>1. PICK h \in 1..Len(pending') : h < j /\ pending'[h] = pending[l]
          BY <3>1, <3>4, <4>2
        <5> QED
          BY <3>4, <5>1 DEF OrderBefore, Pays, ChargeOf
      <4> QED
        BY <4>1, <4>2
    <3> QED
      BY <3>2, <3>3, <3>4 DEF OrderBefore, m
  <2> QED
    BY <2>2, <2>3 DEF OrdersCome, Returns, ChargeOf
<1>9. ASSUME i = 1, inOrder, e.kind = "refund"
      PROVE  /\ tier' = "free_c"
             /\ \A r \in Subs : mirror'[r].status = IF mirror[r].status \in Revocable
                                                    THEN "canceled" ELSE mirror[r].status
  <2>1. ChargeOf(e) \in Charges
    <3>1. e.period \in 1..LastPeriod
      BY <1>1, <1>9 DEF FollowInv, RefundsTyped, e, m
    <3> QED
      BY <1>2, <3>1 DEF ChargeOf, Charges
  <2>2. OrderBefore(ChargeOf(e), 1)
    BY <1>1, <1>9, <2>1 DEF FollowInv, OrdersCome, Returns, e, m
  <2>3. ChargeOf(e) \in orders
    BY <1>1, <2>2 DEF OrderBefore, m
  <2> QED
    BY <1>5, <1>9, <2>3
<1>10. ASSUME i = 1, RefundsCome, Following, inOrder, NEW r \in Subs
       PROVE  /\ Silent(r) /\ e.kind # "refund" => mirror'[r] = mirror[r]
              /\ Silent(r) /\ e.kind = "refund" =>
                   \/ r \in revoked /\ mirror'[r].status = "canceled"
                   \/ /\ r \notin revoked /\ mirror'[r].status = stripe[r].status
                      /\ stripe[r].status \notin Revocable
              /\ r # e.sub /\ e.kind # "refund" => mirror'[r] = mirror[r]
  <2>1. Silent(r) /\ e.kind # "refund" => r # e.sub
    BY <1>1 DEF Silent, IsOf, e, m
  <2>2. ASSUME Silent(r), e.kind = "refund"
        PROVE  \/ r \in revoked /\ mirror'[r].status = "canceled"
               \/ /\ r \notin revoked /\ mirror'[r].status = stripe[r].status
                  /\ stripe[r].status \notin Revocable
    <3>1. IsRefund(1) /\ IsAfter(r, 1)
      BY <1>1, <1>10, <2>2 DEF IsRefund, IsAfter, Silent, e, m
    <3>2. r \in revoked \/ stripe[r].status \notin Revocable
      BY <1>1, <1>10, <3>1 DEF RefundsCome, m
    <3>3. mirror[r].status = stripe[r].status \/ (r \in revoked /\ mirror[r].status = "canceled")
      BY <1>10, <2>2 DEF Following
    <3>4. r \in revoked => stripe[r].status \in Revocable
      BY DEF FollowInv, Known
    <3> QED
      BY <1>9, <1>10, <2>2, <3>2, <3>3, <3>4
  <2> QED
    BY <1>5, <2>1, <2>2
<1>11. ASSUME i = 1, RefundsCome, Following, inOrder, NEW r \in Subs, IsLast(r, 1)
       PROVE  /\ r = e.sub /\ e.kind # "refund"
              /\ mirror'[r].status = stripe[r].status
              /\ ~IsDue(r) => (tier' = "c_plus" <=> stripe[r].status \in Live)
  <2>1. r = e.sub /\ e.kind # "refund"
    BY <1>1, <1>11 DEF IsLast, IsOf, e
  <2>2. IsCurrent(r, 1)
    BY <1>1, <1>11 DEF Following, m
  <2>3. mirror'[r].status = stripe[r].status
    BY <1>5, <1>11, <2>1, <2>2 DEF IsCurrent, e
  <2>4. ASSUME ~IsDue(r) PROVE tier' = "c_plus" <=> stripe[r].status \in Live
    <3>1. stripe[r].status = "active" => stripe[r].period >= now
      <4>1. now \in Nat /\ stripe[r].period \in Nat
        BY MirrorAssumption DEF TypeOK, Row
      <4> QED
        BY <2>4, <4>1 DEF IsDue
    <3>2. tier' = TierOf(stripe[r].status, 0) \/ tier' = TierOf(stripe[r].status, stripe[r].period)
      BY <1>5, <1>11, <2>1, <2>2 DEF IsCurrent, e
    <3> QED
      BY <1>2, <2>1, <3>1, <3>2 DEF TierOf, Live
  <2> QED
    BY <2>1, <2>3, <2>4
<1>12. ASSUME i = 1
       PROVE  \/ pending' = pending
              \/ /\ Len(pending') = m - 1
                 /\ \A j \in 1..(m - 1) : pending'[j] = pending[j + 1] /\ j + 1 \in 1..m /\ j + 1 > 1
                 /\ \A k \in 1..m : k > 1 => k - 1 \in 1..(m - 1) /\ pending'[k - 1] = pending[k]
  <2>1. CASE pending' = pending
    BY <2>1
  <2>2. CASE /\ Len(pending') = m - 1
             /\ \A j \in 1..(m - 1) : pending'[j] = IF j < i THEN pending[j] ELSE pending[j + 1]
    <3>1. \A j \in 1..(m - 1) : pending'[j] = pending[j + 1] /\ j + 1 \in 1..m /\ j + 1 > 1
      BY <1>1, <1>12, <2>2
    <3>2. ASSUME NEW k \in 1..m, k > 1 PROVE k - 1 \in 1..(m - 1) /\ pending'[k - 1] = pending[k]
      <4>1. k - 1 \in 1..(m - 1) /\ (k - 1) + 1 = k
        BY <1>1, <3>2
      <4>2. pending'[k - 1] = pending[(k - 1) + 1]
        BY <3>1, <4>1
      <4> QED
        BY <4>1, <4>2
    <3> QED
      BY <2>2, <3>1, <3>2
  <2> QED
    BY <1>4, <2>1, <2>2
<1>13. ASSUME i = 1, inOrder, RefundsCome, Following, pending' = pending
       PROVE  RefundsCome' /\ Following'
  <2>1. \A r \in Subs : /\ Silent(r)' <=> Silent(r)
                        /\ \A k \in 1..m : /\ IsAfter(r, k)' <=> IsAfter(r, k)
                                           /\ IsLast(r, k)' <=> IsLast(r, k)
                                           /\ IsRefund(k)' <=> IsRefund(k)
    BY <1>13 DEF Silent, IsAfter, IsLast, IsRefund, IsOf
  <2>2. Len(pending') = m /\ m # 0
    BY <1>1, <1>13 DEF m
  <2>3. ASSUME NEW r \in revoked'
        PROVE  \/ mirror'[r].status = "canceled" /\ Silent(r)'
               \/ \E k \in 1..m : IsRefund(k)' /\ IsAfter(r, k)'
    <3>1. r \in revoked /\ r \in Subs
      BY <1>3, <2>3 DEF TypeOK
    <3>2. CASE mirror[r].status = "canceled" /\ Silent(r)
      BY <1>5, <1>10, <1>13, <2>1, <3>1, <3>2
    <3>3. CASE \E k \in 1..m : IsRefund(k) /\ IsAfter(r, k)
      BY <2>1, <3>1, <3>3
    <3> QED
      BY <1>13, <3>1, <3>2, <3>3 DEF RefundsCome, m
  <2>4. ASSUME NEW r \in Subs, NEW k \in 1..m, IsRefund(k)', IsAfter(r, k)'
        PROVE  r \in revoked' \/ stripe'[r].status \notin Revocable
    BY <1>3, <1>13, <2>1, <2>4 DEF RefundsCome, m
  <2>5. ASSUME NEW r \in Subs, Silent(r)'
        PROVE  \/ mirror'[r].status = stripe'[r].status
               \/ r \in revoked' /\ mirror'[r].status = "canceled"
    <3>1. \/ mirror[r].status = stripe[r].status
          \/ r \in revoked /\ mirror[r].status = "canceled"
      BY <1>13, <2>1, <2>5 DEF Following
    <3> QED
      BY <1>3, <1>10, <1>13, <2>1, <2>5, <3>1
  <2>6. ASSUME NEW r \in Subs, NEW k \in 1..m, IsLast(r, k)'
        PROVE  IsCurrent(r, k)'
    <3>1. IsLast(r, k) /\ IsCurrent(r, k)
      BY <1>13, <2>1, <2>6 DEF Following, m
    <3>2. ASSUME k = 1, pending[k].kind = "invoice.paid", stripe[r].status = "active", mirror[r] = stripe[r]
          PROVE  mirror'[r] = stripe[r]
      BY <1>5, <1>11, <1>13, <3>1, <3>2 DEF e
    <3> QED
      BY <1>3, <1>13, <3>1, <3>2 DEF IsCurrent
  <2>7. \A r \in Subs : \A k \in 1..Len(pending') : IsLast(r, k)' => IsCurrent(r, k)'
    BY <2>2, <2>6
  <2> QED
    BY <2>2, <2>3, <2>4, <2>5, <2>7 DEF RefundsCome, Following
<1>14. ASSUME i = 1, inOrder, RefundsCome, Following, Len(pending') = m - 1,
              \A j \in 1..(m - 1) : pending'[j] = pending[j + 1] /\ j + 1 \in 1..m /\ j + 1 > 1,
              \A k \in 1..m : k > 1 => k - 1 \in 1..(m - 1) /\ pending'[k - 1] = pending[k]
       PROVE  RefundsCome' /\ Following'
  <2>1. ASSUME NEW r \in Subs
        PROVE  /\ Silent(r) => Silent(r)'
               /\ Silent(r)' => Silent(r) \/ IsLast(r, 1)
               /\ \A k \in 1..(m - 1) : /\ IsAfter(r, k)' <=> IsAfter(r, k + 1)
                                        /\ IsLast(r, k)' => IsLast(r, k + 1)
                                        /\ IsRefund(k)' <=> IsRefund(k + 1)
    <3>1. \A j \in 1..(m - 1) : IsOf(pending'[j], r) <=> IsOf(pending[j + 1], r)
      BY <1>14 DEF IsOf
    <3>2. \A k \in 1..m : k > 1 => (IsOf(pending[k], r) <=> IsOf(pending'[k - 1], r))
      BY <1>14 DEF IsOf
    <3>3. Silent(r) => Silent(r)'
      BY <1>14, <3>1 DEF Silent, IsOf, m
    <3>4. Silent(r)' => Silent(r) \/ IsLast(r, 1)
      <4> SUFFICES ASSUME Silent(r)' PROVE Silent(r) \/ IsLast(r, 1)
        OBVIOUS
      <4>1. \A k \in 1..m : k > 1 => ~IsOf(pending[k], r)
        BY <1>14, <3>2 DEF Silent, IsOf
      <4> QED
        BY <1>1, <4>1 DEF Silent, IsLast, m
    <3>5. ASSUME NEW k \in 1..(m - 1)
          PROVE  /\ IsAfter(r, k)' <=> IsAfter(r, k + 1)
                 /\ IsLast(r, k)' => IsLast(r, k + 1)
                 /\ IsRefund(k)' <=> IsRefund(k + 1)
      <4>1. IsRefund(k)' <=> IsRefund(k + 1)
        BY <1>14 DEF IsRefund
      <4>2. IsAfter(r, k)' => IsAfter(r, k + 1)
        <5> SUFFICES ASSUME IsAfter(r, k)', NEW l \in 1..m, IsOf(pending[l], r) PROVE l < k + 1
          BY DEF IsAfter, m
        <5>1. CASE l > 1
          <6>1. l - 1 \in 1..(m - 1) /\ IsOf(pending'[l - 1], r)
            BY <1>14, <3>2, <5>1
          <6>2. l - 1 < k
            BY <1>14, <6>1 DEF IsAfter, IsOf
          <6> QED
            BY <1>1, <6>2
        <5> QED
          BY <1>1, <5>1
      <4>3. IsAfter(r, k + 1) => IsAfter(r, k)'
        <5> SUFFICES ASSUME IsAfter(r, k + 1), NEW l \in 1..(m - 1), IsOf(pending'[l], r) PROVE l < k
          BY <1>14 DEF IsAfter, IsOf
        <5>1. l + 1 \in 1..m /\ IsOf(pending[l + 1], r)
          BY <1>14, <3>1
        <5>2. l + 1 < k + 1
          BY <5>1 DEF IsAfter, m
        <5> QED
          BY <1>1, <5>2
      <4>4. IsLast(r, k)' => IsLast(r, k + 1)
        <5> SUFFICES ASSUME IsLast(r, k)' PROVE IsLast(r, k + 1)
          OBVIOUS
        <5>1. IsOf(pending'[k], r) /\ \A l \in 1..(m - 1) : l > k => ~IsOf(pending'[l], r)
          BY <1>14 DEF IsLast, IsOf
        <5>2. ASSUME NEW l \in 1..m, l > k + 1 PROVE ~IsOf(pending[l], r)
          <6>1. l > 1 /\ l - 1 > k
            BY <1>1, <5>2
          <6> QED
            BY <1>14, <3>2, <5>1, <6>1
        <5> QED
          BY <3>1, <5>1, <5>2 DEF IsLast, m
      <4> QED
        BY <4>1, <4>2, <4>3, <4>4
    <3> QED
      BY <3>3, <3>4, <3>5
  <2>2. ASSUME NEW r \in Subs, IsAfter(r, 1) PROVE Silent(r)
    BY <1>1, <2>2 DEF IsAfter, Silent, m
  <2>3. ASSUME NEW r \in revoked', ~(Silent(r)' /\ mirror'[r].status = "canceled")
        PROVE  \E k \in 1..(m - 1) : IsRefund(k)' /\ IsAfter(r, k)'
    <3>1. r \in revoked /\ r \in Subs
      BY <1>3, <2>3 DEF TypeOK
    <3>2. ~(mirror[r].status = "canceled" /\ Silent(r))
      BY <1>5, <1>10, <1>14, <2>1, <2>3, <3>1
    <3>3. PICK k \in 1..m : IsRefund(k) /\ IsAfter(r, k)
      BY <1>14, <3>1, <3>2 DEF RefundsCome, m
    <3>4. k # 1
      <4> SUFFICES ASSUME k = 1 PROVE FALSE
        OBVIOUS
      <4>1. Silent(r) /\ e.kind = "refund"
        BY <1>14, <2>2, <3>1, <3>3 DEF IsRefund, e
      <4> QED
        BY <1>10, <1>14, <2>1, <2>3, <3>1, <4>1
    <3>5. k - 1 \in 1..(m - 1) /\ (k - 1) + 1 = k
      BY <1>1, <3>4
    <3> QED
      BY <2>1, <3>1, <3>3, <3>5
  <2>4. ASSUME NEW r \in Subs, NEW k \in 1..(m - 1), IsRefund(k)', IsAfter(r, k)'
        PROVE  r \in revoked' \/ stripe'[r].status \notin Revocable
    <3>1. k + 1 \in 1..m /\ IsRefund(k + 1) /\ IsAfter(r, k + 1)
      BY <1>14, <2>1, <2>4
    <3> QED
      BY <1>3, <1>14, <3>1 DEF RefundsCome, m
  <2>5. ASSUME NEW r \in Subs, Silent(r)'
        PROVE  \/ mirror'[r].status = stripe'[r].status
               \/ r \in revoked' /\ mirror'[r].status = "canceled"
    <3>1. CASE Silent(r)
      <4>1. \/ mirror[r].status = stripe[r].status
            \/ r \in revoked /\ mirror[r].status = "canceled"
        BY <1>14, <3>1 DEF Following
      <4> QED
        BY <1>3, <1>10, <1>14, <3>1, <4>1
    <3>2. CASE IsLast(r, 1)
      BY <1>3, <1>11, <1>14, <3>2
    <3> QED
      BY <2>1, <2>5, <3>1, <3>2
  <2>6. ASSUME NEW r \in Subs, NEW j \in 1..(m - 1), IsLast(r, j)'
        PROVE  IsCurrent(r, j)'
    <3>1. /\ j + 1 \in 1..m /\ pending'[j] = pending[j + 1] /\ j + 1 > 1 /\ j + 1 # 1
          /\ (j + 1) - 1 = j /\ IsLast(r, j + 1) /\ j \in 1..m
      BY <1>1, <1>14, <2>1, <2>6
    <3>2. IsCurrent(r, j + 1)
      BY <1>14, <3>1 DEF Following, m
    <3>3. CASE pending[j + 1].kind # "invoice.paid"
      BY <1>3, <3>1, <3>2, <3>3 DEF IsCurrent
    <3>4. CASE pending[j + 1].kind = "invoice.paid"
      <4>1. /\ stripe[r].status = "active"
            /\ pending[j] = [kind |-> "subscription", sub |-> r,
                             status |-> "active", period |-> stripe[r].period]
        BY <3>1, <3>2, <3>4 DEF IsCurrent
      <4>2. j = 1 => mirror'[r] = stripe[r]
        BY <1>5, <1>14, <4>1 DEF e
      <4>3. j > 1 => pending'[j - 1] = pending[j]
        BY <1>14, <3>1
      <4> QED
        BY <1>3, <3>1, <3>4, <4>1, <4>2, <4>3 DEF IsCurrent
    <3> QED
      BY <3>3, <3>4
  <2>7. ASSUME Len(pending') = 0, NEW r \in Subs, IsSole(r)', ~IsDue(r)'
        PROVE  tier' = "c_plus" <=> r \notin revoked' /\ stripe'[r].status \in Live
    <3>1. m = 1 /\ i = 1
      BY <1>1, <1>14, <2>7
    <3>2. r = e.sub
      BY <1>2, <1>3, <2>7 DEF IsSole
    <3>3. ~IsDue(r)
      BY <1>3, <2>7 DEF IsDue
    <3>4. CASE e.kind = "refund"
      <4>1. Silent(r)
        BY <3>1, <3>4 DEF Silent, IsOf, e, m
      <4>2. r \in revoked \/ stripe[r].status \notin Revocable
        BY <1>10, <1>14, <3>4, <4>1
      <4>3. tier' = "free_c"
        BY <1>9, <1>14, <3>4
      <4> QED
        BY <1>3, <4>2, <4>3 DEF Revocable
    <3>5. CASE e.kind # "refund"
      <4>1. IsLast(r, 1)
        BY <3>1, <3>2, <3>5 DEF IsLast, IsOf, e, m
      <4>2. r \notin revoked
        <5>1. r \in revoked => \E k \in 1..m : IsRefund(k)
          BY <1>1, <1>14, <4>1 DEF RefundsCome, Silent, IsLast, m
        <5>2. \A k \in 1..m : ~IsRefund(k)
          BY <3>1, <3>5 DEF IsRefund, e
        <5> QED
          BY <5>1, <5>2
      <4>3. tier' = "c_plus" <=> stripe[r].status \in Live
        BY <1>11, <1>14, <3>3, <4>1
      <4> QED
        BY <1>3, <4>2, <4>3
    <3> QED
      BY <3>4, <3>5
  <2>8. RefundsCome'
    BY <1>14, <2>3, <2>4 DEF RefundsCome
  <2>9. /\ \A r \in Subs : \A k \in 1..Len(pending') : IsLast(r, k)' => IsCurrent(r, k)'
        /\ Len(pending') = 0 => \A r \in Subs : IsSole(r)' /\ ~IsDue(r)' =>
              (tier' = "c_plus" <=> r \notin revoked' /\ stripe'[r].status \in Live)
    BY <1>14, <2>6, <2>7
  <2> QED
    BY <2>5, <2>8, <2>9 DEF Following
<1>15. inOrder' => RefundsCome' /\ Following'
  <2> SUFFICES ASSUME i = 1, inOrder, RefundsCome, Following PROVE RefundsCome' /\ Following'
    BY <1>3 DEF FollowInv
  <2> QED
    BY <1>12, <1>13, <1>14
<1>16. RefundsTyped'
  <2> SUFFICES ASSUME NEW j \in 1..Len(pending'), pending'[j].kind = "refund"
               PROVE  pending'[j].period \in 1..LastPeriod
    BY DEF RefundsTyped
  <2>1. PICK k \in 1..m : pending'[j] = pending[k]
    BY <1>4
  <2>2. pending[k].kind = "refund" => pending[k].period \in 1..LastPeriod
    BY DEF FollowInv, RefundsTyped, m
  <2> QED
    BY <2>1, <2>2
<1> QED
  BY <1>6, <1>7, <1>8, <1>15, <1>16 DEF FollowInv

\* Every step keeps up with the provider.
LEMMA Followed ==
    TypeOK /\ FollowInv /\ [Next]_vars => FollowInv'
<1> SUFFICES ASSUME TypeOK, FollowInv, [Next]_vars PROVE FollowInv'
  OBVIOUS
<1>1. CASE NextPeriod
  <2>1. /\ now \in Nat /\ now' = now + 1
        /\ UNCHANGED <<stripe, pending, inOrder, mirror, tier, charged, orders, revoked>>
    BY <1>1, MirrorAssumption DEF NextPeriod, TypeOK
  <2>2. Known' /\ RowsCome' /\ RefundsTyped'
    BY <2>1 DEF FollowInv, Known, RowsCome, RefundsTyped, RowComes, RowBefore, HasRow, MakesRow
  <2>3. inOrder' => OrdersCome'
    BY <2>1 DEF FollowInv, OrdersCome, OrderComes, OrderBefore, Pays, Returns, ChargeOf
  <2>4. inOrder' => RefundsCome'
    BY <2>1 DEF FollowInv, RefundsCome, IsRefund, IsAfter, Silent, IsOf
  <2>5. inOrder' => Following'
    <3> SUFFICES ASSUME Following PROVE Following'
      BY <2>1 DEF FollowInv
    <3>1. \A s \in Subs : (IsSole(s)' <=> IsSole(s)) /\ (Silent(s)' <=> Silent(s))
      BY <2>1 DEF IsSole, Silent, IsOf
    <3>2. \A s \in Subs : IsDue(s) => IsDue(s)'
      <4>1. \A s \in Subs : stripe[s].period \in Nat
        BY MirrorAssumption DEF TypeOK, Row
      <4> QED
        BY <2>1, <4>1 DEF IsDue
    <3>3. \A s \in Subs : \A i \in 1..Len(pending) :
             (IsLast(s, i)' <=> IsLast(s, i)) /\ (IsCurrent(s, i)' <=> IsCurrent(s, i))
      BY <2>1 DEF IsLast, IsCurrent, IsOf
    <3> QED
      BY <2>1, <3>1, <3>2, <3>3 DEF Following
  <2> QED
    BY <2>2, <2>3, <2>4, <2>5 DEF FollowInv
<1>2. CASE UNCHANGED vars
  <2>1. Known' /\ RowsCome' /\ RefundsTyped'
    BY <1>2 DEF vars, FollowInv, Known, RowsCome, RefundsTyped, RowComes, RowBefore, HasRow, MakesRow
  <2>2. inOrder' => OrdersCome'
    BY <1>2 DEF vars, FollowInv, OrdersCome, OrderComes, OrderBefore, Pays, Returns, ChargeOf
  <2>3. inOrder' => RefundsCome'
    BY <1>2 DEF vars, FollowInv, RefundsCome, IsRefund, IsAfter, Silent, IsOf
  <2>4. inOrder' => Following'
    BY <1>2 DEF vars, FollowInv, Following, IsLast, IsCurrent, IsSole, IsDue, Silent, IsOf
  <2> QED
    BY <2>1, <2>2, <2>3, <2>4 DEF FollowInv
<1> QED
  BY <1>1, <1>2, ProviderFollowed, ApplyFollowed DEF Next

\* Events in order, repeats included, leave every row with the provider's
\* status, or canceled when a refund came last, and the tier to a user whose
\* one subscription is live.
THEOREM TierHolds == Spec => []TierFollowsMirror
<1>1. Init => FollowInv
  <2> SUFFICES ASSUME Init PROVE FollowInv
    OBVIOUS
  <2>1. Len(pending) = 0
    BY EmptySeq DEF Init
  <2> QED
    BY <2>1 DEF Init, FollowInv, Known, RowsCome, RefundsTyped, OrdersCome, RefundsCome, Following, Live
<1>2. TypeOK /\ FollowInv => TierFollowsMirror
  <2> SUFFICES ASSUME TypeOK, FollowInv, InStep
               PROVE  /\ \A s \in Subs :
                            mirror[s].status = IF s \in revoked THEN "canceled" ELSE stripe[s].status
                      /\ (\A r, s \in Subs : HasRow(r) /\ HasRow(s) => r = s) =>
                           (tier = "c_plus" <=> \E s \in Subs : mirror[s].status \in Live)
    BY DEF TierFollowsMirror
  <2>1. Len(pending) = 0 /\ RefundsCome /\ Following
    BY EmptySeq DEF InStep, FollowInv
  <2>2. \A s \in Subs : mirror[s].status = IF s \in revoked THEN "canceled" ELSE stripe[s].status
    <3>1. \A s \in Subs : Silent(s)
      BY <2>1 DEF Silent
    <3>2. \A s \in revoked : mirror[s].status = "canceled"
      BY <2>1 DEF RefundsCome
    <3> QED
      BY <2>1, <3>1, <3>2 DEF Following
  <2>3. ASSUME \A r, s \in Subs : HasRow(r) /\ HasRow(s) => r = s
        PROVE  tier = "c_plus" <=> \E s \in Subs : mirror[s].status \in Live
    <3>1. CASE \E s \in Subs : stripe[s].status # "none"
      <4>1. PICK s \in Subs : stripe[s].status # "none"
        BY <3>1
      <4>2. \A r \in Subs : r # s => stripe[r].status = "none" /\ mirror[r].status = "none"
        BY <2>2, <2>3, <4>1 DEF HasRow
      <4>3. tier = "c_plus" <=> s \notin revoked /\ stripe[s].status \in Live
        BY <2>1, <4>2 DEF Following, IsSole, InStep
      <4> QED
        BY <2>2, <4>2, <4>3 DEF Live
    <3>2. CASE \A s \in Subs : stripe[s].status = "none"
      <4>1. \A s \in Subs : s \notin revoked
        BY <3>2 DEF FollowInv, Known, Revocable, Live
      <4> QED
        BY <2>2, <3>2, <4>1 DEF FollowInv, Known, Live
    <3> QED
      BY <3>1, <3>2
  <2> QED
    BY <2>2, <2>3
<1> QED
  BY <1>1, <1>2, TypeCorrect, Followed, PTL DEF Spec

(***************************************************************************)
(* Refunds.                                                                *)
(***************************************************************************)
HandlerSteps == {"idle", "inserting", "updating", "summing", "locking", "committing"}

SyncTyped ==
    /\ SyncTypeOK
    /\ provider \in [Refunds -> RefundStatuses \union {"none"}]
    /\ everPaid \subseteq Refunds
    /\ unswapped \in BOOLEAN /\ serial \in BOOLEAN /\ entitled \in BOOLEAN
    /\ pc \in [Handlers -> HandlerSteps]
    /\ ev \in [Handlers -> Notices \union {<< >>}]
    /\ wrote \in [Handlers -> BOOLEAN]

\* What counts towards a full refund was refunded.
Earned ==
    /\ \A i \in 1..Len(unhandled) :
          unhandled[i].status = "succeeded" => unhandled[i].refund \in everPaid
    /\ \A h \in Handlers : pc[h] # "idle" =>
          ev[h] \in Notices /\ (ev[h].status = "succeeded" => ev[h].refund \in everPaid)
    /\ \A h \in Handlers : wrote[h] => pc[h] # "idle"
    /\ \A r \in Refunds : row[r] = "succeeded" => r \in everPaid
    /\ \A h \in Handlers : total[h] <= Cardinality(everPaid)
    /\ \A h \in Handlers : mark[h] = "refunded" => Cardinality(everPaid) >= Amount
    /\ \A h \in Handlers : mark[h] # "none" => pc[h] = "committing"
    /\ RevocationIsEarned

\* The last event of a refund, or else the one in hand, or else the row, has
\* the provider's status.
LastWord ==
    /\ \A i \in 1..Len(unhandled) :
          (\A j \in 1..Len(unhandled) : j > i => unhandled[j].refund # unhandled[i].refund)
          => provider[unhandled[i].refund] = unhandled[i].status
    /\ \A r \in Refunds : (\A i \in 1..Len(unhandled) : unhandled[i].refund # r) =>
          /\ \A h \in Handlers : pc[h] # "idle" /\ ev[h].refund = r => provider[r] = ev[h].status
          /\ (\A h \in Handlers : pc[h] # "idle" => ev[h].refund # r) => provider[r] = row[r]

MarkOf(h) ==
    IF ev[h].status # "succeeded" THEN "none"
    ELSE IF Cardinality(Counted(h)) >= Amount THEN "refunded" ELSE "partially_refunded"

\* A handler on its own writes its row, counts all and marks the order.
HandlerOk(h) ==
    /\ pc[h] = "inserting" => row[ev[h].refund] = "none"
    /\ pc[h] \in Writing => wrote[h]
    /\ pc[h] \in {"summing", "locking"} => ev[h].status = "succeeded"
    /\ pc[h] = "locking" => total[h] = Cardinality(Counted(h))
    /\ pc[h] = "committing" => mark[h] = MarkOf(h)

Paid == {r \in Refunds : row[r] = "succeeded"}

Converging ==
    /\ \A g, h \in Handlers : pc[g] # "idle" /\ pc[h] # "idle" => g = h
    /\ LastWord
    /\ \A h \in Handlers : HandlerOk(h)
    /\ Cardinality(Paid) >= Amount => order = "refunded" /\ ~entitled

SyncInv == SyncTyped /\ Earned /\ (unswapped /\ serial => Converging)
\* Sets of refunds are finite, and a larger one counts more.
LEMMA RefundsCount ==
  ASSUME NEW S, S \subseteq Refunds
  PROVE  /\ IsFiniteSet(S) /\ Cardinality(S) \in Nat
         /\ Cardinality(S) <= Cardinality(Refunds) /\ Cardinality(Refunds) \in Nat
         /\ \A T : T \subseteq S => Cardinality(T) <= Cardinality(S) /\ Cardinality(T) \in Nat
<1>1. IsFiniteSet(Refunds)
  BY RefundAssumption
<1>2. IsFiniteSet(S) /\ Cardinality(S) <= Cardinality(Refunds)
  BY <1>1, FS_Subset
<1>3. Cardinality(S) \in Nat /\ Cardinality(Refunds) \in Nat
  BY <1>1, <1>2, FS_CardinalityType
<1>4. ASSUME NEW T, T \subseteq S PROVE Cardinality(T) <= Cardinality(S) /\ Cardinality(T) \in Nat
  BY <1>2, <1>4, FS_Subset, FS_CardinalityType
<1> QED
  BY <1>2, <1>3, <1>4
\* The provider turns a refund.
LEMMA TurnedStep ==
  ASSUME SyncInv, NEW r \in Refunds, NEW from, NEW to \in RefundStatuses, Turned(r, from, to)
  PROVE  SyncInv'
<1> DEFINE n == [refund |-> r, status |-> to]
<1>1. n \in Notices /\ n.refund = r /\ n.status = to
  BY DEF Notices
<1> HIDE DEF n
<1>2. /\ unhandled \in Seq(Notices) /\ Len(unhandled) < MaxPending /\ MaxPending \in Nat
      /\ Len(unhandled) \in Nat
      /\ unhandled' = Append(unhandled, n)
  BY LenProperties, RefundAssumption DEF SyncInv, SyncTyped, SyncTypeOK, Turned, n
<1>3. /\ unhandled' \in Seq(Notices) /\ Len(unhandled') = Len(unhandled) + 1
      /\ \A i \in 1..Len(unhandled) : unhandled'[i] = unhandled[i]
      /\ unhandled'[Len(unhandled')] = n
  BY <1>1, <1>2, AppendProperties
<1>4. /\ provider' = [provider EXCEPT ![r] = to]
      /\ everPaid \subseteq everPaid' /\ everPaid' \subseteq everPaid \union {r}
      /\ to = "succeeded" => r \in everPaid'
  BY DEF Turned
<1>5. UNCHANGED <<unswapped, serial, row, order, entitled, pc, ev, wrote, total, mark>>
  BY DEF Turned, stored, local
<1>6. SyncTyped'
  <2>1. provider' \in [Refunds -> RefundStatuses \union {"none"}] /\ everPaid' \subseteq Refunds
    BY <1>4 DEF SyncInv, SyncTyped
  <2>2. Len(unhandled') <= MaxPending
    BY <1>2, <1>3
  <2> QED
    BY <1>3, <1>5, <2>1, <2>2 DEF SyncInv, SyncTyped, SyncTypeOK
<1>7. Cardinality(everPaid) <= Cardinality(everPaid') /\ Cardinality(everPaid) \in Nat
      /\ Cardinality(everPaid') \in Nat
  BY <1>4, <1>6, RefundsCount DEF SyncTyped
<1>8. Earned'
  <2>1. \A i \in 1..Len(unhandled') :
          unhandled'[i].status = "succeeded" => unhandled'[i].refund \in everPaid'
    <3> SUFFICES ASSUME NEW i \in 1..Len(unhandled'), unhandled'[i].status = "succeeded"
                 PROVE  unhandled'[i].refund \in everPaid'
      OBVIOUS
    <3>1. CASE i = Len(unhandled')
      BY <1>1, <1>3, <1>4, <3>1
    <3>2. CASE i # Len(unhandled')
      <4>1. i \in 1..Len(unhandled) /\ unhandled'[i] = unhandled[i]
        BY <1>2, <1>3, <3>2
      <4> QED
        BY <1>4, <4>1 DEF SyncInv, Earned
    <3> QED
      BY <3>1, <3>2
  <2>2. \A h \in Handlers : total'[h] <= Cardinality(everPaid')
    <3>1. \A h \in Handlers : total[h] \in Nat
      BY RefundsCount DEF SyncInv, SyncTyped, SyncTypeOK
    <3> QED
      BY <1>5, <1>7, <3>1 DEF SyncInv, Earned
  <2>3. \A h \in Handlers : mark'[h] = "refunded" => Cardinality(everPaid') >= Amount
    BY <1>5, <1>7, RefundAssumption DEF SyncInv, Earned
  <2>4. RevocationIsEarned'
    BY <1>5, <1>7, RefundAssumption DEF SyncInv, Earned, RevocationIsEarned
  <2> QED
    BY <1>4, <1>5, <2>1, <2>2, <2>3, <2>4 DEF SyncInv, Earned
<1>9. unswapped' /\ serial' => Converging'
  <2> SUFFICES ASSUME Converging PROVE Converging'
    BY <1>5 DEF SyncInv
  <2>1. LastWord'
    <3>1. ASSUME NEW i \in 1..Len(unhandled'),
                 \A j \in 1..Len(unhandled') : j > i => unhandled'[j].refund # unhandled'[i].refund
          PROVE  provider'[unhandled'[i].refund] = unhandled'[i].status
      <4>1. CASE i = Len(unhandled')
        BY <1>1, <1>3, <1>4, <4>1 DEF SyncInv, SyncTyped
      <4>2. CASE i # Len(unhandled')
        <5>1. i \in 1..Len(unhandled) /\ unhandled'[i] = unhandled[i] /\ Len(unhandled') > i
          BY <1>2, <1>3, <4>2
        <5>2. unhandled[i].refund # r
          BY <1>1, <1>2, <1>3, <3>1, <5>1
        <5>3. \A j \in 1..Len(unhandled) : j > i => unhandled[j].refund # unhandled[i].refund
          BY <1>2, <1>3, <3>1, <5>1
        <5>4. provider[unhandled[i].refund] = unhandled[i].status
          BY <5>1, <5>3 DEF Converging, LastWord
        <5>5. provider'[unhandled[i].refund] = provider[unhandled[i].refund]
          BY <1>4, <5>2 DEF SyncInv, SyncTyped
        <5> QED
          BY <5>1, <5>4, <5>5
      <4> QED
        BY <4>1, <4>2
    <3>2. ASSUME NEW q \in Refunds, \A i \in 1..Len(unhandled') : unhandled'[i].refund # q
          PROVE  /\ \A h \in Handlers : pc'[h] # "idle" /\ ev'[h].refund = q => provider'[q] = ev'[h].status
                 /\ (\A h \in Handlers : pc'[h] # "idle" => ev'[h].refund # q) => provider'[q] = row'[q]
      <4>1. q # r
        BY <1>1, <1>2, <1>3, <3>2
      <4>2. provider'[q] = provider[q]
        BY <1>4, <4>1 DEF SyncInv, SyncTyped
      <4>3. \A i \in 1..Len(unhandled) : unhandled[i].refund # q
        BY <1>2, <1>3, <3>2
      <4> QED
        BY <1>5, <4>2, <4>3 DEF Converging, LastWord
    <3> QED
      BY <3>1, <3>2 DEF LastWord
  <2>2. (\A h \in Handlers : HandlerOk(h))'
    BY <1>5 DEF Converging, HandlerOk, MarkOf, Counted, Visible
  <2> QED
    BY <1>5, <2>1, <2>2 DEF Converging, Paid
<1> QED
  BY <1>6, <1>8, <1>9 DEF SyncInv
\* A handler starts on an event.
LEMMA DeliverStep ==
  ASSUME SyncInv, NEW h \in Handlers, NEW i \in 1..Len(unhandled), Deliver(h, i)
  PROVE  SyncInv'
<1> DEFINE e == unhandled[i]
           to == IF row[e.refund] = "none" THEN "inserting" ELSE "updating"
<1>1. /\ unhandled \in Seq(Notices) /\ Len(unhandled) \in Nat
      /\ \A j \in 1..Len(unhandled) : unhandled[j] \in Notices
      /\ Len(unhandled) <= MaxPending /\ MaxPending \in Nat
  BY LenProperties, ElementOfSeq, RefundAssumption DEF SyncInv, SyncTyped, SyncTypeOK
<1>2. e \in Notices /\ e.refund \in Refunds /\ e.status \in RefundStatuses
  BY <1>1 DEF Notices
<1>3. /\ pc[h] = "idle" /\ pc' = [pc EXCEPT ![h] = to] /\ to \in {"inserting", "updating"}
      /\ ev' = [ev EXCEPT ![h] = e]
      /\ unhandled' \in {unhandled, RemoveAt(unhandled, i)}
      /\ unswapped' = (unswapped /\ i = 1)
      /\ serial' = (serial /\ \A g \in Handlers : pc[g] = "idle")
      /\ to = "inserting" => row[e.refund] = "none"
  BY DEF Deliver, HandlerTo
<1>4. UNCHANGED <<provider, everPaid, row, order, entitled, wrote, total, mark>>
  BY DEF Deliver, provided, stored
<1> HIDE DEF e, to
<1>5. /\ unhandled' \in Seq(Notices) /\ Len(unhandled') \in Nat
      /\ \/ unhandled' = unhandled
         \/ /\ Len(unhandled') = Len(unhandled) - 1
            /\ \A j \in 1..Len(unhandled') :
                  unhandled'[j] = IF j < i THEN unhandled[j] ELSE unhandled[j + 1]
  <2>1. CASE unhandled' = unhandled
    BY <1>1, <2>1
  <2>2. CASE unhandled' = RemoveAt(unhandled, i)
    <3> DEFINE rest == RemoveAt(unhandled, i)
    <3>1. /\ rest \in Seq(Notices) /\ Len(rest) = Len(unhandled) - 1
          /\ \A j \in 1..(Len(unhandled) - 1) :
                rest[j] = IF j < i THEN unhandled[j] ELSE unhandled[j + 1]
      BY <1>1, RemoveAtFacts
    <3>2. unhandled' = rest
      BY <2>2
    <3> HIDE DEF rest
    <3> QED
      BY <1>1, <3>1, <3>2
  <2> QED
    BY <1>3, <2>1, <2>2
<1>6. \A j \in 1..Len(unhandled') : \E k \in 1..Len(unhandled) : unhandled'[j] = unhandled[k]
  <2>1. CASE unhandled' = unhandled
    BY <2>1
  <2>2. CASE unhandled' # unhandled
    <3> SUFFICES ASSUME NEW j \in 1..Len(unhandled')
                 PROVE  \/ unhandled'[j] = unhandled[j] /\ j \in 1..Len(unhandled)
                        \/ unhandled'[j] = unhandled[j + 1] /\ j + 1 \in 1..Len(unhandled)
      OBVIOUS
    <3> QED
      BY <1>1, <1>5, <2>2
  <2> QED
    BY <2>1, <2>2
<1>7. /\ pc'[h] = to /\ ev'[h] = e
      /\ \A g \in Handlers : g # h => pc'[g] = pc[g] /\ ev'[g] = ev[g]
      /\ pc' \in [Handlers -> HandlerSteps] /\ ev' \in [Handlers -> Notices \union {<< >>}]
  BY <1>2, <1>3 DEF SyncInv, SyncTyped, HandlerSteps
<1>8. SyncTyped'
  <2>1. Len(unhandled') <= MaxPending
    BY <1>1, <1>5
  <2>2. unswapped' \in BOOLEAN /\ serial' \in BOOLEAN
    BY <1>3 DEF SyncInv, SyncTyped
  <2> QED
    BY <1>4, <1>5, <1>7, <2>1, <2>2 DEF SyncInv, SyncTyped, SyncTypeOK
<1>9. Earned'
  <2>1. \A j \in 1..Len(unhandled') :
          unhandled'[j].status = "succeeded" => unhandled'[j].refund \in everPaid'
    BY <1>4, <1>6 DEF SyncInv, Earned
  <2>2. \A g \in Handlers : pc'[g] # "idle" =>
          ev'[g] \in Notices /\ (ev'[g].status = "succeeded" => ev'[g].refund \in everPaid')
    <3>1. e.status = "succeeded" => e.refund \in everPaid
      BY DEF SyncInv, Earned, e
    <3> QED
      BY <1>2, <1>4, <1>7, <3>1 DEF SyncInv, Earned
  <2>3. \A g \in Handlers : wrote'[g] => pc'[g] # "idle"
    BY <1>3, <1>4, <1>7 DEF SyncInv, Earned
  <2>4. \A g \in Handlers : mark'[g] # "none" => pc'[g] = "committing"
    BY <1>3, <1>4, <1>7 DEF SyncInv, Earned
  <2>5. RevocationIsEarned'
    BY <1>4 DEF SyncInv, Earned, RevocationIsEarned
  <2> QED
    BY <1>4, <2>1, <2>2, <2>3, <2>4, <2>5 DEF SyncInv, Earned
<1>10. unswapped' /\ serial' => Converging'
  <2> SUFFICES ASSUME Converging, i = 1, \A g \in Handlers : pc[g] = "idle" PROVE Converging'
    BY <1>3 DEF SyncInv
  <2>0. unhandled' # unhandled =>
           /\ Len(unhandled') = Len(unhandled) - 1
           /\ \A j \in 1..Len(unhandled') : unhandled'[j] = unhandled[j + 1]
           /\ \A k \in 1..Len(unhandled) : k > 1 =>
                 k - 1 \in 1..Len(unhandled') /\ unhandled'[k - 1] = unhandled[k]
    <3> SUFFICES ASSUME unhandled' # unhandled
                 PROVE  /\ Len(unhandled') = Len(unhandled) - 1
                        /\ \A j \in 1..Len(unhandled') : unhandled'[j] = unhandled[j + 1]
                        /\ \A k \in 1..Len(unhandled) : k > 1 =>
                              k - 1 \in 1..Len(unhandled') /\ unhandled'[k - 1] = unhandled[k]
      OBVIOUS
    <3>1. /\ Len(unhandled') = Len(unhandled) - 1
          /\ \A j \in 1..Len(unhandled') : unhandled'[j] = unhandled[j + 1]
      BY <1>1, <1>5
    <3>2. ASSUME NEW k \in 1..Len(unhandled), k > 1
          PROVE  k - 1 \in 1..Len(unhandled') /\ unhandled'[k - 1] = unhandled[k]
      <4>1. k - 1 \in 1..Len(unhandled') /\ (k - 1) + 1 = k
        BY <1>1, <3>1, <3>2
      <4>2. unhandled'[k - 1] = unhandled[(k - 1) + 1]
        BY <3>1, <4>1
      <4> QED
        BY <4>1, <4>2
    <3> QED
      BY <3>1, <3>2
  <2>1. \A g \in Handlers : pc'[g] # "idle" => g = h
    BY <1>7
  <2>2. ASSUME NEW j \in 1..Len(unhandled'),
               \A k \in 1..Len(unhandled') : k > j => unhandled'[k].refund # unhandled'[j].refund
        PROVE  provider'[unhandled'[j].refund] = unhandled'[j].status
    <3>1. CASE unhandled' = unhandled
      BY <1>4, <2>2, <3>1 DEF Converging, LastWord
    <3>2. CASE unhandled' # unhandled
      <4>1. /\ j + 1 \in 1..Len(unhandled) /\ unhandled'[j] = unhandled[j + 1]
            /\ \A k \in 1..Len(unhandled) : k > j + 1 =>
                  k - 1 \in 1..Len(unhandled') /\ k - 1 > j /\ unhandled'[k - 1] = unhandled[k]
        BY <1>1, <2>0, <3>2
      <4>2. \A k \in 1..Len(unhandled) : k > j + 1 => unhandled[k].refund # unhandled[j + 1].refund
        BY <2>2, <4>1
      <4> QED
        BY <1>4, <4>1, <4>2 DEF Converging, LastWord
    <3> QED
      BY <3>1, <3>2
  <2>3. ASSUME NEW r \in Refunds, \A j \in 1..Len(unhandled') : unhandled'[j].refund # r
        PROVE  /\ \A g \in Handlers : pc'[g] # "idle" /\ ev'[g].refund = r => provider'[r] = ev'[g].status
               /\ (\A g \in Handlers : pc'[g] # "idle" => ev'[g].refund # r) => provider'[r] = row'[r]
    <3>1. \A j \in 1..Len(unhandled) : j > 1 => unhandled[j].refund # r
      <4>1. CASE unhandled' = unhandled
        BY <2>3, <4>1
      <4>2. CASE unhandled' # unhandled
        <5>1. \A j \in 1..Len(unhandled) : j > 1 =>
                 j - 1 \in 1..Len(unhandled') /\ unhandled'[j - 1] = unhandled[j]
          BY <1>1, <2>0, <4>2
        <5> QED
          BY <2>3, <5>1
      <4> QED
        BY <4>1, <4>2
    <3>2. CASE e.refund = r
      <4>1. \A j \in 1..Len(unhandled) : j > i => unhandled[j].refund # unhandled[i].refund
        BY <3>1, <3>2 DEF e
      <4>2. provider[r] = e.status
        BY <3>2, <4>1 DEF Converging, LastWord, e
      <4>3. pc'[h] # "idle" /\ ev'[h] = e
        BY <1>3, <1>7
      <4> QED
        BY <1>4, <2>1, <3>2, <4>2, <4>3
    <3>3. CASE e.refund # r
      <4>1. \A j \in 1..Len(unhandled) : unhandled[j].refund # r
        BY <1>1, <3>1, <3>3 DEF e
      <4>2. provider[r] = row[r]
        BY <4>1 DEF Converging, LastWord
      <4> QED
        BY <1>4, <1>7, <2>1, <3>3, <4>2
    <3> QED
      BY <3>2, <3>3
  <2>4. (\A g \in Handlers : HandlerOk(g))'
    <3>1. \A g \in Handlers : pc'[g] \in {"idle", "inserting", "updating"}
      BY <1>3, <1>7
    <3>2. \A g \in Handlers : pc'[g] = "inserting" => row'[ev'[g].refund] = "none"
      BY <1>3, <1>4, <1>7
    <3> QED
      BY <3>1, <3>2 DEF HandlerOk, Writing
  <2>5. LastWord'
    BY <2>2, <2>3 DEF LastWord
  <2>6. (Cardinality(Paid) >= Amount => order = "refunded" /\ ~entitled)'
    BY <1>4 DEF Converging, Paid
  <2>7. \A g, k \in Handlers : pc'[g] # "idle" /\ pc'[k] # "idle" => g = k
    BY <2>1
  <2> QED
    BY <2>4, <2>5, <2>6, <2>7 DEF Converging
<1> QED
  BY <1>8, <1>9, <1>10 DEF SyncInv
(***************************************************************************)
(* The statements of a handler.                                            *)
(***************************************************************************)
\* What a handler counts was refunded.
LEMMA CountedEarned ==
  ASSUME SyncInv, NEW h \in Handlers, pc[h] # "idle"
  PROVE  /\ Counted(h) \subseteq everPaid
         /\ Cardinality(Counted(h)) \in 0..Cardinality(Refunds)
         /\ Cardinality(Counted(h)) <= Cardinality(everPaid)
         /\ Cardinality(everPaid) \in Nat
<1>1. Counted(h) \subseteq everPaid
  BY DEF Counted, Visible, SyncInv, Earned
<1>2. Counted(h) \subseteq Refunds /\ everPaid \subseteq Refunds
  BY DEF Counted, SyncInv, SyncTyped
<1>3. Cardinality(Counted(h)) \in Nat /\ Cardinality(Counted(h)) <= Cardinality(Refunds)
      /\ Cardinality(Refunds) \in Nat
  BY <1>2, RefundsCount
<1>4. Cardinality(Counted(h)) <= Cardinality(everPaid) /\ Cardinality(everPaid) \in Nat
  BY <1>1, <1>2, RefundsCount
<1> QED
  BY <1>1, <1>3, <1>4

\* A statement inside a transaction changes neither events nor rows.
LEMMA LastWordKept ==
  ASSUME LastWord, UNCHANGED <<provider, unhandled, ev, row>>,
         \A g \in Handlers : pc'[g] = "idle" <=> pc[g] = "idle"
  PROVE  LastWord'
BY DEF LastWord

\* The refund's row is written.
LEMMA WriteRowStep ==
  ASSUME SyncInv, NEW h \in Handlers, Update(h) \/ Insert(h)
  PROVE  SyncInv'
<1>1. /\ pc[h] \in {"updating", "inserting"}
      /\ pc' = [pc EXCEPT ![h] = AfterWrite(h)]
      /\ AfterWrite(h) \in {"summing", "committing"}
      /\ AfterWrite(h) = "summing" <=> ev[h].status = "succeeded"
      /\ UNCHANGED <<provider, everPaid, unhandled, unswapped, serial, row, order, entitled, ev, total, mark>>
  BY DEF Update, Insert, HandlerTo, AfterWrite, provided, stored
<1>2. /\ wrote' \in [Handlers -> BOOLEAN]
      /\ \A g \in Handlers : g # h => wrote'[g] = wrote[g]
      /\ (pc[h] = "inserting" => row[ev[h].refund] = "none") => wrote'[h]
  <2>1. CASE Update(h)
    BY <2>1 DEF Update, SyncInv, SyncTyped
  <2>2. CASE Insert(h)
    BY <2>2 DEF Insert, HandlerTo, SyncInv, SyncTyped
  <2> QED
    BY <2>1, <2>2
<1>3. /\ pc' \in [Handlers -> HandlerSteps]
      /\ pc'[h] = AfterWrite(h)
      /\ \A g \in Handlers : g # h => pc'[g] = pc[g]
      /\ \A g \in Handlers : pc'[g] = "idle" <=> pc[g] = "idle"
  BY <1>1 DEF SyncInv, SyncTyped, HandlerSteps
<1> HIDE DEF AfterWrite
<1>4. SyncTyped'
  BY <1>1, <1>2, <1>3 DEF SyncInv, SyncTyped, SyncTypeOK
<1>5. mark[h] = "none"
  BY <1>1 DEF SyncInv, Earned
<1>6. Earned'
  <2>1. \A g \in Handlers : wrote'[g] => pc'[g] # "idle"
    BY <1>1, <1>2, <1>3 DEF SyncInv, Earned
  <2>2. \A g \in Handlers : mark'[g] # "none" => pc'[g] = "committing"
    BY <1>1, <1>3, <1>5 DEF SyncInv, Earned
  <2>3. RevocationIsEarned'
    BY <1>1 DEF SyncInv, Earned, RevocationIsEarned
  <2> QED
    BY <1>1, <1>3, <2>1, <2>2, <2>3 DEF SyncInv, Earned
<1>7. unswapped' /\ serial' => Converging'
  <2> SUFFICES ASSUME Converging PROVE Converging'
    BY <1>1 DEF SyncInv
  <2>1. LastWord'
    BY <1>1, <1>3, LastWordKept DEF Converging
  <2>2. wrote'[h]
    BY <1>2 DEF Converging, HandlerOk
  <2>3. \A g \in Handlers : g # h => pc'[g] = "idle"
    BY <1>1, <1>3 DEF Converging
  <2>4. HandlerOk(h)'
    <3>1. pc'[h] = "summing" => ev'[h].status = "succeeded"
      BY <1>1, <1>3
    <3>2. pc'[h] = "committing" => mark'[h] = MarkOf(h)'
      BY <1>1, <1>3, <1>5 DEF MarkOf
    <3>3. pc'[h] \in {"summing", "committing"}
      BY <1>1, <1>3
    <3> QED
      BY <2>2, <3>1, <3>2, <3>3 DEF HandlerOk
  <2>5. \A g \in Handlers : g # h => HandlerOk(g)'
    BY <2>3 DEF HandlerOk, Writing
  <2>6. (Cardinality(Paid) >= Amount => order = "refunded" /\ ~entitled)'
    BY <1>1 DEF Converging, Paid
  <2>7. \A g, k \in Handlers : pc'[g] # "idle" /\ pc'[k] # "idle" => g = k
    BY <2>3
  <2> QED
    BY <2>1, <2>4, <2>5, <2>6, <2>7 DEF Converging
<1> QED
  BY <1>4, <1>6, <1>7 DEF SyncInv

\* The sum is read.
LEMMA SumStep ==
  ASSUME SyncInv, NEW h \in Handlers, Sum(h)
  PROVE  SyncInv'
<1> DEFINE n == Cardinality(Counted(h))
<1>1. /\ pc[h] = "summing" /\ pc' = [pc EXCEPT ![h] = "locking"]
      /\ total' = [total EXCEPT ![h] = n]
      /\ UNCHANGED <<provider, everPaid, unhandled, unswapped, serial, row, order, entitled, ev, wrote, mark>>
  BY DEF Sum, HandlerTo, provided, stored
<1>2. n \in 0..Cardinality(Refunds) /\ n <= Cardinality(everPaid)
  BY <1>1, CountedEarned
<1> HIDE DEF n
<1>3. /\ pc' \in [Handlers -> HandlerSteps]
      /\ pc'[h] = "locking"
      /\ \A g \in Handlers : g # h => pc'[g] = pc[g]
      /\ \A g \in Handlers : pc'[g] = "idle" <=> pc[g] = "idle"
  BY <1>1 DEF SyncInv, SyncTyped, HandlerSteps
<1>4. /\ total' \in [Handlers -> 0..Cardinality(Refunds)]
      /\ total'[h] = n
      /\ \A g \in Handlers : g # h => total'[g] = total[g]
  BY <1>1, <1>2 DEF SyncInv, SyncTyped, SyncTypeOK
<1>5. SyncTyped'
  BY <1>1, <1>3, <1>4 DEF SyncInv, SyncTyped, SyncTypeOK
<1>6. Earned'
  <2>1. \A g \in Handlers : total'[g] <= Cardinality(everPaid')
    BY <1>1, <1>2, <1>4 DEF SyncInv, Earned
  <2>2. \A g \in Handlers : mark'[g] # "none" => pc'[g] = "committing"
    BY <1>1, <1>3 DEF SyncInv, Earned
  <2>3. RevocationIsEarned'
    BY <1>1 DEF SyncInv, Earned, RevocationIsEarned
  <2> QED
    BY <1>1, <1>3, <2>1, <2>2, <2>3 DEF SyncInv, Earned
<1>7. unswapped' /\ serial' => Converging'
  <2> SUFFICES ASSUME Converging PROVE Converging'
    BY <1>1 DEF SyncInv
  <2>1. LastWord'
    BY <1>1, <1>3, LastWordKept DEF Converging
  <2>2. wrote[h] /\ ev[h].status = "succeeded"
    BY <1>1 DEF Converging, HandlerOk, Writing
  <2>3. \A g \in Handlers : g # h => pc'[g] = "idle"
    BY <1>1, <1>3 DEF Converging
  <2>4. HandlerOk(h)'
    <3>1. Counted(h)' = Counted(h)
      BY <1>1 DEF Counted, Visible
    <3>2. total'[h] = Cardinality(Counted(h))'
      BY <1>4, <3>1 DEF n
    <3> QED
      BY <1>1, <1>3, <2>2, <3>2 DEF HandlerOk
  <2>5. \A g \in Handlers : g # h => HandlerOk(g)'
    BY <2>3 DEF HandlerOk, Writing
  <2>6. (Cardinality(Paid) >= Amount => order = "refunded" /\ ~entitled)'
    BY <1>1 DEF Converging, Paid
  <2>7. \A g, k \in Handlers : pc'[g] # "idle" /\ pc'[k] # "idle" => g = k
    BY <2>3
  <2> QED
    BY <2>1, <2>4, <2>5, <2>6, <2>7 DEF Converging
<1> QED
  BY <1>5, <1>6, <1>7 DEF SyncInv

\* The order is marked.
LEMMA WriteOrderStep ==
  ASSUME SyncInv, NEW h \in Handlers, WriteOrder(h)
  PROVE  SyncInv'
<1> DEFINE m == IF total[h] >= Amount THEN "refunded" ELSE "partially_refunded"
<1>1. /\ pc[h] = "locking" /\ pc' = [pc EXCEPT ![h] = "committing"]
      /\ mark' = [mark EXCEPT ![h] = m]
      /\ UNCHANGED <<provider, everPaid, unhandled, unswapped, serial, row, order, entitled, ev, wrote, total>>
  BY DEF WriteOrder, HandlerTo, provided, stored
<1>2. m \in Marks /\ (m = "refunded" <=> total[h] >= Amount)
  BY DEF Marks
<1> HIDE DEF m
<1>3. /\ pc' \in [Handlers -> HandlerSteps]
      /\ pc'[h] = "committing"
      /\ \A g \in Handlers : g # h => pc'[g] = pc[g]
      /\ \A g \in Handlers : pc'[g] = "idle" <=> pc[g] = "idle"
  BY <1>1 DEF SyncInv, SyncTyped, HandlerSteps
<1>4. /\ mark' \in [Handlers -> Marks \union {"none"}]
      /\ mark'[h] = m
      /\ \A g \in Handlers : g # h => mark'[g] = mark[g]
  BY <1>1, <1>2 DEF SyncInv, SyncTyped, SyncTypeOK
<1>5. SyncTyped'
  BY <1>1, <1>3, <1>4 DEF SyncInv, SyncTyped, SyncTypeOK
<1>6. Earned'
  <2>1. m = "refunded" => Cardinality(everPaid) >= Amount
    <3>1. total[h] \in Nat /\ total[h] <= Cardinality(everPaid) /\ Cardinality(everPaid) \in Nat
      <4>1. total[h] \in 0..Cardinality(Refunds)
        BY DEF SyncInv, SyncTyped, SyncTypeOK
      <4>2. Cardinality(everPaid) \in Nat
        BY RefundsCount DEF SyncInv, SyncTyped
      <4>3. Cardinality(Refunds) \in Nat
        BY RefundsCount DEF SyncInv, SyncTyped
      <4> QED
        BY <4>1, <4>2, <4>3 DEF SyncInv, Earned
    <3> QED
      BY <1>2, <3>1, RefundAssumption
  <2>2. \A g \in Handlers : mark'[g] # "none" => pc'[g] = "committing"
    BY <1>3, <1>4 DEF SyncInv, Earned
  <2>3. RevocationIsEarned'
    BY <1>1 DEF SyncInv, Earned, RevocationIsEarned
  <2>4. \A g \in Handlers : mark'[g] = "refunded" => Cardinality(everPaid') >= Amount
    BY <1>1, <1>4, <2>1 DEF SyncInv, Earned
  <2> QED
    BY <1>1, <1>3, <2>2, <2>3, <2>4 DEF SyncInv, Earned
<1>7. unswapped' /\ serial' => Converging'
  <2> SUFFICES ASSUME Converging PROVE Converging'
    BY <1>1 DEF SyncInv
  <2>1. LastWord'
    BY <1>1, <1>3, LastWordKept DEF Converging
  <2>2. wrote[h] /\ ev[h].status = "succeeded" /\ total[h] = Cardinality(Counted(h))
    BY <1>1 DEF Converging, HandlerOk, Writing
  <2>3. \A g \in Handlers : g # h => pc'[g] = "idle"
    BY <1>1, <1>3 DEF Converging
  <2>4. HandlerOk(h)'
    <3>1. MarkOf(h)' = m
      BY <1>1, <2>2 DEF MarkOf, Counted, Visible, m
    <3>2. mark'[h] = MarkOf(h)'
      BY <1>4, <3>1
    <3> QED
      BY <1>1, <1>3, <2>2, <3>2 DEF HandlerOk
  <2>5. \A g \in Handlers : g # h => HandlerOk(g)'
    BY <2>3 DEF HandlerOk, Writing
  <2>6. (Cardinality(Paid) >= Amount => order = "refunded" /\ ~entitled)'
    BY <1>1 DEF Converging, Paid
  <2>7. \A g, k \in Handlers : pc'[g] # "idle" /\ pc'[k] # "idle" => g = k
    BY <2>3
  <2> QED
    BY <2>1, <2>4, <2>5, <2>6, <2>7 DEF Converging
<1> QED
  BY <1>5, <1>6, <1>7 DEF SyncInv
\* A refund's transaction commits.
LEMMA CommitStep ==
  ASSUME SyncInv, NEW h \in Handlers, Commit(h)
  PROVE  SyncInv'
<1> DEFINE e == ev[h]
<1>1. /\ pc[h] = "committing" /\ pc' = [pc EXCEPT ![h] = "idle"]
      /\ row' = IF wrote[h] THEN [row EXCEPT ![e.refund] = e.status] ELSE row
      /\ order' = IF mark[h] # "none" THEN mark[h] ELSE order
      /\ entitled' = (entitled /\ mark[h] # "refunded")
      /\ ev' = [ev EXCEPT ![h] = << >>]
      /\ wrote' = [wrote EXCEPT ![h] = FALSE]
      /\ total' = [total EXCEPT ![h] = 0]
      /\ mark' = [mark EXCEPT ![h] = "none"]
      /\ UNCHANGED <<provider, everPaid, unhandled, unswapped, serial>>
  BY DEF Commit, HandlerTo, provided
<1>2. /\ e \in Notices /\ e.refund \in Refunds /\ e.status \in RefundStatuses
      /\ e.status = "succeeded" => e.refund \in everPaid
  BY <1>1 DEF SyncInv, Earned, Notices
<1> HIDE DEF e
<1>3. /\ pc' \in [Handlers -> HandlerSteps]
      /\ pc'[h] = "idle"
      /\ \A g \in Handlers : g # h => pc'[g] = pc[g]
  BY <1>1 DEF SyncInv, SyncTyped, HandlerSteps
<1>4. /\ ev' \in [Handlers -> Notices \union {<< >>}]
      /\ \A g \in Handlers : g # h => ev'[g] = ev[g]
      /\ wrote' \in [Handlers -> BOOLEAN] /\ ~wrote'[h]
      /\ \A g \in Handlers : g # h => wrote'[g] = wrote[g]
  BY <1>1 DEF SyncInv, SyncTyped
<1>5. /\ mark' \in [Handlers -> Marks \union {"none"}] /\ mark'[h] = "none"
      /\ \A g \in Handlers : g # h => mark'[g] = mark[g]
      /\ mark[h] \in Marks \union {"none"}
  BY <1>1 DEF SyncInv, SyncTyped, SyncTypeOK
<1>6. /\ total' \in [Handlers -> 0..Cardinality(Refunds)] /\ total'[h] = 0
      /\ \A g \in Handlers : g # h => total'[g] = total[g]
  <2>1. Cardinality(Refunds) \in Nat
    BY RefundsCount DEF SyncInv, SyncTyped
  <2>2. 0 \in 0..Cardinality(Refunds)
    BY <2>1
  <2> QED
    BY <1>1, <2>2 DEF SyncInv, SyncTyped, SyncTypeOK
<1>7. /\ row' \in [Refunds -> RefundStatuses \union {"none"}]
      /\ wrote[h] => row'[e.refund] = e.status
      /\ \A r \in Refunds : r # e.refund \/ ~wrote[h] => row'[r] = row[r]
  BY <1>1, <1>2 DEF SyncInv, SyncTyped, SyncTypeOK
<1>8. SyncTyped'
  <2>1. order' \in Marks \union {"paid"}
    BY <1>1, <1>5 DEF SyncInv, SyncTyped, SyncTypeOK
  <2>2. entitled' \in BOOLEAN
    BY <1>1 DEF SyncInv, SyncTyped
  <2> QED
    BY <1>1, <1>3, <1>4, <1>5, <1>6, <1>7, <2>1, <2>2 DEF SyncInv, SyncTyped, SyncTypeOK
<1>9. Earned'
  <2>1. \A g \in Handlers : pc'[g] # "idle" =>
          ev'[g] \in Notices /\ (ev'[g].status = "succeeded" => ev'[g].refund \in everPaid')
    BY <1>1, <1>3, <1>4 DEF SyncInv, Earned
  <2>2. \A r \in Refunds : row'[r] = "succeeded" => r \in everPaid'
    BY <1>1, <1>2, <1>7 DEF SyncInv, Earned
  <2>3. \A g \in Handlers : total'[g] <= Cardinality(everPaid')
    <3>1. Cardinality(everPaid) \in Nat
      BY RefundsCount DEF SyncInv, SyncTyped
    <3> QED
      BY <1>1, <1>6, <3>1 DEF SyncInv, Earned
  <2>4. RevocationIsEarned'
    BY <1>1 DEF SyncInv, Earned, RevocationIsEarned
  <2>5. \A g \in Handlers : wrote'[g] => pc'[g] # "idle"
    BY <1>3, <1>4 DEF SyncInv, Earned
  <2>6. \A g \in Handlers : mark'[g] # "none" => pc'[g] = "committing"
    BY <1>3, <1>5 DEF SyncInv, Earned
  <2>7. \A g \in Handlers : mark'[g] = "refunded" => Cardinality(everPaid') >= Amount
    BY <1>1, <1>5 DEF SyncInv, Earned
  <2> QED
    BY <1>1, <2>1, <2>2, <2>3, <2>4, <2>5, <2>6, <2>7 DEF SyncInv, Earned
<1>10. unswapped' /\ serial' => Converging'
  <2> SUFFICES ASSUME Converging PROVE Converging'
    BY <1>1 DEF SyncInv
  <2>1. \A g \in Handlers : pc'[g] = "idle" /\ (g # h => pc[g] = "idle")
    BY <1>1, <1>3 DEF Converging
  <2>2. wrote[h] /\ mark[h] = MarkOf(h)
    BY <1>1 DEF Converging, HandlerOk, Writing
  <2>3. \A r \in Refunds : row'[r] = IF r = e.refund THEN e.status ELSE row[r]
    BY <1>2, <1>7, <2>2
  <2>4. LastWord'
    <3>1. ASSUME NEW r \in Refunds, \A i \in 1..Len(unhandled) : unhandled[i].refund # r
          PROVE  provider'[r] = row'[r]
      <4>1. CASE r = e.refund
        BY <1>1, <2>3, <3>1, <4>1 DEF Converging, LastWord, e
      <4>2. CASE r # e.refund
        <5>1. \A g \in Handlers : pc[g] # "idle" => ev[g].refund # r
          BY <2>1, <4>2 DEF e
        <5>2. provider[r] = row[r]
          BY <3>1, <5>1 DEF Converging, LastWord
        <5> QED
          BY <1>1, <2>3, <4>2, <5>2
      <4> QED
        BY <4>1, <4>2
    <3>2. \A i \in 1..Len(unhandled') :
             (\A j \in 1..Len(unhandled') : j > i => unhandled'[j].refund # unhandled'[i].refund)
             => provider'[unhandled'[i].refund] = unhandled'[i].status
      BY <1>1 DEF Converging, LastWord
    <3> QED
      BY <1>1, <2>1, <3>1, <3>2 DEF LastWord
  <2>5. Cardinality(Paid') >= Amount => order' = "refunded" /\ ~entitled'
    <3> SUFFICES ASSUME Cardinality(Paid') >= Amount
                 PROVE  order' = "refunded" /\ ~entitled'
      OBVIOUS
    <3>1. Paid' = {r \in Refunds : (IF r = e.refund THEN e.status ELSE row[r]) = "succeeded"}
      BY <2>3 DEF Paid
    <3>2. CASE e.status = "succeeded"
      <4>1. Paid' = Counted(h)
        BY <2>2, <3>1 DEF Counted, Visible, e
      <4>2. mark[h] = "refunded"
        BY <2>2, <3>2, <4>1 DEF MarkOf, e
      <4> QED
        BY <1>1, <4>2
    <3>3. CASE e.status # "succeeded"
      <4>1. Paid' \subseteq Paid /\ Paid \subseteq Refunds
        BY <3>1, <3>3 DEF Paid
      <4>2. /\ Cardinality(Paid') \in Nat /\ Cardinality(Paid) \in Nat
            /\ Cardinality(Paid') <= Cardinality(Paid)
        BY <4>1, RefundsCount
      <4>3. Cardinality(Paid) >= Amount
        BY <4>2, RefundAssumption
      <4>4. mark[h] = "none"
        BY <2>2, <3>3 DEF MarkOf, e
      <4> QED
        BY <1>1, <4>3, <4>4 DEF Converging
    <3> QED
      BY <3>2, <3>3
  <2>6. (\A g \in Handlers : HandlerOk(g))'
    BY <2>1 DEF HandlerOk, Writing
  <2> QED
    BY <2>1, <2>4, <2>5, <2>6 DEF Converging
<1> QED
  BY <1>8, <1>9, <1>10 DEF SyncInv

\* The invariant holds at the start.
LEMMA SyncStarts ==
  SyncInit => SyncInv
<1> SUFFICES ASSUME SyncInit PROVE SyncInv
  OBVIOUS
<1>1. unhandled \in Seq(Notices) /\ Len(unhandled) = 0
  BY EmptySeq DEF SyncInit
<1>2. IsFiniteSet(Refunds) /\ Cardinality(Refunds) \in Nat /\ Cardinality(everPaid) = 0
  BY RefundAssumption, FS_CardinalityType, FS_EmptySet DEF SyncInit
<1>3. SyncTyped
  BY <1>1, <1>2, RefundAssumption
     DEF SyncInit, SyncTyped, SyncTypeOK, RefundStatuses, Marks, HandlerSteps
<1>4. Earned
  BY <1>1, <1>2 DEF SyncInit, Earned, RevocationIsEarned
<1>5. Paid = {} /\ Cardinality(Paid) = 0
  BY FS_EmptySet DEF SyncInit, Paid
<1>6. ~(Cardinality(Paid) >= Amount)
  BY <1>5, RefundAssumption
<1>7. Converging
  BY <1>1, <1>6 DEF SyncInit, Converging, LastWord, HandlerOk, Writing
<1> QED
  BY <1>3, <1>4, <1>7 DEF SyncInv

\* Every step keeps it.
LEMMA SyncSteps ==
  SyncInv /\ [SyncNext]_syncVars => SyncInv'
<1> SUFFICES ASSUME SyncInv, [SyncNext]_syncVars PROVE SyncInv'
  OBVIOUS
<1>1. ASSUME NEW r \in Refunds, Create(r) \/ Succeed(r) \/ Fail(r) PROVE SyncInv'
  BY <1>1, TurnedStep DEF Create, Succeed, Fail, RefundStatuses
<1>2. ASSUME NEW h \in Handlers, NEW i \in 1..Len(unhandled), Deliver(h, i) PROVE SyncInv'
  BY <1>2, DeliverStep
<1>3. ASSUME NEW h \in Handlers, Handle(h) PROVE SyncInv'
  BY <1>3, WriteRowStep, SumStep, WriteOrderStep, CommitStep DEF Handle
<1>4. CASE UNCHANGED syncVars
  <2>1. UNCHANGED <<provider, everPaid, unhandled, unswapped, serial, row, order, entitled,
                    pc, ev, wrote, total, mark>>
    BY <1>4 DEF syncVars, provided, stored, local
  <2>2. SyncTyped'
    BY <2>1 DEF SyncInv, SyncTyped, SyncTypeOK
  <2>3. Earned'
    BY <2>1 DEF SyncInv, Earned, RevocationIsEarned
  <2>4. Converging' <=> Converging
    BY <2>1 DEF Converging, LastWord, HandlerOk, MarkOf, Counted, Visible, Paid
  <2> QED
    BY <2>1, <2>2, <2>3, <2>4 DEF SyncInv
<1> QED
  BY <1>1, <1>2, <1>3, <1>4 DEF SyncNext

\* Whatever the deliveries do to each other, an entitlement is revoked only
\* when refunds of the whole charge had succeeded; and events handled in order,
\* one at a time, leave every refund with the provider's status.
THEOREM RefundsHold == SyncSpec => []RefundsAreTrue
<1>1. SyncInv => RefundsAreTrue
  <2> SUFFICES ASSUME SyncInv PROVE RefundsAreTrue
    OBVIOUS
  <2>1. SerialEventsConverge
    <3> SUFFICES ASSUME AtRest, Converging
                 PROVE  /\ \A r \in Refunds : row[r] = provider[r]
                        /\ Refunded => order = "refunded" /\ ~entitled
      BY DEF SerialEventsConverge, SyncInv
    <3>1. Len(unhandled) = 0 /\ \A h \in Handlers : pc[h] = "idle"
      BY EmptySeq DEF AtRest
    <3>2. \A r \in Refunds : row[r] = provider[r]
      BY <3>1 DEF Converging, LastWord
    <3>3. Paid = {r \in Refunds : provider[r] = "succeeded"}
      BY <3>2 DEF Paid
    <3> QED
      BY <3>2, <3>3 DEF Converging, Refunded
  <2> QED
    BY <2>1 DEF RefundsAreTrue, SyncInv, SyncTyped, Earned
<1> QED
  BY <1>1, SyncStarts, SyncSteps, PTL DEF SyncSpec

(***************************************************************************)
(* A subscriber's requests.                                                *)
(***************************************************************************)
Contract == [status : {None, "active", "canceled"}, scheduled : BOOLEAN]

SubscriberTyped ==
    /\ SubscriberTypeOK
    /\ contract \in [Plans -> Contract]

\* A plan has one row, and the row the customer of its session.
RowsAreOwned ==
    /\ \A i, j \in DOMAIN rows : rows[i].plan = rows[j].plan => i = j
    /\ \A i \in DOMAIN rows :
          session[rows[i].plan] # None /\ rows[i].customer = session[rows[i].plan]

\* A customer is known by a session that was opened without one.
CustomersAreKnown ==
    /\ \A p \in Plans : session[p] # None => session[p] \in blind
    /\ customer # None => customer \in blind
    /\ \A n \in sent : session[n.plan] # None
    /\ \A p \in Plans : contract[p].status # None => session[p] # None

\* Whatever says that a plan will end has it from the provider, or is about a
\* plan that became the newest during a request.
EndsAreTold ==
    /\ \A p \in Plans : contract[p].scheduled => p \in accepted
    /\ \A n \in sent : n.flag => n.plan \in accepted
    /\ \A i \in DOMAIN rows : rows[i].flag => rows[i].plan \in accepted \union moved
    /\ \A c \in Clicks : click[c].at \in {"asked", "recorded", "ok"} => click[c].plan \in accepted
    /\ \A c \in Clicks : click[c].at = "read" => click[c].plan # None
    /\ \A c \in Clicks : click[c].at \in InFlight =>
          Newest = click[c].plan \/ Newest \in moved
    /\ CancellationsAreReal

SubscriberInv == SubscriberTyped /\ RowsAreOwned /\ CustomersAreKnown /\ EndsAreTold

\* A non-empty set of positions has a greatest one.
LEMMA HasMax ==
  ASSUME NEW n \in Nat, NEW S, S \subseteq 1..n, S # {}
  PROVE  Max(S) \in S /\ \A x \in S : x <= Max(S)
<1> DEFINE Less == {ss \in Nat \X Nat : ss[1] < ss[2]}
           T == {n - x : x \in S}
<1>1. IsWellFoundedOn(OpToRel(<, Nat), Nat)
  BY NatLessThanWellFounded
<1>2. OpToRel(<, Nat) = Less
  BY DEF OpToRel
<1>3. IsWellFoundedOn(Less, Nat)
  BY <1>1, <1>2
<1>4. T \subseteq Nat /\ T # {}
  <2>1. \A x \in S : n - x \in Nat
    OBVIOUS
  <2>2. QED
    BY <2>1
<1> HIDE DEF Less, T
<1>5. PICK m \in T : \A y \in T : ~(<<y, m>> \in Less)
  BY <1>3, <1>4, WFMin
<1>6. PICK x \in S : m = n - x
  BY <1>5 DEF T
<1>7. ASSUME NEW y \in S PROVE x >= y
  <2>1. n - y \in T /\ n - y \in Nat /\ m \in Nat
    BY <1>4 DEF T
  <2>2. ~(n - y < m)
    BY <1>5, <2>1 DEF Less
  <2>3. QED
    BY <1>6, <2>2
<1>8. Max(S) \in S /\ \A y \in S : Max(S) >= y
  BY <1>6, <1>7 DEF Max
<1>9. QED
  BY <1>8

\* The newest subscription is one of the plans, if there is one.
LEMMA NewestTyped ==
  ASSUME SubscriberTypeOK PROVE Newest \in Plans \union {None}
<1>1. /\ Len(rows) \in Nat /\ DOMAIN rows = 1..Len(rows)
      /\ \A i \in DOMAIN rows : rows[i].plan \in Plans
  <2>1. rows \in Seq(PlanRow)
    BY DEF SubscriberTypeOK
  <2>2. \A i \in DOMAIN rows : rows[i] \in PlanRow
    BY <2>1
  <2>3. QED
    BY <2>1, <2>2, LenProperties DEF PlanRow
<1>2. CASE Cancellable(rows) = {}
  BY <1>2 DEF Newest, NewestOf
<1>3. CASE Cancellable(rows) # {}
  <2>1. Cancellable(rows) \subseteq 1..Len(rows)
    BY <1>1 DEF Cancellable
  <2>2. Max(Cancellable(rows)) \in DOMAIN rows
    BY <1>1, <1>3, <2>1, HasMax
  <2>3. QED
    BY <1>1, <1>3, <2>2 DEF Newest, NewestOf
<1>4. QED
  BY <1>2, <1>3

\* Who is newest depends on the plans and statuses only.
LEMMA NewestKept ==
  ASSUME SubscriberTypeOK, DOMAIN rows' = DOMAIN rows,
         \A i \in DOMAIN rows : rows'[i].plan = rows[i].plan /\ rows'[i].status = rows[i].status
  PROVE  Newest' = Newest
<1>1. Cancellable(rows') = Cancellable(rows)
  BY DEF Cancellable
<1>2. CASE Cancellable(rows) = {}
  BY <1>1, <1>2 DEF Newest, NewestOf
<1>3. CASE Cancellable(rows) # {}
  <2>1. Len(rows) \in Nat /\ DOMAIN rows = 1..Len(rows)
    BY LenProperties DEF SubscriberTypeOK
  <2>2. Cancellable(rows) \subseteq 1..Len(rows)
    BY <2>1 DEF Cancellable
  <2>3. Max(Cancellable(rows)) \in DOMAIN rows
    BY <1>3, <2>1, <2>2, HasMax
  <2>4. QED
    BY <1>1, <1>3, <2>3 DEF Newest, NewestOf
<1>4. QED
  BY <1>2, <1>3

(***************************************************************************)
(* Sessions, the provider and the webhook.                                 *)
(***************************************************************************)
\* What the state holds, variable by variable.
LEMMA SubscriberFields ==
  ASSUME SubscriberTyped
  PROVE  /\ session \in [Plans -> Plans \union {None}] /\ contract \in [Plans -> Contract]
         /\ blind \subseteq Plans /\ accepted \subseteq Plans /\ sent \subseteq Notice
         /\ rows \in Seq(PlanRow) /\ customer \in Plans \union {None}
         /\ click \in [Clicks -> [at : Steps, plan : Plans \union {None}]]
         /\ trail \subseteq Plans /\ turns \in 0..MaxTurns
         /\ Len(rows) \in Nat /\ DOMAIN rows = 1..Len(rows)
         /\ \A i \in DOMAIN rows : rows[i] \in PlanRow /\ rows[i].plan \in Plans
<1>1. rows \in Seq(PlanRow)
  BY DEF SubscriberTyped, SubscriberTypeOK
<1>2. \A i \in DOMAIN rows : rows[i] \in PlanRow
  BY <1>1
<1>3. QED
  BY <1>1, <1>2, LenProperties DEF SubscriberTyped, SubscriberTypeOK, PlanRow

\* A request is where it was, has failed, or has had the provider accept.
Asking ==
    /\ click' \in [Clicks -> [at : Steps, plan : Plans \union {None}]]
    /\ \A c \in Clicks :
          \/ click'[c] = click[c]
          \/ /\ click'[c].plan = click[c].plan
             /\ click[c].at = "read"
             /\ click'[c].at = "failed"
                \/ (click'[c].at = "asked" /\ click[c].plan \in accepted')

\* A step that leaves the rows, takes back no acceptance and no session, and
\* sends and schedules only what was accepted.
LEMMA OutsideKept ==
  ASSUME SubscriberInv, UNCHANGED <<rows, trail, moved, customer>>, Asking,
         session' \in [Plans -> Plans \union {None}], blind' \subseteq Plans,
         accepted' \subseteq Plans, sent' \subseteq Notice, turns' \in 0..MaxTurns,
         contract' \in [Plans -> Contract],
         blind \subseteq blind', accepted \subseteq accepted',
         \A p \in Plans :
            /\ session[p] # None => session'[p] = session[p]
            /\ session'[p] # None => session'[p] \in blind'
            /\ contract'[p].scheduled => p \in accepted'
            /\ contract'[p].status # None => session'[p] # None,
         \A n \in sent' : n \in sent \/ ((n.flag => n.plan \in accepted') /\ session'[n.plan] # None)
  PROVE  SubscriberInv'
<1>1. SubscriberTyped /\ RowsAreOwned /\ CustomersAreKnown /\ EndsAreTold
  BY DEF SubscriberInv
<1>2. SubscriberTyped'
  BY <1>1 DEF SubscriberTyped, SubscriberTypeOK, Asking
<1>3. /\ \A i \in DOMAIN rows : rows[i].plan \in Plans
      /\ \A n \in sent : n.plan \in Plans
  BY <1>1, SubscriberFields DEF Notice
<1>4. RowsAreOwned'
  BY <1>1, <1>3 DEF RowsAreOwned
<1>5. CustomersAreKnown'
  BY <1>1, <1>3 DEF CustomersAreKnown
<1>6. Newest' = Newest
  BY DEF Newest, NewestOf, Cancellable
<1>7. CancellationsAreReal'
  BY <1>1 DEF EndsAreTold, CancellationsAreReal, Asking
<1>8. ASSUME NEW c \in Clicks
      PROVE  /\ click'[c].at \in {"asked", "recorded", "ok"} => click'[c].plan \in accepted'
             /\ click'[c].at = "read" => click'[c].plan # None
             /\ click'[c].at \in InFlight => Newest = click'[c].plan \/ Newest \in moved
  BY <1>1 DEF EndsAreTold, Asking, InFlight
<1>10. EndsAreTold'
  BY <1>1, <1>6, <1>7, <1>8 DEF EndsAreTold
<1>11. QED
  BY <1>2, <1>4, <1>5, <1>10 DEF SubscriberInv

\* While the requests stand still, what is said of them is known.
LEMMA NotAsking ==
  ASSUME SubscriberInv, UNCHANGED click PROVE Asking
  BY SubscriberFields DEF SubscriberInv, Asking

\* A checkout session is opened.
LEMMA SessionStep ==
  ASSUME SubscriberInv, NEW p \in Plans, OpenSession(p)
  PROVE  SubscriberInv'
<1>1. /\ session \in [Plans -> Plans \union {None}] /\ blind \subseteq Plans
      /\ customer \in Plans \union {None} /\ session[p] = None
  BY SubscriberFields DEF SubscriberInv, OpenSession
<1>2. CASE customer = None
  <2>1. session' = [session EXCEPT ![p] = p] /\ blind' = blind \union {p}
    BY <1>2 DEF OpenSession
  <2>2. session'[p] = p /\ \A q \in Plans \ {p} : session'[q] = session[q]
    BY <1>1, <2>1
  <2>3. \A q \in Plans : /\ session[q] # None => session'[q] = session[q]
                         /\ session'[q] # None => session'[q] \in blind'
    BY <1>1, <2>1, <2>2 DEF SubscriberInv, CustomersAreKnown
  <2>4. session' \in [Plans -> Plans \union {None}] /\ blind' \subseteq Plans
    BY <1>1, <2>1
  <2>5. \A q \in Plans : contract[q].status # None => session'[q] # None
    BY <2>3 DEF SubscriberInv, CustomersAreKnown
  <2>6. \A q \in Plans : contract[q].scheduled => q \in accepted
    BY DEF SubscriberInv, EndsAreTold
  <2>7. SubscriberTypeOK /\ contract \in [Plans -> Contract]
    BY DEF SubscriberInv, SubscriberTyped
  <2>8. QED
    BY <2>1, <2>3, <2>4, <2>5, <2>6, <2>7, NotAsking, OutsideKept
       DEF OpenSession, SubscriberTypeOK, requested
<1>3. CASE customer # None
  <2>1. session' = [session EXCEPT ![p] = customer] /\ blind' = blind
    BY <1>3 DEF OpenSession
  <2>2. session'[p] = customer /\ \A q \in Plans \ {p} : session'[q] = session[q]
    BY <1>1, <2>1
  <2>3. \A q \in Plans : /\ session[q] # None => session'[q] = session[q]
                         /\ session'[q] # None => session'[q] \in blind'
    BY <1>1, <2>1, <2>2 DEF SubscriberInv, CustomersAreKnown
  <2>4. session' \in [Plans -> Plans \union {None}] /\ blind' \subseteq Plans
    BY <1>1, <2>1
  <2>5. \A q \in Plans : contract[q].status # None => session'[q] # None
    BY <2>3 DEF SubscriberInv, CustomersAreKnown
  <2>6. \A q \in Plans : contract[q].scheduled => q \in accepted
    BY DEF SubscriberInv, EndsAreTold
  <2>7. SubscriberTypeOK /\ contract \in [Plans -> Contract]
    BY DEF SubscriberInv, SubscriberTyped
  <2>8. QED
    BY <2>1, <2>3, <2>4, <2>5, <2>6, <2>7, NotAsking, OutsideKept
       DEF OpenSession, SubscriberTypeOK, requested
<1>4. QED
  BY <1>2, <1>3

\* A contract changes, and the event about it is sent.
LEMMA ContractKept ==
  ASSUME SubscriberInv, NEW p \in Plans, NEW c \in Contract, NEW new \in SUBSET Notice,
         c.status # None, session[p] # None, c.scheduled => p \in accepted',
         \A n \in new : n.plan = p /\ (n.flag => c.scheduled),
         contract' = [contract EXCEPT ![p] = c], sent' = sent \union new,
         accepted' \in {accepted, accepted \union {p}}, turns' \in 0..MaxTurns, Asking,
         UNCHANGED <<session, blind, rows, trail, moved, customer>>
  PROVE  SubscriberInv'
<1>1. /\ session \in [Plans -> Plans \union {None}] /\ contract \in [Plans -> Contract]
      /\ blind \subseteq Plans /\ accepted \subseteq Plans /\ sent \subseteq Notice
  BY SubscriberFields DEF SubscriberInv
<1>2. contract'[p] = c /\ \A q \in Plans \ {p} : contract'[q] = contract[q]
  BY <1>1
<1>3. contract' \in [Plans -> Contract] /\ sent' \subseteq Notice /\ accepted' \subseteq Plans
      /\ accepted \subseteq accepted'
  BY <1>1
<1>4. ASSUME NEW q \in Plans
      PROVE  /\ contract'[q].scheduled => q \in accepted'
             /\ contract'[q].status # None => session'[q] # None
             /\ session'[q] # None => session'[q] \in blind'
  <2>1. /\ contract[q].scheduled => q \in accepted
        /\ contract[q].status # None => session[q] # None
        /\ session[q] # None => session[q] \in blind
    BY DEF SubscriberInv, EndsAreTold, CustomersAreKnown
  <2>2. QED
    BY <1>2, <1>3, <2>1
<1>5. \A n \in sent' : n \in sent \/ ((n.flag => n.plan \in accepted') /\ session'[n.plan] # None)
  OBVIOUS
<1>6. QED
  BY <1>1, <1>3, <1>4, <1>5, OutsideKept

\* The provider starts, schedules to end, ends or renews a contract.
LEMMA ProviderMovesStep ==
  ASSUME SubscriberInv, NEW p \in Plans, ProviderMoves(p)
  PROVE  SubscriberInv'
<1>1. /\ contract[p] \in Contract /\ turns \in 0..MaxTurns /\ MaxTurns \in Nat
      /\ contract[p].status # None => session[p] # None
      /\ contract[p].scheduled => p \in accepted
      /\ contract[p].scheduled \in BOOLEAN
      /\ "active" # None
  BY SubscriberFields, SubscriberAssumption
     DEF SubscriberInv, CustomersAreKnown, EndsAreTold, Contract, None
<1>2. CASE Subscribe(p)
  <2> DEFINE c == [status |-> "active", scheduled |-> FALSE]
             new == {NoticeOf(p, c), [NoticeOf(p, c) EXCEPT !.checkout = TRUE]}
  <2>1. c \in Contract /\ c.status # None /\ c.scheduled = FALSE
    BY <1>1 DEF Contract
  <2>2. new \in SUBSET Notice /\ \A n \in new : n.plan = p /\ n.flag = FALSE
    <3> DEFINE one == NoticeOf(p, c)
               two == [one EXCEPT !.checkout = TRUE]
    <3>1. one \in Notice /\ one.plan = p /\ one.flag = FALSE
      BY DEF NoticeOf, Notice
    <3> HIDE DEF one
    <3>2. two \in Notice /\ two.plan = p /\ two.flag = FALSE
      BY <3>1 DEF Notice
    <3>3. new = {one, two}
      BY DEF one
    <3> HIDE DEF two, new
    <3>4. QED
      BY <3>1, <3>2, <3>3
  <2>3. /\ contract' = [contract EXCEPT ![p] = c] /\ sent' = sent \union new
        /\ session[p] # None
        /\ UNCHANGED <<session, blind, accepted, rows, customer, requested, moved, turns>>
    BY <1>2 DEF Subscribe
  <2> HIDE DEF c, new
  <2>4. QED
    BY <1>1, <2>1, <2>2, <2>3, NotAsking, ContractKept DEF requested
<1>3. ASSUME NEW c \in Contract, c.status \in {"active", "canceled"}, Becomes(p, c),
             c.scheduled => p \in accepted', contract[p].status = "active",
             accepted' \in {accepted, accepted \union {p}}, turns' \in 0..MaxTurns,
             UNCHANGED <<session, blind, rows, requested, moved, customer>>
      PROVE  SubscriberInv'
  <2>1. {NoticeOf(p, c)} \in SUBSET Notice
    BY <1>3 DEF NoticeOf, Notice, Contract
  <2>2. \A n \in {NoticeOf(p, c)} : n.plan = p /\ (n.flag => c.scheduled)
    BY DEF NoticeOf
  <2>3. contract' = [contract EXCEPT ![p] = c] /\ sent' = sent \union {NoticeOf(p, c)}
    BY <1>3 DEF Becomes
  <2>4. c.status # None /\ session[p] # None
    BY <1>1, <1>3 DEF None
  <2>5. QED
    BY <1>3, <2>1, <2>2, <2>3, <2>4, NotAsking, ContractKept DEF requested
<1>4. ASSUME NEW flag \in BOOLEAN, UsePortal(p, flag) PROVE SubscriberInv'
  <2> DEFINE c == [contract[p] EXCEPT !.scheduled = flag]
  <2>1. c \in Contract /\ c.status = "active" /\ c.scheduled = flag
    BY <1>1, <1>4 DEF UsePortal, Contract
  <2>2. Becomes(p, c) /\ contract[p].status = "active"
        /\ accepted' = (IF flag THEN accepted \union {p} ELSE accepted)
        /\ UNCHANGED <<session, blind, rows, customer, requested, moved>>
    BY <1>4 DEF UsePortal
  <2>3. turns' \in 0..MaxTurns
    BY <1>1, <1>4 DEF UsePortal
  <2> HIDE DEF c
  <2>4. QED
    BY <1>3, <2>1, <2>2, <2>3
<1>5. CASE End(p)
  <2> DEFINE c == [contract[p] EXCEPT !.status = "canceled"]
  <2>1. c \in Contract /\ c.status = "canceled" /\ (c.scheduled => p \in accepted)
    BY <1>1, <1>5 DEF End, Contract
  <2>2. Becomes(p, c) /\ contract[p].status = "active"
        /\ UNCHANGED <<session, blind, accepted, rows, customer, requested, moved, turns>>
    BY <1>5 DEF End
  <2> HIDE DEF c
  <2>3. QED
    BY <1>1, <1>3, <2>1, <2>2
<1>6. QED
  BY <1>2, <1>4, <1>5 DEF ProviderMoves

\* What a notice makes of the table.
LEMMA UpsertRows ==
  ASSUME SubscriberInv, NEW n \in sent, rows' = UpsertRow(n)
  PROVE  /\ rows' \in Seq(PlanRow) /\ RowAfter(n).plan = n.plan
         /\ RowAfter(n).customer = session[n.plan]
         /\ RowAfter(n).flag => n.flag
         /\ \A i \in DOMAIN rows' : rows'[i] = RowAfter(n) \/ (i \in DOMAIN rows /\ rows'[i] = rows[i])
         /\ \A i, j \in DOMAIN rows' : rows'[i].plan = rows'[j].plan => i = j
<1>1. /\ rows \in Seq(PlanRow) /\ Len(rows) \in Nat /\ DOMAIN rows = 1..Len(rows)
      /\ \A i \in DOMAIN rows : rows[i] \in PlanRow
      /\ \A i, j \in DOMAIN rows : rows[i].plan = rows[j].plan => i = j
      /\ n \in Notice
  BY SubscriberFields DEF SubscriberInv, RowsAreOwned
<1>2. session[n.plan] \in Plans
  BY <1>1, SubscriberFields DEF SubscriberInv, CustomersAreKnown, Notice
<1>3. /\ RowAfter(n) \in PlanRow /\ RowAfter(n).plan = n.plan
      /\ RowAfter(n).customer = session[n.plan] /\ (RowAfter(n).flag => n.flag)
  BY <1>1, <1>2 DEF RowAfter, PlanRow, Notice
<1>4. CASE \E i \in DOMAIN rows : rows[i].plan = n.plan
  <2>1. rows' = [i \in 1..Len(rows) |-> IF rows[i].plan = n.plan THEN RowAfter(n) ELSE rows[i]]
    BY <1>1, <1>4 DEF UpsertRow
  <2>2. rows' \in [1..Len(rows) -> PlanRow]
    BY <1>1, <1>3, <2>1
  <2>3. rows' \in Seq(PlanRow)
    BY <1>1, <2>2
  <2>4. DOMAIN rows' = DOMAIN rows /\ \A i \in DOMAIN rows : rows'[i].plan = rows[i].plan
    BY <1>1, <1>3, <2>1
  <2>5. QED
    BY <1>1, <1>3, <2>1, <2>3, <2>4
<1>5. CASE ~\E i \in DOMAIN rows : rows[i].plan = n.plan
  <2> DEFINE added == RowAfter(n)
  <2>1. rows' = Append(rows, added)
    BY <1>5 DEF UpsertRow
  <2> HIDE DEF added
  <2>2. /\ rows' \in Seq(PlanRow) /\ DOMAIN rows' = 1..(Len(rows) + 1)
        /\ rows'[Len(rows) + 1] = added
        /\ \A i \in 1..Len(rows) : rows'[i] = rows[i]
    BY <1>1, <1>3, <2>1, AppendProperties, LenProperties DEF added
  <2>3. \A i \in DOMAIN rows' : i = Len(rows) + 1 \/ i \in DOMAIN rows
    BY <1>1, <2>2
  <2>4. \A i, j \in DOMAIN rows' : rows'[i].plan = rows'[j].plan => i = j
    BY <1>1, <1>3, <1>5, <2>2, <2>3 DEF added
  <2>5. QED
    BY <1>1, <1>3, <2>2, <2>3, <2>4 DEF added
<1>6. QED
  BY <1>4, <1>5

\* An event reaches its row.
LEMMA NoticeStep ==
  ASSUME SubscriberInv, NEW n \in sent, DeliverNotice(n)
  PROVE  SubscriberInv'
<1>1. SubscriberTyped /\ RowsAreOwned /\ CustomersAreKnown /\ EndsAreTold
  BY DEF SubscriberInv
<1>2. /\ rows' = UpsertRow(n)
      /\ UNCHANGED <<session, blind, contract, accepted, sent, turns, click, trail>>
      /\ customer' \in {customer, session[n.plan]}
      /\ moved' \in {moved, moved \union {Newest'}}
      /\ (\E c \in Clicks : click[c].at \in InFlight) => moved' = moved \union {Newest'}
  BY DEF DeliverNotice, outside, requested, Newest
<1>3. /\ rows' \in Seq(PlanRow) /\ RowAfter(n).plan = n.plan
      /\ RowAfter(n).customer = session[n.plan]
      /\ RowAfter(n).flag => n.flag
      /\ \A i \in DOMAIN rows' : rows'[i] = RowAfter(n) \/ (i \in DOMAIN rows /\ rows'[i] = rows[i])
      /\ \A i, j \in DOMAIN rows' : rows'[i].plan = rows'[j].plan => i = j
  BY <1>2, UpsertRows
<1>4. n \in Notice /\ session[n.plan] # None /\ session[n.plan] \in Plans
      /\ session[n.plan] \in blind
  BY <1>1, SubscriberFields DEF CustomersAreKnown, Notice
<1>5. SubscriberTyped'
  BY <1>1, <1>2, <1>3, <1>4 DEF SubscriberTyped, SubscriberTypeOK
<1>6. RowsAreOwned'
  BY <1>1, <1>2, <1>3, <1>4 DEF RowsAreOwned
<1>7. CustomersAreKnown'
  BY <1>1, <1>2, <1>4 DEF CustomersAreKnown
<1>8. \A i \in DOMAIN rows' : rows'[i].flag => rows'[i].plan \in accepted \union moved
  BY <1>1, <1>3 DEF EndsAreTold
<1>9. EndsAreTold'
  BY <1>1, <1>2, <1>8 DEF EndsAreTold, CancellationsAreReal
<1>10. QED
  BY <1>5, <1>6, <1>7, <1>9 DEF SubscriberInv

(***************************************************************************)
(* A cancel request.                                                       *)
(***************************************************************************)
\* One request takes a step.
LEMMA RequestTurns ==
  ASSUME SubscriberTyped, NEW c \in Clicks, NEW from, NEW to \in Steps, Turn(c, from, to)
  PROVE  /\ click' \in [Clicks -> [at : Steps, plan : Plans \union {None}]]
         /\ click[c].at = from /\ click'[c].at = to /\ click'[c].plan = click[c].plan
         /\ \A d \in Clicks \ {c} : click'[d] = click[d]
<1>1. click \in [Clicks -> [at : Steps, plan : Plans \union {None}]]
  BY SubscriberFields
<1>2. QED
  BY <1>1 DEF Turn

\* A cancel request reads the newest row.
LEMMA ReadStep ==
  ASSUME SubscriberInv, NEW c \in Clicks, ReadNewest(c)
  PROVE  SubscriberInv'
<1>1. SubscriberTyped /\ SubscriberTypeOK /\ RowsAreOwned /\ CustomersAreKnown /\ EndsAreTold
  BY DEF SubscriberInv, SubscriberTyped
<1>2. /\ click \in [Clicks -> [at : Steps, plan : Plans \union {None}]]
      /\ Newest \in Plans \union {None}
  BY <1>1, SubscriberFields, NewestTyped
<1> DEFINE at == IF Newest = None THEN "missing" ELSE IF FlagOf(Newest) THEN "already" ELSE "read"
<1>3. click' = [click EXCEPT ![c] = [plan |-> Newest, at |-> at]] /\ at \in Steps
      /\ UNCHANGED <<session, blind, contract, accepted, sent, turns, rows, customer, trail, moved>>
  BY DEF ReadNewest, outside, Steps
<1>4. at \in {"missing", "already", "read"} /\ (at = "read" => Newest # None)
      /\ (at = "already" => Newest \in accepted \union moved)
  BY <1>1 DEF FlagOf, EndsAreTold
<1>5. Newest' = Newest
  BY <1>3 DEF Newest, NewestOf, Cancellable
<1> HIDE DEF at
<1>6. click' \in [Clicks -> [at : Steps, plan : Plans \union {None}]]
      /\ click'[c].plan = Newest /\ click'[c].at = at
      /\ \A d \in Clicks \ {c} : click'[d] = click[d]
  BY <1>2, <1>3
<1>7. SubscriberTyped'
  BY <1>1, <1>3, <1>6 DEF SubscriberTyped, SubscriberTypeOK
<1>8. RowsAreOwned' /\ CustomersAreKnown'
  BY <1>1, <1>3 DEF RowsAreOwned, CustomersAreKnown
<1>9. ASSUME NEW d \in Clicks
      PROVE  /\ click'[d].at \in {"asked", "recorded", "ok"} => click'[d].plan \in accepted
             /\ click'[d].at = "read" => click'[d].plan # None
             /\ click'[d].at \in InFlight => Newest = click'[d].plan \/ Newest \in moved
             /\ click'[d].at \in {"ok", "already"} => click'[d].plan \in accepted \union moved
  BY <1>1, <1>4, <1>6 DEF EndsAreTold, CancellationsAreReal
<1>10. EndsAreTold'
  BY <1>1, <1>3, <1>5, <1>9 DEF EndsAreTold, CancellationsAreReal
<1>11. QED
  BY <1>7, <1>8, <1>10 DEF SubscriberInv

\* It asks the provider, or is refused.
LEMMA AskStep ==
  ASSUME SubscriberInv, NEW c \in Clicks, Ask(c) \/ Refuse(c)
  PROVE  SubscriberInv'
<1> DEFINE p == click[c].plan
<1>1. SubscriberTyped /\ CustomersAreKnown /\ EndsAreTold
  BY DEF SubscriberInv
<1>2. CASE Ask(c)
  <2> DEFINE k == [contract[p] EXCEPT !.scheduled = TRUE]
  <2>1. PICK to \in {"asked", "failed"} : Turn(c, "read", to)
    BY <1>2 DEF Ask
  <2>2. /\ contract[p].status = "active" /\ accepted' = accepted \union {p} /\ Becomes(p, k)
        /\ UNCHANGED <<session, blind, rows, customer, trail, moved, turns>>
    BY <1>2 DEF Ask
  <2>3. p \in Plans
    <3>1. p \in Plans \union {None} /\ click[c].at = "read"
      BY <1>1, <1>2, SubscriberFields DEF Ask
    <3>2. QED
      BY <1>1, <3>1 DEF EndsAreTold
  <2>4. Asking
    <3>1. to \in Steps
      BY DEF Steps
    <3>2. QED
      BY <1>1, <2>1, <2>2, <3>1, RequestTurns DEF Asking
  <2>5. contract[p] \in Contract /\ session[p] # None /\ turns \in 0..MaxTurns
    BY <1>1, <2>2, <2>3, SubscriberFields DEF CustomersAreKnown, None
  <2>6. k \in Contract /\ k.status = "active" /\ k.scheduled
    BY <2>2, <2>5 DEF Contract
  <2> HIDE DEF p, k
  <2>7. NoticeOf(p, k) \in Notice /\ NoticeOf(p, k).plan = p
    BY <2>3, <2>6 DEF NoticeOf, Notice
  <2>8. {NoticeOf(p, k)} \in SUBSET Notice
        /\ \A n \in {NoticeOf(p, k)} : n.plan = p /\ (n.flag => k.scheduled)
    BY <2>6, <2>7
  <2>9. contract' = [contract EXCEPT ![p] = k] /\ sent' = sent \union {NoticeOf(p, k)}
    BY <2>2 DEF Becomes
  <2>10. k.status # None /\ p \in accepted' /\ accepted' \in {accepted, accepted \union {p}}
    BY <2>2, <2>6 DEF None
  <2>11. QED
    BY <2>2, <2>3, <2>4, <2>5, <2>6, <2>8, <2>9, <2>10, ContractKept
<1>3. CASE Refuse(c)
  <2>1. Turn(c, "read", "failed") /\ UNCHANGED <<outside, rows, customer, trail, moved>>
    BY <1>3 DEF Refuse
  <2>2. Asking
    BY <1>1, <2>1, RequestTurns DEF Asking, Steps
  <2>3. /\ \A q \in Plans : session[q] # None => session[q] \in blind
        /\ \A q \in Plans : contract[q].scheduled => q \in accepted
        /\ \A q \in Plans : contract[q].status # None => session[q] # None
    BY <1>1 DEF CustomersAreKnown, EndsAreTold
  <2>4. QED
    BY <1>1, <2>1, <2>2, <2>3, SubscriberFields, OutsideKept DEF outside
<1>4. QED
  BY <1>2, <1>3

\* It records the flag, and the audit entry.
LEMMA RecordStep ==
  ASSUME SubscriberInv, NEW c \in Clicks, Record(c) \/ Audit(c)
  PROVE  SubscriberInv'
<1>1. SubscriberTyped /\ SubscriberTypeOK /\ RowsAreOwned /\ CustomersAreKnown /\ EndsAreTold
  BY DEF SubscriberInv, SubscriberTyped
<1>2. CASE Record(c)
  <2>1. /\ click' \in [Clicks -> [at : Steps, plan : Plans \union {None}]]
        /\ click[c].at = "asked" /\ click'[c].at = "recorded" /\ click'[c].plan = click[c].plan
        /\ \A d \in Clicks \ {c} : click'[d] = click[d]
    BY <1>1, <1>2, RequestTurns DEF Record, Steps
  <2>2. /\ rows' = [i \in DOMAIN rows |->
                      IF rows[i].plan = Newest THEN [rows[i] EXCEPT !.flag = TRUE] ELSE rows[i]]
        /\ UNCHANGED <<session, blind, contract, accepted, sent, turns, customer, trail, moved>>
    BY <1>2 DEF Record, FlagNewest, outside
  <2>3. /\ rows \in Seq(PlanRow) /\ Len(rows) \in Nat /\ DOMAIN rows = 1..Len(rows)
        /\ \A i \in DOMAIN rows : rows[i] \in PlanRow
    BY <1>1, SubscriberFields
  <2>4. DOMAIN rows' = DOMAIN rows
        /\ \A i \in DOMAIN rows :
              /\ rows'[i] \in PlanRow
              /\ rows'[i].plan = rows[i].plan /\ rows'[i].status = rows[i].status
              /\ rows'[i].customer = rows[i].customer
              /\ rows'[i].flag => rows[i].flag \/ rows[i].plan = Newest
    BY <2>2, <2>3 DEF PlanRow
  <2>5. rows' \in Seq(PlanRow)
    <3>1. rows' \in [1..Len(rows) -> PlanRow]
      BY <2>2, <2>3, <2>4
    <3>2. QED
      BY <2>3, <3>1
  <2>6. Newest' = Newest
    BY <1>1, <2>4, NewestKept
  <2>7. Newest \in accepted \union moved
    BY <1>1, <2>1 DEF EndsAreTold, InFlight
  <2>8. SubscriberTyped'
    BY <1>1, <2>1, <2>2, <2>5 DEF SubscriberTyped, SubscriberTypeOK
  <2>9. RowsAreOwned' /\ CustomersAreKnown'
    BY <1>1, <2>2, <2>4 DEF RowsAreOwned, CustomersAreKnown
  <2>10. \A i \in DOMAIN rows' : rows'[i].flag => rows'[i].plan \in accepted \union moved
    BY <1>1, <2>4, <2>7 DEF EndsAreTold
  <2>11. ASSUME NEW d \in Clicks
         PROVE  /\ click'[d].at \in {"asked", "recorded", "ok"} => click'[d].plan \in accepted
                /\ click'[d].at = "read" => click'[d].plan # None
                /\ click'[d].at \in InFlight => Newest = click'[d].plan \/ Newest \in moved
                /\ click'[d].at \in {"ok", "already"} => click'[d].plan \in accepted \union moved
    BY <1>1, <2>1 DEF EndsAreTold, CancellationsAreReal, InFlight
  <2>12. EndsAreTold'
    BY <1>1, <2>2, <2>6, <2>10, <2>11 DEF EndsAreTold, CancellationsAreReal
  <2>13. QED
    BY <2>8, <2>9, <2>12 DEF SubscriberInv
<1>3. CASE Audit(c)
  <2>1. /\ click' \in [Clicks -> [at : Steps, plan : Plans \union {None}]]
        /\ click[c].at = "recorded" /\ click'[c].at = "ok" /\ click'[c].plan = click[c].plan
        /\ \A d \in Clicks \ {c} : click'[d] = click[d]
    BY <1>1, <1>3, RequestTurns DEF Audit, Steps
  <2>2. /\ trail' = trail \union {click[c].plan}
        /\ UNCHANGED <<session, blind, contract, accepted, sent, turns, rows, customer, moved>>
    BY <1>3 DEF Audit, outside
  <2>3. click[c].plan \in accepted /\ accepted \subseteq Plans
    BY <1>1, <2>1, SubscriberFields DEF EndsAreTold
  <2>4. Newest' = Newest
    BY <2>2 DEF Newest, NewestOf, Cancellable
  <2>5. SubscriberTyped'
    BY <1>1, <2>1, <2>2, <2>3 DEF SubscriberTyped, SubscriberTypeOK
  <2>6. RowsAreOwned' /\ CustomersAreKnown'
    BY <1>1, <2>2 DEF RowsAreOwned, CustomersAreKnown
  <2>7. ASSUME NEW d \in Clicks
        PROVE  /\ click'[d].at \in {"asked", "recorded", "ok"} => click'[d].plan \in accepted
               /\ click'[d].at = "read" => click'[d].plan # None
               /\ click'[d].at \in InFlight => Newest = click'[d].plan \/ Newest \in moved
               /\ click'[d].at \in {"ok", "already"} => click'[d].plan \in accepted \union moved
    BY <1>1, <2>1, <2>3 DEF EndsAreTold, CancellationsAreReal, InFlight
  <2>8. trail' \subseteq accepted
    BY <1>1, <2>2, <2>3 DEF EndsAreTold, CancellationsAreReal
  <2>9. EndsAreTold'
    BY <1>1, <2>2, <2>4, <2>7, <2>8 DEF EndsAreTold, CancellationsAreReal
  <2>10. QED
    BY <2>5, <2>6, <2>9 DEF SubscriberInv
<1>4. QED
  BY <1>2, <1>3

(***************************************************************************)
(* The invariant.                                                          *)
(***************************************************************************)
\* The invariant holds at the start.
LEMMA SubscriberStarts == SubscriberInit => SubscriberInv
<1> SUFFICES ASSUME SubscriberInit PROVE SubscriberInv
  OBVIOUS
<1> USE DEF SubscriberInit
<1>1. rows \in Seq(PlanRow) /\ DOMAIN rows = {}
  OBVIOUS
<1>2. SubscriberTyped
  <2>1. turns \in 0..MaxTurns
    BY SubscriberAssumption
  <2>2. QED
    BY <1>1, <2>1 DEF SubscriberTyped, SubscriberTypeOK, Contract, Steps
<1>3. RowsAreOwned /\ CustomersAreKnown
  BY <1>1 DEF RowsAreOwned, CustomersAreKnown
<1>4. EndsAreTold
  BY <1>1 DEF EndsAreTold, CancellationsAreReal, InFlight
<1>5. QED
  BY <1>2, <1>3, <1>4 DEF SubscriberInv

\* Every step keeps it.
LEMMA SubscriberSteps == SubscriberInv /\ [SubscriberNext]_subscriber => SubscriberInv'
<1> SUFFICES ASSUME SubscriberInv, [SubscriberNext]_subscriber PROVE SubscriberInv'
  OBVIOUS
<1>1. CASE UNCHANGED subscriber
  <2>1. UNCHANGED <<session, blind, contract, accepted, sent, turns, rows, customer, click,
                    trail, moved>>
    BY <1>1 DEF subscriber, outside, requested
  <2>2. Newest' = Newest
    BY <2>1 DEF Newest, NewestOf, Cancellable
  <2>3. QED
    BY <2>1, <2>2
       DEF SubscriberInv, SubscriberTyped, SubscriberTypeOK, RowsAreOwned, CustomersAreKnown,
           EndsAreTold, CancellationsAreReal
<1>2. ASSUME NEW p \in Plans, OpenSession(p) \/ ProviderMoves(p) PROVE SubscriberInv'
  BY <1>2, SessionStep, ProviderMovesStep
<1>3. ASSUME NEW n \in sent, DeliverNotice(n) PROVE SubscriberInv'
  BY <1>3, NoticeStep
<1>4. ASSUME NEW c \in Clicks, Cancelling(c) PROVE SubscriberInv'
  BY <1>4, ReadStep, AskStep, RecordStep DEF Cancelling
<1>5. QED
  BY <1>1, <1>2, <1>3, <1>4 DEF SubscriberNext

\* Who is told that a subscription will end, or finds its end audited, has had
\* the provider accept it, unless the plan became the newest during a request.
THEOREM CancellationsHold == SubscriberSpec => []CancellationsAreReal
<1>1. SubscriberInv => CancellationsAreReal
  BY DEF SubscriberInv, EndsAreTold
<1>2. QED
  BY <1>1, SubscriberStarts, SubscriberSteps, PTL DEF SubscriberSpec

\* The status page, the plan page, the cancel request and the portal are about
\* the same subscription and customer, in whatever order the events arrive.
THEOREM PagesHold == SubscriberSpec => []PagesAgree
<1>1. SubscriberInv => PagesAgree
  <2> SUFFICES ASSUME SubscriberInv PROVE PagesAgree
    OBVIOUS
  <2>1. SubscriberTypeOK /\ RowsAreOwned /\ CustomersAreKnown
    BY DEF SubscriberInv, SubscriberTyped
  <2>2. rows = << >> => Newest = None
    BY DEF Newest, NewestOf, Cancellable
  <2>3. /\ Newest # None => Shown = Newest
        /\ rows # << >> /\ Listed # Shown => Newest \notin {None, Listed}
    BY <2>2 DEF Shown, Listed
  <2>4. ASSUME customer # None, \A p, q \in blind : p = q, NEW i \in DOMAIN rows
        PROVE  rows[i].customer = Portal
    <3>1. rows[i].plan \in Plans
      BY SubscriberFields DEF SubscriberInv
    <3>2. rows[i].customer \in blind /\ customer \in blind
      BY <2>1, <2>4, <3>1 DEF RowsAreOwned, CustomersAreKnown
    <3>3. QED
      BY <2>4, <3>2 DEF Portal
  <2>5. QED
    BY <2>1, <2>3, <2>4 DEF PagesAgree, RowsAreOwned
<1>2. QED
  BY <1>1, SubscriberStarts, SubscriberSteps, PTL DEF SubscriberSpec
==============================================================================
