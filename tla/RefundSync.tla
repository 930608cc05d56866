---------------------------- MODULE RefundSync ----------------------------
(***************************************************************************)
(* How refund events reach the refunds and payment_orders tables           *)
(* (_on_refund_event and _recompute_order_refund_status in                 *)
(* backend/app/billing/store.py).                                          *)
(*                                                                         *)
(* One subscription charge is refunded in parts of one unit each.  The     *)
(* provider sends an event when a refund is created and whenever its       *)
(* status changes; handlers apply them in concurrent READ COMMITTED        *)
(* transactions, so an action is a statement: what it reads is what was    *)
(* committed when it started, and it waits for the rows other open         *)
(* transactions have written.                                              *)
(***************************************************************************)
EXTENDS Naturals, SequencesExt, FiniteSets

CONSTANTS Refunds,   \* provider refund ids
          Handlers,  \* webhook deliveries processed concurrently
          Amount,    \* units of the charge
          MaxPending \* bound on the events that wait for delivery

ASSUME RefundAssumption ==
    /\ IsFiniteSet(Refunds)
    /\ Amount \in Nat \ {0}
    /\ MaxPending \in Nat

VARIABLES
    provider,  \* the provider's status of a refund
    everPaid,  \* refunds that have ever succeeded
    unhandled, \* events that were sent and not handled yet
    unswapped, \* no event has overtaken another
    serial,    \* no two events were ever handled at the same time
    row,       \* public.refunds.status
    order,     \* payment_orders.status of the charge
    entitled,  \* the subscription and tier the charge paid for
    pc,        \* where a handler is
    ev,        \* the event it handles
    wrote,     \* whether its transaction has written the refund's row
    total,     \* the sum its recompute statement has read
    mark       \* the order status it has written

provided == <<provider, everPaid>>
stored   == <<row, order, entitled>>
local    == <<ev, wrote, total, mark>>
syncVars == <<provided, unhandled, unswapped, serial, stored, pc, local>>

RefundStatuses == {"pending", "succeeded", "failed"}
Notices  == [refund : Refunds, status : RefundStatuses]
Marks    == {"partially_refunded", "refunded"}

\* Handlers whose transaction may hold the row of its refund, or the order's.
Writing == {"summing", "locking", "committing"}

SyncInit ==
    /\ provider = [r \in Refunds |-> "none"]
    /\ everPaid = {}
    /\ unhandled = << >>
    /\ unswapped = TRUE
    /\ serial = TRUE
    /\ row = [r \in Refunds |-> "none"]
    /\ order = "paid"
    /\ entitled = TRUE
    /\ pc = [h \in Handlers |-> "idle"]
    /\ ev = [h \in Handlers |-> << >>]
    /\ wrote = [h \in Handlers |-> FALSE]
    /\ total = [h \in Handlers |-> 0]
    /\ mark = [h \in Handlers |-> "none"]

(***************************************************************************)
(* The provider.                                                           *)
(***************************************************************************)
Turned(r, from, to) ==
    /\ provider[r] \in from
    /\ Len(unhandled) < MaxPending
    /\ provider' = [provider EXCEPT ![r] = to]
    /\ everPaid' = IF to = "succeeded" THEN everPaid \union {r} ELSE everPaid
    /\ unhandled' = Append(unhandled, [refund |-> r, status |-> to])
    /\ UNCHANGED <<unswapped, serial, stored, pc, local>>

\* It never refunds more than was charged.
Create(r) ==
    /\ Cardinality({q \in Refunds : provider[q] \in {"pending", "succeeded"}}) < Amount
    /\ Turned(r, {"none"}, "pending")

Succeed(r) == Turned(r, {"pending"}, "succeeded")

\* A bank may return a refund that had succeeded.
Fail(r) == Turned(r, {"pending", "succeeded"}, "failed")

(***************************************************************************)
(* The store.                                                              *)
(***************************************************************************)
HandlerTo(h, from, to) == pc[h] = from /\ pc' = [pc EXCEPT ![h] = to]

\* A handler starts on an event, which may be delivered again, and looks
\* for the refund's row.
Deliver(h, i) ==
    /\ HandlerTo(h, "idle", IF row[unhandled[i].refund] = "none" THEN "inserting" ELSE "updating")
    /\ ev' = [ev EXCEPT ![h] = unhandled[i]]
    /\ unhandled' \in {unhandled, RemoveAt(unhandled, i)}
    /\ unswapped' = (unswapped /\ i = 1)
    /\ serial' = (serial /\ \A g \in Handlers : pc[g] = "idle")
    /\ UNCHANGED <<provided, stored, wrote, total, mark>>

\* No other open transaction has written the refund's row.
RowFree(h) ==
    \A g \in Handlers \ {h} :
        pc[g] \in Writing /\ wrote[g] => ev[g].refund # ev[h].refund

\* Only a refund that succeeded goes on to the order.
AfterWrite(h) == IF ev[h].status = "succeeded" THEN "summing" ELSE "committing"

Update(h) ==
    /\ HandlerTo(h, "updating", AfterWrite(h))
    /\ RowFree(h)
    /\ wrote' = [wrote EXCEPT ![h] = TRUE]
    /\ UNCHANGED <<provided, unhandled, unswapped, serial, stored, ev, total, mark>>

\* insert .. on conflict (provider_refund_id) do nothing
Insert(h) ==
    /\ HandlerTo(h, "inserting", AfterWrite(h))
    /\ RowFree(h)
    /\ wrote' = [wrote EXCEPT ![h] = row[ev[h].refund] = "none"]
    /\ UNCHANGED <<provided, unhandled, unswapped, serial, stored, ev, total, mark>>

Visible(h, r) == IF wrote[h] /\ r = ev[h].refund THEN ev[h].status ELSE row[r]

\* Mutant: refunds that are not through yet are counted.
CountedAll(h) == {r \in Refunds : Visible(h, r) \in {"pending", "succeeded"}}

\* Mutant: the row this transaction has just written is not counted.
CountedBefore(h) == {r \in Refunds : row[r] = "succeeded"}

Counted(h) == {r \in Refunds : Visible(h, r) = "succeeded"}

\* _recompute_order_refund_status: the sum is read when the statement starts,
\* before it waits for the order's row, and is not read again after the wait.
Sum(h) ==
    /\ HandlerTo(h, "summing", "locking")
    /\ total' = [total EXCEPT ![h] = Cardinality(Counted(h))]
    /\ UNCHANGED <<provided, unhandled, unswapped, serial, stored, ev, wrote, mark>>

OrderFree(h) == \A g \in Handlers \ {h} : mark[g] = "none"

WriteOrder(h) ==
    /\ HandlerTo(h, "locking", "committing")
    /\ OrderFree(h)
    /\ mark' = [mark EXCEPT ![h] =
                  IF total[h] >= Amount THEN "refunded" ELSE "partially_refunded"]
    /\ UNCHANGED <<provided, unhandled, unswapped, serial, stored, ev, wrote, total>>

\* The transaction commits; a fully refunded order has revoked the
\* subscription and the tier in it.
Commit(h) ==
    /\ HandlerTo(h, "committing", "idle")
    /\ row' = IF wrote[h] THEN [row EXCEPT ![ev[h].refund] = ev[h].status] ELSE row
    /\ order' = IF mark[h] # "none" THEN mark[h] ELSE order
    /\ entitled' = (entitled /\ mark[h] # "refunded")
    /\ ev' = [ev EXCEPT ![h] = << >>]
    /\ wrote' = [wrote EXCEPT ![h] = FALSE]
    /\ total' = [total EXCEPT ![h] = 0]
    /\ mark' = [mark EXCEPT ![h] = "none"]
    /\ UNCHANGED <<provided, unhandled, unswapped, serial>>

Handle(h) == Update(h) \/ Insert(h) \/ Sum(h) \/ WriteOrder(h) \/ Commit(h)

SyncNext ==
    \/ \E r \in Refunds : Create(r) \/ Succeed(r) \/ Fail(r)
    \/ \E h \in Handlers : \E i \in 1..Len(unhandled) : Deliver(h, i)
    \/ \E h \in Handlers : Handle(h)

SyncSpec == SyncInit /\ [][SyncNext]_syncVars

(***************************************************************************)
(* Properties.                                                             *)
(***************************************************************************)
\* However events are ordered, repeated and interleaved, the entitlement is
\* revoked and the order marked refunded only when the refunds that ever
\* succeeded add up to the charge.
RevocationIsEarned ==
    order = "refunded" \/ ~entitled => Cardinality(everPaid) >= Amount

\* Nothing is being or still to be handled.
AtRest == unhandled = << >> /\ \A h \in Handlers : pc[h] = "idle"

Refunded == Cardinality({r \in Refunds : provider[r] = "succeeded"}) >= Amount

\* Handled one at a time and in order, the events leave every refund with
\* the provider's status, and a fully refunded charge has revoked what it
\* paid for.
SerialEventsConverge ==
    AtRest /\ unswapped /\ serial =>
        /\ \A r \in Refunds : row[r] = provider[r]
        /\ Refunded => order = "refunded" /\ ~entitled

\* Every variable stays within its type.
SyncTypeOK ==
    /\ unhandled \in Seq(Notices) /\ Len(unhandled) <= MaxPending
    /\ row \in [Refunds -> RefundStatuses \union {"none"}]
    /\ order \in Marks \union {"paid"}
    /\ total \in [Handlers -> 0..Cardinality(Refunds)]
    /\ mark \in [Handlers -> Marks \union {"none"}]

\* Neither interleavings nor late events make a refund look larger, and in
\* order they make it what it is.
RefundsAreTrue == SyncTypeOK /\ RevocationIsEarned /\ SerialEventsConverge

\* store.py: "downgrade the parent order to refunded / partially_refunded on
\* success"; the billing design: a successful refund revokes the entitlement.
RefundRevokes == AtRest /\ unswapped /\ Refunded => order = "refunded" /\ ~entitled
=============================================================================
