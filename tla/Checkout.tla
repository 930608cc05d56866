------------------------------- MODULE Checkout -------------------------------
(***************************************************************************)
(* A user buys a report and asks for the money back (create_checkout,      *)
(* request_refund and approve_refund in backend/app/billing/service.py,    *)
(* _on_checkout_completed and the refund rows in store.py), while finance  *)
(* edits the prices.                                                       *)
(*                                                                         *)
(* One report of one user; an order is the row of its session.  Refund     *)
(* events are applied whole here: their races are RefundSync's.            *)
(***************************************************************************)
EXTENDS PriceBook, FiniteSetsExt

CONSTANTS Sessions,  \* checkout attempts
          Clicks,    \* requests for a refund, and the ids of the rows they insert
          Refunds,   \* the provider's refunds
          EventRows, \* ids of the rows that events insert
          Cost     \* units of what a session costs: a refund may be of a part

\* Ids are not reused.
ASSUME CheckoutAssumption ==
    /\ Clicks \intersect EventRows = {} /\ "none" \notin Sessions \union Refunds
    /\ Cost \in Nat \ {0}

VARIABLES
    buy,       \* checkout attempts: [at, version]
    payment,   \* the provider's side of a session
    orders,    \* payment_orders: [status, version]
    click,     \* refund requests under way: [at, order]
    refunds,   \* rows of refunds: [order, status, provider, units]
    given,     \* the provider's refunds: [order, units, by, seen]
    approval   \* the approval under way: [at, row, refund]

refundVars   == <<click, refunds, given, approval>>
checkoutVars == <<buy, payment, orders, refundVars>>

NoOrder == [status |-> "none", version |-> 0]
\* Rows that approve_refund has not reached have no provider id.
NoRow   == [order |-> "none", status |-> "none", provider |-> "none", units |-> 0]
RowIds  == Clicks \union EventRows
\* "seen" are the statuses a refund has had so far; a failed one stays failed.
NoRefund   == [order |-> "none", units |-> 0, by |-> "none", seen |-> {}]
NoApproval == [at |-> "idle", row |-> "none", refund |-> "none"]

CheckoutInit ==
    /\ buy = [s \in Sessions |-> [at |-> "idle", version |-> 0]]
    /\ payment = [s \in Sessions |-> "none"]
    /\ orders = [s \in Sessions |-> NoOrder]
    /\ click = [c \in Clicks |-> [at |-> "idle", order |-> "none"]]
    /\ refunds = [r \in RowIds |-> NoRow]
    /\ given = [p \in Refunds |-> NoRefund]
    /\ approval = NoApproval

(***************************************************************************)
(* Checkout.                                                               *)
(***************************************************************************)
Attempt(s, from, to) == buy[s].at = from /\ buy' = [buy EXCEPT ![s].at = to]

\* A catalogue of the request's own; without a price the answer is 409.
ResolvePrice(s) ==
    /\ buy[s].at = "idle"
    /\ \E c \in Loadable :
          /\ c.price # NoPrice
          /\ buy' = [buy EXCEPT ![s] = [at |-> "priced", version |-> c.price.version]]
    /\ UNCHANGED <<payment, orders, refundVars>>

\* A report with too little data is not sold (409).
RefuseReport(s) == Attempt(s, "priced", "over") /\ UNCHANGED <<payment, orders, refundVars>>

\* The session exists; the answer may be lost on the way (503).
CreateSession(s) ==
    /\ \/ Attempt(s, "priced", "created")
       \/ Attempt(s, "priced", "over")
    /\ payment' = [payment EXCEPT ![s] = "open"]
    /\ UNCHANGED <<orders, refundVars>>

\* append_audit may fail, and the user is never sent to the session.
AuditCheckout(s) ==
    /\ Attempt(s, "created", "offered") \/ Attempt(s, "created", "over")
    /\ UNCHANGED <<payment, orders, refundVars>>

\* The user pays, pays by a delayed method, or ends the session in a way of
\* which no order is written: with a full promotion there is no amount, and an
\* insert in a currency that payment_orders does not admit (SGD) fails.
Pay(s) ==
    /\ buy[s].at = "offered" /\ payment[s] = "open"
    /\ \E how \in {"paid", "unpaid", "unrecorded"} : payment' = [payment EXCEPT ![s] = how]
    /\ UNCHANGED <<buy, orders, refundVars>>

\* Mutant: the event's status replaces the order's.
MovedOverwrite(status, s) == IF payment[s] = "paid" THEN "paid" ELSE "pending"

\* A completion moves only an order that is new or pending.
Moved(status, s) ==
    IF status \in {"none", "pending"}
    THEN IF payment[s] = "paid" THEN "paid" ELSE "pending"
    ELSE status

\* Mutant: the order takes the version that is current when the event comes.
VersionOfCurrent(s) == IF Current = NoPrice THEN 1 ELSE Current.version

\* The session's metadata carry the version the price was resolved at.
VersionOf(s) == buy[s].version

\* checkout.session.completed, as often as it comes.
Completed(s) ==
    /\ payment[s] \in {"paid", "unpaid"}
    /\ orders' = [orders EXCEPT ![s] =
                     [status |-> Moved(@.status, s),
                      version |-> IF @.status = "none" THEN VersionOf(s) ELSE @.version]]
    /\ UNCHANGED <<buy, payment, refundVars>>

(***************************************************************************)
(* Refunds.                                                                *)
(***************************************************************************)
\* get_refund_candidate: a paid order, within 48 hours.
AskRefund(c) ==
    /\ click[c].at = "idle"
    /\ \E s \in Sessions :
          /\ orders[s].status = "paid"
          /\ click' = [click EXCEPT ![c] = [at |-> "eligible", order |-> s]]
    /\ UNCHANGED <<buy, payment, orders, refunds, given, approval>>

RowsOf(s) == {r \in RowIds : refunds[r].order = s}

\* create_refund_request looks for a row of the order ...
LookForRow(c) ==
    /\ click[c].at = "eligible"
    /\ click' = [click EXCEPT ![c].at = IF RowsOf(click[c].order) = {} THEN "inserting" ELSE "over"]
    /\ UNCHANGED <<buy, payment, orders, refunds, given, approval>>

\* ... and inserts one, of the whole charge, if it has seen none.
InsertRow(c) ==
    /\ click[c].at = "inserting"
    /\ click' = [click EXCEPT ![c].at = "over"]
    /\ refunds' = [refunds EXCEPT ![c] =
          [order |-> click[c].order, status |-> "pending", provider |-> "none", units |-> Cost]]
    /\ UNCHANGED <<buy, payment, orders, given, approval>>

\* approve_refund reads the request: one that has succeeded is answered, any
\* other is tried, one that has failed too ...
Approve ==
    /\ approval.at = "idle"
    /\ \E r \in RowIds : /\ refunds[r].status \in {"pending", "failed"}
                        /\ approval' = [at |-> "read", row |-> r, refund |-> "none"]
    /\ UNCHANGED <<buy, payment, orders, click, refunds, given>>

UnitsIn(table, S) == MapThenSumSet(LAMBDA x : table[x].units, S)

\* What the provider has not refunded of a payment, nor is about to.
Left(s) == Cost - UnitsIn(given, {p \in Refunds : given[p].order = s /\ "failed" \notin given[p].seen})

\* The provider accepts a refund; nothing is settled yet.
Accepts(p, s, units, by) ==
    /\ given[p] = NoRefund /\ payment[s] = "paid"
    /\ given' = [given EXCEPT ![p] = [order |-> s, units |-> units, by |-> by, seen |-> {"pending"}]]

\* ... asks the provider for what is left of the payment; whatever fails, the
\* row stays as it is and the approval may be tried again ...
AskProvider ==
    /\ approval.at = "read"
    /\ LET s == refunds[approval.row].order
       IN  \/ \E p \in Refunds, units \in 1..Cost :
                 /\ units = Left(s) /\ Accepts(p, s, units, "approval")
                 /\ approval' \in {[approval EXCEPT !.at = "done", !.refund = p], NoApproval}
           \/ UNCHANGED given /\ approval' = NoApproval
    /\ UNCHANGED <<buy, payment, orders, click, refunds>>

\* Mutant: two rows may carry one id of the provider's.
TakenNever(r, p) == FALSE

\* refunds_provider_refund_id_unique
Taken(r, p) == \E q \in RowIds \ {r} : refunds[q].provider = p

\* Mutant: a refund that is still pending counts as paid back.
ReturnedPending(rows, s) == {r \in RowIds : rows[r].order = s /\ rows[r].status \in {"pending", "succeeded"}}

Returned(rows, s) == {r \in RowIds : rows[r].order = s /\ rows[r].status = "succeeded"}

\* What an order's rows say of it: _recompute_order_refund_status adds up
\* those that have succeeded.
RefundStatus(rows, s) ==
    IF UnitsIn(rows, Returned(rows, s)) >= Cost THEN "refunded" ELSE "partially_refunded"

Cleared == {"paid", "refunded", "partially_refunded"}

Recomputed(rows, s) ==
    IF orders[s].status \in Cleared
    THEN [orders EXCEPT ![s].status = RefundStatus(rows, s)] ELSE orders

\* ... and marks the row succeeded with the provider's id, whatever status
\* the provider has answered, unless an event has made a row of its own for it.
MarkSucceeded ==
    /\ approval.at = "done"
    /\ LET r == approval.row
           s == refunds[r].order
       IN  IF Taken(r, approval.refund)
           THEN UNCHANGED <<refunds, orders>>
           ELSE /\ refunds' = [refunds EXCEPT ![r].status = "succeeded", ![r].provider = approval.refund]
                /\ orders' = Recomputed(refunds', s)
    /\ approval' = NoApproval
    /\ UNCHANGED <<buy, payment, click, given>>

\* Finance refunds a payment, or a part of it, from the provider's console.
RefundAtProvider(p) ==
    /\ \E s \in Sessions, units \in 1..Cost :
          units <= Left(s) /\ Accepts(p, s, units, "console")
    /\ UNCHANGED <<buy, payment, orders, click, refunds, approval>>

\* The refund is paid out, or fails, also after it was paid out.
SettleRefund(p) ==
    /\ given[p] # NoRefund /\ "failed" \notin given[p].seen
    /\ \E status \in {"succeeded", "failed"} :
          given' = [given EXCEPT ![p].seen = @ \union {status}]
    /\ UNCHANGED <<buy, payment, orders, click, refunds, approval>>

\* refund.created, refund.updated: any status the refund has had, as often and
\* as late as it comes.  The row with the provider's id takes it, or a new one.
RefundEvent(p) ==
    /\ \E status \in given[p].seen :
          LET s    == given[p].order
              mine == {r \in RowIds : refunds[r].provider = p}
          IN  /\ orders[s].status # "none"
              /\ \/ mine # {} /\ refunds' = [r \in RowIds |->
                       IF r \in mine THEN [refunds[r] EXCEPT !.status = status] ELSE refunds[r]]
                 \/ mine = {} /\ \E r \in EventRows :
                       /\ refunds[r] = NoRow
                       /\ refunds' = [refunds EXCEPT ![r] =
                             [order |-> s, status |-> status, provider |-> p, units |-> given[p].units]]
              /\ orders' = IF status = "succeeded" THEN Recomputed(refunds', s) ELSE orders
    /\ UNCHANGED <<buy, payment, click, given, approval>>

BuyNext(s) == ResolvePrice(s) \/ RefuseReport(s) \/ CreateSession(s) \/ AuditCheckout(s) \/ Pay(s)
              \/ Completed(s)

RefundNext(c) == AskRefund(c) \/ LookForRow(c) \/ InsertRow(c)

CheckoutNext ==
    \/ \E s \in Sessions : BuyNext(s)
    \/ \E c \in Clicks : RefundNext(c)
    \/ Approve \/ AskProvider \/ MarkSucceeded
    \/ \E p \in Refunds : RefundAtProvider(p) \/ SettleRefund(p) \/ RefundEvent(p)

(***************************************************************************)
(* Properties.                                                             *)
(***************************************************************************)
\* Whatever finance edits between the offer, the payment and the event, the
\* order keeps the version the user was offered.
OrdersKeepTheirPrice ==
    \A s \in Sessions : orders[s].status # "none" => orders[s].version = buy[s].version

\* A step of one order.
MovesForward(s) ==
    LET before == orders[s].status
        after  == orders'[s].status
        back   == {r \in RowIds : refunds'[r].order = s /\ refunds'[r].status = "succeeded"}
    IN  before \in Cleared =>
          /\ after \in Cleared
          /\ after # before =>
                /\ back # {}
                /\ after = (IF UnitsIn(refunds', back) >= Cost THEN "refunded" ELSE "partially_refunded")

\* Money that has gone back is not taken for paid again: no completion, however
\* late, and no failure of a refund returns an order to "paid" or "pending",
\* and whenever an order is refunded, in part or in full, or goes from one to
\* the other, that is what its rows add up to at that moment.
OrdersMoveForward == [][\A s \in Sessions : MovesForward(s)]_orders

\* Approvals, consoles and events meet in the refund rows.  A row with an id of
\* the provider's is of a refund the provider has accepted for that order, and
\* no refund has two rows.  A row says "succeeded" only of a refund that has
\* been paid out, or that an approval has asked for: approve_refund does not
\* wait for the money.  While an order is "paid" none of its rows does, and an
\* order that is not has had a refund accepted.
RefundRowsAreReal ==
    /\ \A r \in RowIds :
          LET row == refunds[r]
          IN  /\ row.provider # "none" => row.provider \in Refunds /\ given[row.provider].order = row.order
              /\ row.status = "succeeded" =>
                    /\ row.provider # "none"
                    /\ "succeeded" \in given[row.provider].seen \/ given[row.provider].by = "approval"
                    /\ orders[row.order].status \in {"refunded", "partially_refunded"}
    /\ \A q, r \in RowIds : refunds[q].provider # "none" /\ refunds[q].provider = refunds[r].provider => q = r
    /\ \A s \in Sessions :
          orders[s].status \in {"refunded", "partially_refunded"} => \E p \in Refunds : given[p].order = s

\* Orders and refunds say what was sold and what was paid back.
OrdersAreReal == OrdersKeepTheirPrice /\ RefundRowsAreReal
=============================================================================
