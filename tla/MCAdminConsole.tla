---------------------------- MODULE MCAdminConsole ----------------------------
(* Bounds, and two halves that are explored apart: what is managed and read, *)
(* and what is priced and sold; they share the requests and the audit log.   *)
EXTENDS AdminConsole

CONSTANT MaxPrices

MCKeyOrder == SetToSeq(Sources)

Open == {q \in Calls : call[q].at # "idle"}

DeskKinds == {"grant", "revoke", "profile", "source"} \union Things

\* Only one half has been touched.
Managed == /\ PriceInit /\ CheckoutInit
           /\ \A q \in Open : call[q].op.kind \in DeskKinds
Priced  == /\ ViewsInit
           /\ \A n \in 1..Len(audit) : audit[n].op.kind \notin DeskKinds
           /\ \A q \in Open : call[q].op.kind \notin DeskKinds
           /\ \A u \in Staff, r \in Roles : roles[u][r] \in {"none", "permanent"}

\* Lists are read against one request, buyers buy against price edits only.
Reading == view.at # "closed"
Buying  == ~CheckoutInit
Ruling  == region = TRUE /\ plan = 1 /\ limits = << >> /\ cache.price = NoPrice
           /\ \A q \in Open : call[q].op.kind \in {"price", "price_status"}

\* Refunds are asked for while no price has been touched, and clicks, the ids of
\* the provider's refunds and those of rows are taken in one order; there are
\* three rows at most, and the second refund does not fail.
Refunding == \/ \E c \in Clicks : click[c].at # "idle"
             \/ \E p \in Refunds : given[p] # NoRefund
FirstRefund == CHOOSE p \in Refunds : TRUE
FirstRow    == CHOOSE r \in EventRows : TRUE
FirstClick  == CHOOSE c \in Clicks : TRUE
InOrder == /\ (\E p \in Refunds : given[p] # NoRefund) => given[FirstRefund] # NoRefund
           /\ (\E r \in EventRows : refunds[r] # NoRow) => refunds[FirstRow] # NoRow
           /\ (\E c \in Clicks : click[c].at # "idle") => click[FirstClick].at # "idle"
           /\ Cardinality({r \in RowIds : refunds[r] # NoRow}) <= 3
           /\ \A p \in Refunds \ {FirstRefund} : "failed" \notin given[p].seen
           /\ Refunding => PriceInit /\ Open = {} /\ audit = << >>

ConsoleStep ==
    \/ /\ Managed /\ (Manage \/ Look) /\ Managed'
       /\ Reading' => Cardinality(Open') <= 1
    \/ /\ Priced /\ (Reprice \/ Sell) /\ Priced' /\ Len(prices') <= MaxPrices
       /\ Buying' => Ruling' /\ InOrder'
=============================================================================
