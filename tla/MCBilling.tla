----------------------------- MODULE MCBilling -----------------------------
(***************************************************************************)
(* What the webhook's side effects and the billing routes do to one user's *)
(* money, asked as three questions: what subscription, invoice and full    *)
(* refund events make of rows and tier, what refunds that add up and       *)
(* overlap make of one order, and what the user's own requests end.  The   *)
(* first two meet in one place: an order becomes refunded in the second    *)
(* and the first has its effect on rows and tier (RefundOfOrder).  A       *)
(* behaviour stays with the question of its first step.                    *)
(***************************************************************************)
EXTENDS SubscriptionMirror, RefundSync, Subscriber, TLC

MCInit == Init /\ SyncInit /\ SubscriberInit

\* Bound on the subscription events that wait for delivery.
MaxQueued == 5

MirrorWorld ==
    Next /\ Len(pending') <= MaxQueued /\ SyncInit /\ SubscriberInit /\ UNCHANGED <<syncVars, subscriber>>

RefundWorld     == SyncNext /\ Init /\ SubscriberInit /\ UNCHANGED <<vars, subscriber>>
SubscriberWorld == SubscriberNext /\ Init /\ SyncInit /\ UNCHANGED <<vars, syncVars>>

MCNext == MirrorWorld \/ RefundWorld \/ SubscriberWorld

MCSpec == MCInit /\ [][MCNext]_<<vars, syncVars, subscriber>>

Symmetry ==
    Permutations(Subs) \union Permutations(Refunds)
       \union Permutations(Handlers) \union Permutations(Clicks)
=============================================================================
