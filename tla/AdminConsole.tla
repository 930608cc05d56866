----------------------------- MODULE AdminConsole -----------------------------
(***************************************************************************)
(* The back office as a whole: its requests, the lists and the audit log   *)
(* others read meanwhile, the pricing tables with their catalogue, and the *)
(* users who buy at those prices.                                          *)
(***************************************************************************)
EXTENDS BackOfficeViews, Checkout

consoleVars == <<deskVars, audit, call, viewVars, priceVars, checkoutVars>>

ConsoleInit == DeskInit /\ ViewsInit /\ PriceInit /\ CheckoutInit

Manage ==
    /\ DeskNext /\ Disturbed
    /\ UNCHANGED <<shown, priceVars, checkoutVars>>

Look ==
    /\ ReadNext
    /\ UNCHANGED <<deskVars, audit, call, priceVars, checkoutVars>>

Reprice ==
    /\ \E q \in Calls : (Authorize(q, PriceOps) /\ UNCHANGED priceVars) \/ EditPrices(q)
    /\ UNCHANGED <<viewVars, checkoutVars>>

Sell ==
    /\ UNCHANGED <<deskVars, audit, call, viewVars>>
    /\ \/ (ListPublic \/ Tick) /\ UNCHANGED checkoutVars
       \/ CheckoutNext /\ UNCHANGED priceVars

ConsoleNext == Manage \/ Look \/ Reprice \/ Sell

ConsoleSpec == ConsoleInit /\ [][ConsoleNext]_consoleVars

\* A sale can be traced to the one version of the price it was made at, although
\* prices are edited meanwhile (several may be active), and a refund row to the
\* refund the provider accepted.
SalesAreTraceable == PricingIsUnambiguous /\ OrdersAreReal
=============================================================================
