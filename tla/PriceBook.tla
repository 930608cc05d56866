------------------------------ MODULE PriceBook ------------------------------
(***************************************************************************)
(* The pricing tables, as finance edits them (the pricing routes of        *)
(* backend/app/admin), and the catalogue that reads them                   *)
(* (backend/app/billing/catalog.py): one product in one currency, one      *)
(* billing region and one entitlement of one plan.                         *)
(***************************************************************************)
EXTENDS BackOffice

CONSTANTS PlanLimits,      \* limits finance may set
          LegacyLimit, \* the plan's limit column, used when no row is active
          CacheTime    \* ticks the public catalogue keeps its rows

ASSUME PriceAssumption == PlanLimits \subseteq Nat /\ LegacyLimit \in Nat /\ CacheTime \in Nat \ {0}

VARIABLES
    prices,  \* pricing_prices: rows [version, active] in the order of insertion
    region,  \* pricing_regions.active
    plan,    \* pricing_plans.plan_version
    limits,  \* plan_entitlements: rows [limit, active]
    cache    \* the public catalogue: [price, limit, age]

priceVars == <<prices, region, plan, limits, cache>>

Fallback == [version |-> 1, origin |-> "fallback"]
NoPrice  == [version |-> 0, origin |-> "none"]

PriceInit ==
    /\ prices = << [version |-> 1, active |-> TRUE] >>
    /\ region = TRUE
    /\ plan = 1
    /\ limits = << >>
    /\ cache = [price |-> NoPrice, limit |-> LegacyLimit, age |-> CacheTime]

PriceOps ==
    {Op("price", "none", "none", "none"), Op("plan", "none", "none", "none")}
    \union {Op("price_status", n, "none", v) : n \in 1..Len(prices), v \in BOOLEAN}
    \union {Op("region", "none", "none", v) : v \in BOOLEAN}
    \union {Op("entitlement", "none", l, v) : l \in PlanLimits, v \in BOOLEAN}

AuditedAnswer(q) == Audited(q, "none") /\ Answered(q) /\ UNCHANGED deskVars

MaxOf(ns) == CHOOSE n \in ns : \A m \in ns : m <= n
LastVersion == IF prices = << >> THEN 0 ELSE MaxOf({prices[n].version : n \in 1..Len(prices)})

\* Mutant: the product's row is not locked.
ProductFreeAlways(q) == TRUE

ProductFree(q) == \A p \in Calls \ {q} : call[p].at # "versioned"

\* add_pricing_price: lock the product, read the last version ...
NumberPrice(q) ==
    /\ Is(q, "price") /\ ProductFree(q)
    /\ ToStage(q, "versioned", LastVersion + 1)
    /\ UNCHANGED <<deskVars, audit, priceVars>>

\* ... and insert the next one.
InsertPrice(q) ==
    /\ call[q].at = "versioned"
    /\ prices' = Append(prices, [version |-> call[q].seen, active |-> TRUE])
    /\ AuditedAnswer(q)
    /\ UNCHANGED <<region, plan, limits, cache>>

\* set_pricing_price_active
SetPriceActive(q) ==
    /\ Is(q, "price_status")
    /\ prices' = [prices EXCEPT ![Asked(q).target].active = Asked(q).value]
    /\ AuditedAnswer(q)
    /\ UNCHANGED <<region, plan, limits, cache>>

\* upsert_pricing_region
UpsertRegion(q) ==
    /\ Is(q, "region")
    /\ region' = Asked(q).value
    /\ AuditedAnswer(q)
    /\ UNCHANGED <<prices, plan, limits, cache>>

\* upsert_pricing_plan: every edit is a new version of the plan.
UpsertPlan(q) ==
    /\ Is(q, "plan")
    /\ plan' = plan + 1
    /\ AuditedAnswer(q)
    /\ UNCHANGED <<prices, region, limits, cache>>

ActiveLimits == {n \in 1..Len(limits) : limits[n].active}

\* upsert_pricing_entitlement: the update sees the rows active when it starts ...
SeeLimits(q) ==
    /\ Is(q, "entitlement")
    /\ ToStage(q, "seen", ActiveLimits)
    /\ UNCHANGED <<deskVars, audit, priceVars>>

\* ... waits for whoever is writing them, and takes those still active ...
RetireLimits(q) ==
    /\ call[q].at = "seen"
    /\ \A p \in Calls \ {q} : call[p].at = "retired" => call[p].seen \intersect call[q].seen = {}
    /\ ToStage(q, "retired", call[q].seen \intersect ActiveLimits)
    /\ UNCHANGED <<deskVars, audit, priceVars>>

Retired(q) == [n \in 1..Len(limits) |-> IF n \in call[q].seen THEN [limits[n] EXCEPT !.active = FALSE] ELSE limits[n]]

\* The partial unique index: a second active row.
Clashes(q) == Asked(q).value /\ \E n \in ActiveLimits : n \notin call[q].seen

\* ... and the new row is inserted, or the index rejects it and nothing was done.
InsertLimit(q) ==
    /\ call[q].at = "retired" /\ ~Clashes(q)
    /\ limits' = Append(Retired(q), [limit |-> Asked(q).item, active |-> Asked(q).value])
    /\ AuditedAnswer(q)
    /\ UNCHANGED <<prices, region, plan, cache>>

EditPrices(q) == NumberPrice(q) \/ InsertPrice(q) \/ SetPriceActive(q) \/ UpsertRegion(q)
                 \/ UpsertPlan(q) \/ SeeLimits(q)
                 \/ RetireLimits(q) \/ InsertLimit(q)

(***************************************************************************)
(* The catalogue.                                                          *)
(***************************************************************************)
\* The active price of the highest version, if the region is sold to.
Current ==
    LET ns == {n \in 1..Len(prices) : prices[n].active}
    IN  IF ns = {} \/ ~region THEN NoPrice
        ELSE [version |-> MaxOf({prices[n].version : n \in ns}), origin |-> "database"]

\* entitlement_limit for "month": an active row, or the plan's column.
EffectiveLimit ==
    IF ActiveLimits = {} THEN LegacyLimit ELSE limits[CHOOSE n \in ActiveLimits : TRUE].limit

\* ensure_loaded: the tables, or the values in the code when they fail.
Loadable == {[price |-> Current, limit |-> EffectiveLimit], [price |-> Fallback, limit |-> LegacyLimit]}

\* list_public_async on the process's catalogue.
ListPublic ==
    /\ cache.age >= CacheTime
    /\ \E c \in Loadable : cache' = [price |-> c.price, limit |-> c.limit, age |-> 0]
    /\ UNCHANGED <<prices, region, plan, limits>>

Tick ==
    /\ cache.age < CacheTime
    /\ cache' = [cache EXCEPT !.age = @ + 1]
    /\ UNCHANGED <<prices, region, plan, limits>>

(***************************************************************************)
(* Properties.                                                             *)
(***************************************************************************)
\* Orders keep the version they were sold at, so no two prices may share one
\* and a later price has the higher version, whoever adds prices meanwhile.
PricesAreNumbered == \A m, n \in 1..Len(prices) : m < n => prices[m].version < prices[n].version

\* However edits overlap, at most one row tells the limit.
OneActiveLimit == Cardinality(ActiveLimits) <= 1

\* The pricing tables are never ambiguous.
PricingIsUnambiguous == PricesAreNumbered /\ OneActiveLimit
=============================================================================
