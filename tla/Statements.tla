------------------------------- MODULE Statements -------------------------------
(***************************************************************************)
(* The metered reads: a user's export of his reports                       *)
(* (backend/app/exports), an organisation's export of its usage            *)
(* (org/routes.py), the analysis of a user's reports (analysis) and the    *)
(* regional statistics (region_stats_routes.py), beside the importer that  *)
(* fills the table the latter are made of and subscriptions that come and  *)
(* go.                                                                     *)
(*                                                                         *)
(* A request is a transaction in steps, up to the point where it waits or  *)
(* reads what another changes; what it writes appears when it commits.  A  *)
(* charge is one step here: UsageQuota has its statements.                 *)
(***************************************************************************)
EXTENDS RegionStatistics

CONSTANTS Users, Orgs, Requests,
          Memberships,     \* user |-> its active memberships, earliest first
          PersonalPlan,    \* user |-> the plan of its own tier
          Limits,          \* plan |-> metric |-> units a month; no entry, no entitlement
          Reports,         \* user |-> its completed reports, newest first
          ExportAsks,      \* the id sets a user may ask for; {} is "all of mine"
          AnalysisAsks,    \* requests for an analysis
          RegionAsks,      \* requests for regional statistics or a trend
          Files, Source,   \* downloads of the importer, and the source it names
          ChunkSize, RowFloor,              \* 5000 and 1000
          WindowsPerMonth, LastWindow, LastImport  \* bounds on time and imports

NoOrg == "no organisation"
AtRest == [at |-> "idle"]

VARIABLES
    table,         \* public.mlit_transactions
    load,          \* the importer: [file rows, start, run], or AtRest
    runs,          \* imports begun
    imported,      \* the files whose import has ended
    window,        \* the minute, counted from 1
    subscription,  \* per organisation: "none", "data" or "other"
    events,        \* usage_events (usage_idempotency holds the same keys)
    consumed,      \* usage_quotas: <<scope, metric, month>> |-> units
    exports,       \* public.exports
    answers,       \* the statistics shown: to whom, when, on what asking
    req            \* the requests

tables == <<table, load, runs, imported>>
meter  == <<events, consumed>>
statementsVars == <<tables, window, subscription, meter, exports, answers, req>>

MonthOf(minute) == (minute - 1) \div WindowsPerMonth + 1
Month   == MonthOf(window)
Months  == {MonthOf(minute) : minute \in 1..LastWindow}
Scopes  == Users \union Orgs
Metrics == {"stats_query", "export_row", "query"}

\* Memberships, reports and downloads are lists, and limits are of what is
\* metered.
ASSUME StatementsAssumption ==
    /\ NoOrg \notin Orgs
    /\ {ChunkSize, WindowsPerMonth, LastWindow} \subseteq Nat \ {0} /\ RowFloor \in Nat
    /\ \A u \in Users : /\ Memberships[u] \in Seq(Range(Memberships[u]))
                        /\ \A n \in DOMAIN Memberships[u] : Memberships[u][n].org \in Orgs
                        /\ Reports[u] \in Seq(Range(Reports[u]))
                        /\ PersonalPlan[u] \in DOMAIN Limits
    /\ {"b_data_pro", "free_b"} \subseteq DOMAIN Limits
    /\ \A plan \in DOMAIN Limits : \A m \in DOMAIN Limits[plan] : m \in Metrics /\ Limits[plan][m] \in Nat
    /\ \A q \in RegionAsks : q.type \in {"region-stats", "region-trend"}
    /\ \A f \in Files : f \in Seq(Range(f))

StatementsInit ==
    /\ table = {} /\ load = AtRest /\ runs = 0 /\ imported = {}
    /\ window = 1
    /\ subscription \in [Orgs -> {"none", "data", "other"}]
    /\ events = {} /\ exports = {} /\ answers = {}
    /\ consumed = [c \in Scopes \X Metrics \X Months |-> 0]
    /\ req = [r \in Requests |-> AtRest]

(***************************************************************************)
(* The importer: chunk by chunk, each in a transaction of its own.         *)
(***************************************************************************)
Records == [file \in Files |-> UsableRecords(file)]

StartImport(file) ==
    /\ load = AtRest /\ runs < LastImport
    /\ runs' = runs + 1
    /\ load' = [at |-> "chunk", file |-> file, rows |-> Normalize(Records[file], Source, runs + 1), start |-> 1]
    /\ UNCHANGED <<table, imported, window, subscription, meter, exports, answers, req>>

\* Mutant: a chunk starts after the rows the last one kept.
ChunkEndByKept(start, chunk) == start + Cardinality(Deduplicate(chunk)) + 1

ChunkEnd(start, chunk) == start + Len(chunk)

ImportChunk ==
    LET chunk == SubSeq(load.rows, load.start, Min({load.start + ChunkSize - 1, Len(load.rows)}))
    IN /\ load.at = "chunk" /\ load.start <= Len(load.rows)
       /\ table' = Upsert(table, Deduplicate(chunk))
       /\ load' = [load EXCEPT !.start = ChunkEnd(@, chunk)]
       /\ UNCHANGED <<runs, imported, window, subscription, meter, exports, answers, req>>

EndImport ==
    /\ load.at = "chunk" /\ load.start > Len(load.rows)
    /\ imported' = imported \union {load.file} /\ load' = AtRest
    /\ UNCHANGED <<table, runs, window, subscription, meter, exports, answers, req>>

\* Chunks that have been committed stay.
ImporterDies ==
    /\ load.at = "chunk" /\ load' = AtRest
    /\ UNCHANGED <<table, runs, imported, window, subscription, meter, exports, answers, req>>

(***************************************************************************)
(* Scopes, plans and charges                                               *)
(***************************************************************************)
\* The memberships in an organisation with any subscription.
Subscribed(u) == {n \in DOMAIN Memberships[u] : subscription[Memberships[u][n].org] # "none"}

\* _resolve_plan: the earliest of them.
ChargedScope(u) == IF Subscribed(u) = {} THEN u ELSE Memberships[u][Min(Subscribed(u))].org
ChargedPlan(u)  == IF Subscribed(u) = {} THEN PersonalPlan[u] ELSE "b_data_pro"

Entitled(u, metric) == metric \in DOMAIN Limits[ChargedPlan(u)]

\* Mutant: last month's keys are forgotten.
PriorOfMonth(scope, metric, key) ==
    \E e \in events : e.scope = scope /\ e.metric = metric /\ e.key = key /\ e.month = Month

Prior(scope, metric, key) ==
    \E e \in events : e.scope = scope /\ e.metric = metric /\ e.key = key

HasRoom(u, scope, metric, units) ==
    /\ Entitled(u, metric)
    /\ consumed[<<scope, metric, Month>>] + units <= Limits[ChargedPlan(u)][metric]

\* A replay of a key is free, in whatever month.
Charge(scope, metric, units, key) ==
    IF Prior(scope, metric, key) THEN UNCHANGED meter
    ELSE /\ events' = events \union {[scope |-> scope, metric |-> metric, units |-> units,
                                      month |-> Month, key |-> key]}
         /\ consumed' = [consumed EXCEPT ![<<scope, metric, Month>>] = @ + units]

Affordable(u, scope, metric, units, key) ==
    Prior(scope, metric, key) \/ HasRoom(u, scope, metric, units)

(***************************************************************************)
(* Requests                                                                *)
(***************************************************************************)
End(r) == req' = [req EXCEPT ![r] = AtRest]

\* A rollback: a refusal, a crash, a lost connection.
RollBack(r) ==
    /\ req[r].at # "idle" /\ End(r)
    /\ UNCHANGED <<tables, window, subscription, meter, exports, answers>>

\* The rows of an export: those asked for, when all are the user's and may
\* be shown, or the newest up to a cap that follows the user's own plan.
Showable(u)  == {n \in DOMAIN Reports[u] : Reports[u][n].class # "synthetic_fixture"}
OwnLimit(u)  == IF "export_row" \in DOMAIN Limits[PersonalPlan[u]] THEN Limits[PersonalPlan[u]].export_row ELSE 0
Cap(u)       == Max({OwnLimit(u), RowFloor}) + 1
ExportRows(u, ids) ==
    IF ids = {} THEN Min({Cardinality(Showable(u)), Cap(u)})
    ELSE IF ids \subseteq {Reports[u][n].id : n \in Showable(u)} THEN Cardinality(ids) ELSE 0

AskExport(r, u, ids) ==
    /\ req[r] = AtRest /\ ExportRows(u, ids) > 0
    /\ req' = [req EXCEPT ![r] = [at |-> "export", user |-> u, rows |-> ExportRows(u, ids)]]
    /\ UNCHANGED <<tables, window, subscription, meter, exports, answers>>

\* Each export has a fresh key, so that none is a replay.
NextId == Cardinality({e \in exports : e.org = NoOrg}) + 1

\* Mutant: an export of several rows costs one unit.
ExportUnitsOne(rows) == 1

ExportUnits(rows) == rows

CommitExport(r) ==
    LET u == req[r].user
        n == ExportUnits(req[r].rows)
    IN /\ req[r].at = "export"
       /\ HasRoom(u, ChargedScope(u), "export_row", n)
       /\ Charge(ChargedScope(u), "export_row", n, <<"export", NextId>>)
       /\ exports' = exports \union {[org |-> NoOrg, owner |-> u, key |-> <<"export", NextId>>,
                                      rows |-> req[r].rows]}
       /\ End(r)
       /\ UNCHANGED <<tables, window, subscription, answers>>

\* The organisation of a read: the user's earliest, subscribed or not.
Membership(u) == Head(Memberships[u])
MayExport(u)  == Memberships[u] # << >> /\ Membership(u).role \in {"owner", "admin"}

\* Mutant: each request has a key of its own.
ExportKeyFresh(o, u) == <<"org-export", o, u, Month, window, Cardinality(events)>>

\* org_export_idempotency_key.
ExportKey(o, u) == <<"org-export", o, u, Month, window>>

AskOrgExport(r, u) ==
    /\ req[r] = AtRest /\ MayExport(u)
    /\ req' = [req EXCEPT ![r] = [at |-> "org asked", user |-> u, month |-> Month,
                                  key |-> ExportKey(Membership(u).org, u)]]
    /\ UNCHANGED <<tables, window, subscription, meter, exports, answers>>

\* Mutant: no advisory lock.
KeyFreeAlways(r) == TRUE

KeyFree(r) == \A q \in Requests \ {r} : req[q].at = "org locked" => req[q].key # req[r].key

Existing(key) == {e \in exports : e.key = key}

\* The key's lock; an export of this window is given back.
ReuseOrgExport(r) ==
    /\ req[r].at = "org asked" /\ KeyFree(r)
    /\ Existing(req[r].key) # {}
    /\ End(r)
    /\ UNCHANGED <<tables, window, subscription, meter, exports, answers>>

\* The lock, and the counters of the month the key was made in.
Counters(o, month) == {m \in Metrics : \E e \in events : e.scope = o /\ e.metric = m /\ e.month = month}

LockOrgExport(r) ==
    LET rows == Cardinality(Counters(Membership(req[r].user).org, req[r].month))
    IN /\ req[r].at = "org asked" /\ KeyFree(r)
       /\ Existing(req[r].key) = {} /\ rows > 0
       /\ req' = [req EXCEPT ![r] = [at |-> "org locked", user |-> req[r].user, key |-> req[r].key,
                                     rows |-> rows]]
       /\ UNCHANGED <<tables, window, subscription, meter, exports, answers>>

\* The organisation is charged, within the limit of whatever plan the user
\* has; uq_exports_org_owner_idempotency.
CommitOrgExport(r) ==
    LET u == req[r].user
        o == Membership(u).org
    IN /\ req[r].at = "org locked"
       /\ Affordable(u, o, "export_row", req[r].rows, req[r].key)
       /\ Existing(req[r].key) = {}
       /\ Charge(o, "export_row", req[r].rows, req[r].key)
       /\ exports' = exports \union {[org |-> o, owner |-> u, key |-> req[r].key, rows |-> req[r].rows]}
       /\ End(r)
       /\ UNCHANGED <<tables, window, subscription, answers>>

Shown(scope, u, ask, status) ==
    answers' = answers \union {[scope |-> scope, user |-> u, month |-> Month, ask |-> ask, status |-> status]}

AskAnalysis(r, u, a) ==
    /\ req[r] = AtRest
    /\ Analysis(Range(Reports[u]), a).status = "ok"
    /\ req' = [req EXCEPT ![r] = [at |-> "analysis", user |-> u, ask |-> a]]
    /\ UNCHANGED <<tables, window, subscription, meter, exports, answers>>

CommitAnalysis(r) ==
    LET u   == req[r].user
        key == <<"stats", req[r].ask>>
    IN /\ req[r].at = "analysis"
       /\ Affordable(u, ChargedScope(u), "stats_query", 1, key)
       /\ Charge(ChargedScope(u), "stats_query", 1, key)
       /\ Shown(ChargedScope(u), u, req[r].ask, "ok") /\ End(r)
       /\ UNCHANGED <<tables, window, subscription, exports>>

\* Mutant: the ward is not part of the key.
RegionKeyWithoutWard(q) == <<q.type, [q EXCEPT !.ward = NoWard]>>

\* The request's fingerprint, behind the kind of the request.
RegionKey(q) == <<q.type, q>>

AskRegion(r, u, q) ==
    /\ req[r] = AtRest /\ Memberships[u] # << >>
    /\ req' = [req EXCEPT ![r] = [at |-> q.type, user |-> u, ask |-> NormalizeRegion(q)]]
    /\ UNCHANGED <<tables, window, subscription, meter, exports, answers>>

\* The statistics of one quarter are charged in a transaction of their own
\* and read after it.
ChargeRegion(r) ==
    LET u == req[r].user
        s == ChargedScope(u)
    IN /\ req[r].at = "region-stats"
       /\ Affordable(u, s, "stats_query", 1, RegionKey(req[r].ask))
       /\ Charge(s, "stats_query", 1, RegionKey(req[r].ask))
       /\ req' = [req EXCEPT ![r] = [at |-> "charged", user |-> u, ask |-> req[r].ask, scope |-> s]]
       /\ UNCHANGED <<tables, window, subscription, exports, answers>>

Stored(q) == [q EXCEPT !.asset = StorageType[q.asset]]

\* A sample that cannot be published is an error.
AnswerRegion(r) ==
    LET rows == {row \in Rows(table, Stored(req[r].ask)) : row.quarter = req[r].ask.from}
    IN /\ req[r].at = "charged"
       /\ rows # {} => Publishable(RegionEvidence(rows))
       /\ Shown(req[r].scope, req[r].user, req[r].ask, Aggregate(rows).status) /\ End(r)
       /\ UNCHANGED <<tables, window, subscription, meter, exports>>

\* A trend is charged and its rows are read in one transaction.
ChargeTrend(r) ==
    LET u == req[r].user
        q == req[r].ask
        s == ChargedScope(u)
    IN /\ req[r].at = "region-trend"
       /\ Affordable(u, s, "stats_query", 1, RegionKey(q))
       /\ Charge(s, "stats_query", 1, RegionKey(q))
       /\ req' = [req EXCEPT ![r] = [at |-> "read", user |-> u, ask |-> q, scope |-> s,
                                     rows |-> Rows(table, Stored(q))]]
       /\ UNCHANGED <<tables, window, subscription, exports, answers>>

\* Then the series is made; evidence that cannot be published is an error,
\* and the charge stays.
AnswerTrend(r) ==
    LET rows == req[r].rows
        q    == req[r].ask
        t    == Trend(rows, q.from, q.to)
    IN /\ req[r].at = "read"
       /\ \A n \in DOMAIN t.periods : Publishable(RegionEvidence(OfQuarter(rows, t.periods[n].quarter)))
       /\ Shown(req[r].scope, req[r].user, q, SeriesStatus(rows, t)) /\ End(r)
       /\ UNCHANGED <<tables, window, subscription, meter, exports>>

(***************************************************************************)
(* What else changes                                                       *)
(***************************************************************************)
PassMinute ==
    /\ window < LastWindow /\ window' = window + 1
    /\ UNCHANGED <<tables, subscription, meter, exports, answers, req>>

ChangeSubscription(o, kind) ==
    /\ subscription[o] # kind /\ subscription' = [subscription EXCEPT ![o] = kind]
    /\ UNCHANGED <<tables, window, meter, exports, answers, req>>

Import == (\E f \in Files : StartImport(f)) \/ ImportChunk \/ EndImport \/ ImporterDies

Read(r) ==
    \/ \E u \in Users : \/ \E ids \in ExportAsks : AskExport(r, u, ids)
                        \/ AskOrgExport(r, u)
                        \/ \E a \in AnalysisAsks : AskAnalysis(r, u, a)
                        \/ \E q \in RegionAsks : AskRegion(r, u, q)
    \/ CommitExport(r) \/ ReuseOrgExport(r) \/ LockOrgExport(r) \/ CommitOrgExport(r)
    \/ CommitAnalysis(r) \/ ChargeRegion(r) \/ AnswerRegion(r) \/ ChargeTrend(r) \/ AnswerTrend(r)
    \/ RollBack(r)

StatementsNext ==
    \/ Import \/ PassMinute
    \/ \E o \in Orgs : \E kind \in {"none", "data", "other"} : ChangeSubscription(o, kind)
    \/ \E r \in Requests : Read(r)

StatementsSpec == StatementsInit /\ [][StatementsNext]_statementsVars

(***************************************************************************)
(* What the reads of the accounts say                                      *)
(***************************************************************************)
\* get_usage and _snapshot of the organisation; the plan follows the data
\* subscription alone.
OrgPlan(o) == IF subscription[o] = "data" THEN "b_data_pro" ELSE "free_b"
OrgUsage(o) == [m \in DOMAIN Limits[OrgPlan(o)] |->
                  [used |-> consumed[<<o, m, Month>>], limit |-> Limits[OrgPlan(o)][m]]]

\* _snapshot of the member: the user's own scope and plan.
MemberUsage(u) == [m \in DOMAIN Limits[PersonalPlan[u]] |->
                     [used |-> consumed[<<u, m, Month>>], limit |-> Limits[PersonalPlan[u]][m]]]

(***************************************************************************)
(* Properties                                                              *)
(***************************************************************************)
ChargesOf(metric) == {e \in events : e.metric = metric}

\* What was charged, unit by unit.
Units(charges) == UNION {{e} \X (1..e.units) : e \in charges}

Charged(s, m, month) == Cardinality(Units({e \in events : e.scope = s /\ e.metric = m /\ e.month = month}))

\* Exports and their charges are two tables written by two statements, for a
\* user or for an organisation, by requests that may meet or be rolled back:
\* there is a charge of as many units as rows for each export and no other,
\* a counter is the sum of its month's charges, and what is shown as used is
\* that sum.
ExportsArePaid ==
    /\ \A e \in ChargesOf("export_row") : \E x \in exports : x.key = e.key /\ x.rows = e.units
    /\ \A x \in exports : Cardinality({e \in ChargesOf("export_row") : e.key = x.key}) = 1
    /\ Cardinality(exports) = Cardinality({x.key : x \in exports})
    /\ \A s \in Scopes, m \in Metrics, month \in Months : consumed[<<s, m, month>>] = Charged(s, m, month)
    /\ \A u \in Users : \A m \in DOMAIN MemberUsage(u) : MemberUsage(u)[m].used = Charged(u, m, Month)
    /\ \A o \in Orgs : \A m \in DOMAIN OrgUsage(o) : OrgUsage(o)[m].used = Charged(o, m, Month)

\* A repeated or simultaneous request for an organisation's export is not
\* charged again: an owner has one of them a minute, and no request gets as
\* far as writing a second one, which the unique index would turn into an
\* error.
OneOrgExportAMinute ==
    /\ \A x, y \in exports : x.org # NoOrg /\ x.org = y.org /\ x.owner = y.owner /\ x # y
          => x.key[5] # y.key[5]
    /\ \A r \in Requests : req[r].at = "org locked" => Existing(req[r].key) = {}

\* Exports are billed for what they hold, once.
ExportsAreBilled == ExportsArePaid /\ OneOrgExportAMinute

\* Statistics are charged under a digest of what was asked, before or with
\* the reading, by requests that may fail in between and be repeated.  It is
\* what is asked that is paid for, not each answer: a scope has paid for each
\* different request it has been answered, and for none of them twice.  One
\* charge is for all members of an organisation and for all later months,
\* whose figures for the same request are others.
StatisticsArePaid ==
    /\ \A s \in Scopes :
          Cardinality({a.ask : a \in {a \in answers : a.scope = s}})
              <= Cardinality({e \in ChargesOf("stats_query") : e.scope = s})
    /\ \A d, e \in ChargesOf("stats_query") : d.scope = e.scope /\ d.key = e.key => d = e

\* An import works through chunks that are committed one by one, may die and
\* is run again over rows that are there already: when it has ended, each
\* usable record of its file is in the table, once.
ImportsAreWhole ==
    /\ \A f \in imported : \A n \in DOMAIN f : Usable(f[n]) => \E row \in table : row.key = f[n]
    /\ \A p, q \in table : SameRecord(p, q) => p = q

\* Quartiles are in order and inside the sample, buckets share it out.
SoundAggregate(rows, a) ==
    LET f == a.figures
    IN a.status = "ok" =>
         /\ Cardinality(rows) >= MinSampleSize
         /\ 4 * Min({r.unit : r \in rows}) <= f.p25 /\ f.p25 <= f.median
         /\ f.median <= f.p75 /\ f.p75 <= 4 * Max({r.unit : r \in rows})
         /\ MapThenSumSet(LAMBDA b : f.counts[b], DOMAIN f.counts) = Cardinality(rows)
         /\ 2 * Cardinality({r \in rows : 4 * r.unit <= f.median}) >= Cardinality(rows)
         /\ 2 * Cardinality({r \in rows : 4 * r.unit >= f.median}) >= Cardinality(rows)

\* A series is chronological, rests on a sample in each quarter, and names the
\* quarters it leaves out.
SoundTrend(rows, t, q) ==
    /\ \A n \in DOMAIN t.periods :
         /\ t.periods[n].sample >= MinSampleSize
         /\ SoundAggregate(OfQuarter(rows, t.periods[n].quarter), t.periods[n])
         /\ n > 1 => t.periods[n - 1].quarter < t.periods[n].quarter
    /\ {t.periods[n].quarter : n \in DOMAIN t.periods} \union t.excluded
         = {r.quarter : r \in {r \in rows : q.from <= r.quarter /\ r.quarter <= q.to}}
    /\ t.periods # << >> => Len(t.periods) >= 2

\* The references of the places that are asked about.
RentOf == [asked \in RegionAsks |-> RentReference(NormalizeRegion(asked), asked.asset)]

\* A rent is that of the nearest place, and never another city's.
RentsAreNear ==
    \A asked \in RegionAsks :
        LET q == NormalizeRegion(asked)
        IN /\ Cardinality(RentOf[asked]) <= 1
           /\ \A r \in RentOf[asked] :
                 /\ r.city \in {q.city, NoWard}
                 /\ r.city = NoWard => ~\E p \in References : /\ p.city = q.city /\ p.prefecture = q.prefecture
                                                            /\ p.ward \in {q.ward, NoWard} /\ p.key = "122_4"
           /\ \A r \in MonthlyRent(q) : r.city = q.city \/ q.prefecture = "Tokyo"

\* A rent is set against the prices wherever both are published.
SoundRatio(asked, a) ==
    Ratio(RentOf[asked], a) = {} <=> RentOf[asked] = {} \/ a.status # "ok"

\* What the platform publishes of a region can be relied on although ranks are
\* interpolated, prices fall on the edges of buckets, quarters are joined into a
\* series and rents are looked up for smaller and larger places.
StatisticsAreSound ==
    /\ RentsAreNear
    /\ \A asked \in RegionAsks :
          LET q    == NormalizeRegion(asked)
              rows == Rows(table, Stored(q))
              a    == Aggregate(OfQuarter(rows, q.from))
          IN /\ SoundTrend(rows, Trend(rows, q.from, q.to), q)
             /\ SoundAggregate(OfQuarter(rows, q.from), a)
             /\ SoundRatio(asked, a)
=============================================================================
