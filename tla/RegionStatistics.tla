--------------------------- MODULE RegionStatistics ---------------------------
(***************************************************************************)
(* The statistics the platform publishes, as functions of the rows they    *)
(* are made of: how a downloaded transaction becomes a row                 *)
(* (scripts/import_mlit_transactions.py, backend/app/region_names.py), what*)
(* a region's rows say (region_stats.py, region_stats_routes.py), what a   *)
(* user's own reports say (analysis/routes.py), and the evidence a         *)
(* statistic is published with (services/provenance.py).                   *)
(* A name is a record of its parts; folded spellings are one name.         *)
(***************************************************************************)
EXTENDS Integers, Sequences, FiniteSets, FiniteSetsExt, SequencesExt

CONSTANTS Cities,     \* web/field-options.json: prefecture |-> its cities
          Wards,      \* <<prefecture, city>> |-> its wards
          Overrides,  \* _EXPLICIT_CITY_OVERRIDES: <<prefecture, city>> |-> city
          Registry,   \* public.sources: id |-> evidence record
          References  \* public.rent_reference_stats

Missing == "missing"  \* null, or an empty text
NoWard  == "whole city"

(***************************************************************************)
(* region_names.py                                                         *)
(***************************************************************************)
\* A municipality is [county, city, ward]; a ward is named after its city.
TargetCity(prefecture, m) ==
    LET key == <<prefecture, m.city>>
    IN IF m.ward = NoWard /\ m.county = Missing /\ key \in DOMAIN Overrides
       THEN [city |-> Overrides[key], ward |-> NoWard]
       ELSE IF m.ward = NoWard /\ m.city \in Cities[prefecture]
       THEN [city |-> m.city, ward |-> NoWard]
       ELSE IF m.county = Missing /\ m.city \in Cities[prefecture]
               /\ key \in DOMAIN Wards /\ m.ward \in Wards[key]
       THEN [city |-> m.city, ward |-> m.ward]
       ELSE [city |-> Missing, ward |-> NoWard]

MapRegion(prefecture, m) ==
    IF prefecture \in DOMAIN Cities THEN TargetCity(prefecture, m)
    ELSE [city |-> Missing, ward |-> NoWard]

\* What a query asks about; an unknown name is kept as it is.
NormalizeRegion(q) ==
    LET named == MapRegion(q.prefecture, [county |-> Missing, city |-> q.city, ward |-> NoWard])
    IN IF named.city = Missing THEN q ELSE [q EXCEPT !.city = named.city]

(***************************************************************************)
(* import_mlit_transactions.py                                             *)
(***************************************************************************)
AssetTypes == [condo |-> "condo", land_and_building |-> "house", land |-> "land", plot |-> "land"]

\* A record of the download becomes a row, or nothing (a quarter is a number,
\* 0 a text that names none).  Its key is the hash
\* of the whole record: here the record itself.
Usable(raw) ==
    /\ raw.kind \in DOMAIN AssetTypes
    /\ raw.quarter > 0 /\ raw.price > 0 /\ raw.area > 0
    /\ MapRegion(raw.prefecture, raw.municipality).city # Missing

UnitPrice(raw) == IF raw.unit > 0 THEN raw.unit ELSE raw.price \div raw.area

Row(raw, source, at) ==
    LET place == MapRegion(raw.prefecture, raw.municipality)
    IN [key |-> raw, prefecture |-> raw.prefecture, city |-> place.city, ward |-> place.ward,
        asset |-> AssetTypes[raw.kind], unit |-> UnitPrice(raw), quarter |-> raw.quarter,
        source |-> source, retrieved |-> at, confirmed |-> "yes"]

\* normalize_row, for a file downloaded by hand: its unit price is computed.
CsvRow(raw, source, at) == [Row(raw, source, at) EXCEPT !.unit = raw.price \div raw.area]

\* The usable records of a download, in their order.
UsableRecords(file) ==
    LET usable == {n \in DOMAIN file : Usable(file[n])}
    IN [i \in 1..Cardinality(usable) |->
          file[CHOOSE n \in usable : Cardinality({m \in usable : m <= n}) = i]]

Normalize(records, source, at) ==
    [i \in DOMAIN records |-> IF records[i].form = "csv" THEN CsvRow(records[i], source, at)
                                                        ELSE Row(records[i], source, at)]

\* _deduplicate_chunk keeps the first row of a key.
Deduplicate(chunk) ==
    {chunk[n] : n \in {n \in DOMAIN chunk : \A k \in 1..(n - 1) : chunk[k].key # chunk[n].key}}

SameRecord(p, q) == p.source = q.source /\ p.key = q.key

\* Mutant: every row is inserted.
UpsertInserts(table, rows) == table \union rows

\* insert .. on conflict (source_id, source_record_key) do update; the unit
\* price and the quarter of a row never change.
Merged(old, new) == [new EXCEPT !.unit = old.unit, !.quarter = old.quarter]

Upsert(table, rows) ==
    {p \in table : \A q \in rows : ~SameRecord(p, q)}
    \union {q \in rows : \A p \in table : ~SameRecord(p, q)}
    \union {Merged(pq[1], pq[2]) : pq \in {pq \in table \X rows : SameRecord(pq[1], pq[2])}}

(***************************************************************************)
(* region_stats.py                                                         *)
(***************************************************************************)
MinSampleSize == 5

\* Yen a square metre, in thousands; 0 is "no upper bound".
Buckets == << [lower |-> 0, upper |-> 250], [lower |-> 250, upper |-> 500],
              [lower |-> 500, upper |-> 1000], [lower |-> 1000, upper |-> 0] >>

In(bucket, value) == bucket.lower <= value /\ (bucket.upper = 0 \/ value < bucket.upper)

Priced(rows) == {r \in rows : r.unit > 0}

\* The n-th of the sorted prices, counted from 0.
AtRank(rows, n) ==
    Min({v \in {r.unit : r \in rows} : Cardinality({r \in rows : r.unit <= v}) > n})

\* Mutant: the next rank is one too far.
QuartileOfNext(rows, k) ==
    LET position == (Cardinality(rows) - 1) * k
        low      == AtRank(rows, position \div 4)
        high     == AtRank(rows, Min({position \div 4 + 1, Cardinality(rows) - 1}))
    IN 4 * low + (high - low) * (4 - (position % 4))

\* _percentile at k quarters, in quarters of a unit, by linear interpolation.
Quartile(rows, k) ==
    LET position == (Cardinality(rows) - 1) * k
        low      == AtRank(rows, position \div 4)
        high     == AtRank(rows, Min({position \div 4 + 1, Cardinality(rows) - 1}))
    IN 4 * low + (high - low) * (position % 4)

Total(rows) == MapThenSumSet(LAMBDA r : r.unit, rows)

NoFigures == [total |-> 0, p25 |-> 0, median |-> 0, p75 |-> 0, counts |-> << >>]

\* aggregate_region_rows.
Aggregate(rows) ==
    LET priced == Priced(rows)
        enough == Cardinality(priced) >= MinSampleSize
    IN [status  |-> IF enough THEN "ok" ELSE "insufficient_sample",
        sample  |-> Cardinality(priced),
        figures |-> IF ~enough THEN NoFigures
                    ELSE [total  |-> Total(priced),
                          p25    |-> Quartile(priced, 1),
                          median |-> Quartile(priced, 2),
                          p75    |-> Quartile(priced, 3),
                          counts |-> [b \in DOMAIN Buckets |->
                                        Cardinality({r \in priced : In(Buckets[b], r.unit)})]]]

Rows(table, q) ==
    {r \in table : /\ r.prefecture = q.prefecture /\ r.city = q.city /\ r.asset = q.asset
                   /\ q.ward \in {NoWard, r.ward}}

Quarters(rows) == {r.quarter : r \in rows}
OfQuarter(rows, quarter) == {r \in rows : r.quarter = quarter}

\* Mutant: a quarter's own sample is not looked at.
AcceptedAny(rows) == Quarters(rows)

Accepted(rows) == {p \in Quarters(rows) : Aggregate(OfQuarter(rows, p)).status = "ok"}

\* Mutant: the quarters as they come.
ChronologicalNot(periods) == SetToSortSeq(periods, >)

Chronological(periods) == SetToSortSeq(periods, <)

\* aggregate_region_trend_rows over the rows between two quarters: a series
\* needs two quarters, each with a sample of its own.
Trend(rows, from, to) ==
    LET asked    == {r \in rows : from <= r.quarter /\ r.quarter <= to}
        accepted == Accepted(asked)
        enough   == Cardinality(accepted) >= 2
    IN [status   |-> IF enough THEN "ok" ELSE "insufficient_periods",
        periods  |-> IF ~enough THEN << >>
                     ELSE [n \in 1..Cardinality(accepted) |->
                             [quarter |-> Chronological(accepted)[n]]
                             @@ Aggregate(OfQuarter(asked, Chronological(accepted)[n]))],
        excluded |-> Quarters(asked) \ (IF enough THEN accepted ELSE {})]

(***************************************************************************)
(* provenance.py and what the routes put into it                           *)
(***************************************************************************)
\* The one value all that have one agree on, or nothing.
Only(values) == IF Cardinality(values \ {Missing}) = 1
                THEN CHOOSE v \in values \ {Missing} : TRUE
                ELSE Missing

DataClasses == {"verified_observation", "scraped_aggregate", "modeled_estimate", "synthetic_fixture"}

\* assert_statistic_provenance.
Publishable(evidence) ==
    /\ \A f \in DOMAIN evidence : evidence[f] # Missing
    /\ evidence.class \in DataClasses
    /\ evidence.confirmed \in {"yes", "no", "not_applicable"}

\* What the importer writes into every row of itself.
Written == [class |-> "verified_observation", url |-> "mlit", version |-> "normalizer v1",
            rights |-> "rights_confirmed", limits |-> "closed transactions"]

\* source_first: the registered source speaks first, then the rows.
SourceFirst(rows, field) ==
    LET registered == Only({Registry[r.source][field] : r \in rows})
    IN IF registered # Missing THEN registered ELSE Only({Written[field] : r \in rows})

\* _region_statistic_provenance.  A period is the rows' quarter, never the
\* registry's prose; the importer always says when it retrieved a row.
RegionEvidence(rows) ==
    [class     |-> SourceFirst(rows, "class"),
     url       |-> SourceFirst(rows, "url"),
     version   |-> SourceFirst(rows, "version"),
     rights    |-> SourceFirst(rows, "rights"),
     limits    |-> SourceFirst(rows, "limits"),
     period    |-> IF Cardinality(Quarters(rows)) = 1 THEN "one quarter" ELSE Missing,
     confirmed |-> Only({r.confirmed : r \in rows})]

\* The quarters of a series may be set beside each other: their evidence
\* is of one class (the other dimensions are constants of the code).
Comparable(rows, periods) ==
    Cardinality({RegionEvidence(OfQuarter(rows, periods[n].quarter)).class : n \in DOMAIN periods}) = 1

\* The status a series is answered with.
SeriesStatus(rows, t) ==
    IF t.status = "ok" /\ ~Comparable(rows, t.periods) THEN "incomparable_periods" ELSE t.status

(***************************************************************************)
(* _rent_reference and the ratio                                           *)
(***************************************************************************)
\* Mutant: the prefecture first.
NearnessInverted(ref, q) ==
    CASE ref.city = q.city /\ ref.ward = q.ward -> 2
      [] ref.city = q.city /\ ref.ward # q.ward /\ ref.ward = NoWard -> 1
      [] ref.city = NoWard /\ ref.ward = NoWard -> 0
      [] OTHER -> 3

\* What a reference's place is to the place asked about, the best first.
Nearness(ref, q) ==
    CASE ref.city = q.city /\ ref.ward = q.ward -> 0
      [] ref.city = q.city /\ ref.ward # q.ward /\ ref.ward = NoWard -> 1
      [] ref.city = NoWard /\ ref.ward = NoWard -> 2
      [] OTHER -> 3

\* Table 122-5 by building and structure, for some types; 122-4 for all.
Dimensions == [condo |-> "apartments, not wooden", tower |-> "apartments, not wooden",
               detached |-> "detached, all structures"]

Eligible(ref, q, asset) ==
    /\ ref.prefecture = q.prefecture
    /\ Nearness(ref, q) < 3
    /\ \/ ref.key = "122_4"
       \/ ref.key = "122_5" /\ asset \in DOMAIN Dimensions /\ ref.dimensions = Dimensions[asset]

Before(p, r, q) ==
    \/ Nearness(p, q) < Nearness(r, q)
    \/ Nearness(p, q) = Nearness(r, q) /\ p.key = "122_5" /\ r.key = "122_4"
    \/ Nearness(p, q) = Nearness(r, q) /\ p.key = r.key /\ p.year > r.year

\* At most one reference, in a set.
RentReference(q, asset) ==
    {r \in References : Eligible(r, q, asset)
                        /\ ~\E p \in References : Eligible(p, q, asset) /\ Before(p, r, q)}

\* The monthly series of the city, or of the capital's wards together.
MonthlyRent(q) ==
    LET of(city) == {r \in References : r.key = "kouri_3001" /\ r.prefecture = q.prefecture /\ r.city = city}
        refs     == IF of(q.city) = {} /\ q.prefecture = "Tokyo" THEN of("Tokyo wards") ELSE of(q.city)
    IN {r \in refs : \A p \in refs : p.year <= r.year}

\* Twelve rents of the reference over the mean price, as a fraction.
Ratio(reference, aggregate) ==
    {[rent |-> 12 * r.rent * aggregate.sample, price |-> aggregate.figures.total] :
        r \in {r \in reference : aggregate.status = "ok" /\ aggregate.figures.total > 0}}

\* A tower is looked up among the condominiums, a detached house among houses.
StorageType == [tower |-> "condo", condo |-> "condo", detached |-> "house",
                house |-> "house", land |-> "land"]

(***************************************************************************)
(* analysis/routes.py: a user's own reports                                *)
(***************************************************************************)
MinSampleCount == 2
AllowedClasses == DataClasses \ {"synthetic_fixture"}

\* A report holds a price and a rent for some layouts, in whole yen.
Amount(amounts, layout) == IF layout \in DOMAIN amounts THEN amounts[layout] ELSE 0

Value(report, metric, layout) ==
    LET sale == Amount(report.sale, layout)
        rent == Amount(report.rental, layout)
    IN CASE metric = "sale" -> sale
         [] metric = "rent" -> rent
         [] OTHER -> IF sale > 0 /\ rent > 0 THEN (rent * 1200) \div sale ELSE 0

Supporting(reports, a) ==
    {r \in reports : /\ r.class \in AllowedClasses
                     /\ a.from <= r.month /\ r.month <= a.to
                     /\ Value(r, a.metric, a.layout) > 0}

\* A report need not have a source; then nothing is known of its rights.
RightsConfirmed(source) ==
    IF Registry[source].rights = Missing THEN Missing
    ELSE IF Registry[source].rights = "rights_confirmed" THEN "yes" ELSE "no"

AnalysisEvidence(rows) ==
    [class     |-> Only({r.class : r \in rows}),
     url       |-> Only({Registry[r.source].url : r \in rows}),
     rights    |-> Only({Registry[r.source].rights : r \in rows}),
     version   |-> Only({Registry[r.source].version : r \in rows}),
     limits    |-> Only({Registry[r.source].limits : r \in rows}),
     period    |-> Only({Registry[r.source].period : r \in rows}),
     confirmed |-> Only({RightsConfirmed(r.source) : r \in rows})]

\* aggregate_rows: a mean a month, unless the sample is too small.
Points(rows, a) ==
    {[month |-> m, total |-> MapThenSumSet(LAMBDA r : Value(r, a.metric, a.layout), {r \in rows : r.month = m}),
      sample |-> Cardinality({r \in rows : r.month = m})] : m \in {r.month : r \in rows}}

Analysis(reports, a) ==
    LET rows == Supporting(reports, a)
    IN [status |-> CASE rows # {} /\ ~Publishable(AnalysisEvidence(rows)) -> "unavailable"
                     [] (rows = {} \/ Publishable(AnalysisEvidence(rows)))
                        /\ Cardinality(rows) < MinSampleCount -> "insufficient_sample"
                     [] OTHER -> "ok",
        sample |-> Cardinality(rows),
        points |-> IF Cardinality(rows) >= MinSampleCount THEN Points(rows, a) ELSE {}]
=============================================================================
