------------------------------ MODULE FreePreview ------------------------------
(***************************************************************************)
(* The free preview of an intake session (backend/app/intake: completeness,*)
(* cost_estimator, market_engine, fx): what the confirmed fields of a      *)
(* session are worth.  Pure functions of the fields, of the rule tables in *)
(* data/input and of the snapshots the collection pipeline has left.       *)
(* A text is a record that says what the code finds in it.                 *)
(***************************************************************************)
EXTENDS Integers, Sequences, FiniteSets, FiniteSetsExt

CONSTANTS Snapshots,  \* load_snapshots: [prefecture, ward, sale], in file order
          PartOf,     \* <<w, v>>: the name of ward w occurs in that of ward v
          Rates       \* fx_rates.json: currency |-> rate in hundredths

NoSnapshot == [prefecture |-> "", ward |-> "", sale |-> << >>]
NoNumber   == -1

(***************************************************************************)
(* completeness.py                                                         *)
(***************************************************************************)
\* DIMENSIONS: the fields a dimension requires, and those that are critical.
Dimensions == [
    identity            |-> [required |-> {"building_name", "address", "area_sqm", "building_year"},
                             critical |-> {"address", "area_sqm"}],
    price_cost          |-> [required |-> {"asking_price_jpy", "management_fee_jpy", "repair_reserve_jpy"},
                             critical |-> {"asking_price_jpy"}],
    yield               |-> [required |-> {"monthly_rent_jpy", "management_fee_jpy", "repair_reserve_jpy"},
                             critical |-> {}],
    building_management |-> [required |-> {"total_units", "management_fee_jpy", "repair_reserve_jpy"},
                             critical |-> {}],
    legal_transaction   |-> [required |-> {"land_right", "land_share"},
                             critical |-> {"land_right"}],
    source_trust        |-> [required |-> {"building_name", "address", "asking_price_jpy", "area_sqm"},
                             critical |-> {}]]

Given(fields, f)     == f \in DOMAIN fields
Confirmed(fields, f) == Given(fields, f) /\ fields[f].status \in {"confirmed", "corrected"}
Trusted(fields, f)   == Confirmed(fields, f) /\ fields[f].confidence \in {"high", "medium"}

\* Python's round of a share; the totals 2, 3 and 4 never tie.
Percent(part, total) == (100 * part + total \div 2) \div total

DimensionResult(fields, dimension) ==
    LET required  == Dimensions[dimension].required
        counts(f) == IF dimension = "source_trust" THEN Trusted(fields, f) ELSE Confirmed(fields, f)
        missing   == {f \in required : ~counts(f)}
        critical  == missing \intersect Dimensions[dimension].critical
        confirmed == Cardinality(required) - Cardinality(missing)
    IN [percent          |-> Percent(confirmed, Cardinality(required)),
        status           |-> CASE critical # {} -> "insufficient_data"
                               [] critical = {} /\ missing = {} -> "complete"
                               [] critical = {} /\ missing # {} /\ confirmed > 0 -> "partial"
                               [] OTHER -> "empty",
        missing          |-> missing,
        missing_critical |-> critical,
        conflicts        |-> {f \in required : Given(fields, f) /\ fields[f].status = "conflict"}]

Completeness(fields) == [d \in DOMAIN Dimensions |-> DimensionResult(fields, d)]

RiskSummary(dimensions) ==
    {[type |-> "missing_critical_evidence", dimension |-> d, severity |-> "high"] :
        d \in {d \in DOMAIN dimensions : dimensions[d].missing_critical # {}}}
    \union
    {[type |-> "field_conflict", dimension |-> d, severity |-> "medium"] :
        d \in {d \in DOMAIN dimensions : dimensions[d].conflicts # {}}}

(***************************************************************************)
(* cost_estimator.py, with the tables of acquisition_cost_rules.json       *)
(***************************************************************************)
Tiers == << [up_to |-> 2000000, rate |-> 5, base |-> 0],
            [up_to |-> 4000000, rate |-> 4, base |-> 20000],
            [up_to |-> NoNumber, rate |-> 3, base |-> 60000] >>

\* A band taxes what is above it, up to the next one.
Bands == << [above |-> 10000, tax |-> 200], [above |-> 100000, tax |-> 400],
            [above |-> 500000, tax |-> 1000], [above |-> 1000000, tax |-> 2000],
            [above |-> 5000000, tax |-> 10000], [above |-> 10000000, tax |-> 20000],
            [above |-> 50000000, tax |-> 60000], [above |-> 100000000, tax |-> 100000] >>

\* A number or the digits of a text, whose separators and units (the
\* ten-thousand sign included) are struck out.
NumericValue(value) == IF value.form \in {"number", "digits"} THEN value.amount ELSE NoNumber

\* Mutant: the tier of the price, without its base amount.
BrokerFeeWithoutBase(price) ==
    LET tier == Tiers[IF price <= 2000000 THEN 1 ELSE IF price <= 4000000 THEN 2 ELSE 3]
    IN (price * tier.rate + 50) \div 100

BrokerFee(price) ==
    LET tier == Tiers[IF price <= 2000000 THEN 1 ELSE IF price <= 4000000 THEN 2 ELSE 3]
    IN (price * tier.rate + 50) \div 100 + tier.base

StampDuty(price) ==
    LET over == {n \in DOMAIN Bands : price > Bands[n].above}
    IN IF over = {} THEN 0 ELSE Bands[Max(over)].tax

AskingPrice(fields) ==
    IF Given(fields, "asking_price_jpy") THEN NumericValue(fields["asking_price_jpy"].value) ELSE NoNumber

Costs(fields) ==
    LET price == AskingPrice(fields)
    IN IF price <= 0
       THEN [status |-> "insufficient_input", broker |-> NoNumber, stamp |-> NoNumber, total |-> NoNumber]
       ELSE [status |-> "partial", broker |-> BrokerFee(price), stamp |-> StampDuty(price),
             total |-> BrokerFee(price) + StampDuty(price)]

(***************************************************************************)
(* market_engine.py and fx.py                                              *)
(***************************************************************************)
Mentions(text, ward) == ward = text.ward \/ <<ward, text.ward>> \in PartOf

FirstOf(rows) == IF rows = << >> THEN NoSnapshot ELSE Head(rows)

\* Mutant: the ward alone decides.
MatchAnyPrefecture(text) == FirstOf(SelectSeq(Snapshots, LAMBDA row : Mentions(text, row.ward)))

MatchFromAddress(text) ==
    FirstOf(SelectSeq(Snapshots, LAMBDA row : row.prefecture = text.prefecture /\ Mentions(text, row.ward)))

\* Mutant: the first of several wards stands for a whole city.
MatchFirst(prefecture, ward, asset, city) ==
    IF asset = "house" THEN NoSnapshot
    ELSE FirstOf(SelectSeq(Snapshots, LAMBDA row : row.prefecture = prefecture /\ ward \in {"", row.ward}))

\* A ward, or a city that is one; only a single candidate is accepted.
MatchSnapshot(prefecture, ward, asset, city) ==
    LET key  == IF ward # "" THEN ward ELSE city
        rows == SelectSeq(Snapshots, LAMBDA row : row.prefecture = prefecture /\ row.ward = key)
    IN IF asset # "house" /\ Len(rows) = 1 THEN rows[1] ELSE NoSnapshot

\* An amount in a currency that has no rate is left out.
Convert(yen) == [c \in DOMAIN Rates |-> (yen * Rates[c] + 50) \div 100]

SaleRows(snapshot) ==
    {[layout |-> l, yen |-> snapshot.sale[l], in |-> Convert(snapshot.sale[l])] : l \in DOMAIN snapshot.sale}

Comparable(fields) ==
    IF ~Given(fields, "address") THEN [status |-> "not_checked", ward |-> "", rows |-> {}]
    ELSE LET row == MatchFromAddress(fields["address"].value)
         IN [status |-> IF row = NoSnapshot THEN "insufficient" ELSE "sufficient",
             ward |-> row.ward, rows |-> SaleRows(row)]

BuildFreePreview(fields) ==
    [completeness |-> Completeness(fields), costs |-> Costs(fields),
     risk |-> RiskSummary(Completeness(fields)), comparable |-> Comparable(fields)]
=============================================================================
