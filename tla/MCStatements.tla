------------------------------ MODULE MCStatements ------------------------------
(* A small instance of Statements for TLC. *)
EXTENDS Statements, TLC

MCCities    == [Tokyo |-> {"Minato"}, Osaka |-> {"Osaka", "Sakai"}]
MCWards     == <<"Osaka", "Osaka">> :> {"Nishi", "Kita"} @@ <<"Osaka", "Sakai">> :> {"Kita"}
MCOverrides == <<"Osaka", "Sakai-mura">> :> "Sakai"

Evidence(class, limits) ==
    [class |-> class, url |-> "u", version |-> "v", rights |-> "rights_confirmed",
     limits |-> limits, period |-> "quarterly"]
MCRegistry == [official |-> [Evidence("verified_observation", "closed") EXCEPT !.version = Missing],
               mlit |-> Evidence("verified_observation", "closed"),
               other |-> Evidence("scraped_aggregate", "asking"),
               none |-> [f \in DOMAIN Evidence("a", "b") |-> Missing]]

Rent(key, prefecture, city, ward, dim, year, rent) ==
    [key |-> key, prefecture |-> prefecture, city |-> city, ward |-> ward, dimensions |-> dim,
     year |-> year, rent |-> rent]
MCReferences ==
    { Rent("122_4", "Osaka", NoWard, NoWard, Missing, 2023, 2), Rent("122_4", "Osaka", "Osaka", NoWard, Missing, 2018, 3),
      Rent("122_4", "Osaka", "Osaka", NoWard, Missing, 2023, 4), Rent("122_4", "Osaka", "Sakai", "Kita", Missing, 2023, 5),
      Rent("122_5", "Osaka", "Osaka", "Kita", "apartments, not wooden", 2023, 6),
      Rent("122_5", "Osaka", NoWard, NoWard, "detached, all structures", 2023, 7),
      Rent("kouri_3001", "Tokyo", "Tokyo wards", NoWard, Missing, 7, 8), Rent("kouri_3001", "Osaka", "Osaka", NoWard, Missing, 7, 9) }

Place(county, city, ward) == [county |-> county, city |-> city, ward |-> ward]
Sale(n, kind, quarter, unit, place) ==
    [form |-> IF n = 13 THEN "csv" ELSE "api", id |-> n, kind |-> kind, quarter |-> quarter, price |-> 10 * n, area |-> 1, unit |-> unit,
     prefecture |-> "Osaka", municipality |-> place]

Nishi == Place(Missing, "Osaka", "Nishi")

\* Two quarters of condominiums in a ward, five and six of them, one twice;
\* prices on the edges of the buckets; records that cannot be used.
MCFile ==
    << Sale(1, "condo", 1, 250, Nishi), Sale(2, "condo", 1, 249, Nishi), Sale(3, "condo", 1, 1000, Nishi),
       Sale(3, "condo", 1, 1000, Nishi), Sale(4, "condo", 1, 500, Nishi), Sale(5, "condo", 1, 700, Nishi),
       Sale(6, "condo", 2, 300, Nishi), Sale(7, "parking", 2, 300, Nishi), Sale(8, "condo", 2, 0, Nishi),
       Sale(9, "condo", 2, 700, Nishi), Sale(10, "condo", 2, 200, Place(Missing, "Osaka", "Kita")),
       Sale(11, "condo", 2, 999, Nishi), Sale(12, "condo", 2, 410, Nishi),
       Sale(13, "condo", 3, 300, Nishi), Sale(14, "house", 2, 90, Place("Izumi", "Sakai", NoWard)),
       Sale(15, "plot", 2, 30, Place(Missing, "Sakai-mura", NoWard)), Sale(16, "plot", 2, 30, Place(Missing, "Nara", NoWard)),
       Sale(17, "condo", 2, 880, Nishi), Sale(18, "condo", 0, 880, Nishi) >>
MCFiles == {MCFile}

Ask(type, city, ward, asset, from, to) ==
    [type |-> type, prefecture |-> "Osaka", city |-> city, ward |-> ward, asset |-> asset, from |-> from, to |-> to]
MCRegionAsks == { Ask("region-stats", "Osaka", "Nishi", "condo", 1, 1), Ask("region-stats", "Osaka", NoWard, "condo", 1, 1),
                  Ask("region-trend", "Osaka", NoWard, "tower", 1, 3) }

Report(id, month, class, source, sale) ==
    [id |-> id, month |-> month, class |-> class, source |-> source, sale |-> [ldk1 |-> sale], rental |-> [ldk1 |-> 10]]
Staff  == << Report("a1", 2, "verified_observation", "mlit", 3000), Report("a2", 1, "verified_observation", "mlit", 2000),
             Report("a3", 1, "synthetic_fixture", "mlit", 1), Report("a4", 3, "scraped_aggregate", "other", 2500) >>
MCReports     == [u1 |-> Staff, 
                  u2 |-> << Report("b2", 2, "verified_observation", "mlit", 700), Report("b1", 1, "verified_observation", "none", 900) >>]
MCExportAsks  == {{}, {"a1"}, {"a1", "a3"}}
MCAnalysisAsks == {[metric |-> "sale", layout |-> "ldk1", from |-> 1, to |-> to] : to \in {2, 3}}
MCMemberships == [u1 |-> << [org |-> "o1", role |-> "owner"], [org |-> "o2", role |-> "member"] >>,
                  u2 |-> << [org |-> "o2", role |-> "admin"] >>]
MCPersonal    == [u1 |-> "free_b", u2 |-> "free_c"]
MCLimits      == [free_c |-> << >>, free_b |-> [stats_query |-> 1],
                  b_data_pro |-> [stats_query |-> 2, export_row |-> 3]]

(***************************************************************************)
(* Bounds.  One organisation has the data subscription or not, the other   *)
(* gains and loses another one; and either two exports meet, after a       *)
(* statistic has been charged at most, or statistics are asked for, one at *)
(* a time, those of a region by one user; or the importer works, in the    *)
(* first minute, while that user asks for them.                            *)
(***************************************************************************)
Busy == {r \in Requests : req[r] # AtRest}
Exporting(r) == req[r].at \in {"export", "org asked", "org locked"}

ExportsMeet ==
    /\ runs = 0 /\ Cardinality(answers) <= 1
    /\ Cardinality(events) <= 3 /\ Cardinality(exports) <= 2
    /\ \A a \in answers : a.ask \in AnalysisAsks
    /\ Cardinality(ChargesOf("stats_query")) <= Cardinality(answers)
    /\ Cardinality(Busy) = 2 => \A r \in Busy : Exporting(r)
    /\ \A r \in Busy : Exporting(r) \/ (req[r].at = "analysis" /\ events = {})

StatisticsOnly ==
    /\ exports = {} /\ Cardinality(Busy) <= 1 /\ \A r \in Busy : ~Exporting(r)
    /\ Cardinality(answers) <= 2 /\ Cardinality(events) <= 2
    /\ \A r \in Busy : req[r].user = "u1" \/ (req[r].at = "analysis" /\ runs = 0)
    /\ runs > 0 => \A a \in answers : a.user = "u1"
    /\ runs > 0 => window = 1 /\ subscription["o1"] = "data" /\ subscription["o2"] = "none"

MCNext ==
    /\ StatementsNext
    /\ ExportsMeet' \/ StatisticsOnly'
    /\ subscription["o1"]' = subscription["o1"] /\ subscription["o2"]' # "data"

Symmetry == Permutations(Requests)

MCInit == StatementsInit /\ subscription["o1"] # "other" /\ subscription["o2"] # "data"
MCSpec == MCInit /\ [][MCNext]_statementsVars
=============================================================================
