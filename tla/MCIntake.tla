------------------------------- MODULE MCIntake -------------------------------
(* Small instances of Intake and of RenovationEstimate, side by side. *)
EXTENDS Intake, RenovationEstimate

Address(name, ward) == [text |-> name, norm |-> name, prefecture |-> "Osaka", ward |-> ward]

MCSnapshots == << [prefecture |-> "Kanagawa", ward |-> "Nishi", sale |-> [ldk1 |-> 2500]],
                  [prefecture |-> "Osaka", ward |-> "Nishi", sale |-> [ldk1 |-> 3000, ldk2 |-> 4100]],
                  [prefecture |-> "Osaka", ward |-> "Sumiyoshi", sale |-> [ldk2 |-> 2000]],
                  [prefecture |-> "Osaka", ward |-> "Higashisumiyoshi", sale |-> [ldk2 |-> 1500]] >>
MCPartOf    == {<<"Sumiyoshi", "Higashisumiyoshi">>}
MCRates     == [CNY |-> 5]

Said(field, value, status) == [field |-> field, value |-> value, status |-> status]
Yen(n)                     == [form |-> "number", amount |-> n]
Words                      == [form |-> "words", amount |-> 0]

\* Enough for the lives of sessions.
FewAnswers == {Said("address", Address("Nishi", "Nishi"), "confirmed")}

\* Enough for the estimates: prices around the tiers, addresses of three wards, one
\* of which has another's name in its own, and of one that is not covered.
ManyAnswers ==
    FewAnswers \union {Said("asking_price_jpy", v, "confirmed") :
        v \in {Yen(n) : n \in {0, 1999900, 2000000, 3500000, 4000000, 4000100, 60000000}}
              \union {[form |-> "digits", amount |-> 3980], Words}}
    \union {Said("address", Address(w, w), st) :
               w \in {"Nishi", "Sumiyoshi", "Higashisumiyoshi", "Minato"}, st \in {"confirmed", "unknown"}}
    \union {Said("land_right", Words, "confirmed"), Said("land_share", Words, "corrected"),
            Said("area_sqm", Yen(60), "confirmed")}

MCManualNames == {[text |-> "home", norm |-> "home"]}

Place(ward, city, asset) == [prefecture |-> "Osaka", city |-> city, ward |-> ward, asset |-> asset]
MCPlaces == {Place("Nishi", "Osaka city", "tower"), Place("", "Nishi", "tower"), Place("", "Osaka city", "tower"),
             Place("Nishi", "Osaka city", "house")}

Open == {r \in Requests : ~At(r, "idle")}

(***************************************************************************)
(* Bounds: the lives of two sessions with one address between them, where  *)
(* requests on different sessions meet as conversions only and files and   *)
(* locations are the first one's, previewed once it has its address; or    *)
(* one session that is only filled in, previewed and converted.            *)
(***************************************************************************)
Plain == \A s \in Sessions : \A f \in DOMAIN fields[s] :
             Said(f, fields[s][f].value, fields[s][f].status) \in FewAnswers

Lives ==
    /\ reports = {} /\ due <= 1 /\ Plain
    /\ \A r \in Open : req[r].op \in {"file", "location"} => Of(r) = 1
    /\ \A r \in Open : req[r].op = "preview" => Given(fields[Of(r)], "address")
    /\ \A q, r \in Open : Of(q) # Of(r) => req[q].op = "convert" /\ req[r].op = "convert"

Estimates ==
    /\ session[1].status # "erased" /\ session[2].status = "none" /\ clock = 0 /\ due = 2
    /\ Cardinality(Open) <= 1 /\ Cardinality(reports) <= 1
    /\ \A r \in Open : req[r].op \in {"field", "preview", "convert"}
    /\ Plain \/ \A r \in Open : req[r].op = "field" /\ session[1].status = "draft"
    /\ \A p \in properties : p.name = "home"

(***************************************************************************)
(* Photos of two rooms; what they show needs an area or not, asks for work *)
(* or not, and contradicts what another photo shows.                       *)
(***************************************************************************)
Sight(component, condition, scope, confidence, quantity, area) ==
    [component |-> component, condition |-> condition, scope |-> scope, confidence |-> confidence,
     quantity |-> quantity, area |-> area]

MCSightings == {<< >>,
                << Sight("wallpaper", "stained", "replace", "high", 1, NoArea) >>,
                << Sight("wallpaper", "unknown", "monitor", "low", 1, 30) >>,
                << Sight("toilet", "aged", "replace", "medium", 2, NoArea),
                   Sight("wallpaper", "worn", "surface_refresh", "low", 1, 20) >>,
                << Sight("toilet", "good", "unknown", "high", 3, NoArea) >>}

Photo(n, room, seen) == [id |-> n, room |-> room, observations |-> seen]

MCManifests ==
    {<< Photo(1, "bathroom", s) >> : s \in MCSightings}
    \union {<< Photo(1, "bathroom", s), Photo(2, room, t) >> :
              s \in MCSightings, t \in MCSightings, room \in {"bathroom", "bedroom"}}
    \union {<< Photo(1, "bathroom", s), Photo(2, "bathroom", t), Photo(3, "bathroom", u) >> :
              s \in MCSightings \ {<< >>}, t \in MCSightings, u \in MCSightings}
    \union {<< Photo(1, "bathroom", << >>), Photo(1, "bedroom", << >>) >>}

\* One request for an estimate, while there are no sessions; or sessions.
MCInit == Init /\ RenovationInit

NoSessions == \A s \in Sessions : session[s].status = "none"

SessionWorld    == Next /\ (Lives' \/ Estimates') /\ RenovationInit /\ UNCHANGED renovationVars
RenovationWorld == NoSessions /\ RenovationNext /\ UNCHANGED vars

MCNext == SessionWorld \/ RenovationWorld

MCSpec == MCInit /\ [][MCNext]_<<vars, renovationVars>>

\* The estimates a visitor is shown, of a session's property and of a
\* renovation, say what the rules and the evidence say.
EstimatesAreSound == PreviewsAreSound /\ RenovationsAreSound

Symmetry == Permutations(Requests)
=============================================================================
