-------------------------- MODULE RenovationEstimate --------------------------
(***************************************************************************)
(* The rough renovation estimate (backend/app/renovation, routes/          *)
(* renovation.py) of one request: a visitor sends photos with what can be  *)
(* seen in them, or leaves the seeing to a provider that answers for each  *)
(* photo in any order, twice, for other photos, or not at all.             *)
(* An observation is [component, condition, scope, confidence, quantity,   *)
(* area]; quantities and areas are whole numbers.                          *)
(***************************************************************************)
EXTENDS Integers, Sequences, FiniteSets, FiniteSetsExt, SequencesExt, TLC

CONSTANTS Manifests,   \* what a visitor may send: sequences of [id, room, observations]
          Sightings    \* what the provider may see in a photo: sequences of observations

VARIABLES request,     \* [at, photos, answer, context]: context says whether it is complete
          estimate     \* the answer, or NoEstimate

renovationVars == <<request, estimate>>

NoArea     == 0        \* area_m2 is None; areas given are positive
NoPhoto    == 0        \* an id nobody has given
NoEstimate == [status |-> "none"]
NoPhotos   == [at |-> "open", photos |-> << >>, answer |-> << >>, context |-> FALSE]

RenovationInit == request = NoPhotos /\ estimate = NoEstimate

Rule(unit, low, high, sources) == [unit |-> unit, low |-> low, high |-> high, sources |-> sources]

RULES == [unit_bath |-> Rule("job", 600000, 1500000, {"unit-bath-reform-guide", "unit-bath-toto"}),
          wallpaper |-> Rule("m2", 1100, 1550, {"wallpaper-homepro"}),
          flooring  |-> Rule("m2", 15000, 20000, {"flooring-homepro"}),
          kitchen   |-> Rule("job", 760000, 1330000, {"kitchen-toto"}),
          toilet    |-> Rule("job", 80000, 350000, {"toilet-andreform"}),
          washstand |-> Rule("job", 150000, 300000, {"washstand-ishome"}),
          tatami    |-> Rule("mat", 8000, 10500, {"tatami-meetsmore"})]

SCOPE_PRIORITY ==
    [replace |-> 5, surface_refresh |-> 4, repair |-> 3, monitor |-> 2, unknown |-> 1]
CONFIDENCE_PRIORITY == [high |-> 3, medium |-> 2, low |-> 1]

Higher(priority, new, old) == IF priority[new] > priority[old] THEN new ELSE old
Larger(a, b)               == IF a > b THEN a ELSE b

(***************************************************************************)
(* _merge_observations: what the photos show of a component of a room.     *)
(***************************************************************************)
Observed(photos) ==
    FlattenSeq([n \in DOMAIN photos |->
        [m \in DOMAIN photos[n].observations |->
            [key |-> <<photos[n].room, photos[n].observations[m].component>>,
             photo |-> photos[n].id, saw |-> photos[n].observations[m]]]])

\* Mutant: the last photo that shows a component decides.
MergeLast(merged, o) ==
    (o.key :> [condition |-> o.saw.condition, scope |-> o.saw.scope, confidence |-> o.saw.confidence,
               quantity |-> o.saw.quantity, area |-> o.saw.area, photos |-> {o.photo}]) @@ merged

Merge(merged, o) ==
    LET known == o.key \in DOMAIN merged
        old   == IF known THEN merged[o.key]
                 ELSE [condition |-> o.saw.condition, scope |-> o.saw.scope, confidence |-> o.saw.confidence,
                       quantity |-> o.saw.quantity, area |-> o.saw.area, photos |-> {}]
    IN (o.key :> [condition  |-> IF o.saw.condition # "unknown" THEN o.saw.condition ELSE old.condition,
                  scope      |-> Higher(SCOPE_PRIORITY, o.saw.scope, old.scope),
                  confidence |-> Higher(CONFIDENCE_PRIORITY, o.saw.confidence, old.confidence),
                  quantity   |-> Larger(o.saw.quantity, old.quantity),
                  area       |-> Larger(o.saw.area, old.area),
                  photos     |-> old.photos \union {o.photo}]) @@ merged

MergeObservations(photos) == FoldLeft(Merge, << >>, Observed(photos))

(***************************************************************************)
(* build_estimate                                                          *)
(***************************************************************************)
PerArea(key) == RULES[key[2]].unit = "m2"

BuildEstimate(photos, source, context) ==
    LET merged      == MergeObservations(photos)
        unscoped    == {k \in DOMAIN merged : merged[k].scope \notin {"replace", "surface_refresh"}}
        unmeasured  == {k \in DOMAIN merged \ unscoped : PerArea(k) /\ merged[k].area = NoArea}
        priced      == DOMAIN merged \ (unscoped \union unmeasured)
        amount(k)   == IF PerArea(k) THEN merged[k].area ELSE merged[k].quantity
        items       == [k \in priced |-> [quantity |-> amount(k), condition |-> merged[k].condition,
                                          confidence |-> merged[k].confidence, photos |-> merged[k].photos,
                                          low |-> RULES[k[2]].low * amount(k), high |-> RULES[k[2]].high * amount(k)]]
        shown       == UNION {items[k].photos : k \in priced}
        limitations == {<<"unscoped", k>> : k \in unscoped} \union {<<"unmeasured", k>> : k \in unmeasured}
                       \union (IF DOMAIN merged = {} THEN {<<"nothing observed">>} ELSE {})
                       \union (IF DOMAIN merged # {} /\ priced = {} THEN {<<"nothing priced">>} ELSE {})
                       \union (IF Cardinality(shown) < Len(photos) THEN {<<"photos left out">>} ELSE {})
    IN [status      |-> "completed",
        seen        |-> IF DOMAIN merged = {} THEN "no_observations" ELSE source,
        items       |-> items,
        low         |-> FoldLeft(LAMBDA sum, k : sum + items[k].low, 0, SetToSeq(priced)),
        high        |-> FoldLeft(LAMBDA sum, k : sum + items[k].high, 0, SetToSeq(priced)),
        sources     |-> UNION {RULES[k[2]].sources : k \in priced},
        limitations |-> limitations,
        confidence  |-> IF priced # {} /\ limitations = {} /\ context THEN "medium" ELSE "low"]

(***************************************************************************)
(* The routes.  Requests over the hourly limit, without photos, with an id *)
(* used twice or with files other than those of the manifest are refused.  *)
(***************************************************************************)
Accepted(photos) == photos # << >> /\ Cardinality({photos[n].id : n \in DOMAIN photos}) = Len(photos)

Complete(sent, photos, source, context) ==
    /\ request' = [at |-> "answered", photos |-> sent, answer |-> photos, context |-> context]
    /\ estimate' = BuildEstimate(photos, source, context)

Turn(at) == request' = [request EXCEPT !.at = at] /\ UNCHANGED estimate

\* create_estimate: the observations are the visitor's.
CreateEstimate(photos, context) ==
    /\ request.at = "open" /\ Accepted(photos)
    /\ Complete(photos, photos, "structured_observations", context)

\* analyze_uploaded_images: with any observation the provider is not asked.
AnalyzeUploadedImages(photos, context) ==
    /\ request.at = "open" /\ Accepted(photos)
    /\ \/ /\ \E n \in DOMAIN photos : photos[n].observations # << >>
          /\ Complete(photos, photos, "structured_observations", context)
       \/ /\ \A n \in DOMAIN photos : photos[n].observations = << >>
          /\ request' = [at |-> "asked", photos |-> photos, answer |-> << >>, context |-> context]
          /\ UNCHANGED estimate

\* get_vision_provider has none to offer, or its call fails: 503.
ProviderFails == request.at = "asked" /\ Turn("unavailable")

IdsOf(photos) == {photos[n].id : n \in DOMAIN photos}

\* HttpVisionProvider.analyze: the ids must be those asked for, as sets, and a
\* room is the manifest's.  An answer that names a photo twice passes this test,
\* and the request it is made into is invalid: 500.
Analyze(answer) ==
    LET room(id) == request.photos[CHOOSE n \in DOMAIN request.photos : request.photos[n].id = id].room
        photos   == [n \in DOMAIN answer |-> [id |-> answer[n].id, room |-> room(answer[n].id),
                                              observations |-> answer[n].observations]]
    IN /\ request.at = "asked"
       /\ \/ IdsOf(answer) # IdsOf(request.photos) /\ Turn("unavailable")
          \/ IdsOf(answer) = IdsOf(request.photos) /\ ~Accepted(photos) /\ Turn("failed")
          \/ /\ IdsOf(answer) = IdsOf(request.photos) /\ Accepted(photos)
             /\ Complete(request.photos, photos, "vision_provider", request.context)

RenovationNext ==
    \/ \E photos \in Manifests, context \in BOOLEAN :
          CreateEstimate(photos, context) \/ AnalyzeUploadedImages(photos, context)
    \/ ProviderFails
    \/ \E n \in 1..(Len(request.photos) + 1) :
          \E answer \in [1..n -> [id : IdsOf(request.photos) \union {NoPhoto}, observations : Sightings]] :
             Analyze(answer)

(***************************************************************************)
(* What an estimate promises.                                              *)
(***************************************************************************)
\* However often and in whatever order photos show it, a component of a room is
\* priced exactly once, at the most that any of them shows, if one asks for its
\* replacement or refreshing and the area it needs is known; no room is
\* invented, and confidence is medium only when every photo counts.
RenovationsAreSound ==
    estimate # NoEstimate =>
        LET seen      == ToSet(Observed(request.answer))
            keys      == {o.key : o \in seen}
            amount(k) == Max({IF PerArea(k) THEN o.saw.area ELSE o.saw.quantity :
                                 o \in {o \in seen : o.key = k}})
            wanted(k) == \E o \in seen : o.key = k /\ o.saw.scope \in {"replace", "surface_refresh"}
        IN /\ DOMAIN estimate.items = {k \in keys : wanted(k) /\ amount(k) # NoArea}
           /\ \A k \in DOMAIN estimate.items :
                 /\ estimate.items[k].low = RULES[k[2]].low * amount(k)
                 /\ estimate.items[k].high = RULES[k[2]].high * amount(k)
                 /\ \E n \in DOMAIN request.photos : request.photos[n].room = k[1]
           /\ estimate.confidence = "medium" =>
                 IdsOf(request.photos) = UNION {estimate.items[k].photos : k \in DOMAIN estimate.items}
===============================================================================
