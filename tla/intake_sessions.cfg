\* Two sessions, two requests and a cleanup pass at a time.
SPECIFICATION MCSpec
CONSTANTS
    Snapshots <- MCSnapshots
    PartOf <- MCPartOf
    Rates <- MCRates
    Sessions = {1, 2}
    Users = {"ann"}
    Requests = {q1, q2}
    Cleaners = {"c"}
    Batch = 1
    MaxFiles = 1
    Locations = {"here"}
    Answers <- ManyAnswers
    ManualNames <- MCManualNames
    Places <- MCPlaces
    Manifests <- MCManifests
    Sightings <- MCSightings
SYMMETRY Symmetry
INVARIANTS ConvertedProjectsAreWhole FilesAreKnown EstimatesAreSound
CHECK_DEADLOCK FALSE
