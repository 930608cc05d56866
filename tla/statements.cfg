\* Two users of two organisations with two requests at a time.
SPECIFICATION MCSpec
CONSTANTS
    Users = {"u1", "u2"}
    Orgs = {"o1", "o2"}
    Requests = {r1, r2}
    Cities <- MCCities
    Wards <- MCWards
    Overrides <- MCOverrides
    Registry <- MCRegistry
    References <- MCReferences
    Memberships <- MCMemberships
    PersonalPlan <- MCPersonal
    Limits <- MCLimits
    Reports <- MCReports
    ExportAsks <- MCExportAsks
    AnalysisAsks <- MCAnalysisAsks
    RegionAsks <- MCRegionAsks
    Files <- MCFiles
    Source = "official"
    ChunkSize = 6
    RowFloor = 1
    WindowsPerMonth = 2
    LastWindow = 3
    LastImport = 2
SYMMETRY Symmetry
INVARIANTS ExportsAreBilled StatisticsArePaid ImportsAreWhole StatisticsAreSound
