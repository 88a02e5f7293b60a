SPECIFICATION RecordsSpec
CONSTANTS
    Conns = {c1}
    Replays = {q1}
    Rules = {r1}
    Scopes = {p1, none}
    Bodies = {b1, b2}
    NoRow = NoRow
    NoBody = NoBody
    NoRule = NoRule
    NoSource = NoSource
    CaptureFilters <- MCFilters
    CaptureRows <- MCRows
    Heads <- MCHeads
    Mimes <- MCMimes
    Devices <- MCDevices
    Endings <- MCEndings
    MaxCaptures = 4
    Described = {1, 2, 4}
    Want = 2
    FeedCapacity = 1
    ListLimit = 2
    Phones = {"d1", "d2"}
    Watched = "d1"
    Filters = {{1, 2, 3}, {1, 3}, {2}}
    SqlRefuses = {{2}}
    WindowRefuses = {{1, 3}}
    QueryLimit = 1
    OlderPage = 1
    MaxSeq = 2
    MaxLine = 3
    RingSize = 1
    BatchSize = 3
    Cap = 1
    Chunk = 1
    MaxAge = 1
    MaxClears = 1
    MaxId = 3
    LogFilters <- MCLogFilters
    LogRows <- MCRowsLog
    Pids = {1, 2}
    Apps = {"com.a", "com.b"}
    AppPart <- MCAppPart
INVARIANTS
    RowsTellTheTruth
    ForeignKeysHold
    NegationSplits
    WaitingIsExact
    ShownIsAsked
    AppNarrows
PROPERTIES
    ListedStaysListed
    PruneIsExact
    HistoryStays
CHECK_DEADLOCK FALSE
