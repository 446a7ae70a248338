SPECIFICATION Spec
CONSTANTS
    MaxStatements = 4
    MAX_RESOLVE_DEPTH = 3
    MaxNodes = 7
    MaxPending = 2
    Requests = {r1, r2}
    MaxRows = 3
    Seeders = {s1, s2}
    MaxClicks = 5
    Findings = {f1, f2}
    MaxScans = 4
    ListLimit = 3
    Tabs = {t1, t2}
    MaxSessions = 2
    Scanners = {p1, p2}
    Urls = {u1, u2}
    Names = {n1}
    MaxRequests = 3
    Askers = {a1, a2}
    Evidence = {e1, e2}
    Models = {m1, m2}
    retries = 1
INVARIANTS
    NothingIsReordered
    SuggestionIsRunnable
    SplitOnlyByDependency
    AbsenceIsReal
    UnboundedIsReported
    FanOutIsSeeded
    LayersAgree
    StaticFindsTheSeeded
    SkippedMeansComplete
    ChooseIsCurrent
    ComparedIsPrevious
    ReturnsWhereHeaded
    
    ExplanationsAreKept
PROPERTIES
    LoadingEnds
    NavigationSettles
CHECK_DEADLOCK FALSE
