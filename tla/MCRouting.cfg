SPECIFICATION RoutingSpec
CONSTANTS
    Segments = {"", " ", "a", "b", "x"}
    Paths <- MCPaths
    Methods = {"GET", "POST", "get", ""}
    Legal = {"GET", "POST"}
    RouteIds = {i1, i2}
    Services = {s1, s2, spaced2}
    s1 = s1
    s2 = s2
    spaced2 = spaced2
    Asked <- MCAsked
    TrimSpace <- MCTrimSpace
    ToUpper <- MCToUpper
    TrimName <- MCTrimName
    Chars <- MCChars
    BasePath <- MCBasePath
    Sent <- MCSentAll
    Admins = {a1, a2}
    Requests = {q1}
    MaxUpdates = 2
INVARIANTS
    TypeOK
    DuplicatesOnlyByFailure
    SteadyRouteFound
    LooseningIsSafe
    StrippedWithoutBase
