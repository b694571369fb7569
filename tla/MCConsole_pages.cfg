SPECIFICATION ConsoleSpec
CONSTANTS
    r1 = r1
    r2 = r2
    MaxRows = 2
    MaxEntries = 3
    MaxSources = 3
    Calls = {r1, r2}
    Visited <- SomePaths
    MaxLogins = 3
    MaxMishaps = 2
    Accounts = {r1, r2}
    MaxDetails = 3
    MaxAccountActs = 2
    Visits = {"users", "audit", "tokens", "crons", "schemas", "jobs"}
    MaxLists = 4
    MaxListActs = 2
    MaxBackups = 1
    MaxAttempts = 2
    MaxBackupLists = 4
    Statements = {"a", "b"}
    MaxHistory = 2
    MaxRuns = 3
    RlsSchemas = {"a", "b"}
    Names = {"t", "u"}
    MaxPolicyLists = 4
    MaxDryRuns = 2
    PageJobs = {r1, r2}
    MaxMoves = 2
    MaxJobActs = 2
    MaxJobLists = 2
    Files = {"a", "b"}
    MaxSignings = 4
    Templates = {r1, r2}
    MaxEdits = 2
    MaxTemplateLists = 3
    EdgeFunctions = {"f", "g", "h"}
    MethodsOf <- SomeMethods
    MaxInvocations = 3
    MaxJumps = 2
    Tables = {"a", "b"}
    Subs = {"u"}
    MaxRowLoads = 4
    TailTopics = {"t"}
    MaxShown = 2
    MaxEvents = 4
    MaxStreams = 3
    Taps = {"p"}
    JwtUsers = {"u"}
    MaxConnections = 2
    MaxJoins = 2
    PeerSockets = {r1, r2}
    PeerTopics = {"a"}
    PeerIdents = {"anon"}
    PeerFilters = {{}}
    PeerSubs = 1
    PeerQueue = 2
    PeerTracks = 2
    PeerChanges = 0
    PeerTokens = 0
    PeerCasts = 1
    Readers = {"s"}
    ReaderTopics = {"a", "b"}
    ReaderIdents = {"anon", "u"}
    ReaderFilters = {{"write", "delete"}, {"write"}}
    ReaderSubs = 2
    ReaderQueue = 1
    ReaderTracks = 0
    ReaderChanges = 1
    ReaderTokens = 1
    ReaderCasts = 0
SYMMETRY Symmetry
\* the operator may leave any page alone
CHECK_DEADLOCK FALSE
INVARIANTS
    SessionIsTold ListIsOfQuery OperationsAreFollowed
    ResultsAreOfTheirRun PanelIsOfItsSubject StreamsAreTails
    SubscribersAreTold
PROPERTIES StepsHaveCause TailImplemented
