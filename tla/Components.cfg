SPECIFICATION MCSpec
CONSTANTS
    None = None
    Error = Error
    ma = ma
    mb = mb
    mc = mc
    Modules = {ma, mb, mc}
    Graphs <- SmallGraphs
    Entries <- ABC
    Microservices = 1
    MaxCalls = 2
    MaxFaults = 1
    NoValue = None
    MiddlewareCount = 1
    GuardCount = 2
    InterceptorCount = 2
    PipeCount = 2
    FilterCount = 2
    MaxPolls = 6
    Connections = {"c1", "c2"}
    Rooms = {"room"}
    ConnectHooks = 2
    DisconnectHooks = 2
    Nobody = None
    Sends = {"m"}
    Servers = {"s1", "s2"}
    Protocols = {"redis", "nats", "mqtt", "kafka", "rabbitmq", "tcp", "grpc", "in process"}
    MaxServes = 2
    MaxLosses = 1
    Transactions = {"t1", "t2"}
    Statements = {"s1", "s2"}
    CacheClients = {"c1", "c2"}
    Jobs <- CacheJobs
    Made <- CacheMade
    DefaultTtls = {None, 1}
    MaxJobs = 3
    CacheTime = 2
    Visits = {"r1", "r2", "r3"}
    Data = {"k"}
    MaxOps = 2
    Ids = {"i1"}
    Health = {"up", "down"}
    Healthy = {"up"}
    Loops = {"l1", "l2"}
    MaxChanges = 3
    MaxRegistrations = 2
    MaxFailures = 1
    Requests = {"r1", "r2", "r3"}
    Policies = {"p"}
    Subjects = {"s", "t"}
    Limits <- TwoLimits
    MaxWait = 1
    MaxClock = 4
    JobNames = {"once", "tick"}
    OneShots = {"once"}
    Clients = {"c1", "c2"}
    Outside = {"c2"}
    InitialJobs = {"tick"}
    MaxTurns = 2
    MaxStarts = 2
    MaxStops = 1
    MaxRuns = 1
    Types = {"t"}
    MetaKeys = {"k"}
    Metadata = {"v", "w"}
    Toggles = {"transform"}
    Names = {"n", "m"}
    MaxDeclarations = 4
    Lazies <- LazyNames
    Loaders = {"l1", "l2"}
    Imports <- LazyImports
    Forward <- LazyForward
    EagerSets <- TwoEagers
    RoutesOffered <- DeclaredRoutes
    WebRequests <- RoutedRequests
    VersionOf <- VersionSegments
    GlobalPrefix <- ApiPrefix
    Excluded <- Unprefixed
    Strategies <- Versionings
    MaxRoutes = 2
    BusCallers = {"c1"}
    Topics = {"x", "y"}
    Wildcard = "*"
    Definitions <- DeclaredTopics
    MaxHandlers = 4
    Paths = {"path"}
    Hosts = {"host"}
    MaxBuilds = 3
    MaxOwn = 1
    Tables <- ExchangeTables
    Incoming <- ExchangeRequests
    Results <- ExchangeResults
    Errors <- ExchangeErrors
    FilterLists <- ExchangeFilters
    BodyLimit = 2
    MaxRequests = 2
    Fields <- PayloadFields
    Bodies <- PayloadBodies
    Params <- PayloadParams
    Queries <- PayloadQueries
    BodyTypes <- PayloadTypes
    OptionSets <- PayloadOptions
    ReplyShapes <- PayloadShapes
    Replies <- PayloadReplies
    MaxValidators = 2
    MaxInterceptors = 2
    PathShapes <- DescribedShapes
    ParamOf <- PathParameters
    Braced <- WildcardNames
    ComponentNames = {"n"}
    Properties = {"n", "m"}
    Locations = {"path", "query"}
    MaxDescribed = 2
    MaxDescriptions = 2
INVARIANTS UpInOrder ServesWhileUp JobsRunAsAsked ProvidersResolve OrderIndependent CacheFollows ScopesNest OneRunAtATime ConnectionsClose OneModulePerName AckedIsHandled CallsWhatItFound LoggedOnce CookieFollowsData LimitedWhenFull DocumentAgrees ExchangeHolds HitsAreTrue
PROPERTY CommitsAreSteps
CHECK_DEADLOCK FALSE
