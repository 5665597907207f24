----------------------------- MODULE Components -----------------------------
(***************************************************************************)
(* The components that share no state with others, side by side: a         *)
(* behaviour is one of the component that part names, and what the others  *)
(* own has no value for ever.  What they promise is stated here once, for  *)
(* MCComponents to check and for ComponentProofs to prove.                 *)
(***************************************************************************)
CONSTANTS
    NoValue,
    MiddlewareCount, GuardCount, InterceptorCount, PipeCount, FilterCount,
    MaxPolls,
    Connections, Rooms, ConnectHooks, DisconnectHooks, Nobody,
    Sends, Servers, Protocols, MaxServes, MaxLosses,
    Transactions, Statements,
    CacheClients, Jobs, Made, DefaultTtls, MaxJobs, CacheTime,
    Visits, Data, MaxOps,
    Ids, Health, Healthy, Loops, MaxChanges, MaxRegistrations, MaxFailures,
    Requests, Policies, Subjects, Limits, MaxWait, MaxClock,
    JobNames, OneShots, Clients, Outside, InitialJobs, MaxTurns, MaxStarts,
    MaxStops, MaxRuns,
    Types, MetaKeys, Metadata, Toggles, Names, MaxDeclarations,
    Lazies, Loaders, Imports, Forward, EagerSets,
    RoutesOffered, WebRequests, VersionOf, GlobalPrefix, Excluded, Strategies,
    MaxRoutes,
    BusCallers, Topics, Wildcard, Definitions, MaxHandlers,
    Paths, Hosts, MaxBuilds, MaxOwn,
    Tables, Incoming, Results, Errors, FilterLists, BodyLimit, MaxRequests,
    Fields, Bodies, Params, Queries, BodyTypes, OptionSets, ReplyShapes,
    Replies, MaxValidators, MaxInterceptors,
    PathShapes, ParamOf, Braced, ComponentNames, Properties, Locations,
    MaxDescribed, MaxDescriptions

VARIABLES
    part,       \* whose behaviour this is
    protocol, stage, passed, live, running, piped, handling, unfiltered,
    outcome, polls,
    task, connected, opened, table, closer, hooksLeft, rounds, writer,
    broadcast,
    transport, message, serving, serves, inbox, queue, unacked, deliveries,
    replies, ended, losses,
    executed, log, staged, finished, statement, callback, before,
    entries, now, default_ttl, provided, step, job, response, expires, answer,
    looks,
    store, jar, rolling, visit, ops, stray, torn,
    stored, cache, loop, watching, kept, boot, stop, reg, removing, changes,
    turns, failures, watched, raced,
    clock, policies, buckets, request,
    jobs, handles, starter, spawned, client, cycle, registrations, taken,
    starts, stops,
    handler, container, draft, members, global, given, declarations, built,
    modules, loading, target, walk, registered, links, result,
    routes, phase, versioning, asked, chosen,
    bus, subscribers, next_id, uninitialized, readiness, caller,
    family, enhancers, consumers, controller, endpoints, validation,
    overrides, builds, composed,
    mounted, elsewhere, filters, incoming, progress, remaining, raised,
    filtered, retained, consumed, delivered, addressed, received,
    origin, inherited, posted, content, pairs, lengths, validators, checking,
    shape, shapers, produced, payload,
    schema, media, documented, described, tags, document

-----------------------------------------------------------------------------
Pipeline == INSTANCE Dispatch
Sockets == INSTANCE WebSocketGateway
Messages == INSTANCE Transports WITH
    protocol <- transport, call <- message, tasks <- deliveries,
    faults <- losses, Calls <- Sends, MaxFaults <- MaxLosses
Db == INSTANCE Database WITH pending <- staged, call <- callback
Caching == INSTANCE ResponseCache WITH
    clock <- now, pc <- step, calls <- looks, Clients <- CacheClients,
    MaxCalls <- MaxJobs, MaxClock <- CacheTime, None <- NoValue
Cookies == INSTANCE Sessions WITH
    request <- visit, Requests <- Visits, Keys <- Data, None <- NoValue
Etcd == INSTANCE EtcdDiscovery WITH
    started <- watching, calls <- turns, faults <- failures, Values <- Health,
    MaxCalls <- MaxRegistrations, MaxFaults <- MaxFailures, None <- NoValue
Limiter == INSTANCE RateLimit
Schedule == INSTANCE Scheduler WITH
    running <- starter, tasks <- spawned, lifecycle <- cycle,
    made <- registrations, ops <- taken,
    Names <- JobNames, Timeouts <- OneShots, MaxOps <- MaxTurns, None <- NoValue
Handlers == INSTANCE HandlerDefinitions WITH
    of <- handler, calls <- declarations, Keys <- MetaKeys, Values <- Metadata,
    Options <- Toggles, MaxCalls <- MaxDeclarations, None <- NoValue
Lazy == INSTANCE LazyModules WITH
    cache <- modules, state <- loading, visiting <- walk, Modules <- Lazies,
    None <- NoValue
Routes == INSTANCE Routing WITH
    table <- routes, answer <- chosen, Declared <- RoutesOffered,
    Requests <- WebRequests, None <- NoValue
Bus == INSTANCE Buses WITH
    handlers <- subscribers, module <- readiness,
    Callers <- BusCallers, MaxRegistrations <- MaxHandlers
Composed == INSTANCE Composition WITH
    kind <- family, lists <- enhancers, entries <- consumers,
    routes <- endpoints, calls <- builds, built <- composed,
    MaxCalls <- MaxBuilds, None <- NoValue
Exchange == INSTANCE HttpExchange WITH
    table <- mounted, request <- incoming, stage <- progress,
    left <- remaining, error <- raised, asked <- filtered, kept <- retained,
    sent <- delivered, handled <- addressed, served <- received,
    Requests <- Incoming, None <- NoValue
Payload == INSTANCE Payloads WITH
    place <- origin, sent <- posted, data <- content, query <- pairs,
    stage <- checking, route <- shape, ran <- shapers, made <- produced,
    reply <- payload, Types <- BodyTypes, Shapes <- ReplyShapes,
    None <- NoValue
Document == INSTANCE OpenApi WITH
    routes <- documented, Shapes <- PathShapes, Names <- ComponentNames,
    None <- NoValue

(* What each owns, and at rest.                                            *)
PipelineVars == <<protocol, stage, passed, live, running, piped, handling,
    unfiltered, outcome, polls>>
SocketsVars == <<task, connected, opened, table, closer, hooksLeft, rounds,
    writer, broadcast>>
MessagesVars == <<transport, message, serving, serves, inbox, queue, unacked,
    deliveries, replies, ended, losses>>
DbVars == <<executed, log, staged, finished, statement, callback, before>>
CachingVars == <<entries, now, default_ttl, provided, step, job, response,
    expires, answer, looks>>
CookiesVars == <<store, jar, rolling, visit, ops, stray, torn>>
EtcdVars == <<stored, cache, loop, watching, kept, boot, stop, reg, removing,
    changes, turns, failures, watched, raced>>
LimiterVars == <<clock, policies, buckets, request>>
ScheduleVars == <<jobs, handles, starter, spawned, client, cycle,
    registrations, taken, starts, stops>>
HandlersVars == <<handler, container, draft, members, global, given,
    declarations, built>>
LazyVars == <<modules, loading, target, walk, registered, links, result>>
RoutesVars == <<routes, phase, versioning, asked, chosen>>
BusVars == <<bus, subscribers, next_id, uninitialized, readiness, caller>>
ComposedVars == <<family, enhancers, consumers, controller, endpoints,
    validation, overrides, builds, composed>>
ExchangeVars == <<mounted, elsewhere, filters, incoming, progress, remaining,
    raised, filtered, retained, consumed, delivered, addressed, received>>
PayloadVars == <<origin, inherited, posted, content, pairs, lengths,
    validators, checking, shape, shapers, produced, payload>>
DocumentVars == <<schema, media, documented, described, tags, document>>

PipelineRests ==
    /\ protocol = NoValue /\ stage = NoValue /\ passed = NoValue
    /\ live = NoValue /\ running = NoValue /\ piped = NoValue
    /\ handling = NoValue /\ unfiltered = NoValue /\ outcome = NoValue
    /\ polls = NoValue
SocketsRests ==
    /\ task = NoValue /\ connected = NoValue /\ opened = NoValue
    /\ table = NoValue /\ closer = NoValue /\ hooksLeft = NoValue
    /\ rounds = NoValue /\ writer = NoValue /\ broadcast = NoValue
MessagesRests ==
    /\ transport = NoValue /\ message = NoValue /\ serving = NoValue
    /\ serves = NoValue /\ inbox = NoValue /\ queue = NoValue
    /\ unacked = NoValue /\ deliveries = NoValue /\ replies = NoValue
    /\ ended = NoValue /\ losses = NoValue
DbRests ==
    /\ executed = NoValue /\ log = NoValue /\ staged = NoValue
    /\ finished = NoValue /\ statement = NoValue /\ callback = NoValue
    /\ before = NoValue
CachingRests ==
    /\ entries = NoValue /\ now = NoValue /\ default_ttl = NoValue
    /\ provided = NoValue /\ step = NoValue /\ job = NoValue
    /\ response = NoValue /\ expires = NoValue /\ answer = NoValue
    /\ looks = NoValue
CookiesRests ==
    /\ store = NoValue /\ jar = NoValue /\ rolling = NoValue
    /\ visit = NoValue /\ ops = NoValue /\ stray = NoValue
    /\ torn = NoValue
EtcdRests ==
    /\ stored = NoValue /\ cache = NoValue /\ loop = NoValue
    /\ watching = NoValue /\ kept = NoValue /\ boot = NoValue
    /\ stop = NoValue /\ reg = NoValue /\ removing = NoValue
    /\ changes = NoValue /\ turns = NoValue /\ failures = NoValue
    /\ watched = NoValue /\ raced = NoValue
LimiterRests ==
    /\ clock = NoValue /\ policies = NoValue /\ buckets = NoValue
    /\ request = NoValue
ScheduleRests ==
    /\ jobs = NoValue /\ handles = NoValue /\ starter = NoValue
    /\ spawned = NoValue /\ client = NoValue /\ cycle = NoValue
    /\ registrations = NoValue /\ taken = NoValue /\ starts = NoValue
    /\ stops = NoValue
HandlersRests ==
    /\ handler = NoValue /\ container = NoValue /\ draft = NoValue
    /\ members = NoValue /\ global = NoValue /\ given = NoValue
    /\ declarations = NoValue /\ built = NoValue
LazyRests ==
    /\ modules = NoValue /\ loading = NoValue /\ target = NoValue
    /\ walk = NoValue /\ registered = NoValue /\ links = NoValue
    /\ result = NoValue
RoutesRests ==
    /\ routes = NoValue /\ phase = NoValue /\ versioning = NoValue
    /\ asked = NoValue /\ chosen = NoValue
BusRests ==
    /\ bus = NoValue /\ subscribers = NoValue /\ next_id = NoValue
    /\ uninitialized = NoValue /\ readiness = NoValue /\ caller = NoValue
ComposedRests ==
    /\ family = NoValue /\ enhancers = NoValue /\ consumers = NoValue
    /\ controller = NoValue /\ endpoints = NoValue /\ validation = NoValue
    /\ overrides = NoValue /\ builds = NoValue /\ composed = NoValue
ExchangeRests ==
    /\ mounted = NoValue /\ elsewhere = NoValue /\ filters = NoValue
    /\ incoming = NoValue /\ progress = NoValue /\ remaining = NoValue
    /\ raised = NoValue /\ filtered = NoValue /\ retained = NoValue
    /\ consumed = NoValue /\ delivered = NoValue /\ addressed = NoValue
    /\ received = NoValue
PayloadRests ==
    /\ origin = NoValue /\ inherited = NoValue /\ posted = NoValue
    /\ content = NoValue /\ pairs = NoValue /\ lengths = NoValue
    /\ validators = NoValue /\ checking = NoValue /\ shape = NoValue
    /\ shapers = NoValue /\ produced = NoValue /\ payload = NoValue
DocumentRests ==
    /\ schema = NoValue /\ media = NoValue /\ documented = NoValue
    /\ described = NoValue /\ tags = NoValue /\ document = NoValue

parts ==
    <<part, PipelineVars, SocketsVars, MessagesVars, DbVars, CachingVars,
      CookiesVars, EtcdVars, LimiterVars, ScheduleVars, HandlersVars,
      LazyVars, RoutesVars, BusVars, ComposedVars, ExchangeVars, PayloadVars,
      DocumentVars>>

-----------------------------------------------------------------------------
PartsInit ==
    /\ IF part = "dispatch" THEN Pipeline!Init ELSE PipelineRests
    /\ IF part = "gateway" THEN Sockets!Init ELSE SocketsRests
    /\ IF part = "transport" THEN Messages!Init ELSE MessagesRests
    /\ IF part = "database" THEN Db!Init ELSE DbRests
    /\ IF part = "cache" THEN Caching!Init ELSE CachingRests
    /\ IF part = "sessions" THEN Cookies!Init ELSE CookiesRests
    /\ IF part = "discovery" THEN Etcd!Init ELSE EtcdRests
    /\ IF part = "limits" THEN Limiter!Init ELSE LimiterRests
    /\ IF part = "scheduler" THEN Schedule!Init ELSE ScheduleRests
    /\ IF part = "handlers" THEN Handlers!Init ELSE HandlersRests
    /\ IF part = "lazy" THEN Lazy!Init ELSE LazyRests
    /\ IF part = "routing" THEN Routes!Init ELSE RoutesRests
    /\ IF part = "buses" THEN Bus!Init ELSE BusRests
    /\ IF part = "composition" THEN Composed!Init ELSE ComposedRests
    /\ IF part = "exchange" THEN Exchange!Init ELSE ExchangeRests
    /\ IF part = "payloads" THEN Payload!Init ELSE PayloadRests
    /\ IF part = "openapi" THEN Document!Init ELSE DocumentRests

(* What is not the part under way stays as it is.                          *)
OthersRest ==
    /\ IF part = "dispatch" THEN TRUE ELSE UNCHANGED PipelineVars
    /\ IF part = "gateway" THEN TRUE ELSE UNCHANGED SocketsVars
    /\ IF part = "transport" THEN TRUE ELSE UNCHANGED MessagesVars
    /\ IF part = "database" THEN TRUE ELSE UNCHANGED DbVars
    /\ IF part = "cache" THEN TRUE ELSE UNCHANGED CachingVars
    /\ IF part = "sessions" THEN TRUE ELSE UNCHANGED CookiesVars
    /\ IF part = "discovery" THEN TRUE ELSE UNCHANGED EtcdVars
    /\ IF part = "limits" THEN TRUE ELSE UNCHANGED LimiterVars
    /\ IF part = "scheduler" THEN TRUE ELSE UNCHANGED ScheduleVars
    /\ IF part = "handlers" THEN TRUE ELSE UNCHANGED HandlersVars
    /\ IF part = "lazy" THEN TRUE ELSE UNCHANGED LazyVars
    /\ IF part = "routing" THEN TRUE ELSE UNCHANGED RoutesVars
    /\ IF part = "buses" THEN TRUE ELSE UNCHANGED BusVars
    /\ IF part = "composition" THEN TRUE ELSE UNCHANGED ComposedVars
    /\ IF part = "exchange" THEN TRUE ELSE UNCHANGED ExchangeVars
    /\ IF part = "payloads" THEN TRUE ELSE UNCHANGED PayloadVars
    /\ IF part = "openapi" THEN TRUE ELSE UNCHANGED DocumentVars

PartsNext ==
    /\ UNCHANGED part
    /\ \/ part = "dispatch" /\ Pipeline!Next
       \/ part = "gateway" /\ Sockets!Next
       \/ part = "transport" /\ Messages!Next
       \/ part = "database" /\ Db!Next
       \/ part = "cache" /\ Caching!Next
       \/ part = "sessions" /\ Cookies!Next
       \/ part = "discovery" /\ Etcd!Next
       \/ part = "limits" /\ Limiter!Next
       \/ part = "scheduler" /\ Schedule!Next
       \/ part = "handlers" /\ Handlers!Next
       \/ part = "lazy" /\ Lazy!Next
       \/ part = "routing" /\ Routes!Next
       \/ part = "buses" /\ Bus!Next
       \/ part = "composition" /\ Composed!Next
       \/ part = "exchange" /\ Exchange!Next
       \/ part = "payloads" /\ Payload!Next
       \/ part = "openapi" /\ Document!Next
    /\ OthersRest

PartsSpec == PartsInit /\ [][PartsNext]_parts

-----------------------------------------------------------------------------
(* One run at a time behind an interceptor, and none refused for one that  *)
(* is over (interceptor.rs, CallHandler).                                  *)
OneRunAtATime == part = "dispatch" => Pipeline!OneRunAtATime

(* A connection that is gone is in no table and no room, and its           *)
(* disconnect hooks ran once, whoever closed it (connection.rs, close;     *)
(* state.rs).                                                              *)
ConnectionsClose ==
    part = "gateway" => Sockets!GoneIsForgotten /\ Sockets!DisconnectedOnce

(* RabbitMQ messages are handled or kept (rabbitmq.rs), and nobody is told *)
(* the result of a handler that has not ended (src/transport).             *)
AckedIsHandled ==
    part = "transport" => Messages!AckedIsHandled /\ Messages!AnsweredIsHandled

(* A transaction is logged once, with what it accepted (database.rs).      *)
LoggedOnce == part = "database" => Db!LoggedOnce

(* What a request or call finds in the cache was made for its key, whole,  *)
(* of its type, and has not expired (cache.rs, short_circuit, get, set).   *)
HitsAreTrue == part = "cache" => Caching!HitsAreTrue

(* The browser's cookie and the session's data agree (session/).           *)
CookieFollowsData == part = "sessions" => Cookies!CookieFollowsData

(* The cache is the prefix of etcd as far as the watch has told            *)
(* (etcd.rs, apply_watch_event and refresh).                               *)
CacheFollows == part = "discovery" => Etcd!CacheFollows

(* Who is limited had used up the window (rate_limit.rs, acquire).         *)
LimitedWhenFull == part = "limits" => Limiter!LimitedWhenFull

(* Every job registered while start runs is spawned by one of the two, a   *)
(* one-shot job runs once for each start, and the tasks that shutdown      *)
(* found are over when it returns (schedule.rs, schedule, spawn_job and    *)
(* shutdown).                                                              *)
JobsRunAsAsked ==
    part = "scheduler" =>
        /\ Schedule!AllSpawned
        /\ Schedule!TimeoutOnce
        /\ Schedule!StoppedMeansStopped

(* Metadata and validation reach every handler, and names are unique,      *)
(* whatever the order of the builders' calls (controller.rs, gateway.rs,   *)
(* pattern.rs).                                                            *)
HandlersKnow ==
    part = "handlers" =>
        /\ Handlers!MetadataReaches
        /\ Handlers!ValidationMerges
        /\ Handlers!NamesAreUnique

(* Pipelines nest as declared, and defaults, metadata and validation reach *)
(* every handler, whatever the order of the builders' calls (builder.rs,   *)
(* controller.rs, gateway.rs, pattern.rs).                                 *)
ScopesNest ==
    /\ part = "composition" => Composed!ScopesNest /\ Composed!DefaultsReach
    /\ HandlersKnow

(* Which route answers does not depend on the order of declaration         *)
(* (application.rs, best_request_specificity).                             *)
OrderIndependent == part = "routing" => Routes!OrderIndependent

(* A call runs the handlers it found, in order (events.rs, bus.rs).        *)
CallsWhatItFound == part = "buses" => Bus!CallsWhatItFound

(* Handlers get whole bodies within the limit, errors keep their status on *)
(* the way through the filters, Allow names the methods that a route takes *)
(* in either kind of routing, and what is sent is valid (axum.rs,          *)
(* error.rs).  Handlers find what was validated, and what is excluded from *)
(* a response stays (validation.rs, serialization.rs).                     *)
ExchangeHolds ==
    /\ part = "exchange" =>
            /\ Exchange!HandlesWhole
            /\ Exchange!StatusKept
            /\ Exchange!AllowIsTrue
            /\ Exchange!SentAsSaid
            /\ Exchange!NotExcluded
    /\ part = "payloads" =>
            /\ Payload!HandlerGetsValid
            /\ Payload!RefusedOrWhole
            /\ Payload!ExcludedStays

(* The document has each route at its path and method, each parameter      *)
(* once, and schemas that are split without loss (openapi.rs, from_routes).*)
DocumentAgrees ==
    part = "openapi" =>
        /\ Document!DescribesDeclared
        /\ Document!ParametersOnce
        /\ Document!SchemasSplit

(* One instance of a lazy module, complete (lazy.rs, cache_modules).       *)
OneModulePerName == part = "lazy" => Lazy!OneModulePerName
=============================================================================
