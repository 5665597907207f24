---------------------------- MODULE MCComponents ----------------------------
(***************************************************************************)
(* The components that share no state with others, side by side: a         *)
(* behaviour is one of the application, of a part of Components or of one  *)
(* of the parts below, whose variables are x1, x2, ...                     *)
(***************************************************************************)
EXTENDS MCApplication, Components, TLC

CONSTANT Error   \* the outcome of a resolution that fails

VARIABLES x1, x2, x3, x4, x5, x6, x7, x8, x9, x10, x11

-----------------------------------------------------------------------------
(* Routes: literals, parameters and wildcards, with and without host and   *)
(* version; "vets" looks like a version where the prefix is "v".           *)
At(method, path, host, version) ==
    [method |-> method, path |-> path, host |-> host, version |-> version]
Versions(s) == [kind |-> "versions", of |-> s]
AnyVersion == [kind |-> "neutral", of |-> {}]
NoVersion == [kind |-> "unspecified", of |-> {}]
Api == <<"api", "example">>

DeclaredRoutes ==
    {At("GET", <<"cats">>, <<>>, v) :
        v \in {NoVersion, Versions({"1"}), Versions({"1", "2"})}}
    \cup {At("GET", <<"cats">>, Api, NoVersion),
          At("GET", <<"cats">>, <<"any", "example">>, AnyVersion),
          At("ALL", <<"cats">>, <<>>, NoVersion),
          At("POST", <<"any">>, <<>>, NoVersion),
          At("GET", <<"any">>, <<>>, AnyVersion),
          At("GET", <<"rest">>, <<>>, NoVersion),
          At("GET", <<"vets", "any">>, <<>>, Versions({"2"})),
          At("OPTIONS", <<"api", "cats">>, Api, NoVersion),
          At("GET", <<"any", "cats">>, <<>>, NoVersion)}

RoutedRequests ==
    [method : {"GET", "POST"},
     path : {<<"api", "cats">>, <<"api", "v1", "cats">>,
             <<"api", "vets", "cats">>, <<"cats">>, <<"api">>},
     host : {Api, <<"my", "example">>, <<"localhost">>},
     version : {None, "1", "2"}]

ApiPrefix == <<"api">>
Unprefixed == {<<"api", "cats">>}
VersionSegments == ("v1" :> "1") @@ ("vets" :> "ets")

Versionings ==
    {[strategy |-> "none", default |-> None],
     [strategy |-> "uri", default |-> None],
     [strategy |-> "header", default |-> "1"]}

(* Lazy modules: a imports b; b and c import one another forwards; d       *)
(* imports itself after a.                                                 *)
LazyNames == {"a", "b", "c", "d"}
LazyImports == [m \in LazyNames |->
    CASE m = "a" -> <<"b">> [] m = "d" -> <<"a", "d">> [] OTHER -> <<>>]
LazyForward == [m \in LazyNames |->
    CASE m = "b" -> <<"c">> [] m = "c" -> <<"b">> [] OTHER -> <<>>]

TwoEagers == {{}, {"b", "c"}}

(* Limits of rates.                                                        *)
TwoLimits == {[max |-> 1, window |-> 2], [max |-> 2, window |-> 3]}

(* Three modules, the middle one global: the last one's providers need one *)
(* another and what the others export, in every scope.                     *)
Defined == INSTANCE ProviderDefinitions
D(t) == Defined!Dependency(t)

ProviderImports == [m \in {"lib", "mid", "app"} |->
    CASE m = "mid" -> <<"lib">> [] m = "app" -> <<"mid">> [] OTHER -> <<>>]
ProviderExports == [m \in {"lib", "mid", "app"} |->
    CASE m = "lib" -> <<"s">> [] m = "mid" -> <<"s", "t">> [] OTHER -> <<>>]

Overriding == [t \in {"o"} |-> Defined!Value(t)]

AppProviders ==
    {<<x, y>> :
        x \in {Defined!Injectable("a", <<D("t"), D("b")>>),
               Defined!Factory("a", <<D("b")>>),
               Defined!WithDependencies(
                    Defined!AsyncFactory(
                        "a", <<D("b"), Defined!Optional(D("z"))>>)),
               Defined!WithHooks(
                    Defined!Injectable("a", <<Defined!Lazy(D("t"))>>)),
               Defined!Alias("a", "b")},
        y \in {Defined!Injectable("b", <<Defined!Lazy(D("a")), D("t")>>),
               Defined!Injectable("b", <<D("a")>>),
               Defined!WithDependencies(
                    Defined!AsyncFactory("b", <<D("t")>>)),
               Defined!Transient("b", <<D("t"), Defined!Lazy(D("a"))>>),
               Defined!RequestScoped("b", <<D("t")>>)}}
    \cup {<<Defined!WithDependencies(
                Defined!AsyncFactory("a", <<D("c")>>)),
            Defined!Alias("c", "b"),
            Defined!WithDependencies(Defined!AsyncFactory("b", <<>>))>>,
          <<Defined!Alias("b", "a"), Defined!Alias("a", "b"),
            Defined!Transient("c", <<D("a")>>)>>,
          <<Defined!Value("a"), Defined!Value("a")>>,
          <<Defined!Injectable("a", <<D("o")>>),
            Defined!RequestScoped("o", <<D("z")>>)>>,
          <<Defined!Transient("a", <<D("b")>>),
            Defined!Alias("b", "c"),
            Defined!RequestScoped("c", <<Defined!Lazy(D("a"))>>)>>}

ProviderOffers == [m \in {"lib", "mid", "app"} |->
    CASE m = "lib" ->
            {<<Defined!Value("s")>>,
             <<Defined!WithDependencies(Defined!AsyncFactory("s", <<>>))>>,
             <<Defined!RequestScoped("s", <<>>)>>}
      [] m = "mid" ->
            {<<Defined!Alias("t", "s")>>,
             <<Defined!Transient("t", <<D("s")>>)>>,
             <<Defined!WithDependencies(
                    Defined!AsyncFactory("t", <<D("s")>>))>>}
      [] OTHER -> AppProviders]

DeclaredTopics == <<"x", "y">>

DescribedShapes ==
    {[method |-> "get", path |-> <<"{id}">>],
     [method |-> "ALL", path |-> <<"{*id}">>],
     [method |-> "get", path |-> <<"{*id}">>]}
PathParameters == ("{id}" :> "n") @@ ("{*id}" :> "n")
WildcardNames == "{*id}" :> "{id}"

(* The routes of the path that is asked for, as they are declared.         *)
Handled(m, h, status) == [method |-> m, handler |-> h, status |-> status]
ExchangeTables ==
    {<<>>, <<Handled("GET", "plain", None)>>, <<Handled("ALL", "plain", None)>>,
     <<Handled("POST", "json", 201), Handled("GET", "plain", None)>>,
     <<Handled("GET", "sse", 200), Handled("HEAD", "plain", None)>>,
     <<Handled("GET", "json", 203), Handled("POST", "validated json", 201)>>,
     <<Handled("GET", "view", 203), Handled("POST", "json", 204)>>}

(* Requests: any method; lengths that agree, conflict, are no number, too  *)
(* large or wrong; and one thing wrong at a time.                          *)
Asking(m, values, size) ==
    [method |-> m, headers |-> "good", lengths |-> values, size |-> size,
     hint |-> 0, broken |-> FALSE, json |-> TRUE, parses |-> TRUE,
     valid |-> TRUE, accept |-> <<>>]
MediaRange(type, q) == [of |-> type, q |-> q]
ExchangeRequests ==
    {Asking(m, <<>>, 0) : m \in {"GET", "HEAD", "TRACE"}}
    \cup {Asking("POST", values, size) :
            values \in {<<>>, <<1>>, <<1, 1>>, <<1, 2>>, <<None>>, <<3>>},
            size \in {0, 1, 3}}
    \cup {[Asking("POST", <<>>, 1) EXCEPT !.headers = "bad"],
          [Asking("POST", <<>>, 1) EXCEPT !.broken = TRUE],
          [Asking("POST", <<>>, 1) EXCEPT !.json = FALSE],
          [Asking("POST", <<>>, 1) EXCEPT !.parses = FALSE],
          [Asking("POST", <<>>, 1) EXCEPT !.valid = FALSE],
          [Asking("POST", <<>>, 3) EXCEPT !.hint = 3]}
    \cup {[Asking(m, <<>>, 0) EXCEPT !.accept = ranges] :
            m \in {"GET", "POST"},
            ranges \in {<<MediaRange("anything", 5), MediaRange("json", 0)>>,
                        <<MediaRange("json", 0), MediaRange("anything", 5)>>,
                        <<MediaRange("text", 5)>>,
                        <<MediaRange("json", 0),
                          MediaRange("structured", 5),
                          MediaRange("json", 5)>>}}

Answered(status, size, values) ==
    [status |-> status, size |-> size, lengths |-> values, stream |-> None,
     id |-> None, allow |-> None]
ExchangeResults ==
    {Answered(204, 0, <<>>), Answered(204, 1, <<>>), Answered(1000, 0, <<>>),
     Answered(200, 1, <<1>>), Answered(200, 1, <<2>>), Answered(405, 1, <<>>)}

Failing(k, s) == [kind |-> k, status |-> s]
ExchangeErrors ==
    {Failing(k, None) : k \in {"Conflict", "Internal"}}
    \cup {Failing("HttpException", s) : s \in {418, 451, 204, 42}}

Catching(kinds, all) == [kinds |-> kinds, global |-> all]
ExchangeFilters ==
    {<<>>, <<Catching({"NotFound"}, TRUE)>>,
     <<Catching({}, TRUE), Catching({"Conflict", "HttpException"}, FALSE)>>}

(* Requests of a default key, of one that the route names and gives a time *)
(* to live, and of no key; and an application's own calls for that name.   *)
Cached(method, query, named, ttl) ==
    [op |-> "request", method |-> method, path |-> "p", query |-> query,
     named |-> named, ttl |-> ttl, disabled |-> FALSE]
CacheJobs ==
    {Cached("GET", "q", None, None), Cached("GET", None, <<"k">>, 1),
     Cached("POST", None, None, None),
     [op |-> "insert", key |-> <<"k">>, ttl |-> 2],
     [op |-> "remove", key |-> <<"k">>], [op |-> "clear", key |-> None]}
CacheMade ==
    {[status |-> 200, streams |-> FALSE], [status |-> 200, streams |-> TRUE],
     [status |-> 404, streams |-> FALSE]}

(* Objects of two fields and an unknown one, queries that repeat either,   *)
(* and a type whose schema does not allow what it requires.                *)
PayloadFields == {"a", "b", "x"}
Object(a, b, x) == ("a" :> a) @@ ("b" :> b) @@ ("x" :> x)
PayloadBodies ==
    {Object(a, b, x) : a \in {None, "ok", "loose", "bad"},
                       b \in {None, "ok", "null"}, x \in {None, "ok"}}
PayloadParams == {Object("ok", None, None), Object("loose", "ok", "ok")}
PayloadQueries ==
    {<<>>, <<<<"a", "ok">>, <<"b", "ok">>>>,
     <<<<"a", "ok">>, <<"a", "loose">>>>, <<<<"a", "bad">>, <<"a", "ok">>>>,
     <<<<"x", "ok">>, <<"a", "loose">>, <<"x", "bad">>, <<"b", "ok">>>>}
PayloadTypes ==
    {[fields |-> {"a", "b"}, required |-> {"a"}, allowed |-> {"a", "b"}],
     [fields |-> {"a", "b"}, required |-> {"b"}, allowed |-> {"a"}]}
PayloadOptions == SUBSET {"transform", "whitelist", "forbid"}
PayloadReplies ==
    {[kind |-> k, items |-> <<Object("ok", "null", None)>>, lengths |-> n] :
        k \in {"json", "broken", "text", "stream"}, n \in {<<>>, <<2>>}}
    \cup {[kind |-> "json", lengths |-> <<>>,
           items |-> <<None, Object("null", "ok", "ok")>>],
          [kind |-> "empty", lengths |-> <<>>, items |-> <<>>]}
Shaping(include, exclude, skip) ==
    [include |-> include, exclude |-> exclude, skip |-> skip]
PayloadShapes ==
    {Shaping(None, {}, FALSE), Shaping({"a", "b"}, {}, FALSE),
     Shaping({"x"}, {"a"}, FALSE), Shaping(None, {"b"}, TRUE)}

(* The application at rest while another component is looked at.           *)
Resting ==
    /\ Init /\ shell = "handle" /\ entry = <<ma>>
    /\ graph = [imports |-> Links({}), forward |-> Links({})]

-----------------------------------------------------------------------------
(* The other parts, each with its variables in x1, x2, ...                 *)

(* Works of one deduplication id, and one with a job id of its own; the    *)
(* job that there is, fresh or delayed, with and without an expiry.        *)
Asked ==
    [name |-> "mail", jobId |-> None, delayed |-> FALSE, priority |-> 0,
     lifo |-> FALSE, timeout |-> FALSE, maxRetries |-> 0, backoff |-> FALSE,
     maxStalled |-> 1, dedup |-> "d", ttl |-> FALSE, extend |-> FALSE,
     replace |-> FALSE, keepLast |-> FALSE, removeOnComplete |-> FALSE,
     removeOnFail |-> FALSE, keepCompleted |-> None, keepFailed |-> None]

AskedOptions ==
    [last |-> [Asked EXCEPT !.keepLast = TRUE, !.ttl = TRUE],
     swap |-> [Asked EXCEPT !.replace = TRUE, !.delayed = TRUE],
     more |-> [Asked EXCEPT !.extend = TRUE, !.ttl = TRUE, !.keepLast = TRUE,
                            !.removeOnComplete = TRUE],
     named |-> [Asked EXCEPT !.jobId = 1, !.dedup = None,
                             !.removeOnComplete = TRUE]]

FirstRow(work, available, until) ==
    [state |-> "pending", work |-> work, available |-> available,
     dedup |-> AskedOptions[work].dedup, expires |-> until, succ |-> None,
     token |-> None]

EnqueueRacePart == INSTANCE EnqueueRace WITH
    JobIds <- {1, 2, 3}, Work <- DOMAIN AskedOptions, Opt <- AskedOptions,
    Requests <- {"r1", "r2"}, NewId <- ("r1" :> 2) @@ ("r2" :> 3), First <- 1,
    InitialRows <-
        {FirstRow("last", 0, 1), FirstRow("swap", 0, None),
         FirstRow("swap", 1, None), FirstRow("swap", 1, 1),
         FirstRow("named", 0, None)},
    Delay <- 1, Ttl <- 1, MaxClock <- 1, MaxFaults <- 1,
    rows <- x1, clock <- x2, tx <- x3, faults <- x4

ProviderResolutionPart == INSTANCE ProviderResolution WITH
    Modules <- <<"lib", "mid", "app">>, Imports <- ProviderImports,
    Exports <- ProviderExports, Globals <- {"mid"},
    Offered <- ProviderOffers, Overrides <- Overriding,
    Contexts <- {"c1", "c2"}, MaxGets <- 2, Private <- {"p"},
    local <- x1, exported <- x2, global <- x3, pending <- x4, stage <- x5,
    singletons <- x6, contexts <- x7, transients <- x8, made <- x9,
    answer <- x10, gets <- x11

-----------------------------------------------------------------------------
(* What a part does not use is None for ever.                              *)

Unused11 == x11 = None
Unused10 == x10 = None /\ Unused11
Unused9 == x9 = None /\ Unused10
Unused8 == x8 = None /\ Unused9
Unused7 == x7 = None /\ Unused8
Unused6 == x6 = None /\ Unused7
Unused5 == x5 = None /\ Unused6
Unused4 == x4 = None /\ Unused5
Unused3 == x3 = None /\ Unused4
Unused2 == x2 = None /\ Unused3
Unused1 == x1 = None /\ Unused2

Kept5 == UNCHANGED <<x5, x6, x7, x8, x9, x10, x11>>
Kept1 ==
    UNCHANGED <<x1, x2, x3, x4, x5, x6, x7, x8, x9, x10, x11>>

(* The requests are interchangeable: r1 begins first.                      *)
InTurn == x3["r1"].at = "idle" => x3'["r2"].at = "idle"

allvars ==
    <<vars, parts, x1, x2, x3, x4, x5, x6, x7, x8, x9, x10, x11>>

MCInit ==
    /\ \/ part = "application" /\ Init /\ Unused1
       \/ /\ part \in {"dispatch", "gateway", "transport", "database", "cache",
                     "sessions", "discovery", "limits", "scheduler",
                     "handlers", "lazy", "routing", "buses",
                     "composition", "exchange", "payloads", "openapi"}
          /\ Resting /\ Unused1
       \/ part = "enqueue" /\ Resting /\ EnqueueRacePart!Init /\ Unused5
       \/ part = "resolution" /\ Resting /\ ProviderResolutionPart!Init
    /\ PartsInit

MCNext ==
    \/ PartsNext /\ UNCHANGED vars /\ Kept1
    \/ /\ UNCHANGED parts
       /\ \/ part = "application" /\ Next /\ Kept1
          \/ /\ part = "enqueue" /\ EnqueueRacePart!Next /\ InTurn
             /\ UNCHANGED vars /\ Kept5
          \/ /\ part = "resolution" /\ ProviderResolutionPart!Next
             /\ UNCHANGED vars

MCSpec == MCInit /\ [][MCNext]_allvars

-----------------------------------------------------------------------------
(* Only what is broken is refused; plans follow the dependencies, requests *)
(* keep their instances to themselves, and there is one instance of what   *)
(* is not transient (entry.rs, module_ref.rs).                             *)
ProvidersResolve ==
    part = "resolution" =>
        /\ ProviderResolutionPart!BuiltUnlessBroken
        /\ ProviderResolutionPart!ContextsStayApart
        /\ ProviderResolutionPart!PlansReach
        /\ ProviderResolutionPart!OneEach

(* Each commit of the statements of enqueue and finish, whatever comes     *)
(* between them, is a step of PostgresQueue, and requests do not make one  *)
(* another fail (store.rs, enqueue and finish; deduplication.rs).          *)
CommitsAreSteps ==
    [][part = "enqueue" => EnqueueRacePart!OneStep /\ EnqueueRacePart!NoClash]_allvars
=============================================================================
