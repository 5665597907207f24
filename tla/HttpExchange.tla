----------------------------- MODULE HttpExchange -----------------------------
(***************************************************************************)
(* One HTTP request from the server to its response: the axum adapter      *)
(* (src/adapters/axum.rs), the dispatch of the application and of a route  *)
(* (src/app/application.rs, src/routing/route), errors and their filters   *)
(* (src/error.rs, src/pipeline/filter.rs), and what makes a request and a  *)
(* response valid (src/http).                                              *)
(*                                                                         *)
(* All routes of the table that are looked at have the path that is asked  *)
(* for: Routing tells which have it.  A body is its size.  The enhancers   *)
(* other than the filters are Dispatch's matter.                           *)
(***************************************************************************)
EXTENDS Naturals, Sequences, FiniteSets, SequencesExt, TLC

CONSTANTS
    Tables,     \* builder calls, in order: [method, handler, status]
    Requests,   \* what a server may be asked
    Results,    \* responses that handlers and filters may make
    Errors,     \* errors that they may return
    FilterLists,\* filters: [kinds, global], in the order of registration
    BodyLimit, MaxRequests,
    None

VARIABLES
    table, elsewhere, \* the routes; whether another forbids native routing
    filters,
    request,          \* as it arrived
    stage,            \* "idle", "arrived", "handler", "error"
    left,             \* filters not asked yet
    error,            \* the last error, None when a filter answered it
    asked,            \* errors that filters were given
    kept,             \* a clone of the last streaming response
    consumed,         \* streams that were handed to a connection
    sent, handled,    \* the last response; the route whose handler was called
    served            \* requests so far

vars == <<table, elsewhere, filters, request, stage, left, error, asked,
          kept, consumed, sent, handled, served>>

-----------------------------------------------------------------------------
(* Methods.                                                                *)

Standard == {"GET", "POST", "PUT", "PATCH", "DELETE", "OPTIONS", "HEAD"}
MethodMatches(m, asks) == m = asks \/ (m = "ALL" /\ asks \in Standard)

(* The routes that a controller's verbs make of a path: a handler is plain *)
(* (one that a factory makes for each request can also fail so), or        *)
(* "json", "validated json", "view" or "sse".  A JSON handler of the other *)
(* methods takes the request as it is.                                     *)
BodyMethods == {"POST", "PUT", "PATCH"}

JsonHandler(m) == IF m \in BodyMethods THEN "json" ELSE "json response"

Built(c) ==
    [c EXCEPT !.method = IF c.handler = "sse" THEN "GET" ELSE @,
              !.handler = IF @ = "json" THEN JsonHandler(c.method) ELSE @]

Declared(calls) == [i \in DOMAIN calls |-> Built(calls[i])]

-----------------------------------------------------------------------------
(* Errors: a kind, and the status that only HttpException carries.         *)

KindStatus ==
    [NotFound |-> 404, MethodNotAllowed |-> 405, Unauthorized |-> 401,
     Forbidden |-> 403, BadRequest |-> 400, RequestTimeout |-> 408,
     Conflict |-> 409, Gone |-> 410, PreconditionFailed |-> 412,
     PayloadTooLarge |-> 413, UnsupportedMediaType |-> 415,
     NotAcceptable |-> 406, ImATeapot |-> 418, UnprocessableEntity |-> 422,
     TooManyRequests |-> 429, InternalServerError |-> 500,
     NotImplemented |-> 501, BadGateway |-> 502, ServiceUnavailable |-> 503,
     GatewayTimeout |-> 504]

Kind(k) == [kind |-> k, status |-> None]
HttpException(s) == [kind |-> "HttpException", status |-> s]

HttpStatusCode(e) ==
    CASE e.kind = "HttpException" -> e.status
      [] e.kind \in DOMAIN KindStatus -> KindStatus[e.kind]
      [] OTHER -> 500

FromHttpStatus(s) ==
    LET kinds == {k \in DOMAIN KindStatus : KindStatus[k] = s}
    IN IF kinds = {} THEN HttpException(s) ELSE Kind(CHOOSE k \in kinds : TRUE)

FromKindAndMessage(k) ==
    IF k = "HttpException" THEN HttpException(500) ELSE Kind(k)

(* Variant: every kind is copied with its message alone.                   *)
CloneByKind(e) == FromKindAndMessage(e.kind)

(* clone_for_filter: BootError is not Clone, so that filters get a copy.   *)
CloneForFilter(e) ==
    IF e.kind = "HttpException" THEN HttpException(e.status)
    ELSE FromKindAndMessage(e.kind)

-----------------------------------------------------------------------------
(* Responses.                                                              *)

Response(status, size) ==
    [status |-> status, size |-> size, lengths |-> <<>>, stream |-> None,
     id |-> None, allow |-> None]

WithContentLength(r, n) == [r EXCEPT !.lengths = <<n>>]

Sse(id) == [Response(200, 0) EXCEPT !.stream = "sse", !.id = id]
FileStream(id, lengths) ==
    [Response(200, 0) EXCEPT !.stream = "file", !.id = id, !.lengths = lengths]
FileBytes(size, length) ==
    WithContentLength(Response(200, size), IF length = None THEN size ELSE length)

FromError(e) == Response(HttpStatusCode(e), 1)

(* strict_content_length: None stands for what is not a number.               *)
LengthsOk(lengths) ==
    /\ None \notin ToSet(lengths)
    /\ Cardinality(ToSet(lengths)) <= 1

AllowsBody(status) == status \notin (100..199) \cup {204, 304}

ResponseValid(r) ==
    /\ r.status \in 100..999
    /\ LengthsOk(r.lengths)
    /\ r.lengths # <<>> =>
          IF r.stream = None THEN r.lengths[1] = r.size ELSE r.stream = "file"
    /\ (r.stream # None \/ r.size > 0) => AllowsBody(r.status)

(* to_axum_response: a stream can be taken once, by whatever clone.        *)
ToAxum(r) ==
    IF ResponseValid(r) /\ r.id \notin consumed THEN r
    ELSE FromError(FromHttpStatus(500))

-----------------------------------------------------------------------------
(* The application's and axum's choice of a route.                         *)

Positions(routes, m) == {i \in DOMAIN routes : routes[i].method = m}
First(is) == CHOOSE i \in is : \A j \in is : i <= j

(* BootApplication::call: the route of the method, or of all methods, or   *)
(* any, which refuses.                                                     *)
ApplicationRoute(routes, m) ==
    CASE routes = <<>> -> None
      [] Positions(routes, m) # {} -> First(Positions(routes, m))
      [] Positions(routes, m) = {} /\ Positions(routes, "ALL") # {} ->
            First(Positions(routes, "ALL"))
      [] OTHER -> 1

(* axum: the method router of a path gives HEAD to GET when it has no      *)
(* route for it; method_not_allowed_fallback leads to the application.     *)
AxumRoute(routes, m) ==
    CASE Positions(routes, m) # {} -> First(Positions(routes, m))
      [] m = "HEAD" /\ Positions(routes, m) = {}
            /\ Positions(routes, "GET") # {} -> First(Positions(routes, "GET"))
      [] OTHER -> ApplicationRoute(routes, m)

(* AxumAdapter::build.                                                     *)
FallbackRouting == elsewhere \/ Positions(table, "ALL") # {}

Chosen(m) ==
    IF FallbackRouting THEN ApplicationRoute(table, m) ELSE AxumRoute(table, m)

AllowedMethods ==
    IF Positions(table, "ALL") # {} THEN Standard
    ELSE {table[i].method : i \in DOMAIN table}

WithAllowHeader(r) ==
    IF r.status # 405 \/ AllowedMethods = {} THEN r
    ELSE [r EXCEPT !.allow = AllowedMethods]

StripHeadBody(r) ==
    IF request.method = "HEAD" THEN [r EXCEPT !.size = 0, !.stream = None]
    ELSE r

-----------------------------------------------------------------------------
(* Requests: content-length values, the size of the body, what is known of *)
(* it before it is read, and whether headers and body are what they should *)
(* be.                                                                     *)

(* validate_body_limit.                                                    *)
WithinLimit(q, size) ==
    /\ q.lengths # <<>> => q.lengths[1] <= BodyLimit
    /\ size <= BodyLimit

(* to_boot_request: the first thing that is wrong, or None.                *)
Refusal(q) ==
    LET header == q.headers = "bad" \/ ~LengthsOk(q.lengths)
        limit == ~WithinLimit(q, q.size) \/ q.hint > BodyLimit
        length == q.lengths # <<>> /\ q.lengths[1] # q.size
    IN IF q.method \notin Standard THEN Kind("MethodNotAllowed")
       ELSE IF header THEN Kind("BadRequest")
       ELSE IF limit THEN Kind("PayloadTooLarge")
       ELSE IF q.broken THEN Kind("Adapter")
       ELSE IF length THEN Kind("BadRequest") ELSE None

(* The most specific ranges of the accept headers decide, by the best of   *)
(* their qualities.  A range is for anything, for a type whatever its      *)
(* subtype, for what is structured as JSON (application/*+json), or exact. *)
JsonSpecificity ==
    [anything |-> 0, application |-> 1, structured |-> 2, json |-> 3]
EventStreamSpecificity == [anything |-> 0, text |-> 1, events |-> 2]

Better(best, range, specificity) ==
    IF range.of \notin DOMAIN specificity THEN best
    ELSE LET s == specificity[range.of] IN
         CASE best = None -> [specificity |-> s, q |-> range.q]
           [] best # None /\ best.specificity > s -> best
           [] best # None /\ best.specificity = s ->
                [best EXCEPT !.q = IF range.q > @ THEN range.q ELSE @]
           [] OTHER -> [specificity |-> s, q |-> range.q]

BestMatch(ranges, specificity) ==
    LET best[n \in 0..Len(ranges)] ==
            IF n = 0 THEN None ELSE Better(best[n - 1], ranges[n], specificity)
    IN best[Len(ranges)]

Accepts(ranges, specificity) ==
    LET best == BestMatch(ranges, specificity)
    IN ranges = <<>> \/ (best # None /\ best.q > 0)

(* What validation and the builders of a handler ask of the request.       *)
HandlerRefusal(handler, q) ==
    LET json == handler \in {"json", "validated json"} IN
    IF json /\ ~q.json THEN Kind("UnsupportedMediaType")
    ELSE IF handler = "validated json" /\ ~(q.parses /\ q.valid)
    THEN Kind("BadRequest")
    ELSE IF \/ (json \/ handler = "json response")
               /\ ~Accepts(q.accept, JsonSpecificity)
            \/ handler = "sse" /\ ~Accepts(q.accept, EventStreamSpecificity)
    THEN Kind("NotAcceptable")
    ELSE IF json /\ ~q.parses THEN Kind("BadRequest") ELSE None

HandlerResults(route) ==
    CASE route.handler = "sse" -> {Sse(served)}
      [] route.handler = "plain" ->
            Results \cup {FileStream(served, <<>>)}
            \cup (IF kept = None THEN {} ELSE {kept})
      [] OTHER -> {Response(route.status, 1)}

-----------------------------------------------------------------------------
Init ==
    /\ \E t \in Tables : table = Declared(t)
    /\ elsewhere \in BOOLEAN /\ filters \in FilterLists
    /\ request = None /\ stage = "idle" /\ left = <<>>
    /\ error = None /\ asked = {}
    /\ kept = None /\ consumed = {} /\ sent = None /\ handled = None
    /\ served = 0

Fixed == UNCHANGED <<table, elsewhere, filters>>

(* The adapter's answer, whoever made it.                                  *)
Send(r) ==
    /\ stage' = "idle" /\ sent' = StripHeadBody(WithAllowHeader(ToAxum(r)))
    /\ consumed' = IF ResponseValid(r) /\ r.stream # None
                   THEN consumed \cup {r.id} ELSE consumed
    /\ kept' = IF r.stream # None THEN r ELSE kept
    /\ Fixed /\ UNCHANGED <<request, handled, served>>

Raise(e, ask) ==
    /\ stage' = "error" /\ error' = e /\ left' = Reverse(ask)

Global == SelectSeq(filters, LAMBDA f : f.global)

Receive(q) ==
    /\ stage = "idle" /\ served < MaxRequests /\ served' = served + 1
    /\ request' = q /\ stage' = "arrived" /\ sent' = None /\ handled' = None
    /\ error' = None /\ asked' = {} /\ left' = <<>>
    /\ Fixed /\ UNCHANGED <<kept, consumed>>

(* Without a route of the path the native router does not look at the      *)
(* request at all.                                                         *)
NotFoundFallback ==
    /\ stage = "arrived" /\ ~FallbackRouting /\ table = <<>>
    /\ Raise(Kind("NotFound"), <<>>)
    /\ Fixed /\ UNCHANGED <<request, asked, kept, consumed, sent, handled, served>>

(* to_boot_request fails: no filter is asked.                              *)
Refuse ==
    /\ stage = "arrived" /\ (FallbackRouting \/ table # <<>>)
    /\ Refusal(request) # None /\ Raise(Refusal(request), <<>>)
    /\ Fixed /\ UNCHANGED <<request, asked, kept, consumed, sent, handled, served>>

Dispatch ==
    LET chosen == Chosen(request.method)
        others == <<kept, consumed, sent, asked, request, served>>
    IN  /\ stage = "arrived" /\ (FallbackRouting \/ table # <<>>)
        /\ Refusal(request) = None /\ Fixed
        /\ CASE chosen = None ->
                    /\ Raise(Kind("NotFound"), Global)
                    /\ UNCHANGED <<others, handled>>
             [] chosen # None /\ ~MethodMatches(table[chosen].method,
                                               request.method) ->
                    /\ Raise(Kind("MethodNotAllowed"), filters)
                    /\ UNCHANGED <<others, handled>>
             [] OTHER ->
                    /\ stage' = "handler" /\ handled' = table[chosen]
                    /\ UNCHANGED <<others, error, left>>

Handle ==
    LET refusal == HandlerRefusal(handled.handler, request) IN
    /\ stage = "handler"
    /\ IF refusal # None
       THEN /\ Raise(refusal, filters) /\ Fixed
            /\ UNCHANGED <<request, asked, kept, consumed, sent, handled, served>>
       ELSE \/ /\ \E r \in HandlerResults(handled) : Send(r)
               /\ UNCHANGED <<error, left, asked>>
            \/ /\ \E e \in Errors : Raise(e, filters)
               /\ Fixed
               /\ UNCHANGED <<request, asked, kept, consumed, sent, handled, served>>

(* CatchFilter: one that is for other kinds passes.                        *)
Skip ==
    /\ stage = "error" /\ left # <<>>
    /\ Head(left).kinds # {} /\ error.kind \notin Head(left).kinds
    /\ left' = Tail(left) /\ Fixed
    /\ UNCHANGED <<request, stage, error, asked, kept, consumed, sent,
                   handled, served>>

(* handle_error and handle_global_error: a filter passes, answers or fails,*)
(* and then no other is asked.                                             *)
Filter ==
    LET given == CloneForFilter(error) IN
    /\ stage = "error" /\ left # <<>>
    /\ Head(left).kinds = {} \/ error.kind \in Head(left).kinds
    /\ \/ /\ left' = Tail(left) /\ asked' = asked \cup {given} /\ Fixed
          /\ UNCHANGED <<request, stage, error, kept, consumed, sent,
                         handled, served>>
       \/ /\ \E r \in Results \cup {FromError(given)} : Send(r)
          /\ left' = <<>> /\ error' = None /\ asked' = asked \cup {given}
       \/ /\ \E e \in Errors : Raise(e, <<>>)
          /\ asked' = {} /\ Fixed
          /\ UNCHANGED <<request, kept, consumed, sent, handled, served>>

(* BootResponse::from_error, and for the native fallback no Allow header.  *)
Fail ==
    /\ stage = "error" /\ left = <<>>
    /\ Send(FromError(error))
    /\ UNCHANGED <<left, error, asked>>

Next ==
    \/ \E q \in Requests : Receive(q)
    \/ NotFoundFallback \/ Refuse \/ Dispatch \/ Handle \/ Skip \/ Filter \/ Fail

Spec == Init /\ [][Next]_vars

-----------------------------------------------------------------------------
Takes(i, m) == i # None /\ MethodMatches(table[i].method, m)

(* A handler is given the whole body that the request announced, and never *)
(* more than the limit, whatever the client said of its length             *)
(* (to_boot_request, validate_with_body_limit).                            *)
HandlesWhole ==
    handled # None =>
        /\ request.size <= BodyLimit /\ ~request.broken
        /\ \A n \in ToSet(request.lengths) : n = request.size

(* The filters are told the error that was raised, and what none of them   *)
(* answers has its status (clone_for_filter, from_error), unless that      *)
(* status does not allow a body.                                           *)
StatusKept ==
    /\ error # None => \A e \in asked : e = error
    /\ sent # None /\ error # None =>
          sent.status = (IF HttpStatusCode(error) \in 200..999 \ {204, 304}
                         THEN HttpStatusCode(error) ELSE 500)

(* The Allow header of a 405 names the methods that a route takes, and the *)
(* other ones are refused, in native and in application routing; and the   *)
(* two agree on the route (with_allow_header, method_not_allowed_fallback).*)
AllowIsTrue ==
    /\ sent # None /\ sent.allow # None =>
          \A m \in Standard : m \in sent.allow <=> Takes(Chosen(m), m)
    /\ Positions(table, "ALL") = {} =>
          \A m \in Standard :
              Takes(AxumRoute(table, m), m) \/ Takes(ApplicationRoute(table, m), m)
              => AxumRoute(table, m) = ApplicationRoute(table, m)

(* What goes on the wire is what its headers say (validate).               *)
SentAsSaid ==
    sent # None =>
        /\ sent.stream = "sse" => sent.lengths = <<>>
        /\ sent.stream = None /\ request.method # "HEAD" =>
              \A n \in ToSet(sent.lengths) : n = sent.size
        /\ sent.size > 0 => sent.status \notin {204, 304}

(* A client gets the JSON of a handler unless it would rather not: what it *)
(* says most specifically of JSON excludes it (accepts_json_response).     *)
NotExcluded ==
    /\ stage = "idle" /\ sent # None /\ error = None /\ asked = {}
    /\ handled # None
    /\ handled.handler \in {"json", "json response", "validated json"}
    /\ request.accept # <<>>
    => LET of == {i \in DOMAIN request.accept :
                    request.accept[i].of \in DOMAIN JsonSpecificity}
           S(i) == JsonSpecificity[request.accept[i].of]
       IN \E i \in of :
            request.accept[i].q > 0 /\ \A j \in of : S(j) <= S(i)
==============================================================================
