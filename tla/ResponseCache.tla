---------------------------- MODULE ResponseCache ----------------------------
(***************************************************************************)
(* A cache that GET responses and an application's own values share:       *)
(* Cache, InMemoryCacheStore and CacheInterceptor of src/cache.rs, in the  *)
(* order that Interceptor::intercept calls it (src/pipeline).              *)
(*                                                                         *)
(* Each step takes the store's lock once.  A value is what it is (a        *)
(* response with its status, or data of another type), the key that it was *)
(* made for, and when it was stored.                                       *)
(***************************************************************************)
EXTENDS Naturals, FiniteSets

CONSTANTS
    Clients,
    Jobs,          \* requests, with what their route says of caching; calls
    Made,          \* what handlers may answer: [status, streams]
    DefaultTtls,   \* None: values stay
    MaxCalls, MaxClock,
    None

VARIABLES
    entries,       \* the store: key -> [value, expires]
    clock,
    default_ttl, provided, \* the options; whether a request finds a cache
    pc, job,       \* of each client
    response,      \* what its handler or factory made
    expires,       \* what set has computed before it takes the lock
    answer,        \* [value, at]: what a look-up found, and when
    calls

vars == <<entries, clock, default_ttl, provided, pc, job, response, expires,
          answer, calls>>

-----------------------------------------------------------------------------
Keys == {j.key : j \in {i \in Jobs : i.op # "request"}}
        \cup {<<j.path, j.query>> : j \in {i \in Jobs : i.op = "request"}}
        \cup {j.named : j \in {i \in Jobs : i.op = "request"}}

(* cache_key_for_context: the key that the route names, or what was asked. *)
KeyOf(j) ==
    CASE j.op # "request" -> j.key
      [] j.op = "request" /\ (j.method # "GET" \/ j.disabled) -> None
      [] OTHER -> IF j.named # None THEN j.named
                  ELSE <<j.path, j.query>>

(* cache_ttl_for_context, and get_or_insert_with's default.                *)
Ttl(j) == IF j.ttl # None THEN j.ttl ELSE default_ttl

IsCacheable(r) == r.status \in 200..299 /\ ~r.streams

(* Variant that keeps an entry for the instant at which it expires.        *)
ExpiredAfter(e) == e.expires # None /\ clock > e.expires

IsExpired(e) == e.expires # None /\ clock >= e.expires

Live(key) == entries[key] # None /\ ~IsExpired(entries[key])

(* CachedHttpResponse::from_response, or the data itself.                  *)
Cached(j, r) ==
    [of |-> IF j.op = "request" THEN "response" ELSE "data",
     made |-> r, for |-> KeyOf(j), ttl |-> Ttl(j), stored |-> clock]

(* Reads the value as what the caller wants it to be.                      *)
Fits(value, j) == value.of = IF j.op = "request" THEN "response" ELSE "data"

-----------------------------------------------------------------------------
Init ==
    /\ entries = [k \in Keys \ {None} |-> None] /\ clock = 0
    /\ default_ttl \in DefaultTtls /\ provided \in BOOLEAN
    /\ pc = [c \in Clients |-> "idle"] /\ job = [c \in Clients |-> None]
    /\ response = [c \in Clients |-> None]
    /\ expires = [c \in Clients |-> None]
    /\ answer = [c \in Clients |-> None] /\ calls = 0

Options == UNCHANGED <<default_ttl, provided>>

Goes(c, at) == pc' = [pc EXCEPT ![c] = at]
Forgets(c) ==
    /\ Goes(c, "idle")
    /\ response' = [response EXCEPT ![c] = None]
    /\ expires' = [expires EXCEPT ![c] = None]

Start(c, j) ==
    /\ pc[c] = "idle" /\ calls < MaxCalls /\ calls' = calls + 1
    /\ j.op # "request" => provided
    /\ job' = [job EXCEPT ![c] = j] /\ Goes(c, "called")
    /\ answer' = [answer EXCEPT ![c] = None]
    /\ Options /\ UNCHANGED <<entries, clock, response, expires>>

(* short_circuit and the first half of get_or_insert_with_ttl: what is     *)
(* found and has expired is removed.                                       *)
LookUp(c) ==
    LET j == job[c]
        key == KeyOf(j)
    IN  /\ pc[c] = "called" /\ j.op \in {"request", "insert"}
        /\ Options /\ UNCHANGED <<clock, job, response, expires, calls>>
        /\ \/ /\ key = None
              /\ Goes(c, "handles") /\ UNCHANGED <<entries, answer>>
           \/ /\ key # None /\ ~provided
              /\ Goes(c, "idle") /\ UNCHANGED <<entries, answer>>
           \/ /\ key # None /\ provided /\ ~Live(key)
              /\ entries' = [entries EXCEPT ![key] = None]
              /\ Goes(c, "handles") /\ UNCHANGED answer
           \/ /\ key # None /\ provided /\ Live(key)
              /\ Goes(c, "idle") /\ UNCHANGED entries
              /\ answer' = [answer EXCEPT ![c] =
                    IF Fits(entries[key].value, j)
                    THEN [value |-> entries[key].value, at |-> clock]
                    ELSE None]

(* The rest of the chain, or the factory; either may fail.                 *)
Handle(c, r) ==
    /\ pc[c] = "handles"
    /\ \/ response' = [response EXCEPT ![c] = r] /\ Goes(c, "made")
       \/ Goes(c, "idle") /\ UNCHANGED response
    /\ Options /\ UNCHANGED <<entries, clock, job, expires, answer, calls>>

(* after: what is not for the cache is given back as it is.                *)
Passes(c) ==
    /\ pc[c] = "made" /\ job[c].op = "request"
    /\ KeyOf(job[c]) = None \/ ~IsCacheable(response[c])
    /\ Forgets(c)
    /\ Options /\ UNCHANGED <<entries, clock, job, answer, calls>>

(* after, set_with_ttl: the time is read before the lock is taken.         *)
ReadClock(c) ==
    /\ pc[c] = "made"
    /\ job[c].op = "request" =>
            KeyOf(job[c]) # None /\ IsCacheable(response[c])
    /\ expires' = [expires EXCEPT ![c] =
            IF Ttl(job[c]) = None THEN None ELSE clock + Ttl(job[c])]
    /\ Goes(c, "stores")
    /\ Options /\ UNCHANGED <<entries, clock, job, response, answer, calls>>

(* InMemoryCacheStore::set.                                                *)
Store(c) ==
    /\ pc[c] = "stores"
    /\ entries' = [entries EXCEPT ![KeyOf(job[c])] =
            [value |-> Cached(job[c], response[c]), expires |-> expires[c]]]
    /\ Forgets(c) /\ Options /\ UNCHANGED <<clock, job, answer, calls>>

Remove(c) ==
    /\ pc[c] = "called" /\ job[c].op = "remove"
    /\ entries' = [entries EXCEPT ![job[c].key] = None] /\ Goes(c, "idle")
    /\ Options /\ UNCHANGED <<clock, job, response, expires, answer, calls>>

Clear(c) ==
    /\ pc[c] = "called" /\ job[c].op = "clear"
    /\ entries' = [k \in DOMAIN entries |-> None] /\ Goes(c, "idle")
    /\ Options /\ UNCHANGED <<clock, job, response, expires, answer, calls>>

Tick ==
    /\ clock < MaxClock /\ clock' = clock + 1 /\ Options
    /\ UNCHANGED <<entries, pc, job, response, expires, answer, calls>>

Next ==
    \/ Tick
    \/ \E c \in Clients :
        \/ \E j \in Jobs : Start(c, j)
        \/ \E r \in Made : Handle(c, r)
        \/ LookUp(c) \/ Passes(c) \/ ReadClock(c) \/ Store(c)
        \/ Remove(c) \/ Clear(c)

Spec == Init /\ [][Next]_vars

-----------------------------------------------------------------------------
(* What a request or call finds was made for its key, is of the type that  *)
(* it wants, a request gets only whole successful responses, and none of   *)
(* them later than the time that it was to live after it was stored        *)
(* (cache_key_for_context, is_cacheable_response, InMemoryCacheStore).     *)
HitsAreTrue ==
    \A c \in Clients : pc[c] = "idle" /\ answer[c] # None =>
        LET value == answer[c].value IN
        /\ value.for = KeyOf(job[c]) /\ Fits(value, job[c])
        /\ job[c].op = "request" =>
                value.made.status \in 200..299 /\ ~value.made.streams
        /\ value.ttl # None => answer[c].at < value.stored + value.ttl
=============================================================================
