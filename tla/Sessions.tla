-------------------------------- MODULE Sessions --------------------------------
(***************************************************************************)
(* Cookie sessions (src/session/): requests of one browser pass the        *)
(* middleware, which takes the id of the cookie or makes a new one, a      *)
(* handler, which works on the store through SessionManager, and the       *)
(* interceptor, which sets or expires the cookie of a response that is no  *)
(* error.  Requests may overlap.                                           *)
(***************************************************************************)
EXTENDS Naturals, FiniteSets

CONSTANTS
    Requests, Keys, None,
    MaxOps      \* bound: operations of all the handlers

VARIABLES
    store,      \* id -> keys with a value, {} for no session; the id of a
                \* session is the request it was made for
    jar,        \* the browser's cookie: an id or None
    rolling,    \* SessionOptions.rolling
    request,    \* [at, cookie, id, data, key, answer]: at is "idle",
                \* "handler", "set", "remove", "interceptor", "response" or
                \* "over"; data is what a set or remove has loaded, answer
                \* an id to set, "expire" or None
    ops,
    stray,      \* history: requests overlapped or failed, or the cookie
                \* expired
    torn        \* history: requests overlapped or failed, or an entry went
                \* by itself or by a clear, since one began on its own

vars == <<store, jar, rolling, request, ops, stray, torn>>

Init ==
    /\ store = [r \in Requests |-> {}] /\ jar = None
    /\ rolling \in BOOLEAN
    /\ request = [r \in Requests |-> [at |-> "idle", cookie |-> None, id |-> None,
                     data |-> {}, key |-> None, answer |-> None]]
    /\ ops = 0 /\ stray = FALSE /\ torn = FALSE

InFlight == {r \in Requests : request[r].at \notin {"idle", "over"}}

Becomes(r, new) == request' = [request EXCEPT ![r] = new]
Goto(r, at) == Becomes(r, [request[r] EXCEPT !.at = at])

-----------------------------------------------------------------------------
(* SessionMiddleware.                                                      *)
Middleware(r) ==
    /\ request[r].at = "idle"
    /\ Becomes(r, [request[r] EXCEPT !.at = "handler", !.cookie = jar,
                      !.id = IF jar # None THEN jar ELSE r])
    /\ stray' = (stray \/ InFlight # {})
    /\ torn' = (InFlight # {})
    /\ UNCHANGED <<store, jar, rolling, ops>>

(* SessionManager: a set or a remove of a key loads the data, and stores   *)
(* it in a second step.                                                    *)
Loads(r, k, at) ==
    /\ request[r].at = "handler" /\ ops < MaxOps
    /\ ops' = ops + 1
    /\ Becomes(r, [request[r] EXCEPT !.at = at, !.key = k,
                      !.data = store[request[r].id]])
    /\ UNCHANGED <<store, jar, rolling, stray, torn>>

SetLoads(r, k) == Loads(r, k, "set")

SetSaves(r) ==
    /\ request[r].at = "set" /\ Goto(r, "handler")
    /\ store' = [store EXCEPT ![request[r].id] = request[r].data \cup {request[r].key}]
    /\ UNCHANGED <<jar, rolling, ops, stray, torn>>

RemoveLoads(r, k) == Loads(r, k, "remove")

(* The last key takes the session with it; there is nothing to store when  *)
(* there was no session.                                                   *)
RemoveStores(r) ==
    /\ request[r].at = "remove" /\ Goto(r, "handler")
    /\ store' = IF request[r].data = {} THEN store
                ELSE [store EXCEPT ![request[r].id] = request[r].data \ {request[r].key}]
    /\ UNCHANGED <<jar, rolling, ops, stray, torn>>

Destroy(r) ==
    /\ request[r].at = "handler" /\ ops < MaxOps /\ ops' = ops + 1
    /\ store' = [store EXCEPT ![request[r].id] = {}]
    /\ UNCHANGED <<jar, rolling, request, stray, torn>>

Clear(r) ==
    /\ request[r].at = "handler" /\ ops < MaxOps /\ ops' = ops + 1
    /\ store' = [i \in Requests |-> {}]
    /\ torn' = TRUE
    /\ UNCHANGED <<jar, rolling, request, stray>>

HandlerEnds(r) ==
    /\ request[r].at = "handler" /\ Goto(r, "interceptor")
    /\ UNCHANGED <<store, jar, rolling, ops, stray, torn>>

(* Interceptors see no error.                                              *)
HandlerFails(r) ==
    /\ request[r].at = "handler" /\ Goto(r, "over")
    /\ stray' = TRUE /\ torn' = TRUE
    /\ UNCHANGED <<store, jar, rolling, ops>>

(* Variant of Interceptor that only ever sets the cookie.                  *)
InterceptorSets(r) ==
    /\ request[r].at = "interceptor"
    /\ LET me == request[r]
       IN  Becomes(r, [me EXCEPT !.at = "response", !.answer =
               IF store[me.id] # {} /\ (me.cookie # me.id \/ rolling) THEN me.id
               ELSE None])
    /\ UNCHANGED <<store, jar, rolling, ops, stray, torn>>

(* apply_session_cookie.                                                   *)
Interceptor(r) ==
    /\ request[r].at = "interceptor"
    /\ LET me == request[r]
           has_cookie == me.cookie = me.id
           has_data == store[me.id] # {}
       IN  Becomes(r, [me EXCEPT !.at = "response", !.answer =
               IF has_data /\ (~has_cookie \/ rolling) THEN me.id
               ELSE IF ~has_data /\ has_cookie THEN "expire" ELSE None])
    /\ UNCHANGED <<store, jar, rolling, ops, stray, torn>>

(* The browser gets the response.                                          *)
Response(r) ==
    /\ request[r].at = "response" /\ Goto(r, "over")
    /\ jar' = CASE request[r].answer = None -> jar
                [] request[r].answer = "expire" -> None
                [] OTHER -> request[r].answer
    /\ UNCHANGED <<store, rolling, ops, stray, torn>>

(* The ttl of an entry passes since its last save, the cookie's Max-Age    *)
(* since it was set.                                                       *)
EntryExpires(i) ==
    /\ store[i] # {} /\ store' = [store EXCEPT ![i] = {}]
    /\ torn' = TRUE
    /\ UNCHANGED <<jar, rolling, request, ops, stray>>

CookieExpires ==
    /\ jar # None /\ jar' = None
    /\ stray' = TRUE
    /\ UNCHANGED <<store, rolling, request, ops, torn>>

Next ==
    \/ \E r \in Requests :
          \/ Middleware(r) \/ SetSaves(r) \/ RemoveStores(r) \/ Destroy(r)
          \/ Clear(r) \/ HandlerEnds(r) \/ HandlerFails(r) \/ Interceptor(r)
          \/ Response(r) \/ EntryExpires(r)
          \/ \E k \in Keys : SetLoads(r, k) \/ RemoveLoads(r, k)
    \/ CookieExpires

Spec == Init /\ [][Next]_vars

-----------------------------------------------------------------------------
(* The browser has the cookie of the session that has its data.  Data that *)
(* no cookie leads to come from requests that overlapped, from an error    *)
(* before the cookie was set, or from a Max-Age that passed while saves    *)
(* renewed the entry, and stay.  A cookie without a session comes from an  *)
(* overlap, an error, a ttl or a clear, and goes with the next request     *)
(* that has its session to itself and ends well, whatever those before it  *)
(* left (apply_session_cookie).                                            *)
CookieFollowsData ==
    InFlight = {} =>
        /\ ~stray => \A i \in Requests : store[i] # {} => jar = i
        /\ ~torn => (jar # None => store[jar] # {})

=============================================================================
