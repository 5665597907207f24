------------------------------- MODULE Dispatch -------------------------------
(***************************************************************************)
(* One request, message or event on its way through a compiled pipeline:   *)
(* RouteDefinition::call (src/routing/route/execution.rs),                 *)
(* MessagePatternDefinition::dispatch (src/transport/pattern.rs) and       *)
(* WebSocketGatewayConnection::dispatch (src/websocket/connection.rs),     *)
(* with the call handlers interceptors get (src/pipeline/interceptor.rs)   *)
(* and the exception filters (src/pipeline/filter.rs).                     *)
(*                                                                         *)
(* An interceptor is any user code: it may call what is behind it again    *)
(* and again, twice at a time, or not at all, give up waiting for it, and  *)
(* end either way whatever the others did.  Level k of the chain is the    *)
(* k-th interceptor, the last level is the pipes, validators and handler.  *)
(***************************************************************************)
EXTENDS Naturals, Sequences

CONSTANTS
    MiddlewareCount, GuardCount, InterceptorCount, PipeCount, FilterCount,
    MaxPolls       \* bound: futures of call handlers that are polled first

VARIABLES
    protocol,      \* "http", "message" or "websocket"
    stage,         \* "middleware", "guards", "chain", "filters" or "done"
    passed,        \* middleware or guards that let the request pass
    live,          \* CallHandler: futures of each level that are running
    running,       \* CallHandler.running of each level
    piped,         \* pipes and validators passed in the last run
    handling,      \* runs of the handler under way
    unfiltered,    \* filters not yet asked
    outcome,       \* "none", "reply" or "error"
    polls

vars == <<protocol, stage, passed, live, running, piped, handling, unfiltered,
          outcome, polls>>

Terminal == InterceptorCount + 1
Levels == 1..Terminal

Init ==
    /\ protocol \in {"http", "message", "websocket"}
    /\ stage = IF protocol = "http" THEN "middleware" ELSE "guards"
    /\ passed = 0
    /\ live = [k \in Levels |-> 0] /\ running = [k \in Levels |-> FALSE]
    /\ piped = 0 /\ handling = 0
    /\ unfiltered = FilterCount /\ outcome = "none" /\ polls = 0

Chain == <<live, running, piped, handling, polls>>

-----------------------------------------------------------------------------
(* Before the chain.                                                       *)

(* A middleware that answers ends the request, past every filter.          *)
Middleware(answers) ==
    /\ stage = "middleware" /\ passed < MiddlewareCount
    /\ IF answers
       THEN stage' = "done" /\ outcome' = "reply" /\ UNCHANGED passed
       ELSE passed' = passed + 1 /\ UNCHANGED <<stage, outcome>>
    /\ UNCHANGED <<protocol, unfiltered, Chain>>

MiddlewarePassed ==
    /\ stage = "middleware" /\ passed = MiddlewareCount
    /\ stage' = "guards" /\ passed' = 0
    /\ UNCHANGED <<protocol, unfiltered, outcome, Chain>>

GuardActivates ==
    /\ stage = "guards" /\ passed < GuardCount
    /\ passed' = passed + 1
    /\ UNCHANGED <<protocol, stage, unfiltered, outcome, Chain>>

(* A middleware or a guard fails or refuses; or the method, the path, the  *)
(* pattern or the event is none of the handler's, or a component cannot be *)
(* resolved.                                                               *)
Refused ==
    /\ stage \in {"middleware", "guards"}
    /\ stage' = "filters" /\ outcome' = "error"
    /\ UNCHANGED <<protocol, passed, unfiltered, Chain>>

GuardsPassed ==
    /\ stage = "guards" /\ passed = GuardCount
    /\ stage' = "chain"
    /\ UNCHANGED <<protocol, passed, unfiltered, outcome, Chain>>

-----------------------------------------------------------------------------
(* CallHandler::handle: the future is polled for the first time.           *)

Caller(k) == IF k = 1 THEN stage = "chain" /\ polls = 0 ELSE live[k - 1] > 0

Polled(k) ==
    /\ Caller(k) /\ polls < MaxPolls
    /\ polls' = polls + 1

Poll(k) ==
    /\ Polled(k) /\ ~running[k]
    /\ running' = [running EXCEPT ![k] = TRUE]
    /\ live' = [live EXCEPT ![k] = @ + 1]
    /\ piped' = IF k = Terminal THEN 0 ELSE piped
    /\ UNCHANGED <<protocol, stage, passed, handling, unfiltered, outcome>>

(* Variant of PollRefused whose reset is set up before the exchange.       *)
PollRefusedResets(k) ==
    /\ Polled(k) /\ running[k]
    /\ running' = [running EXCEPT ![k] = FALSE]
    /\ UNCHANGED <<protocol, stage, passed, live, piped, handling, unfiltered,
                   outcome>>

(* "call handler is already running": the future ends and nothing changes. *)
PollRefused(k) ==
    /\ Polled(k) /\ running[k]
    /\ UNCHANGED <<protocol, stage, passed, live, running, piped, handling,
                   unfiltered, outcome>>

(* Variant of Released that resets only a future that ends by itself.      *)
ReleasedAlone(k) ==
    /\ live' = [j \in Levels |->
                  IF j < k THEN live[j] ELSE IF j = k THEN live[j] - 1 ELSE 0]
    /\ running' = [running EXCEPT ![k] = FALSE]
    /\ handling' = 0

(* A future ends or is dropped, and with it those behind it; dropping the  *)
(* reset of each clears its flag.                                          *)
Released(k) ==
    /\ live' = [j \in Levels |->
                  IF j < k THEN live[j] ELSE IF j = k THEN live[j] - 1 ELSE 0]
    /\ running' = [j \in Levels |-> j < k /\ running[j]]
    /\ handling' = 0

(* The interceptor of level k ends, whatever became of what it called; for *)
(* the first level this is the end of the chain.                           *)
Ends(k, how) ==
    /\ live[k] > 0 /\ Released(k)
    /\ IF k > 1 THEN UNCHANGED <<stage, outcome>>
       ELSE /\ stage' = IF how = "reply" THEN "done" ELSE "filters"
            /\ outcome' = how
    /\ UNCHANGED <<protocol, passed, piped, unfiltered, polls>>

Intercepted(k, how) == k # Terminal /\ Ends(k, how)

(* An interceptor drops the future it waits for.                           *)
Dropped(k) ==
    /\ k > 1 /\ live[k] > 0 /\ Released(k)
    /\ UNCHANGED <<protocol, stage, passed, piped, unfiltered, outcome, polls>>

-----------------------------------------------------------------------------
(* The last level.                                                         *)

Pipe ==
    /\ live[Terminal] > 0 /\ handling = 0 /\ piped < PipeCount
    /\ piped' = piped + 1
    /\ UNCHANGED <<protocol, stage, passed, live, running, handling,
                   unfiltered, outcome, polls>>

PipeFails ==
    handling = 0 /\ piped < PipeCount /\ Ends(Terminal, "error")

Handle ==
    /\ live[Terminal] > handling /\ piped = PipeCount
    /\ handling' = handling + 1
    /\ UNCHANGED <<protocol, stage, passed, live, running, piped, unfiltered,
                   outcome, polls>>

HandlerEnds(how) == handling > 0 /\ Ends(Terminal, how)

-----------------------------------------------------------------------------
(* handle_error: the filters in reverse order, the first reply ends it; so *)
(* does a filter that fails.                                               *)
Filter(answer) ==
    /\ stage = "filters" /\ unfiltered > 0
    /\ unfiltered' = unfiltered - 1
    /\ stage' = IF answer = "nothing" THEN "filters" ELSE "done"
    /\ outcome' = IF answer = "nothing" THEN outcome ELSE answer
    /\ UNCHANGED <<protocol, passed, Chain>>

Unfiltered ==
    /\ stage = "filters" /\ unfiltered = 0
    /\ stage' = "done"
    /\ UNCHANGED <<protocol, passed, unfiltered, outcome, Chain>>

Next ==
    \/ \E answers \in BOOLEAN : Middleware(answers)
    \/ MiddlewarePassed \/ GuardActivates \/ Refused \/ GuardsPassed
    \/ \E k \in Levels :
          Poll(k) \/ PollRefused(k) \/ Dropped(k)
          \/ \E how \in {"reply", "error"} : Intercepted(k, how)
    \/ Pipe \/ PipeFails \/ Handle
    \/ \E how \in {"reply", "error"} : HandlerEnds(how)
    \/ \E answer \in {"nothing", "reply", "error"} : Filter(answer)
    \/ Unfiltered

Spec == Init /\ [][Next]_vars

-----------------------------------------------------------------------------
(* What is behind an interceptor runs at most once at a time, however the  *)
(* interceptor calls it, and whoever is refused because it is already      *)
(* running would be let in as soon as that run ends or is dropped          *)
(* (CallHandler::handle and CallHandlerReset): a retry after a timeout is  *)
(* not refused.                                                            *)
OneRunAtATime ==
    /\ handling <= 1
    /\ \A k \in Levels : running[k] <=> live[k] = 1

=============================================================================
