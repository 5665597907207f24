------------------------------ MODULE Transports ------------------------------
(***************************************************************************)
(* The message transports of src/transport/: calls of clients, servers     *)
(* that serve one application over one of the protocols, and the tasks     *)
(* they spawn for each message.  A broker is what the code sees of it: a   *)
(* subject or topic copies a message to whoever subscribed, a RabbitMQ     *)
(* queue keeps it until it is acknowledged and gives it out again when the *)
(* connection that holds it closes.                                        *)
(*                                                                         *)
(* A call is one message of one client: a request waits for its reply on   *)
(* a channel of its own, an event does not.  What does not decode comes    *)
(* from another program.                                                   *)
(***************************************************************************)
EXTENDS Naturals, FiniteSets

CONSTANTS
    Calls, Servers,
    Protocols,      \* those to check
    MaxServes,      \* bound: times a server starts to serve
    MaxFaults       \* bound: panics, crashes, lost connections and replies

VARIABLES
    protocol,
    call,       \* [kind, decodes, at]: at is "idle", "waiting", "replied",
                \* "sent", "refused" or "error"
    serving,    \* server -> whether its serve future runs
    serves,     \* server -> number of times it served, that of its connection
    inbox,      \* <<server, call>>: copies not yet taken
    queue,      \* RabbitMQ: calls ready in the queue
    unacked,    \* RabbitMQ: <<server, call>> taken over the connection it has
    tasks,      \* spawned: [server, connection, call, at], at "dispatch",
                \* "publish" or "ack"
    replies,    \* calls that have a reply on their channel
    ended,      \* calls whose handler ran to its end, Ok or Err
    faults

vars == <<protocol, call, serving, serves, inbox, queue, unacked, tasks,
          replies, ended, faults>>

Serving == {s \in Servers : serving[s]}

Init ==
    /\ protocol \in Protocols
    /\ call \in [Calls -> [kind : {"request", "event"}, decodes : BOOLEAN,
                           at : {"idle"}]]
    /\ serving = [s \in Servers |-> FALSE] /\ serves = [s \in Servers |-> 0]
    /\ inbox = {} /\ queue = {} /\ unacked = {} /\ tasks = {}
    /\ replies = {} /\ ended = {} /\ faults = 0

Task(s, c, at) ==
    [server |-> s, connection |-> serves[s], call |-> c, at |-> at]

To(t, at) == (tasks \ {t}) \cup (IF at = "over" THEN {} ELSE {[t EXCEPT !.at = at]})

Connected(t) == serving[t.server] /\ serves[t.server] = t.connection

Moved(c, at) == call' = [call EXCEPT ![c].at = at]

Waits(c) == IF call[c].kind = "request" THEN "waiting" ELSE "sent"

-----------------------------------------------------------------------------
(* Clients: each call connects, and publishes one message.                 *)

Published(c, audience) ==
    /\ inbox' = inbox \cup (audience \X {c}) /\ Moved(c, Waits(c))
    /\ UNCHANGED <<queue, tasks>>

Refused(c) == Moved(c, "refused") /\ UNCHANGED <<inbox, queue, tasks>>

(* Redis tells how many subscribers got the request.                       *)
RedisSend(c) ==
    IF Serving = {} THEN Refused(c) ELSE Published(c, Serving)
RedisEmit(c) == Published(c, Serving)

(* A NATS queue group gets one copy; the server answers that nobody is     *)
(* there to respond.                                                       *)
NatsAudience == {{s} : s \in Serving} \cup {Serving}
NatsSend(c) ==
    IF Serving = {} THEN Refused(c) ELSE \E a \in NatsAudience : Published(c, a)
NatsEmit(c) == \E a \in NatsAudience : Published(c, a)

MqttSend(c) == Published(c, Serving)
MqttEmit(c) == Published(c, Serving)

(* Every server reads the partition, each from where it was latest.        *)
KafkaSend(c) == Published(c, Serving)
KafkaEmit(c) == Published(c, Serving)

RabbitMqPublish(c) ==
    queue' = queue \cup {c} /\ Moved(c, Waits(c)) /\ UNCHANGED <<inbox, tasks>>
RabbitMqSend(c) == RabbitMqPublish(c)
RabbitMqEmit(c) == RabbitMqPublish(c)

(* Over TCP an event is sent as a request is, and waits for its reply.     *)
Connects(c, s, then) ==
    IF s \in Serving
    THEN /\ inbox' = inbox \cup {<<s, c>>} /\ Moved(c, then)
         /\ UNCHANGED <<queue, tasks>>
    ELSE Refused(c)
TcpSend(c) == \E s \in Servers : Connects(c, s, "waiting")
TcpEmit(c) == TcpSend(c)
GrpcSend(c) == \E s \in Servers : Connects(c, s, "waiting")
GrpcEmit(c) == \E s \in Servers : Connects(c, s, "waiting")

(* In process the client dispatches to the application it was built with.  *)
InProcessSend(c) ==
    \E s \in Servers :
        /\ tasks' = tasks \cup {Task(s, c, "dispatch")} /\ Moved(c, "waiting")
        /\ UNCHANGED <<inbox, queue>>

Send(c) ==
    /\ call[c].kind = "request"
    /\ \/ protocol = "redis" /\ RedisSend(c)
       \/ protocol = "nats" /\ NatsSend(c)
       \/ protocol = "mqtt" /\ MqttSend(c)
       \/ protocol = "kafka" /\ KafkaSend(c)
       \/ protocol = "rabbitmq" /\ RabbitMqSend(c)
       \/ protocol = "tcp" /\ TcpSend(c)
       \/ protocol = "grpc" /\ GrpcSend(c)
       \/ protocol = "in process" /\ call[c].decodes /\ InProcessSend(c)

Emit(c) ==
    /\ call[c].kind = "event"
    /\ \/ protocol = "redis" /\ RedisEmit(c)
       \/ protocol = "nats" /\ NatsEmit(c)
       \/ protocol = "mqtt" /\ MqttEmit(c)
       \/ protocol = "kafka" /\ KafkaEmit(c)
       \/ protocol = "rabbitmq" /\ RabbitMqEmit(c)
       \/ protocol = "tcp" /\ TcpEmit(c)
       \/ protocol = "grpc" /\ GrpcEmit(c)
       \/ protocol = "in process" /\ call[c].decodes /\ InProcessSend(c)

Calling(c) ==
    /\ call[c].at = "idle" /\ (Send(c) \/ Emit(c))
    /\ UNCHANGED <<protocol, serving, serves, unacked, replies, ended, faults>>

(* The reply on the call's channel, whatever its result.                   *)
Answered(c) ==
    /\ call[c].at = "waiting" /\ c \in replies
    /\ replies' = replies \ {c} /\ Moved(c, "replied")
    /\ UNCHANGED <<protocol, serving, serves, inbox, queue, unacked, tasks,
                   ended, faults>>

(* Nobody reads the reply of a call that timed out.  TCP has no timeout.   *)
TimesOut(c) ==
    /\ call[c].at = "waiting" /\ protocol \notin {"tcp", "in process"}
    /\ Moved(c, "error")
    /\ UNCHANGED <<protocol, serving, serves, inbox, queue, unacked, tasks,
                   replies, ended, faults>>

(* The connection of a TCP call ends without a reply: it was not accepted  *)
(* before the listener closed, or the task that serves it is gone.         *)
Closed(c) ==
    /\ call[c].at = "waiting" /\ protocol = "tcp"
    /\ c \notin replies \cup {x[2] : x \in inbox} \cup {t.call : t \in tasks}
    /\ Moved(c, "error")
    /\ UNCHANGED <<protocol, serving, serves, inbox, queue, unacked, tasks,
                   replies, ended, faults>>

-----------------------------------------------------------------------------
(* Servers.                                                                *)

Serve(s) ==
    /\ ~serving[s] /\ serves[s] < MaxServes
    /\ serving' = [serving EXCEPT ![s] = TRUE]
    /\ serves' = [serves EXCEPT ![s] = @ + 1]
    /\ UNCHANGED <<protocol, call, inbox, queue, unacked, tasks, replies,
                   ended, faults>>

(* The connection closes: copies are lost, and the queue has back what was *)
(* not acknowledged.                                                       *)
Disconnects(s) ==
    /\ serving' = [serving EXCEPT ![s] = FALSE]
    /\ inbox' = {x \in inbox : x[1] # s}
    /\ queue' = queue \cup {x[2] : x \in {y \in unacked : y[1] = s}}
    /\ unacked' = {x \in unacked : x[1] # s}

(* listen drops the serve future on a shutdown signal, and serve returns   *)
(* when its connection is lost; either leaves the tasks it spawned alone.  *)
StopsServing(s) ==
    /\ serving[s] /\ Disconnects(s)
    /\ UNCHANGED <<protocol, call, serves, tasks, replies, ended, faults>>

Crash(s) ==
    /\ serves[s] > 0 /\ faults < MaxFaults /\ Disconnects(s)
    /\ tasks' = {t \in tasks : t.server # s}
    /\ faults' = faults + 1
    /\ UNCHANGED <<protocol, call, serves, replies, ended>>

(* What a server does with a message it takes: a task that dispatches it,  *)
(* an error reply at once, or nothing.                                     *)
Spawned(s, c) ==
    tasks' = tasks \cup {Task(s, c, "dispatch")} /\ UNCHANGED replies
Errs(c) == replies' = replies \cup {c} /\ UNCHANGED tasks
Skipped == UNCHANGED <<tasks, replies>>

RedisReceives(s, c) == IF call[c].decodes THEN Spawned(s, c) ELSE Skipped
MqttReceives(s, c) == IF call[c].decodes THEN Spawned(s, c) ELSE Skipped
KafkaReceives(s, c) == IF call[c].decodes THEN Spawned(s, c) ELSE Skipped
NatsReceives(s, c) ==
    IF call[c].decodes THEN Spawned(s, c)
    ELSE IF call[c].kind = "request" THEN Errs(c) ELSE Skipped
TcpReceives(s, c) == IF call[c].decodes THEN Spawned(s, c) ELSE Errs(c)
GrpcReceives(s, c) == IF call[c].decodes THEN Spawned(s, c) ELSE Errs(c)

Receive(s, c) ==
    /\ <<s, c>> \in inbox /\ inbox' = inbox \ {<<s, c>>}
    /\ \/ protocol = "redis" /\ RedisReceives(s, c)
       \/ protocol = "nats" /\ NatsReceives(s, c)
       \/ protocol = "mqtt" /\ MqttReceives(s, c)
       \/ protocol = "kafka" /\ KafkaReceives(s, c)
       \/ protocol = "tcp" /\ TcpReceives(s, c)
       \/ protocol = "grpc" /\ GrpcReceives(s, c)
    /\ UNCHANGED <<protocol, call, serving, serves, queue, unacked, ended, faults>>

(* Variant of Deliver for a consumer that does not wait to be told.        *)
DeliverAcked(s, c) ==
    /\ serving[s] /\ c \in queue /\ queue' = queue \ {c}
    /\ IF call[c].decodes THEN Spawned(s, c) ELSE Skipped
    /\ UNCHANGED <<protocol, call, serving, serves, inbox, unacked, ended, faults>>

(* A RabbitMQ consumer: what does not decode is acknowledged at once.      *)
Deliver(s, c) ==
    /\ serving[s] /\ c \in queue /\ queue' = queue \ {c}
    /\ IF call[c].decodes
       THEN Spawned(s, c) /\ unacked' = unacked \cup {<<s, c>>}
       ELSE Skipped /\ UNCHANGED unacked
    /\ UNCHANGED <<protocol, call, serving, serves, inbox, ended, faults>>

-----------------------------------------------------------------------------
(* Tasks.                                                                  *)

(* What follows the handler: the reply of a request, and of every call     *)
(* over TCP or gRPC; then, of a RabbitMQ delivery, its acknowledgement.    *)
Afterwards(c) ==
    IF call[c].kind = "request" \/ protocol \in {"tcp", "grpc", "in process"}
    THEN "publish"
    ELSE IF protocol = "rabbitmq" THEN "ack" ELSE "over"

Dispatch(t) ==
    /\ t \in tasks /\ t.at = "dispatch"
    /\ ended' = ended \cup {t.call}
    /\ tasks' = To(t, Afterwards(t.call))
    /\ UNCHANGED <<protocol, call, serving, serves, inbox, queue, unacked,
                   replies, faults>>

(* A panic of the handler ends the task; its delivery stays unacknowledged *)
(* as long as the connection lives.                                        *)
Panic(t) ==
    /\ t \in tasks /\ t.at = "dispatch" /\ faults < MaxFaults
    /\ tasks' = tasks \ {t} /\ faults' = faults + 1
    /\ UNCHANGED <<protocol, call, serving, serves, inbox, queue, unacked,
                   replies, ended>>

PublishReply(t) ==
    /\ t \in tasks /\ t.at = "publish"
    /\ protocol = "rabbitmq" => Connected(t)
    /\ replies' = IF call[t.call].at = "waiting" THEN replies \cup {t.call}
                  ELSE replies
    /\ tasks' = To(t, IF protocol = "rabbitmq" THEN "ack" ELSE "over")
    /\ UNCHANGED <<protocol, call, serving, serves, inbox, queue, unacked,
                   ended, faults>>

(* The error of a publish is dropped with the task, and with the delivery. *)
PublishFails(t) ==
    /\ t \in tasks /\ t.at = "publish" /\ protocol # "in process"
    /\ faults < MaxFaults \/ ~Connected(t)
    /\ faults' = IF Connected(t) THEN faults + 1 ELSE faults
    /\ tasks' = tasks \ {t}
    /\ UNCHANGED <<protocol, call, serving, serves, inbox, queue, unacked,
                   replies, ended>>

(* An acknowledgement counts on the connection that delivered.             *)
Ack(t) ==
    /\ t \in tasks /\ t.at = "ack" /\ tasks' = tasks \ {t}
    /\ unacked' = IF Connected(t) THEN unacked \ {<<t.server, t.call>>}
                  ELSE unacked
    /\ UNCHANGED <<protocol, call, serving, serves, inbox, queue, replies,
                   ended, faults>>

Next ==
    \/ \E c \in Calls : Calling(c) \/ Answered(c) \/ TimesOut(c) \/ Closed(c)
    \/ \E s \in Servers : Serve(s) \/ StopsServing(s) \/ Crash(s)
    \/ \E s \in Servers, c \in Calls : Receive(s, c) \/ Deliver(s, c)
    \/ \E t \in tasks :
          Dispatch(t) \/ Panic(t) \/ PublishReply(t) \/ PublishFails(t) \/ Ack(t)

Spec == Init /\ [][Next]_vars

-----------------------------------------------------------------------------
(* What a RabbitMQ queue took and no longer has was handled to its end, or *)
(* did not decode, whatever panicked, crashed, stopped or lost its         *)
(* connection in between (the deliveries are acknowledged last of all).    *)
AckedIsHandled ==
    protocol = "rabbitmq" =>
        \A c \in Calls :
            call[c].at # "idle" /\ call[c].decodes =>
                c \in queue \cup ended \cup {x[2] : x \in unacked}

(* Over every protocol, however many servers have a copy of a call: nobody *)
(* is told a result of a handler that has not run to its end (a reply is   *)
(* sent after the dispatch, or because the message does not decode).       *)
AnsweredIsHandled ==
    \A c \in Calls :
        c \in replies \/ call[c].at = "replied" =>
            c \in ended \/ ~call[c].decodes

(* A client reads on and sees a connection that is closed, a server        *)
(* accepts connections while it listens, handlers return or panic.         *)
Serves(c) ==
    \/ \E s \in Servers : Receive(s, c)
    \/ \E t \in tasks : t.call = c /\ (Dispatch(t) \/ PublishReply(t))
Fairness ==
    \A c \in Calls : WF_vars(Answered(c) \/ Closed(c)) /\ WF_vars(Serves(c))

(* A call over TCP, which has no timeout, ends though its server stops,    *)
(* crashes, panics or cannot send the reply (TcpTransportClient::send).    *)
TcpCallsEnd ==
    \A c \in Calls :
        protocol = "tcp" /\ call[c].at = "waiting" ~> call[c].at # "waiting"

=============================================================================
