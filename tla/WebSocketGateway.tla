--------------------------- MODULE WebSocketGateway ---------------------------
(***************************************************************************)
(* The connections of one gateway: src/websocket/connection.rs and         *)
(* src/websocket/state.rs, as the adapter serves a socket with them        *)
(* (handle_websocket in src/adapters/axum.rs), while handlers, hooks and   *)
(* tasks of the application hold clones of them and of the server.         *)
(* Only the adapter opens a connection; anyone may close it.               *)
(***************************************************************************)
EXTENDS Naturals, Sequences, FiniteSets, Functions

CONSTANTS
    Connections,                  \* ids, in the order they were given
    Rooms,
    ConnectHooks, DisconnectHooks,   \* numbers of hooks of the gateway
    Nobody

VARIABLES
    task,        \* handle_websocket of each socket: "new", "opening",
                 \* "serving", "closing" or "gone"
    connected,   \* connection hooks that succeeded
    opened,      \* WebSocketGatewayConnection.opened
    table,       \* WebSocketGatewayState.connections: id -> rooms
    closer,      \* who runs the disconnect hooks of each: "task", "clone",
                 \* Nobody, or "lost" once a close was cut short
    hooksLeft,   \* disconnect hooks still to run
    rounds,      \* times the disconnect hooks of each were begun
    writer,      \* the receiver of the connection's outbound exists
    broadcast    \* connections a broadcast has still to send to

vars == <<task, connected, opened, table, closer, hooksLeft, rounds, writer,
          broadcast>>

-----------------------------------------------------------------------------
Init ==
    /\ task = [c \in Connections |-> "new"]
    /\ connected = [c \in Connections |-> 0]
    /\ opened = [c \in Connections |-> FALSE]
    /\ table = [c \in {} |-> {}]
    /\ closer = [c \in Connections |-> Nobody]
    /\ hooksLeft = [c \in Connections |-> 0]
    /\ rounds = [c \in Connections |-> 0]
    /\ writer = [c \in Connections |-> TRUE]
    /\ broadcast = <<>>

Register(c) == table' = [d \in DOMAIN table \cup {c} |->
                           IF d = c THEN {} ELSE table[d]]
Unregister(c) == table' = [d \in DOMAIN table \ {c} |-> table[d]]

Registry == <<table, opened>>
Closing == <<closer, hooksLeft, rounds>>

-----------------------------------------------------------------------------
(* open                                                                    *)

Open(c) ==
    /\ task[c] = "new"
    /\ task' = [task EXCEPT ![c] = "opening"]
    /\ opened' = [opened EXCEPT ![c] = TRUE]
    /\ Register(c)
    /\ UNCHANGED <<connected, Closing, writer, broadcast>>

ConnectHook(c) ==
    /\ task[c] = "opening" /\ connected[c] < ConnectHooks
    /\ connected' = [connected EXCEPT ![c] = @ + 1]
    /\ UNCHANGED <<task, Registry, Closing, writer, broadcast>>

(* Variant of ConnectHookFails that only clears the flag.                  *)
ConnectHookFailsRegistered(c) ==
    /\ task[c] = "opening" /\ connected[c] < ConnectHooks
    /\ task' = [task EXCEPT ![c] = "gone"]
    /\ opened' = [opened EXCEPT ![c] = FALSE]
    /\ writer' = [writer EXCEPT ![c] = FALSE]
    /\ UNCHANGED <<connected, table, Closing, broadcast>>

(* The socket's task returns, and with it the receiver goes.               *)
ConnectHookFails(c) ==
    /\ task[c] = "opening" /\ connected[c] < ConnectHooks
    /\ task' = [task EXCEPT ![c] = "gone"]
    /\ opened' = [opened EXCEPT ![c] = FALSE]
    /\ Unregister(c)
    /\ writer' = [writer EXCEPT ![c] = FALSE]
    /\ UNCHANGED <<connected, Closing, broadcast>>

Opened(c) ==
    /\ task[c] = "opening" /\ connected[c] = ConnectHooks
    /\ task' = [task EXCEPT ![c] = "serving"]
    /\ UNCHANGED <<connected, Registry, Closing, writer, broadcast>>

-----------------------------------------------------------------------------
(* What whoever has a clone or the server may do.                          *)

(* Variant of Join that makes the entry it does not find.                  *)
JoinAnyway(c, room) ==
    /\ task[c] # "new"
    /\ table' = [d \in DOMAIN table \cup {c} |->
                    (IF d \in DOMAIN table THEN table[d] ELSE {})
                    \cup (IF d = c THEN {room} ELSE {})]
    /\ UNCHANGED <<task, connected, opened, Closing, writer, broadcast>>

Join(c, room) ==
    /\ c \in DOMAIN table
    /\ table' = [table EXCEPT ![c] = @ \cup {room}]
    /\ UNCHANGED <<task, connected, opened, Closing, writer, broadcast>>

Leave(c, room) ==
    /\ c \in DOMAIN table
    /\ table' = [table EXCEPT ![c] = @ \ {room}]
    /\ UNCHANGED <<task, connected, opened, Closing, writer, broadcast>>

(* broadcast_targets, then send_to_outbounds: the targets are those of the *)
(* moment it begins, and the first that fails ends it.                     *)
Broadcast(room) ==
    /\ broadcast = <<>>
    /\ LET targets == {c \in DOMAIN table : room \in table[c]}
       IN  broadcast' = CHOOSE s \in [1..Cardinality(targets) -> targets] :
                            IsInjective(s)
    /\ UNCHANGED <<task, connected, Registry, Closing, writer>>

SendNext ==
    /\ broadcast # <<>>
    /\ broadcast' = IF writer[Head(broadcast)] THEN Tail(broadcast) ELSE <<>>
    /\ UNCHANGED <<task, connected, Registry, Closing, writer>>

(* A connection hook, or what dispatches a message, panics, or the runtime *)
(* drops the task: nothing closes the connection, which has no Drop. The   *)
(* writer is a task of its own, spawned once the connection is open.       *)
TaskPanics(c) ==
    /\ task[c] \in {"opening", "serving"}
    /\ task' = [task EXCEPT ![c] = "gone"]
    /\ writer' = [writer EXCEPT ![c] = @ /\ task[c] = "serving"]
    /\ UNCHANGED <<connected, Registry, Closing, broadcast>>

(* The writer's loop ends when the socket does not take a message.         *)
WriterEnds(c) ==
    /\ task[c] \notin {"new", "opening"} /\ writer[c]
    /\ writer' = [writer EXCEPT ![c] = FALSE]
    /\ UNCHANGED <<task, connected, Registry, Closing, broadcast>>

-----------------------------------------------------------------------------
(* close                                                                   *)

(* Variant of Swapped that clears the flag only after the hooks.           *)
SwappedLate(c, who) ==
    /\ c \in DOMAIN table
    /\ opened' = opened
    /\ closer' = [closer EXCEPT ![c] = who]
    /\ hooksLeft' = [hooksLeft EXCEPT ![c] = DisconnectHooks]
    /\ rounds' = [rounds EXCEPT ![c] = @ + 1]

(* opened.swap(false): whoever finds it set runs the hooks.                *)
Swapped(c, who) ==
    /\ opened[c]
    /\ opened' = [opened EXCEPT ![c] = FALSE]
    /\ closer' = [closer EXCEPT ![c] = who]
    /\ hooksLeft' = [hooksLeft EXCEPT ![c] = DisconnectHooks]
    /\ rounds' = [rounds EXCEPT ![c] = @ + 1]

CloneCloses(c) ==
    /\ Swapped(c, "clone")
    /\ UNCHANGED <<task, connected, table, writer, broadcast>>

(* The socket ends or fails, or takes no reply: the task closes.           *)
TaskCloses(c) ==
    /\ task[c] = "serving" /\ Swapped(c, "task")
    /\ task' = [task EXCEPT ![c] = "closing"]
    /\ UNCHANGED <<connected, table, writer, broadcast>>

(* It was closed already: close returns at once.                           *)
TaskFindsClosed(c) ==
    /\ task[c] = "serving" /\ ~opened[c]
    /\ task' = [task EXCEPT ![c] = "gone"]
    /\ writer' = [writer EXCEPT ![c] = FALSE]
    /\ UNCHANGED <<connected, Registry, Closing, broadcast>>

(* The hooks run in reverse order.                                         *)
DisconnectHook(c) ==
    /\ closer[c] \in {"task", "clone"} /\ hooksLeft[c] > 0
    /\ hooksLeft' = [hooksLeft EXCEPT ![c] = @ - 1]
    /\ UNCHANGED <<task, connected, Registry, closer, rounds, writer, broadcast>>

(* A hook panics or the close is dropped while it runs: the connection     *)
(* stays in the table, and no later close will get past opened.swap.       *)
CutShort(c) ==
    /\ closer[c] \in {"task", "clone"} /\ hooksLeft[c] > 0
    /\ closer' = [closer EXCEPT ![c] = "lost"]
    /\ hooksLeft' = [hooksLeft EXCEPT ![c] = 0]
    /\ task' = IF closer[c] = "task" THEN [task EXCEPT ![c] = "gone"] ELSE task
    /\ UNCHANGED <<connected, Registry, rounds, writer, broadcast>>

(* After the last hook, or the first that fails, the connection goes.      *)
Closed(c) ==
    /\ closer[c] \in {"task", "clone"}
    /\ closer' = [closer EXCEPT ![c] = Nobody]
    /\ Unregister(c)
    /\ IF closer[c] = "task"
       THEN /\ task' = [task EXCEPT ![c] = "gone"]
            /\ writer' = [writer EXCEPT ![c] = FALSE]
       ELSE UNCHANGED <<task, writer>>
    /\ UNCHANGED <<connected, opened, hooksLeft, rounds, broadcast>>

-----------------------------------------------------------------------------
Next ==
    \/ \E c \in Connections :
          \/ Open(c) \/ ConnectHook(c) \/ ConnectHookFails(c) \/ Opened(c)
          \/ WriterEnds(c) \/ CloneCloses(c) \/ TaskCloses(c)
          \/ TaskFindsClosed(c) \/ DisconnectHook(c) \/ Closed(c)
          \/ TaskPanics(c) \/ CutShort(c)
          \/ \E room \in Rooms : Join(c, room) \/ Leave(c, room)
    \/ \E room \in Rooms : Broadcast(room)
    \/ SendNext

Spec == Init /\ [][Next]_vars

-----------------------------------------------------------------------------
(* A connection that is no longer open is not in the gateway's table or    *)
(* any room, except while the hooks of the one close that found it open    *)
(* still run (open, close and join of connection.rs): rooms and counts do  *)
(* not fill with connections that are no more. Two escape: one whose close *)
(* was cut short by a panic ("lost"), and one whose task panicked and that *)
(* nobody closes, which is still open.                                     *)
GoneIsForgotten ==
    \A c \in Connections :
        ~opened[c] /\ closer[c] = Nobody => c \notin DOMAIN table

(* However many holders close a connection, its disconnect hooks are run   *)
(* by one of them (opened.swap in close).                                  *)
DisconnectedOnce == \A c \in Connections : rounds[c] <= 1

=============================================================================
