------------------------------- MODULE MCCalls -------------------------------
(***************************************************************************)
(* Components whose promise is that something ends, side by side: the      *)
(* calls of ServiceClient, the jobs and workers of LaneQueue, and the      *)
(* calls of Transports.  They share no state: a behaviour is one of them,  *)
(* chosen at the start, and what the others own stays as it was.           *)
(***************************************************************************)
EXTENDS ServiceClient, LaneQueue

CONSTANTS c1, mail, Sends, Servers, Protocols, MaxServes, MaxLosses

VARIABLES
    part,
    transport, message, serving, serves, inbox, queue, unacked, deliveries,
    replies, ended, losses

Messages == INSTANCE Transports WITH
    protocol <- transport, call <- message, tasks <- deliveries,
    faults <- losses, Calls <- Sends, MaxFaults <- MaxLosses

MessagesVars == <<transport, message, serving, serves, inbox, queue, unacked,
                  deliveries, replies, ended, losses>>

(* One name for all jobs.                                                  *)
AllMail == [i \in {mail} |-> "mail"]

CallsInit ==
    /\ part \in {"calls", "lane", "transport"}
    /\ Init /\ LaneInit /\ Messages!Init
    /\ part # "calls" => healthy
    /\ part # "transport" =>
          \A m \in Sends : message[m].kind = "request" /\ message[m].decodes

CallsNext ==
    /\ UNCHANGED part
    /\ \/ part = "calls" /\ Next /\ UNCHANGED <<LaneVars, MessagesVars>>
       \/ part = "lane" /\ LaneNext /\ UNCHANGED <<vars, MessagesVars>>
       \/ part = "transport" /\ Messages!Next /\ UNCHANGED <<vars, LaneVars>>

CallsSpec ==
    /\ CallsInit /\ [][CallsNext]_<<part, vars, LaneVars, MessagesVars>>
    /\ \A c \in Callers : WF_vars(part = "calls" /\ Proceeds(c))
    /\ WF_vars(part = "calls" /\ Cools)
    /\ Fairness
    /\ Messages!Fairness

(* Every call of a service client ends (retries, an open circuit, the      *)
(* bulkhead), c1's as anybody's, since nothing tells its callers apart;    *)
(* and every call over TCP (TcpTransportClient::send).                     *)
CallsEnd == CallEnds(c1) /\ Messages!TcpCallsEnd
=============================================================================
