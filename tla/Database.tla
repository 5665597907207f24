-------------------------------- MODULE Database --------------------------------
(***************************************************************************)
(* Database::transaction over the in-memory backend (src/database.rs):     *)
(* clones of a transaction that execute statements concurrently with the   *)
(* callback's end and with a commit or rollback of their own.  finished    *)
(* and pending are two locks: a statement looks at the one, and then       *)
(* pushes to the other.                                                    *)
(***************************************************************************)
EXTENDS Naturals, Sequences, FiniteSets, Functions

CONSTANTS
    Transactions,
    Statements      \* each is executed at most once, in some transaction

VARIABLES
    executed,   \* statements executed outside of transactions
    log,        \* InMemoryDatabaseState.transactions
    pending,    \* transaction -> statements
    finished,   \* transaction -> BOOLEAN
    statement,  \* [at, of]: "idle", "open", "ok" or "error"
    call,       \* transaction(): "idle", "callback", "commit", "rollback",
                \* "ok", "error" or "dropped"
    before      \* history: statements that were ok when it finished

vars == <<executed, log, pending, finished, statement, call, before>>

Init ==
    /\ executed = <<>> /\ log = <<>>
    /\ pending = [t \in Transactions |-> <<>>]
    /\ finished = [t \in Transactions |-> FALSE]
    /\ statement \in [Statements -> [at : {"idle"}, of : Transactions]]
    /\ call = [t \in Transactions |-> "idle"]
    /\ before = [t \in Transactions |-> {}]

-----------------------------------------------------------------------------
ExecuteDirectly(s) ==
    /\ statement[s].at = "idle"
    /\ executed' = Append(executed, s)
    /\ statement' = [statement EXCEPT ![s].at = "ok"]
    /\ UNCHANGED <<log, pending, finished, call, before>>

(* begin, and the callback runs.                                           *)
Begin(t) ==
    /\ call[t] = "idle" /\ call' = [call EXCEPT ![t] = "callback"]
    /\ UNCHANGED <<executed, log, pending, finished, statement, before>>

(* execute or query of a clone, which may outlive the callback.            *)
CheckOpen(s) ==
    /\ statement[s].at = "idle" /\ call[statement[s].of] # "idle"
    /\ statement' = [statement EXCEPT ![s].at =
                        IF finished[statement[s].of] THEN "error" ELSE "open"]
    /\ UNCHANGED <<executed, log, pending, finished, call, before>>

PushPending(s) ==
    /\ statement[s].at = "open"
    /\ pending' = [pending EXCEPT ![statement[s].of] = Append(@, s)]
    /\ statement' = [statement EXCEPT ![s].at = "ok"]
    /\ UNCHANGED <<executed, log, finished, call, before>>

(* finish, under the lock of finished: whether it is the first.            *)
Accepted(t) == {s \in Statements : statement[s].of = t /\ statement[s].at = "ok"}

(* Variant of Finish that does not look whether it was finished.           *)
FinishAgain(t, committed) ==
    /\ finished' = [finished EXCEPT ![t] = TRUE]
    /\ log' = Append(log, [id |-> t, committed |-> committed,
                           statements |-> pending[t]])
    /\ before' = [before EXCEPT ![t] = Accepted(t) \ Range(executed)]

Finish(t, committed) ==
    /\ ~finished[t]
    /\ finished' = [finished EXCEPT ![t] = TRUE]
    /\ log' = Append(log, [id |-> t, committed |-> committed,
                           statements |-> pending[t]])
    /\ before' = [before EXCEPT ![t] = Accepted(t) \ Range(executed)]

Refused(t) == finished[t] /\ UNCHANGED <<log, finished, before>>

(* The callback, or one that has a clone, commits or rolls back itself.    *)
FinishesItself(t, committed) ==
    /\ call[t] \in {"callback", "dropped"} /\ Finish(t, committed)
    /\ UNCHANGED <<executed, pending, statement, call>>

CallbackEnds(t, ok) ==
    /\ call[t] = "callback"
    /\ call' = [call EXCEPT ![t] = IF ok THEN "commit" ELSE "rollback"]
    /\ UNCHANGED <<executed, log, pending, finished, statement, before>>

(* The caller drops transaction(): nothing finishes it.                    *)
Dropped(t) ==
    /\ call[t] = "callback" /\ call' = [call EXCEPT ![t] = "dropped"]
    /\ UNCHANGED <<executed, log, pending, finished, statement, before>>

Commits(t) ==
    /\ call[t] = "commit"
    /\ \/ Finish(t, TRUE) /\ call' = [call EXCEPT ![t] = "ok"]
       \/ Refused(t) /\ call' = [call EXCEPT ![t] = "error"]
    /\ UNCHANGED <<executed, pending, statement>>

RollsBack(t) ==
    /\ call[t] = "rollback" /\ call' = [call EXCEPT ![t] = "error"]
    /\ Finish(t, FALSE) \/ Refused(t)
    /\ UNCHANGED <<executed, pending, statement>>

Next ==
    \/ \E s \in Statements : ExecuteDirectly(s) \/ CheckOpen(s) \/ PushPending(s)
    \/ \E t \in Transactions :
          \/ Begin(t) \/ Dropped(t) \/ Commits(t) \/ RollsBack(t)
          \/ \E b \in BOOLEAN : FinishesItself(t, b) \/ CallbackEnds(t, b)

Spec == Init /\ [][Next]_vars

-----------------------------------------------------------------------------
(* A transaction is logged once, committed if transaction() returned Ok,   *)
(* with each statement that had returned when it finished, and with none   *)
(* twice (finish of src/database.rs).  One that passed check_open before   *)
(* and pushes after is accepted and in no log.                             *)
LoggedOnce ==
    /\ \A n, k \in DOMAIN log : log[n].id = log[k].id => n = k
    /\ \A t \in Transactions :
          call[t] = "ok" => \E n \in DOMAIN log : log[n].id = t /\ log[n].committed
    /\ \A n \in DOMAIN log : /\ before[log[n].id] \subseteq Range(log[n].statements)
                              /\ IsInjective(log[n].statements)

=============================================================================
