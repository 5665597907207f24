--------------------------- MODULE MCProviderCache ---------------------------
(***************************************************************************)
(* ProviderCache on two graphs of dependencies that share no key, of which *)
(* a behaviour enters one: a ring a -> b -> c -> a, the last one through a *)
(* ProviderRef, that three threads enter, and a diamond cut to one side,   *)
(* d -> e -> s and d -> s, where s has an async factory, that two threads  *)
(* enter, the seeder being one of them.                                    *)
(***************************************************************************)
EXTENDS ProviderCache, TLC

CONSTANTS t1, t2, t3, a, b, c, d, e, s

VARIABLE shape

Nothing == [k \in Keys |-> {}]
Injects == (a :> {b}) @@ (b :> {c}) @@ (d :> {e, s}) @@ (e :> {s}) @@ Nothing
Refers == (c :> {a}) @@ Nothing

ShapesInit == shape \in {"ring", "seeded"} /\ Init

(* The call or the seed that thread t begins is of the chosen graph.  In   *)
(* the ring, every thread calls once and before any build begins, keys in  *)
(* their order: a thread that is back is as one that has not called, one   *)
(* that has called may wait to be scheduled as one that calls later, and   *)
(* which thread has which call is all the same.                            *)
Enters(t) ==
    LET key == IF target'[t] = None THEN Head(stack'[t]).key ELSE target'[t]
    IN  \/ /\ shape = "ring" /\ key \in {a, b, c}
           /\ nextBuild = 1 /\ t = <<t1, t2, t3>>[calls']
           /\ \A u \in Threads :
                 (target[u] = b => key # a) /\ (target[u] = c => key = c)
        \/ shape = "seeded" /\ key \in {d, e, s} /\ t # t3

ShapesNext ==
    /\ UNCHANGED shape
    /\ Next
    /\ \A t \in Threads : pc[t] = "idle" /\ pc'[t] # "idle" => Enters(t)

ShapesSpec == ShapesInit /\ [][ShapesNext]_<<vars, shape>> /\ Fairness

=============================================================================
