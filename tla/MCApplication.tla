---------------------------- MODULE MCApplication ----------------------------
(* Module graphs to check Application on.                                  *)
EXTENDS Application

CONSTANTS ma, mb, mc

Edges(r) == {<<m, d>> \in Modules \X Modules : d \in r[m]}

(* All graphs of two edges at most, loops and parallels included.          *)
FewEdges ==
    {g \in [imports : [Modules -> SUBSET Modules],
            forward : [Modules -> SUBSET Modules]] :
        Cardinality(Edges(g.imports)) + Cardinality(Edges(g.forward)) <= 2}

Links(edges) == [m \in Modules |-> {d \in Modules : <<m, d>> \in edges}]

(* A ring of three and a diamond cut short, whose edges are imports or     *)
(* forward imports in every way.                                           *)
Shapes == {{<<ma, mb>>, <<mb, mc>>, <<mc, ma>>}, {<<ma, mb>>, <<ma, mc>>, <<mb, mc>>}}

ThreeEdges ==
    UNION {{[imports |-> Links(s \ f), forward |-> Links(f)] : f \in SUBSET s} :
              s \in Shapes}

SmallGraphs == FewEdges \cup ThreeEdges

ABC == {<<ma>>, <<mb, ma>>}

(* One module and its two imports.                                         *)
Alone == {[imports |-> [m \in Modules |-> IF m = ma THEN Modules \ {ma} ELSE {}],
           forward |-> [m \in Modules |-> {}]]}

OnlyA == {<<ma>>}
=============================================================================
