-------------------------- MODULE MCGraphScheduler --------------------------
(* Instances of GraphScheduler for TLC: every graph of N nodes whose nodes *)
(* are of the given kinds, in every order of ids.                          *)
EXTENDS GraphScheduler, TLC

CONSTANTS Kinds, FailBranches, MaxIn, Resumed

Plain == [dependsOn |-> {}, fail |-> 0, strategy |-> "fail", maxRetries |-> 0, delay |-> FALSE,
          maxIterations |-> 0, approval |-> FALSE, timeout |-> FALSE, frozen |-> FALSE, cond |-> FALSE]

Kind == [ plain |-> Plain,
          fallback |-> [Plain EXCEPT !.strategy = "default"],
          retry |-> [Plain EXCEPT !.strategy = "retry", !.maxRetries = 1],
          delayed |-> [Plain EXCEPT !.strategy = "retry", !.maxRetries = 1, !.delay = TRUE],
          iterate |-> [Plain EXCEPT !.maxIterations = 2],
          frozen |-> [Plain EXCEPT !.maxIterations = 2, !.frozen = TRUE],
          gated |-> [Plain EXCEPT !.approval = TRUE],
          timed |-> [Plain EXCEPT !.approval = TRUE, !.timeout = TRUE],
          timedfallback |-> [Plain EXCEPT !.approval = TRUE, !.timeout = TRUE, !.strategy = "default"],
          gatedretry |-> [Plain EXCEPT !.approval = TRUE, !.strategy = "retry", !.maxRetries = 1],
          conditional |-> [Plain EXCEPT !.cond = TRUE, !.strategy = "default"] ]

Acyclic == { d \in [Nodes -> SUBSET Nodes] :
               /\ \A n \in Nodes : Cardinality(d[n]) <= MaxIn
               /\ \E rank \in [Nodes -> Nodes] : \A n \in Nodes : \A m \in d[n] : rank[m] < rank[n] }

\* A fail branch leads to a dependent.
Branches(d) == { f \in [Nodes -> 0..N] : \A n \in Nodes : f[n] # 0 => FailBranches /\ n \in d[f[n]] }

AllGraphs ==
  UNION { { [n \in Nodes |-> [Kind[k[n]] EXCEPT !.dependsOn = d[n], !.fail = f[n]]] :
              k \in [Nodes -> Kinds], f \in Branches(d) } : d \in Acyclic }

AnyCached == IF Resumed THEN SUBSET Nodes ELSE {{}}
=============================================================================
