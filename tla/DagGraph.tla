------------------------------ MODULE DagGraph ------------------------------
(***************************************************************************)
(* Directed graphs as the dag-go modules see them: a set N of nodes and a  *)
(* set E of pairs <<parent, child>>.                                       *)
(***************************************************************************)

\* A cycle, without naming it: a nonempty set whose members all have a child
\* in it.  In a finite graph such a set exists exactly when a cycle does.
Looping(S, E) == S # {} /\ \A n \in S : \E m \in S : <<n, m>> \in E

HasCycle(N, E) == \E S \in SUBSET N : Looping(S, E)

\* The graph a run relies on: it has no cycle, nothing points at the start
\* node, the end node points at nothing, and the end node can be reached from
\* every node (a set that holds it and every parent of its members holds every
\* node).
FinishedGraph(N, E, start, end) ==
    /\ {start, end} \subseteq N
    /\ ~HasCycle(N, E)
    /\ \A n \in N : <<n, start>> \notin E /\ <<end, n>> \notin E
    /\ \A S \in SUBSET N :
          end \in S /\ (\A e \in E : e[2] \in S => e[1] \in S) => S = N

=============================================================================
