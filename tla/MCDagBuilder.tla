---------------------------- MODULE MCDagBuilder ----------------------------
(***************************************************************************)
(* A few ids and two building goroutines, for model-checking DagBuilder.   *)
(***************************************************************************)
EXTENDS DagBuilder, TLC

CONSTANTS s, a, b, e, p, q

\* Two user nodes: with the start and the end node they give every shape the
\* checks of FinishDag tell apart (isolated, childless, orphan root, cycle,
\* edge into the start node, end node created by hand).
Ids == {s, a, b, e, NoId}

Builders == {p, q}

\* Two errors fill the Errors channel and overflow it; copies make do with one.
Errors == [o \in Origin |-> IF o = "built" THEN 2 ELSE 1]

\* The builders, and the two user nodes, are interchangeable.
Symmetry == Permutations({p, q}) \cup Permutations({a, b})

=============================================================================
