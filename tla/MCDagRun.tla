------------------------------ MODULE MCDagRun ------------------------------
(***************************************************************************)
(* Finished dags for model-checking DagRun.                                *)
(***************************************************************************)
EXTENDS DagRun

CONSTANTS s, a, b, c, e

\* start -> {a, b} -> c -> end: a fan-out, a fan-in, a failure that two
\* parents may bring, and a chain behind it.
DiamondNodes == {s, a, b, c, e}
DiamondEdges == {<<s, a>>, <<s, b>>, <<a, c>>, <<b, c>>, <<c, e>>}

\* start -> a -> c -> end with b -> c: FinishDag accepts b, which has a child and
\* no parent.  Five nodes fill the four places of two workers' task queue while
\* GetReady has one more to submit.
OrphanNodes == {s, a, b, c, e}
OrphanEdges == {<<s, a>>, <<a, c>>, <<b, c>>, <<c, e>>}

\* start -> a -> end.
ChainNodes == {s, a, e}
ChainEdges == {<<s, a>>, <<a, e>>}

=============================================================================
