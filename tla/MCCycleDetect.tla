--------------------------- MODULE MCCycleDetect ---------------------------
(***************************************************************************)
(* Every graph on a few nodes, for model-checking CycleDetect.             *)
(***************************************************************************)
EXTENDS CycleDetect

CONSTANTS n1, n2, n3, n4

FourNodes  == {n1, n2, n3, n4}

=============================================================================
