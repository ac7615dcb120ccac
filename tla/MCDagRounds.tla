----------------------------- MODULE MCDagRounds -----------------------------
(***************************************************************************)
(* DagRounds for TLC: one node before the end node, two rounds, result     *)
(* channels with one place less than a node has reports.                   *)
(***************************************************************************)
EXTENDS DagRounds

CONSTANTS a, e

MCNode == {a, e}
MCInterruptible == {1}
=============================================================================
