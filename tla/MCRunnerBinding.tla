--------------------------- MODULE MCRunnerBinding ---------------------------
(***************************************************************************)
(* RunnerBinding for TLC: the start node and one node that runs something, *)
(* an id that names nothing, a Runnable and nil, a resolver that knows the *)
(* node and not the start node, a bulk request that names both; one setter *)
(* goroutine calls SetNodeRunners, the other one SetRunner, SetNodeRunner. *)
(***************************************************************************)
EXTENDS RunnerBinding, TLC

CONSTANTS s, a, x, r1, t1, t2

MCId == {s, a, x}
MCNode == {s, a}
MCSpecial == {s}
MCRunner == {r1}
MCResolver == {s :> Nil @@ a :> r1}
MCBulkRequest == {{<<s, r1>>, <<a, r1>>}}
MCBulkSetter == {t1}
MCSetter == {t1, t2}
=============================================================================
