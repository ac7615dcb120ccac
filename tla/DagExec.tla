------------------------------ MODULE DagExec ------------------------------
(***************************************************************************)
(* What one run of a dag promises its caller, without runners, channels,   *)
(* workers or statuses: a node's job begins only when the job of every     *)
(* parent is done and went well, a job that does not begin is abandoned    *)
(* for a reason, and the verdict of Wait agrees with what happened.        *)
(* DagRun, the model of the code, is shown to implement this module.       *)
(***************************************************************************)

CONSTANTS
    Node,       \* the nodes of a finished dag, start and end node included
    Edges,      \* its edges, pairs <<parent, child>>
    EndNode     \* the synthetic exit node

VARIABLES
    job,        \* job[n]: how far node n has come
    cancelled,  \* TRUE once a context or the deadline of the run is done
    verdict     \* what Wait has returned, "none" before it returns

execVars == <<job, cancelled, verdict>>

Parents(n) == {p \in Node : <<p, n>> \in Edges}

ExecTypeOK ==
    /\ job \in [Node -> {"waiting", "running", "ok", "failed"}]
    /\ cancelled \in BOOLEAN
    /\ verdict \in {"none", "true", "false"}

Init ==
    /\ job = [n \in Node |-> "waiting"]
    /\ cancelled = FALSE
    /\ verdict = "none"

Move(n, from, to) ==
    /\ job[n] = from
    /\ job' = [job EXCEPT ![n] = to]
    /\ UNCHANGED <<cancelled, verdict>>

\* The job of n begins: every parent has delivered its success.
Begin(n) ==
    /\ \A p \in Parents(n) : job[p] = "ok"
    /\ Move(n, "waiting", "running")

Complete(n) == Move(n, "running", "ok")

Fail(n) == Move(n, "running", "failed")

\* The job of n never begins: only a bad parent or a cancelled run excuses it.
Abandon(n) ==
    /\ cancelled \/ \E p \in Parents(n) : job[p] = "failed"
    /\ Move(n, "waiting", "failed")

Cancel ==
    /\ cancelled' = TRUE
    /\ UNCHANGED <<job, verdict>>

\* TRUE is returned only for a run in which every job went well, FALSE only
\* for one whose exit node failed or that was cancelled.
Return(v) ==
    /\ verdict = "none"
    /\ v = "true"  => \A n \in Node : job[n] = "ok"
    /\ v = "false" => cancelled \/ job[EndNode] = "failed"
    /\ verdict' = v
    /\ UNCHANGED <<job, cancelled>>

Next ==
    \/ \E n \in Node : Begin(n) \/ Complete(n) \/ Fail(n) \/ Abandon(n)
    \/ Cancel
    \/ \E v \in {"true", "false"} : Return(v)

Spec == Init /\ [][Next]_execVars
=============================================================================
