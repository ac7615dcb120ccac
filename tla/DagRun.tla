------------------------------- MODULE DagRun -------------------------------
(***************************************************************************)
(* One run of a finished dag: GetReady submits one task per node to the    *)
(* worker pool, Start sends the trigger, each worker takes a node through  *)
(* preFlight, inFlight and postFlight (connectRunner), nodes signal their  *)
(* children over the edge channels, and Wait returns a verdict.            *)
(*                                                                         *)
(* Goroutines are the workers (a worker is named by the node it runs), one *)
(* receiver per parent channel of a node in preFlight, the relay that      *)
(* carries the end node's results to NodesResult, and the caller, who      *)
(* calls GetReady, Start and Wait in this order.  It is the first run of   *)
(* the dag or, after Reset, a later one.                                   *)
(***************************************************************************)
EXTENDS Integers, Sequences, FiniteSets, DagGraph

CONSTANTS
    Node,             \* nodes of the finished dag, StartNode and EndNode included
    Edges,            \* pairs <<parent, child>>
    StartNode,
    EndNode,
    Caller,           \* sender of the trigger channel, StartNode's only source
    WorkerPoolSize,   \* DagConfig.WorkerPoolSize
    MinChannelBuffer, \* DagConfig.MinChannelBuffer
    MayFail,          \* nodes whose RunE may return an error (or have no runner)
    OwnRunner,        \* nodes with a runner of their own (SetNodeRunner)
    Cancellable,      \* TRUE: the caller may cancel the contexts
    SharedCtx,        \* TRUE: GetReady and Wait were given the same context
    bTimeout          \* TRUE: Dag.Timeout is set (WithTimeout)

UserNode == Node \ {StartNode, EndNode}

Parents(n)  == {p \in Node : <<p, n>> \in Edges}
Children(n) == {c \in Node : <<n, c>> \in Edges}

ASSUME NodeAssumption ==
    /\ IsFiniteSet(Node)
    /\ Edges \subseteq Node \X Node
    /\ StartNode \in Node /\ EndNode \in Node /\ StartNode # EndNode
    /\ Caller \notin Node
    /\ MayFail \subseteq UserNode
    /\ OwnRunner \subseteq UserNode

ASSUME ConfigAssumption ==
    /\ WorkerPoolSize \in Nat
    /\ MinChannelBuffer \in Nat \ {0, 1, 2}
    /\ {Cancellable, SharedCtx, bTimeout} \subseteq BOOLEAN

\* What FinishDag leaves behind (DagBuilder!FinishedIsRunnable).
ASSUME GraphAssumption == FinishedGraph(Node, Edges, StartNode, EndNode)

Trigger  == <<Caller, StartNode>>
Channels == Edges \cup {Trigger}

\* Senders of n's parentVertex channels.
Sources(n) == {p \in Node \cup {Caller} : <<p, n>> \in Channels}

Limit == IF Cardinality(Node) < WorkerPoolSize
         THEN Cardinality(Node) ELSE WorkerPoolSize

FailedResults == {"PreflightFailed", "InFlightFailed", "PostFlightFailed"}
Results == FailedResults \cup {"Preflight", "InFlight", "PostFlight", "FlightEnd"}

RunnerPCs == {"idle", "queued", "check", "skipped", "preFlight", "preOk",
              "preErr", "inFlight", "execute", "inOk", "inErr", "postFlight",
              "postOk", "succeed", "fail", "notifyFailed", "done"}

VARIABLES
    pc,          \* pc[n]: where the task of node n is
    status,      \* Node.status
    succeed,     \* Node.succeed
    waiting,     \* waiting[n]: sources whose receiver in preFlight has not returned
    egErr,       \* egErr[n]: a receiver of n returned an error, egCtx is done
    sig,         \* sig[c]: signals in the SafeChannel of edge c
    toNotify,    \* toNotify[n]: children the running postFlight/notifyChildren has left
    completed,   \* Dag.completedCount
    endResult,   \* the end node's own result channel
    merged,      \* the end node's results in Dag.NodesResult
    relaying,    \* the relay between the two is still running
    main,        \* the caller's goroutine
    waitResult,  \* the value Wait is about to return, or has returned
    runDone,     \* the context given to GetReady is done
    waitDone     \* waitCtx is done while Wait still selects on it

runnerVars == <<pc, status, succeed, waiting, egErr, sig, toNotify, completed>>
resultVars == <<endResult, merged, relaying>>
callerVars == <<main, waitResult>>
ctxVars    == <<runDone, waitDone>>
vars       == <<runnerVars, resultVars, callerVars, ctxVars>>

TypeOK ==
    /\ pc \in [Node -> RunnerPCs]
    /\ status \in [Node -> {"Pending", "Running", "Succeeded", "Failed", "Skipped"}]
    /\ succeed \in [Node -> BOOLEAN]
    /\ waiting \in [Node -> SUBSET (Node \cup {Caller})]
    /\ \A n \in Node : waiting[n] \subseteq Sources(n)
    /\ egErr \in [Node -> BOOLEAN]
    /\ sig \in [Channels -> Seq({"Start", "Succeed", "Failed"})]
    /\ toNotify \in [Node -> SUBSET Node]
    /\ \A n \in Node : toNotify[n] \subseteq Children(n)
    /\ completed \in Nat
    /\ endResult \in Seq(Results)
    /\ merged \in Seq(Results)
    /\ relaying \in BOOLEAN
    /\ main \in {"getReady", "start", "startMark", "wait", "closePool", "returned"}
    /\ waitResult \in {"none", "true", "false"}
    /\ runDone \in BOOLEAN
    /\ waitDone \in BOOLEAN

\* What FinishDag and Reset have in common: every node Pending, open channels
\* with nothing in them on the edges and the trigger, no results, counters at 0.
Fresh ==
    /\ pc = [n \in Node |-> "idle"]
    /\ status = [n \in Node |-> "Pending"]
    /\ waiting = [n \in Node |-> {}]
    /\ egErr = [n \in Node |-> FALSE]
    /\ sig = [c \in Channels |-> <<>>]
    /\ toNotify = [n \in Node |-> {}]
    /\ completed = 0
    /\ endResult = <<>>
    /\ merged = <<>>
    /\ relaying = TRUE
    /\ main = "getReady"
    /\ waitResult = "none"
    /\ runDone = FALSE
    /\ waitDone = FALSE

\* FinishDag sets EndNode.succeed; Reset clears it, as it does every node's.
FirstRun   == succeed = [n \in Node |-> n = EndNode]
AfterReset == succeed = [n \in Node |-> FALSE]

\* After ConnectRunner, on a finished dag or on one that Reset has prepared.
Init == Fresh /\ (FirstRun \/ AfterReset)

(***************************************************************************)
(* Node status.                                                            *)
(***************************************************************************)

isValidTransition(from, to) ==
    \/ from = "Pending" /\ to \in {"Running", "Skipped"}
    \/ from = "Running" /\ to \in {"Succeeded", "Failed"}

\* A rejected transition is logged and the runner goes on.
TransitionStatus(n, from, to) ==
    status' = IF isValidTransition(from, to) /\ status[n] = from
              THEN [status EXCEPT ![n] = to]
              ELSE status

SetSucceed(n, val) == succeed' = [succeed EXCEPT ![n] = val]

Goto(n, from, to) ==
    /\ pc[n] = from
    /\ pc' = [pc EXCEPT ![n] = to]

(***************************************************************************)
(* GetReady and the worker pool.  The task queue holds 2 * Limit tasks and *)
(* Limit workers take from it.  GetReady ranges over a map, so any task    *)
(* may be next in the queue: the queue is the set of queued nodes.         *)
(***************************************************************************)

Queued == {n \in Node : pc[n] = "queued"}
Busy   == {n \in Node : pc[n] \notin {"idle", "queued", "done"}}

\* MUTANT of QueueHasRoom: the task queue has a place per worker, not two.
QueueHasHalf == Cardinality(Queued) < Limit

QueueHasRoom == Cardinality(Queued) < 2 * Limit

Submit(n) ==
    /\ main = "getReady"
    /\ QueueHasRoom
    /\ Goto(n, "idle", "queued")
    /\ main' = IF \E m \in Node \ {n} : pc[m] = "idle" THEN main ELSE "start"
    /\ UNCHANGED <<status, succeed, waiting, egErr, sig, toNotify, completed,
                   resultVars, waitResult, ctxVars>>

\* A worker takes the task of n and drops it when its context is done.
TakeTask(n) ==
    /\ Cardinality(Busy) < Limit
    /\ Goto(n, "queued", IF runDone THEN "done" ELSE "check")
    /\ UNCHANGED <<status, succeed, waiting, egErr, sig, toNotify, completed,
                   resultVars, callerVars, ctxVars>>

(***************************************************************************)
(* The runner of a node (connectRunner).                                   *)
(***************************************************************************)

\* MUTANT of CheckParentsStatus: a node marked Skipped goes on to preFlight.
CheckWithoutReturn(n) ==
    LET failedParent == \E p \in Parents(n) : status[p] = "Failed" IN
    /\ Goto(n, "check", "preFlight")
    /\ TransitionStatus(n, "Pending", IF failedParent THEN "Skipped" ELSE "Running")
    /\ waiting' = [waiting EXCEPT ![n] = Sources(n)]
    /\ UNCHANGED <<succeed, egErr, sig, toNotify, completed,
                   resultVars, callerVars, ctxVars>>

\* CheckParentsStatus and the guarded Pending -> Running transition.  One
\* step: only n's runner writes status[n], and Failed is final.
CheckParentsStatus(n) ==
    LET failedParent == \E p \in Parents(n) : status[p] = "Failed" IN
    /\ Goto(n, "check", IF failedParent THEN "skipped" ELSE "preFlight")
    /\ TransitionStatus(n, "Pending", IF failedParent THEN "Skipped" ELSE "Running")
    /\ waiting' = [waiting EXCEPT ![n] = IF failedParent THEN {} ELSE Sources(n)]
    /\ UNCHANGED <<succeed, egErr, sig, toNotify, completed,
                   resultVars, callerVars, ctxVars>>

\* MUTANT of ReceiveSignal: a Failed signal is not taken for an error.
ReceiveIgnoringFailed(n, p) ==
    /\ pc[n] = "preFlight"
    /\ p \in waiting[n]
    /\ sig[<<p, n>>] # <<>>
    /\ sig' = [sig EXCEPT ![<<p, n>>] = Tail(@)]
    /\ waiting' = [waiting EXCEPT ![n] = @ \ {p}]
    /\ UNCHANGED <<pc, status, succeed, egErr, toNotify, completed,
                   resultVars, callerVars, ctxVars>>

\* A receiver of preFlight takes the signal of source p.
ReceiveSignal(n, p) ==
    /\ pc[n] = "preFlight"
    /\ p \in waiting[n]
    /\ sig[<<p, n>>] # <<>>
    /\ sig' = [sig EXCEPT ![<<p, n>>] = Tail(@)]
    /\ egErr' = [egErr EXCEPT ![n] = @ \/ Head(sig[<<p, n>>]) = "Failed"]
    /\ waiting' = [waiting EXCEPT ![n] = @ \ {p}]
    /\ UNCHANGED <<pc, status, succeed, toNotify, completed,
                   resultVars, callerVars, ctxVars>>

\* MUTANT of AbandonSignal: the wait for parents has a time limit of its own.
AbandonAtTimeout(n, p) ==
    /\ pc[n] = "preFlight"
    /\ p \in waiting[n]
    /\ egErr' = [egErr EXCEPT ![n] = TRUE]
    /\ waiting' = [waiting EXCEPT ![n] = @ \ {p}]
    /\ UNCHANGED <<pc, status, succeed, sig, toNotify, completed,
                   resultVars, callerVars, ctxVars>>

\* A receiver of preFlight gives up: another one failed, or ctx is done.
AbandonSignal(n, p) ==
    /\ pc[n] = "preFlight"
    /\ p \in waiting[n]
    /\ egErr[n] \/ runDone
    /\ egErr' = [egErr EXCEPT ![n] = TRUE]
    /\ waiting' = [waiting EXCEPT ![n] = @ \ {p}]
    /\ UNCHANGED <<pc, status, succeed, sig, toNotify, completed,
                   resultVars, callerVars, ctxVars>>

\* MUTANT of PreFlightReturns: eg.Wait is not waited for.
PreFlightReturnsEarly(n) ==
    /\ Goto(n, "preFlight", IF egErr[n] THEN "preErr" ELSE "preOk")
    /\ SetSucceed(n, ~egErr[n])
    /\ UNCHANGED <<status, waiting, egErr, sig, toNotify, completed,
                   resultVars, callerVars, ctxVars>>

\* eg.Wait of preFlight returns: every receiver has.
PreFlightReturns(n) ==
    /\ waiting[n] = {}
    /\ Goto(n, "preFlight", IF egErr[n] THEN "preErr" ELSE "preOk")
    /\ SetSucceed(n, ~egErr[n])
    /\ UNCHANGED <<status, waiting, egErr, sig, toNotify, completed,
                   resultVars, callerVars, ctxVars>>

\* inFlight of the start and the end node runs no user code.
InFlightSpecial(n) ==
    /\ n \notin UserNode
    /\ Goto(n, "inFlight", "inOk")
    /\ SetSucceed(n, TRUE)
    /\ UNCHANGED <<status, waiting, egErr, sig, toNotify, completed,
                   resultVars, callerVars, ctxVars>>

\* execute resolves the runner and calls RunE.  A node without a runner of
\* its own reads the dag's under dag.mu, which GetReady holds.
BeginRunE(n) ==
    /\ n \in UserNode
    /\ n \in OwnRunner \/ main # "getReady"
    /\ Goto(n, "inFlight", IF succeed[n] THEN "execute" ELSE "inErr")
    /\ UNCHANGED <<status, succeed, waiting, egErr, sig, toNotify, completed,
                   resultVars, callerVars, ctxVars>>

\* MUTANT of EndRunE: a RunE that failed is called again.
RetryRunE(n) ==
    \E err \in IF n \in MayFail \/ runDone THEN BOOLEAN ELSE {FALSE} :
        /\ Goto(n, "execute", IF err THEN "inFlight" ELSE "inOk")
        /\ SetSucceed(n, TRUE)
        /\ UNCHANGED <<status, waiting, egErr, sig, toNotify, completed,
                       resultVars, callerVars, ctxVars>>

\* RunE returns.  Any RunE may fail once its context is done.
EndRunE(n) ==
    \E err \in IF n \in MayFail \/ runDone THEN BOOLEAN ELSE {FALSE} :
        /\ Goto(n, "execute", IF err THEN "inErr" ELSE "inOk")
        /\ SetSucceed(n, ~err)
        /\ UNCHANGED <<status, waiting, egErr, sig, toNotify, completed,
                       resultVars, callerVars, ctxVars>>

\* The phases that end with sendResult: what is sent, and what comes next.
ReportedFrom == {"skipped", "preOk", "preErr", "inOk", "inErr", "postOk"}

ReportedResult(n) ==
    CASE pc[n] = "skipped" -> "PostFlightFailed"
      [] pc[n] = "preOk"   -> "Preflight"
      [] pc[n] = "preErr"  -> "PreflightFailed"
      [] pc[n] = "inOk"    -> "InFlight"
      [] pc[n] = "inErr"   -> "InFlightFailed"
      [] pc[n] = "postOk"  -> IF n = EndNode THEN "FlightEnd" ELSE "PostFlight"

AfterReport(n) ==
    CASE pc[n] = "skipped" -> "notifyFailed"
      [] pc[n] = "preOk"   -> "inFlight"
      [] pc[n] = "inOk"    -> IF n = EndNode THEN "postOk" ELSE "postFlight"
      [] pc[n] = "postOk"  -> "succeed"
      [] OTHER             -> "fail"

\* sendResult: SendBlocking into the node's result channel, whose select may
\* drop the result once ctx is done.  Wait ignores every result but the end
\* node's, so only these are kept; a node sends at most three, so the channel
\* of MinChannelBuffer >= 3 never fills.  The end node has no child to signal:
\* its postFlight is part of this step.
SendResult(n) ==
    /\ pc[n] \in ReportedFrom
    /\ pc' = [pc EXCEPT ![n] = AfterReport(n)]
    /\ toNotify' = [toNotify EXCEPT ![n] =
            IF AfterReport(n) \in {"notifyFailed", "postFlight"} THEN Children(n) ELSE {}]
    /\ \/ endResult' = IF n = EndNode THEN Append(endResult, ReportedResult(n)) ELSE endResult
       \/ n = EndNode /\ runDone /\ UNCHANGED endResult
    /\ UNCHANGED <<status, succeed, waiting, egErr, sig, completed,
                   merged, relaying, callerVars, ctxVars>>

\* MUTANT of SendSignal: notifyChildren too tells what Node.succeed says.
SendSucceedFlag(n, c) ==
    /\ pc[n] \in {"postFlight", "notifyFailed"}
    /\ c \in toNotify[n]
    /\ toNotify' = [toNotify EXCEPT ![n] = @ \ {c}]
    /\ \/ /\ Len(sig[<<n, c>>]) < MinChannelBuffer
          /\ sig' = [sig EXCEPT ![<<n, c>>] =
                Append(@, IF succeed[n] THEN "Succeed" ELSE "Failed")]
       \/ runDone /\ UNCHANGED sig
    /\ UNCHANGED <<pc, status, succeed, waiting, egErr, completed,
                   resultVars, callerVars, ctxVars>>

\* SendBlocking of postFlight or notifyChildren to child c; either branch of
\* its select may be taken once ctx is done.
SendSignal(n, c) ==
    /\ pc[n] \in {"postFlight", "notifyFailed"}
    /\ c \in toNotify[n]
    /\ toNotify' = [toNotify EXCEPT ![n] = @ \ {c}]
    /\ \/ /\ Len(sig[<<n, c>>]) < MinChannelBuffer
          /\ sig' = [sig EXCEPT ![<<n, c>>] =
                Append(@, IF pc[n] = "postFlight" /\ succeed[n] THEN "Succeed" ELSE "Failed")]
       \/ runDone /\ UNCHANGED sig
    /\ UNCHANGED <<pc, status, succeed, waiting, egErr, completed,
                   resultVars, callerVars, ctxVars>>

\* MUTANT of PostFlightReturns: MarkCompleted counts the start node as well.
PostFlightCountsAll(n) ==
    /\ toNotify[n] = {}
    /\ Goto(n, "postFlight", "postOk")
    /\ completed' = completed + 1
    /\ UNCHANGED <<status, succeed, waiting, egErr, sig, toNotify,
                   resultVars, callerVars, ctxVars>>

\* postFlight ends with MarkCompleted, which skips the start and the end node.
PostFlightReturns(n) ==
    /\ toNotify[n] = {}
    /\ Goto(n, "postFlight", "postOk")
    /\ completed' = IF n \in UserNode THEN completed + 1 ELSE completed
    /\ UNCHANGED <<status, succeed, waiting, egErr, sig, toNotify,
                   resultVars, callerVars, ctxVars>>

\* The last transition of a runner that went through postFlight.
Succeed(n) ==
    /\ Goto(n, "succeed", "done")
    /\ TransitionStatus(n, "Running", "Succeeded")
    /\ UNCHANGED <<succeed, waiting, egErr, sig, toNotify, completed,
                   resultVars, callerVars, ctxVars>>

\* MUTANT of Fail: the runner returns without notifyChildren.
FailSilently(n) ==
    /\ Goto(n, "fail", "notifyFailed")
    /\ TransitionStatus(n, "Running", "Failed")
    /\ UNCHANGED <<succeed, waiting, egErr, sig, toNotify, completed,
                   resultVars, callerVars, ctxVars>>

\* MUTANT of Fail: notifyChildren ranges over the parents.
FailNotifiesParents(n) ==
    /\ Goto(n, "fail", "notifyFailed")
    /\ TransitionStatus(n, "Running", "Failed")
    /\ toNotify' = [toNotify EXCEPT ![n] = Parents(n)]
    /\ UNCHANGED <<succeed, waiting, egErr, sig, completed,
                   resultVars, callerVars, ctxVars>>

\* Running -> Failed comes before the children are notified.
Fail(n) ==
    /\ Goto(n, "fail", "notifyFailed")
    /\ TransitionStatus(n, "Running", "Failed")
    /\ toNotify' = [toNotify EXCEPT ![n] = Children(n)]
    /\ UNCHANGED <<succeed, waiting, egErr, sig, completed,
                   resultVars, callerVars, ctxVars>>

NotifyReturns(n) ==
    /\ toNotify[n] = {}
    /\ Goto(n, "notifyFailed", "done")
    /\ UNCHANGED <<status, succeed, waiting, egErr, sig, toNotify, completed,
                   resultVars, callerVars, ctxVars>>

(***************************************************************************)
(* The caller: Start, then Wait.                                           *)
(***************************************************************************)

\* Start's non-blocking Send: the fresh trigger channel has room.
Start ==
    /\ main = "start"
    /\ sig' = [sig EXCEPT ![Trigger] = Append(@, "Start")]
    /\ main' = "startMark"
    /\ UNCHANGED <<pc, status, succeed, waiting, egErr, toNotify, completed,
                   resultVars, waitResult, ctxVars>>

\* The SetSucceed that follows the Send, while the start node may be running.
StartMark ==
    /\ main = "startMark"
    /\ SetSucceed(StartNode, TRUE)
    /\ main' = "wait"
    /\ UNCHANGED <<pc, status, waiting, egErr, sig, toNotify, completed,
                   resultVars, waitResult, ctxVars>>

\* The relay of fanIn that serves the end node: SendBlocking into NodesResult
\* may drop the result once waitCtx is done, and then the relay ends.  Each
\* relay reads its channel until closeChannels closes it or such a send is
\* dropped, so merge's own result can reach Wait only once waitCtx is done,
\* and it is false: WaitInterrupted stands for it.
Relay ==
    /\ main = "wait"
    /\ relaying
    /\ endResult # <<>>
    /\ endResult' = Tail(endResult)
    /\ \/ merged' = Append(merged, Head(endResult)) /\ UNCHANGED relaying
       \/ waitDone /\ relaying' = FALSE /\ UNCHANGED merged
    /\ UNCHANGED <<runnerVars, callerVars, ctxVars>>

Verdict(v) ==
    /\ waitResult' = v
    /\ main' = "closePool"

\* MUTANT of WaitReceives: PostFlightFailed is not counted as a failure.
WaitReceivesPostFlight ==
    /\ main = "wait"
    /\ merged # <<>>
    /\ merged' = Tail(merged)
    /\ IF Head(merged) \in FailedResults \ {"PostFlightFailed"} THEN Verdict("false")
       ELSE IF Head(merged) \in {"FlightEnd", "PostFlightFailed"} THEN Verdict("true")
       ELSE UNCHANGED callerVars
    /\ UNCHANGED <<runnerVars, endResult, relaying, ctxVars>>

\* MUTANT of WaitReceives: FlightEnd is taken for a report on the way.
WaitMissesEnd ==
    /\ main = "wait"
    /\ merged # <<>>
    /\ merged' = Tail(merged)
    /\ IF Head(merged) \in FailedResults THEN Verdict("false") ELSE UNCHANGED callerVars
    /\ UNCHANGED <<runnerVars, endResult, relaying, ctxVars>>

\* Wait takes a result of the end node from NodesResult.
WaitReceives ==
    /\ main = "wait"
    /\ merged # <<>>
    /\ merged' = Tail(merged)
    /\ IF Head(merged) \in FailedResults THEN Verdict("false")
       ELSE IF Head(merged) = "FlightEnd" THEN Verdict("true")
       ELSE UNCHANGED callerVars
    /\ UNCHANGED <<runnerVars, endResult, relaying, ctxVars>>

\* Wait's select sees waitCtx done.
WaitInterrupted ==
    /\ main = "wait"
    /\ waitDone
    /\ Verdict("false")
    /\ UNCHANGED <<runnerVars, resultVars, ctxVars>>

\* MUTANT of PoolCloses: Wait returns without waiting for the workers.
PoolClosesEarly ==
    /\ main = "closePool"
    /\ main' = "returned"
    /\ UNCHANGED <<runnerVars, resultVars, waitResult, ctxVars>>

\* The deferred calls of Wait: cancel(), then workerPool.Close(), which waits
\* until every task has been taken and has returned, then closeChannels().
PoolCloses ==
    /\ main = "closePool"
    /\ \A n \in Node : pc[n] = "done"
    /\ main' = "returned"
    /\ UNCHANGED <<runnerVars, resultVars, waitResult, ctxVars>>

(***************************************************************************)
(* Contexts.                                                               *)
(***************************************************************************)

CancelRun ==
    /\ Cancellable /\ ~runDone /\ main # "returned"
    /\ runDone' = TRUE
    /\ waitDone' = (waitDone \/ SharedCtx)
    /\ UNCHANGED <<runnerVars, resultVars, callerVars>>

CancelWait ==
    /\ Cancellable /\ ~SharedCtx /\ ~waitDone /\ main # "returned"
    /\ waitDone' = TRUE
    /\ UNCHANGED <<runnerVars, resultVars, callerVars, runDone>>

\* Dag.Timeout expires: the deadline is set when Wait begins.
Deadline ==
    /\ bTimeout /\ ~waitDone /\ main = "wait"
    /\ waitDone' = TRUE
    /\ UNCHANGED <<runnerVars, resultVars, callerVars, runDone>>

(***************************************************************************)
(* The specification.                                                      *)
(***************************************************************************)

Runner(n) ==
    \/ CheckParentsStatus(n)
    \/ \E p \in Node \cup {Caller} : ReceiveSignal(n, p) \/ AbandonSignal(n, p)
    \/ PreFlightReturns(n)
    \/ InFlightSpecial(n) \/ BeginRunE(n) \/ EndRunE(n)
    \/ SendResult(n)
    \/ \E c \in Node : SendSignal(n, c)
    \/ PostFlightReturns(n)
    \/ Succeed(n) \/ Fail(n) \/ NotifyReturns(n)

Wait == WaitReceives \/ WaitInterrupted \/ PoolCloses

\* Wait has returned; the caller makes no further call.
Returned == main = "returned" /\ UNCHANGED vars

Next ==
    \/ \E n \in Node : Submit(n) \/ TakeTask(n) \/ Runner(n)
    \/ Start \/ StartMark
    \/ Relay \/ Wait
    \/ CancelRun \/ CancelWait \/ Deadline
    \/ Returned

Spec == Init /\ [][Next]_vars

\* Every goroutine that can take a step takes one, RunE returns, and a
\* deadline that was set expires.  Nobody has to cancel.
Fairness ==
    /\ \A n \in Node : WF_vars(Submit(n)) /\ WF_vars(TakeTask(n)) /\ WF_vars(Runner(n))
    /\ WF_vars(Start) /\ WF_vars(StartMark)
    /\ WF_vars(Relay) /\ WF_vars(Wait) /\ WF_vars(Deadline)

LiveSpec == Spec /\ Fairness

(***************************************************************************)
(* Properties.                                                             *)
(***************************************************************************)

\* The work of n is done and went well / will never go well.
Ok(n) ==
    \/ pc[n] \in {"inOk", "postFlight", "postOk", "succeed"}
    \/ pc[n] = "done" /\ status[n] = "Succeeded"

Bad(n) ==
    \/ pc[n] \in {"skipped", "preErr", "inErr", "fail", "notifyFailed"}
    \/ pc[n] = "done" /\ status[n] # "Succeeded"

\* A node that has passed preFlight has only parents whose own work is over
\* and went well, whatever the order of signals, failures and cancellations
\* (connectRunner's preFlight before inFlight).
DependencyOrder ==
    \A n \in Node :
        pc[n] \in {"preOk", "inFlight", "execute"} \/ Ok(n) \/ pc[n] = "inErr"
            => \A p \in Parents(n) : Ok(p)

\* When Wait returns true, every node has Succeeded and Progress is exactly 1:
\* no node is still running and none was skipped (Wait reads only the end
\* node's results, from a channel, while others may still be in postFlight).
WaitTrueMeansAllSucceeded ==
    main = "returned" /\ waitResult = "true" =>
        /\ \A n \in Node : status[n] = "Succeeded"
        /\ completed = Cardinality(UserNode)

\* Unless Wait's own context is done, its verdict is exact: whatever the
\* order in which results, signals and a cancellation of the run arrive, true
\* means that every node Succeeded and false that some node did not.
VerdictIsExact ==
    main = "returned" /\ ~waitDone =>
        (waitResult = "true" <=> \A n \in Node : status[n] = "Succeeded")

\* No node is blamed without a cause: a node ends Failed or Skipped, or never
\* starts, because its own RunE failed, a parent went bad, or the context is
\* done; Skipped (CheckParentsStatus) always has a parent that is Failed.
BadHasCause ==
    \A n \in Node :
        /\ Bad(n) => runDone \/ n \in MayFail \/ \E p \in Parents(n) : Bad(p)
        /\ status[n] = "Skipped" => \E p \in Parents(n) : status[p] = "Failed"

\* A failure never stops at a child: when Wait has returned, a node with a
\* parent that did not succeed did not succeed either.
FailurePropagates ==
    main = "returned" =>
        \A e \in Edges : status[e[1]] # "Succeeded" => status[e[2]] # "Succeeded"

\* The guarded transitions of connectRunner are never rejected: the status a
\* runner moves from is the one it left behind.
TransitionsAccepted ==
    \A n \in Node :
        /\ pc[n] \in {"idle", "queued", "check"} => status[n] = "Pending"
        /\ pc[n] \in {"preFlight", "preOk", "preErr", "inFlight", "execute", "inOk",
                      "inErr", "postFlight", "postOk", "succeed", "fail"} => status[n] = "Running"

\* A parent signals each child at most once and a signal agrees with the
\* parent's fate: a child never waits on a full channel and never hears both.
SignalsAgree ==
    \A e \in Edges :
        /\ Len(sig[e]) <= 1
        /\ \A i \in DOMAIN sig[e] :
              IF sig[e][i] = "Succeed" THEN Ok(e[1]) ELSE Bad(e[1])
        /\ sig[e] # <<>> => e[2] \notin toNotify[e[1]]

\* The completed counter never exceeds the user nodes whose work went well,
\* and misses none of those past postFlight: Progress does not count a failed
\* or skipped node.
ProgressIsExact ==
    completed = Cardinality({n \in UserNode :
        Ok(n) /\ pc[n] \notin {"inOk", "postFlight"}})

\* GetReady, which holds dag.mu, is not held up for ever: with at most three
\* times as many nodes as workers there is room in the queue, or a worker free
\* to make some, though no worker may finish before Start (dag.go:1124).
GetReadyGoesOn ==
    main = "getReady" /\ Cardinality(Node) <= 3 * Limit =>
        QueueHasRoom \/ (Queued # {} /\ Cardinality(Busy) < Limit)

\* The runner of n has a step to take: it is not waiting for a parent that has
\* not signalled, for a full channel, or for dag.mu.
RunnerCanMove(n) ==
    \/ pc[n] \in ReportedFrom \cup {"check", "execute", "succeed", "fail"}
    \/ /\ pc[n] = "preFlight"
       /\ egErr[n] \/ runDone \/ waiting[n] = {} \/ \E p \in waiting[n] : sig[<<p, n>>] # <<>>
    \/ pc[n] = "inFlight" /\ (n \notin UserNode \/ n \in OwnRunner \/ main # "getReady")
    \/ /\ pc[n] \in {"postFlight", "notifyFailed"}
       /\ \/ runDone \/ toNotify[n] = {}
          \/ \E c \in toNotify[n] : Len(sig[<<n, c>>]) < MinChannelBuffer

\* Some goroutine has a step to take, without a context ending for its sake.
CanMove ==
    \/ main = "getReady" /\ QueueHasRoom /\ \E n \in Node : pc[n] = "idle"
    \/ Queued # {} /\ Cardinality(Busy) < Limit
    \/ \E n \in Node : RunnerCanMove(n)
    \/ main \in {"start", "startMark"}
    \/ main = "wait" /\ (waitDone \/ merged # <<>> \/ (relaying /\ endResult # <<>>))
    \/ main = "closePool" /\ \A n \in Node : pc[n] = "done"

\* Nobody waits for ever: with a worker for every node and a Wait that hears of
\* the run's cancellation, some goroutine can go on until Wait has returned,
\* whoever failed or was cancelled and in whatever order the signals came.
NobodyStuck ==
    /\ Cardinality(Node) <= WorkerPoolSize
    /\ runDone => waitDone
    /\ main # "returned"
    => CanMove

\* How far a runner and the caller have come.  The steps of one rank are
\* alternatives.
Rank(at) ==
    CASE at = "idle" -> 0
      [] at = "queued" -> 1
      [] at = "check" -> 2
      [] at \in {"skipped", "preFlight"} -> 3
      [] at \in {"preOk", "preErr"} -> 4
      [] at = "inFlight" -> 5
      [] at = "execute" -> 6
      [] at \in {"inOk", "inErr"} -> 7
      [] at = "postFlight" -> 8
      [] at \in {"postOk", "fail"} -> 9
      [] at \in {"succeed", "notifyFailed"} -> 10
      [] at = "done" -> 11

CallerRank(at) ==
    CASE at = "getReady" -> 0
      [] at = "start" -> 1
      [] at = "startMark" -> 2
      [] at = "wait" -> 3
      [] at = "closePool" -> 4
      [] at = "returned" -> 5

NoneGoesBack ==
    /\ \A n \in Node : Rank(pc[n]) <= Rank(pc'[n])
    /\ CallerRank(main) <= CallerRank(main')
    /\ (runDone => runDone') /\ (waitDone => waitDone')

OneGoesForward ==
    \/ \E n \in Node : Rank(pc[n]) < Rank(pc'[n])
    \/ CallerRank(main) < CallerRank(main')
    \/ ~runDone /\ runDone'
    \/ ~waitDone /\ waitDone'

LessToWaitFor ==
    /\ \A n \in Node : waiting'[n] \subseteq waiting[n] /\ toNotify'[n] \subseteq toNotify[n]
    /\ \E n \in Node : waiting'[n] # waiting[n] \/ toNotify'[n] # toNotify[n]

ResultComesCloser ==
    /\ UNCHANGED <<waiting, toNotify>>
    /\ \/ Len(endResult') < Len(endResult)
       \/ UNCHANGED endResult /\ Len(merged') < Len(merged)

\* A run comes to an end: no step takes a runner, the caller or a context back,
\* and one that moves none of them forward leaves fewer signals to wait for or
\* to send, or brings a result of the end node closer to Wait.  No runner, no
\* receiver and no relay goes round in a loop.
OnlyForward ==
    [][NoneGoesBack /\ (OneGoesForward \/ LessToWaitFor \/ ResultComesCloser)]_vars

\* The run implements what DagExec promises its caller.
Job(n) ==
    IF Ok(n) THEN "ok"
    ELSE IF Bad(n) THEN "failed"
    ELSE IF pc[n] \in {"preOk", "inFlight", "execute"} THEN "running"
    ELSE "waiting"

Exec == INSTANCE DagExec WITH
            job <- [n \in Node |-> Job(n)],
            cancelled <- runDone \/ waitDone,
            verdict <- IF main = "returned" THEN waitResult ELSE "none"

RefinesExec == Exec!Spec

\* Once Wait is called it returns (dag.go:1156, "Wait blocks until the DAG
\* finishes execution, ctx expires, ...").
WaitReturns == main = "wait" ~> main = "returned"

(***************************************************************************)
(* What the documentation says and the code does not do: each is the       *)
(* property of a run that finds it violated.                               *)
(***************************************************************************)

\* dag.go:1134 "All node goroutines are already waiting (submitted by
\* GetReady); this single send unblocks the start node and cascades through
\* the graph", with WorkerPoolSize documented (dag.go:69) as a cap on
\* concurrency only: once Start has sent the trigger, every node is run.
StartCascades == main = "startMark" ~> \A n \in Node : pc[n] = "done"

\* dag.go:1094 "ctx is forwarded to each node's runner function; cancel it to
\* abort the entire execution": a Wait under way then returns.
CancelEndsWait == main = "wait" /\ runDone ~> main = "returned"

\* dag.go:432 "WithTimeout, which caps the overall DAG run in Wait()": once
\* Wait has given up at the deadline, no further RunE begins under it.
DeadlineCapsRun ==
    [][\A n \in Node :
        waitResult = "false" /\ pc'[n] = "execute" => pc[n] = "execute"]_vars

=============================================================================
