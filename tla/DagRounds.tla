------------------------------ MODULE DagRounds ------------------------------
(***************************************************************************)
(* The rounds of one dag: GetReady, Start, Wait, then Reset and the next   *)
(* round.  The module follows the results from the runners to Wait's       *)
(* verdict: sendResult into the result channel of a node, the goroutine    *)
(* that runs merge, the relays of fanIn, NodesResult, and the deferred     *)
(* calls that close everything when Wait returns.                          *)
(*                                                                         *)
(* The merge goroutine and its relays may outlive the Wait that started    *)
(* them.  Reset and GetReady replace Dag.NodesResult and Dag.nodeResult,   *)
(* which merge reads without a lock: a channel is named by the round it    *)
(* was made for, and each read of the two fields is a step of its own.     *)
(*                                                                         *)
(* What happens inside the nodes is DagRun's subject; here a node reports  *)
(* up to three times and may fail, and the end node succeeds when every    *)
(* other node has done its work.                                           *)
(***************************************************************************)
EXTENDS Integers, Sequences

CONSTANTS
    Node,             \* nodes of the dag, EndNode included
    EndNode,
    MaxRounds,        \* bound: the caller runs the dag at most so often
    MinChannelBuffer, \* capacity of a node's result channel
    MaxChannelBuffer, \* capacity of NodesResult
    Interruptible     \* rounds whose contexts the caller may cancel, or time out

ASSUME RoundsAssumption ==
    /\ EndNode \in Node
    /\ MaxRounds \in Nat \ {0}
    /\ MinChannelBuffer \in Nat \ {0} /\ MaxChannelBuffer \in Nat \ {0}
    /\ Interruptible \subseteq 1..MaxRounds

Round == 1..MaxRounds
Other == Node \ {EndNode}

\* What Wait tells apart; "Other" is every report it takes and ignores.
Report == {"Other", "FlightEnd", "Failed"}

VARIABLES
    round,       \* the round the caller is in
    main,        \* where the caller is
    verdict,     \* what Wait is about to return, or has returned
    nodeResult,  \* Dag.nodeResult: the round its channels were made for, 0 for nil
    nodesResult, \* Dag.NodesResult, likewise
    task,        \* task[n]: how far the runner of n has got in this round
    results,     \* results[g][n]: the result channel made for n in round g
    merged,      \* merged[g]: the NodesResult made for round g
    merge,       \* merge[r]: where the merge goroutine of round r is
    src, dst,    \* the channels merge has read from the two fields
    relay,       \* relay[r][n]: where the relay for the nth of those channels is
    held,        \* held[r][n]: the report it has received and not sent
    egErr,       \* egErr[r]: one of r's relays has returned an error
    runDone,     \* the context of this round's runners is done
    waitDone,    \* waitCtx of this round is done
    cut          \* rounds in which waitCtx was done before the verdict

callerVars == <<round, main, verdict, cut>>
fieldVars  == <<nodeResult, nodesResult>>
mergeVars  == <<merge, src, dst, egErr>>
relayVars  == <<relay, held>>
ctxVars    == <<runDone, waitDone>>
vars == <<callerVars, fieldVars, task, results, merged, mergeVars, relayVars, ctxVars>>

CallerTypeOK ==
    /\ round \in Round
    /\ main \in {"getReady", "start", "enterWait", "wait", "closePool", "closeMerged",
                 "closeResults", "returned", "resetNodeResult", "crashed"}
    /\ verdict \in {"none", "true", "false"}
    /\ nodeResult \in {0} \cup Round /\ nodesResult \in Round
    /\ cut \subseteq Round
    /\ {runDone, waitDone} \subseteq BOOLEAN

ChannelsTypeOK ==
    /\ task \in [Node -> {"idle", "queued", "pre", "in", "done", "failed"}]
    /\ results \in [Round -> [Node -> Seq(Report)]]
    /\ merged \in [Round -> Seq(Report)]
    /\ \A g \in Round :
        /\ Len(merged[g]) <= MaxChannelBuffer
        /\ \A n \in Node : Len(results[g][n]) <= MinChannelBuffer

MergeTypeOK ==
    /\ merge \in [Round -> {"none", "spawned", "checked", "sourced", "relaying",
                            "true", "false"}]
    /\ src \in [Round -> {0} \cup Round] /\ dst \in [Round -> {0} \cup Round]
    /\ relay \in [Round -> [Node -> {"none", "recv", "inside", "ended"}]]
    /\ held \in [Round -> [Node -> Report]]
    /\ egErr \in [Round -> BOOLEAN]

RoundsTypeOK == CallerTypeOK /\ ChannelsTypeOK /\ MergeTypeOK

\* FinishDag has made the dag, ConnectRunner is done.
Init ==
    /\ round = 1 /\ main = "getReady" /\ verdict = "none" /\ cut = {}
    /\ nodeResult = 0 /\ nodesResult = 1
    /\ task = [n \in Node |-> "idle"]
    /\ results = [g \in Round |-> [n \in Node |-> <<>>]]
    /\ merged = [g \in Round |-> <<>>]
    /\ merge = [r \in Round |-> "none"]
    /\ src = [r \in Round |-> 0] /\ dst = [r \in Round |-> 0]
    /\ relay = [r \in Round |-> [n \in Node |-> "none"]]
    /\ held = [r \in Round |-> [n \in Node |-> "Other"]]
    /\ egErr = [r \in Round |-> FALSE]
    /\ runDone = FALSE /\ waitDone = FALSE

(***************************************************************************)
(* The runners.                                                            *)
(***************************************************************************)

\* MUTANT of SendResult: the channel has three places whatever the configuration.
SendIntoThree(n, report) ==
    \/ /\ Len(results[round][n]) < 3
       /\ results' = [results EXCEPT ![round][n] = Append(@, report)]
    \/ runDone /\ UNCHANGED results

\* sendResult: SendBlocking, whose select may drop the report once ctx is done.
SendResult(n, report) ==
    \/ /\ Len(results[round][n]) < MinChannelBuffer
       /\ results' = [results EXCEPT ![round][n] = Append(@, report)]
    \/ runDone /\ UNCHANGED results

\* Until Start has sent the trigger every node waits in preFlight.
Started == main \notin {"getReady", "start"}

\* A node's three reports.  The end node passes preFlight when every other
\* node has signalled, which it does in postFlight before its last report.
ReportPhase(n) ==
    \E from \in {"queued", "pre", "in"} :
        LET to == CASE from = "queued" -> "pre" [] from = "pre" -> "in" [] from = "in" -> "done" IN
        /\ task[n] = from /\ Started
        /\ n = EndNode => \A m \in Other : task[m] \in {"in", "done"}
        /\ SendResult(n, IF n = EndNode /\ to = "done" THEN "FlightEnd" ELSE "Other")
        /\ task' = [task EXCEPT ![n] = to]
        /\ UNCHANGED <<callerVars, fieldVars, merged, mergeVars, relayVars, ctxVars>>

\* A node fails in preFlight or inFlight, the end node because another one has
\* or its context is done.
ReportFailure(n) ==
    /\ task[n] = "queued" \/ (n # EndNode /\ task[n] = "pre")
    /\ Started \/ runDone
    /\ n = EndNode => runDone \/ \E m \in Other : task[m] = "failed"
    /\ SendResult(n, IF n = EndNode THEN "Failed" ELSE "Other")
    /\ task' = [task EXCEPT ![n] = "failed"]
    /\ UNCHANGED <<callerVars, fieldVars, merged, mergeVars, relayVars, ctxVars>>

\* A worker drops the task: its context is done.
DropTask(n) ==
    /\ task[n] = "queued" /\ runDone
    /\ task' = [task EXCEPT ![n] = "failed"]
    /\ UNCHANGED <<callerVars, fieldVars, results, merged, mergeVars, relayVars, ctxVars>>

(***************************************************************************)
(* merge, in the goroutine that the Wait of round r started.               *)
(***************************************************************************)

\* The first look at nodeResult is at its length.
MergeChecks(r) ==
    /\ merge[r] = "spawned"
    /\ merge' = [merge EXCEPT ![r] = IF nodeResult = 0 THEN "false" ELSE "checked"]
    /\ UNCHANGED <<callerVars, fieldVars, task, results, merged, src, dst, egErr,
                   relayVars, ctxVars>>

\* The arguments of fanIn are read one after the other.
MergeReadsNodeResult(r) ==
    /\ merge[r] = "checked"
    /\ src' = [src EXCEPT ![r] = nodeResult]
    /\ merge' = [merge EXCEPT ![r] = "sourced"]
    /\ UNCHANGED <<callerVars, fieldVars, task, results, merged, dst, egErr, relayVars, ctxVars>>

\* fanIn starts a relay per channel; with none there is nothing to wait for.
MergeReadsNodesResult(r) ==
    /\ merge[r] = "sourced"
    /\ dst' = [dst EXCEPT ![r] = nodesResult]
    /\ merge' = [merge EXCEPT ![r] = IF src[r] = 0 THEN "true" ELSE "relaying"]
    /\ relay' = IF src[r] = 0 THEN relay ELSE [relay EXCEPT ![r] = [n \in Node |-> "recv"]]
    /\ UNCHANGED <<callerVars, fieldVars, task, results, merged, src, egErr, held, ctxVars>>

\* A slice header is read in parts.  While Reset or GetReady writes it, a
\* length may go with the other value's pointer: the range loop of fanIn then
\* dereferences nil.
TornRead(r) ==
    /\ merge[r] = "checked"
    /\ main \in {"resetNodeResult", "getReady"}
    /\ main' = "crashed"
    /\ UNCHANGED <<round, verdict, cut, fieldVars, task, results, merged, mergeVars,
                   relayVars, ctxVars>>

\* MUTANT of MergeReturns: a merge that was cut short is tried again.
MergeRetries(r) ==
    /\ merge[r] = "relaying"
    /\ \A n \in Node : relay[r][n] = "ended"
    /\ merge' = [merge EXCEPT ![r] = IF egErr[r] THEN "spawned" ELSE "true"]
    /\ egErr' = [egErr EXCEPT ![r] = FALSE]
    /\ UNCHANGED <<callerVars, fieldVars, task, results, merged, src, dst, relayVars, ctxVars>>

\* eg.Wait returns: every relay has.
MergeReturns(r) ==
    /\ merge[r] = "relaying"
    /\ \A n \in Node : relay[r][n] = "ended"
    /\ merge' = [merge EXCEPT ![r] = IF egErr[r] THEN "false" ELSE "true"]
    /\ UNCHANGED <<callerVars, fieldVars, task, results, merged, src, dst, egErr,
                   relayVars, ctxVars>>

(***************************************************************************)
(* The relays of fanIn.                                                    *)
(***************************************************************************)

\* Channels of earlier rounds, and those closeChannels has come to, are closed.
MergedClosed(g) == g < round \/ (g = round /\ main \in {"closeResults", "returned"})
ResultsClosed(g) == g < round \/ (g = round /\ main = "returned")

\* egCtx of round r: Wait cancels waitCtx when it returns.
EgDone(r) == egErr[r] \/ r < round \/ waitDone

RelayGoto(r, n, from, to) ==
    /\ relay[r][n] = from
    /\ relay' = [relay EXCEPT ![r][n] = to]

\* A relay receives a report and, if NodesResult is open, enters SendBlocking,
\* which holds the channel's read lock.  One step: to be closed out between the
\* two is to receive when NodesResult is closed.
RelayReceives(r, n) ==
    /\ ~MergedClosed(dst[r])
    /\ RelayGoto(r, n, "recv", "inside")
    /\ results[src[r]][n] # <<>>
    /\ held' = [held EXCEPT ![r][n] = Head(results[src[r]][n])]
    /\ results' = [results EXCEPT ![src[r]][n] = Tail(@)]
    /\ UNCHANGED <<callerVars, fieldVars, task, merged, mergeVars, ctxVars>>

\* ... or else ends, with an error only if egCtx is done.
RelayFindsClosed(r, n) ==
    /\ MergedClosed(dst[r])
    /\ RelayGoto(r, n, "recv", "ended")
    /\ results[src[r]][n] # <<>>
    /\ results' = [results EXCEPT ![src[r]][n] = Tail(@)]
    /\ egErr' = [egErr EXCEPT ![r] = EgDone(r)]
    /\ UNCHANGED <<callerVars, fieldVars, task, merged, merge, src, dst, held, ctxVars>>

\* The range over the channel ends when it is closed and drained.
RelayDrained(r, n) ==
    /\ RelayGoto(r, n, "recv", "ended")
    /\ results[src[r]][n] = <<>> /\ ResultsClosed(src[r])
    /\ UNCHANGED <<callerVars, fieldVars, task, results, merged, mergeVars, held, ctxVars>>

\* MUTANT of RelaySends: Send, which drops the report when the channel is full.
RelaySendsOrDrops(r, n) ==
    /\ RelayGoto(r, n, "inside", "recv")
    /\ merged' = IF Len(merged[dst[r]]) < MaxChannelBuffer
                 THEN [merged EXCEPT ![dst[r]] = Append(@, held[r][n])] ELSE merged
    /\ held' = [held EXCEPT ![r][n] = "Other"]
    /\ UNCHANGED <<callerVars, fieldVars, task, results, mergeVars, ctxVars>>

\* SendBlocking waits for room, ...
RelaySends(r, n) ==
    /\ RelayGoto(r, n, "inside", "recv")
    /\ Len(merged[dst[r]]) < MaxChannelBuffer
    /\ merged' = [merged EXCEPT ![dst[r]] = Append(@, held[r][n])]
    /\ held' = [held EXCEPT ![r][n] = "Other"]
    /\ UNCHANGED <<callerVars, fieldVars, task, results, mergeVars, ctxVars>>

\* ... or gives up because egCtx is done.
RelayGivesUp(r, n) ==
    /\ RelayGoto(r, n, "inside", "ended")
    /\ EgDone(r)
    /\ egErr' = [egErr EXCEPT ![r] = TRUE]
    /\ held' = [held EXCEPT ![r][n] = "Other"]
    /\ UNCHANGED <<callerVars, fieldVars, task, results, merged, merge, src, dst, ctxVars>>

(***************************************************************************)
(* The caller.                                                             *)
(***************************************************************************)

\* GetReady: result channels, tasks, and nodeResult last.
GetReady ==
    /\ main = "getReady"
    /\ task' = [n \in Node |-> "queued"]
    /\ nodeResult' = round
    /\ main' = "start"
    /\ UNCHANGED <<round, verdict, cut, nodesResult, results, merged, mergeVars,
                   relayVars, ctxVars>>

Start ==
    /\ main = "start"
    /\ main' = "enterWait"
    /\ UNCHANGED <<round, verdict, cut, fieldVars, task, results, merged, mergeVars,
                   relayVars, ctxVars>>

EnterWait ==
    /\ main = "enterWait"
    /\ merge' = [merge EXCEPT ![round] = "spawned"]
    /\ main' = "wait"
    /\ UNCHANGED <<round, verdict, cut, fieldVars, task, results, merged, src, dst, egErr,
                   relayVars, ctxVars>>

\* Wait returns v; of the deferred calls cancel is the first.
Returns(v) ==
    /\ verdict' = v
    /\ waitDone' = TRUE
    /\ cut' = IF waitDone THEN cut \cup {round} ELSE cut
    /\ main' = "closePool"

WaitReceives ==
    /\ main = "wait"
    /\ merged[nodesResult] # <<>>
    /\ merged' = [merged EXCEPT ![nodesResult] = Tail(@)]
    /\ CASE Head(merged[nodesResult]) = "Failed"    -> Returns("false")
         [] Head(merged[nodesResult]) = "FlightEnd" -> Returns("true")
         [] OTHER -> UNCHANGED <<main, verdict, cut, waitDone>>
    /\ UNCHANGED <<round, fieldVars, task, results, mergeVars, relayVars, runDone>>

\* The other ways out: merge has failed, NodesResult is closed, waitCtx is done.
WaitGivesUp ==
    /\ main = "wait"
    /\ \/ merge[round] = "false"
       \/ merged[nodesResult] = <<>> /\ MergedClosed(nodesResult)
       \/ waitDone
    /\ Returns("false")
    /\ UNCHANGED <<round, fieldVars, task, results, merged, mergeVars, relayVars, runDone>>

\* workerPool.Close waits until every task has returned.
PoolCloses ==
    /\ main = "closePool"
    /\ \A n \in Node : task[n] \in {"done", "failed"}
    /\ main' = "closeMerged"
    /\ UNCHANGED <<round, verdict, cut, fieldVars, task, results, merged, mergeVars,
                   relayVars, ctxVars>>

\* closeChannels: Close of NodesResult waits for the relays inside SendBlocking.
CloseMerged ==
    /\ main = "closeMerged"
    /\ \A r \in Round, n \in Node : relay[r][n] = "inside" => dst[r] # nodesResult
    /\ main' = "closeResults"
    /\ UNCHANGED <<round, verdict, cut, fieldVars, task, results, merged, mergeVars,
                   relayVars, ctxVars>>

CloseResults ==
    /\ main = "closeResults"
    /\ main' = "returned"
    /\ UNCHANGED <<round, verdict, cut, fieldVars, task, results, merged, mergeVars,
                   relayVars, ctxVars>>

\* MUTANT of ResetNodesResult: the closed channel stays.
ResetKeepsNodesResult ==
    /\ main = "returned" /\ round < MaxRounds
    /\ round' = round + 1
    /\ verdict' = "none" /\ runDone' = FALSE /\ waitDone' = FALSE
    /\ task' = [n \in Node |-> "idle"]
    /\ main' = "resetNodeResult"
    /\ UNCHANGED <<cut, fieldVars, results, merged, mergeVars, relayVars>>

\* Reset, when Wait has returned, replaces NodesResult first ...
ResetNodesResult ==
    /\ main = "returned" /\ round < MaxRounds
    /\ round' = round + 1
    /\ verdict' = "none" /\ runDone' = FALSE /\ waitDone' = FALSE
    /\ task' = [n \in Node |-> "idle"]
    /\ nodesResult' = round + 1
    /\ main' = "resetNodeResult"
    /\ UNCHANGED <<cut, nodeResult, results, merged, mergeVars, relayVars>>

\* ... and nodeResult later.
ResetNodeResult ==
    /\ main = "resetNodeResult"
    /\ nodeResult' = 0
    /\ main' = "getReady"
    /\ UNCHANGED <<round, verdict, cut, nodesResult, task, results, merged, mergeVars,
                   relayVars, ctxVars>>

\* The caller cancels the context it gave to GetReady and Wait; or Dag.Timeout
\* expires, which ends waitCtx alone.
Interrupt ==
    /\ round \in Interruptible
    /\ \/ main \in {"start", "enterWait", "wait"} /\ ~runDone /\ runDone' = TRUE
       \/ main = "wait" /\ ~waitDone /\ UNCHANGED runDone
    /\ waitDone' = TRUE
    /\ UNCHANGED <<callerVars, fieldVars, task, results, merged, mergeVars, relayVars>>

(***************************************************************************)
(* The specification.                                                      *)
(***************************************************************************)

Runner(n) == ReportPhase(n) \/ ReportFailure(n) \/ DropTask(n)

Merge(r) == MergeChecks(r) \/ MergeReadsNodeResult(r) \/ MergeReadsNodesResult(r)
            \/ MergeReturns(r)

Relay(r, n) == RelayReceives(r, n) \/ RelayFindsClosed(r, n) \/ RelayDrained(r, n)
               \/ RelaySends(r, n) \/ RelayGivesUp(r, n)

Call == GetReady \/ Start \/ EnterWait
Wait == WaitReceives \/ WaitGivesUp \/ PoolCloses \/ CloseMerged \/ CloseResults
Reset == ResetNodesResult \/ ResetNodeResult

Step ==
    \/ \E n \in Node : Runner(n)
    \/ \E r \in Round : Merge(r) \/ TornRead(r) \/ \E n \in Node : Relay(r, n)
    \/ Call \/ Wait \/ Reset
    \/ Interrupt

\* The process has crashed, or the caller makes no further call.
Stopped == main \in {"crashed", "returned"} /\ UNCHANGED vars

Next == (main # "crashed" /\ Step) \/ Stopped

Spec == Init /\ [][Next]_vars

\* Every goroutine goes on when it can, and nodes do their work.  Nobody has
\* to call Reset, to cancel, or to fail.
Fairness ==
    /\ \A n \in Node : WF_vars(main # "crashed" /\ Runner(n))
    /\ \A r \in Round :
        /\ WF_vars(main # "crashed" /\ Merge(r))
        /\ \A n \in Node : WF_vars(main # "crashed" /\ Relay(r, n))
    /\ WF_vars(Call \/ Wait \/ ResetNodeResult)

FairSpec == Spec /\ Fairness

(***************************************************************************)
(* Properties.  They hold as long as no Wait has been cut short by its     *)
(* context, RoundGoesOn as long as no earlier one has: a merge goroutine   *)
(* that such a Wait leaves behind may read the fields of the next round,   *)
(* whose reports it then loses, or put reports of its own round where the  *)
(* next Wait looks for them.                                               *)
(***************************************************************************)

\* Every round's verdict is that round's: whatever the earlier rounds have left
\* in channels and goroutines, Wait returns true exactly when this round's end
\* node has reported FlightEnd.
RerunVerdict ==
    main = "returned" /\ cut = {} =>
        (verdict = "true" <=> task[EndNode] = "done")

\* "Reset MUST be called only after Wait returns" (dag.go:996) is enough then:
\* once Wait has returned, no goroutine of any round is still to read the
\* fields that Reset writes without a lock they share.
NoReaderLeft ==
    main \in {"returned", "resetNodeResult", "getReady"} /\ cut = {} =>
        \A r \in Round : merge[r] \notin {"spawned", "checked", "sourced"}

\* No goroutine that runs merge is left.
MergesEnded == \A r \in Round : merge[r] \in {"none", "true", "false"}

\* A step that the runner of n, the merge of round r, a relay or the caller can
\* take, without a failure of its own and without a context ending for its sake.
RunnerCanMove(n) ==
    \/ task[n] = "queued" /\ runDone
    \/ /\ Started
       /\ Len(results[round][n]) < MinChannelBuffer \/ runDone
       /\ \/ /\ task[n] \in {"queued", "pre", "in"}
             /\ n = EndNode => \A m \in Other : task[m] \in {"in", "done"}
          \/ n = EndNode /\ task[n] = "queued" /\ \E m \in Other : task[m] = "failed"

MergeCanMove(r) ==
    \/ merge[r] \in {"spawned", "checked", "sourced"}
    \/ merge[r] = "relaying" /\ \A n \in Node : relay[r][n] = "ended"

RelayCanMove(r, n) ==
    \/ relay[r][n] = "recv" /\ (results[src[r]][n] # <<>> \/ ResultsClosed(src[r]))
    \/ relay[r][n] = "inside" /\ (Len(merged[dst[r]]) < MaxChannelBuffer \/ EgDone(r))

CallerCanMove ==
    \/ main \in {"getReady", "start", "enterWait", "closeResults", "resetNodeResult"}
    \/ main = "wait" /\ (merged[nodesResult] # <<>> \/ merge[round] = "false" \/ waitDone)
    \/ main = "closePool" /\ \A n \in Node : task[n] \in {"done", "failed"}
    \/ /\ main = "closeMerged"
       /\ \A r \in Round, n \in Node : relay[r][n] = "inside" => dst[r] # nodesResult

CanMove ==
    /\ main # "crashed"
    /\ \/ CallerCanMove
       \/ \E n \in Node : RunnerCanMove(n)
       \/ \E r \in Round : MergeCanMove(r) \/ \E n \in Node : RelayCanMove(r, n)

\* As long as no earlier Wait was cut short, nobody waits for ever: until Wait has
\* returned, cut short itself or not, and the goroutines of its merge have ended,
\* some goroutine has a step to take.  Neither a full result channel, nor a full
\* NodesResult, nor a relay that has ended, nor the deferred Close calls bring
\* the round to a halt.
RoundGoesOn ==
    MinChannelBuffer >= 2 /\ cut \subseteq {round} =>
        (main = "returned" /\ MergesEnded) \/ CanMove

\* Each Wait returns, though the result channels of the nodes are too small for
\* all their reports and NodesResult takes one at a time; and the goroutines that
\* merge ran in end after it, as long as no Wait is cut short.  A single place is
\* not enough: a relay that gives up after its first report leaves two for it.
EveryRoundEnds ==
    (MinChannelBuffer >= 2 /\ main = "wait" /\ cut = {})
        ~> (main = "returned" /\ (cut = {} => MergesEnded))
=============================================================================
