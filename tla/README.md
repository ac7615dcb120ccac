# A verification development for dag-go

dag-go builds a directed acyclic graph of tasks and runs it, once or again after a
Reset, with goroutines and channels. This directory holds TLA+ models of its parts, TLC
runs that check them on small instances, and TLAPS proofs for every instance.
Everything is translated from the Go source: `dag.go`, `node.go`, `runner.go`,
`safechannel.go`. `PROJECT.json` maps every definition to its lines.

## The system

| Component | State it keeps | Operations |
|---|---|---|
| Graph building (`dag.go`) | `nodes`, `Edges`, `StartNode`, `EndNode`, `validated`, `nodeCount`, `errLogs`, `Errors`, `droppedErrors` | `NewDag`, `StartDag`, `CreateNode`, `AddEdge`, `AddEdgeIfNodesExist`, `FinishDag` |
| Cycle detection (`dag.go`) | two maps from a package-wide `sync.Pool` | `detectCycle`, `DetectCycle` |
| Worker pool (`dag.go`) | a task queue of `2*limit`, `limit` workers | `NewDagWorkerPool`, `Submit`, `Close`, used by `GetReady` and `Wait` |
| Node runner (`dag.go`, `node.go`) | per node `status`, `succeed`, its edge channels, its result channel | `connectRunner`: parents' check, `preFlight`, `inFlight`, `postFlight`, `notifyChildren` |
| Start, Wait and fan-in (`dag.go`) | `NodesResult`, one relay per node, `waitCtx` | `Start`, `Wait`, `merge`, `fanIn` |
| SafeChannel (`safechannel.go`) | a Go channel, `closed`, a RWMutex | `Send`, `SendBlocking`, `Close` |
| Runner binding (`runner.go`, `dag.go`) | `Node.runnerVal`, `ContainerCmd`, `runnerResolver` | `SetRunner`, `SetNodeRunner(s)`, `SetContainerCmd`, `SetRunnerResolver`, `getRunnerSnapshot` |
| Reset, CopyDag (`dag.go`) | everything above, again | `Reset`, `CopyDag` |
| Errors drain (`dag.go`) | `Errors` | `collectErrors`, `closeChannels` |
| The rest | none that matters | options, `ToMermaid`, `errors.go`, `log.go`, `debugonly`, `cli`, `examples` |

How they meet: `FinishDag` calls `detectCycle` under `dag.mu` and leaves a graph
behind. `GetReady` submits one task per node to the pool, still under `dag.mu`.
A worker stays with its node from the parents' check to the last status change.
Parents and children talk only through edge channels (one `Succeed` or `Failed`
each) and, once, by reading a parent's status. Each runner reports to its own
result channel; relays carry the reports to `NodesResult`; `Wait` reads it, looks
at the end node's reports only, and then waits for all workers before it closes
the channels. Two contexts are involved: the one given to `GetReady` governs
runners, the one given to `Wait` (with `Dag.Timeout`) governs relays and `Wait`.

What is hard here: runners, receivers, relays and the caller interleave freely;
a signal is sent before the sender's own status is final; dropping results and
signals is allowed once a context is done; the two contexts end independently;
workers wait for nodes that may still be queued; runners are bound while workers
take nodes out of Pending; the goroutines of a `Wait` may outlive it and meet the
next round; `FinishDag` edits the graph before it validates it; the search maps come
back dirty. The list with source
lines is under `hazards` in `PROJECT.json`.

What makes each component correct:

- building: what `FinishDag` lets through is a graph the run can rely on; counters are exact; no error is lost uncounted;
- cycle detection: the answer is right whatever the pool and map order are, and the search ends;
- runner and pool: dependency order, failures reach every descendant, nobody fails without a cause, each child hears once and the truth;
- Wait: the verdict agrees with what happened, and it comes;
- SafeChannel: no panic, calls are atomic, every call returns;
- runner binding: a binding is applied in one moment or refused, the runner used is one that was valid at one moment after the node began, and every call returns;
- Reset: a second run is as good as a first one, its verdict its own, and nothing of the first is left to disturb it;
- CopyDag: what `Start` accepts of a copy that was Reset is still a finished graph.

## The modules

| Module | Models | Composes / refines |
|---|---|---|
| `DagGraph` | `HasCycle` (a nonempty set whose members all have a child in it) and `FinishedGraph` (what a run relies on, acyclicity included) | used by three models, so that they speak of the same graph |
| `DagBuilder` | building and `FinishDag`, by concurrent goroutines; `Reset` and `CopyDag` as far as the graph goes | its `FinishedIsRunnable` and `RunnableUnlessGrown` establish `FinishedGraph` |
| `CycleDetect` | `detectCycle` call by call, with pooled maps | its `FindsExactlyCycles` justifies the `HasCycle` in `DagBuilder!FinishConnects` |
| `DagRun` | one run, the first or one after `Reset`: `GetReady`, pool, runners, `Start`, relay, `Wait`, contexts | assumes `FinishedGraph`; implements `DagExec` |
| `DagExec` | what a run promises its caller, without goroutines | abstract specification |
| `DagRounds` | round after round: reports, `merge`, all relays, `Wait`, what is closed, `Reset` | takes what happens inside the nodes from `DagRun`; its channels are `SafeQueue`s, with the wait of `Close` for senders added |
| `RunnerBinding` | setters of runners, default and resolver, with `dag.mu` and each `n.mu`, against workers and `Reset` | implements `RunnerRegister` |
| `RunnerRegister` | a register per node that freezes when the node begins | abstract specification |
| `SafeChannel` | a channel with its lock, call by call | implements `SafeQueue` |
| `SafeQueue` | a bounded queue closed once, with atomic calls | abstract specification |
| `MC*` | small instances for TLC | |
| `*Proofs` | the theorems, checked by TLAPS | `DagRunEndsProofs` stands on `DagRunProofs` and `DagGraphProofs` |

Operators marked `MUTANT` are wrong versions of the action below them. No
specification uses them; substituting one for its action shows that a property
notices that mistake.

### DagRun and the code

`pc[n]` is where the task of node `n` is; a worker is named by the node it runs.

| Model | Code |
|---|---|
| `Submit`, `TakeTask` | `GetReady`'s loop; the worker loop, which drops a task whose context is done |
| `CheckParentsStatus` | `Node.CheckParentsStatus` and the `Pending -> Running` transition. One step, because only `n`'s runner writes `n`'s status and `Failed` is final: seeing a parent before it fails is a behaviour of the one step too |
| `ReceiveSignal`, `AbandonSignal`, `PreFlightReturns` | the receivers of `preFlight` and its `eg.Wait` |
| `InFlightSpecial`, `BeginRunE`, `EndRunE` | `inFlight`; `execute` reads the dag's runner under `dag.mu`, which `GetReady` holds until it returns |
| `SendResult` | `sendResult` after each phase, with what is sent and where the runner goes next |
| `SendSignal`, `PostFlightReturns`, `NotifyReturns` | `postFlight` and `notifyChildren`, one child at a time, and `MarkCompleted` |
| `Succeed`, `Fail` | the last `TransitionStatus`; a failure changes the status before it tells the children |
| `Start`, `StartMark` | `Start`: the send, then the late `SetSucceed` |
| `Relay`, `WaitReceives`, `WaitInterrupted`, `PoolCloses` | `fanIn` for the end node, `Wait`'s select, its deferred calls |
| `CancelRun`, `CancelWait`, `Deadline` | the caller's contexts (external) and `Dag.Timeout` |

What is abstracted: reports of nodes other than the end node are not kept (Wait
ignores them, and `MinChannelBuffer >= 3` leaves room for the three each sends);
per-node timeouts and user code are a `RunE` that may fail (`MayFail`, or any node
once its context is done); the task queue is the set of queued nodes, because
`GetReady` ranges over a map. Neighbouring goroutine steps that touch nothing
shared are one step.

`FinishedGraph` is an assumption: a graph grown after `FinishDag` is outside the
run model, though inside `DagBuilder`. `Init` allows both ways to get to `GetReady`:
after `FinishDag`, which has set `EndNode.succeed`, and after `Reset`, which has
cleared it; everything below is shown for both.

### DagRounds and the code

A round is one `GetReady`, `Start`, `Wait`, ended by `Reset`. Channels are named by
the round they were made for, so `nodeResult` and `nodesResult` hold a number.

| Model | Code |
|---|---|
| `ReportPhase`, `ReportFailure`, `DropTask` | the runner of a node, reduced to what it reports: three reports or a failure, `FlightEnd` from the end node once the others have signalled |
| `SendResult` | `sendResult` into a result channel of `MinChannelBuffer` places; the report may be dropped once the context is done |
| `EnterWait` | `Wait` starts the goroutine that runs `merge` |
| `MergeChecks`, `MergeReadsNodeResult`, `MergeReadsNodesResult`, `TornRead` | the three unlocked reads in `merge`, a step each; a read of the slice header during a write of it may crash |
| `RelayReceives`, `RelaySends`, `RelayGivesUp`, `RelayFindsClosed`, `RelayDrained` | the goroutine of `fanIn` for one channel; inside `SendBlocking` it holds the read lock, so `Close` waits for it |
| `MergeReturns` | `eg.Wait` and the send to `mergeResult` |
| `WaitReceives`, `WaitGivesUp` | the cases of `Wait`'s select |
| `PoolCloses`, `CloseMerged`, `CloseResults` | the deferred calls in the order they run: cancel (with `Returns`), `workerPool.Close`, `closeChannels` |
| `ResetNodesResult`, `ResetNodeResult` | the two writes of `Reset` that `merge` may see, in their order |
| `Interrupt` | the caller's cancel, which ends runners and `Wait`, or `Dag.Timeout`, which ends `Wait` alone |

Reports of nodes other than the end node are kept here, because they take up
room, but not told apart. `cut` records the rounds whose context ended before the
verdict; the properties are about what happens as long as there is none, and the
section on divergences says what happens then.

### RunnerBinding and the code

| Model | Code |
|---|---|
| `SetRunner`, `SetNodeRunner`, `SetNodeRunners` | the calls begin; `todo` is what they have to bind |
| `Lookup`, `RLock`, `Loop`, `RUnlock` | the look into `dag.nodes`, under `dag.mu` for that moment only, or for the loop over the whole map |
| `LockNode`, `CheckStatus`, `runnerStore` | the critical section of `n.mu`, in three steps so that others come between |
| `Return` | `true`/`false`, or applied, missing and skipped ids (the last two are one set, `refused`) |
| `SetContainerCmd`, `SetRunnerResolver` | one write under `dag.mu` |
| `DropTask`, `Skip`, `BeginRunning`, `FinishUnrun`, `FinishRun` | what the runner of a node does to its status |
| `runnerLoad`, `ReadDag`, `Resolve` | `getRunnerSnapshot`: the atomic load, the two fields under `dag.mu`, the resolver's answer |
| `ResetLocks`, `ResetNode` | `Reset` holds `dag.mu` and visits each node under its mutex |

A resolver is a function of the node that may answer nil. Succeeded, Failed and
Skipped are one status, because the setters treat them alike. The refinement maps
`UsedNow`, which is fixed when the dag's fields have been read, not when the resolver
has answered: that is the one moment `RunnerRegister!Use` asks for.

### DagBuilder and the code

Each operation is one action, because it holds `dag.mu` from its first look at the
graph. The exception is the argument check of the two edge operations: it appends
to `errLogs` without the lock, so `RejectArguments` reads the slice and
`AppendRejection` writes it back, with anything in between. `FinishDag` is
`FinishRefused` (nothing done, or the end node exists and the pointer becomes nil),
`FinishMeetsIsolated` (the loop stops at an isolated node; any part of the others
has its edge to the end node by then, as map order decides) and `FinishConnects`
(the loop ends; the cycle check decides). Refused calls keep what they added to the
graph, as in the code. `MaxErrors` bounds the errors, for TLC only, and lower for
copies than for dags that were built.

`parentVertex` is the list of that name in the start node, the only one that `Start`
looks at: its channels by their senders, `Trigger` for the one that no edge backs. A new
edge into the start node adds to it. `Startable` is what `Start` asks, that the list
has length one. `Reset` renews the error accounts and makes the list anew, the trigger
first and a channel for every edge. `CopyDag` replaces the dag by its copy: same graph,
same `validated`, pointers set by the names of the nodes, an empty list, no node
counted; `origin` remembers it. Neither happens during an append of another
builder: `Reset` does not lock those out, and `CopyDag` takes no lock. `grown`
records that the graph has changed since it was finished.

### CycleDetect and the code

`calls` is the stack of `detectCycleDFS` calls, `todo` what each has still to try.
Map order and list order are both free, so children lists are sets. `detectCycle`
clears the maps; `AnotherDag` and `AddEdge` change the graph between searches while
the maps keep what the last search left.

### SafeChannel and the code

Every caller makes one call. The lock is Go's RWMutex: a pending `Lock` keeps new
readers out, and waits for those inside. A send on a closed channel panics in the
model as in Go, so `NoPanic` is a real question. The recovered panic of `Close` is
not modelled as a path: `closed` is looked at first, under the write lock. Only
buffered channels are modelled.

## The runs

| Run | Instance | What it shows |
|---|---|---|
| `mc_run` | start -> {a,b} -> c -> end, every user node may fail, a worker for each node | `TypeOK`, `DependencyOrder`, `WaitTrueMeansAllSucceeded`, `FailurePropagates`, `ProgressIsExact`, `NobodyStuck` over every interleaving, two failures at once included |
| `mc_pool` | start -> a -> c -> end with an orphan root b -> c, two workers and four queue places for five nodes, independent contexts, deadline | `VerdictIsExact`, `BadHasCause`, `TransitionsAccepted`, `SignalsAgree`, `GetReadyGoesOn`, `RefinesExec`, `OnlyForward` when results and signals are dropped, tasks disappear and a node runs before `Start` |
| `mc_live` | a chain, a worker for each node, failure, one context that may be cancelled at any moment or never, no deadline: `Wait` has only the end node's report to go by | `WaitReturns` |
| `mc_rounds` | a node and the end node, two rounds, result channels of two places for three reports, one place in `NodesResult`, the first round cancelled or timed out at any moment | `RoundsTypeOK`, `RerunVerdict`, `NoReaderLeft`, `RoundGoesOn`, `EveryRoundEnds` |
| `mc_bind` | the start node, a user node and an unknown id; one goroutine binding in bulk, one singly; a Runnable, nil, a resolver | `BindingTypeOK`, `NoCircularWait`, `FrozenOnceBegun`, `RefinesRegister`, `CallsReturn` |
| `mc_cycle` | every graph on four nodes | `CycleTypeOK`, `FindsExactlyCycles`, `StackIsPath`, `SearchEnds`, `EachEdgeOnce` |
| `mc_build` | two builders, two user ids and the three reserved ones, an `Errors` channel of one place, two errors (one on a copy) | `BuilderTypeOK`, `NodeCountExact`, `LoggedIsReported`, `FinishedIsRunnable`, `RunnableUnlessGrown` |
| `mc_chan` | one `Send`, two `SendBlocking`, two `Close`, one place | `ChanTypeOK`, `NoPanic`, `CloseIsExclusive`, `OnlyRoomIsAwaited`, `RefinesQueue`, `EveryCallReturns` |
| `small_pool` | the diamond with two workers | violates `StartCascades` |
| `cancel_run_only` | a chain, two contexts | violates `CancelEndsWait` |
| `deadline` | a chain, `Dag.Timeout` set | violates `DeadlineCapsRun` |
| `close_ends_send` | as `mc_chan` | violates `CloseEndsSend` |

Why the bounds are enough: the diamond has a fan-out, a fan-in with two parents
that may both fail, and a chain behind it, which are the shapes that
`connectRunner` distinguishes; the orphan root is the one shape beyond them that
`FinishDag` accepts. Five nodes and two workers are the smallest instance of `mc_pool`
in which the task queue is full while `GetReady` has a node left to submit and more
than one worker is there to make room. Four nodes hold every way a search can meet its stack, a
finished node and a second root. Two user ids with the start and the end node give
every shape `FinishDag` tells apart. Two rounds are a round and what it leaves to the
next; channels one place too small are the smallest step past where they never
fill, and one node before the end node makes two relays compete for a place. Two
setters and a worker per node give every pair of lock holders, and nil with one
Runnable makes each write visible. Symmetry is used in `mc_build` only, on the
builders and on the user nodes, where no property is temporal under fairness.
Deadlock is checked everywhere but in `small_pool`, where the run stopping is the
point, and in `mc_rounds`, where a run whose first `Wait` was interrupted may really
stop (next section).

### Where code and documentation differ

The four violation runs state what a comment says and show what the code does.

- `small_pool`: `dag.go:1134-1136` says all node goroutines are already waiting and
  one send cascades through the graph; `dag.go:69` presents the pool size as a
  throttle. A worker keeps its place while its node waits for parents, so a pool
  smaller than the dag can fill with waiting nodes and stop. The tests know:
  `dag_test.go:1364` asks for `WorkerPoolSize >= n to avoid stalls`.
- `cancel_run_only`: `dag.go:1094-1095` says cancelling `GetReady`'s context aborts
  the entire execution. `Wait` listens to its own; the tasks disappear and nobody
  tells it.
- `deadline`: `dag.go:432-433` says `WithTimeout` caps the overall run in `Wait`.
  Only `waitCtx` has the deadline; workers go on, start further nodes, and `Wait`
  waits for them in its deferred pool close.
- `close_ends_send`: `safechannel.go:42-43` says `SendBlocking` ends when the channel
  is closed. It holds the read lock that `Close` needs, so `Close` waits behind it.

Divergences without a run:

- **A merge that outlives an interrupted `Wait`.** `Wait` does not wait for the
  goroutine that runs `merge` (`dag.go:1194`). When its context ends first, it may
  return while that goroutine has read `nodeResult` and not yet `NodesResult`. After
  `Reset` the relays then carry the old round's reports to the new round's
  `NodesResult`: taking `cut = {}` out of `RerunVerdict`, TLC finds a behaviour of 31
  steps in which the second `Wait` returns true for a round whose end node failed.
  The same goroutine may instead take the new `nodeResult` and drop the reports of
  the new round, whose `Wait` then never hears of `FlightEnd`; and it reads a slice
  header that `Reset` and `GetReady` write, which can crash (`TornRead`). `dag.go:996`
  says only that "Reset MUST be called only after Wait returns", which was done.
  `NoReaderLeft` and `RerunVerdict` say exactly when it is enough: as long as no
  `Wait` was cut short.
- **`MinChannelBuffer` of one.** `dag.go:55` presents it as the size of the edge channels
  (and throughput); `dag.go:1119` uses it for the result channels too. With one place,
  the relay of a node may give up (`Wait` has its verdict and has cancelled `waitCtx`)
  when the node still has two reports to make: its runner blocks in `sendResult`, and
  `Wait` for ever in `workerPool.Close`, after a run that succeeded. TLC finds this
  in 23 steps when `MinChannelBuffer >= 2` is taken out of `EveryRoundEnds` and one
  place is configured.
- **`README.md:31`** says `SetNodeRunner` accepts overrides after `GetReady` and before
  `Start`, and `runner_test.go:74-77` that the node is still Pending then. A worker
  moves its node to Running as soon as it picks the task (`dag.go:1338`), which may
  be before `GetReady` returns; the override is then refused (`mc_bind` has both).
- **A copy that was not Reset.** `dag.go:1553-1559` says a copy owns its edge channels and
  follows `ConnectRunner`, `GetReady`, `Start`, `Wait`. `copyDag` makes no edge channels
  and no trigger. `Start` looks at the length of the start node's list only
  (`dag.go:1141`). The copy of a finished dag has an empty one, and `Start` returns false.
  But take the copy of a dag that is not finished, add one edge into the start node,
  and finish it: the length is one, `Start` sends on that edge's channel and returns
  true, on a graph whose start node has a parent and whose older edges have no channels
  (a node waits for none of its copied parents). Taking `origin # "copied"` out of
  `RunnableUnlessGrown`, TLC finds this in four steps, with the copy of a lone start
  node. `FinishedIsRunnable` and `RunnableUnlessGrown` therefore speak of dags that
  were built, and of copies that were Reset, however often and in whatever order.
  Also, `nodeCount` of a copy is zero: `Progress` is 0, or, once nodes were added, counts
  more completed nodes than nodes (hence the condition in `NodeCountExact`). A copy of a
  dag without nodes has a nil map, on which `createNode` panics; it is not modelled.
- **`README.md:169`** calls `DefaultTimeout` a "preFlight timeout (per-node override takes
  priority)", `docs/RELEASE_v1.0.0.md:125` a "preFlight per-node timeout", and
  `docs/PROGRESS_LOG.md:31` orders the timeouts that `preFlight` respects. In the code the
  wait for parents has no time limit of its own: `DefaultTimeout` and `Node.Timeout`
  begin with `inFlight`. The comments at `dag.go:81-84` and `node.go:170-173` say so, and
  `dag_test.go:2839` tests it. `BadHasCause` states what the code does; a `preFlight` as
  these documents describe it is its mutant `AbandonAtTimeout`, and violates it.

## Fairness

- `DagRun!LiveSpec`: weak fairness for every goroutine (each task, the caller, the
  relay) and for a deadline that was set (`mc_live` sets none, so that no deadline
  stands in for a report that was lost). Go's scheduler runs what can run, and
  `RunE` is assumed to return. Nobody is obliged to cancel. `WaitReturns` needs a
  worker for every node; `small_pool` shows that it must.
- `DagRounds!FairSpec`: weak fairness for each runner, merge, relay and for the caller
  up to the return of `Wait` and within `Reset`. Nobody has to call `Reset`, cancel or
  fail. `EveryRoundEnds` asks for result channels of two places or more: the
  divergence on `MinChannelBuffer` says why.
- `RunnerBinding!FairSpec`: strong fairness for each setter's call and for `Reset`'s
  loop, because they take locks that others may take in between and Go's mutexes do
  not starve a waiter. No node has to run, and nobody has to call.
- `CycleDetect!LiveSpec`: weak fairness of the one goroutine's loop.
- `SafeChannel!FairSpec`: weak fairness for every caller, strong fairness for `RLock`
  and `Lock`, since Go's RWMutex does not starve either side. Nobody has to
  receive. `LiveSpec` adds that the context ends at last, as `Wait`'s deferred
  `cancel()` makes it before `closeChannels`; without it `close_ends_send` is the
  counterexample.

## What is proved

All theorems hold for every value of the constants that satisfies the named
assumptions (`NodeAssumption`, `ConfigAssumption`, `GraphAssumption`,
`NodesAreFinite`, `IdAssumption`, `ErrorsAssumption`, `CallerAssumption`,
`CapAssumption`, `RoundsAssumption`, `BindingAssumption`), which TLC evaluates on its
instances.

**DagRunProofs**, layer by layer, each invariant inductive relative to the ones
before it:

1. `TypeCorrect`.
2. `StatusInv`: the status of a node is what its runner left it at. It gives
   `TransitionsAcceptedHolds`, and the step lemma shows that outcomes are stable.
3. `DependencyInv`: `DependencyOrder` is not inductive alone. It needs that signals
   in a channel tell the truth (`SignalFate`), that a receiver which returned
   without an error heard a success (`HeardInv`), and that `succeed` is true where
   `postFlight` reads it (`SucceedInv`, which survives the late write of `Start`).
4. `CauseInv`: `BadHasCause` with what the receivers and the trigger channel can
   have seen.
5. `ResultInv`, `VerdictInv`: what travels to `Wait` and what it returns agree with
   the end node's fate. As the nodes that went well are closed under parents and the
   end node is reached from all nodes (`FinishedGraph`), `VerdictIsExactHolds` and
   `WaitTrueMeansAllSucceededHolds` follow; `FailurePropagatesHolds` from 3.
6. `SentInv` gives `SignalsAgreeHolds`; `Counted` gives `ProgressIsExactHolds`.
   `GetReadyGoesOnHolds` counts: while a node is still to be submitted, the queued and
   the busy are at most all others.
7. `Refinement`: each step moves at most one job, as `DagExec` allows.

**DagRunEndsProofs**: that a run ends, as far as that is a matter of safety.
`NobodyStuckHolds`: until `Wait` has returned, somebody can take a step without a
context ending for its sake. It rests on three facts about every reachable state:
a receiver that still waits is owed a signal by a parent that has not ended, or finds
it in the channel (`DeliveredInv`); while `Wait` listens, the end node's last report is
in its result channel or in `NodesResult` (`ArrivalInv`); every task has been
submitted when `GetReady` is over (`AllSubmitted`). If nobody could go on, every
unfinished node would be waiting for an unfinished parent, and such a set holds a
cycle (`NoFirstMeansCycle` in `DagGraphProofs`), which `FinishedGraph` excludes.
The two hypotheses are needed: without a worker for every node `small_pool` is the
counterexample, without `runDone => waitDone` it is `cancel_run_only`.
`OnlyForwardHolds`: no step takes a runner, the caller or a context back, and every
step brings one of them forward, or leaves fewer signals to wait for or to send, or
brings a report closer to `Wait`. All of these are bounded, so no behaviour takes
infinitely many steps. Together: with a scheduler that always lets somebody run
who can, `Wait` returns. That last sentence is an argument on paper; `WaitReturns` is
its model-checked form.

**CycleDetectProofs**: `CycleDetectCorrect` without induction over the graph. Nodes
off the stack are closed under children and contain no looping set; a child found
on the stack closes one made of the stack above it. `StackIsPathHolds` is part of
the same invariant. `EachEdgeOnceHolds`: a step of a search visits a new node, takes an
edge out of those still to be looked at, or ends a call, and never puts one back, so
the search ends after at most one step per edge and two per node.

**DagBuilderProofs**: the counters need each other and the appends under way
(`CounterInv`). `FinishedIsRunnableHolds`: if the graph has no cycle and only the end
node lacks a child, then a set that holds the end node and is closed under parents
is everything, for its complement would loop. This is `GraphAssumption` of `DagRun`,
so the two developments meet; the acyclicity that `NobodyStuckHolds` uses is what the
search established. `VertexInv` says whose channels are in the start node's list on a dag
that is not an un-Reset copy: the trigger's and its parents'. So a list of length one
means that there is a trigger and no parent. `RunnableUnlessGrownHolds` carries it on:
`StillFinished` says that a finished, ungrown dag has its end node reached from
everywhere, and `Reset` and `CopyDag` change neither graph nor pointer.

**DagRoundsProofs**: one invariant `IInv` in six parts. `InStep`: fields, tasks,
merge goroutines and relays are where the caller's place lets them be, and nobody
has touched a round to come. `Own`: without a cut, each merge has read both fields of
its own round before its `Wait` returns, because a verdict needs a report and a report
needs a relay; this is `NoReaderLeftHolds`. `Flow`: every report that is in a result
channel, in a relay's hand or in `NodesResult` tells the truth about the end node, and
only the end node's verdict is told. `Waiting`: until its context is done `Wait`
has all its relays, so that it gives up only when cut. `VerdictSays` follows, and with
it `RerunVerdictHolds`. `RoundGoesOnHolds` adds `GoesOnInv` and `MergeRelays`. It allows the
current `Wait` to be cut: as long as no earlier one was, every merge reads the fields of
its own round (`OwnChannels`). A result
channel never holds more than its runner has made (`OnlyMade`), and one less when the
relay has ended (`OneTaken`): a relay that gave up after the verdict has taken one
report, so with two places the other two fit, and `workerPool.Close` returns. With
one place they do not (see the divergence above), and this is where the proof needs
`MinChannelBuffer >= 2`. While `Wait` listens, the end node's verdict is in its result
channel, in its relay's hand or in `NodesResult` (`VerdictKept`). If nobody could go
on, all of these would be empty and every task over.

**RunnerBindingProofs**: `LocksHeld` says who holds `n.mu` and that what `CheckStatus`
saw is still so when `runnerStore` writes, which is `OverrideFrozen`; `CallsInStep` and
`RunnersInStep` tie calls to their answers and each runner's place to its status.
`ImplementsRegister` maps every step to one of `RunnerRegister` or to a stutter.
`NoCircularWaitHolds` follows from who holds what: the holder of a node's mutex never
waits for a lock, and `Reset` holds `dag.mu` only when no setter reads under it
(`ResetAlone`).

**SafeChannelProofs**: `ChanInv` ties where each call is to who holds the lock and to
what `closed` can be; `NoPanicHolds`, `CloseIsExclusiveHolds` and `QueueRefinement`
follow, and `OnlyRoomIsAwaitedHolds`: of all waits that the lock and the buffer can
cause, only that of a `SendBlocking` for room, with its context alive, can last.

Only model-checked: the liveness properties (`WaitReturns`, `EveryRoundEnds`,
`CallsReturn`, `SearchEnds`, `EveryCallReturns`) and the violations. Every safety
property of a passing run is proved. Liveness under fairness and ENABLED are out
of the prover's reach, and so is what a recursive definition computes; no module uses
RECURSIVE. An argument by a least counterexample needs no induction rule: a nonempty
set of numbers has a least one (`LeastNumber`, from `WellFoundedInduction`), and
`DagGraphProofs` uses it on the size of sets of nodes.

## Not modelled

- A second `GetReady` without `Reset` (`dag.go:1127`): it replaces the pool and submits
  every node before it finds `nodeResult` set and returns false, so two workers run each
  node and nobody closes the first pool. Its comment documents the false only. Nothing
  the models say of a node with one runner would hold; the caller must not do it.
- The run of a dag that grew after `FinishDag` (`dag.go:764`): it has no contract to
  check. `RunnableUnlessGrown` ends where it begins.
- `GetReady`'s hold on `dag.mu` in `RunnerBinding`: it delays setters and resolvers, and
  ends by itself under the condition of `GetReadyGoesOn`. `DagRun` has it (`BeginRunE`).
- A closed `Errors` channel, as `Wait` leaves it: `DagBuilder` has the full one, which
  `reportError` treats alike.
- Unbuffered channels (buffers of 0), which need a receiver that waits: configurable,
  never the default.
- `collectErrors`: no caller outside the tests.
- `Reset` or `CopyDag` while others build or run: `dag.go:996` rules it out for `Reset`;
  `CopyDag` takes no lock.
- Per-node and default timeouts as clocks: a `RunE` that fails covers what they do.
- The run inside the rounds in full detail: `DagRun` for several rounds with all relays
  is out of TLC's reach, which is why `DagRounds` keeps of a node what it reports.
- Options, `ToMermaid`, error values, log, `debugonly`: no behaviour of their own.
- `cli` and `examples`: callers of the API.

What could still be proved: the steps of `DagRounds` as a measure that falls, as
`OnlyForward` is for `DagRun`. What could still be added: a composition theorem from `DagBuilder` through `DagRun` to
`DagExec` as one statement (today the link is `FinishedGraph`, the assumption of one and
the theorem of the other), and a second `GetReady` if its contract is ever written down.
