---------------------------- MODULE RunnerBinding ----------------------------
(***************************************************************************)
(* Binding runners while the dag runs: SetRunner, SetNodeRunner and        *)
(* SetNodeRunners of any number of goroutines, SetContainerCmd and         *)
(* SetRunnerResolver, against the workers that move each node out of       *)
(* Pending and resolve its runner (getRunnerSnapshot), and against Reset.  *)
(*                                                                         *)
(* dag.mu and the mutex of each node are explicit.  A critical section     *)
(* that looks before it writes is several steps; one that does a single    *)
(* read or write is one step that needs the lock to be free.               *)
(***************************************************************************)
EXTENDS FiniteSets

CONSTANTS
    Id,           \* ids a caller may name
    Node,         \* those that name a node of the dag
    Special,      \* StartNode and EndNode
    Runner,       \* Runnables
    Nil,          \* the nil Runnable; also: no resolver installed
    Resolver,     \* resolvers a caller may install, functions of the node
    BulkRequest,  \* maps a caller may give SetNodeRunners, sets of pairs
    Setter,       \* goroutines that call the setters
    BulkSetter,   \* those that call SetNodeRunners, the others call the two
                  \* single ones; who calls all three is two of them by turns
    Nobody        \* holder of a free lock

ASSUME BindingAssumption ==
    /\ Node \subseteq Id /\ Special \subseteq Node
    /\ Nil \notin Runner
    /\ Resolver \subseteq [Node -> Runner \cup {Nil}] /\ Nil \notin Resolver
    /\ BulkRequest \subseteq SUBSET (Id \X (Runner \cup {Nil}))
    /\ BulkSetter \subseteq Setter /\ Nobody \notin Setter

Binding == Id \X (Runner \cup {Nil})

VARIABLES
    status,    \* Node.status; "Ended" is Succeeded, Failed or Skipped, which
               \* the code below does not tell apart
    slot,      \* Node.runnerVal
    base,      \* Dag.ContainerCmd
    resolver,  \* Dag.runnerResolver
    readers,   \* goroutines that hold dag.mu for reading across steps
    resetting, \* the nodes Reset, which holds dag.mu, has still to visit
    nodeLock,  \* nodeLock[n]: the setter that holds n.mu across steps
    spc,       \* where each setter goroutine is
    todo,      \* todo[t]: the bindings t's call has still to make
    current,   \* current[t]: the one it is making
    applied,   \* applied[t]: ids bound by t's call, its "true" or "applied"
    refused,   \* refused[t]: the others, its "false", "missing" or "skipped"
    rpc,       \* where the runner of each node is
    local,     \* local[n]: rr and base of getRunnerSnapshot
    chosen     \* chosen[n]: the Runnable execute calls, Nil before and after

setterVars == <<spc, todo, current, applied, refused>>
runnerVars == <<rpc, local, chosen>>
dagVars    == <<base, resolver>>
vars == <<status, slot, dagVars, readers, resetting, nodeLock, setterVars, runnerVars>>

CallsTypeOK ==
    /\ readers \subseteq Setter
    /\ spc \in [Setter -> {"idle", "lookup", "rlock", "loop", "lock", "check", "store",
                           "return"}]
    /\ todo \in [Setter -> SUBSET Binding]
    /\ current \in [Setter -> Binding \cup {Nil}]
    /\ \A t \in Setter : spc[t] \in {"lock", "check", "store"} =>
          current[t] \in todo[t] /\ current[t][1] \in Node
    /\ applied \in [Setter -> SUBSET Id]
    /\ refused \in [Setter -> SUBSET Id]

NodesTypeOK ==
    /\ status \in [Node -> {"Pending", "Running", "Ended"}]
    /\ slot \in [Node -> Runner \cup {Nil}]
    /\ base \in Runner \cup {Nil}
    /\ resolver \in Resolver \cup {Nil}
    /\ resetting \subseteq Node
    /\ nodeLock \in [Node -> Setter \cup {Nobody}]
    /\ rpc \in [Node -> {"queued", "running", "readDag", "resolve", "execute", "done"}]
    /\ local \in [Node -> (Resolver \cup {Nil}) \X (Runner \cup {Nil})]
    /\ chosen \in [Node -> Runner \cup {Nil}]

BindingTypeOK == CallsTypeOK /\ NodesTypeOK

\* createNode stores a nil runner, so that a node has no override at first.
Init ==
    /\ status = [n \in Node |-> "Pending"]
    /\ slot = [n \in Node |-> Nil]
    /\ base \in Runner \cup {Nil}
    /\ resolver = Nil
    /\ readers = {}
    /\ resetting = {}
    /\ nodeLock = [n \in Node |-> Nobody]
    /\ spc = [t \in Setter |-> "idle"]
    /\ todo = [t \in Setter |-> {}]
    /\ current = [t \in Setter |-> Nil]
    /\ applied = [t \in Setter |-> {}]
    /\ refused = [t \in Setter |-> {}]
    /\ rpc = [n \in Node |-> "queued"]
    /\ local = [n \in Node |-> <<Nil, Nil>>]
    /\ chosen = [n \in Node |-> Nil]

\* dag.mu can be read unless Reset holds it, written if nobody does.
CanRLock == resetting = {}
CanLock  == resetting = {} /\ readers = {}

(***************************************************************************)
(* The setters.                                                            *)
(***************************************************************************)

Calls(t, request, where) ==
    /\ spc[t] = "idle"
    /\ spc' = [spc EXCEPT ![t] = where]
    /\ todo' = [todo EXCEPT ![t] = request]
    /\ UNCHANGED <<applied, refused>>

\* SetRunner, a method of the node, has nothing to look up.
SetRunner(t, n, r) ==
    /\ Calls(t, {<<n, r>>}, "lock")
    /\ current' = [current EXCEPT ![t] = <<n, r>>]
    /\ UNCHANGED <<status, slot, dagVars, readers, resetting, nodeLock, runnerVars>>

SetNodeRunner(t, id, r) ==
    /\ Calls(t, {<<id, r>>}, "lookup")
    /\ UNCHANGED <<status, slot, dagVars, readers, resetting, nodeLock, current, runnerVars>>

SetNodeRunners(t, request) ==
    /\ Calls(t, request, "rlock")
    /\ UNCHANGED <<status, slot, dagVars, readers, resetting, nodeLock, current, runnerVars>>

\* t's call is done with the binding b; SetNodeRunners goes on with the next.
Finish(t, b, where, how) ==
    /\ spc' = [spc EXCEPT ![t] = where]
    /\ todo' = [todo EXCEPT ![t] = @ \ {b}]
    /\ current' = [current EXCEPT ![t] = Nil]
    /\ applied' = [applied EXCEPT ![t] = IF how = "applied" THEN @ \cup {b[1]} ELSE @]
    /\ refused' = [refused EXCEPT ![t] = IF how = "refused" THEN @ \cup {b[1]} ELSE @]

\* MUTANT of Lookup: an id that names no node is not turned away.
LookupUnchecked(t) ==
    /\ spc[t] = "lookup" /\ CanRLock
    /\ spc' = [spc EXCEPT ![t] = "lock"]
    /\ \E b \in todo[t] : current' = [current EXCEPT ![t] = b]
    /\ UNCHANGED <<status, slot, dagVars, readers, resetting, nodeLock, todo, applied,
                   refused, runnerVars>>

\* SetNodeRunner's lookup; dag.mu is released before n.mu is taken.
Lookup(t) ==
    /\ spc[t] = "lookup" /\ CanRLock
    /\ \E b \in todo[t] :
        IF b[1] \in Node
        THEN /\ spc' = [spc EXCEPT ![t] = "lock"]
             /\ current' = [current EXCEPT ![t] = b]
             /\ UNCHANGED <<todo, applied, refused>>
        ELSE Finish(t, b, "return", "refused")
    /\ UNCHANGED <<status, slot, dagVars, readers, resetting, nodeLock, runnerVars>>

\* SetNodeRunners keeps dag.mu for its whole loop.
RLock(t) ==
    /\ spc[t] = "rlock" /\ CanRLock
    /\ readers' = readers \cup {t}
    /\ spc' = [spc EXCEPT ![t] = "loop"]
    /\ UNCHANGED <<status, slot, dagVars, resetting, nodeLock, todo, current, applied,
                   refused, runnerVars>>

\* The loop ranges over a map: any binding may be next.
Loop(t) ==
    /\ spc[t] = "loop"
    /\ \E b \in todo[t] :
        IF b[1] \in Node \ Special
        THEN /\ spc' = [spc EXCEPT ![t] = "lock"]
             /\ current' = [current EXCEPT ![t] = b]
             /\ UNCHANGED <<todo, applied, refused>>
        ELSE Finish(t, b, "loop", "refused")
    /\ UNCHANGED <<status, slot, dagVars, readers, resetting, nodeLock, runnerVars>>

RUnlock(t) ==
    /\ spc[t] = "loop" /\ todo[t] = {}
    /\ readers' = readers \ {t}
    /\ spc' = [spc EXCEPT ![t] = "return"]
    /\ UNCHANGED <<status, slot, dagVars, resetting, nodeLock, todo, current, applied,
                   refused, runnerVars>>

LockNode(t) ==
    LET n == current[t][1] IN
    /\ spc[t] = "lock"
    /\ nodeLock[n] = Nobody
    /\ nodeLock' = [nodeLock EXCEPT ![n] = t]
    /\ spc' = [spc EXCEPT ![t] = "check"]
    /\ UNCHANGED <<status, slot, dagVars, readers, resetting, todo, current, applied,
                   refused, runnerVars>>

AfterNode(t) == IF t \in readers THEN "loop" ELSE "return"

\* MUTANT of CheckStatus: n.mu is released between the look and the store.
CheckAndUnlock(t) ==
    LET n == current[t][1] IN
    /\ spc[t] = "check"
    /\ nodeLock' = [nodeLock EXCEPT ![n] = Nobody]
    /\ IF status[n] = "Pending"
       THEN spc' = [spc EXCEPT ![t] = "store"] /\ UNCHANGED <<todo, current, applied, refused>>
       ELSE Finish(t, current[t], AfterNode(t), "refused")
    /\ UNCHANGED <<status, slot, dagVars, readers, resetting, runnerVars>>

\* MUTANT of CheckStatus: the refusal forgets to unlock.
CheckKeepsLock(t) ==
    LET n == current[t][1] IN
    /\ spc[t] = "check"
    /\ IF status[n] = "Pending"
       THEN spc' = [spc EXCEPT ![t] = "store"] /\ UNCHANGED <<todo, current, applied, refused>>
       ELSE Finish(t, current[t], AfterNode(t), "refused")
    /\ UNCHANGED <<status, slot, dagVars, readers, resetting, nodeLock, runnerVars>>

\* Only a Pending node takes a runner.
CheckStatus(t) ==
    LET n == current[t][1] IN
    /\ spc[t] = "check"
    /\ IF status[n] = "Pending"
       THEN /\ spc' = [spc EXCEPT ![t] = "store"]
            /\ UNCHANGED <<nodeLock, todo, current, applied, refused>>
       ELSE /\ Finish(t, current[t], AfterNode(t), "refused")
            /\ nodeLock' = [nodeLock EXCEPT ![n] = Nobody]
    /\ UNCHANGED <<status, slot, dagVars, readers, resetting, runnerVars>>

runnerStore(t) ==
    LET n == current[t][1] IN
    /\ spc[t] = "store"
    /\ slot' = [slot EXCEPT ![n] = current[t][2]]
    /\ nodeLock' = [nodeLock EXCEPT ![n] = Nobody]
    /\ Finish(t, current[t], AfterNode(t), "applied")
    /\ UNCHANGED <<status, dagVars, readers, resetting, runnerVars>>

\* The call returns what it has applied and refused.
Return(t) ==
    /\ spc[t] = "return"
    /\ spc' = [spc EXCEPT ![t] = "idle"]
    /\ applied' = [applied EXCEPT ![t] = {}]
    /\ refused' = [refused EXCEPT ![t] = {}]
    /\ UNCHANGED <<status, slot, dagVars, readers, resetting, nodeLock, todo, current, runnerVars>>

SetContainerCmd(r) ==
    /\ CanLock
    /\ base' = r
    /\ UNCHANGED <<status, slot, resolver, readers, resetting, nodeLock, setterVars, runnerVars>>

SetRunnerResolver(rr) ==
    /\ CanLock
    /\ resolver' = rr
    /\ UNCHANGED <<status, slot, base, readers, resetting, nodeLock, setterVars, runnerVars>>

(***************************************************************************)
(* The runner of a node, as far as it touches status and Runnable.         *)
(***************************************************************************)

\* TransitionStatus needs n.mu for one look and one write.
Transition(n, from, to) ==
    /\ nodeLock[n] = Nobody
    /\ status[n] = from
    /\ status' = [status EXCEPT ![n] = to]

\* The task is dropped: the node stays Pending.
DropTask(n) ==
    /\ rpc[n] = "queued" /\ resetting = {}
    /\ rpc' = [rpc EXCEPT ![n] = "done"]
    /\ UNCHANGED <<status, slot, dagVars, readers, resetting, nodeLock, setterVars,
                   local, chosen>>

Skip(n) ==
    /\ rpc[n] = "queued" /\ resetting = {}
    /\ Transition(n, "Pending", "Ended")
    /\ rpc' = [rpc EXCEPT ![n] = "done"]
    /\ UNCHANGED <<slot, dagVars, readers, resetting, nodeLock, setterVars, local, chosen>>

BeginRunning(n) ==
    /\ rpc[n] = "queued" /\ resetting = {}
    /\ Transition(n, "Pending", "Running")
    /\ rpc' = [rpc EXCEPT ![n] = "running"]
    /\ UNCHANGED <<slot, dagVars, readers, resetting, nodeLock, setterVars, local, chosen>>

\* preFlight has failed, or the node is special: no runner is asked for.
FinishUnrun(n) ==
    /\ rpc[n] = "running"
    /\ Transition(n, "Running", "Ended")
    /\ rpc' = [rpc EXCEPT ![n] = "done"]
    /\ UNCHANGED <<slot, dagVars, readers, resetting, nodeLock, setterVars, local, chosen>>

\* getRunnerSnapshot: the override of the node, loaded without a lock, ...
runnerLoad(n) ==
    /\ rpc[n] = "running" /\ n \notin Special
    /\ IF slot[n] # Nil
       THEN /\ chosen' = [chosen EXCEPT ![n] = slot[n]]
            /\ rpc' = [rpc EXCEPT ![n] = "execute"]
       ELSE /\ rpc' = [rpc EXCEPT ![n] = "readDag"]
            /\ UNCHANGED chosen
    /\ UNCHANGED <<status, slot, dagVars, readers, resetting, nodeLock, setterVars, local>>

\* ... or else the resolver and the default, read under dag.mu together; ...
ReadDag(n) ==
    /\ rpc[n] = "readDag" /\ CanRLock
    /\ local' = [local EXCEPT ![n] = <<resolver, base>>]
    /\ rpc' = [rpc EXCEPT ![n] = "resolve"]
    /\ UNCHANGED <<status, slot, dagVars, readers, resetting, nodeLock, setterVars, chosen>>

Resolved(n, rr, b) == IF rr # Nil /\ rr[n] # Nil THEN rr[n] ELSE b

\* MUTANT of Resolve: the default is read when the resolver has answered.
ResolveLate(n) ==
    /\ rpc[n] = "resolve"
    /\ chosen' = [chosen EXCEPT ![n] = Resolved(n, local[n][1], base)]
    /\ rpc' = [rpc EXCEPT ![n] = "execute"]
    /\ local' = [local EXCEPT ![n] = <<Nil, Nil>>]
    /\ UNCHANGED <<status, slot, dagVars, readers, resetting, nodeLock, setterVars>>

\* ... the resolver is called without a lock.
Resolve(n) ==
    /\ rpc[n] = "resolve"
    /\ chosen' = [chosen EXCEPT ![n] = Resolved(n, local[n][1], local[n][2])]
    /\ rpc' = [rpc EXCEPT ![n] = "execute"]
    /\ local' = [local EXCEPT ![n] = <<Nil, Nil>>]
    /\ UNCHANGED <<status, slot, dagVars, readers, resetting, nodeLock, setterVars>>

\* RunE returns (without a runner it is ErrNoRunner), the later phases follow.
FinishRun(n) ==
    /\ rpc[n] = "execute"
    /\ Transition(n, "Running", "Ended")
    /\ rpc' = [rpc EXCEPT ![n] = "done"]
    /\ chosen' = [chosen EXCEPT ![n] = Nil]
    /\ UNCHANGED <<slot, dagVars, readers, resetting, nodeLock, setterVars, local>>

(***************************************************************************)
(* Reset, called when every runner has returned, and the next GetReady.    *)
(***************************************************************************)

ResetLocks ==
    /\ \A n \in Node : rpc[n] = "done"
    /\ CanLock
    /\ resetting' = Node
    /\ UNCHANGED <<status, slot, dagVars, readers, nodeLock, setterVars, runnerVars>>

\* One round of Reset's loop. The task that GetReady submits next counts as
\* queued from here on: until Reset has released dag.mu nobody takes it.
ResetNode(n) ==
    /\ n \in resetting
    /\ nodeLock[n] = Nobody
    /\ resetting' = resetting \ {n}
    /\ status' = [status EXCEPT ![n] = "Pending"]
    /\ rpc' = [rpc EXCEPT ![n] = "queued"]
    /\ UNCHANGED <<slot, dagVars, readers, nodeLock, setterVars, local, chosen>>

(***************************************************************************)
(* The specification.                                                      *)
(***************************************************************************)

Set(t) ==
    \/ \E request \in BulkRequest : t \in BulkSetter /\ SetNodeRunners(t, request)
    \/ \E n \in Node, r \in Runner \cup {Nil} : t \notin BulkSetter /\ SetRunner(t, n, r)
    \/ \E id \in Id, r \in Runner \cup {Nil} : t \notin BulkSetter /\ SetNodeRunner(t, id, r)

GoesOn(t) == Lookup(t) \/ RLock(t) \/ Loop(t) \/ RUnlock(t) \/ LockNode(t)
             \/ CheckStatus(t) \/ runnerStore(t) \/ Return(t)

SetDag ==
    \/ \E r \in Runner \cup {Nil} : SetContainerCmd(r)
    \/ \E rr \in Resolver \cup {Nil} : SetRunnerResolver(rr)

Snapshot(n) == runnerLoad(n) \/ ReadDag(n) \/ Resolve(n)

Run(n) ==
    \/ DropTask(n) \/ Skip(n) \/ BeginRunning(n)
    \/ FinishUnrun(n) \/ Snapshot(n) \/ FinishRun(n)

Reset == ResetLocks \/ \E n \in Node : ResetNode(n)

Next ==
    \/ \E t \in Setter : Set(t) \/ GoesOn(t)
    \/ SetDag
    \/ \E n \in Node : Run(n)
    \/ Reset

Spec == Init /\ [][Next]_vars

\* A setter goes on, and so does Reset: Go's mutexes hand a lock to whoever has
\* waited long enough, so that is strong fairness where a step takes a lock.
\* Nobody is made to call a setter or Reset, and no node to run.
Fairness ==
    /\ \A t \in Setter : SF_vars(GoesOn(t))
    /\ SF_vars(\E n \in Node : ResetNode(n))

FairSpec == Spec /\ Fairness

(***************************************************************************)
(* Properties.                                                             *)
(***************************************************************************)

\* The override of a node that has left Pending does not change before Reset,
\* whoever looked at its status before (the look and the store of SetRunner,
\* SetNodeRunner and SetNodeRunners are two steps of one critical section).
FrozenOnceBegun ==
    [][\A n \in Node : status[n] # "Pending" => slot'[n] = slot[n]]_vars

\* Setter t does not wait for a lock.
CanGoOn(t) ==
    \/ spc[t] \in {"loop", "check", "store", "return"}
    \/ spc[t] \in {"lookup", "rlock"} /\ CanRLock
    \/ spc[t] = "lock" /\ nodeLock[current[t][1]] = Nobody

\* The waits for dag.mu and for the mutexes of nodes form no circle: who holds
\* n.mu can go on, who waits for n.mu, with dag.mu or without, waits for one
\* who can, Reset in its loop too, and who waits for Reset holds nothing.
NoCircularWait ==
    /\ \A t \in Setter : spc[t] # "idle" /\ ~CanGoOn(t) =>
          IF spc[t] = "lock" THEN CanGoOn(nodeLock[current[t][1]])
          ELSE resetting # {} /\ t \notin readers /\ \A n \in Node : nodeLock[n] # t
    /\ \A n \in resetting : nodeLock[n] = Nobody \/ CanGoOn(nodeLock[n])
    /\ resetting # {} => readers = {}

\* Every binding call returns, whatever the workers, the other callers and
\* Reset do with the locks: SetNodeRunners takes each n.mu under dag.mu, Reset
\* holds dag.mu for all of its loop.
CallsReturn == \A t \in Setter : spc[t] # "idle" ~> spc[t] = "idle"

\* Together with the locks, the code is an atomic register per node: each
\* binding is one atomic write of an open node or is refused, and the Runnable
\* a node executes is what the override, or else one state of resolver and
\* default, said at one moment after the node had begun.
FallbackNow == [n \in Node |-> Resolved(n, resolver, base)]

Phase(n) ==
    IF status[n] = "Pending" THEN "open"
    ELSE IF rpc[n] \in {"running", "readDag"} THEN "begun" ELSE "over"

PhaseNow == [n \in Node |-> Phase(n)]

UsedNow ==
    [n \in Node |-> IF rpc[n] = "resolve" THEN Resolved(n, local[n][1], local[n][2])
                    ELSE chosen[n]]

Register == INSTANCE RunnerRegister WITH
    bound <- slot, fallback <- FallbackNow,
    phase <- PhaseNow, used <- UsedNow

\* RunnerBinding implements RunnerRegister.
RefinesRegister == Register!Spec
=============================================================================
