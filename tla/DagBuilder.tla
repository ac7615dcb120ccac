----------------------------- MODULE DagBuilder -----------------------------
(***************************************************************************)
(* Building a dag: NewDag, StartDag, CreateNode, AddEdge,                  *)
(* AddEdgeIfNodesExist and FinishDag, called by any number of goroutines,  *)
(* and what becomes of the dag when it is Reset, or copied by CopyDag and  *)
(* the copy used from then on.                                             *)
(*                                                                         *)
(* Every operation holds dag.mu from its first look at the graph to its    *)
(* return and is one action.  Only the argument checks of the two edge     *)
(* operations come before the lock: they append to errLogs without it, a   *)
(* read of the slice and a write of it with other goroutines in between.   *)
(***************************************************************************)
EXTENDS Integers, FiniteSets, DagGraph

CONSTANTS
    Id,               \* node ids, StartNode, EndNode and NoId included
    StartNode,
    EndNode,
    NoId,             \* the empty string
    Nil,              \* the nil *Node; also: no append under way; also: no parent
    Builder,          \* goroutines that build the dag
    MaxChannelBuffer, \* capacity of Dag.Errors
    MaxErrors         \* bound on the errors reported, for TLC, by origin of the dag

UserId == Id \ {StartNode, EndNode}

ASSUME IdAssumption ==
    /\ IsFiniteSet(Id)
    /\ {StartNode, EndNode, NoId} \subseteq Id
    /\ StartNode # EndNode /\ NoId \notin {StartNode, EndNode}
    /\ Nil \notin Id /\ Nil \notin Nat

\* A dag has been built by the operations below; or it is a copy, which has no
\* channels; or a copy revived by Reset.
Origin == {"built", "copied", "revived"}

\* The channel of the start node that no edge backs and no parent sends on.
Trigger == Nil

ASSUME ErrorsAssumption == MaxChannelBuffer \in Nat /\ MaxErrors \in [Origin -> Nat]

VARIABLES
    nodes,         \* Dag.nodes
    edges,         \* Dag.Edges, and with it every children and parent list
    startNode,     \* the pointer Dag.StartNode
    endNode,       \* the pointer Dag.EndNode
    parentVertex,  \* the channels in the start node's parentVertex, by their senders
    validated,     \* Dag.validated
    nodeCount,     \* Dag.nodeCount
    origin,        \* where the dag comes from
    grown,         \* the graph has changed since FinishDag succeeded
    errLogs,       \* the length of Dag.errLogs
    errors,        \* the length of the Dag.Errors channel
    droppedErrors, \* Dag.droppedErrors
    appending      \* appending[b]: the length of errLogs read by an append under way

graphVars == <<nodes, edges, startNode, endNode, parentVertex, validated, nodeCount,
               origin, grown>>
errorVars == <<errLogs, errors, droppedErrors>>
vars == <<graphVars, errorVars, appending>>

BuilderTypeOK ==
    /\ nodes \subseteq Id
    /\ edges \subseteq nodes \X nodes
    /\ startNode \in {Nil} \cup ({StartNode} \cap nodes)
    /\ endNode \in {Nil} \cup ({EndNode} \cap nodes)
    /\ parentVertex \subseteq {Nil} \cup nodes
    /\ {validated, grown} \subseteq BOOLEAN
    /\ origin \in Origin
    /\ nodeCount \in Nat
    /\ errLogs \in Nat
    /\ errors \in 0..MaxChannelBuffer
    /\ droppedErrors \in Nat
    /\ appending \in [Builder -> Nat \cup {Nil}]

\* NewDag.
Init ==
    /\ nodes = {}
    /\ edges = {}
    /\ startNode = Nil
    /\ endNode = Nil
    /\ parentVertex = {}
    /\ validated = FALSE
    /\ nodeCount = 0
    /\ origin = "built"
    /\ grown = FALSE
    /\ errLogs = 0
    /\ errors = 0
    /\ droppedErrors = 0
    /\ appending = [b \in Builder |-> Nil]

(***************************************************************************)
(* Errors.                                                                 *)
(***************************************************************************)

\* The bound: errors reported, and those about to be.
MoreErrors ==
    errors + droppedErrors + Cardinality({b \in Builder : appending[b] # Nil}) < MaxErrors[origin]

\* MUTANT of reportError: a full channel drops the error without counting it.
reportErrorUncounted ==
    /\ errors' = IF errors < MaxChannelBuffer THEN errors + 1 ELSE errors
    /\ UNCHANGED droppedErrors

\* A non-blocking Send; a full channel drops the error and counts it.
reportError ==
    /\ IF errors < MaxChannelBuffer
       THEN errors' = errors + 1 /\ UNCHANGED droppedErrors
       ELSE droppedErrors' = droppedErrors + 1 /\ UNCHANGED errors

\* logErr of an operation that holds dag.mu.
logErr ==
    /\ MoreErrors
    /\ errLogs' = errLogs + 1
    /\ reportError

NoError == UNCHANGED errorVars

\* logErr of the argument checks (both ends the same, or one of them empty), for
\* which any caller may ask: append reads the slice ...
RejectArguments(b) ==
    /\ MoreErrors
    /\ appending' = [appending EXCEPT ![b] = errLogs]
    /\ UNCHANGED <<graphVars, errorVars>>

\* ... and writes it; reportError follows.
AppendRejection(b) ==
    /\ appending[b] # Nil
    /\ errLogs' = appending[b] + 1
    /\ reportError
    /\ appending' = [appending EXCEPT ![b] = Nil]
    /\ UNCHANGED graphVars

(***************************************************************************)
(* The operations.                                                         *)
(***************************************************************************)

\* What createNode adds for the ids of new: it returns nil for a known id.
CreateAll(new) ==
    /\ nodes' = nodes \cup new
    /\ nodeCount' = nodeCount + Cardinality((new \ nodes) \cap UserId)

StartDag ==
    /\ IF StartNode \in nodes
       THEN /\ startNode' = Nil
            /\ logErr
            /\ UNCHANGED <<nodes, nodeCount, parentVertex>>
       ELSE /\ startNode' = StartNode
            /\ parentVertex' = {Trigger}
            /\ CreateAll({StartNode})
            /\ NoError
    /\ UNCHANGED <<edges, endNode, validated, appending>>

\* CreateNode and CreateNodeWithTimeOut: a known id is nil for the caller.
CreateNode(id) ==
    /\ CreateAll({id})
    /\ UNCHANGED <<edges, startNode, endNode, parentVertex, validated, errorVars, appending>>

\* createEdge refuses an edge that exists; a new one comes with a channel, which
\* its caller appends to the lists of both nodes.
createEdge(from, to) ==
    /\ IF <<from, to>> \in edges
       THEN logErr /\ UNCHANGED <<edges, parentVertex>>
       ELSE /\ edges' = edges \cup {<<from, to>>}
            /\ parentVertex' = parentVertex \cup (IF to = StartNode THEN {from} ELSE {})
            /\ NoError

\* MUTANT of AddEdge: nodeCount counts both ends of the edge.
AddEdgeCountsBoth(from, to) ==
    /\ from # to /\ NoId \notin {from, to}
    /\ nodes' = nodes \cup {from, to}
    /\ nodeCount' = nodeCount + Cardinality({from, to} \cap UserId)
    /\ createEdge(from, to)
    /\ UNCHANGED <<startNode, endNode, validated, appending>>

\* There is no look at validated: a finished dag takes an edge as well.
AddEdge(from, to) ==
    /\ from # to /\ NoId \notin {from, to}
    /\ CreateAll({from, to})
    /\ createEdge(from, to)
    /\ UNCHANGED <<startNode, endNode, validated, appending>>

\* MUTANT of AddEdgeIfNodesExist: an edge between nodes that do not exist.
AddEdgeUnchecked(from, to) ==
    /\ from # to /\ NoId \notin {from, to}
    /\ createEdge(from, to)
    /\ UNCHANGED <<nodes, nodeCount, startNode, endNode, validated, appending>>

AddEdgeIfNodesExist(from, to) ==
    /\ from # to /\ NoId \notin {from, to}
    /\ IF {from, to} \subseteq nodes
       THEN createEdge(from, to)
       ELSE logErr /\ UNCHANGED <<edges, parentVertex>>
    /\ UNCHANGED <<nodes, nodeCount, startNode, endNode, validated, appending>>

Childless == {n \in nodes : \A m \in nodes : <<n, m>> \notin edges}

Isolated == {n \in Childless : \A m \in nodes : <<m, n>> \notin edges}

\* addEndNode for the childless nodes of visited.
ConnectEnd(visited) ==
    edges' = edges \cup {<<n, EndNode>> : n \in visited \cap Childless}

FinishFails ==
    /\ logErr
    /\ UNCHANGED validated

\* FinishDag that stops before it creates the end node, or because it exists:
\* then Dag.EndNode is nil again.
FinishRefused ==
    /\ validated \/ nodes = {} \/ EndNode \in nodes
    /\ endNode' = IF validated \/ nodes = {} THEN endNode ELSE Nil
    /\ FinishFails
    /\ UNCHANGED <<nodes, edges, startNode, parentVertex, nodeCount, appending>>

FinishGoesOn ==
    /\ ~validated /\ nodes # {} /\ EndNode \notin nodes
    /\ CreateAll({EndNode})
    /\ endNode' = EndNode
    /\ UNCHANGED <<startNode, parentVertex, appending>>

\* A single node may be isolated if it is the start node.
Misplaced == IF nodes = {StartNode} THEN {} ELSE Isolated

\* The loop over the nodes meets an isolated one: those it visited before, in
\* whatever order the map gave, have their edge to the end node already.
FinishMeetsIsolated ==
    /\ FinishGoesOn
    /\ Misplaced # {}
    /\ \E visited \in SUBSET (nodes \ Misplaced) : ConnectEnd(visited)
    /\ FinishFails

\* MUTANT of FinishConnects: the answer of detectCycle is not looked at.
FinishWithoutCycleCheck ==
    /\ FinishGoesOn
    /\ Misplaced = {}
    /\ ConnectEnd(nodes)
    /\ validated' = TRUE
    /\ NoError

\* Every node has been visited; detectCycle decides (CycleDetect).
FinishConnects ==
    /\ FinishGoesOn
    /\ Misplaced = {}
    /\ ConnectEnd(nodes)
    /\ IF HasCycle(nodes', edges')
       THEN FinishFails
       ELSE validated' = TRUE /\ NoError

FinishDag == FinishRefused \/ FinishMeetsIsolated \/ FinishConnects

Grows == grown' = (grown \/ (validated /\ <<nodes, edges>>' # <<nodes, edges>>))

\* Reset and CopyDag give the dag fresh error accounts.  Nobody may build
\* meanwhile: Reset does not lock out an append of the argument checks, CopyDag
\* takes no lock at all.
FreshAccounts ==
    /\ \A b \in Builder : appending[b] = Nil
    /\ errLogs' = 0 /\ errors' = 0 /\ droppedErrors' = 0
    /\ UNCHANGED <<nodes, edges, validated, grown, appending>>

\* MUTANT of Reset: no channel is made again but the trigger.
ResetTriggerOnly ==
    /\ FreshAccounts
    /\ parentVertex' = (IF startNode # Nil THEN {Trigger} ELSE {})
    /\ origin' = IF origin = "copied" THEN "revived" ELSE origin
    /\ UNCHANGED <<startNode, endNode, nodeCount>>

\* Reset gives every edge a channel, and a trigger to the node that the pointer
\* Dag.StartNode names.
Reset ==
    /\ FreshAccounts
    /\ parentVertex' = (IF startNode # Nil THEN {Trigger} ELSE {})
                           \cup {n \in nodes : <<n, StartNode>> \in edges}
    /\ origin' = IF origin = "copied" THEN "revived" ELSE origin
    /\ UNCHANGED <<startNode, endNode, nodeCount>>

Named(id) == IF id \in nodes THEN id ELSE Nil

\* CopyDag, and the caller goes on with the copy: no channels, no trigger and no
\* node counted, but the pointers are those of the nodes. (The copy of a dag
\* without nodes has a nil map, on which createNode panics.)
CopyDag ==
    /\ nodes # {}
    /\ FreshAccounts
    /\ startNode' = Named(StartNode) /\ endNode' = Named(EndNode)
    /\ parentVertex' = {}
    /\ nodeCount' = 0
    /\ origin' = "copied"

(***************************************************************************)
(* The specification.                                                      *)
(***************************************************************************)

Locked ==
    /\ \/ StartDag
       \/ \E id \in Id : CreateNode(id)
       \/ \E from, to \in Id : AddEdge(from, to) \/ AddEdgeIfNodesExist(from, to)
       \/ FinishDag
    /\ Grows
    /\ UNCHANGED origin

Next ==
    \/ Reset \/ CopyDag
    \/ (\E b \in Builder : appending[b] = Nil) /\ Locked
    \/ \E b \in Builder :
        \/ appending[b] = Nil /\ RejectArguments(b)
        \/ AppendRejection(b)

Spec == Init /\ [][Next]_vars

(***************************************************************************)
(* Properties.                                                             *)
(***************************************************************************)

\* What Start asks of the dag: that the start node's parentVertex has length one
\* (dag.go:1141; without a start node it panics).  It does not ask which channel.
Startable == startNode # Nil /\ \E sender \in {Nil} \cup Id : parentVertex = {sender}

\* What DagRun takes for granted: Start sends on the trigger, and the end node can
\* be reached from every node of a graph without a cycle.
ReadyToRun ==
    /\ parentVertex = {Trigger}
    /\ endNode = EndNode
    /\ FinishedGraph(nodes, edges, StartNode, EndNode)

\* FinishDag succeeds only on a graph without a cycle, and if Start accepts the
\* dag, on a graph that fits DagRun, whatever was built and refused before, in
\* whatever order.  A copy has to be Reset first: the edges that CopyDag has copied
\* have no channels, so that a new edge into the start node is all Start sees.
FinishedIsRunnable ==
    [][~validated /\ validated' =>
        /\ ~HasCycle(nodes', edges')
        /\ endNode' = EndNode
        /\ (Startable /\ origin # "copied" => ReadyToRun)']_vars

\* ... and it stays so through Reset and CopyDag in any order, a copy that was Reset
\* included, until somebody changes the graph again: AddEdge and CreateNode do not
\* look at validated.
RunnableUnlessGrown ==
    validated /\ ~grown /\ Startable /\ origin # "copied" => ReadyToRun

\* The denominator of Progress is the number of user nodes, whichever of the
\* operations created them and however often they were asked to, on a dag that
\* is not a copy.
NodeCountExact ==
    origin = "built" => nodeCount = Cardinality(nodes \cap UserId)

\* Every error in errLogs has been sent to Dag.Errors or counted as dropped;
\* with concurrent argument errors errLogs may miss some, never the reverse.
LoggedIsReported == errLogs <= errors + droppedErrors

=============================================================================
