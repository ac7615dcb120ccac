---------------------------- MODULE CycleDetect ----------------------------
(***************************************************************************)
(* detectCycle: a depth-first search over the children lists, with a       *)
(* visited map and a recursion-stack map that are borrowed from a pool and *)
(* come back dirty.  FinishDag holds dag.mu during the search and          *)
(* DetectCycle holds it for reading, so the graph stands still; between    *)
(* two searches it may change.                                             *)
(*                                                                         *)
(* The calls of detectCycleDFS in progress are a sequence of nodes.  Maps  *)
(* have no order and a children list may have any: both are sets here.     *)
(***************************************************************************)
EXTENDS Sequences, FiniteSets, Integers, DagGraph

CONSTANT Node

ASSUME NodesAreFinite == IsFiniteSet(Node)

VARIABLES
    edges,      \* the graph: <<parent, child>> for each entry of Node.children
    visited,    \* dfsState.visited: the nodes it maps to true
    recStack,   \* dfsState.recStack: the nodes it maps to true
    calls,      \* the nodes of the calls of detectCycleDFS that have not returned
    todo,       \* todo[n]: the children the call for n has still to try
    result      \* what the last detectCycle returned, "idle" once the graph has grown

vars == <<edges, visited, recStack, calls, todo, result>>

Children(n) == {c \in Node : <<n, c>> \in edges}

Top == calls[Len(calls)]

Pop == SubSeq(calls, 1, Len(calls) - 1)

CycleTypeOK ==
    /\ edges \subseteq Node \X Node
    /\ visited \subseteq Node
    /\ recStack \subseteq Node
    /\ calls \in Seq(Node)
    /\ todo \in [Node -> SUBSET Node]
    /\ \A n \in Node : todo[n] \subseteq Children(n)
    /\ result \in {"idle", "searching", "cycle", "acyclic"}

NoTodo == [n \in Node |-> {}]

\* A dag with nodes and no edges yet, and a new dfsState in the pool.
Init ==
    /\ edges = {}
    /\ visited = {}
    /\ recStack = {}
    /\ calls = <<>>
    /\ todo = NoTodo
    /\ result = "idle"

\* Between two searches the graph may grow.
AddEdge(from, to) ==
    /\ result # "searching"
    /\ from # to /\ <<from, to>> \notin edges
    /\ edges' = edges \cup {<<from, to>>}
    /\ result' = "idle"
    /\ UNCHANGED <<visited, recStack, calls, todo>>

\* The pool is the package's: the next search may be another dag's.
AnotherDag ==
    /\ result # "searching"
    /\ edges' = {}
    /\ result' = "idle"
    /\ UNCHANGED <<visited, recStack, calls, todo>>

\* MUTANT of detectCycle: only visited is cleared.
DetectWithoutClear ==
    /\ result # "searching"
    /\ visited' = {}
    /\ result' = "searching"
    /\ UNCHANGED <<edges, recStack, calls, todo>>

\* A search begins: the maps that came from the pool are cleared.
detectCycle ==
    /\ result # "searching"
    /\ visited' = {}
    /\ recStack' = {}
    /\ result' = "searching"
    /\ UNCHANGED <<edges, calls, todo>>

\* MUTANT of Enter: the search goes up the parents lists.
EnterParents(n, left) ==
    /\ visited' = visited \cup {n}
    /\ recStack' = recStack \cup {n}
    /\ calls' = Append(calls, n)
    /\ todo' = [left EXCEPT ![n] = {p \in Node : <<p, n>> \in edges}]
    /\ UNCHANGED result

\* A call of detectCycleDFS for a node in neither map; left is what the calls
\* below it have still to try.
Enter(n, left) ==
    /\ visited' = visited \cup {n}
    /\ recStack' = recStack \cup {n}
    /\ calls' = Append(calls, n)
    /\ todo' = [left EXCEPT ![n] = Children(n)]
    /\ UNCHANGED result

\* The loop over dag.nodes.
Root(n) ==
    /\ result = "searching"
    /\ calls = <<>>
    /\ n \notin visited
    /\ Enter(n, todo)
    /\ UNCHANGED edges

\* Every call returns true and leaves the maps as they are.
CycleFound ==
    /\ result' = "cycle"
    /\ calls' = <<>>
    /\ todo' = NoTodo
    /\ UNCHANGED <<visited, recStack>>

Skip(left) ==
    /\ todo' = left
    /\ UNCHANGED <<visited, recStack, calls, result>>

\* MUTANT of TryChild: a child that was visited before is searched again.
TryChildAgain(c) ==
    /\ result = "searching"
    /\ calls # <<>>
    /\ c \in todo[Top]
    /\ LET left == [todo EXCEPT ![Top] = @ \ {c}] IN
       \/ c \in recStack /\ CycleFound
       \/ c \notin recStack /\ Enter(c, left)
    /\ UNCHANGED edges

\* MUTANT of TryChild: the loop stays on a child that was visited before.
TryChildForEver(c) ==
    /\ result = "searching"
    /\ calls # <<>>
    /\ c \in todo[Top]
    /\ LET left == [todo EXCEPT ![Top] = @ \ {c}] IN
       \/ c \in recStack /\ CycleFound
       \/ c \in visited \ recStack /\ Skip(todo)
       \/ c \notin visited \cup recStack /\ Enter(c, left)
    /\ UNCHANGED edges

\* The loop of detectCycleDFS takes its next child.
TryChild(c) ==
    /\ result = "searching"
    /\ calls # <<>>
    /\ c \in todo[Top]
    /\ LET left == [todo EXCEPT ![Top] = @ \ {c}] IN
       \/ c \in recStack /\ CycleFound
       \/ c \in visited \ recStack /\ Skip(left)
       \/ c \notin visited \cup recStack /\ Enter(c, left)
    /\ UNCHANGED edges

\* MUTANT of ReturnFalse: the node stays on the recursion stack.
ReturnOnStack ==
    /\ result = "searching"
    /\ calls # <<>>
    /\ todo[Top] = {}
    /\ calls' = Pop
    /\ UNCHANGED <<edges, visited, recStack, todo, result>>

\* A call that has tried every child returns false.
ReturnFalse ==
    /\ result = "searching"
    /\ calls # <<>>
    /\ todo[Top] = {}
    /\ recStack' = recStack \ {Top}
    /\ calls' = Pop
    /\ UNCHANGED <<edges, visited, todo, result>>

\* Every node has been visited and no search found a cycle.
NoCycle ==
    /\ result = "searching"
    /\ calls = <<>>
    /\ visited = Node
    /\ result' = "acyclic"
    /\ UNCHANGED <<edges, visited, recStack, calls, todo>>

Search ==
    \/ \E n \in Node : Root(n) \/ TryChild(n)
    \/ ReturnFalse \/ NoCycle

Next ==
    \/ Search
    \/ detectCycle
    \/ AnotherDag
    \/ \E from, to \in Node : AddEdge(from, to)

Spec == Init /\ [][Next]_vars

\* The search is one goroutine's loop: it does not pause for ever.
LiveSpec == Spec /\ WF_vars(Search)

(***************************************************************************)
(* Properties.                                                             *)
(***************************************************************************)

\* What detectCycle returns is right for the graph it searched, in whatever
\* order the maps are ranged over and whatever the search before it left in
\* the pooled maps (dag.go:1279-1297).
FindsExactlyCycles ==
    /\ result = "cycle"   => HasCycle(Node, edges)
    /\ result = "acyclic" => ~HasCycle(Node, edges)

\* The recursion stack is the path of the search: the calls in progress, each
\* the child of the one below it, none of them twice.
StackIsPath ==
    result = "searching" =>
        /\ recStack = {calls[i] : i \in 1..Len(calls)}
        /\ \A i \in 1..(Len(calls) - 1) : <<calls[i], calls[i + 1]>> \in edges
        /\ \A i, j \in 1..Len(calls) : calls[i] = calls[j] => i = j

\* The edges the search has still to look at: those of nodes not yet visited,
\* and what the calls in progress have still to try.
Untried == {e \in edges : e[1] \notin visited \/ e[2] \in todo[e[1]]}

\* A search visits each node and looks at each edge once, whatever the graph: a
\* step visits a new node, or looks at an edge for the last time, or ends a
\* call (dag.go:1255-1276).  It is not slower for a graph with many paths.
EachEdgeOnce ==
    [][result = "searching" /\ result' = "searching" =>
        /\ visited \subseteq visited' /\ Untried' \subseteq Untried
        /\ \/ visited' # visited
           \/ Untried' # Untried
           \/ Len(calls') < Len(calls)]_vars

\* Every search ends, in a graph with cycles too.
SearchEnds == result = "searching" ~> result # "searching"

=============================================================================
