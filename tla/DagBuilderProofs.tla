-------------------------- MODULE DagBuilderProofs --------------------------
(***************************************************************************)
(* What FinishDag accepts, for any number of nodes and builders.           *)
(***************************************************************************)
EXTENDS DagBuilder, FiniteSetTheorems, TLAPS

\* The counters are numbers.
LEMMA CounterTypes ==
    ASSUME BuilderTypeOK
    PROVE  errors \in Nat /\ droppedErrors \in Nat /\ errLogs \in Nat
  BY ErrorsAssumption DEF BuilderTypeOK

\* Both arms of reportError account for the error.
LEMMA ReportStep ==
    ASSUME BuilderTypeOK, reportError
    PROVE  /\ errors' \in 0..MaxChannelBuffer /\ droppedErrors' \in Nat
           /\ errors' + droppedErrors' = errors + droppedErrors + 1
  BY ErrorsAssumption DEF BuilderTypeOK, reportError

\* An error of a locked operation is logged and reported.
LEMMA LogStep ==
    ASSUME BuilderTypeOK, logErr
    PROVE  /\ errors' \in 0..MaxChannelBuffer /\ droppedErrors' \in Nat
           /\ errLogs' = errLogs + 1
           /\ errors' + droppedErrors' = errors + droppedErrors + 1
  BY ReportStep DEF logErr

(***************************************************************************)
(* Types and counters.                                                     *)
(***************************************************************************)

\* The nodes created by one operation, each counted once.
LEMMA CreateStep ==
    ASSUME BuilderTypeOK, NodeCountExact, NEW new \in SUBSET Id, CreateAll(new),
           UNCHANGED origin
    PROVE  /\ nodes' \subseteq Id
           /\ nodeCount' \in Nat
           /\ NodeCountExact'
<1> DEFINE Old == nodes \cap UserId
           New == (new \ nodes) \cap UserId
<1>1. /\ IsFiniteSet(Old) /\ IsFiniteSet(New) /\ Old \cap New = {}
      /\ nodes' \cap UserId = Old \cup New
  BY IdAssumption, FS_Subset DEF BuilderTypeOK, CreateAll, UserId
<1>2. /\ Cardinality(Old) \in Nat /\ Cardinality(New) \in Nat
      /\ Cardinality(Old \cap New) = 0
  BY <1>1, FS_CardinalityType, FS_EmptySet
<1>3. /\ origin = "built" => nodeCount = Cardinality(Old)
      /\ nodeCount' = nodeCount + Cardinality(New) /\ nodeCount \in Nat
  BY DEF NodeCountExact, CreateAll, BuilderTypeOK
<1> HIDE DEF Old, New
<1>4. Cardinality(Old \cup New) = Cardinality(Old) + Cardinality(New)
  <2>1. Cardinality(Old \cup New) = Cardinality(Old) + Cardinality(New) - Cardinality(Old \cap New)
    BY <1>1, FS_Union
  <2> QED
    BY <1>2, <2>1
<1>5. nodes' \subseteq Id
  BY DEF CreateAll, BuilderTypeOK
<1>6. (origin = "built" => nodeCount' = Cardinality(Old \cup New)) /\ nodeCount' \in Nat
  BY <1>2, <1>3, <1>4
<1>7. NodeCountExact'
  BY <1>1, <1>6 DEF NodeCountExact
<1> QED
  BY <1>5, <1>6, <1>7

\* An edge operation adds an edge between nodes the dag has, or an error.
LEMMA EdgeStep ==
    ASSUME BuilderTypeOK, NEW from, NEW to, createEdge(from, to),
           {from, to} \subseteq nodes', nodes \subseteq nodes'
    PROVE  /\ edges' \subseteq nodes' \X nodes'
           /\ parentVertex' \subseteq {Nil} \cup nodes'
           /\ errors' \in 0..MaxChannelBuffer /\ droppedErrors' \in Nat
           /\ errLogs' - errLogs = (errors' + droppedErrors') - (errors + droppedErrors)
           /\ errLogs' \in Nat
  BY LogStep DEF BuilderTypeOK, createEdge, NoError, errorVars

CounterInv ==
    /\ BuilderTypeOK
    /\ NodeCountExact
    /\ LoggedIsReported
    /\ \A b \in Builder : appending[b] # Nil => appending[b] <= errors + droppedErrors

\* What every operation does to the counters.
Accounts ==
    /\ BuilderTypeOK'
    /\ NodeCountExact'
    /\ errLogs' - errLogs = (errors' + droppedErrors') - (errors + droppedErrors)
    /\ errors' + droppedErrors' >= errors + droppedErrors
    /\ UNCHANGED appending

\* FinishDag, accepted or refused, creates at most the end node.
LEMMA FinishStep ==
    ASSUME CounterInv, FinishDag, grown' \in BOOLEAN, UNCHANGED origin
    PROVE  Accounts
<1> USE DEF CounterInv
<1>1. CASE FinishRefused
  BY <1>1, LogStep DEF FinishRefused, FinishFails, BuilderTypeOK, Accounts, NodeCountExact
<1>2. ASSUME FinishGoesOn, NEW visited \in SUBSET nodes, ConnectEnd(visited),
             FinishFails \/ (validated' = TRUE /\ NoError)
      PROVE  Accounts
  <2>0. CreateAll({EndNode}) /\ {EndNode} \in SUBSET Id
    BY <1>2, IdAssumption DEF FinishGoesOn
  <2>1. /\ nodes' \subseteq Id /\ nodeCount' \in Nat /\ NodeCountExact'
        /\ nodes' = nodes \cup {EndNode}
    BY <2>0, CreateStep DEF CreateAll
  <2>2. edges' \subseteq nodes' \X nodes'
    BY <1>2, <2>1 DEF ConnectEnd, BuilderTypeOK
  <2>3. CASE FinishFails
    BY <1>2, <2>1, <2>2, <2>3, LogStep DEF FinishFails, FinishGoesOn, BuilderTypeOK, Accounts
  <2>4. CASE validated' = TRUE /\ NoError
    BY <1>2, <2>1, <2>2, <2>4
       DEF NoError, errorVars, FinishGoesOn, BuilderTypeOK, Accounts
  <2> QED
    BY <1>2, <2>3, <2>4
<1>3. CASE FinishMeetsIsolated
  BY <1>2, <1>3 DEF FinishMeetsIsolated
<1>4. CASE FinishConnects
  BY <1>2, <1>4 DEF FinishConnects
<1> QED
  BY <1>1, <1>3, <1>4 DEF FinishDag

\* An operation under dag.mu logs as many errors as it reports.
LEMMA LockedStep == CounterInv /\ Locked => Accounts
<1> SUFFICES ASSUME CounterInv, Locked PROVE Accounts
  OBVIOUS
<1> USE DEF CounterInv
<1>0. grown' \in BOOLEAN /\ UNCHANGED origin
  BY DEF Locked, Grows, BuilderTypeOK
<1>1. CASE StartDag
  <2>1. CASE StartNode \in nodes
    BY <1>0, <1>1, <2>1, LogStep DEF StartDag, BuilderTypeOK, Accounts, NodeCountExact
  <2>2. CASE StartNode \notin nodes
    <3>1. /\ nodes' \subseteq Id /\ nodeCount' \in Nat /\ NodeCountExact'
      BY <1>0, <1>1, <2>2, CreateStep, IdAssumption DEF StartDag
    <3> QED
      BY <1>0, <1>1, <2>2, <3>1
         DEF StartDag, CreateAll, NoError, errorVars, BuilderTypeOK, Accounts, Trigger
  <2> QED
    BY <2>1, <2>2
<1>2. ASSUME NEW id \in Id, CreateNode(id) PROVE Accounts
  <2>1. /\ nodes' \subseteq Id /\ nodeCount' \in Nat /\ NodeCountExact'
    BY <1>0, <1>2, CreateStep DEF CreateNode
  <2> QED
    BY <1>0, <1>2, <2>1 DEF CreateNode, CreateAll, errorVars, BuilderTypeOK, Accounts
<1>3. ASSUME NEW from \in Id, NEW to \in Id, AddEdge(from, to) PROVE Accounts
  <2>1. /\ nodes' \subseteq Id /\ nodeCount' \in Nat /\ NodeCountExact'
        /\ nodes \subseteq nodes' /\ {from, to} \subseteq nodes'
    BY <1>0, <1>3, CreateStep DEF AddEdge, CreateAll
  <2>2. /\ edges' \subseteq nodes' \X nodes'
        /\ parentVertex' \subseteq {Nil} \cup nodes'
        /\ errors' \in 0..MaxChannelBuffer /\ droppedErrors' \in Nat /\ errLogs' \in Nat
        /\ errLogs' - errLogs = (errors' + droppedErrors') - (errors + droppedErrors)
        /\ errLogs' >= errLogs
    BY <1>3, <2>1, EdgeStep, LogStep
       DEF AddEdge, createEdge, NoError, errorVars, BuilderTypeOK
  <2>3. BuilderTypeOK'
    BY <1>0, <1>3, <2>1, <2>2 DEF AddEdge, BuilderTypeOK
  <2>4. errors' + droppedErrors' >= errors + droppedErrors
    <3>1. errors' \in Nat
      BY <2>2, ErrorsAssumption
    <3> QED
      BY <2>2, <3>1, CounterTypes
  <2> QED
    BY <1>3, <2>1, <2>2, <2>3, <2>4 DEF AddEdge, Accounts
<1>4. ASSUME NEW from \in Id, NEW to \in Id, AddEdgeIfNodesExist(from, to) PROVE Accounts
  <2>1. CASE {from, to} \subseteq nodes
    <3>1. /\ edges' \subseteq nodes' \X nodes'
          /\ parentVertex' \subseteq {Nil} \cup nodes'
          /\ errors' \in 0..MaxChannelBuffer /\ droppedErrors' \in Nat /\ errLogs' \in Nat
          /\ errLogs' - errLogs = (errors' + droppedErrors') - (errors + droppedErrors)
          /\ errLogs' >= errLogs
      BY <1>4, <2>1, EdgeStep, LogStep
         DEF AddEdgeIfNodesExist, createEdge, NoError, errorVars, BuilderTypeOK
    <3>2. BuilderTypeOK' /\ NodeCountExact'
      BY <1>0, <1>4, <3>1 DEF AddEdgeIfNodesExist, BuilderTypeOK, NodeCountExact
    <3>3. errors' + droppedErrors' >= errors + droppedErrors
      <4>1. errors' \in Nat
        BY <3>1, ErrorsAssumption
      <4> QED
        BY <3>1, <4>1, CounterTypes
    <3> QED
      BY <1>4, <3>1, <3>2, <3>3 DEF AddEdgeIfNodesExist, Accounts
  <2>2. CASE ~({from, to} \subseteq nodes)
    BY <1>0, <1>4, <2>2, LogStep DEF AddEdgeIfNodesExist, BuilderTypeOK, Accounts, NodeCountExact
  <2> QED
    BY <2>1, <2>2
<1> QED
  BY <1>0, <1>1, <1>2, <1>3, <1>4, FinishStep DEF Locked

\* An argument error logs less than it reports when it has overwritten others.
LEMMA CounterStep == CounterInv /\ [Next]_vars => CounterInv'
<1> SUFFICES ASSUME CounterInv, [Next]_vars PROVE CounterInv'
  OBVIOUS
<1>1. CASE Locked
  BY <1>1, LockedStep DEF CounterInv, Accounts, BuilderTypeOK, LoggedIsReported
<1>2. ASSUME NEW b \in Builder, RejectArguments(b)
      PROVE  CounterInv'
  <2>1. UNCHANGED <<graphVars, errorVars>> /\ errLogs \in Nat
        /\ appending' = [appending EXCEPT ![b] = errLogs]
    BY <1>2 DEF RejectArguments, CounterInv, BuilderTypeOK
  <2> QED
    BY <2>1 DEF CounterInv, BuilderTypeOK, NodeCountExact, LoggedIsReported,
                graphVars, errorVars
<1>3. ASSUME NEW b \in Builder, AppendRejection(b) PROVE CounterInv'
  <2>1. /\ appending[b] \in Nat /\ errLogs' = appending[b] + 1
        /\ errors' \in 0..MaxChannelBuffer /\ droppedErrors' \in Nat
        /\ errors' + droppedErrors' = errors + droppedErrors + 1
        /\ appending' = [appending EXCEPT ![b] = Nil]
        /\ UNCHANGED graphVars
    BY <1>3, ReportStep DEF AppendRejection, CounterInv, BuilderTypeOK
  <2>0. appending[b] <= errors + droppedErrors
    BY <2>1, IdAssumption DEF CounterInv
  <2>2. BuilderTypeOK' /\ NodeCountExact'
    BY <2>1 DEF CounterInv, BuilderTypeOK, NodeCountExact, graphVars
  <2>3. LoggedIsReported'
    BY <2>0, <2>1, CounterTypes DEF CounterInv, LoggedIsReported
  <2>4. \A c \in Builder : appending'[c] # Nil => appending'[c] <= errors' + droppedErrors'
    <3> SUFFICES ASSUME NEW c \in Builder, appending'[c] # Nil
                 PROVE  appending'[c] <= errors' + droppedErrors'
      OBVIOUS
    <3>1. c # b /\ appending'[c] = appending[c] /\ appending[c] \in Nat
      BY <2>1 DEF CounterInv, BuilderTypeOK
    <3>2. appending[c] <= errors + droppedErrors
      BY <3>1 DEF CounterInv
    <3> QED
      BY <3>1, <3>2, <2>1, CounterTypes DEF CounterInv
  <2> QED
    BY <2>2, <2>3, <2>4 DEF CounterInv
<1>4. CASE UNCHANGED vars
  BY <1>4 DEF vars, graphVars, errorVars, CounterInv, BuilderTypeOK, NodeCountExact,
              LoggedIsReported
<1>5. CASE Reset \/ CopyDag
  <2> USE <1>5 DEF Reset, CopyDag, FreshAccounts, CounterInv
  <2>0. 0 \in 0..MaxChannelBuffer /\ 0 \in Nat
    BY ErrorsAssumption
  <2>1. BuilderTypeOK'
    <3>1. /\ startNode' \in {Nil} \cup ({StartNode} \cap nodes)
          /\ endNode' \in {Nil} \cup ({EndNode} \cap nodes)
      BY DEF BuilderTypeOK, Named
    <3>2. origin' \in Origin
      BY DEF BuilderTypeOK, Origin
    <3>3. nodeCount' \in Nat
      BY DEF BuilderTypeOK
    <3>4. parentVertex' \subseteq {Nil} \cup nodes'
      BY DEF Trigger
    <3> QED
      BY <2>0, <3>1, <3>2, <3>3, <3>4 DEF BuilderTypeOK
  <2>2. NodeCountExact'
    BY DEF NodeCountExact
  <2>3. LoggedIsReported' /\ \A b \in Builder : appending'[b] = Nil
    BY DEF LoggedIsReported
  <2> QED
    BY <2>1, <2>2, <2>3
<1> QED
  BY <1>1, <1>2, <1>3, <1>4, <1>5 DEF Next

\* The types, the node count and the error accounts, which need one another.
THEOREM CountersCorrect == Spec => []CounterInv
<1>1. Init => CounterInv
  <2> SUFFICES ASSUME Init PROVE CounterInv
    OBVIOUS
  <2>1. nodes \cap UserId = {} /\ Cardinality({}) = 0
    BY FS_EmptySet DEF Init
  <2>2. BuilderTypeOK
    <3>1. errors \in 0..MaxChannelBuffer
      BY ErrorsAssumption DEF Init
    <3>2. appending \in [Builder -> Nat \cup {Nil}]
      BY DEF Init
    <3> QED
      BY <3>1, <3>2 DEF Init, BuilderTypeOK, Origin
  <2>3. NodeCountExact
    BY <2>1 DEF Init, NodeCountExact
  <2> QED
    BY <2>2, <2>3 DEF Init, CounterInv, LoggedIsReported
<1> QED
  BY <1>1, CounterStep, PTL DEF Spec

\* The variables keep their types: an edge joins nodes the dag has, and the
\* StartNode and EndNode pointers are nil or point at a node of the dag.
THEOREM BuilderTypeCorrect == Spec => []BuilderTypeOK
  BY CountersCorrect, PTL DEF CounterInv

\* Progress divides by the number of user nodes.
THEOREM NodeCountExactHolds == Spec => []NodeCountExact
  BY CountersCorrect, PTL DEF CounterInv

\* No logged error is lost to both Dag.Errors and DroppedErrors.
THEOREM LoggedIsReportedHolds == Spec => []LoggedIsReported
  BY CountersCorrect, PTL DEF CounterInv

(***************************************************************************)
(* The finished graph.                                                     *)
(***************************************************************************)

\* What FinishedGraph says, the start node left aside.
EndReached(N, E) ==
    /\ ~HasCycle(N, E)
    /\ EndNode \in N
    /\ \A n \in N : <<EndNode, n>> \notin E
    /\ \A S \in SUBSET N :
          EndNode \in S /\ (\A x \in E : x[2] \in S => x[1] \in S) => S = N

\* On a dag that Start may be asked to run, the start node has its trigger and a
\* channel of each parent; a copy has only those made since.
VertexInv ==
    startNode # Nil /\ origin # "copied" =>
        parentVertex = {Trigger} \cup {n \in nodes : <<n, StartNode>> \in edges}

\* StartDag makes a node without parents, a new edge brings its channel, and Reset
\* makes the list anew.
LEMMA VertexStep ==
    ASSUME BuilderTypeOK, VertexInv, [Next]_vars
    PROVE  VertexInv'
<1> USE DEF BuilderTypeOK, VertexInv
<1>1. CASE StartDag /\ UNCHANGED origin
  <2>1. CASE StartNode \in nodes
    BY <1>1, <2>1 DEF StartDag
  <2>2. CASE StartNode \notin nodes
    BY <1>1, <2>2 DEF StartDag, CreateAll
  <2> QED
    BY <2>1, <2>2
<1>2. ASSUME NEW id \in Id, CreateNode(id), UNCHANGED origin PROVE VertexInv'
  BY <1>2 DEF CreateNode, CreateAll
<1>3. ASSUME NEW from \in Id, NEW to \in Id, createEdge(from, to),
             nodes' = nodes \cup {from, to}, UNCHANGED <<startNode, origin>>
      PROVE  VertexInv'
  <2>1. CASE <<from, to>> \in edges
    BY <1>3, <2>1 DEF createEdge
  <2>2. CASE <<from, to>> \notin edges
    <3>1. edges' = edges \cup {<<from, to>>}
      BY <1>3, <2>2 DEF createEdge
    <3>2. {n \in nodes' : <<n, StartNode>> \in edges'} =
            {n \in nodes : <<n, StartNode>> \in edges} \cup (IF to = StartNode THEN {from} ELSE {})
      BY <1>3, <3>1
    <3> QED
      BY <1>3, <2>2, <3>2 DEF createEdge
  <2> QED
    BY <2>1, <2>2
<1>4. ASSUME NEW from \in Id, NEW to \in Id, AddEdge(from, to), UNCHANGED origin
      PROVE  VertexInv'
  BY <1>3, <1>4 DEF AddEdge, CreateAll
<1>5. ASSUME NEW from \in Id, NEW to \in Id, AddEdgeIfNodesExist(from, to), UNCHANGED origin
      PROVE  VertexInv'
  <2>1. CASE {from, to} \subseteq nodes
    <3>1. nodes' = nodes \cup {from, to} /\ createEdge(from, to) /\ UNCHANGED <<startNode, origin>>
      BY <1>5, <2>1 DEF AddEdgeIfNodesExist
    <3> QED
      BY <1>3, <3>1
  <2>2. CASE ~({from, to} \subseteq nodes)
    BY <1>5, <2>2 DEF AddEdgeIfNodesExist
  <2> QED
    BY <2>1, <2>2
<1>6. CASE FinishRefused /\ UNCHANGED origin
  BY <1>6 DEF FinishRefused
<1>7. ASSUME FinishGoesOn, NEW visited \in SUBSET nodes, ConnectEnd(visited), UNCHANGED origin
      PROVE  VertexInv'
  <2>1. /\ nodes' = nodes \cup {EndNode}
        /\ edges' = edges \cup {<<n, EndNode>> : n \in visited \cap Childless}
        /\ UNCHANGED <<startNode, parentVertex, origin>>
    BY <1>7 DEF FinishGoesOn, CreateAll, ConnectEnd
  <2>2. {n \in nodes' : <<n, StartNode>> \in edges'} = {n \in nodes : <<n, StartNode>> \in edges}
    BY <2>1, IdAssumption
  <2> QED
    BY <2>1, <2>2
<1>8. CASE (FinishMeetsIsolated \/ FinishConnects) /\ UNCHANGED origin
  BY <1>7, <1>8 DEF FinishMeetsIsolated, FinishConnects
<1>9. CASE Reset
  BY <1>9 DEF Reset, FreshAccounts
<1>10. CASE CopyDag
  BY <1>10 DEF CopyDag
<1>11. CASE \/ \E b \in Builder : RejectArguments(b) \/ AppendRejection(b)
            \/ UNCHANGED vars
  BY <1>11 DEF RejectArguments, AppendRejection, graphVars, vars
<1> QED
  BY <1>1, <1>2, <1>4, <1>5, <1>6, <1>8, <1>9, <1>10, <1>11 DEF Next, Locked, FinishDag

\* What FinishedGraph says of the start node is what Start looks at: a list of
\* length one holds the trigger and no parent's channel.
LEMMA StartableIsReady ==
    ASSUME BuilderTypeOK, VertexInv, Startable, origin # "copied",
           endNode = EndNode, EndReached(nodes, edges)
    PROVE  ReadyToRun
<1>1. parentVertex = {Trigger} \cup {n \in nodes : <<n, StartNode>> \in edges}
  BY DEF VertexInv, Startable
<1>2. parentVertex = {Trigger}
  BY <1>1 DEF Startable
<1>3. \A n \in nodes : <<n, StartNode>> \notin edges
  BY <1>1, <1>2, IdAssumption DEF Trigger, BuilderTypeOK
<1>4. StartNode \in nodes
  BY DEF Startable, BuilderTypeOK
<1> QED
  BY <1>2, <1>3, <1>4 DEF ReadyToRun, EndReached, FinishedGraph

\* The types and the start node's channels, which the rest stands on.
THEOREM VertexCorrect == Spec => []VertexInv
<1>1. Init => VertexInv
  BY DEF Init, VertexInv
<1>2. BuilderTypeOK /\ VertexInv /\ [Next]_vars => VertexInv'
  BY VertexStep
<1> QED
  BY <1>1, <1>2, BuilderTypeCorrect, PTL DEF Spec

\* If every node but the end node has a child and there is no cycle, the end
\* node is reachable from all: the nodes outside a set that holds it and is
\* closed under parents each have a child outside it, and would loop.
LEMMA FinishConnectsReaches ==
    ASSUME BuilderTypeOK, FinishConnects, validated', ~validated
    PROVE  endNode' = EndNode /\ EndReached(nodes', edges')
<1>1. /\ nodes' = nodes \cup {EndNode} /\ EndNode \notin nodes
      /\ edges' = edges \cup {<<n, EndNode>> : n \in nodes \cap Childless}
      /\ ~HasCycle(nodes', edges') /\ endNode' = EndNode
  BY DEF FinishConnects, FinishGoesOn, CreateAll, ConnectEnd, FinishFails
<1>2. /\ edges \subseteq nodes \X nodes
      /\ edges' \in SUBSET (nodes' \X nodes')
      /\ EndNode \in nodes'
  BY <1>1 DEF BuilderTypeOK
<1>3. \A n \in nodes' \ {EndNode} : \E m \in nodes' : <<n, m>> \in edges'
  <2> SUFFICES ASSUME NEW n \in nodes PROVE \E m \in nodes' : <<n, m>> \in edges'
    BY <1>1
  <2>1. CASE n \in Childless
    BY <2>1, <1>1
  <2>2. CASE n \notin Childless
    BY <2>2, <1>1 DEF Childless
  <2> QED
    BY <2>1, <2>2
<1>4. \A n \in nodes' : <<EndNode, n>> \notin edges'
  BY <1>1, <1>2
<1>5. ASSUME NEW S \in SUBSET nodes', EndNode \in S,
             \A x \in edges' : x[2] \in S => x[1] \in S
      PROVE  S = nodes'
  <2> DEFINE N == nodes'
             E == edges'
  <2>1. E \in SUBSET (N \X N) /\ EndNode \in N /\ ~HasCycle(N, E)
    BY <1>1, <1>2
  <2>2. \A n \in N \ {EndNode} : \E m \in N : <<n, m>> \in E
    BY <1>3
  <2>3. S \in SUBSET N /\ \A x \in E : x[2] \in S => x[1] \in S
    BY <1>5
  <2> HIDE DEF N, E
  <2> DEFINE T == N \ S
  <2>4. \A n \in T : \E m \in T : <<n, m>> \in E
    <3> SUFFICES ASSUME NEW n \in T PROVE \E m \in T : <<n, m>> \in E
      OBVIOUS
    <3>1. PICK m \in N : <<n, m>> \in E
      BY <1>5, <2>2
    <3>2. m \notin S
      BY <2>3, <3>1
    <3> QED
      BY <3>1, <3>2
  <2>5. T = {}
    BY <2>1, <2>4 DEF HasCycle, Looping
  <2> QED
    BY <2>3, <2>5 DEF N
<1> QED
  BY <1>1, <1>2, <1>4, <1>5 DEF EndReached

\* Only a FinishDag that succeeds sets validated.
LEMMA FinishedStep ==
    ASSUME BuilderTypeOK, [Next]_vars, ~validated, validated'
    PROVE  endNode' = EndNode /\ EndReached(nodes', edges')
<1>1. validated' # validated /\ validated' = TRUE
  BY DEF BuilderTypeOK
<1>2. CASE FinishConnects
  BY <1>2, FinishConnectsReaches
<1>3. CASE Locked /\ ~FinishConnects
  BY <1>1, <1>3 DEF Locked, StartDag, CreateNode, AddEdge, AddEdgeIfNodesExist, FinishDag,
                    FinishRefused, FinishMeetsIsolated, FinishFails
<1>4. CASE ~Locked
  BY <1>1, <1>4 DEF Next, Reset, CopyDag, FreshAccounts, RejectArguments, AppendRejection,
                    graphVars, vars
<1> QED
  BY <1>2, <1>3, <1>4

\* FinishDag accepts only graphs without a cycle, and, if Start accepts the dag and
\* it is not a copy that was never Reset, only dags that a run can rely on: this is
\* the assumption GraphAssumption of DagRun.
THEOREM FinishedIsRunnableHolds == Spec => FinishedIsRunnable
<1>1. BuilderTypeOK /\ BuilderTypeOK' /\ VertexInv' /\ [Next]_vars =>
        [~validated /\ validated' =>
            /\ ~HasCycle(nodes', edges')
            /\ endNode' = EndNode
            /\ (Startable /\ origin # "copied" => ReadyToRun)']_vars
  <2> SUFFICES ASSUME BuilderTypeOK, BuilderTypeOK', VertexInv', [Next]_vars,
                      ~validated, validated'
               PROVE  /\ ~HasCycle(nodes', edges') /\ endNode' = EndNode
                      /\ (Startable /\ origin # "copied" => ReadyToRun)'
    OBVIOUS
  <2>1. endNode' = EndNode /\ EndReached(nodes', edges')
    BY FinishedStep
  <2>2. (BuilderTypeOK /\ VertexInv /\ Startable /\ origin # "copied"
            /\ endNode = EndNode /\ EndReached(nodes, edges) => ReadyToRun)'
    BY StartableIsReady, PTL
  <2> QED
    BY <2>1, <2>2 DEF EndReached
<1> QED
  BY <1>1, VertexCorrect, BuilderTypeCorrect, PTL DEF Spec, FinishedIsRunnable

\* The graph that FinishDag accepted is there until it has grown.
StillFinished == validated /\ ~grown => endNode = EndNode /\ EndReached(nodes, edges)

\* No operation takes the end node away from a finished dag.
LEMMA StillFinishedStep ==
    ASSUME BuilderTypeOK, StillFinished, [Next]_vars
    PROVE  StillFinished'
<1> SUFFICES ASSUME validated', ~grown' PROVE endNode' = EndNode /\ EndReached(nodes', edges')
  BY DEF StillFinished
<1>1. CASE ~validated
  BY <1>1, FinishedStep
<1>2. CASE validated
  <2>1. UNCHANGED <<nodes, edges>> /\ ~grown
    <3>1. CASE Locked
      BY <1>2, <3>1 DEF Locked, Grows, BuilderTypeOK
    <3>2. ASSUME UNCHANGED <<nodes, edges, grown>> PROVE UNCHANGED <<nodes, edges>> /\ ~grown
      BY <3>2, Zenon
    <3>3. CASE Reset \/ CopyDag
      BY <3>2, <3>3 DEF Reset, CopyDag, FreshAccounts
    <3>4. CASE \/ \E b \in Builder : RejectArguments(b) \/ AppendRejection(b)
               \/ UNCHANGED vars
      BY <3>2, <3>4 DEF RejectArguments, AppendRejection, graphVars, vars
    <3> QED
      BY <3>1, <3>3, <3>4 DEF Next
  <2>2. endNode = EndNode /\ EndReached(nodes, edges) /\ EndNode \in nodes
    BY <1>2, <2>1 DEF StillFinished, EndReached
  <2>3. endNode' = EndNode
    BY <1>2, <2>2 DEF Next, Locked, StartDag, CreateNode, AddEdge, AddEdgeIfNodesExist,
                FinishDag, FinishRefused, FinishMeetsIsolated, FinishConnects, FinishGoesOn,
                Reset, CopyDag, Named, RejectArguments, AppendRejection, graphVars, vars
  <2> QED
    BY <2>1, <2>2, <2>3
<1> QED
  BY <1>1, <1>2

\* A dag that FinishDag accepted and nobody has changed since is one that a run
\* can rely on once Start accepts it, after any number of Resets and copies, if the
\* last copy was Reset.
THEOREM RunnableUnlessGrownHolds == Spec => []RunnableUnlessGrown
<1>1. Init => StillFinished
  BY DEF Init, StillFinished
<1>2. BuilderTypeOK /\ StillFinished /\ [Next]_vars => StillFinished'
  BY StillFinishedStep
<1>3. BuilderTypeOK /\ VertexInv /\ StillFinished => RunnableUnlessGrown
  BY StartableIsReady DEF StillFinished, RunnableUnlessGrown
<1> QED
  BY <1>1, <1>2, <1>3, BuilderTypeCorrect, VertexCorrect, PTL DEF Spec

=============================================================================
