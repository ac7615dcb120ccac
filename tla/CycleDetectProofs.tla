------------------------- MODULE CycleDetectProofs -------------------------
(***************************************************************************)
(* The search of detectCycle is correct for every finite set of nodes and  *)
(* every graph on it: it reports a cycle exactly when there is one.        *)
(*                                                                         *)
(* No induction over the graph is needed.  A node leaves the recursion     *)
(* stack with all its children already off it, so the nodes that are done  *)
(* are closed under children and hold no looping set; a child found on the *)
(* stack closes a looping set made of the part of the stack above it.      *)
(***************************************************************************)
EXTENDS CycleDetect, SequenceTheorems, TLAPS

\* A call is pushed: the calls below it stay where they are.
LEMMA PushFacts ==
    ASSUME NEW S, NEW q \in Seq(S), NEW x \in S
    PROVE  /\ Append(q, x) \in Seq(S)
           /\ Append(q, x) # <<>>
           /\ Len(q) \in Nat
           /\ Len(Append(q, x)) = Len(q) + 1
           /\ \A i \in 1..Len(q) : Append(q, x)[i] = q[i]
           /\ Append(q, x)[Len(q) + 1] = x
  OBVIOUS

\* A call returns: the calls below it stay where they are.
LEMMA PopFacts ==
    ASSUME NEW S, NEW q \in Seq(S), q # <<>>
    PROVE  /\ Len(q) \in Nat \ {0}
           /\ q[Len(q)] \in S
           /\ SubSeq(q, 1, Len(q) - 1) \in Seq(S)
           /\ Len(SubSeq(q, 1, Len(q) - 1)) = Len(q) - 1
           /\ \A i \in 1..(Len(q) - 1) : SubSeq(q, 1, Len(q) - 1)[i] = q[i]
<1> DEFINE k == Len(q) - 1
<1>1. Len(q) \in Nat \ {0} /\ \A i \in 1..Len(q) : q[i] \in S
  OBVIOUS
<1>2. k \in Nat /\ k = Len(q) - 1 /\ q[Len(q)] \in S /\ \A i \in 1..k : q[i] \in S
  BY <1>1
<1> HIDE DEF k
<1>3. /\ SubSeq(q, 1, k) \in Seq(S)
      /\ Len(SubSeq(q, 1, k)) = IF 1 <= k THEN k - 1 + 1 ELSE 0
      /\ \A i \in 1..(k - 1 + 1) : SubSeq(q, 1, k)[i] = q[1 + i - 1]
  BY <1>2, SubSeqProperties
<1>4. Len(SubSeq(q, 1, k)) = k /\ \A i \in 1..k : SubSeq(q, 1, k)[i] = q[i]
  BY <1>2, <1>3
<1> QED
  BY <1>1, <1>2, <1>3, <1>4 DEF k

\* The nodes whose call has returned false in this search.
Done == visited \ recStack

\* The children of a call in progress: still to try, done, or just called.
Accounted ==
    \A i \in 1..Len(calls) : \A c \in Children(calls[i]) :
        \/ c \in todo[calls[i]]
        \/ c \in Done
        \/ i < Len(calls) /\ c = calls[i + 1]

DoneIsClosed == \A n \in Done : Children(n) \subseteq Done

DoneHasNoLoop == \A S \in SUBSET Done : ~Looping(S, edges)

\* Only a call in progress has anything left to try.
OnlyCallsTry == \A n \in Node \ recStack : todo[n] = {}

SearchInv ==
    /\ StackIsPath
    /\ result = "searching" =>
        /\ recStack \subseteq visited
        /\ OnlyCallsTry /\ Accounted /\ DoneIsClosed /\ DoneHasNoLoop
    /\ result # "searching" => calls = <<>> /\ todo = NoTodo

IInv == CycleTypeOK /\ SearchInv /\ FindsExactlyCycles

\* Before the first search.
LEMMA InitIInv == Init => IInv
<1> SUFFICES ASSUME Init PROVE IInv
  OBVIOUS
<1> USE DEF Init, NoTodo
<1>1. CycleTypeOK
  BY DEF CycleTypeOK
<1>2. SearchInv
  BY DEF SearchInv, StackIsPath
<1>3. FindsExactlyCycles
  BY DEF FindsExactlyCycles
<1> QED
  BY <1>1, <1>2, <1>3 DEF IInv

\* A node is entered: its call goes on top of the stack, with all its children
\* still to try, and nobody is done by that.
LEMMA EnterStep ==
    ASSUME IInv, result = "searching", NEW n \in Node, n \notin visited,
           NEW left \in [Node -> SUBSET Node],
           Enter(n, left), UNCHANGED edges,
           \A m \in Node : left[m] \subseteq todo[m],
           \A i \in 1..Len(calls) : \A c \in todo[calls[i]] \ left[calls[i]] :
                i = Len(calls) /\ c = n,
           calls # <<>> => n \in Children(Top)
    PROVE  IInv'
<1> USE DEF IInv, Enter
<1> DEFINE k == Len(calls)
<1>0. /\ calls \in Seq(Node) /\ k \in Nat
      /\ n \notin recStack
  BY DEF CycleTypeOK, SearchInv
<1>1. /\ calls' \in Seq(Node)
      /\ Len(calls') = k + 1
      /\ \A i \in 1..k : calls'[i] = calls[i]
      /\ calls'[k + 1] = n
  BY <1>0, PushFacts
<1>2. Done' = Done
  BY <1>0 DEF Done
<1>3. \A m \in Node : Children(m)' = Children(m)
  BY DEF Children
<1>4. CycleTypeOK'
  BY <1>1, <1>3 DEF CycleTypeOK, Children
<1>5. StackIsPath'
  <2>1. recStack' = {calls'[i] : i \in 1..Len(calls')}
    BY <1>0, <1>1 DEF SearchInv, StackIsPath
  <2>2. \A i \in 1..(Len(calls') - 1) : <<calls'[i], calls'[i + 1]>> \in edges'
    <3> SUFFICES ASSUME NEW i \in 1..k
                 PROVE  <<calls'[i], calls'[i + 1]>> \in edges
      BY <1>0, <1>1
    <3>1. CASE i < k
      BY <3>1, <1>0, <1>1 DEF SearchInv, StackIsPath
    <3>2. CASE i = k
      <4>1. calls # <<>> /\ calls'[i] = Top /\ calls'[i + 1] = n
        BY <3>2, <1>0, <1>1 DEF Top
      <4> QED
        BY <4>1 DEF Children
    <3>3. i < k \/ i = k
      BY <1>0
    <3> QED
      BY <3>1, <3>2, <3>3
  <2>3. \A i, j \in 1..Len(calls') : calls'[i] = calls'[j] => i = j
    BY <1>0, <1>1 DEF SearchInv, StackIsPath
  <2> QED
    BY <2>1, <2>2, <2>3 DEF StackIsPath
<1>6. Accounted'
  <2> SUFFICES ASSUME NEW i \in 1..(k + 1), NEW c \in Children(calls[i])'
               PROVE  \/ c \in todo'[calls'[i]]
                      \/ c \in Done
                      \/ i < k + 1 /\ c = calls'[i + 1]
    BY <1>1, <1>2 DEF Accounted
  <2>1. CASE i = k + 1
    BY <2>1, <1>1, <1>3 DEF CycleTypeOK
  <2>2. CASE i \in 1..k
    <3>1. calls'[i] = calls[i] /\ calls[i] \in Node /\ calls[i] \in recStack
      BY <2>2, <1>0, <1>1 DEF SearchInv, StackIsPath
    <3>2. calls[i] # n /\ todo'[calls[i]] = left[calls[i]]
      BY <3>1, <1>0 DEF CycleTypeOK
    <3>3. \/ c \in todo[calls[i]]
          \/ c \in Done
          \/ i < k /\ c = calls[i + 1]
      BY <2>2, <3>1, <1>3 DEF SearchInv, Accounted
    <3>4. CASE c \in todo[calls[i]] \ left[calls[i]]
      BY <3>4, <2>2, <1>0, <1>1
    <3>5. CASE i < k /\ c = calls[i + 1]
      BY <3>5, <2>2, <1>0, <1>1
    <3> QED
      BY <3>1, <3>2, <3>3, <3>4, <3>5
  <2> QED
    BY <2>1, <2>2, <1>0
<1>7. DoneIsClosed' /\ DoneHasNoLoop'
  BY <1>2, <1>3 DEF SearchInv, DoneIsClosed, DoneHasNoLoop, Done, CycleTypeOK
<1>8. OnlyCallsTry'
  BY <1>0 DEF OnlyCallsTry, SearchInv, CycleTypeOK
<1>9. SearchInv'
  BY <1>5, <1>6, <1>7, <1>8 DEF SearchInv
<1> QED
  BY <1>4, <1>9 DEF FindsExactlyCycles

\* A child on the recursion stack closes a looping set.
LEMMA FoundStep ==
    ASSUME IInv, result = "searching", calls # <<>>, NEW c \in todo[Top],
           c \in recStack, CycleFound, UNCHANGED edges
    PROVE  IInv'
<1> USE DEF IInv, CycleFound
<1> DEFINE k == Len(calls)
<1>1. /\ calls \in Seq(Node) /\ k \in Nat \ {0} /\ Top \in Node
      /\ \A i \in 1..k : calls[i] \in Node
  BY PopFacts DEF CycleTypeOK, Top
<1>2. PICK j \in 1..k : c = calls[j]
  BY <1>1 DEF SearchInv, StackIsPath
<1> DEFINE S == {calls[i] : i \in j..k}
<1>3. S \in SUBSET Node /\ S # {}
  BY <1>1, <1>2
<1>4. \A n \in S : \E m \in S : <<n, m>> \in edges
  <2> SUFFICES ASSUME NEW i \in j..k
               PROVE  \E m \in S : <<calls[i], m>> \in edges
    OBVIOUS
  <2>1. CASE i = k
    <3>1. <<Top, c>> \in edges
      BY <1>1 DEF CycleTypeOK, Children
    <3>2. c \in S
      BY <1>1, <1>2
    <3> QED
      BY <2>1, <3>1, <3>2 DEF Top
  <2>2. CASE i < k
    <3>1. i + 1 \in j..k /\ i \in 1..(k - 1)
      BY <2>2, <1>1
    <3>2. <<calls[i], calls[i + 1]>> \in edges
      BY <3>1 DEF SearchInv, StackIsPath
    <3> QED
      BY <3>1, <3>2
  <2>3. i = k \/ i < k
    BY <1>1
  <2> QED
    BY <2>1, <2>2, <2>3
<1>5. HasCycle(Node, edges)
  BY <1>3, <1>4 DEF HasCycle, Looping
<1>6. CycleTypeOK'
  BY DEF CycleTypeOK, NoTodo
<1>7. SearchInv'
  BY DEF SearchInv, StackIsPath
<1>8. FindsExactlyCycles'
  BY <1>5 DEF FindsExactlyCycles
<1> QED
  BY <1>6, <1>7, <1>8

\* A call that returns false joins the nodes that are done: its children all
\* are, and it is none of them.
LEMMA ReturnStep == IInv /\ ReturnFalse => IInv'
<1> SUFFICES ASSUME IInv, ReturnFalse PROVE IInv'
  OBVIOUS
<1> USE DEF IInv, ReturnFalse
<1> DEFINE k == Len(calls)
<1>1. /\ calls \in Seq(Node) /\ k \in Nat \ {0} /\ Top \in Node
      /\ calls' \in Seq(Node) /\ Len(calls') = k - 1
      /\ \A i \in 1..(k - 1) : calls'[i] = calls[i]
      /\ \A i \in 1..k : calls[i] \in Node
      /\ Top = calls[k]
  BY PopFacts DEF CycleTypeOK, Top, Pop
<1>2. Top \in recStack /\ Top \in visited /\ Top \notin Done
  BY <1>1 DEF SearchInv, StackIsPath, Done
<1>3. Done' = Done \cup {Top}
  BY <1>2 DEF Done
<1>4. \A m \in Node : Children(m)' = Children(m)
  BY DEF Children
<1>5. Children(Top) \subseteq Done
  BY <1>1 DEF SearchInv, Accounted
<1>6. CycleTypeOK'
  BY <1>1 DEF CycleTypeOK, Children
<1>7. StackIsPath'
  <2>1. recStack' = {calls'[i] : i \in 1..Len(calls')}
    <3>1. \A i \in 1..(k - 1) : calls[i] # Top
      BY <1>1 DEF SearchInv, StackIsPath
    <3>2. \A i \in 1..k : i = k \/ i \in 1..(k - 1)
      BY <1>1
    <3> QED
      BY <1>1, <3>1, <3>2 DEF SearchInv, StackIsPath
  <2>2. \A i \in 1..(Len(calls') - 1) : <<calls'[i], calls'[i + 1]>> \in edges'
    BY <1>1 DEF SearchInv, StackIsPath
  <2>3. \A i, j \in 1..Len(calls') : calls'[i] = calls'[j] => i = j
    BY <1>1 DEF SearchInv, StackIsPath
  <2> QED
    BY <2>1, <2>2, <2>3 DEF StackIsPath
<1>8. Accounted'
  <2> SUFFICES ASSUME NEW i \in 1..(k - 1), NEW c \in Children(calls[i])
               PROVE  \/ c \in todo[calls[i]]
                      \/ c \in Done \cup {Top}
                      \/ i < k - 1 /\ c = calls'[i + 1]
    BY <1>1, <1>3, <1>4 DEF Accounted
  <2>1. \/ c \in todo[calls[i]]
        \/ c \in Done
        \/ c = calls[i + 1]
    BY <1>1 DEF SearchInv, Accounted
  <2>2. i < k - 1 => calls'[i + 1] = calls[i + 1]
    BY <1>1
  <2>3. i = k - 1 => calls[i + 1] = Top
    BY <1>1
  <2> QED
    BY <2>1, <2>2, <2>3, <1>1
<1>9. DoneIsClosed'
  BY <1>1, <1>3, <1>4, <1>5 DEF SearchInv, DoneIsClosed, Done, CycleTypeOK
<1>10. DoneHasNoLoop'
  <2> SUFFICES ASSUME NEW S \in SUBSET (Done \cup {Top}), Looping(S, edges)
               PROVE  FALSE
    BY <1>3 DEF DoneHasNoLoop
  <2>1. Top \in S
    <3>1. CASE Top \notin S
      BY <3>1 DEF SearchInv, DoneHasNoLoop
    <3> QED
      BY <3>1
  <2> DEFINE T == S \ {Top}
  <2>2. \A n \in Done : n \in Node
    BY DEF Done, CycleTypeOK
  <2>3. \A n \in S : \E m \in S : m \in Children(n) /\ <<n, m>> \in edges
    BY <1>1, <2>2 DEF Looping, Children
  <2>4. \A n \in S : \E m \in T : <<n, m>> \in edges
    <3> SUFFICES ASSUME NEW n \in S PROVE \E m \in T : <<n, m>> \in edges
      OBVIOUS
    <3>1. PICK m \in S : m \in Children(n) /\ <<n, m>> \in edges
      BY <2>3
    <3>2. Children(n) \subseteq Done
      BY <1>5 DEF SearchInv, DoneIsClosed
    <3>3. m # Top
      BY <3>1, <3>2, <1>2
    <3> QED
      BY <3>1, <3>3
  <2>5. Looping(T, edges)
    BY <2>1, <2>4 DEF Looping
  <2> QED
    BY <2>5 DEF SearchInv, DoneHasNoLoop
<1>11. OnlyCallsTry'
  BY <1>2 DEF OnlyCallsTry, SearchInv
<1>12. SearchInv'
  BY <1>7, <1>8, <1>9, <1>10, <1>11, <1>2 DEF SearchInv, Done
<1> QED
  BY <1>6, <1>12 DEF FindsExactlyCycles

\* A visited child that is off the stack is done, and needs no call.
LEMMA SkipStep ==
    ASSUME IInv, result = "searching", calls # <<>>, NEW c \in todo[Top],
           c \in Done, Skip([todo EXCEPT ![Top] = @ \ {c}]), UNCHANGED edges
    PROVE  IInv'
<1> USE DEF IInv, Skip
<1>1. calls \in Seq(Node) /\ Top \in Node /\ Len(calls) \in Nat
  BY PopFacts DEF CycleTypeOK, Top
<1>2. CycleTypeOK'
  BY <1>1 DEF CycleTypeOK, Children
<1>3. /\ StackIsPath' /\ DoneIsClosed' /\ DoneHasNoLoop' /\ Done' = Done
  BY DEF SearchInv, StackIsPath, DoneIsClosed, DoneHasNoLoop, Done, Children
<1>4. Accounted'
  <2> SUFFICES ASSUME NEW i \in 1..Len(calls), NEW d \in Children(calls[i])
               PROVE  \/ d \in todo'[calls[i]]
                      \/ d \in Done
                      \/ i < Len(calls) /\ d = calls[i + 1]
    BY <1>3 DEF Accounted, Children
  <2>1. calls[i] \in Node
    BY <1>1
  <2>2. \/ d \in todo[calls[i]]
        \/ d \in Done
        \/ i < Len(calls) /\ d = calls[i + 1]
    BY DEF SearchInv, Accounted
  <2>3. d \in todo[calls[i]] => d \in todo'[calls[i]] \/ d = c
    BY <2>1, <1>1 DEF CycleTypeOK
  <2> QED
    BY <2>2, <2>3
<1>5. OnlyCallsTry'
  BY <1>1 DEF OnlyCallsTry, SearchInv, CycleTypeOK
<1>6. SearchInv'
  BY <1>3, <1>4, <1>5 DEF SearchInv
<1> QED
  BY <1>2, <1>6 DEF FindsExactlyCycles

\* Every step of a search, and every growth or change of the graph between two.
LEMMA NextIInv == IInv /\ [Next]_vars => IInv'
<1> SUFFICES ASSUME IInv, [Next]_vars PROVE IInv'
  OBVIOUS
<1>1. ASSUME NEW n \in Node, Root(n) PROVE IInv'
  <2>1. /\ todo \in [Node -> SUBSET Node]
        /\ \A i \in 1..Len(calls) : FALSE
    BY <1>1 DEF Root, IInv, CycleTypeOK
  <2> QED
    BY <1>1, <2>1, EnterStep DEF Root
<1>2. ASSUME NEW c \in Node, TryChild(c) PROVE IInv'
  <2> DEFINE left == [todo EXCEPT ![Top] = @ \ {c}]
  <2>1. /\ result = "searching" /\ calls # <<>> /\ c \in todo[Top] /\ UNCHANGED edges
    BY <1>2 DEF TryChild
  <2>2. /\ calls \in Seq(Node) /\ Top \in Node /\ Len(calls) \in Nat \ {0}
        /\ \A i \in 1..Len(calls) : calls[i] \in Node
        /\ Top = calls[Len(calls)]
        /\ todo \in [Node -> SUBSET Node]
        /\ c \in Children(Top)
    BY <2>1, PopFacts DEF IInv, CycleTypeOK, Top
  <2>3. CASE c \in recStack /\ CycleFound
    BY <2>1, <2>3, FoundStep
  <2>4. CASE c \in visited \ recStack /\ Skip(left)
    BY <2>1, <2>4, SkipStep DEF Done
  <2>5. CASE c \notin visited \cup recStack /\ Enter(c, left)
    <3>1. left \in [Node -> SUBSET Node]
      BY <2>2
    <3>2. \A m \in Node : left[m] \subseteq todo[m]
      BY <2>2
    <3>3. \A i \in 1..Len(calls) : \A d \in todo[calls[i]] \ left[calls[i]] :
              i = Len(calls) /\ d = c
      <4> SUFFICES ASSUME NEW i \in 1..Len(calls),
                          NEW d \in todo[calls[i]] \ left[calls[i]]
                   PROVE  i = Len(calls) /\ d = c
        OBVIOUS
      <4>1. calls[i] = Top /\ d = c
        BY <2>2
      <4>2. i = Len(calls)
        BY <4>1, <2>1, <2>2 DEF IInv, SearchInv, StackIsPath
      <4> QED
        BY <4>1, <4>2
    <3> HIDE DEF left
    <3> QED
      BY <2>1, <2>2, <2>5, <3>1, <3>2, <3>3, EnterStep
  <2> QED
    BY <1>2, <2>3, <2>4, <2>5 DEF TryChild
<1>3. ASSUME ReturnFalse PROVE IInv'
  BY <1>3, ReturnStep
<1>4. ASSUME NoCycle PROVE IInv'
  <2> USE <1>4 DEF NoCycle, IInv
  <2>1. recStack = {} /\ Done = Node
    BY DEF SearchInv, StackIsPath, Done
  <2>2. ~HasCycle(Node, edges)
    BY <2>1 DEF HasCycle, SearchInv, DoneHasNoLoop
  <2>3. todo = NoTodo
    BY <2>1 DEF SearchInv, OnlyCallsTry, CycleTypeOK, NoTodo
  <2>4. CycleTypeOK' /\ SearchInv'
    BY <2>3 DEF CycleTypeOK, SearchInv, StackIsPath, Children
  <2> QED
    BY <2>2, <2>4 DEF FindsExactlyCycles
<1>5. ASSUME detectCycle PROVE IInv'
  <2> USE <1>5 DEF detectCycle, IInv
  <2>1. CycleTypeOK'
    BY DEF CycleTypeOK, Children
  <2>2. calls = <<>> /\ Len(calls) = 0 /\ Done' = {}
    BY DEF SearchInv, Done
  <2>3. StackIsPath' /\ Accounted' /\ DoneIsClosed' /\ DoneHasNoLoop'
    BY <2>2 DEF StackIsPath, Accounted, DoneIsClosed, DoneHasNoLoop, Looping
  <2>4. OnlyCallsTry'
    BY DEF SearchInv, OnlyCallsTry, NoTodo
  <2>5. SearchInv' /\ FindsExactlyCycles'
    BY <2>3, <2>4 DEF SearchInv, FindsExactlyCycles
  <2> QED
    BY <2>1, <2>5
<1>6. ASSUME AnotherDag PROVE IInv'
  <2> USE <1>6 DEF AnotherDag, IInv
  <2>1. calls = <<>> /\ \A n \in Node : todo[n] = {}
    BY DEF SearchInv, NoTodo
  <2>2. CycleTypeOK'
    BY <2>1 DEF CycleTypeOK
  <2>3. SearchInv' /\ FindsExactlyCycles'
    BY DEF SearchInv, StackIsPath, FindsExactlyCycles, NoTodo
  <2> QED
    BY <2>2, <2>3
<1>7. ASSUME NEW from \in Node, NEW to \in Node, AddEdge(from, to) PROVE IInv'
  BY <1>7 DEF AddEdge, IInv, CycleTypeOK, Children, SearchInv, StackIsPath, FindsExactlyCycles
<1>8. CASE UNCHANGED vars
  BY <1>8 DEF vars, IInv, CycleTypeOK, Children, SearchInv, StackIsPath, FindsExactlyCycles,
              Accounted, OnlyCallsTry, DoneIsClosed, DoneHasNoLoop, Done
<1> QED
  BY <1>1, <1>2, <1>3, <1>4, <1>5, <1>6, <1>7, <1>8 DEF Next, Search

\* The variables keep their types: a call only tries children of its node.
THEOREM CycleTypeCorrect == Spec => []CycleTypeOK
<1>1. IInv => CycleTypeOK
  BY DEF IInv
<1> QED
  BY <1>1, InitIInv, NextIInv, PTL DEF Spec

\* detectCycle returns true for a graph with a cycle and false for one without,
\* in whatever order the maps are ranged over, and whatever an earlier search,
\* for this dag or another, has left in the pooled maps.
THEOREM CycleDetectCorrect == Spec => []FindsExactlyCycles
<1>1. IInv => FindsExactlyCycles
  BY DEF IInv
<1> QED
  BY <1>1, InitIInv, NextIInv, PTL DEF Spec

\* The recursion stack is a path without repetition, so the recursion is never
\* deeper than there are nodes.
THEOREM StackIsPathHolds == Spec => []StackIsPath
<1>1. IInv => StackIsPath
  BY DEF IInv, SearchInv
<1> QED
  BY <1>1, InitIInv, NextIInv, PTL DEF Spec

\* The search takes a step at a time towards its end: no node is visited and no
\* edge looked at twice, for any graph and any order of the maps.
THEOREM EachEdgeOnceHolds == Spec => EachEdgeOnce
<1>1. ASSUME IInv, [Next]_vars, result = "searching", result' = "searching", vars' # vars
      PROVE  /\ visited \subseteq visited' /\ Untried' \subseteq Untried
             /\ visited' # visited \/ Untried' # Untried \/ Len(calls') < Len(calls)
  <2> USE <1>1 DEF IInv, CycleTypeOK, SearchInv
  <2>1. ASSUME NEW n \in Node, Root(n)
        PROVE  visited \subseteq visited' /\ Untried' \subseteq Untried /\ visited' # visited
    BY <2>1 DEF Root, Enter, Untried, Children
  <2>2. ASSUME NEW c \in Node, TryChild(c)
        PROVE  visited \subseteq visited' /\ Untried' \subseteq Untried /\ Untried' # Untried
    <3> DEFINE left == [todo EXCEPT ![Top] = @ \ {c}]
    <3>1. calls # <<>> /\ c \in todo[Top] /\ UNCHANGED edges
      BY <2>2 DEF TryChild
    <3>2. Len(calls) \in Nat \ {0} /\ Top \in Node
      BY <3>1, PopFacts DEF Top
    <3>3. Top \in recStack
      BY <3>2 DEF StackIsPath, Top
    <3>4. Top \in visited /\ <<Top, c>> \in Untried
      BY <3>1, <3>2, <3>3 DEF Children, Untried
    <3>5. /\ left \in [Node -> SUBSET Node] /\ c \notin left[Top]
          /\ \A n \in Node : left[n] \subseteq todo[n]
      BY <3>2
    <3>6. CASE Skip(left)
      BY <3>1, <3>2, <3>4, <3>5, <3>6 DEF Skip, Untried
    <3>7. CASE c \notin visited /\ Enter(c, left)
      <4>1. /\ visited' = visited \cup {c} /\ c # Top
            /\ todo'[Top] = left[Top] /\ todo'[c] = Children(c)
            /\ \A n \in Node : n # c => todo'[n] = left[n]
        BY <3>2, <3>4, <3>5, <3>7 DEF Enter
      <4>2. Untried' \subseteq Untried
        BY <3>1, <3>5, <3>7, <4>1 DEF Untried
      <4>3. <<Top, c>> \notin Untried'
        BY <3>1, <3>4, <3>5, <4>1 DEF Untried
      <4> QED
        BY <3>4, <4>1, <4>2, <4>3
    <3>8. Skip(left) \/ (c \notin visited /\ Enter(c, left))
      BY <2>2 DEF TryChild, CycleFound
    <3> QED
      BY <3>6, <3>7, <3>8
  <2>3. CASE ReturnFalse
    <3>1. calls # <<>> /\ calls' = Pop /\ UNCHANGED <<edges, visited, todo>>
      BY <2>3 DEF ReturnFalse
    <3>2. Len(calls') = Len(calls) - 1 /\ Len(calls) \in Nat
      BY <3>1, PopFacts DEF Pop
    <3> QED
      BY <3>1, <3>2 DEF Untried
  <2> QED
    BY <2>1, <2>2, <2>3 DEF Next, Search, NoCycle, detectCycle, AnotherDag, AddEdge
<1>2. IInv /\ [Next]_vars =>
        [result = "searching" /\ result' = "searching" =>
            /\ visited \subseteq visited' /\ Untried' \subseteq Untried
            /\ \/ visited' # visited
               \/ Untried' # Untried
               \/ Len(calls') < Len(calls)]_vars
  BY <1>1
<1> QED
  BY <1>2, InitIInv, NextIInv, PTL DEF Spec, EachEdgeOnce

=============================================================================
