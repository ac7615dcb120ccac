------------------------- MODULE RunnerBindingProofs -------------------------
(***************************************************************************)
(* RunnerBinding proved for any nodes, Runnables, callers and requests:    *)
(* its types, that a node which has begun keeps its override, and that the *)
(* code with its locks implements the atomic registers of RunnerRegister.  *)
(***************************************************************************)
EXTENDS RunnerBinding, TLAPS

\* Who holds n.mu is where it says, and what was seen under it still holds.
LocksHeld ==
    /\ \A t \in Setter, n \in Node :
        nodeLock[n] = t <=> spc[t] \in {"check", "store"} /\ current[t][1] = n
    /\ \A t \in Setter : spc[t] = "store" => status[current[t][1]] = "Pending"

\* A setter has exactly the bindings before it that it has not answered for.
CallsInStep ==
    \A t \in Setter :
        /\ spc[t] \in {"idle", "return"} => todo[t] = {}
        /\ spc[t] = "idle" => applied[t] = {} /\ refused[t] = {}
        /\ spc[t] = "lookup" => \E b \in Binding : todo[t] = {b}
        /\ spc[t] \in {"lock", "check", "store"} /\ t \notin readers => todo[t] = {current[t]}
        /\ spc[t] = "loop" => t \in readers
        /\ t \in readers => spc[t] \in {"loop", "lock", "check", "store"}

\* Status, snapshot and runner of a node go together.
RunnersInStep ==
    \A n \in Node :
        /\ rpc[n] = "queued" => status[n] = "Pending"
        /\ rpc[n] \in {"running", "readDag", "resolve", "execute"} => status[n] = "Running"
        /\ rpc[n] = "done" => status[n] # "Running"
        /\ rpc[n] = "readDag" => slot[n] = Nil
        /\ rpc[n] # "execute" => chosen[n] = Nil
        /\ n \in resetting => rpc[n] = "done"

IInv == CallsTypeOK /\ NodesTypeOK /\ LocksHeld /\ CallsInStep /\ RunnersInStep

\* Finish answers for one binding and leaves the others to be made.
LEMMA FinishTypes ==
  ASSUME CallsTypeOK, NEW t \in Setter, NEW b \in todo[t], NEW where \in {"return", "loop"},
         NEW how \in {"applied", "refused"}, Finish(t, b, where, how), UNCHANGED readers
  PROVE  CallsTypeOK'
  <1> USE DEF CallsTypeOK, Finish
  <1>1. b \in Binding /\ b[1] \in Id
    BY DEF Binding
  <1>2. spc' \in [Setter -> {"idle", "lookup", "rlock", "loop", "lock", "check", "store",
                             "return"}]
    OBVIOUS
  <1>3. todo' \in [Setter -> SUBSET Binding] /\ current' \in [Setter -> Binding \cup {Nil}]
    OBVIOUS
  <1>4. applied' \in [Setter -> SUBSET Id]
    BY <1>1
  <1>5. refused' \in [Setter -> SUBSET Id]
    BY <1>1
  <1>6. ASSUME NEW q \in Setter, spc'[q] \in {"lock", "check", "store"}
        PROVE  current'[q] \in todo'[q] /\ current'[q][1] \in Node
    <2>1. q # t
      BY <1>6
    <2> QED BY <1>6, <2>1
  <1> QED BY <1>2, <1>3, <1>4, <1>5, <1>6

\* SetNodeRunners goes on with what is left, the other calls have nothing left.
LEMMA FinishInStep ==
  ASSUME CallsTypeOK, CallsInStep,
         NEW t \in Setter, NEW b \in todo[t], NEW where \in {"return", "loop"},
         NEW how \in {"applied", "refused"}, Finish(t, b, where, how), UNCHANGED readers,
         where = "loop" <=> t \in readers, where = "return" => todo[t] = {b}
  PROVE  CallsInStep'
  <1>1. spc'[t] = where /\ todo'[t] = todo[t] \ {b}
    BY DEF CallsTypeOK, Finish
  <1>2. \A q \in Setter \ {t} :
           /\ spc'[q] = spc[q] /\ todo'[q] = todo[q] /\ current'[q] = current[q]
           /\ applied'[q] = applied[q] /\ refused'[q] = refused[q]
    BY DEF CallsTypeOK, Finish
  <1> QED BY <1>1, <1>2 DEF CallsTypeOK, CallsInStep

\* The locks and the calls in progress are in step at first.
LEMMA InitInv == Init => IInv
  BY BindingAssumption
  DEF Init, IInv, CallsTypeOK, NodesTypeOK, LocksHeld, CallsInStep, RunnersInStep

\* Every step of a setter, a runner or Reset keeps them so.
LEMMA InvStep == IInv /\ [Next]_vars => IInv'
  <1> SUFFICES ASSUME IInv, [Next]_vars PROVE IInv'
    OBVIOUS
  <1> USE BindingAssumption DEF IInv, setterVars, runnerVars, dagVars
  <1>1. ASSUME NEW t \in Setter, NEW n \in Node, NEW r \in Runner \cup {Nil},
               SetRunner(t, n, r)
        PROVE  IInv'
    <2> USE <1>1 DEF SetRunner, Calls
    <2>b. <<n, r>> \in Binding
      BY DEF Binding
    <2>1. CallsTypeOK'
      BY <2>b DEF CallsTypeOK
    <2>2. NodesTypeOK'
      BY DEF NodesTypeOK
    <2>3. LocksHeld'
      BY DEF CallsTypeOK, NodesTypeOK, LocksHeld
    <2>4. CallsInStep'
      BY DEF CallsTypeOK, CallsInStep
    <2>5. RunnersInStep'
      BY DEF NodesTypeOK, RunnersInStep
    <2> QED BY <2>1, <2>2, <2>3, <2>4, <2>5
  <1>2. ASSUME NEW t \in Setter, NEW id \in Id, NEW r \in Runner \cup {Nil},
               SetNodeRunner(t, id, r)
        PROVE  IInv'
    <2> USE <1>2 DEF SetNodeRunner, Calls
    <2>b. <<id, r>> \in Binding
      BY DEF Binding
    <2>1. CallsTypeOK'
      BY <2>b DEF CallsTypeOK
    <2>2. NodesTypeOK'
      BY DEF NodesTypeOK
    <2>3. LocksHeld'
      BY DEF CallsTypeOK, NodesTypeOK, LocksHeld
    <2>4. CallsInStep'
      <3>1. spc'[t] = "lookup" /\ todo'[t] = {<<id, r>>} /\ t \notin readers
        BY DEF CallsTypeOK, CallsInStep
      <3>2. \A q \in Setter \ {t} : spc'[q] = spc[q] /\ todo'[q] = todo[q] /\ current'[q] = current[q]
        BY DEF CallsTypeOK
      <3> QED BY <2>b, <3>1, <3>2 DEF CallsTypeOK, CallsInStep
    <2>5. RunnersInStep'
      BY DEF NodesTypeOK, RunnersInStep
    <2> QED BY <2>1, <2>2, <2>3, <2>4, <2>5
  <1>3. ASSUME NEW t \in Setter, NEW request \in BulkRequest,
               SetNodeRunners(t, request)
        PROVE  IInv'
    <2> USE <1>3 DEF SetNodeRunners, Calls
    <2>b. request \in SUBSET Binding
      BY DEF Binding
    <2>1. CallsTypeOK'
      BY <2>b DEF CallsTypeOK
    <2>2. NodesTypeOK'
      BY DEF NodesTypeOK
    <2>3. LocksHeld'
      BY DEF CallsTypeOK, NodesTypeOK, LocksHeld
    <2>4. CallsInStep'
      BY DEF CallsTypeOK, CallsInStep
    <2>5. RunnersInStep'
      BY DEF NodesTypeOK, RunnersInStep
    <2> QED BY <2>1, <2>2, <2>3, <2>4, <2>5
  <1>4. ASSUME NEW t \in Setter, Lookup(t)
        PROVE  IInv'
    <2> USE <1>4 DEF Lookup
    <2>a. PICK b \in todo[t] :
            IF b[1] \in Node
            THEN /\ spc' = [spc EXCEPT ![t] = "lock"]
                 /\ current' = [current EXCEPT ![t] = b]
                 /\ UNCHANGED <<todo, applied, refused>>
            ELSE Finish(t, b, "return", "refused")
      OBVIOUS
    <2>b. b \in Binding
      BY DEF CallsTypeOK
    <2>c. todo[t] = {b} /\ t \notin readers
      BY DEF CallsTypeOK, CallsInStep
    <2>1. CallsTypeOK' /\ CallsInStep'
      <3>1. CASE b[1] \in Node
        <4>1. spc' = [spc EXCEPT ![t] = "lock"] /\ current' = [current EXCEPT ![t] = b]
              /\ UNCHANGED <<todo, applied, refused, readers>>
          BY <2>a, <3>1
        <4>2. CallsTypeOK'
          BY <2>b, <3>1, <4>1 DEF CallsTypeOK
        <4>3. CallsInStep'
          BY <2>c, <4>1 DEF CallsTypeOK, CallsInStep
        <4> QED BY <4>2, <4>3
      <3>2. CASE ~(b[1] \in Node)
        <4>1. Finish(t, b, "return", "refused") /\ UNCHANGED readers
          BY <2>a, <3>2
        <4> QED BY <2>c, <4>1, FinishTypes, FinishInStep
      <3> QED BY <3>1, <3>2
    <2>2. NodesTypeOK' /\ RunnersInStep'
      BY DEF NodesTypeOK, RunnersInStep
    <2>3. LocksHeld'
      <3>1. spc[t] \notin {"check", "store"} /\ spc'[t] \notin {"check", "store"}
        BY <2>a DEF CallsTypeOK, Finish
      <3>2. \A q \in Setter \ {t} : spc'[q] = spc[q] /\ current'[q] = current[q]
        BY <2>a DEF CallsTypeOK, Finish
      <3> QED BY <3>1, <3>2 DEF LocksHeld
    <2> QED BY <2>1, <2>2, <2>3
  <1>5. ASSUME NEW t \in Setter, RLock(t)
        PROVE  IInv'
    <2> USE <1>5 DEF RLock
    <2>1. CallsTypeOK'
      BY DEF CallsTypeOK
    <2>2. NodesTypeOK'
      BY DEF NodesTypeOK
    <2>3. LocksHeld'
      BY DEF CallsTypeOK, NodesTypeOK, LocksHeld
    <2>4. CallsInStep'
      BY DEF CallsTypeOK, CallsInStep
    <2>5. RunnersInStep'
      BY DEF NodesTypeOK, RunnersInStep
    <2> QED BY <2>1, <2>2, <2>3, <2>4, <2>5
  <1>6. ASSUME NEW t \in Setter, Loop(t)
        PROVE  IInv'
    <2> USE <1>6 DEF Loop
    <2>a. PICK b \in todo[t] :
            IF b[1] \in Node \ Special
            THEN /\ spc' = [spc EXCEPT ![t] = "lock"]
                 /\ current' = [current EXCEPT ![t] = b]
                 /\ UNCHANGED <<todo, applied, refused>>
            ELSE Finish(t, b, "loop", "refused")
      OBVIOUS
    <2>b. b \in Binding
      BY DEF CallsTypeOK
    <2>c. t \in readers
      BY DEF CallsTypeOK, CallsInStep
    <2>1. CallsTypeOK' /\ CallsInStep'
      <3>1. CASE b[1] \in Node \ Special
        <4>1. spc' = [spc EXCEPT ![t] = "lock"] /\ current' = [current EXCEPT ![t] = b]
              /\ UNCHANGED <<todo, applied, refused, readers>>
          BY <2>a, <3>1
        <4>2. CallsTypeOK'
          BY <2>b, <3>1, <4>1 DEF CallsTypeOK
        <4>3. CallsInStep'
          BY <2>c, <4>1 DEF CallsTypeOK, CallsInStep
        <4> QED BY <4>2, <4>3
      <3>2. CASE ~(b[1] \in Node \ Special)
        <4>1. Finish(t, b, "loop", "refused") /\ UNCHANGED readers
          BY <2>a, <3>2
        <4> QED BY <2>c, <4>1, FinishTypes, FinishInStep
      <3> QED BY <3>1, <3>2
    <2>2. NodesTypeOK' /\ RunnersInStep'
      BY DEF NodesTypeOK, RunnersInStep
    <2>3. LocksHeld'
      <3>1. spc[t] \notin {"check", "store"} /\ spc'[t] \notin {"check", "store"}
        BY <2>a DEF CallsTypeOK, Finish
      <3>2. \A q \in Setter \ {t} : spc'[q] = spc[q] /\ current'[q] = current[q]
        BY <2>a DEF CallsTypeOK, Finish
      <3> QED BY <3>1, <3>2 DEF LocksHeld
    <2> QED BY <2>1, <2>2, <2>3
  <1>7. ASSUME NEW t \in Setter, RUnlock(t)
        PROVE  IInv'
    <2> USE <1>7 DEF RUnlock
    <2>1. CallsTypeOK'
      BY DEF CallsTypeOK
    <2>2. NodesTypeOK'
      BY DEF NodesTypeOK
    <2>3. LocksHeld'
      BY DEF CallsTypeOK, NodesTypeOK, LocksHeld
    <2>4. CallsInStep'
      BY DEF CallsTypeOK, CallsInStep
    <2>5. RunnersInStep'
      BY DEF NodesTypeOK, RunnersInStep
    <2> QED BY <2>1, <2>2, <2>3, <2>4, <2>5
  <1>8. ASSUME NEW t \in Setter, LockNode(t)
        PROVE  IInv'
    <2> USE <1>8 DEF LockNode
    <2>1. CallsTypeOK'
      BY DEF CallsTypeOK
    <2>2. NodesTypeOK'
      BY DEF NodesTypeOK
    <2>3. LocksHeld'
      BY DEF CallsTypeOK, NodesTypeOK, LocksHeld
    <2>4. CallsInStep'
      BY DEF CallsTypeOK, CallsInStep
    <2>5. RunnersInStep'
      BY DEF NodesTypeOK, RunnersInStep
    <2> QED BY <2>1, <2>2, <2>3, <2>4, <2>5
  <1>9. ASSUME NEW t \in Setter, CheckStatus(t)
        PROVE  IInv'
    <2> USE <1>9 DEF CheckStatus
    <2> DEFINE n == current[t][1]
    <2>a. spc[t] = "check" /\ n \in Node /\ current[t] \in todo[t]
          /\ (t \notin readers => todo[t] = {current[t]})
      BY DEF CallsTypeOK, CallsInStep
    <2>c. CASE status[n] = "Pending"
      <3> USE <2>a, <2>c
      <3>1. CallsTypeOK'
        BY DEF CallsTypeOK
      <3>2. NodesTypeOK'
        BY DEF NodesTypeOK
      <3>3. LocksHeld'
        BY DEF CallsTypeOK, NodesTypeOK, LocksHeld
      <3>4. CallsInStep'
        BY DEF CallsTypeOK, CallsInStep
      <3>5. RunnersInStep'
        BY DEF NodesTypeOK, RunnersInStep
      <3> QED BY <3>1, <3>2, <3>3, <3>4, <3>5
    <2>d. CASE status[n] # "Pending"
      <3>a. Finish(t, current[t], AfterNode(t), "refused") /\ UNCHANGED readers
            /\ nodeLock' = [nodeLock EXCEPT ![n] = Nobody]
        BY <2>d
      <3>1. CallsTypeOK' /\ CallsInStep'
        BY <2>a, <3>a, FinishTypes, FinishInStep DEF AfterNode
      <3>2. NodesTypeOK' /\ RunnersInStep'
        BY <2>a, <2>d DEF NodesTypeOK, RunnersInStep
      <3>3. LocksHeld'
        BY <2>a, <3>a DEF CallsTypeOK, NodesTypeOK, LocksHeld, Finish, AfterNode
      <3> QED BY <3>1, <3>2, <3>3
    <2> QED BY <2>c, <2>d
  <1>10. ASSUME NEW t \in Setter, runnerStore(t)
         PROVE  IInv'
    <2> USE <1>10 DEF runnerStore
    <2> DEFINE n == current[t][1]
    <2>a. spc[t] = "store" /\ n \in Node /\ current[t] \in todo[t]
          /\ (t \notin readers => todo[t] = {current[t]})
      BY DEF CallsTypeOK, CallsInStep
    <2>b. current[t][2] \in Runner \cup {Nil} /\ status[n] = "Pending" /\ nodeLock[n] = t
      BY <2>a DEF CallsTypeOK, LocksHeld, Binding
    <2>c. Finish(t, current[t], AfterNode(t), "applied") /\ UNCHANGED readers
          /\ nodeLock' = [nodeLock EXCEPT ![n] = Nobody]
          /\ slot' = [slot EXCEPT ![n] = current[t][2]]
      OBVIOUS
    <2>1. CallsTypeOK' /\ CallsInStep'
      BY <2>a, <2>c, FinishTypes, FinishInStep DEF AfterNode
    <2>2. NodesTypeOK'
      BY <2>a, <2>b, <2>c DEF NodesTypeOK
    <2>3. RunnersInStep'
      BY <2>a, <2>b, <2>c DEF NodesTypeOK, RunnersInStep
    <2>4. LocksHeld'
      BY <2>a, <2>b, <2>c DEF CallsTypeOK, NodesTypeOK, LocksHeld, Finish, AfterNode
    <2> QED BY <2>1, <2>2, <2>3, <2>4
  <1>11. ASSUME NEW t \in Setter, Return(t)
         PROVE  IInv'
    <2> USE <1>11 DEF Return
    <2>1. CallsTypeOK'
      BY DEF CallsTypeOK
    <2>2. NodesTypeOK'
      BY DEF NodesTypeOK
    <2>3. LocksHeld'
      BY DEF CallsTypeOK, NodesTypeOK, LocksHeld
    <2>4. CallsInStep'
      BY DEF CallsTypeOK, CallsInStep
    <2>5. RunnersInStep'
      BY DEF NodesTypeOK, RunnersInStep
    <2> QED BY <2>1, <2>2, <2>3, <2>4, <2>5
  <1>12. ASSUME NEW r \in Runner \cup {Nil}, SetContainerCmd(r)
         PROVE  IInv'
    <2> USE <1>12 DEF SetContainerCmd
    <2>1. CallsTypeOK'
      BY DEF CallsTypeOK
    <2>2. NodesTypeOK'
      BY DEF NodesTypeOK
    <2>3. LocksHeld'
      BY DEF CallsTypeOK, NodesTypeOK, LocksHeld
    <2>4. CallsInStep'
      BY DEF CallsTypeOK, CallsInStep
    <2>5. RunnersInStep'
      BY DEF NodesTypeOK, RunnersInStep
    <2> QED BY <2>1, <2>2, <2>3, <2>4, <2>5
  <1>13. ASSUME NEW rr \in Resolver \cup {Nil}, SetRunnerResolver(rr)
         PROVE  IInv'
    <2> USE <1>13 DEF SetRunnerResolver
    <2>1. CallsTypeOK'
      BY DEF CallsTypeOK
    <2>2. NodesTypeOK'
      BY DEF NodesTypeOK
    <2>3. LocksHeld'
      BY DEF CallsTypeOK, NodesTypeOK, LocksHeld
    <2>4. CallsInStep'
      BY DEF CallsTypeOK, CallsInStep
    <2>5. RunnersInStep'
      BY DEF NodesTypeOK, RunnersInStep
    <2> QED BY <2>1, <2>2, <2>3, <2>4, <2>5
  <1>14. ASSUME NEW n \in Node, DropTask(n)
         PROVE  IInv'
    <2> USE <1>14 DEF DropTask
    <2>1. CallsTypeOK'
      BY DEF CallsTypeOK
    <2>2. NodesTypeOK'
      BY DEF NodesTypeOK
    <2>3. LocksHeld'
      BY DEF CallsTypeOK, NodesTypeOK, LocksHeld
    <2>4. CallsInStep'
      BY DEF CallsTypeOK, CallsInStep
    <2>5. RunnersInStep'
      BY DEF NodesTypeOK, RunnersInStep
    <2> QED BY <2>1, <2>2, <2>3, <2>4, <2>5
  <1>15. ASSUME NEW n \in Node, Skip(n)
         PROVE  IInv'
    <2> USE <1>15 DEF Skip, Transition
    <2>1. CallsTypeOK'
      BY DEF CallsTypeOK
    <2>2. NodesTypeOK'
      BY DEF NodesTypeOK
    <2>3. LocksHeld'
      BY DEF CallsTypeOK, NodesTypeOK, LocksHeld
    <2>4. CallsInStep'
      BY DEF CallsTypeOK, CallsInStep
    <2>5. RunnersInStep'
      BY DEF NodesTypeOK, RunnersInStep
    <2> QED BY <2>1, <2>2, <2>3, <2>4, <2>5
  <1>16. ASSUME NEW n \in Node, BeginRunning(n)
         PROVE  IInv'
    <2> USE <1>16 DEF BeginRunning, Transition
    <2>1. CallsTypeOK'
      BY DEF CallsTypeOK
    <2>2. NodesTypeOK'
      BY DEF NodesTypeOK
    <2>3. LocksHeld'
      BY DEF CallsTypeOK, NodesTypeOK, LocksHeld
    <2>4. CallsInStep'
      BY DEF CallsTypeOK, CallsInStep
    <2>5. RunnersInStep'
      BY DEF NodesTypeOK, RunnersInStep
    <2> QED BY <2>1, <2>2, <2>3, <2>4, <2>5
  <1>17. ASSUME NEW n \in Node, FinishUnrun(n)
         PROVE  IInv'
    <2> USE <1>17 DEF FinishUnrun, Transition
    <2>1. CallsTypeOK'
      BY DEF CallsTypeOK
    <2>2. NodesTypeOK'
      BY DEF NodesTypeOK
    <2>3. LocksHeld'
      BY DEF CallsTypeOK, NodesTypeOK, LocksHeld
    <2>4. CallsInStep'
      BY DEF CallsTypeOK, CallsInStep
    <2>5. RunnersInStep'
      BY DEF NodesTypeOK, RunnersInStep
    <2> QED BY <2>1, <2>2, <2>3, <2>4, <2>5
  <1>18. ASSUME NEW n \in Node, runnerLoad(n)
         PROVE  IInv'
    <2> USE <1>18 DEF runnerLoad
    <2>1. CallsTypeOK'
      BY DEF CallsTypeOK
    <2>2. NodesTypeOK'
      BY DEF NodesTypeOK
    <2>3. LocksHeld'
      BY DEF CallsTypeOK, NodesTypeOK, LocksHeld
    <2>4. CallsInStep'
      BY DEF CallsTypeOK, CallsInStep
    <2>5. RunnersInStep'
      BY DEF NodesTypeOK, RunnersInStep
    <2> QED BY <2>1, <2>2, <2>3, <2>4, <2>5
  <1>19. ASSUME NEW n \in Node, ReadDag(n)
         PROVE  IInv'
    <2> USE <1>19 DEF ReadDag
    <2>1. CallsTypeOK'
      BY DEF CallsTypeOK
    <2>2. NodesTypeOK'
      BY DEF NodesTypeOK
    <2>3. LocksHeld'
      BY DEF CallsTypeOK, NodesTypeOK, LocksHeld
    <2>4. CallsInStep'
      BY DEF CallsTypeOK, CallsInStep
    <2>5. RunnersInStep'
      BY DEF NodesTypeOK, RunnersInStep
    <2> QED BY <2>1, <2>2, <2>3, <2>4, <2>5
  <1>20. ASSUME NEW n \in Node, Resolve(n)
         PROVE  IInv'
    <2> USE <1>20 DEF Resolve
    <2>1. CallsTypeOK'
      BY DEF CallsTypeOK
    <2>2. NodesTypeOK'
      <3> DEFINE v == Resolved(n, local[n][1], local[n][2])
      <3>1. local[n][1] \in Resolver \cup {Nil} /\ local[n][2] \in Runner \cup {Nil}
        BY DEF NodesTypeOK
      <3>2. local[n][1] # Nil => local[n][1][n] \in Runner \cup {Nil}
        BY <3>1
      <3>3. v \in Runner \cup {Nil}
        BY <3>1, <3>2 DEF Resolved
      <3>4. chosen' = [chosen EXCEPT ![n] = v]
        OBVIOUS
      <3> HIDE DEF v
      <3>5. chosen' \in [Node -> Runner \cup {Nil}]
        BY <3>3, <3>4 DEF NodesTypeOK
      <3>6. <<Nil, Nil>> \in (Resolver \cup {Nil}) \X (Runner \cup {Nil})
        OBVIOUS
      <3> QED BY <3>5, <3>6 DEF NodesTypeOK
    <2>3. LocksHeld'
      BY DEF CallsTypeOK, NodesTypeOK, LocksHeld
    <2>4. CallsInStep'
      BY DEF CallsTypeOK, CallsInStep
    <2>5. RunnersInStep'
      BY DEF NodesTypeOK, RunnersInStep
    <2> QED BY <2>1, <2>2, <2>3, <2>4, <2>5
  <1>21. ASSUME NEW n \in Node, FinishRun(n)
         PROVE  IInv'
    <2> USE <1>21 DEF FinishRun, Transition
    <2>1. CallsTypeOK'
      BY DEF CallsTypeOK
    <2>2. NodesTypeOK'
      BY DEF NodesTypeOK
    <2>3. LocksHeld'
      BY DEF CallsTypeOK, NodesTypeOK, LocksHeld
    <2>4. CallsInStep'
      BY DEF CallsTypeOK, CallsInStep
    <2>5. RunnersInStep'
      BY DEF NodesTypeOK, RunnersInStep
    <2> QED BY <2>1, <2>2, <2>3, <2>4, <2>5
  <1>22. ASSUME ResetLocks
         PROVE  IInv'
    <2> USE <1>22 DEF ResetLocks
    <2>1. CallsTypeOK'
      BY DEF CallsTypeOK
    <2>2. NodesTypeOK'
      BY DEF NodesTypeOK
    <2>3. LocksHeld'
      BY DEF CallsTypeOK, NodesTypeOK, LocksHeld
    <2>4. CallsInStep'
      BY DEF CallsTypeOK, CallsInStep
    <2>5. RunnersInStep'
      BY DEF NodesTypeOK, RunnersInStep
    <2> QED BY <2>1, <2>2, <2>3, <2>4, <2>5
  <1>23. ASSUME NEW n \in Node, ResetNode(n)
         PROVE  IInv'
    <2> USE <1>23 DEF ResetNode
    <2>1. CallsTypeOK'
      BY DEF CallsTypeOK
    <2>2. NodesTypeOK'
      BY DEF NodesTypeOK
    <2>3. LocksHeld'
      BY DEF CallsTypeOK, NodesTypeOK, LocksHeld
    <2>4. CallsInStep'
      BY DEF CallsTypeOK, CallsInStep
    <2>5. RunnersInStep'
      BY DEF NodesTypeOK, RunnersInStep
    <2> QED BY <2>1, <2>2, <2>3, <2>4, <2>5
  <1>24. CASE UNCHANGED vars
    BY <1>24 DEF vars, CallsTypeOK, NodesTypeOK, LocksHeld, CallsInStep, RunnersInStep
  <1> QED BY <1>1, <1>2, <1>3, <1>4, <1>5, <1>6, <1>7, <1>8, <1>9, <1>10, <1>11, <1>12,
             <1>13, <1>14, <1>15, <1>16, <1>17, <1>18, <1>19, <1>20, <1>21, <1>22, <1>23, <1>24
          DEF Next, Set, GoesOn, SetDag, Run, Snapshot, Reset

\* IInv, and so all that it says, holds in every reachable state.
LEMMA InvHolds == Spec => []IInv
  BY InitInv, InvStep, PTL DEF Spec

\* The types of the state variables.
THEOREM TypeCorrect == Spec => []BindingTypeOK
  <1>1. IInv => BindingTypeOK
    BY DEF IInv, BindingTypeOK
  <1> QED BY InvHolds, <1>1, PTL

\* No caller changes the override of a node that has left Pending, however its
\* look at the status and its store fall between the steps of the worker: the
\* only writer of runnerVal holds n.mu and has seen Pending under it.
THEOREM OverrideFrozen == Spec => FrozenOnceBegun
  <1>1. ASSUME IInv, Next
        PROVE  \A n \in Node : status[n] # "Pending" => slot'[n] = slot[n]
    <2> USE DEF setterVars, runnerVars, dagVars
    <2>1. ASSUME NEW t \in Setter, runnerStore(t)
          PROVE  \A n \in Node : status[n] # "Pending" => slot'[n] = slot[n]
      BY <1>1, <2>1 DEF IInv, LocksHeld, NodesTypeOK, runnerStore
    <2>2. CASE ~ \E t \in Setter : runnerStore(t)
      <3>1. UNCHANGED slot
        BY <1>1, <2>2 DEF Next, Set, SetRunner, SetNodeRunner, SetNodeRunners, GoesOn, Lookup,
           RLock, Loop, RUnlock, LockNode, CheckStatus, Return, SetDag, SetContainerCmd,
           SetRunnerResolver, Run, DropTask, Skip, BeginRunning, FinishUnrun, Snapshot,
           runnerLoad, ReadDag, Resolve, FinishRun, Reset, ResetLocks, ResetNode
      <3> QED BY <3>1
    <2> QED BY <2>1, <2>2
  <1>2. ASSUME IInv, [Next]_vars
        PROVE  [\A n \in Node : status[n] # "Pending" => slot'[n] = slot[n]]_vars
    BY <1>1, <1>2
  <1> QED BY InvHolds, <1>2, PTL DEF Spec, FrozenOnceBegun

\* Reset holds dag.mu alone.
ResetAlone == resetting # {} => readers = {}

\* Nobody begins to read while Reset is at work, nor Reset while somebody reads.
LEMMA ResetAloneStep == IInv /\ ResetAlone /\ [Next]_vars => ResetAlone'
  <1> SUFFICES ASSUME IInv, ResetAlone, [Next]_vars PROVE ResetAlone'
    OBVIOUS
  <1> USE DEF ResetAlone, setterVars, runnerVars, dagVars
  <1>1. ASSUME NEW t \in Setter, RLock(t) \/ RUnlock(t) PROVE ResetAlone'
    BY <1>1 DEF RLock, RUnlock, CanRLock
  <1>2. CASE Reset
    BY <1>2 DEF Reset, ResetLocks, ResetNode, CanLock
  <1>3. CASE UNCHANGED <<resetting, readers>>
    BY <1>3
  <1>4. \/ UNCHANGED <<resetting, readers>>
        \/ \E t \in Setter : RLock(t) \/ RUnlock(t)
        \/ Reset
    BY DEF Next, Set, SetRunner, SetNodeRunner, SetNodeRunners, GoesOn, Lookup, Loop, LockNode,
       CheckStatus, runnerStore, Return, SetDag, SetContainerCmd, SetRunnerResolver, Run,
       DropTask, Skip, BeginRunning, FinishUnrun, Snapshot, runnerLoad, ReadDag, Resolve,
       FinishRun, Finish, Calls, vars
  <1> QED BY <1>1, <1>2, <1>3, <1>4

\* Callers, workers and Reset never wait for one another in a circle: n.mu is
\* the last lock anybody takes, and whoever has it is about to give it back.
THEOREM NoCircularWaitHolds == Spec => []NoCircularWait
  <1>1. IInv /\ ResetAlone => NoCircularWait
    <2> SUFFICES ASSUME IInv, ResetAlone PROVE NoCircularWait
      OBVIOUS
    <2>1. ASSUME NEW n \in Node, nodeLock[n] # Nobody
          PROVE  nodeLock[n] \in Setter /\ CanGoOn(nodeLock[n])
      BY <2>1 DEF IInv, NodesTypeOK, LocksHeld, CanGoOn
    <2>2. ASSUME NEW t \in Setter, spc[t] = "lock", ~CanGoOn(t)
          PROVE  CanGoOn(nodeLock[current[t][1]])
      BY <2>1, <2>2 DEF IInv, CallsTypeOK, CanGoOn
    <2>3. ASSUME NEW t \in Setter, spc[t] \notin {"idle", "lock"}, ~CanGoOn(t)
          PROVE  resetting # {} /\ t \notin readers /\ \A n \in Node : nodeLock[n] # t
      <3>1. spc[t] \in {"lookup", "rlock"}
        BY <2>3 DEF IInv, CallsTypeOK, CanGoOn
      <3> QED BY <2>3, <3>1 DEF IInv, CallsInStep, LocksHeld, CanGoOn, CanRLock
    <2>4. \A n \in resetting : n \in Node
      BY DEF IInv, NodesTypeOK
    <2> QED BY <2>1, <2>2, <2>3, <2>4 DEF NoCircularWait, ResetAlone
  <1>2. Init => ResetAlone
    BY DEF Init, ResetAlone
  <1> QED BY InvHolds, ResetAloneStep, <1>1, <1>2, PTL DEF Spec

(***************************************************************************)
(* The refinement.                                                         *)
(***************************************************************************)

registerNow == <<slot, FallbackNow, PhaseNow, UsedNow, todo, applied, refused>>

\* What a node falls back on is a Runnable or nothing.
LEMMA FallbackType == NodesTypeOK => FallbackNow \in [Node -> Runner \cup {Nil}]
  <1> SUFFICES ASSUME NodesTypeOK, NEW n \in Node
               PROVE  Resolved(n, resolver, base) \in Runner \cup {Nil}
    BY DEF FallbackNow
  <1>1. resolver # Nil => resolver[n] \in Runner \cup {Nil}
    BY BindingAssumption DEF NodesTypeOK
  <1> QED BY <1>1 DEF Resolved, NodesTypeOK

\* A fresh dag is a set of open registers.
LEMMA RefineInit == Init => Register!Init
  <1> SUFFICES ASSUME Init PROVE Register!Init
    OBVIOUS
  <1>1. FallbackNow \in [Node -> Runner \cup {Nil}]
    BY InitInv, FallbackType DEF IInv
  <1>2. PhaseNow = [n \in Node |-> "open"]
    BY DEF Init, PhaseNow, Phase
  <1>3. UsedNow = [n \in Node |-> Nil]
    BY DEF Init, UsedNow
  <1> QED BY <1>1, <1>2, <1>3 DEF Init, Register!Init

\* A step that leaves alone what the nodes and the dag look like to a caller.
LEMMA SameNodes ==
  ASSUME UNCHANGED <<status, slot, base, resolver, rpc, local, chosen>>
  PROVE  UNCHANGED <<slot, FallbackNow, PhaseNow, UsedNow>>
  BY DEF FallbackNow, PhaseNow, Phase, UsedNow, Resolved

\* A caller's refusal is one of the register: the id names no node, or the
\* start or end node, or a node that is no longer open.
LEMMA RefineRefuse ==
  ASSUME CallsTypeOK, NEW t \in Setter, NEW b \in todo[t], NEW where,
         Finish(t, b, where, "refused"), b[1] \in Node \ Special => status[b[1]] # "Pending",
         UNCHANGED <<status, slot, base, resolver, rpc, local, chosen>>
  PROVE  Register!Next
  <1>1. PICK id \in Id, r \in Runner \cup {Nil} : b = <<id, r>>
    BY DEF CallsTypeOK, Binding
  <1>2. id \in Node \ Special => PhaseNow[id] # "open"
    BY <1>1 DEF PhaseNow, Phase
  <1>3. Register!Refuse(t, id, r)
    BY <1>1, <1>2, SameNodes DEF Finish, CallsTypeOK, Register!Refuse
  <1> QED BY <1>3 DEF Register!Next

\* Each step of the code is one of the registers', or none.
LEMMA RefineStep == IInv /\ IInv' /\ [Next]_vars => [Register!Next]_registerNow
  <1> SUFFICES ASSUME IInv, IInv', [Next]_vars
               PROVE  Register!Next \/ UNCHANGED registerNow
    OBVIOUS
  <1> USE DEF setterVars, runnerVars, dagVars
  <1>1. ASSUME NEW t \in Setter, NEW request \in SUBSET Binding, NEW where,
               Calls(t, request, where),
               UNCHANGED <<status, slot, base, resolver, rpc, local, chosen>>
        PROVE  Register!Next
    <2>1. todo[t] = {} /\ applied[t] = {} /\ refused[t] = {}
      BY <1>1 DEF IInv, CallsInStep, Calls
    <2>2. Register!Ask(t, request)
      BY <1>1, <2>1, SameNodes DEF Calls, Register!Ask
    <2> QED BY <2>2 DEF Register!Next, Binding
  <1>2. ASSUME NEW t \in Setter, Set(t) PROVE Register!Next
    <2>1. ASSUME NEW n \in Node, NEW r \in Runner \cup {Nil}, SetRunner(t, n, r)
          PROVE  Register!Next
      <3>1. {<<n, r>>} \in SUBSET Binding
        BY BindingAssumption DEF Binding
      <3> QED BY <1>1, <2>1, <3>1 DEF SetRunner
    <2>2. ASSUME NEW id \in Id, NEW r \in Runner \cup {Nil}, SetNodeRunner(t, id, r)
          PROVE  Register!Next
      <3>1. {<<id, r>>} \in SUBSET Binding
        BY DEF Binding
      <3> QED BY <1>1, <2>2, <3>1 DEF SetNodeRunner
    <2>3. ASSUME NEW request \in BulkRequest, SetNodeRunners(t, request)
          PROVE  Register!Next
      <3>1. request \in SUBSET Binding
        BY BindingAssumption DEF Binding
      <3> QED BY <1>1, <2>3, <3>1 DEF SetNodeRunners
    <2> QED BY <1>2, <2>1, <2>2, <2>3 DEF Set
  <1>3. ASSUME NEW t \in Setter, Lookup(t) PROVE Register!Next \/ UNCHANGED registerNow
    <2>1. PICK b \in todo[t] :
            IF b[1] \in Node
            THEN /\ spc' = [spc EXCEPT ![t] = "lock"]
                 /\ current' = [current EXCEPT ![t] = b]
                 /\ UNCHANGED <<todo, applied, refused>>
            ELSE Finish(t, b, "return", "refused")
      BY <1>3 DEF Lookup
    <2>2. UNCHANGED <<status, slot, base, resolver, rpc, local, chosen>>
      BY <1>3 DEF Lookup
    <2>3. CASE b[1] \in Node
      BY <2>1, <2>2, <2>3, SameNodes DEF registerNow
    <2>4. CASE b[1] \notin Node
      BY <2>1, <2>2, <2>4, RefineRefuse DEF IInv
    <2> QED BY <2>3, <2>4
  <1>4. ASSUME NEW t \in Setter, Loop(t) PROVE Register!Next \/ UNCHANGED registerNow
    <2>1. PICK b \in todo[t] :
            IF b[1] \in Node \ Special
            THEN /\ spc' = [spc EXCEPT ![t] = "lock"]
                 /\ current' = [current EXCEPT ![t] = b]
                 /\ UNCHANGED <<todo, applied, refused>>
            ELSE Finish(t, b, "loop", "refused")
      BY <1>4 DEF Loop
    <2>2. UNCHANGED <<status, slot, base, resolver, rpc, local, chosen>>
      BY <1>4 DEF Loop
    <2>3. CASE b[1] \in Node \ Special
      BY <2>1, <2>2, <2>3, SameNodes DEF registerNow
    <2>4. CASE b[1] \notin Node \ Special
      BY <2>1, <2>2, <2>4, RefineRefuse DEF IInv
    <2> QED BY <2>3, <2>4
  <1>5. ASSUME NEW t \in Setter, RLock(t) \/ RUnlock(t) \/ LockNode(t)
        PROVE  UNCHANGED registerNow
    BY <1>5, SameNodes DEF RLock, RUnlock, LockNode, registerNow
  <1>6. ASSUME NEW t \in Setter, CheckStatus(t) PROVE Register!Next \/ UNCHANGED registerNow
    <2>1. UNCHANGED <<status, slot, base, resolver, rpc, local, chosen>>
      BY <1>6 DEF CheckStatus
    <2>2. current[t] \in todo[t]
      BY <1>6 DEF CheckStatus, IInv, CallsTypeOK
    <2>3. CASE status[current[t][1]] = "Pending"
      BY <1>6, <2>1, <2>3, SameNodes DEF CheckStatus, registerNow
    <2>4. CASE status[current[t][1]] # "Pending"
      <3>1. Finish(t, current[t], AfterNode(t), "refused")
        BY <1>6, <2>4 DEF CheckStatus
      <3> QED BY <2>1, <2>2, <2>4, <3>1, RefineRefuse DEF IInv
    <2> QED BY <2>3, <2>4
  <1>7. ASSUME NEW t \in Setter, runnerStore(t) PROVE Register!Next
    <2> DEFINE n == current[t][1]
               r == current[t][2]
    <2>a. n \in Node /\ current[t] \in todo[t] /\ current[t] \in Binding
      BY <1>7 DEF runnerStore, IInv, CallsTypeOK
    <2>b. r \in Runner \cup {Nil} /\ current[t] = <<n, r>>
      BY <2>a DEF Binding
    <2>1. n \in Node /\ r \in Runner \cup {Nil} /\ current[t] = <<n, r>> /\ <<n, r>> \in todo[t]
      BY <2>a, <2>b
    <2>2. status[n] = "Pending"
      BY <1>7 DEF runnerStore, IInv, LocksHeld
    <2>3. PhaseNow[n] = "open"
      BY <2>1, <2>2 DEF PhaseNow, Phase
    <2>4. UNCHANGED <<FallbackNow, PhaseNow, UsedNow>>
      BY <1>7 DEF runnerStore, FallbackNow, PhaseNow, Phase, UsedNow, Resolved
    <2>5. /\ slot' = [slot EXCEPT ![n] = r]
          /\ todo' = [todo EXCEPT ![t] = @ \ {<<n, r>>}]
          /\ applied' = [applied EXCEPT ![t] = @ \cup {n}]
          /\ refused' = refused
      BY <1>7, <2>1 DEF runnerStore, Finish, IInv, CallsTypeOK
    <2> HIDE DEF n, r
    <2>6. Register!Bind(t, n, r)
      BY <2>1, <2>3, <2>4, <2>5 DEF Register!Bind
    <2> QED BY <2>1, <2>6 DEF Register!Next
  <1>8. ASSUME NEW t \in Setter, Return(t) PROVE Register!Next
    <2>1. todo[t] = {}
      BY <1>8 DEF Return, IInv, CallsInStep
    <2>2. Register!Answer(t)
      BY <1>8, <2>1, SameNodes DEF Return, Register!Answer
    <2> QED BY <2>2 DEF Register!Next
  <1>9. CASE SetDag
    <2>1. UNCHANGED <<slot, PhaseNow, UsedNow, todo, applied, refused>>
      BY <1>9 DEF SetDag, SetContainerCmd, SetRunnerResolver, PhaseNow, Phase, UsedNow, Resolved
    <2>2. (FallbackNow \in [Node -> Runner \cup {Nil}])'
      <3>1. NodesTypeOK'
        BY DEF IInv
      <3> QED BY <3>1, FallbackType, PTL
    <2>3. Register!FallBack(FallbackNow')
      BY <2>1 DEF Register!FallBack, Register!callVars
    <2> QED BY <2>2, <2>3 DEF Register!Next
  <1>10. ASSUME NEW n \in Node, Run(n) PROVE Register!Next \/ UNCHANGED registerNow
    <2> DEFINE begins == PhaseNow' = [PhaseNow EXCEPT ![n] = "begun"]
               ends   == PhaseNow' = [PhaseNow EXCEPT ![n] = "over"]
    <2>1. UNCHANGED <<slot, FallbackNow, todo, applied, refused>>
      BY <1>10 DEF Run, DropTask, Skip, BeginRunning, FinishUnrun, Snapshot, runnerLoad,
         ReadDag, Resolve, FinishRun, FallbackNow, Resolved
    <2>2. \A q \in Node \ {n} : Phase(q)' = Phase(q) /\ UsedNow'[q] = UsedNow[q]
      BY <1>10 DEF Run, DropTask, Skip, BeginRunning, FinishUnrun, Snapshot, runnerLoad,
         ReadDag, Resolve, FinishRun, Transition, Phase, UsedNow, Resolved, IInv, NodesTypeOK
    <2>3. ASSUME PhaseNow[n] = "open", Phase(n)' = "begun", UsedNow'[n] = UsedNow[n]
          PROVE  Register!Next
      <3>1. Register!Begin(n)
        BY <2>1, <2>2, <2>3 DEF Register!Begin, Register!callVars, PhaseNow, UsedNow
      <3> QED BY <3>1 DEF Register!Next
    <2>4. ASSUME Phase(n)' = "over", UsedNow'[n] = Nil PROVE Register!Next
      <3>1. Register!End(n)
        BY <2>1, <2>2, <2>4 DEF Register!End, Register!callVars, PhaseNow, UsedNow
      <3> QED BY <3>1 DEF Register!Next
    <2>5. ASSUME PhaseNow[n] = "begun", Phase(n)' = "over",
                 UsedNow'[n] = IF slot[n] # Nil THEN slot[n] ELSE FallbackNow[n]
          PROVE  Register!Next
      <3>1. Register!Use(n)
        BY <2>1, <2>2, <2>5 DEF Register!Use, Register!callVars, PhaseNow, UsedNow
      <3> QED BY <3>1 DEF Register!Next
    <2>6. ASSUME Phase(n)' = Phase(n), UsedNow'[n] = UsedNow[n]
          PROVE  UNCHANGED registerNow
      BY <2>1, <2>2, <2>6 DEF registerNow, PhaseNow, UsedNow
    <2> USE DEF IInv, NodesTypeOK, RunnersInStep, Phase, UsedNow, PhaseNow
    <2>7. CASE DropTask(n)
      BY <2>6, <2>7 DEF DropTask
    <2>8. CASE Skip(n)
      BY <2>4, <2>8 DEF Skip, Transition
    <2>9. CASE BeginRunning(n)
      BY <2>3, <2>9 DEF BeginRunning, Transition
    <2>10. CASE FinishUnrun(n)
      BY <2>4, <2>10 DEF FinishUnrun, Transition
    <2>11. CASE runnerLoad(n)
      BY <2>5, <2>6, <2>11 DEF runnerLoad
    <2>12. CASE ReadDag(n)
      <3>1. PhaseNow[n] = "begun" /\ Phase(n)' = "over" /\ slot[n] = Nil
        BY <2>12 DEF ReadDag
      <3>2. local'[n] = <<resolver, base>> /\ rpc'[n] = "resolve"
        BY <2>12 DEF ReadDag
      <3>3. UsedNow'[n] = FallbackNow[n]
        BY <3>2 DEF FallbackNow, Resolved
      <3> QED BY <2>5, <3>1, <3>3
    <2>13. CASE Resolve(n)
      BY <2>6, <2>13 DEF Resolve
    <2>14. CASE FinishRun(n)
      BY <2>4, <2>14 DEF FinishRun, Transition
    <2> QED BY <1>10, <2>7, <2>8, <2>9, <2>10, <2>11, <2>12, <2>13, <2>14 DEF Run, Snapshot
  <1>11. CASE ResetLocks
    BY <1>11, SameNodes DEF ResetLocks, registerNow
  <1>12. ASSUME NEW n \in Node, ResetNode(n) PROVE Register!Next
    <2>1. rpc[n] = "done" /\ chosen[n] = Nil
      BY <1>12 DEF ResetNode, IInv, RunnersInStep
    <2>2. PhaseNow[n] # "begun" /\ UsedNow[n] = Nil
      BY <2>1 DEF PhaseNow, Phase, UsedNow
    <2>3. PhaseNow' = [PhaseNow EXCEPT ![n] = "open"]
      BY <1>12 DEF ResetNode, PhaseNow, Phase, IInv, NodesTypeOK
    <2>4. UNCHANGED <<slot, FallbackNow, UsedNow, todo, applied, refused>>
      BY <1>12, <2>1 DEF ResetNode, FallbackNow, UsedNow, Resolved, IInv, NodesTypeOK
    <2>5. Register!Reopen(n)
      BY <2>2, <2>3, <2>4 DEF Register!Reopen, Register!callVars
    <2> QED BY <2>5 DEF Register!Next
  <1>13. CASE UNCHANGED vars
    BY <1>13, SameNodes DEF vars, registerNow
  <1> QED BY <1>2, <1>3, <1>4, <1>5, <1>6, <1>7, <1>8, <1>9, <1>10, <1>11, <1>12, <1>13
          DEF Next, GoesOn, Reset

\* The code implements the atomic registers: to a caller each binding takes
\* effect, or is refused, at one moment, and so does the choice of the Runnable
\* a node executes, whatever the locks let happen in between.
THEOREM ImplementsRegister == Spec => RefinesRegister
  <1>1. IInv /\ IInv' /\ [Next]_vars => [Register!Next]_(Register!registerVars)
    BY RefineStep DEF registerNow, Register!registerVars
  <1> QED BY RefineInit, InvHolds, <1>1, PTL DEF Spec, RefinesRegister, Register!Spec
=============================================================================
