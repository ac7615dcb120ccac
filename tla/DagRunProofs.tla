---------------------------- MODULE DagRunProofs ----------------------------
(***************************************************************************)
(* Proofs about DagRun, for every dag, pool size and choice of failures.   *)
(***************************************************************************)
EXTENDS DagRun, FiniteSetTheorems, TLAPS

(***************************************************************************)
(* Channel buffers as sequences.                                           *)
(***************************************************************************)

\* Sending appends: the buffer holds the old values and the new one.
LEMMA AppendFacts ==
    ASSUME NEW T, NEW q \in Seq(T), NEW x \in T
    PROVE  /\ Append(q, x) \in Seq(T)
           /\ Append(q, x) # <<>>
           /\ Len(Append(q, x)) = Len(q) + 1
           /\ \A i \in DOMAIN Append(q, x) :
                 Append(q, x)[i] = x \/ (i \in DOMAIN q /\ Append(q, x)[i] = q[i])
  OBVIOUS

\* Receiving takes the head: what remains was there before.
LEMMA TailFacts ==
    ASSUME NEW T, NEW q \in Seq(T), q # <<>>
    PROVE  /\ Tail(q) \in Seq(T)
           /\ Head(q) \in T
           /\ 1 \in DOMAIN q /\ Head(q) = q[1]
           /\ Len(Tail(q)) = Len(q) - 1
           /\ \A i \in DOMAIN Tail(q) : i + 1 \in DOMAIN q /\ Tail(q)[i] = q[i + 1]
  OBVIOUS

\* A buffer has a length.
LEMMA LenFacts ==
    ASSUME NEW T, NEW q \in Seq(T)
    PROVE  Len(q) \in Nat
  OBVIOUS

\* The empty buffer.
LEMMA EmptyFacts ==
    ASSUME NEW T
    PROVE  <<>> \in Seq(T) /\ DOMAIN <<>> = {} /\ Len(<<>>) = 0
  OBVIOUS

(***************************************************************************)
(* Types.                                                                  *)
(***************************************************************************)

\* The types are preserved by every step: no action of the run leaves them.
LEMMA TypeStep == TypeOK /\ [Next]_vars => TypeOK'
<1> SUFFICES ASSUME TypeOK, [Next]_vars
             PROVE  TypeOK'
  OBVIOUS
<1> USE NodeAssumption DEF TypeOK, RunnerPCs, Goto, SetSucceed, resultVars,
        callerVars, ctxVars, runnerVars
<1>1. ASSUME NEW n \in Node, Submit(n) PROVE TypeOK'
  BY <1>1 DEF Submit
<1>2. ASSUME NEW n \in Node, TakeTask(n) PROVE TypeOK'
  BY <1>2 DEF TakeTask
<1>3. ASSUME NEW n \in Node, CheckParentsStatus(n) PROVE TypeOK'
  <2>1. Sources(n) \in SUBSET (Node \cup {Caller})
    BY DEF Sources
  <2>2. status' \in [Node -> {"Pending", "Running", "Succeeded", "Failed", "Skipped"}]
    BY <1>3 DEF CheckParentsStatus, TransitionStatus
  <2> QED
    BY <1>3, <2>1, <2>2 DEF CheckParentsStatus
<1>4. ASSUME NEW n \in Node, NEW p \in Node \cup {Caller}, ReceiveSignal(n, p)
      PROVE TypeOK'
  <2>1. <<p, n>> \in Channels
    BY <1>4 DEF ReceiveSignal, Sources
  <2>2. Tail(sig[<<p, n>>]) \in Seq({"Start", "Succeed", "Failed"})
    BY <1>4, <2>1, TailFacts DEF ReceiveSignal
  <2> QED
    BY <1>4, <2>1, <2>2 DEF ReceiveSignal
<1>5. ASSUME NEW n \in Node, NEW p \in Node \cup {Caller}, AbandonSignal(n, p)
      PROVE TypeOK'
  BY <1>5 DEF AbandonSignal
<1>6. ASSUME NEW n \in Node, PreFlightReturns(n) PROVE TypeOK'
  BY <1>6 DEF PreFlightReturns
<1>7. ASSUME NEW n \in Node, InFlightSpecial(n) PROVE TypeOK'
  BY <1>7 DEF InFlightSpecial
<1>8. ASSUME NEW n \in Node, BeginRunE(n) PROVE TypeOK'
  BY <1>8 DEF BeginRunE
<1>9. ASSUME NEW n \in Node, EndRunE(n) PROVE TypeOK'
  BY <1>9 DEF EndRunE
<1>10. ASSUME NEW n \in Node, SendResult(n) PROVE TypeOK'
  <2>1. ReportedResult(n) \in Results
    BY <1>10 DEF SendResult, ReportedFrom, ReportedResult, Results, FailedResults
  <2>2. Children(n) \in SUBSET Node
    BY DEF Children
  <2>3. AfterReport(n) \in RunnerPCs
    BY DEF AfterReport
  <2>4. endResult' \in Seq(Results)
    <3>1. Append(endResult, ReportedResult(n)) \in Seq(Results)
      BY <2>1, AppendFacts
    <3> QED
      BY <1>10, <3>1 DEF SendResult
  <2>5. toNotify' \in [Node -> SUBSET Node]
        /\ \A m \in Node : toNotify'[m] \subseteq Children(m)
    BY <1>10, <2>2 DEF SendResult
  <2> QED
    BY <1>10, <2>3, <2>4, <2>5 DEF SendResult
<1>11. ASSUME NEW n \in Node, NEW c \in Node, SendSignal(n, c) PROVE TypeOK'
  <2>1. <<n, c>> \in Channels
    BY <1>11 DEF SendSignal, Children, Channels
  <2>2. sig' \in [Channels -> Seq({"Start", "Succeed", "Failed"})]
    <3> DEFINE signal == IF pc[n] = "postFlight" /\ succeed[n] THEN "Succeed" ELSE "Failed"
    <3>1. Append(sig[<<n, c>>], signal) \in Seq({"Start", "Succeed", "Failed"})
      BY <2>1, AppendFacts
    <3> QED
      BY <1>11, <2>1, <3>1 DEF SendSignal
  <2>3. toNotify' \in [Node -> SUBSET Node]
        /\ \A m \in Node : toNotify'[m] \subseteq Children(m)
    BY <1>11 DEF SendSignal
  <2> QED
    BY <1>11, <2>2, <2>3 DEF SendSignal
<1>12. ASSUME NEW n \in Node, PostFlightReturns(n) PROVE TypeOK'
  BY <1>12 DEF PostFlightReturns
<1>13. ASSUME NEW n \in Node, Succeed(n) PROVE TypeOK'
  BY <1>13 DEF Succeed, TransitionStatus
<1>14. ASSUME NEW n \in Node, Fail(n) PROVE TypeOK'
  BY <1>14 DEF Fail, TransitionStatus, Children
<1>15. ASSUME NEW n \in Node, NotifyReturns(n) PROVE TypeOK'
  BY <1>15 DEF NotifyReturns
<1>16. CASE Start
  <2>1. Trigger \in Channels
    BY DEF Channels
  <2>2. Append(sig[Trigger], "Start") \in Seq({"Start", "Succeed", "Failed"})
    BY <2>1, AppendFacts
  <2> QED
    BY <1>16, <2>1, <2>2 DEF Start
<1>17. CASE StartMark
  BY <1>17 DEF StartMark
<1>18. CASE Relay
  <2>1. /\ endResult' \in Seq(Results)
        /\ merged' \in Seq(Results)
    <3>1. Tail(endResult) \in Seq(Results) /\ Head(endResult) \in Results
      BY <1>18, TailFacts DEF Relay
    <3>2. Append(merged, Head(endResult)) \in Seq(Results)
      BY <3>1, AppendFacts
    <3> QED
      BY <1>18, <3>1, <3>2 DEF Relay
  <2> QED
    BY <1>18, <2>1 DEF Relay
<1>19. CASE Wait
  <2>1. ASSUME WaitReceives PROVE merged' \in Seq(Results)
    BY <2>1, TailFacts DEF WaitReceives
  <2> QED
    BY <1>19, <2>1 DEF Wait, WaitReceives, WaitInterrupted, PoolCloses, Verdict
<1>20. CASE CancelRun \/ CancelWait \/ Deadline
  BY <1>20 DEF CancelRun, CancelWait, Deadline
<1>21. CASE UNCHANGED vars
  BY <1>21 DEF vars
<1> QED
  BY <1>1, <1>2, <1>3, <1>4, <1>5, <1>6, <1>7, <1>8, <1>9, <1>10, <1>11, <1>12,
     <1>13, <1>14, <1>15, <1>16, <1>17, <1>18, <1>19, <1>20, <1>21
     DEF Next, Runner, Returned

\* Every variable keeps its type: in particular a runner waits only on its own
\* parents' channels and notifies only its own children.
THEOREM TypeCorrect == Spec => []TypeOK
<1>1. ASSUME Init PROVE TypeOK
  <2>1. /\ <<>> \in Seq(Results)
        /\ <<>> \in Seq({"Start", "Succeed", "Failed"})
    BY EmptyFacts
  <2>2. [n \in Node |-> n = EndNode] \in [Node -> BOOLEAN]
    BY Zenon
  <2>3. /\ [n \in Node |-> {}] \in [Node -> SUBSET (Node \cup {Caller})]
        /\ [n \in Node |-> {}] \in [Node -> SUBSET Node]
    OBVIOUS
  <2>4. sig \in [Channels -> Seq({"Start", "Succeed", "Failed"})]
    BY <1>1, <2>1 DEF Init, Fresh
  <2>5. succeed \in [Node -> BOOLEAN]
    BY <1>1, <2>2, Zenon DEF Init, FirstRun, AfterReset
  <2>6. /\ waiting \in [Node -> SUBSET (Node \cup {Caller})]
        /\ toNotify \in [Node -> SUBSET Node]
        /\ \A n \in Node : waiting[n] \subseteq Sources(n)
        /\ \A n \in Node : toNotify[n] \subseteq Children(n)
    BY <1>1, <2>3 DEF Init, Fresh
  <2>7. endResult \in Seq(Results) /\ merged \in Seq(Results)
    BY <1>1, <2>1 DEF Init, Fresh
  <2>8. /\ pc \in [Node -> RunnerPCs]
        /\ status \in [Node -> {"Pending", "Running", "Succeeded", "Failed", "Skipped"}]
        /\ egErr \in [Node -> BOOLEAN]
    BY <1>1 DEF Init, Fresh, RunnerPCs
  <2>9. /\ completed \in Nat
        /\ relaying \in BOOLEAN
        /\ main \in {"getReady", "start", "startMark", "wait", "closePool", "returned"}
        /\ waitResult \in {"none", "true", "false"}
        /\ runDone \in BOOLEAN
        /\ waitDone \in BOOLEAN
    BY <1>1 DEF Init, Fresh
  <2> QED
    BY <2>4, <2>5, <2>6, <2>7, <2>8, <2>9 DEF TypeOK
<1> QED
  BY <1>1, TypeStep, PTL DEF Spec

(***************************************************************************)
(* Status: what Node.status is at each point of a runner.                  *)
(***************************************************************************)

StatusInv ==
    /\ TransitionsAccepted
    /\ \A n \in Node :
        /\ pc[n] = "skipped" => status[n] = "Skipped"
        /\ pc[n] = "notifyFailed" => status[n] \in {"Failed", "Skipped"}
        /\ pc[n] = "done" => status[n] # "Running"

\* What no step takes back: the outcome of a node, a Failed status, and the
\* end of a context.
Stable ==
    /\ \A n \in Node : (Ok(n) => Ok(n)') /\ (Bad(n) => Bad(n)')
    /\ \A n \in Node : status[n] = "Failed" => status'[n] = "Failed"
    /\ runDone => runDone'
    /\ waitDone => waitDone'

\* A step keeps the status in line with the runner, and takes back neither an
\* outcome nor a cancellation.
LEMMA StatusStep == TypeOK /\ StatusInv /\ [Next]_vars => StatusInv' /\ Stable
<1> SUFFICES ASSUME TypeOK, StatusInv, [Next]_vars
             PROVE  StatusInv' /\ Stable
  OBVIOUS
<1>0. /\ pc \in [Node -> RunnerPCs]
      /\ status \in [Node -> {"Pending", "Running", "Succeeded", "Failed", "Skipped"}]
      /\ runDone \in BOOLEAN /\ waitDone \in BOOLEAN
  BY DEF TypeOK
<1> USE <1>0 DEF StatusInv, TransitionsAccepted, Stable, Ok, Bad, RunnerPCs, Goto,
        TransitionStatus, isValidTransition, ctxVars, runnerVars
<1>1. ASSUME NEW n \in Node, Submit(n) PROVE StatusInv' /\ Stable
  BY <1>1 DEF Submit
<1>2. ASSUME NEW n \in Node, TakeTask(n) PROVE StatusInv' /\ Stable
  BY <1>2 DEF TakeTask
<1>3. ASSUME NEW n \in Node, CheckParentsStatus(n) PROVE StatusInv' /\ Stable
  BY <1>3 DEF CheckParentsStatus
<1>4. ASSUME NEW n \in Node, NEW p \in Node \cup {Caller},
             ReceiveSignal(n, p) \/ AbandonSignal(n, p)
      PROVE  StatusInv' /\ Stable
  BY <1>4 DEF ReceiveSignal, AbandonSignal
<1>5. ASSUME NEW n \in Node, PreFlightReturns(n) PROVE StatusInv' /\ Stable
  BY <1>5 DEF PreFlightReturns
<1>6. ASSUME NEW n \in Node, InFlightSpecial(n) PROVE StatusInv' /\ Stable
  BY <1>6 DEF InFlightSpecial
<1>7. ASSUME NEW n \in Node, BeginRunE(n) PROVE StatusInv' /\ Stable
  BY <1>7 DEF BeginRunE
<1>8. ASSUME NEW n \in Node, EndRunE(n) PROVE StatusInv' /\ Stable
  BY <1>8 DEF EndRunE
<1>9. ASSUME NEW n \in Node, SendResult(n) PROVE StatusInv' /\ Stable
  BY <1>9 DEF SendResult, ReportedFrom, AfterReport
<1>10. ASSUME NEW n \in Node, NEW c \in Node, SendSignal(n, c)
       PROVE  StatusInv' /\ Stable
  BY <1>10 DEF SendSignal
<1>11. ASSUME NEW n \in Node, PostFlightReturns(n) PROVE StatusInv' /\ Stable
  BY <1>11 DEF PostFlightReturns
<1>12. ASSUME NEW n \in Node, Succeed(n) PROVE StatusInv' /\ Stable
  BY <1>12 DEF Succeed
<1>13. ASSUME NEW n \in Node, Fail(n) PROVE StatusInv' /\ Stable
  BY <1>13 DEF Fail
<1>14. ASSUME NEW n \in Node, NotifyReturns(n) PROVE StatusInv' /\ Stable
  BY <1>14 DEF NotifyReturns
<1>15. CASE Start \/ StartMark \/ Relay \/ Wait
  BY <1>15 DEF Start, StartMark, Relay, Wait, WaitReceives, WaitInterrupted, PoolCloses
<1>16. CASE CancelRun \/ CancelWait \/ Deadline
  BY <1>16 DEF CancelRun, CancelWait, Deadline
<1>17. CASE UNCHANGED vars
  BY <1>17 DEF vars
<1> QED
  BY <1>1, <1>2, <1>3, <1>4, <1>5, <1>6, <1>7, <1>8, <1>9, <1>10, <1>11, <1>12,
     <1>13, <1>14, <1>15, <1>16, <1>17 DEF Next, Runner, Returned

\* The status of a node is what its runner left it at.
THEOREM StatusCorrect == Spec => []StatusInv
<1>1. Init => StatusInv
  BY DEF Init, Fresh, StatusInv, TransitionsAccepted
<1> QED
  BY <1>1, StatusStep, TypeCorrect, PTL DEF Spec

\* No guarded transition of connectRunner is rejected.
THEOREM TransitionsAcceptedHolds == Spec => []TransitionsAccepted
  BY StatusCorrect, PTL DEF StatusInv

(***************************************************************************)
(* Dependencies: signals tell the parent's fate, and a node passes         *)
(* preFlight only when every parent's work went well.                      *)
(***************************************************************************)

\* Only Start, the receivers and the senders touch the edge channels.
LEMMA SigFrame ==
    [Next]_vars => \/ UNCHANGED sig
                   \/ Start
                   \/ \E n \in Node, p \in Node \cup {Caller} : ReceiveSignal(n, p)
                   \/ \E n, c \in Node : SendSignal(n, c)
BY DEF Next, vars, runnerVars, Submit, TakeTask, Runner, CheckParentsStatus, AbandonSignal,
       PreFlightReturns, InFlightSpecial, BeginRunE, EndRunE, SendResult, PostFlightReturns,
       Succeed, Fail, NotifyReturns, StartMark, Relay, Wait, WaitReceives, WaitInterrupted,
       PoolCloses, CancelRun, CancelWait, Deadline, Returned

\* The signals in a channel tell what became of their sender.
SignalFate ==
    \A e \in Edges : \A i \in DOMAIN sig[e] :
        \/ sig[e][i] = "Succeed" /\ Ok(e[1])
        \/ sig[e][i] = "Failed" /\ Bad(e[1])

\* While no receiver of a node in preFlight has failed, the sources that have
\* been heard went well.
HeardInv ==
    \A n \in Node : \A p \in Parents(n) :
        pc[n] = "preFlight" /\ ~egErr[n] /\ p \notin waiting[n] => Ok(p)

\* Node.succeed holds from preFlight to postFlight of a runner that goes well.
SucceedInv ==
    \A n \in Node :
        pc[n] \in {"preOk", "inFlight", "execute", "inOk", "postFlight"} => succeed[n]

\* preFlight and inFlight set Node.succeed; the late SetSucceed of Start sets it too.
LEMMA SucceedStep == TypeOK /\ SucceedInv /\ [Next]_vars => SucceedInv'
<1> SUFFICES ASSUME TypeOK, SucceedInv, [Next]_vars
             PROVE  SucceedInv'
  OBVIOUS
<1>0. /\ pc \in [Node -> RunnerPCs]
      /\ succeed \in [Node -> BOOLEAN]
      /\ egErr \in [Node -> BOOLEAN]
  BY DEF TypeOK
<1> USE <1>0 DEF SucceedInv, Goto, SetSucceed
<1>1. ASSUME NEW n \in Node,
             \/ Submit(n) \/ TakeTask(n) \/ CheckParentsStatus(n) \/ PostFlightReturns(n)
             \/ Succeed(n) \/ Fail(n) \/ NotifyReturns(n)
      PROVE  SucceedInv'
  BY <1>1 DEF Submit, TakeTask, CheckParentsStatus, PostFlightReturns, Succeed, Fail,
              NotifyReturns
<1>2. ASSUME NEW n \in Node, NEW p \in Node \cup {Caller},
             ReceiveSignal(n, p) \/ AbandonSignal(n, p) \/ SendSignal(n, p)
      PROVE  SucceedInv'
  BY <1>2 DEF ReceiveSignal, AbandonSignal, SendSignal
<1>3. ASSUME NEW n \in Node, PreFlightReturns(n) PROVE SucceedInv'
  BY <1>3 DEF PreFlightReturns
<1>4. ASSUME NEW n \in Node, InFlightSpecial(n) \/ BeginRunE(n) PROVE SucceedInv'
  BY <1>4 DEF InFlightSpecial, BeginRunE
<1>5. ASSUME NEW n \in Node, EndRunE(n) PROVE SucceedInv'
  BY <1>5 DEF EndRunE
<1>6. ASSUME NEW n \in Node, SendResult(n) PROVE SucceedInv'
  BY <1>6 DEF SendResult, ReportedFrom, AfterReport
<1>7. CASE Start \/ StartMark \/ Relay \/ Wait
  BY <1>7, NodeAssumption DEF Start, StartMark, Relay, Wait, WaitReceives, WaitInterrupted,
     PoolCloses, runnerVars
<1>8. CASE CancelRun \/ CancelWait \/ Deadline \/ UNCHANGED vars
  BY <1>8 DEF CancelRun, CancelWait, Deadline, vars, runnerVars
<1> QED
  BY <1>1, <1>2, <1>3, <1>4, <1>5, <1>6, <1>7, <1>8 DEF Next, Runner, Returned

\* A signal in a channel goes on telling the truth about its sender.
LEMMA SignalStep ==
    TypeOK /\ StatusInv /\ SucceedInv /\ SignalFate /\ [Next]_vars => SignalFate'
<1> SUFFICES ASSUME TypeOK, StatusInv, SucceedInv, SignalFate, [Next]_vars
             PROVE  SignalFate'
  OBVIOUS
<1>0. /\ \A n \in Node : (Ok(n) => Ok(n)') /\ (Bad(n) => Bad(n)')
      /\ sig \in [Channels -> Seq({"Start", "Succeed", "Failed"})]
      /\ Edges \subseteq Channels
      /\ \A e \in Edges : e[1] \in Node
      /\ Trigger \notin Edges
  BY StatusStep, NodeAssumption DEF Stable, TypeOK, Channels, Trigger
<1> SUFFICES ASSUME NEW e \in Edges, NEW i \in DOMAIN sig'[e]
             PROVE  \/ sig'[e][i] = "Succeed" /\ Ok(e[1])'
                    \/ sig'[e][i] = "Failed" /\ Bad(e[1])'
  BY DEF SignalFate
<1>1. CASE UNCHANGED sig
  BY <1>0, <1>1 DEF SignalFate
<1>2. CASE Start
  BY <1>0, <1>2 DEF Start, SignalFate
<1>3. ASSUME NEW n \in Node, NEW p \in Node \cup {Caller}, ReceiveSignal(n, p)
      PROVE  \/ sig'[e][i] = "Succeed" /\ Ok(e[1])'
             \/ sig'[e][i] = "Failed" /\ Bad(e[1])'
  <2>1. CASE e = <<p, n>>
    <3>1. sig'[e] = Tail(sig[e]) /\ sig[e] # <<>>
      BY <1>0, <1>3, <2>1 DEF ReceiveSignal
    <3>2. i + 1 \in DOMAIN sig[e] /\ sig'[e][i] = sig[e][i + 1]
      BY <1>0, <3>1, TailFacts
    <3> QED
      BY <1>0, <3>2 DEF SignalFate
  <2>2. CASE e # <<p, n>>
    BY <1>0, <1>3, <2>2 DEF ReceiveSignal, SignalFate
  <2> QED
    BY <2>1, <2>2
<1>4. ASSUME NEW n \in Node, NEW c \in Node, SendSignal(n, c)
      PROVE  \/ sig'[e][i] = "Succeed" /\ Ok(e[1])'
             \/ sig'[e][i] = "Failed" /\ Bad(e[1])'
  <2> DEFINE signal == IF pc[n] = "postFlight" /\ succeed[n] THEN "Succeed" ELSE "Failed"
  <2>1. CASE e = <<n, c>> /\ sig' = [sig EXCEPT ![<<n, c>>] = Append(@, signal)]
    <3>1. sig'[e] = Append(sig[e], signal)
      BY <1>0, <2>1
    <3>2. sig'[e][i] = signal \/ (i \in DOMAIN sig[e] /\ sig'[e][i] = sig[e][i])
      BY <1>0, <3>1, AppendFacts
    <3>3. \/ signal = "Succeed" /\ Ok(n)
          \/ signal = "Failed" /\ Bad(n)
      BY <1>4 DEF SendSignal, SucceedInv, Ok, Bad
    <3> QED
      BY <1>0, <2>1, <3>2, <3>3 DEF SignalFate
  <2>2. CASE e # <<n, c>> \/ UNCHANGED sig
    BY <1>0, <1>4, <2>2 DEF SendSignal, SignalFate
  <2> QED
    BY <1>4, <2>1, <2>2 DEF SendSignal
<1> QED
  BY <1>1, <1>2, <1>3, <1>4, SigFrame

\* A receiver that has returned without an error has heard of a success.
LEMMA HeardStep ==
    TypeOK /\ StatusInv /\ SignalFate /\ HeardInv /\ [Next]_vars => HeardInv'
<1> SUFFICES ASSUME TypeOK, StatusInv, SignalFate, HeardInv, [Next]_vars,
                    NEW m \in Node, NEW q \in Parents(m),
                    pc'[m] = "preFlight", ~egErr'[m], q \notin waiting'[m]
             PROVE  Ok(q)'
  BY DEF HeardInv
<1>0. /\ q \in Node /\ <<q, m>> \in Edges
      /\ Ok(q) => Ok(q)'
      /\ pc \in [Node -> RunnerPCs]
      /\ waiting \in [Node -> SUBSET (Node \cup {Caller})]
      /\ egErr \in [Node -> BOOLEAN]
      /\ pc[m] = "preFlight" /\ ~egErr[m] /\ q \notin waiting[m] => Ok(q)
  BY StatusStep DEF Stable, TypeOK, HeardInv, Parents
<1> USE <1>0 DEF Goto
<1>1. ASSUME NEW n \in Node, CheckParentsStatus(n) PROVE Ok(q)'
  <2>1. q \in Sources(m)
    BY DEF Sources, Channels
  <2> QED
    BY <1>1, <2>1 DEF CheckParentsStatus
<1>2. ASSUME NEW n \in Node, NEW p \in Node \cup {Caller}, ReceiveSignal(n, p)
      PROVE  Ok(q)'
  <2>1. CASE n = m /\ p = q
    <3>1. Head(sig[<<q, m>>]) # "Failed"
      BY <1>2, <2>1 DEF ReceiveSignal
    <3>2. /\ 1 \in DOMAIN sig[<<q, m>>]
          /\ Head(sig[<<q, m>>]) = sig[<<q, m>>][1]
      BY <1>2, <2>1, TailFacts DEF ReceiveSignal, TypeOK, Channels
    <3> QED
      BY <3>1, <3>2 DEF SignalFate
  <2>2. CASE ~(n = m /\ p = q)
    BY <1>2, <2>2 DEF ReceiveSignal
  <2> QED
    BY <2>1, <2>2
<1>3. ASSUME NEW n \in Node, NEW p \in Node \cup {Caller}, AbandonSignal(n, p)
      PROVE  Ok(q)'
  BY <1>3 DEF AbandonSignal
<1>4. ASSUME NEW n \in Node,
             \/ Submit(n) \/ TakeTask(n) \/ PreFlightReturns(n)
             \/ InFlightSpecial(n) \/ BeginRunE(n) \/ EndRunE(n)
      PROVE  Ok(q)'
  BY <1>4 DEF Submit, TakeTask, PreFlightReturns, InFlightSpecial, BeginRunE, EndRunE
<1>5. ASSUME NEW n \in Node,
             \/ PostFlightReturns(n) \/ Succeed(n) \/ Fail(n) \/ NotifyReturns(n)
      PROVE  Ok(q)'
  BY <1>5 DEF PostFlightReturns, Succeed, Fail, NotifyReturns
<1>6. ASSUME NEW n \in Node, SendResult(n) PROVE Ok(q)'
  BY <1>6 DEF SendResult, AfterReport
<1>7. ASSUME NEW n \in Node, NEW c \in Node, SendSignal(n, c) PROVE Ok(q)'
  BY <1>7 DEF SendSignal
<1>8. CASE Start \/ StartMark \/ Relay \/ Wait
  BY <1>8 DEF Start, StartMark, Relay, Wait, WaitReceives, WaitInterrupted, PoolCloses,
              runnerVars
<1>9. CASE CancelRun \/ CancelWait \/ Deadline \/ UNCHANGED vars
  BY <1>9 DEF CancelRun, CancelWait, Deadline, vars, runnerVars
<1> QED
  BY <1>1, <1>2, <1>3, <1>4, <1>5, <1>6, <1>7, <1>8, <1>9 DEF Next, Runner, Returned

\* A runner that has come past preFlight came there by PreFlightReturns.
PastPreFlight(n) == pc[n] \in {"preOk", "inFlight", "execute", "inErr"} \/ Ok(n)

\* The only way past preFlight: every receiver has returned, none with an error.
LEMMA PastPreFlightFrame ==
    ASSUME TypeOK, StatusInv, [Next]_vars, NEW m \in Node, PastPreFlight(m)'
    PROVE  \/ PastPreFlight(m)
           \/ waiting[m] = {} /\ pc[m] = "preFlight" /\ ~egErr[m]
<1> USE DEF PastPreFlight, Ok, Goto, TransitionStatus, TypeOK
<1>1. ASSUME NEW n \in Node,
             \/ Submit(n) \/ TakeTask(n) \/ CheckParentsStatus(n) \/ PreFlightReturns(n)
      PROVE  \/ PastPreFlight(m)
             \/ waiting[m] = {} /\ pc[m] = "preFlight" /\ ~egErr[m]
  BY <1>1 DEF Submit, TakeTask, CheckParentsStatus, PreFlightReturns, StatusInv,
              TransitionsAccepted
<1>2. ASSUME NEW n \in Node,
             \/ InFlightSpecial(n) \/ BeginRunE(n) \/ EndRunE(n) \/ PostFlightReturns(n)
             \/ Succeed(n) \/ Fail(n) \/ NotifyReturns(n)
      PROVE  PastPreFlight(m)
  BY <1>2 DEF InFlightSpecial, BeginRunE, EndRunE, PostFlightReturns, Succeed, Fail,
              NotifyReturns, StatusInv
<1>3. ASSUME NEW n \in Node, SendResult(n) PROVE PastPreFlight(m)
  BY <1>3 DEF SendResult, ReportedFrom, AfterReport
<1>4. ASSUME NEW n \in Node, NEW p \in Node \cup {Caller},
             ReceiveSignal(n, p) \/ AbandonSignal(n, p) \/ SendSignal(n, p)
      PROVE  PastPreFlight(m)
  BY <1>4 DEF ReceiveSignal, AbandonSignal, SendSignal
<1>5. CASE Start \/ StartMark \/ Relay \/ Wait
  BY <1>5 DEF Start, StartMark, Relay, Wait, WaitReceives, WaitInterrupted, PoolCloses,
              runnerVars
<1>6. CASE CancelRun \/ CancelWait \/ Deadline \/ UNCHANGED vars
  BY <1>6 DEF CancelRun, CancelWait, Deadline, vars, runnerVars
<1> QED
  BY <1>1, <1>2, <1>3, <1>4, <1>5, <1>6 DEF Next, Runner, Returned

\* A node that passes preFlight has parents that all went well.
LEMMA OrderStep ==
    TypeOK /\ StatusInv /\ HeardInv /\ DependencyOrder /\ [Next]_vars => DependencyOrder'
<1> SUFFICES ASSUME TypeOK, StatusInv, HeardInv, DependencyOrder, [Next]_vars,
                    NEW m \in Node, PastPreFlight(m)', NEW q \in Parents(m)
             PROVE  Ok(q)'
  BY DEF DependencyOrder, PastPreFlight
<1>1. q \in Node /\ (Ok(q) => Ok(q)')
  BY StatusStep DEF Stable, Parents
<1>2. CASE PastPreFlight(m)
  BY <1>1, <1>2 DEF DependencyOrder, PastPreFlight
<1>3. CASE waiting[m] = {} /\ pc[m] = "preFlight" /\ ~egErr[m]
  BY <1>1, <1>3 DEF HeardInv
<1> QED
  BY <1>2, <1>3, PastPreFlightFrame

DependencyInv == SucceedInv /\ SignalFate /\ HeardInv /\ DependencyOrder

\* DependencyOrder, made inductive by what channels and receivers know.
THEOREM DependencyCorrect == Spec => []DependencyInv
<1>1. ASSUME Init PROVE DependencyInv
  <2>1. SucceedInv /\ HeardInv /\ DependencyOrder
    BY <1>1 DEF Init, Fresh, SucceedInv, HeardInv, DependencyOrder, Ok
  <2>2. SignalFate
    BY <1>1, EmptyFacts DEF Init, Fresh, SignalFate, Channels
  <2> QED
    BY <2>1, <2>2 DEF DependencyInv
<1>2. TypeOK /\ StatusInv /\ DependencyInv /\ [Next]_vars => DependencyInv'
  BY SucceedStep, SignalStep, HeardStep, OrderStep DEF DependencyInv
<1> QED
  BY <1>1, <1>2, TypeCorrect, StatusCorrect, PTL DEF Spec

\* The order of execution: no node starts its work before every parent has
\* finished its own and finished it well.
THEOREM DependencyOrderHolds == Spec => []DependencyOrder
BY DependencyCorrect, PTL DEF DependencyInv

(***************************************************************************)
(* Causes: nothing goes bad by itself.                                     *)
(***************************************************************************)

TriggerInv == \A i \in DOMAIN sig[Trigger] : sig[Trigger][i] = "Start"

EgErrInv ==
    \A n \in Node : egErr[n] => runDone \/ \E p \in Parents(n) : Bad(p)

\* The trigger channel holds only what Start sent.
LEMMA TriggerStep == TypeOK /\ TriggerInv /\ [Next]_vars => TriggerInv'
<1> SUFFICES ASSUME TypeOK, TriggerInv, [Next]_vars, NEW i \in DOMAIN sig'[Trigger]
             PROVE  sig'[Trigger][i] = "Start"
  BY DEF TriggerInv
<1>0. /\ sig \in [Channels -> Seq({"Start", "Succeed", "Failed"})]
      /\ Trigger \in Channels
      /\ \A n \in Node : n # Caller
  BY NodeAssumption DEF TypeOK, Channels
<1>1. CASE UNCHANGED sig
  BY <1>1 DEF TriggerInv
<1>2. CASE Start
  <2>1. sig'[Trigger] = Append(sig[Trigger], "Start")
    BY <1>0, <1>2 DEF Start
  <2> QED
    BY <1>0, <2>1, AppendFacts DEF TriggerInv
<1>3. ASSUME NEW n \in Node, NEW p \in Node \cup {Caller}, ReceiveSignal(n, p)
      PROVE  sig'[Trigger][i] = "Start"
  <2>1. CASE <<p, n>> = Trigger
    <3>1. sig'[Trigger] = Tail(sig[Trigger]) /\ sig[Trigger] # <<>>
      BY <1>0, <1>3, <2>1 DEF ReceiveSignal
    <3> QED
      BY <1>0, <3>1, TailFacts DEF TriggerInv
  <2>2. CASE <<p, n>> # Trigger
    BY <1>0, <1>3, <2>2 DEF ReceiveSignal, TriggerInv
  <2> QED
    BY <2>1, <2>2
<1>4. ASSUME NEW n \in Node, NEW c \in Node, SendSignal(n, c)
      PROVE  sig'[Trigger][i] = "Start"
  BY <1>0, <1>4 DEF SendSignal, TriggerInv, Trigger
<1> QED
  BY <1>1, <1>2, <1>3, <1>4, SigFrame

\* A receiver returns an error only for a bad parent or a finished context.
LEMMA EgErrStep ==
    TypeOK /\ StatusInv /\ SignalFate /\ TriggerInv /\ EgErrInv /\ [Next]_vars => EgErrInv'
<1> SUFFICES ASSUME TypeOK, StatusInv, SignalFate, TriggerInv, EgErrInv, [Next]_vars,
                    NEW m \in Node, egErr'[m]
             PROVE  runDone' \/ \E q \in Parents(m) : Bad(q)'
  BY DEF EgErrInv
<1>0. /\ \A q \in Parents(m) : Bad(q) => Bad(q)'
      /\ runDone => runDone'
      /\ egErr \in [Node -> BOOLEAN]
      /\ egErr[m] => runDone \/ \E q \in Parents(m) : Bad(q)
  BY StatusStep DEF Stable, TypeOK, EgErrInv, Parents
<1>1. CASE egErr[m]
  BY <1>0, <1>1
<1>2. ASSUME ~egErr[m], NEW n \in Node, NEW p \in Node \cup {Caller}, ReceiveSignal(n, p)
      PROVE  runDone' \/ \E q \in Parents(m) : Bad(q)'
  <2>1. n = m /\ p \in Sources(m) /\ Head(sig[<<p, m>>]) = "Failed"
    BY <1>0, <1>2 DEF ReceiveSignal, TypeOK
  <2>2. /\ 1 \in DOMAIN sig[<<p, m>>]
        /\ sig[<<p, m>>][1] = "Failed"
    BY <1>2, <2>1, TailFacts DEF ReceiveSignal, TypeOK, Sources
  <2>3. <<p, m>> # Trigger
    BY <2>2 DEF TriggerInv
  <2>4. p \in Parents(m) /\ Bad(p)
    BY <2>1, <2>2, <2>3, NodeAssumption DEF Sources, Channels, Parents, SignalFate
  <2> QED
    BY <1>0, <2>4
<1>3. ASSUME ~egErr[m], NEW n \in Node, NEW p \in Node \cup {Caller}, AbandonSignal(n, p)
      PROVE  runDone' \/ \E q \in Parents(m) : Bad(q)'
  BY <1>0, <1>3 DEF AbandonSignal, ctxVars
<1>4. CASE UNCHANGED egErr
  BY <1>0, <1>4
<1>5. \/ UNCHANGED egErr
      \/ \E n \in Node, p \in Node \cup {Caller} : ReceiveSignal(n, p) \/ AbandonSignal(n, p)
  BY DEF Next, vars, runnerVars, Submit, TakeTask, Runner, CheckParentsStatus, SendSignal,
         PreFlightReturns, InFlightSpecial, BeginRunE, EndRunE, SendResult, PostFlightReturns,
         Succeed, Fail, NotifyReturns, Start, StartMark, Relay, Wait, WaitReceives,
         WaitInterrupted, PoolCloses, CancelRun, CancelWait, Deadline, Returned
<1> QED
  BY <1>1, <1>2, <1>3, <1>4, <1>5

\* A step that makes a node bad has a cause.
LEMMA CauseStep ==
    TypeOK /\ StatusInv /\ SucceedInv /\ EgErrInv /\ BadHasCause /\ [Next]_vars
        => BadHasCause'
<1> SUFFICES ASSUME TypeOK, StatusInv, SucceedInv, EgErrInv, BadHasCause, [Next]_vars,
                    NEW m \in Node
             PROVE  /\ Bad(m)' => runDone' \/ m \in MayFail \/ \E p \in Parents(m) : Bad(p)'
                    /\ status'[m] = "Skipped" => \E p \in Parents(m) : status'[p] = "Failed"
  BY DEF BadHasCause
<1> DEFINE Cause == runDone \/ m \in MayFail \/ \E p \in Parents(m) : Bad(p)
           FailedParent == \E p \in Parents(m) : status[p] = "Failed"
<1>0. /\ Cause => Cause'
      /\ FailedParent => FailedParent'
      /\ FailedParent => Cause
      /\ Bad(m) => Cause
      /\ status[m] = "Skipped" => FailedParent
  <2>1. \A p \in Parents(m) : p \in Node
    BY DEF Parents
  <2>2. \A p \in Node : status[p] = "Failed" => Bad(p)
    BY DEF StatusInv, TransitionsAccepted, Bad, TypeOK, RunnerPCs
  <2> QED
    BY <2>1, <2>2, StatusStep DEF Stable, BadHasCause
<1> HIDE DEF Cause, FailedParent
<1> SUFFICES (Bad(m)' => Cause \/ Cause') /\ (status'[m] = "Skipped" => FailedParent)
  BY <1>0 DEF Cause, FailedParent
<1>t. /\ pc \in [Node -> RunnerPCs]
      /\ status \in [Node -> {"Pending", "Running", "Succeeded", "Failed", "Skipped"}]
  BY DEF TypeOK
<1> USE <1>0, <1>t DEF Bad, Goto, TransitionStatus
<1> DEFINE Goal == (Bad(m)' => Cause) /\ (status'[m] = "Skipped" => FailedParent)
<1>1. ASSUME NEW n \in Node, TakeTask(n) PROVE Goal
  BY <1>1 DEF TakeTask, Cause
<1>2. ASSUME NEW n \in Node, CheckParentsStatus(n) PROVE Goal
  BY <1>2 DEF CheckParentsStatus, FailedParent
<1>3. ASSUME NEW n \in Node, PreFlightReturns(n) PROVE Goal
  BY <1>3 DEF PreFlightReturns, EgErrInv, Cause
<1>4. ASSUME NEW n \in Node, BeginRunE(n) \/ InFlightSpecial(n) PROVE Goal
  BY <1>4 DEF BeginRunE, InFlightSpecial, SucceedInv
<1>5. ASSUME NEW n \in Node, EndRunE(n) PROVE Goal
  BY <1>5 DEF EndRunE, Cause
<1>6. ASSUME NEW n \in Node, SendResult(n) PROVE Goal
  BY <1>6 DEF SendResult, ReportedFrom, AfterReport
<1>7. ASSUME NEW n \in Node,
             \/ Submit(n) \/ PostFlightReturns(n) \/ Succeed(n) \/ Fail(n) \/ NotifyReturns(n)
      PROVE  Goal
  BY <1>7 DEF Submit, PostFlightReturns, Succeed, Fail, NotifyReturns, StatusInv,
              TransitionsAccepted, isValidTransition
<1>8. ASSUME NEW n \in Node, NEW p \in Node \cup {Caller},
             ReceiveSignal(n, p) \/ AbandonSignal(n, p) \/ SendSignal(n, p)
      PROVE  Goal
  BY <1>8 DEF ReceiveSignal, AbandonSignal, SendSignal
<1>9. CASE Start \/ StartMark \/ Relay \/ Wait
  BY <1>9 DEF Start, StartMark, Relay, Wait, WaitReceives, WaitInterrupted, PoolCloses,
              runnerVars
<1>10. CASE CancelRun \/ CancelWait \/ Deadline \/ UNCHANGED vars
  BY <1>10 DEF CancelRun, CancelWait, Deadline, vars, runnerVars
<1> QED
  BY <1>1, <1>2, <1>3, <1>4, <1>5, <1>6, <1>7, <1>8, <1>9, <1>10 DEF Next, Runner, Returned

CauseInv == TriggerInv /\ EgErrInv /\ BadHasCause

\* BadHasCause, made inductive by what the receivers of preFlight may have seen.
THEOREM CauseCorrect == Spec => []CauseInv
<1>1. ASSUME Init PROVE CauseInv
  BY <1>1, EmptyFacts DEF Init, Fresh, CauseInv, TriggerInv, EgErrInv, BadHasCause, Bad, Channels
<1>2. TypeOK /\ StatusInv /\ DependencyInv /\ CauseInv /\ [Next]_vars => CauseInv'
  BY TriggerStep, EgErrStep, CauseStep DEF CauseInv, DependencyInv
<1> QED
  BY <1>1, <1>2, TypeCorrect, StatusCorrect, DependencyCorrect, PTL DEF Spec

\* No node fails, is skipped or is dropped without its own RunE failing, a bad
\* parent or a finished context, and a Skipped node has a Failed parent.
THEOREM BadHasCauseHolds == Spec => []BadHasCause
BY CauseCorrect, PTL DEF CauseInv

(***************************************************************************)
(* The verdict of Wait.                                                    *)
(***************************************************************************)

\* What a result of the end node tells about it.
ResultFate(r) == /\ r = "FlightEnd" => Ok(EndNode)
                 /\ r \in FailedResults => Bad(EndNode)

ResultInv ==
    /\ \A i \in DOMAIN endResult : ResultFate(endResult[i])
    /\ \A i \in DOMAIN merged : ResultFate(merged[i])

VerdictInv ==
    /\ main \in {"getReady", "start", "startMark", "wait"} => waitResult = "none"
    /\ main \in {"closePool", "returned"} => waitResult # "none"
    /\ waitResult = "true" => Ok(EndNode)
    /\ waitResult = "false" => Bad(EndNode) \/ waitDone
    /\ main = "returned" => \A n \in Node : pc[n] = "done"

\* The end node's results, on their way to Wait, agree with its fate.
LEMMA ResultStep == TypeOK /\ StatusInv /\ ResultInv /\ [Next]_vars => ResultInv'
<1> SUFFICES ASSUME TypeOK, StatusInv, ResultInv, [Next]_vars
             PROVE  ResultInv'
  OBVIOUS
<1>0. /\ \A r : ResultFate(r) => ResultFate(r)'
      /\ endResult \in Seq(Results)
      /\ merged \in Seq(Results)
  BY StatusStep, NodeAssumption DEF Stable, ResultFate, TypeOK
<1>1. ASSUME NEW n \in Node, SendResult(n) PROVE ResultInv'
  <2>1. CASE UNCHANGED endResult
    BY <1>0, <1>1, <2>1 DEF SendResult, ResultInv
  <2>2. CASE n = EndNode /\ endResult' = Append(endResult, ReportedResult(n))
    <3>1. ReportedResult(n) \in Results
      BY <1>1 DEF SendResult, ReportedFrom, ReportedResult, Results, FailedResults
    <3>2. ResultFate(ReportedResult(n))
      BY <1>1, <2>2 DEF SendResult, ReportedFrom, ReportedResult, ResultFate, FailedResults,
                        Ok, Bad
    <3>3. \A i \in DOMAIN endResult' :
             endResult'[i] = ReportedResult(n) \/ (i \in DOMAIN endResult /\ endResult'[i] = endResult[i])
      BY <1>0, <2>2, <3>1, AppendFacts
    <3> QED
      BY <1>0, <1>1, <3>2, <3>3 DEF SendResult, ResultInv
  <2> QED
    BY <1>1, <2>1, <2>2 DEF SendResult
<1>2. CASE Relay
  <2>1. \A i \in DOMAIN endResult' : ResultFate(endResult'[i])
    BY <1>0, <1>2, TailFacts DEF Relay, ResultInv
  <2>2. Head(endResult) \in Results /\ ResultFate(Head(endResult))
    BY <1>0, <1>2, TailFacts DEF Relay, ResultInv
  <2>3. \A i \in DOMAIN Append(merged, Head(endResult)) :
           ResultFate(Append(merged, Head(endResult))[i])
    <3> DEFINE x == Head(endResult)
    <3>1. \A i \in DOMAIN Append(merged, x) :
             Append(merged, x)[i] = x \/ (i \in DOMAIN merged /\ Append(merged, x)[i] = merged[i])
      BY <1>0, <2>2, AppendFacts
    <3> QED
      BY <2>2, <3>1 DEF ResultInv
  <2> QED
    BY <1>0, <1>2, <2>1, <2>3 DEF Relay, ResultInv
<1>3. CASE WaitReceives
  BY <1>0, <1>3, TailFacts DEF WaitReceives, ResultInv
<1>4. CASE UNCHANGED <<endResult, merged>>
  BY <1>0, <1>4 DEF ResultInv
<1>5. \/ UNCHANGED <<endResult, merged>>
      \/ \E n \in Node : SendResult(n)
      \/ Relay
      \/ WaitReceives
  BY DEF Next, vars, resultVars, Submit, TakeTask, Runner, CheckParentsStatus, ReceiveSignal,
         AbandonSignal, SendSignal, PreFlightReturns, InFlightSpecial, BeginRunE, EndRunE,
         PostFlightReturns, Succeed, Fail, NotifyReturns, Start, StartMark, Wait,
         WaitInterrupted, PoolCloses, CancelRun, CancelWait, Deadline, Returned
<1> QED
  BY <1>1, <1>2, <1>3, <1>4, <1>5

\* The verdict agrees with the end node's fate, or Wait's context is done.
LEMMA VerdictStep ==
    TypeOK /\ StatusInv /\ ResultInv /\ VerdictInv /\ [Next]_vars => VerdictInv'
<1> SUFFICES ASSUME TypeOK, StatusInv, ResultInv, VerdictInv, [Next]_vars
             PROVE  VerdictInv'
  OBVIOUS
<1>0. /\ Ok(EndNode) => Ok(EndNode)'
      /\ Bad(EndNode) => Bad(EndNode)'
      /\ waitDone => waitDone'
      /\ pc \in [Node -> RunnerPCs]
      /\ merged \in Seq(Results)
  BY StatusStep, NodeAssumption DEF Stable, TypeOK
<1> USE <1>0 DEF VerdictInv, Goto, callerVars
<1>1. ASSUME NEW n \in Node, Submit(n) PROVE VerdictInv'
  BY <1>1 DEF Submit
<1>2. ASSUME NEW n \in Node, \/ TakeTask(n) \/ CheckParentsStatus(n) \/ PreFlightReturns(n)
                             \/ InFlightSpecial(n) \/ BeginRunE(n) \/ EndRunE(n)
      PROVE  VerdictInv'
  BY <1>2 DEF TakeTask, CheckParentsStatus, PreFlightReturns, InFlightSpecial, BeginRunE,
              EndRunE
<1>3. ASSUME NEW n \in Node,
             \/ PostFlightReturns(n) \/ Succeed(n) \/ Fail(n) \/ NotifyReturns(n)
      PROVE  VerdictInv'
  BY <1>3 DEF PostFlightReturns, Succeed, Fail, NotifyReturns
<1>4. ASSUME NEW n \in Node, SendResult(n) PROVE VerdictInv'
  BY <1>4 DEF SendResult, ReportedFrom
<1>5. ASSUME NEW n \in Node, NEW p \in Node \cup {Caller},
             ReceiveSignal(n, p) \/ AbandonSignal(n, p) \/ SendSignal(n, p)
      PROVE  VerdictInv'
  BY <1>5 DEF ReceiveSignal, AbandonSignal, SendSignal
<1>6. CASE Start \/ StartMark \/ Relay
  BY <1>6 DEF Start, StartMark, Relay
<1>7. CASE WaitReceives
  <2>1. ResultFate(Head(merged))
    BY <1>7, TailFacts DEF WaitReceives, ResultInv
  <2> QED
    BY <1>7, <2>1 DEF WaitReceives, Verdict, ResultFate
<1>8. CASE WaitInterrupted \/ PoolCloses
  BY <1>8 DEF WaitInterrupted, PoolCloses, Verdict, ctxVars, runnerVars
<1>9. CASE CancelRun \/ CancelWait \/ Deadline \/ UNCHANGED vars
  BY <1>9 DEF CancelRun, CancelWait, Deadline, vars, runnerVars
<1> QED
  BY <1>1, <1>2, <1>3, <1>4, <1>5, <1>6, <1>7, <1>8, <1>9
     DEF Next, Runner, Returned, Wait

\* What Wait reads and what it returns agree with the fate of the end node.
THEOREM VerdictCorrect == Spec => [](ResultInv /\ VerdictInv)
<1>1. ASSUME Init PROVE ResultInv /\ VerdictInv
  BY <1>1, EmptyFacts DEF Init, Fresh, ResultInv, VerdictInv
<1>2. TypeOK /\ StatusInv /\ ResultInv /\ VerdictInv /\ [Next]_vars => (ResultInv /\ VerdictInv)'
  BY ResultStep, VerdictStep
<1> QED
  BY <1>1, <1>2, TypeCorrect, StatusCorrect, PTL DEF Spec

\* If the end node's work went well, so did everybody's: the nodes that went
\* well are closed under parents, and the end node is reachable from all.
LEMMA EndOkMeansAllOk ==
    ASSUME DependencyOrder, Ok(EndNode)
    PROVE  \A n \in Node : Ok(n)
<1> DEFINE S == {n \in Node : Ok(n)}
<1>1. EndNode \in S
  BY NodeAssumption
<1>2. \A e \in Edges : e[2] \in S => e[1] \in S
  BY NodeAssumption DEF DependencyOrder, Parents
<1>3. S = Node
  BY <1>1, <1>2, GraphAssumption DEF FinishedGraph
<1> QED
  BY <1>3

\* A failure reaches every descendant: in a returned run, a node with a parent
\* that did not succeed did not succeed.
THEOREM FailurePropagatesHolds == Spec => []FailurePropagates
<1>1. StatusInv /\ DependencyOrder /\ VerdictInv => FailurePropagates
  BY NodeAssumption DEF FailurePropagates, StatusInv, DependencyOrder, VerdictInv, Ok, Parents
<1> QED
  BY <1>1, StatusCorrect, DependencyOrderHolds, VerdictCorrect, PTL

\* Unless its own context is done, Wait returns true exactly when every node
\* Succeeded.
THEOREM VerdictIsExactHolds == Spec => []VerdictIsExact
<1>1. TypeOK /\ DependencyOrder /\ VerdictInv => VerdictIsExact
  <2> SUFFICES ASSUME TypeOK, DependencyOrder, VerdictInv, main = "returned", ~waitDone
               PROVE  waitResult = "true" <=> \A n \in Node : status[n] = "Succeeded"
    BY DEF VerdictIsExact
  <2>1. ASSUME waitResult = "true" PROVE \A n \in Node : status[n] = "Succeeded"
    BY <2>1, EndOkMeansAllOk DEF VerdictInv, Ok
  <2>2. ASSUME waitResult # "true" PROVE status[EndNode] # "Succeeded"
    BY <2>2, NodeAssumption DEF VerdictInv, TypeOK, Bad
  <2> QED
    BY <2>1, <2>2, NodeAssumption
<1> QED
  BY <1>1, TypeCorrect, DependencyOrderHolds, VerdictCorrect, PTL

(***************************************************************************)
(* Each edge carries at most one signal.                                   *)
(***************************************************************************)

SentInv ==
    \A e \in Edges :
        /\ Len(sig[e]) <= 1
        /\ sig[e] # <<>> =>
              /\ pc[e[1]] \in {"postFlight", "notifyFailed", "postOk", "succeed", "done"}
              /\ e[2] \notin toNotify[e[1]]

\* A child that is still to be notified has an empty channel, and one that has a
\* signal is not notified again.
LEMMA SentStep == TypeOK /\ SentInv /\ [Next]_vars => SentInv'
<1> SUFFICES ASSUME TypeOK, SentInv, [Next]_vars, NEW e \in Edges
             PROVE  /\ Len(sig'[e]) <= 1
                    /\ sig'[e] # <<>> =>
                          /\ pc'[e[1]] \in {"postFlight", "notifyFailed", "postOk", "succeed", "done"}
                          /\ e[2] \notin toNotify'[e[1]]
  BY DEF SentInv
<1> DEFINE Sent == pc[e[1]] \in {"postFlight", "notifyFailed", "postOk", "succeed", "done"}
           Goal == /\ Len(sig'[e]) <= 1
                   /\ sig'[e] # <<>> => Sent' /\ e[2] \notin toNotify'[e[1]]
<1>0. /\ pc \in [Node -> RunnerPCs]
      /\ toNotify \in [Node -> SUBSET Node]
      /\ sig \in [Channels -> Seq({"Start", "Succeed", "Failed"})]
      /\ e \in Channels /\ e # Trigger /\ e[1] \in Node /\ e = <<e[1], e[2]>>
      /\ Len(sig[e]) <= 1
      /\ sig[e] # <<>> => Sent /\ e[2] \notin toNotify[e[1]]
  BY NodeAssumption DEF TypeOK, SentInv, Channels, Trigger
<1> USE <1>0 DEF Goto
<1>1. ASSUME NEW n \in Node, \/ Submit(n) \/ TakeTask(n) \/ CheckParentsStatus(n)
                             \/ PreFlightReturns(n) \/ InFlightSpecial(n) \/ BeginRunE(n)
      PROVE  Goal
  BY <1>1 DEF Submit, TakeTask, CheckParentsStatus, PreFlightReturns, InFlightSpecial,
              BeginRunE
<1>2. ASSUME NEW n \in Node, \/ EndRunE(n) \/ PostFlightReturns(n) \/ Succeed(n)
                             \/ Fail(n) \/ NotifyReturns(n)
      PROVE  Goal
  BY <1>2 DEF EndRunE, PostFlightReturns, Succeed, Fail, NotifyReturns
<1>3. ASSUME NEW n \in Node, SendResult(n) PROVE Goal
  BY <1>3 DEF SendResult, ReportedFrom, AfterReport
<1>4. ASSUME NEW n \in Node, NEW p \in Node \cup {Caller}, ReceiveSignal(n, p) PROVE Goal
  <2>1. CASE e = <<p, n>>
    <3>1. sig'[e] = Tail(sig[e]) /\ sig[e] # <<>>
      BY <1>4, <2>1 DEF ReceiveSignal
    <3>2. Len(Tail(sig[e])) = Len(sig[e]) - 1
      BY <3>1, TailFacts
    <3>3. Len(sig[e]) \in Nat
      BY LenFacts
    <3>4. Len(sig'[e]) <= 1
      BY <3>1, <3>2, <3>3
    <3>5. Sent' /\ e[2] \notin toNotify'[e[1]]
      BY <1>4, <3>1 DEF ReceiveSignal
    <3> QED
      BY <3>4, <3>5
  <2>2. CASE e # <<p, n>>
    BY <1>4, <2>2 DEF ReceiveSignal
  <2> QED
    BY <2>1, <2>2
<1>5. ASSUME NEW n \in Node, NEW p \in Node \cup {Caller}, AbandonSignal(n, p) PROVE Goal
  BY <1>5 DEF AbandonSignal
<1>6. ASSUME NEW n \in Node, NEW c \in Node, SendSignal(n, c) PROVE Goal
  <2> DEFINE signal == IF pc[n] = "postFlight" /\ succeed[n] THEN "Succeed" ELSE "Failed"
  <2>1. CASE e = <<n, c>> /\ sig' = [sig EXCEPT ![<<n, c>>] = Append(@, signal)]
    <3>1. e[1] = n /\ e[2] = c /\ sig[e] = <<>>
      BY <1>6, <2>1 DEF SendSignal
    <3>2. sig'[e] = Append(<<>>, signal)
      BY <2>1, <3>1
    <3>3. Len(sig'[e]) = 1
      BY <3>2, AppendFacts, EmptyFacts
    <3> QED
      BY <1>6, <3>1, <3>3 DEF SendSignal
  <2>2. CASE e # <<n, c>> \/ UNCHANGED sig
    BY <1>6, <2>2 DEF SendSignal
  <2> QED
    BY <1>6, <2>1, <2>2 DEF SendSignal
<1>7. CASE Start \/ StartMark \/ Relay \/ Wait
  BY <1>7 DEF Start, StartMark, Relay, Wait, WaitReceives, WaitInterrupted, PoolCloses,
              runnerVars
<1>8. CASE CancelRun \/ CancelWait \/ Deadline \/ UNCHANGED vars
  BY <1>8 DEF CancelRun, CancelWait, Deadline, vars, runnerVars
<1> QED
  BY <1>1, <1>2, <1>3, <1>4, <1>5, <1>6, <1>7, <1>8 DEF Next, Runner, Returned

\* An edge channel never holds a second signal and never one that contradicts
\* what its sender came to.
THEOREM SignalsAgreeHolds == Spec => []SignalsAgree
<1>1. ASSUME Init PROVE SentInv
  BY <1>1, EmptyFacts DEF Init, Fresh, SentInv, Channels
<1>2. SentInv /\ SignalFate => SignalsAgree
  BY DEF SentInv, SignalFate, SignalsAgree
<1> QED
  BY <1>1, <1>2, SentStep, TypeCorrect, DependencyCorrect, PTL DEF Spec, DependencyInv

(***************************************************************************)
(* Progress.                                                               *)
(***************************************************************************)

\* The user nodes MarkCompleted has counted.
Counted == {n \in UserNode : Ok(n) /\ pc[n] \notin {"inOk", "postFlight"}}

\* MarkCompleted counts one user node at a time, and counts it when it is done.
LEMMA CountedFrame ==
    ASSUME TypeOK, StatusInv, [Next]_vars
    PROVE  \/ Counted' = Counted /\ completed' = completed
           \/ \E n \in UserNode \ Counted :
                 Counted' = Counted \cup {n} /\ completed' = completed + 1
<1> DEFINE Same == Counted' = Counted /\ completed' = completed
<1>0. /\ pc \in [Node -> RunnerPCs]
      /\ status \in [Node -> {"Pending", "Running", "Succeeded", "Failed", "Skipped"}]
  BY DEF TypeOK
<1> USE <1>0 DEF Counted, Ok, Goto, TransitionStatus, UserNode
<1>1. ASSUME NEW n \in Node, \/ Submit(n) \/ TakeTask(n) \/ CheckParentsStatus(n)
      PROVE  Same
  BY <1>1 DEF Submit, TakeTask, CheckParentsStatus, StatusInv, TransitionsAccepted
<1>2. ASSUME NEW n \in Node, \/ PreFlightReturns(n) \/ InFlightSpecial(n) \/ BeginRunE(n)
                             \/ EndRunE(n)
      PROVE  Same
  BY <1>2 DEF PreFlightReturns, InFlightSpecial, BeginRunE, EndRunE
<1>3. ASSUME NEW n \in Node, SendResult(n) PROVE Same
  BY <1>3 DEF SendResult, ReportedFrom, AfterReport
<1>4. ASSUME NEW n \in Node, NEW p \in Node \cup {Caller},
             ReceiveSignal(n, p) \/ AbandonSignal(n, p) \/ SendSignal(n, p)
      PROVE  Same
  BY <1>4 DEF ReceiveSignal, AbandonSignal, SendSignal
<1>5. ASSUME NEW n \in Node, PostFlightReturns(n)
      PROVE  \/ Same
             \/ \E m \in UserNode \ Counted :
                   Counted' = Counted \cup {m} /\ completed' = completed + 1
  <2>1. CASE n \in UserNode
    <3>1. n \notin Counted
      BY <1>5 DEF PostFlightReturns
    <3>2. Counted' = Counted \cup {n}
      BY <1>5, <2>1 DEF PostFlightReturns
    <3> QED
      BY <1>5, <2>1, <3>1, <3>2 DEF PostFlightReturns
  <2>2. CASE n \notin UserNode
    BY <1>5, <2>2 DEF PostFlightReturns
  <2> QED
    BY <2>1, <2>2
<1>6. ASSUME NEW n \in Node, Succeed(n) \/ Fail(n) \/ NotifyReturns(n) PROVE Same
  BY <1>6 DEF Succeed, Fail, NotifyReturns, StatusInv, TransitionsAccepted, isValidTransition
<1>7. CASE Start \/ StartMark \/ Relay \/ Wait
  BY <1>7 DEF Start, StartMark, Relay, Wait, WaitReceives, WaitInterrupted, PoolCloses,
              runnerVars
<1>8. CASE CancelRun \/ CancelWait \/ Deadline \/ UNCHANGED vars
  BY <1>8 DEF CancelRun, CancelWait, Deadline, vars, runnerVars
<1> QED
  BY <1>1, <1>2, <1>3, <1>4, <1>5, <1>6, <1>7, <1>8 DEF Next, Runner, Returned

\* The counter and the set it counts grow together.
LEMMA ProgressStep ==
    TypeOK /\ StatusInv /\ ProgressIsExact /\ [Next]_vars => ProgressIsExact'
<1> SUFFICES ASSUME TypeOK, StatusInv, ProgressIsExact, [Next]_vars
             PROVE  ProgressIsExact'
  OBVIOUS
<1>1. completed = Cardinality(Counted)
  BY DEF ProgressIsExact, Counted
<1>2. IsFiniteSet(Counted)
  <2>1. Counted \subseteq Node
    BY DEF Counted, UserNode
  <2> QED
    BY <2>1, NodeAssumption, FS_Subset
<1>3. CASE Counted' = Counted /\ completed' = completed
  BY <1>1, <1>3 DEF ProgressIsExact, Counted
<1>4. ASSUME NEW n \in UserNode \ Counted,
             Counted' = Counted \cup {n}, completed' = completed + 1
      PROVE  ProgressIsExact'
  <2>1. Cardinality(Counted \cup {n}) = Cardinality(Counted) + 1
    BY <1>2, <1>4, FS_AddElement
  <2>2. completed' = Cardinality(Counted')
    BY <1>1, <1>4, <2>1
  <2> QED
    BY <2>2 DEF ProgressIsExact, Counted
<1> QED
  BY <1>3, <1>4, CountedFrame

\* The numerator of Progress counts exactly the user nodes past postFlight.
THEOREM ProgressIsExactHolds == Spec => []ProgressIsExact
<1>1. ASSUME Init PROVE ProgressIsExact
  <2>1. {n \in UserNode : Ok(n) /\ pc[n] \notin {"inOk", "postFlight"}} = {}
    BY <1>1 DEF Init, Fresh, Ok, UserNode
  <2> QED
    BY <1>1, <2>1, FS_EmptySet DEF ProgressIsExact, Init, Fresh
<1> QED
  BY <1>1, ProgressStep, TypeCorrect, StatusCorrect, PTL DEF Spec

\* When Wait returns true the whole dag has Succeeded and Progress is 1.
THEOREM WaitTrueMeansAllSucceededHolds == Spec => []WaitTrueMeansAllSucceeded
<1>1. DependencyOrder /\ VerdictInv /\ ProgressIsExact => WaitTrueMeansAllSucceeded
  <2> SUFFICES ASSUME DependencyOrder, VerdictInv, ProgressIsExact,
                      main = "returned", waitResult = "true"
               PROVE  /\ \A n \in Node : status[n] = "Succeeded"
                      /\ completed = Cardinality(UserNode)
    BY DEF WaitTrueMeansAllSucceeded
  <2>1. \A n \in Node : Ok(n) /\ pc[n] = "done"
    BY EndOkMeansAllOk DEF VerdictInv
  <2>2. \A n \in Node : status[n] = "Succeeded"
    BY <2>1 DEF Ok
  <2>3. {n \in UserNode : Ok(n) /\ pc[n] \notin {"inOk", "postFlight"}} = UserNode
    BY <2>1 DEF UserNode
  <2> QED
    BY <2>2, <2>3 DEF ProgressIsExact
<1> QED
  BY <1>1, DependencyOrderHolds, VerdictCorrect, ProgressIsExactHolds, PTL

(***************************************************************************)
(* GetReady: the queue and the workers have places for every node.         *)
(***************************************************************************)

\* While GetReady is under way, a node is still to be submitted.
SubmitsLeft == main = "getReady" => \E n \in Node : pc[n] = "idle"

\* Only the last Submit ends GetReady, and nothing else takes an idle node.
LEMMA SubmitsLeftStep == TypeOK /\ SubmitsLeft /\ [Next]_vars => SubmitsLeft'
<1> SUFFICES ASSUME pc \in [Node -> RunnerPCs], SubmitsLeft, [Next]_vars, main' = "getReady"
             PROVE  \E m \in Node : pc'[m] = "idle"
  BY DEF SubmitsLeft, TypeOK
<1> USE DEF SubmitsLeft
<1>1. ASSUME NEW n \in Node, Submit(n) PROVE \E m \in Node : pc'[m] = "idle"
  BY <1>1 DEF Submit, Goto
<1>2. CASE UNCHANGED <<pc, main>>
  BY <1>2
<1>3. ASSUME NEW n \in Node, TakeTask(n) \/ Runner(n)
      PROVE  \E m \in Node : pc'[m] = "idle"
  <2>1. main = "getReady"
    BY <1>3 DEF TakeTask, Runner, CheckParentsStatus, ReceiveSignal, AbandonSignal,
       PreFlightReturns, InFlightSpecial, BeginRunE, EndRunE, SendResult, SendSignal,
       PostFlightReturns, Succeed, Fail, NotifyReturns, callerVars
  <2>2. pc[n] # "idle" \/ UNCHANGED pc
    BY <1>3 DEF TakeTask, Runner, CheckParentsStatus, ReceiveSignal, AbandonSignal,
       PreFlightReturns, InFlightSpecial, BeginRunE, EndRunE, SendResult, SendSignal,
       PostFlightReturns, Succeed, Fail, NotifyReturns, Goto, ReportedFrom
  <2>3. \A m \in Node \ {n} : pc'[m] = pc[m]
    BY <1>3 DEF TakeTask, Runner, CheckParentsStatus, ReceiveSignal, AbandonSignal,
       PreFlightReturns, InFlightSpecial, BeginRunE, EndRunE, SendResult, SendSignal,
       PostFlightReturns, Succeed, Fail, NotifyReturns, Goto
  <2>4. PICK m \in Node : pc[m] = "idle"
    BY <2>1
  <2> QED
    BY <2>2, <2>3, <2>4
<1>4. CASE Relay \/ CancelRun \/ CancelWait \/ Deadline \/ Returned \/ UNCHANGED vars
  BY <1>2, <1>4 DEF Relay, CancelRun, CancelWait, Deadline, Returned, vars, callerVars,
     runnerVars
<1>5. CASE Start \/ StartMark \/ Wait
  BY <1>5 DEF Start, StartMark, Wait, WaitReceives, WaitInterrupted, PoolCloses, Verdict,
     callerVars
<1> QED
  BY <1>1, <1>3, <1>4, <1>5 DEF Next

\* A node in neither set leaves at most n - 1 places to fill: with n at most
\* three times the limit, either the queue or the workers have one left.
THEOREM GetReadyGoesOnHolds == Spec => []GetReadyGoesOn
<1>1. Init => SubmitsLeft
  BY NodeAssumption DEF Init, Fresh, SubmitsLeft
<1>2. SubmitsLeft => GetReadyGoesOn
  <2> SUFFICES ASSUME SubmitsLeft, main = "getReady", Cardinality(Node) <= 3 * Limit,
                      ~QueueHasRoom
               PROVE  Queued # {} /\ Cardinality(Busy) < Limit
    BY DEF GetReadyGoesOn
  <2> PICK n \in Node : pc[n] = "idle"
    BY DEF SubmitsLeft
  <2>1. IsFiniteSet(Node \ {n}) /\ Cardinality(Node \ {n}) = Cardinality(Node) - 1
    BY FS_RemoveElement, NodeAssumption
  <2>2. Cardinality(Node) \in Nat /\ Limit \in Nat
    BY FS_CardinalityType, NodeAssumption, ConfigAssumption DEF Limit
  <2>3. Queued \cup Busy \subseteq Node \ {n} /\ Queued \cap Busy = {}
    BY DEF Queued, Busy
  <2>4. /\ IsFiniteSet(Queued \cup Busy)
        /\ Cardinality(Queued \cup Busy) <= Cardinality(Node) - 1
    BY <2>1, <2>3, FS_Subset
  <2>5. IsFiniteSet(Queued) /\ IsFiniteSet(Busy)
    BY <2>3, <2>1, FS_Subset
  <2>6. Cardinality(Queued) \in Nat /\ Cardinality(Busy) \in Nat
    BY <2>5, FS_CardinalityType
  <2>7. Cardinality(Queued \cap Busy) = 0
    BY <2>3, FS_EmptySet
  <2>8. Cardinality(Queued \cup Busy) = Cardinality(Queued) + Cardinality(Busy)
    <3>1. Cardinality(Queued \cup Busy) =
            Cardinality(Queued) + Cardinality(Busy) - Cardinality(Queued \cap Busy)
      BY <2>5, FS_Union, Zenon
    <3> QED
      BY <3>1, <2>6, <2>7
  <2>9. Cardinality(Queued) >= 2 * Limit
    BY <2>2, <2>6 DEF QueueHasRoom
  <2>10. Cardinality(Busy) < Limit
    BY <2>2, <2>4, <2>8, <2>6, <2>9
  <2>11. Queued # {}
    BY <2>2, <2>6, <2>9, <2>10, FS_EmptySet
  <2> QED
    BY <2>10, <2>11
<1> QED
  BY <1>1, <1>2, SubmitsLeftStep, TypeCorrect, PTL DEF Spec

(***************************************************************************)
(* The run implements DagExec.                                             *)
(***************************************************************************)

\* The move of DagExec that one node's step makes.
JobMove(n) ==
    \/ Job(n) = "waiting" /\ Job(n)' = "running" /\ \A p \in Parents(n) : Ok(p)
    \/ Job(n) = "running" /\ Job(n)' \in {"ok", "failed"}
    \/ /\ Job(n) = "waiting" /\ Job(n)' = "failed"
       /\ runDone \/ \E p \in Parents(n) : Bad(p)

ContextFrame == UNCHANGED <<runDone, waitDone>> /\ (main' = "returned" <=> main = "returned")

\* A step of the run moves at most one job, and as DagExec allows.
LEMMA JobStep ==
    ASSUME TypeOK, StatusInv, DependencyInv, CauseInv, [Next]_vars
    PROVE  \/ \A m \in Node : Job(m)' = Job(m)
           \/ \E n \in Node : /\ \A m \in Node \ {n} : Job(m)' = Job(m)
                              /\ JobMove(n)
                              /\ ContextFrame
<1> DEFINE Same == \A m \in Node : Job(m)' = Job(m)
           Moves(n) == /\ \A m \in Node \ {n} : Job(m)' = Job(m)
                       /\ JobMove(n)
                       /\ ContextFrame
<1>0. /\ pc \in [Node -> RunnerPCs]
      /\ status \in [Node -> {"Pending", "Running", "Succeeded", "Failed", "Skipped"}]
  BY DEF TypeOK
<1> USE <1>0 DEF Job, Ok, Bad, Goto, TransitionStatus
<1>1. ASSUME NEW n \in Node, Submit(n) PROVE Same
  BY <1>1 DEF Submit
<1>2. ASSUME NEW n \in Node, TakeTask(n) PROVE Same \/ Moves(n)
  BY <1>2 DEF TakeTask, StatusInv, TransitionsAccepted, JobMove, ContextFrame, callerVars,
              ctxVars
<1>3. ASSUME NEW n \in Node, CheckParentsStatus(n) PROVE Same \/ Moves(n)
  <2>1. \A p \in Node : status[p] = "Failed" => Bad(p)
    BY DEF StatusInv, TransitionsAccepted, RunnerPCs
  <2>2. CASE \E p \in Parents(n) : status[p] = "Failed"
    <3>1. \E p \in Parents(n) : Bad(p)
      BY <2>1, <2>2 DEF Parents
    <3>2. Job(n) = "waiting" /\ Job(n)' = "failed"
      BY <1>3, <2>2 DEF CheckParentsStatus
    <3>3. \A m \in Node \ {n} : Job(m)' = Job(m)
      BY <1>3 DEF CheckParentsStatus
    <3> QED
      BY <1>3, <3>1, <3>2, <3>3 DEF CheckParentsStatus, JobMove, ContextFrame, callerVars, ctxVars
  <2>3. CASE ~ \E p \in Parents(n) : status[p] = "Failed"
    BY <1>3, <2>3 DEF CheckParentsStatus
  <2> QED
    BY <2>2, <2>3
<1>4. ASSUME NEW n \in Node, PreFlightReturns(n) PROVE Moves(n)
  <2>1. ~egErr[n] => \A p \in Parents(n) : Ok(p)
    BY <1>4 DEF PreFlightReturns, DependencyInv, HeardInv
  <2>2. egErr[n] => runDone \/ \E p \in Parents(n) : Bad(p)
    BY DEF CauseInv, EgErrInv
  <2>3. Job(n) = "waiting" /\ Job(n)' = (IF egErr[n] THEN "failed" ELSE "running")
    BY <1>4 DEF PreFlightReturns
  <2>4. \A m \in Node \ {n} : Job(m)' = Job(m)
    BY <1>4 DEF PreFlightReturns
  <2> HIDE DEF Job, Ok, Bad
  <2> QED
    BY <1>4, <2>1, <2>2, <2>3, <2>4
       DEF PreFlightReturns, JobMove, ContextFrame, callerVars, ctxVars
<1>5. ASSUME NEW n \in Node, InFlightSpecial(n) \/ EndRunE(n) PROVE Moves(n)
  BY <1>5 DEF InFlightSpecial, EndRunE, JobMove, ContextFrame, callerVars, ctxVars
<1>6. ASSUME NEW n \in Node, BeginRunE(n) PROVE Same
  BY <1>6 DEF BeginRunE, DependencyInv, SucceedInv
<1>7. ASSUME NEW n \in Node, SendResult(n) PROVE Same
  BY <1>7 DEF SendResult, ReportedFrom, AfterReport
<1>8. ASSUME NEW n \in Node,
             \/ PostFlightReturns(n) \/ Succeed(n) \/ Fail(n) \/ NotifyReturns(n)
      PROVE  Same
  BY <1>8 DEF PostFlightReturns, Succeed, Fail, NotifyReturns, StatusInv,
              TransitionsAccepted, isValidTransition
<1>9. ASSUME NEW n \in Node, NEW p \in Node \cup {Caller},
             ReceiveSignal(n, p) \/ AbandonSignal(n, p) \/ SendSignal(n, p)
      PROVE  Same
  BY <1>9 DEF ReceiveSignal, AbandonSignal, SendSignal
<1>10. CASE Start \/ StartMark \/ Relay \/ Wait
  BY <1>10 DEF Start, StartMark, Relay, Wait, WaitReceives, WaitInterrupted, PoolCloses,
               runnerVars
<1>11. CASE CancelRun \/ CancelWait \/ Deadline \/ UNCHANGED vars
  BY <1>11 DEF CancelRun, CancelWait, Deadline, vars, runnerVars
<1> QED
  BY <1>1, <1>2, <1>3, <1>4, <1>5, <1>6, <1>7, <1>8, <1>9, <1>10, <1>11
     DEF Next, Runner, Returned

\* A step that moves no job is a step of the contexts, of Wait, or neither.
LEMMA CallerStep ==
    ASSUME TypeOK, VerdictInv, [Next]_vars
    PROVE  \/ /\ UNCHANGED <<runDone, waitDone>>
              /\ main' = "returned" <=> main = "returned"
              /\ main = "returned" => UNCHANGED waitResult
           \/ (runDone' \/ waitDone') /\ UNCHANGED <<main, waitResult>>
           \/ PoolCloses
<1> USE DEF TypeOK
<1>1. ASSUME NEW n \in Node, Submit(n) PROVE UNCHANGED <<runDone, waitDone, waitResult>>
                                             /\ main # "returned" /\ main' # "returned"
  BY <1>1 DEF Submit, ctxVars
<1>2. ASSUME NEW n \in Node, TakeTask(n) \/ Runner(n)
      PROVE  UNCHANGED <<runDone, waitDone, main, waitResult>>
  BY <1>2 DEF TakeTask, Runner, CheckParentsStatus, ReceiveSignal, AbandonSignal,
     PreFlightReturns, InFlightSpecial, BeginRunE, EndRunE, SendResult, SendSignal,
     PostFlightReturns, Succeed, Fail, NotifyReturns, callerVars, ctxVars
<1>3. CASE Start \/ StartMark \/ Relay \/ WaitReceives \/ WaitInterrupted
  BY <1>3 DEF Start, StartMark, Relay, WaitReceives, WaitInterrupted, Verdict, callerVars,
     ctxVars
<1>4. CASE CancelRun \/ CancelWait \/ Deadline
  BY <1>4 DEF CancelRun, CancelWait, Deadline, callerVars
<1>5. CASE UNCHANGED vars
  BY <1>5 DEF vars, callerVars, ctxVars
<1> QED
  BY <1>1, <1>2, <1>3, <1>4, <1>5 DEF Next, Wait, Returned

\* Every step of the run is a step of DagExec, or changes nothing it can see.
LEMMA ExecStep ==
    ASSUME TypeOK, StatusInv, DependencyInv, CauseInv, VerdictInv, [Next]_vars
    PROVE  [Exec!Next]_(Exec!execVars)
<1> DEFINE job == [n \in Node |-> Job(n)]
           cancelled == runDone \/ waitDone
           verdict == IF main = "returned" THEN waitResult ELSE "none"
<1>1. ASSUME NEW n \in Node, \A m \in Node \ {n} : Job(m)' = Job(m),
             JobMove(n), ContextFrame
      PROVE  Exec!Next
  <2>1. job' = [job EXCEPT ![n] = Job(n)']
    BY <1>1
  <2>2. UNCHANGED cancelled
    BY <1>1 DEF ContextFrame
  <2>3. UNCHANGED verdict
    BY <1>1, CallerStep DEF ContextFrame, PoolCloses
  <2>4. \A p \in Parents(n) : (Ok(p) => job[p] = "ok") /\ (Bad(p) => job[p] = "failed")
    BY DEF Job, Ok, Bad, Parents
  <2>5. Exec!Parents(n) = Parents(n)
    BY DEF Exec!Parents, Parents
  <2>6. CASE Job(n) = "waiting" /\ Job(n)' = "running" /\ \A p \in Parents(n) : Ok(p)
    <3>1. Exec!Begin(n)
      BY <2>1, <2>2, <2>3, <2>4, <2>5, <2>6 DEF Exec!Begin, Exec!Move
    <3> QED
      BY <3>1 DEF Exec!Next
  <2>7. CASE Job(n) = "running" /\ Job(n)' \in {"ok", "failed"}
    <3>1. Exec!Complete(n) \/ Exec!Fail(n)
      BY <2>1, <2>2, <2>3, <2>7 DEF Exec!Complete, Exec!Fail, Exec!Move
    <3> QED
      BY <3>1 DEF Exec!Next
  <2>8. CASE /\ Job(n) = "waiting" /\ Job(n)' = "failed"
             /\ runDone \/ \E p \in Parents(n) : Bad(p)
    <3>1. Exec!Abandon(n)
      BY <2>1, <2>2, <2>3, <2>4, <2>5, <2>8 DEF Exec!Abandon, Exec!Move
    <3> QED
      BY <3>1 DEF Exec!Next
  <2> QED
    BY <1>1, <2>6, <2>7, <2>8 DEF JobMove
<1>2. ASSUME \A m \in Node : Job(m)' = Job(m)
      PROVE  [Exec!Next]_(Exec!execVars)
  <2>1. UNCHANGED job
    BY <1>2
  <2>2. CASE /\ UNCHANGED <<runDone, waitDone>>
             /\ main' = "returned" <=> main = "returned"
             /\ main = "returned" => UNCHANGED waitResult
    <3>1. UNCHANGED cancelled /\ UNCHANGED verdict
      BY <2>2
    <3> QED
      BY <2>1, <3>1 DEF Exec!execVars
  <2>3. CASE (runDone' \/ waitDone') /\ UNCHANGED <<main, waitResult>>
    <3>1. cancelled' = TRUE /\ UNCHANGED verdict
      BY <2>3
    <3>2. Exec!Cancel
      BY <2>1, <3>1 DEF Exec!Cancel
    <3> QED
      BY <3>2 DEF Exec!Next
  <2>4. CASE PoolCloses
    <3>1. /\ verdict = "none" /\ verdict' = waitResult
          /\ waitResult \in {"true", "false"}
          /\ UNCHANGED cancelled
      BY <2>4 DEF PoolCloses, VerdictInv, TypeOK, ctxVars
    <3>2. waitResult = "true" => \A n \in Node : job[n] = "ok"
      BY EndOkMeansAllOk DEF VerdictInv, DependencyInv, Job
    <3>3. waitResult = "false" => cancelled \/ job[EndNode] = "failed"
      BY NodeAssumption DEF VerdictInv, Job, Ok, Bad
    <3>4. Exec!Return(waitResult)
      BY <2>1, <3>1, <3>2, <3>3 DEF Exec!Return
    <3> QED
      BY <3>1, <3>4 DEF Exec!Next
  <2> QED
    BY <2>2, <2>3, <2>4, CallerStep
<1> QED
  BY <1>1, <1>2, JobStep

\* Every run is a run of DagExec: jobs begin in dependency order, are abandoned
\* for a cause, and the verdict of Wait is earned.
THEOREM Refinement == Spec => RefinesExec
<1>1. Init => Exec!Init
  BY DEF Init, Fresh, Exec!Init, Job, Ok, Bad
<1>2. TypeOK /\ StatusInv /\ DependencyInv /\ CauseInv /\ VerdictInv /\ [Next]_vars
        => [Exec!Next]_(Exec!execVars)
  BY ExecStep
<1>3. Spec => []CauseInv
  BY CauseCorrect
<1> QED
  BY <1>1, <1>2, <1>3, TypeCorrect, StatusCorrect, DependencyCorrect, VerdictCorrect, PTL
     DEF Spec, RefinesExec, Exec!Spec
=============================================================================
