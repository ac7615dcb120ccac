-------------------------- MODULE DagRunEndsProofs --------------------------
(***************************************************************************)
(* Proofs that a run of DagRun is never stuck and only goes forward: what  *)
(* is left to the fairness of the scheduler is that it lets somebody who   *)
(* can take a step take one.                                               *)
(***************************************************************************)
EXTENDS DagRunProofs, DagGraphProofs

(***************************************************************************)
(* Signals are delivered: nobody waits for a source that has come and gone.*)
(***************************************************************************)

\* The receiver of n for source p has not had its signal yet.
Unheard(p, n) ==
    \/ pc[n] \in {"idle", "queued", "check"}
    \/ pc[n] = "preFlight" /\ p \in waiting[n]

\* Source p has nothing more to send to n.
Told(p, n) ==
    \/ p = Caller /\ main \notin {"getReady", "start"}
    \/ /\ p \in Node
       /\ \/ pc[p] \in {"postOk", "succeed", "done"}
          \/ pc[p] \in {"postFlight", "notifyFailed"} /\ n \notin toNotify[p]

DeliveredInv ==
    ~runDone => \A n \in Node : \A p \in Sources(n) :
        Told(p, n) /\ Unheard(p, n) => sig[<<p, n>>] # <<>>

\* A receiver that has returned does not come back.
LEMMA UnheardStep ==
    ASSUME TypeOK, [Next]_vars, NEW n \in Node, NEW p, Unheard(p, n)'
    PROVE  Unheard(p, n)
<1>0. /\ pc \in [Node -> RunnerPCs]
      /\ waiting \in [Node -> SUBSET (Node \cup {Caller})]
  BY DEF TypeOK
<1> USE <1>0 DEF Unheard, Goto
<1>1. ASSUME NEW m \in Node,
             \/ Submit(m) \/ TakeTask(m) \/ CheckParentsStatus(m) \/ PreFlightReturns(m)
      PROVE  Unheard(p, n)
  BY <1>1 DEF Submit, TakeTask, CheckParentsStatus, PreFlightReturns
<1>2. ASSUME NEW m \in Node, NEW q \in Node \cup {Caller},
             ReceiveSignal(m, q) \/ AbandonSignal(m, q) \/ SendSignal(m, q)
      PROVE  Unheard(p, n)
  BY <1>2 DEF ReceiveSignal, AbandonSignal, SendSignal
<1>3. ASSUME NEW m \in Node,
             \/ InFlightSpecial(m) \/ BeginRunE(m) \/ EndRunE(m) \/ PostFlightReturns(m)
             \/ Succeed(m) \/ Fail(m) \/ NotifyReturns(m)
      PROVE  Unheard(p, n)
  BY <1>3 DEF InFlightSpecial, BeginRunE, EndRunE, PostFlightReturns, Succeed, Fail,
              NotifyReturns
<1>4. ASSUME NEW m \in Node, SendResult(m) PROVE Unheard(p, n)
  BY <1>4 DEF SendResult, ReportedFrom, AfterReport
<1>5. CASE Start \/ StartMark \/ Relay \/ Wait
  BY <1>5 DEF Start, StartMark, Relay, Wait, WaitReceives, WaitInterrupted, PoolCloses,
              runnerVars
<1>6. CASE CancelRun \/ CancelWait \/ Deadline \/ UNCHANGED vars
  BY <1>6 DEF CancelRun, CancelWait, Deadline, vars, runnerVars
<1> QED
  BY <1>1, <1>2, <1>3, <1>4, <1>5, <1>6 DEF Next, Runner, Returned

\* A source is through with n only once it has sent n its signal, or when the
\* run is cancelled.
LEMMA ToldStep ==
    ASSUME TypeOK, [Next]_vars, NEW n \in Node, NEW p \in Sources(n), Told(p, n)', ~Told(p, n)
    PROVE  \/ runDone
           \/ p = Caller /\ Start
           \/ p \in Node /\ SendSignal(p, n)
<1>0. /\ pc \in [Node -> RunnerPCs]
      /\ toNotify \in [Node -> SUBSET Node]
      /\ p \in Node => n \in Children(p) /\ p # EndNode
      /\ Caller \notin Node
  <2>1. <<EndNode, n>> \notin Edges
    BY GraphAssumption DEF FinishedGraph
  <2>2. p \in Node => <<p, n>> \in Edges
    BY NodeAssumption DEF Sources, Channels, Trigger
  <2> QED
    BY <2>1, <2>2, NodeAssumption DEF TypeOK, Children
<1> DEFINE Goal == \/ runDone
                   \/ p = Caller /\ Start
                   \/ p \in Node /\ SendSignal(p, n)
<1> USE <1>0 DEF Told, Goto
<1>1. ASSUME NEW m \in Node,
             \/ Submit(m) \/ TakeTask(m) \/ CheckParentsStatus(m) \/ PreFlightReturns(m)
      PROVE  Goal
  BY <1>1 DEF Submit, TakeTask, CheckParentsStatus, PreFlightReturns, callerVars
<1>2. ASSUME NEW m \in Node, NEW q \in Node \cup {Caller},
             ReceiveSignal(m, q) \/ AbandonSignal(m, q)
      PROVE  Goal
  BY <1>2 DEF ReceiveSignal, AbandonSignal, callerVars
<1>3. ASSUME NEW m \in Node, NEW c \in Node, SendSignal(m, c) PROVE Goal
  BY <1>3 DEF SendSignal, callerVars
<1>4. ASSUME NEW m \in Node,
             \/ InFlightSpecial(m) \/ BeginRunE(m) \/ EndRunE(m) \/ PostFlightReturns(m)
             \/ Succeed(m) \/ Fail(m) \/ NotifyReturns(m)
      PROVE  Goal
  BY <1>4 DEF InFlightSpecial, BeginRunE, EndRunE, PostFlightReturns, Succeed, Fail,
              NotifyReturns, callerVars
<1>5. ASSUME NEW m \in Node, SendResult(m) PROVE Goal
  BY <1>5 DEF SendResult, ReportedFrom, AfterReport, callerVars
<1>6. CASE Start \/ StartMark \/ Relay \/ Wait
  BY <1>6 DEF Start, StartMark, Relay, Wait, WaitReceives, WaitInterrupted, PoolCloses,
              runnerVars, Verdict, callerVars
<1>7. CASE CancelRun \/ CancelWait \/ Deadline \/ UNCHANGED vars
  BY <1>7 DEF CancelRun, CancelWait, Deadline, vars, runnerVars, callerVars
<1> QED
  BY <1>1, <1>2, <1>3, <1>4, <1>5, <1>6, <1>7 DEF Next, Runner, Returned

\* A signal sent to a receiver that waits for it stays in the channel.
LEMMA DeliveredStep == TypeOK /\ StatusInv /\ DeliveredInv /\ [Next]_vars => DeliveredInv'
<1> SUFFICES ASSUME TypeOK, StatusInv, DeliveredInv, [Next]_vars, ~runDone',
                    NEW n \in Node, NEW p \in Sources(n), Told(p, n)', Unheard(p, n)'
             PROVE  sig'[<<p, n>>] # <<>>
  BY DEF DeliveredInv
<1>1. ~runDone /\ Unheard(p, n)
  BY StatusStep, UnheardStep DEF Stable
<1>2. /\ sig \in [Channels -> Seq({"Start", "Succeed", "Failed"})]
      /\ <<p, n>> \in Channels
  BY DEF TypeOK, Sources
<1>3. CASE Told(p, n)
  <2>1. sig[<<p, n>>] # <<>>
    BY <1>1, <1>3 DEF DeliveredInv
  <2>2. CASE Start
    BY <1>2, <2>1, <2>2, AppendFacts DEF Start
  <2>3. ASSUME NEW m \in Node, NEW q \in Node \cup {Caller}, ReceiveSignal(m, q)
        PROVE  sig'[<<p, n>>] # <<>>
    <3>1. <<q, m>> # <<p, n>>
      BY <2>3 DEF ReceiveSignal, Unheard, TypeOK
    <3> QED
      BY <1>2, <2>1, <2>3, <3>1 DEF ReceiveSignal
  <2>4. ASSUME NEW m \in Node, NEW c \in Node, SendSignal(m, c)
        PROVE  sig'[<<p, n>>] # <<>>
    <3> DEFINE signal == IF pc[m] = "postFlight" /\ succeed[m] THEN "Succeed" ELSE "Failed"
    <3>1. Append(sig[<<p, n>>], signal) # <<>>
      BY <1>2, AppendFacts
    <3> QED
      BY <1>2, <2>1, <2>4, <3>1 DEF SendSignal
  <2> QED
    BY <2>1, <2>2, <2>3, <2>4, SigFrame
<1>4. CASE ~Told(p, n) /\ p = Caller /\ Start
  <2>1. <<p, n>> = Trigger
    BY <1>4, <1>2, NodeAssumption DEF Channels, Trigger
  <2> QED
    <3>1. Append(sig[Trigger], "Start") # <<>>
      BY <1>2, <2>1, AppendFacts
    <3> QED
      BY <1>2, <1>4, <2>1, <3>1 DEF Start
<1>5. CASE ~Told(p, n) /\ p \in Node /\ SendSignal(p, n)
  <2> DEFINE signal == IF pc[p] = "postFlight" /\ succeed[p] THEN "Succeed" ELSE "Failed"
  <2>1. Append(sig[<<p, n>>], signal) # <<>>
    BY <1>2, AppendFacts
  <2> QED
    BY <1>1, <1>2, <1>5, <2>1 DEF SendSignal
<1> QED
  BY <1>1, <1>3, <1>4, <1>5, ToldStep

(***************************************************************************)
(* The end node's last result is not lost.                                 *)
(***************************************************************************)

\* A result that makes Wait return.
Final(r) == r \in FailedResults \/ r = "FlightEnd"

HoldsFinal(q) == \E i \in DOMAIN q : Final(q[i])

\* The end node has sent its last result.
EndReported == pc[EndNode] \in {"succeed", "fail", "notifyFailed", "done"}

ArrivalInv ==
    /\ ~relaying => waitDone
    /\ ~runDone /\ ~waitDone /\ main \notin {"closePool", "returned"} /\ EndReported
        => HoldsFinal(endResult) \/ HoldsFinal(merged)

\* Sending keeps what is in the channel and adds what is sent.
LEMMA AppendKeepsFinal ==
    ASSUME NEW T, NEW q \in Seq(T), NEW x \in T, HoldsFinal(q) \/ Final(x)
    PROVE  HoldsFinal(Append(q, x))
<1>1. CASE HoldsFinal(q)
  <2>1. PICK i \in DOMAIN q : Final(q[i])
    BY <1>1 DEF HoldsFinal
  <2>2. i \in DOMAIN Append(q, x) /\ Append(q, x)[i] = q[i]
    OBVIOUS
  <2> QED
    BY <2>1, <2>2 DEF HoldsFinal
<1>2. CASE Final(x)
  <2>1. Len(q) + 1 \in DOMAIN Append(q, x) /\ Append(q, x)[Len(q) + 1] = x
    OBVIOUS
  <2> QED
    BY <1>2, <2>1 DEF HoldsFinal
<1> QED
  BY <1>1, <1>2

\* Receiving takes the head alone.
LEMMA TailKeepsFinal ==
    ASSUME NEW T, NEW q \in Seq(T), q # <<>>, HoldsFinal(q)
    PROVE  Final(Head(q)) \/ HoldsFinal(Tail(q))
<1>1. PICK i \in DOMAIN q : Final(q[i])
  BY DEF HoldsFinal
<1>2. CASE i = 1
  BY <1>1, <1>2
<1>3. CASE i # 1
  <2>1. i - 1 \in DOMAIN Tail(q) /\ Tail(q)[i - 1] = q[i]
    BY <1>3
  <2> QED
    BY <1>1, <2>1 DEF HoldsFinal
<1> QED
  BY <1>2, <1>3

\* The end node reports a final result before it goes on, the relay and Wait
\* hand it on, and Wait keeps reading until it has one.
LEMMA ArrivalStep == TypeOK /\ StatusInv /\ ArrivalInv /\ [Next]_vars => ArrivalInv'
<1> SUFFICES ASSUME TypeOK, StatusInv, ArrivalInv, [Next]_vars
             PROVE  ArrivalInv'
  OBVIOUS
<1>0. /\ pc \in [Node -> RunnerPCs] /\ EndNode \in Node
      /\ endResult \in Seq(Results) /\ merged \in Seq(Results)
      /\ relaying \in BOOLEAN /\ runDone \in BOOLEAN /\ waitDone \in BOOLEAN
      /\ runDone => runDone'
      /\ waitDone => waitDone'
  BY StatusStep, NodeAssumption DEF Stable, TypeOK
<1> DEFINE Late == \/ runDone \/ waitDone \/ main \in {"closePool", "returned"}
           Arrives == HoldsFinal(endResult) \/ HoldsFinal(merged)
<1>i. (~relaying => waitDone) /\ (Late \/ ~EndReported \/ Arrives)
  BY DEF ArrivalInv
<1>g. SUFFICES (~relaying' => waitDone') /\ (Late' \/ ~EndReported' \/ Arrives')
  BY DEF ArrivalInv
<1>p. (\A r : Final(r)' <=> Final(r)) /\ (Arrives' <=> HoldsFinal(endResult') \/ HoldsFinal(merged'))
  BY DEF Final, HoldsFinal
<1> HIDE DEF Arrives
<1>1. ASSUME NEW n \in Node, SendResult(n)
      PROVE  UNCHANGED <<relaying, waitDone>> /\ (Late' \/ ~EndReported' \/ Arrives')
  <2>1. UNCHANGED <<relaying, waitDone, runDone, main, merged>>
    BY <1>1 DEF SendResult, callerVars, ctxVars
  <2>2. CASE n # EndNode
    <3>1. UNCHANGED <<endResult, EndReported>>
      BY <1>0, <1>1, <2>2 DEF SendResult, EndReported
    <3> QED
      BY <1>i, <1>p, <2>1, <3>1 DEF Arrives
  <2>3. CASE n = EndNode /\ endResult' = Append(endResult, ReportedResult(n))
    <3>1. ReportedResult(n) \in Results
      BY <1>1 DEF SendResult, ReportedFrom, ReportedResult, Results, FailedResults
    <3>2. EndReported' => HoldsFinal(endResult) \/ Final(ReportedResult(n))
      BY <1>0, <1>1, <2>3 DEF SendResult, ReportedFrom, ReportedResult, AfterReport,
                              EndReported, Final, FailedResults
    <3>3. EndReported' => HoldsFinal(Append(endResult, ReportedResult(n)))
      BY <1>0, <3>1, <3>2, AppendKeepsFinal
    <3> QED
      BY <1>p, <2>1, <2>3, <3>3
  <2>4. CASE n = EndNode /\ runDone
    BY <2>1, <2>4
  <2> QED
    BY <1>1, <2>1, <2>2, <2>3, <2>4 DEF SendResult
<1>2. CASE Relay
  <2>1. endResult # <<>> /\ endResult' = Tail(endResult) /\ UNCHANGED <<main, runDone, waitDone, pc>>
    BY <1>2 DEF Relay, callerVars, ctxVars, runnerVars
  <2>2. CASE waitDone
    BY <1>0, <2>2
  <2>3. CASE merged' = Append(merged, Head(endResult)) /\ UNCHANGED relaying
    <3>1. Head(endResult) \in Results
      BY <1>0, <2>1, TailFacts
    <3>2. Arrives => Arrives'
      <4>1. CASE HoldsFinal(endResult)
        <5>1. Final(Head(endResult)) \/ HoldsFinal(Tail(endResult))
          BY <1>0, <2>1, <4>1, TailKeepsFinal
        <5> QED
          BY <1>0, <1>p, <2>1, <2>3, <3>1, <5>1, AppendKeepsFinal
      <4>2. CASE HoldsFinal(merged)
        BY <1>0, <1>p, <2>3, <3>1, <4>2, AppendKeepsFinal
      <4> QED
        BY <4>1, <4>2 DEF Arrives
    <3>3. UNCHANGED EndReported
      BY <2>1 DEF EndReported
    <3> QED
      BY <1>i, <2>1, <2>3, <3>2, <3>3
  <2> QED
    BY <1>2, <2>2, <2>3 DEF Relay
<1>3. CASE WaitReceives
  <2>1. /\ merged # <<>> /\ merged' = Tail(merged)
        /\ UNCHANGED <<pc, endResult, relaying, runDone, waitDone>>
    BY <1>3 DEF WaitReceives, ctxVars, runnerVars
  <2>2. CASE Final(Head(merged))
    BY <1>i, <1>3, <2>1, <2>2 DEF WaitReceives, Verdict, Final
  <2>3. CASE ~Final(Head(merged))
    <3>1. UNCHANGED main /\ UNCHANGED EndReported
      BY <1>3, <2>1, <2>3 DEF WaitReceives, Final, callerVars, EndReported
    <3>2. Arrives => Arrives'
      BY <1>0, <1>p, <2>1, <2>3, TailKeepsFinal DEF Arrives
    <3> QED
      BY <1>i, <2>1, <3>1, <3>2
  <2> QED
    BY <2>2, <2>3
<1>4. ASSUME UNCHANGED <<endResult, merged, relaying>>, (EndReported' => EndReported \/ runDone),
             (Late => Late')
      PROVE  (~relaying' => waitDone') /\ (Late' \/ ~EndReported' \/ Arrives')
  BY <1>0, <1>i, <1>p, <1>4 DEF Arrives
<1>5. ASSUME NEW n \in Node, \/ Submit(n) \/ TakeTask(n)
      PROVE  UNCHANGED <<endResult, merged, relaying>> /\ (EndReported' => EndReported \/ runDone)
             /\ (Late => Late')
  BY <1>0, <1>5 DEF Submit, TakeTask, Goto, EndReported, resultVars, ctxVars, callerVars
<1>6. ASSUME NEW n \in Node, Runner(n), ~SendResult(n)
      PROVE  UNCHANGED <<endResult, merged, relaying>> /\ (EndReported' => EndReported \/ runDone)
             /\ (Late => Late')
  <2>1. UNCHANGED <<endResult, merged, relaying, main, runDone, waitDone>>
    BY <1>6 DEF Runner, CheckParentsStatus, ReceiveSignal, AbandonSignal, PreFlightReturns,
       InFlightSpecial, BeginRunE, EndRunE, SendSignal, PostFlightReturns, Succeed, Fail,
       NotifyReturns, resultVars, callerVars, ctxVars
  <2>2. EndReported' => EndReported
    BY <1>0, <1>6 DEF Runner, CheckParentsStatus, ReceiveSignal, AbandonSignal, PreFlightReturns,
       InFlightSpecial, BeginRunE, EndRunE, SendSignal, PostFlightReturns, Succeed, Fail,
       NotifyReturns, Goto, EndReported
  <2> QED
    BY <2>1, <2>2
<1>7. CASE Start \/ StartMark \/ WaitInterrupted \/ PoolCloses
  BY <1>0, <1>4, <1>7 DEF Start, StartMark, WaitInterrupted, PoolCloses, Verdict, EndReported,
     resultVars, runnerVars, ctxVars
<1>8. CASE CancelRun \/ CancelWait \/ Deadline \/ UNCHANGED vars
  BY <1>0, <1>4, <1>8 DEF CancelRun, CancelWait, Deadline, vars, EndReported, resultVars,
     runnerVars, callerVars, ctxVars
<1> QED
  BY <1>0, <1>i, <1>1, <1>2, <1>3, <1>4, <1>5, <1>6, <1>7, <1>8 DEF Next, Wait, Runner, Returned

(***************************************************************************)
(* Nobody is stuck.                                                        *)
(***************************************************************************)

\* When GetReady has returned, every node has been submitted.
AllSubmitted == main # "getReady" => \A n \in Node : pc[n] # "idle"

\* Only the Submit of the last idle node ends GetReady.
LEMMA AllSubmittedStep == TypeOK /\ AllSubmitted /\ [Next]_vars => AllSubmitted'
<1> SUFFICES ASSUME pc \in [Node -> RunnerPCs], AllSubmitted, [Next]_vars, main' # "getReady",
                    NEW n \in Node
             PROVE  pc'[n] # "idle"
  BY DEF AllSubmitted, TypeOK
<1>1. ASSUME NEW m \in Node, Submit(m) PROVE pc'[n] # "idle"
  BY <1>1 DEF Submit, Goto
<1>2. ASSUME NEW m \in Node, TakeTask(m) \/ Runner(m) PROVE pc'[n] # "idle"
  <2>1. UNCHANGED main
    BY <1>2 DEF TakeTask, Runner, CheckParentsStatus, ReceiveSignal, AbandonSignal,
       PreFlightReturns, InFlightSpecial, BeginRunE, EndRunE, SendResult, SendSignal,
       PostFlightReturns, Succeed, Fail, NotifyReturns, callerVars
  <2>2. pc'[n] = "idle" => pc[n] = "idle"
    BY <1>2 DEF TakeTask, Runner, CheckParentsStatus, ReceiveSignal, AbandonSignal,
       PreFlightReturns, InFlightSpecial, BeginRunE, EndRunE, SendResult, AfterReport,
       SendSignal, PostFlightReturns, Succeed, Fail, NotifyReturns, Goto
  <2> QED
    BY <2>1, <2>2 DEF AllSubmitted
<1>3. CASE Start \/ StartMark \/ Relay \/ Wait
  BY <1>3 DEF AllSubmitted, Start, StartMark, Relay, Wait, WaitReceives, WaitInterrupted,
     PoolCloses, Verdict, runnerVars, callerVars
<1>4. CASE CancelRun \/ CancelWait \/ Deadline \/ UNCHANGED vars
  BY <1>4 DEF AllSubmitted, CancelRun, CancelWait, Deadline, vars, runnerVars, callerVars
<1> QED
  BY <1>1, <1>2, <1>3, <1>4 DEF Next, Returned

GoesOnInv ==
    /\ TypeOK
    /\ SentInv
    /\ SubmitsLeft
    /\ AllSubmitted
    /\ DeliveredInv
    /\ ArrivalInv

\* What the next theorem argues from holds throughout.
THEOREM GoesOnCorrect == Spec => []GoesOnInv
<1>1. ASSUME Init PROVE SentInv /\ SubmitsLeft /\ AllSubmitted /\ DeliveredInv /\ ArrivalInv
  <2>1. SentInv
    BY <1>1, EmptyFacts DEF Init, Fresh, SentInv, Channels
  <2>2. SubmitsLeft /\ AllSubmitted
    BY <1>1, NodeAssumption DEF Init, Fresh, SubmitsLeft, AllSubmitted
  <2>3. DeliveredInv
    BY <1>1 DEF Init, Fresh, DeliveredInv, Told
  <2>4. ArrivalInv
    BY <1>1, NodeAssumption DEF Init, Fresh, ArrivalInv, EndReported
  <2> QED
    BY <2>1, <2>2, <2>3, <2>4
<1>2. TypeOK /\ StatusInv /\ SentInv /\ SubmitsLeft /\ AllSubmitted /\ DeliveredInv /\ ArrivalInv
        /\ [Next]_vars
      => (SentInv /\ SubmitsLeft /\ AllSubmitted /\ DeliveredInv /\ ArrivalInv)'
  BY SentStep, SubmitsLeftStep, AllSubmittedStep, DeliveredStep, ArrivalStep
<1> QED
  BY <1>1, <1>2, TypeCorrect, StatusCorrect, PTL DEF Spec, GoesOnInv

\* With a worker for every node, a task in the queue finds one that is free.
LEMMA WorkerIsFree ==
    ASSUME Cardinality(Node) <= WorkerPoolSize, Queued # {}
    PROVE  Cardinality(Busy) < Limit
<1>1. PICK n \in Node : pc[n] = "queued"
  BY DEF Queued
<1>2. /\ IsFiniteSet(Node \ {n}) /\ Cardinality(Node \ {n}) = Cardinality(Node) - 1
      /\ Cardinality(Node) \in Nat
  BY FS_RemoveElement, FS_CardinalityType, NodeAssumption
<1>3. Busy \subseteq Node \ {n}
  BY <1>1 DEF Busy
<1>4. IsFiniteSet(Busy) /\ Cardinality(Busy) <= Cardinality(Node \ {n})
  BY <1>2, <1>3, FS_Subset
<1>5. Limit = Cardinality(Node)
  BY <1>2, ConfigAssumption DEF Limit
<1> QED
  BY <1>2, <1>4, <1>5, FS_CardinalityType

\* A runner that cannot go on waits for its parents or is done.
LEMMA BlockedRunner ==
    ASSUME TypeOK, SentInv, main # "getReady", Queued = {}, NEW n \in Node,
           pc[n] # "idle", ~RunnerCanMove(n)
    PROVE  \/ pc[n] = "done"
           \/ /\ pc[n] = "preFlight" /\ waiting[n] # {} /\ ~runDone
              /\ \A p \in waiting[n] : p \in Sources(n) /\ sig[<<p, n>>] = <<>>
<1>1. pc[n] \in RunnerPCs /\ waiting[n] \subseteq Sources(n)
  BY DEF TypeOK
<1>2. pc[n] \notin ReportedFrom \cup {"idle", "queued", "check", "inFlight", "execute", "succeed", "fail"}
  BY DEF RunnerCanMove, Queued
<1>3. pc[n] \notin {"postFlight", "notifyFailed"}
  <2> SUFFICES ASSUME pc[n] \in {"postFlight", "notifyFailed"}, toNotify[n] # {}
               PROVE  FALSE
    BY DEF RunnerCanMove
  <2>1. PICK c \in toNotify[n] : TRUE
    OBVIOUS
  <2>2. <<n, c>> \in Edges /\ c \in Node
    BY DEF TypeOK, Children
  <2>3. sig[<<n, c>>] = <<>>
    BY <2>2 DEF SentInv
  <2>4. Len(sig[<<n, c>>]) < MinChannelBuffer
    BY <2>3, EmptyFacts, ConfigAssumption
  <2> QED
    BY <2>1, <2>4 DEF RunnerCanMove
<1>4. pc[n] \in {"preFlight", "done"}
  BY <1>1, <1>2, <1>3 DEF RunnerPCs, ReportedFrom
<1> QED
  BY <1>1, <1>4 DEF RunnerCanMove

\* The nodes that wait for a signal, if any, would each wait for another of
\* them: a signal that was sent is there, and a dag has no cycle.
LEMMA NoneWaits ==
    ASSUME GoesOnInv, main \in {"wait", "closePool"}, Queued = {},
           \A n \in Node : ~RunnerCanMove(n)
    PROVE  \A n \in Node : pc[n] = "done"
<1> DEFINE T == {n \in Node : pc[n] # "done"}
<1>1. ASSUME NEW n \in T PROVE \E p \in T : <<p, n>> \in Edges
  <2>1. /\ pc[n] = "preFlight" /\ waiting[n] # {} /\ ~runDone
        /\ \A p \in waiting[n] : p \in Sources(n) /\ sig[<<p, n>>] = <<>>
    BY BlockedRunner DEF GoesOnInv, AllSubmitted
  <2>2. PICK p \in waiting[n] : p \in Sources(n) /\ sig[<<p, n>>] = <<>>
    BY <2>1
  <2>3. ~Told(p, n)
    BY <2>1, <2>2 DEF GoesOnInv, DeliveredInv, Unheard
  <2>4. p \in Node /\ pc[p] # "done" /\ <<p, n>> \in Edges
    BY <2>2, <2>3, NodeAssumption DEF Told, Sources, Channels, Trigger
  <2> QED
    BY <2>4
<1>2. ~HasCycle(Node, Edges)
  BY GraphAssumption DEF FinishedGraph
<1>3. T \in SUBSET Node
  OBVIOUS
<1> HIDE DEF T
<1>4. T = {}
  BY <1>1, <1>2, <1>3, NoFirstMeansCycle, NodeAssumption
<1> QED
  BY <1>4 DEF T

\* Whatever state a run has come to, somebody can go on until Wait returns: the
\* waits of the runners, of the workers and of the caller form no circle.
THEOREM NobodyStuckHolds == Spec => []NobodyStuck
<1>1. GoesOnInv => NobodyStuck
  <2> SUFFICES ASSUME GoesOnInv, Cardinality(Node) <= WorkerPoolSize, runDone => waitDone,
                      main # "returned", ~CanMove
               PROVE  FALSE
    BY DEF NobodyStuck
  <2>1. Queued = {}
    BY WorkerIsFree DEF CanMove
  <2>2. main # "getReady"
    <3>1. Cardinality(Queued) = 0 /\ Cardinality(Node) \in Nat /\ Cardinality(Node) # 0
      BY <2>1, FS_EmptySet, FS_CardinalityType, NodeAssumption
    <3>2. QueueHasRoom
      BY <3>1, ConfigAssumption DEF QueueHasRoom, Limit
    <3> QED
      BY <3>2 DEF CanMove, GoesOnInv, SubmitsLeft
  <2>3. main \in {"wait", "closePool"}
    BY <2>2 DEF CanMove, GoesOnInv, TypeOK
  <2>4. \A n \in Node : pc[n] = "done"
    BY <2>1, <2>3, NoneWaits DEF CanMove
  <2>5. main = "wait" /\ ~waitDone /\ ~runDone
    BY <2>3, <2>4 DEF CanMove
  <2>6. relaying /\ EndReported
    BY <2>4, <2>5, NodeAssumption DEF EndReported, GoesOnInv, ArrivalInv
  <2>7. HoldsFinal(endResult) \/ HoldsFinal(merged)
    BY <2>5, <2>6 DEF GoesOnInv, ArrivalInv
  <2>8. endResult # <<>> \/ merged # <<>>
    BY <2>7, EmptyFacts DEF HoldsFinal
  <2> QED
    BY <2>5, <2>6, <2>8 DEF CanMove
<1> QED
  BY <1>1, GoesOnCorrect, PTL

(***************************************************************************)
(* Every step leads forward.                                               *)
(***************************************************************************)

\* The ranks are numbers.
LEMMA RankTypes ==
    /\ \A at \in RunnerPCs : Rank(at) \in Nat
    /\ TypeOK => CallerRank(main) \in Nat
<1>1. ASSUME NEW at \in RunnerPCs PROVE Rank(at) \in Nat
  BY DEF Rank, RunnerPCs
<1> QED
  BY <1>1 DEF TypeOK, CallerRank

\* A step of a runner takes it forward, or leaves it fewer signals.
LEMMA RunnerForward ==
    ASSUME TypeOK, NEW n \in Node, TakeTask(n) \/ Runner(n)
    PROVE  NoneGoesBack /\ (OneGoesForward \/ LessToWaitFor)
<1>0. /\ pc \in [Node -> RunnerPCs]
      /\ waiting \in [Node -> SUBSET (Node \cup {Caller})]
      /\ toNotify \in [Node -> SUBSET Node]
  BY DEF TypeOK
<1>1. UNCHANGED <<main, runDone, waitDone>>
  BY DEF TakeTask, Runner, CheckParentsStatus, ReceiveSignal, AbandonSignal, PreFlightReturns,
     InFlightSpecial, BeginRunE, EndRunE, SendResult, SendSignal, PostFlightReturns, Succeed,
     Fail, NotifyReturns, callerVars, ctxVars
<1>2. ASSUME NEW to \in RunnerPCs, pc' = [pc EXCEPT ![n] = to], Rank(pc[n]) < Rank(to)
      PROVE  NoneGoesBack /\ OneGoesForward
  <2>1. /\ Rank(pc'[n]) = Rank(to)
        /\ \A m \in Node \ {n} : pc'[m] = pc[m]
    BY <1>0, <1>2
  <2>2. \A m \in Node : Rank(pc[m]) <= Rank(pc'[m])
    BY <1>0, <1>2, <2>1, RankTypes
  <2> QED
    BY <1>1, <1>2, <2>1, <2>2, RankTypes DEF NoneGoesBack, OneGoesForward
<1>3. ASSUME \/ TakeTask(n) \/ CheckParentsStatus(n) \/ PreFlightReturns(n)
             \/ InFlightSpecial(n) \/ BeginRunE(n) \/ EndRunE(n) \/ SendResult(n)
             \/ PostFlightReturns(n) \/ Succeed(n) \/ Fail(n) \/ NotifyReturns(n)
      PROVE  \E to \in RunnerPCs : pc' = [pc EXCEPT ![n] = to] /\ Rank(pc[n]) < Rank(to)
  <2>1. CASE SendResult(n)
    <3>1. AfterReport(n) \in RunnerPCs /\ Rank(pc[n]) < Rank(AfterReport(n))
      BY <2>1 DEF SendResult, ReportedFrom, AfterReport, RunnerPCs, Rank
    <3> QED
      BY <2>1, <3>1 DEF SendResult
  <2>2. CASE TakeTask(n) \/ CheckParentsStatus(n) \/ PreFlightReturns(n)
    BY <2>2 DEF TakeTask, CheckParentsStatus, PreFlightReturns, Goto, RunnerPCs, Rank
  <2>3. CASE InFlightSpecial(n) \/ BeginRunE(n) \/ EndRunE(n)
    <3>1. PICK to \in {"execute", "inOk", "inErr"} :
             /\ pc' = [pc EXCEPT ![n] = to]
             /\ pc[n] = "inFlight" \/ (pc[n] = "execute" /\ to # "execute")
      BY <2>3 DEF InFlightSpecial, BeginRunE, EndRunE, Goto
    <3>2. Rank(pc[n]) < Rank(to)
      BY <3>1 DEF Rank
    <3> QED
      BY <3>1, <3>2 DEF RunnerPCs
  <2>4. CASE PostFlightReturns(n) \/ Succeed(n) \/ Fail(n) \/ NotifyReturns(n)
    BY <2>4 DEF PostFlightReturns, Succeed, Fail, NotifyReturns, Goto, RunnerPCs, Rank
  <2> QED
    BY <1>3, <2>1, <2>2, <2>3, <2>4
<1>4. ASSUME NEW p \in Node \cup {Caller}, ReceiveSignal(n, p) \/ AbandonSignal(n, p)
      PROVE  UNCHANGED pc /\ LessToWaitFor
  BY <1>0, <1>4 DEF ReceiveSignal, AbandonSignal, LessToWaitFor
<1>5. ASSUME NEW c \in Node, SendSignal(n, c)
      PROVE  UNCHANGED pc /\ LessToWaitFor
  BY <1>0, <1>5 DEF SendSignal, LessToWaitFor
<1>6. UNCHANGED pc => NoneGoesBack
  <2>1. (\A m \in Node : Rank(pc[m]) \in Nat) /\ CallerRank(main) \in Nat
    BY <1>0, RankTypes
  <2> QED
    BY <1>1, <2>1 DEF NoneGoesBack
<1> QED
  BY <1>2, <1>3, <1>4, <1>5, <1>6 DEF Runner

\* So does a step of the caller, of the relay or of a context.
LEMMA CallerForward ==
    ASSUME TypeOK,
           \/ \E n \in Node : Submit(n)
           \/ Start \/ StartMark \/ Relay \/ Wait \/ CancelRun \/ CancelWait \/ Deadline
    PROVE  NoneGoesBack /\ (OneGoesForward \/ ResultComesCloser)
<1>0. /\ pc \in [Node -> RunnerPCs]
      /\ \A n \in Node : Rank(pc[n]) <= Rank(pc[n])
      /\ CallerRank(main) <= CallerRank(main)
      /\ runDone \in BOOLEAN /\ waitDone \in BOOLEAN
  BY RankTypes DEF TypeOK
<1>c. ASSUME UNCHANGED <<pc, runDone, waitDone>>,
             \/ main = "start" /\ main' = "startMark"
             \/ main = "startMark" /\ main' = "wait"
             \/ main = "wait" /\ main' = "closePool"
             \/ main = "closePool" /\ main' = "returned"
      PROVE  NoneGoesBack /\ OneGoesForward
  <2>1. CallerRank(main) <= CallerRank(main') /\ CallerRank(main) < CallerRank(main')
    BY <1>c DEF CallerRank
  <2> QED
    BY <1>0, <1>c, <2>1 DEF NoneGoesBack, OneGoesForward
<1>1. ASSUME NEW n \in Node, Submit(n) PROVE NoneGoesBack /\ OneGoesForward
  <2>1. CallerRank(main) <= CallerRank(main')
    BY <1>1 DEF Submit, CallerRank
  <2>2. Rank(pc[n]) < Rank(pc'[n]) /\ Rank(pc[n]) <= Rank(pc'[n])
    <3>1. pc[n] = "idle" /\ pc'[n] = "queued"
      BY <1>0, <1>1 DEF Submit, Goto
    <3> QED
      BY <3>1 DEF Rank
  <2>3. \A m \in Node \ {n} : pc'[m] = pc[m]
    BY <1>0, <1>1 DEF Submit, Goto
  <2>4. UNCHANGED <<runDone, waitDone>>
    BY <1>1 DEF Submit, ctxVars
  <2>5. \A m \in Node : Rank(pc[m]) <= Rank(pc'[m])
    BY <1>0, <2>2, <2>3
  <2> QED
    BY <2>1, <2>2, <2>4, <2>5 DEF NoneGoesBack, OneGoesForward
<1>2. CASE Start \/ StartMark
  BY <1>c, <1>2 DEF Start, StartMark, ctxVars
<1>3. CASE Relay
  <2>1. Len(endResult') < Len(endResult)
    <3>1. /\ Len(Tail(endResult)) = Len(endResult) - 1
          /\ Len(endResult) \in Nat
      BY <1>3, TailFacts, LenFacts DEF Relay, TypeOK
    <3> QED
      BY <1>3, <3>1 DEF Relay
  <2> QED
    BY <1>0, <1>3, <2>1 DEF Relay, NoneGoesBack, ResultComesCloser, runnerVars, callerVars,
       ctxVars
<1>4. CASE WaitReceives
  <2>1. Len(merged') < Len(merged)
    <3>1. /\ Len(Tail(merged)) = Len(merged) - 1
          /\ Len(merged) \in Nat
      BY <1>4, TailFacts, LenFacts DEF WaitReceives, TypeOK
    <3> QED
      BY <1>4, <3>1 DEF WaitReceives
  <2> QED
    BY <1>0, <1>c, <1>4, <2>1 DEF WaitReceives, Verdict, NoneGoesBack, ResultComesCloser,
       runnerVars, callerVars, ctxVars
<1>5. CASE WaitInterrupted \/ PoolCloses
  BY <1>c, <1>5 DEF WaitInterrupted, PoolCloses, Verdict, runnerVars, ctxVars
<1>6. CASE CancelRun \/ CancelWait \/ Deadline
  BY <1>0, <1>6 DEF CancelRun, CancelWait, Deadline, NoneGoesBack, OneGoesForward,
     runnerVars, callerVars
<1> QED
  BY <1>1, <1>2, <1>3, <1>4, <1>5, <1>6 DEF Wait

\* No step of a run goes round in a loop: with NobodyStuckHolds, a run whose
\* scheduler always lets somebody go on comes to the return of Wait.
THEOREM OnlyForwardHolds == Spec => OnlyForward
<1>1. TypeOK /\ [Next]_vars =>
        [NoneGoesBack /\ (OneGoesForward \/ LessToWaitFor \/ ResultComesCloser)]_vars
  BY RunnerForward, CallerForward DEF Next, Returned
<1> QED
  BY <1>1, TypeCorrect, PTL DEF Spec, OnlyForward

=============================================================================
