--------------------------- MODULE DagRoundsProofs ---------------------------
(***************************************************************************)
(* DagRounds proved for any nodes, capacities and number of rounds: its    *)
(* types, that the verdict of each round is that round's, and that a Wait  *)
(* which was not cut short leaves no reader of Reset's fields behind; and  *)
(* that no round comes to a halt before Wait has returned.                 *)
(***************************************************************************)
EXTENDS DagRounds, TLAPS

BeforeMerge == {"getReady", "start", "enterWait", "resetNodeResult"}
AfterWait   == {"closePool", "closeMerged", "closeResults", "returned"}
HasRead     == {"relaying", "true", "false"}

\* The fields are those of the round.
FieldsInStep ==
    /\ nodesResult = round
    /\ main \in {"start", "enterWait", "wait"} \cup AfterWait => nodeResult = round
    /\ nodeResult <= round

\* Nobody has put anything into a channel of a round to come.
FutureUntouched ==
    \A g \in Round : g > round => merged[g] = <<>> /\ \A n \in Node : results[g][n] = <<>>

\* The tasks are submitted by GetReady.
TasksInStep ==
    /\ main \in {"getReady", "resetNodeResult"} =>
          \A n \in Node : results[round][n] = <<>> /\ task[n] = "idle"
    /\ main \in {"start", "enterWait", "wait"} \cup AfterWait => \A n \in Node : task[n] # "idle"

\* A merge goroutine exists once its Wait has begun, and reads nothing from
\* the future.
MergeInStep ==
    \A r \in Round :
        /\ r > round \/ (r = round /\ main \in BeforeMerge) => merge[r] = "none"
        /\ src[r] <= round /\ dst[r] <= round
        /\ merge[r] = "relaying" => src[r] \in Round /\ dst[r] \in Round

\* A relay exists once merge has read both fields.
RelayInStep ==
    \A r \in Round :
        /\ egErr[r] => merge[r] \in HasRead
        /\ \A n \in Node :
            /\ relay[r][n] # "none" => merge[r] \in HasRead
            /\ relay[r][n] \in {"recv", "inside"} => merge[r] = "relaying"
            /\ relay[r][n] # "inside" => held[r][n] = "Other"

InStep == FieldsInStep /\ FutureUntouched /\ TasksInStep /\ MergeInStep /\ RelayInStep

\* Without a cut, merge has read its own round's fields before Wait returns.
Own ==
    cut = {} =>
        /\ \A r \in Round :
            /\ merge[r] \in {"sourced", "relaying"} => src[r] = r
            /\ merge[r] = "relaying" => dst[r] = r
            /\ r < round => merge[r] \in HasRead
        /\ main \in AfterWait => merge[round] \in HasRead
        /\ merged[round] # <<>> => merge[round] \in HasRead

\* A verdict on its way tells how the end node of this round has ended.
Says(n, v, end) ==
    /\ v # "Other" => n = EndNode
    /\ v = "FlightEnd" => end = "done"
    /\ v = "Failed" => end = "failed"

AllSay(n, s, end) == \A i \in DOMAIN s : Says(n, s[i], end)

Flow ==
    cut = {} =>
        /\ \A n \in Node : AllSay(n, results[round][n], task[EndNode])
        /\ \A n \in Node : Says(n, held[round][n], task[EndNode])
        /\ AllSay(EndNode, merged[round], task[EndNode])

\* Until its context is done, Wait has all its relays.
Waiting ==
    cut = {} /\ main = "wait" /\ ~waitDone =>
        /\ merge[round] \notin {"true", "false"}
        /\ ~egErr[round]
        /\ \A n \in Node : relay[round][n] # "ended"

VerdictSays ==
    cut = {} /\ main \in AfterWait =>
        \/ verdict = "true"  /\ task[EndNode] = "done"
        \/ verdict = "false" /\ task[EndNode] = "failed"

IInv == RoundsTypeOK /\ InStep /\ Own /\ Flow /\ Waiting /\ VerdictSays

\* A channel of reports after a send.
LEMMA Sent ==
    ASSUME NEW s \in Seq(Report), NEW v \in Report
    PROVE  /\ Append(s, v) \in Seq(Report) /\ Len(Append(s, v)) = Len(s) + 1
           /\ \A n, end : AllSay(n, s, end) /\ Says(n, v, end) => AllSay(n, Append(s, v), end)
  <1>1. \A i \in DOMAIN Append(s, v) :
          (i \in DOMAIN s /\ Append(s, v)[i] = s[i]) \/ Append(s, v)[i] = v
    OBVIOUS
  <1>2. Append(s, v) \in Seq(Report) /\ Len(Append(s, v)) = Len(s) + 1
    OBVIOUS
  <1>3. \A n, end : AllSay(n, s, end) /\ Says(n, v, end) => AllSay(n, Append(s, v), end)
    BY <1>1 DEF AllSay
  <1> QED BY <1>2, <1>3

\* A channel of reports after a receive.
LEMMA Received ==
    ASSUME NEW s \in Seq(Report), s # <<>>
    PROVE  /\ Tail(s) \in Seq(Report) /\ Len(Tail(s)) = Len(s) - 1 /\ Head(s) \in Report
           /\ \A n, end : AllSay(n, s, end) => AllSay(n, Tail(s), end) /\ Says(n, Head(s), end)
  <1>1. Len(s) > 0 /\ Head(s) = s[1] /\ 1 \in DOMAIN s
    OBVIOUS
  <1>2. \A i \in DOMAIN Tail(s) : i + 1 \in DOMAIN s /\ Tail(s)[i] = s[i + 1]
    OBVIOUS
  <1>3. Tail(s) \in Seq(Report) /\ Len(Tail(s)) = Len(s) - 1 /\ Head(s) \in Report
    BY <1>1
  <1>4. \A n, end : AllSay(n, s, end) => AllSay(n, Tail(s), end) /\ Says(n, Head(s), end)
    BY <1>1, <1>2 DEF AllSay
  <1> QED BY <1>3, <1>4

\* What was said of an end node that has not ended is nothing.
LEMMA SaysNothing ==
    ASSUME NEW n, NEW v, NEW end, NEW later, Says(n, v, end), end \notin {"done", "failed"}
    PROVE  Says(n, v, later)
  BY DEF Says

\* sendResult leaves every channel but one alone.
LEMMA SendResultChanges ==
    ASSUME CallerTypeOK, ChannelsTypeOK, NEW n \in Node, NEW v \in Report, SendResult(n, v)
    PROVE  /\ results' \in [Round -> [Node -> Seq(Report)]]
           /\ \A g \in Round, m \in Node :
                \/ results'[g][m] = results[g][m]
                \/ /\ g = round /\ m = n /\ Len(results[g][m]) < MinChannelBuffer
                   /\ results'[g][m] = Append(results[g][m], v)
  <1> USE DEF CallerTypeOK, ChannelsTypeOK
  <1>1. CASE UNCHANGED results
    BY <1>1
  <1>2. CASE /\ Len(results[round][n]) < MinChannelBuffer
             /\ results' = [results EXCEPT ![round][n] = Append(@, v)]
    <2>1. results[round][n] \in Seq(Report) /\ results[round] \in [Node -> Seq(Report)]
      OBVIOUS
    <2>2. Append(results[round][n], v) \in Seq(Report)
      BY <2>1
    <2>3. results' = [results EXCEPT ![round] =
                        [results[round] EXCEPT ![n] = Append(results[round][n], v)]]
      BY <1>2
    <2>4. [results[round] EXCEPT ![n] = Append(results[round][n], v)] \in [Node -> Seq(Report)]
      BY <2>1, <2>2
    <2>5. results' \in [Round -> [Node -> Seq(Report)]]
      BY <2>3, <2>4
    <2>6. \A g \in Round, m \in Node :
            results'[g][m] = IF g = round /\ m = n THEN Append(results[g][m], v) ELSE results[g][m]
      BY <2>3
    <2> QED BY <1>2, <2>5, <2>6
  <1> QED BY <1>1, <1>2 DEF SendResult

\* One entry of a table of channels or relays changes.
LEMMA EntryChanges ==
    ASSUME NEW S, NEW f \in [Round -> [Node -> S]], NEW r \in Round, NEW n \in Node, NEW v \in S
    PROVE  /\ [f EXCEPT ![r][n] = v] \in [Round -> [Node -> S]]
           /\ \A h \in Round, m \in Node :
                [f EXCEPT ![r][n] = v][h][m] = IF h = r /\ m = n THEN v ELSE f[h][m]
  <1>1. f[r] \in [Node -> S]
    OBVIOUS
  <1>2. [f[r] EXCEPT ![n] = v] \in [Node -> S]
    BY <1>1
  <1>3. [f EXCEPT ![r][n] = v] = [f EXCEPT ![r] = [f[r] EXCEPT ![n] = v]]
    OBVIOUS
  <1>4. [f EXCEPT ![r][n] = v] \in [Round -> [Node -> S]]
    BY <1>2, <1>3
  <1> QED BY <1>3, <1>4

\* A fresh dag.
LEMMA InitInv == Init => IInv
  <1> SUFFICES ASSUME Init PROVE IInv
    OBVIOUS
  <1> USE RoundsAssumption DEF Init
  <1>0. 1 \in Round /\ Round \subseteq Nat \ {0}
    BY DEF Round
  <1>1. CallerTypeOK
    BY <1>0 DEF CallerTypeOK
  <1>2. /\ task \in [Node -> {"idle", "queued", "pre", "in", "done", "failed"}]
        /\ merged \in [Round -> Seq(Report)]
    BY DEF Report
  <1>3. results \in [Round -> [Node -> Seq(Report)]]
    <2>1. [n \in Node |-> <<>>] \in [Node -> Seq(Report)]
      OBVIOUS
    <2> QED BY <2>1
  <1>4. ChannelsTypeOK
    BY <1>2, <1>3 DEF ChannelsTypeOK
  <1>5. MergeTypeOK
    BY DEF MergeTypeOK, Report
  <1>6. FieldsInStep /\ FutureUntouched /\ TasksInStep
    BY <1>0 DEF FieldsInStep, FutureUntouched, TasksInStep, AfterWait
  <1>7. MergeInStep /\ RelayInStep
    BY <1>0 DEF MergeInStep, RelayInStep
  <1>8. Own
    BY <1>0 DEF Own, AfterWait
  <1>9. Flow /\ Waiting /\ VerdictSays
    BY <1>0 DEF Flow, AllSay, Says, Waiting, VerdictSays, AfterWait
  <1> QED BY <1>1, <1>4, <1>5, <1>6, <1>7, <1>8, <1>9 DEF IInv, RoundsTypeOK, InStep

\* Every step of the caller, a runner, a merge goroutine or a relay.
LEMMA InvStep == IInv /\ [Next]_vars => IInv'
  <1> SUFFICES ASSUME IInv, [Next]_vars PROVE IInv'
    OBVIOUS
  <1> USE RoundsAssumption DEF IInv, RoundsTypeOK, InStep,
          callerVars, fieldVars, mergeVars, relayVars, ctxVars
  <1>a. Round \subseteq Nat \ {0} /\ \A g \in Round : g < MaxRounds => g + 1 \in Round
    BY DEF Round
  <1>1. ASSUME NEW n \in Node, main # "crashed", ReportPhase(n)
        PROVE  IInv'
    <2> USE <1>1 DEF ReportPhase, Started, Other
    <2>0. PICK v \in Report :
            /\ SendResult(n, v) /\ Says(n, v, task'[EndNode])
            /\ task[n] \notin {"done", "failed"}
      BY DEF Says, Report, ChannelsTypeOK
    <2>b. \A m, w : Says(m, w, task[EndNode]) => Says(m, w, task'[EndNode])
      BY <2>0, SaysNothing DEF ChannelsTypeOK
    <2>c. \A m, s : AllSay(m, s, task[EndNode]) => AllSay(m, s, task'[EndNode])
      BY <2>b DEF AllSay
    <2>d. /\ results' \in [Round -> [Node -> Seq(Report)]]
          /\ \A g \in Round, m \in Node :
                \/ results'[g][m] = results[g][m]
                \/ /\ g = round /\ m = n /\ Len(results[g][m]) < MinChannelBuffer
                   /\ results'[g][m] = Append(results[g][m], v)
      BY <2>0, SendResultChanges
    <2>1. CallerTypeOK'
      BY <1>a, <2>0 DEF CallerTypeOK
    <2>2. ChannelsTypeOK'
      <3>1. \A g \in Round, m \in Node : Len(results'[g][m]) <= MinChannelBuffer
        <4> SUFFICES ASSUME NEW g \in Round, NEW m \in Node
                     PROVE  Len(results'[g][m]) <= MinChannelBuffer
          OBVIOUS
        <4>1. /\ results[g][m] \in Seq(Report) /\ Len(results[g][m]) \in Nat
              /\ Len(results[g][m]) <= MinChannelBuffer
          BY DEF ChannelsTypeOK
        <4>2. Len(Append(results[g][m], v)) = Len(results[g][m]) + 1
          BY <4>1, Sent
        <4> QED BY <2>d, <4>1, <4>2
      <3>2. task' \in [Node -> {"idle", "queued", "pre", "in", "done", "failed"}]
        BY DEF ChannelsTypeOK
      <3>3. UNCHANGED merged
        OBVIOUS
      <3> QED BY <2>d, <3>1, <3>2, <3>3 DEF ChannelsTypeOK
    <2>3. MergeTypeOK'
      BY <1>a, <2>0 DEF CallerTypeOK, MergeTypeOK
    <2>4. FieldsInStep'
      BY <1>a, <2>0 DEF CallerTypeOK, FieldsInStep, AfterWait
    <2>5. FutureUntouched'
      <3>1. UNCHANGED <<round, merged>> /\ round \in Nat
        BY <1>a DEF CallerTypeOK
      <3>2. \A g \in Round : g > round => g # round
        BY <1>a, <3>1
      <3> QED BY <2>d, <3>1, <3>2 DEF FutureUntouched
    <2>6. TasksInStep'
      BY <1>a, <2>0
         DEF CallerTypeOK, ChannelsTypeOK, TasksInStep, FutureUntouched, AfterWait
    <2>7. MergeInStep'
      BY <1>a, <2>0 DEF CallerTypeOK, MergeTypeOK, FieldsInStep, MergeInStep, BeforeMerge
    <2>8. RelayInStep'
      BY <1>a, <2>0
         DEF CallerTypeOK, MergeTypeOK, MergeInStep, RelayInStep, BeforeMerge, HasRead
    <2>9. Own'
      BY <1>a, <2>0
         DEF CallerTypeOK, MergeTypeOK, FieldsInStep, MergeInStep, Own, BeforeMerge,
             AfterWait, HasRead
    <2>10. Flow'
      <3> SUFFICES ASSUME cut = {} PROVE Flow'
        BY DEF Flow
      <3>1. \A m \in Node : AllSay(m, results'[round][m], task'[EndNode])
        <4> SUFFICES ASSUME NEW m \in Node PROVE AllSay(m, results'[round][m], task'[EndNode])
          OBVIOUS
        <4>1. round \in Round /\ results[round][m] \in Seq(Report)
          BY DEF CallerTypeOK, ChannelsTypeOK
        <4>2. AllSay(m, results[round][m], task'[EndNode])
          BY <2>c DEF Flow
        <4>3. m = n => AllSay(m, Append(results[round][m], v), task'[EndNode])
          BY <2>0, <4>1, <4>2, Sent
        <4> QED BY <2>d, <4>1, <4>2, <4>3
      <3>2. UNCHANGED <<round, held, merged>>
        OBVIOUS
      <3> QED BY <2>b, <2>c, <3>1, <3>2 DEF Flow
    <2>11. Waiting'
      BY <1>a, <2>0
         DEF CallerTypeOK, MergeTypeOK, FieldsInStep, MergeInStep, RelayInStep, Own,
             Waiting, BeforeMerge, AfterWait, HasRead
    <2>12. VerdictSays'
      BY <1>a, <2>0 DEF CallerTypeOK, TasksInStep, VerdictSays, AfterWait
    <2> QED BY <2>1, <2>2, <2>3, <2>4, <2>5, <2>6, <2>7, <2>8, <2>9, <2>10, <2>11, <2>12
  <1>2. ASSUME NEW n \in Node, main # "crashed", ReportFailure(n)
        PROVE  IInv'
    <2> USE <1>2 DEF ReportFailure, Started, Other
    <2>0. PICK v \in Report :
            /\ SendResult(n, v) /\ Says(n, v, task'[EndNode])
            /\ task[n] \notin {"done", "failed"}
      BY DEF Says, Report, ChannelsTypeOK
    <2>b. \A m, w : Says(m, w, task[EndNode]) => Says(m, w, task'[EndNode])
      BY <2>0, SaysNothing DEF ChannelsTypeOK
    <2>c. \A m, s : AllSay(m, s, task[EndNode]) => AllSay(m, s, task'[EndNode])
      BY <2>b DEF AllSay
    <2>d. /\ results' \in [Round -> [Node -> Seq(Report)]]
          /\ \A g \in Round, m \in Node :
                \/ results'[g][m] = results[g][m]
                \/ /\ g = round /\ m = n /\ Len(results[g][m]) < MinChannelBuffer
                   /\ results'[g][m] = Append(results[g][m], v)
      BY <2>0, SendResultChanges
    <2>1. CallerTypeOK'
      BY <1>a, <2>0 DEF CallerTypeOK
    <2>2. ChannelsTypeOK'
      <3>1. \A g \in Round, m \in Node : Len(results'[g][m]) <= MinChannelBuffer
        <4> SUFFICES ASSUME NEW g \in Round, NEW m \in Node
                     PROVE  Len(results'[g][m]) <= MinChannelBuffer
          OBVIOUS
        <4>1. /\ results[g][m] \in Seq(Report) /\ Len(results[g][m]) \in Nat
              /\ Len(results[g][m]) <= MinChannelBuffer
          BY DEF ChannelsTypeOK
        <4>2. Len(Append(results[g][m], v)) = Len(results[g][m]) + 1
          BY <4>1, Sent
        <4> QED BY <2>d, <4>1, <4>2
      <3>2. task' \in [Node -> {"idle", "queued", "pre", "in", "done", "failed"}]
        BY DEF ChannelsTypeOK
      <3>3. UNCHANGED merged
        OBVIOUS
      <3> QED BY <2>d, <3>1, <3>2, <3>3 DEF ChannelsTypeOK
    <2>3. MergeTypeOK'
      BY <1>a, <2>0 DEF CallerTypeOK, MergeTypeOK
    <2>4. FieldsInStep'
      BY <1>a, <2>0 DEF CallerTypeOK, FieldsInStep, AfterWait
    <2>5. FutureUntouched'
      <3>1. UNCHANGED <<round, merged>> /\ round \in Nat
        BY <1>a DEF CallerTypeOK
      <3>2. \A g \in Round : g > round => g # round
        BY <1>a, <3>1
      <3> QED BY <2>d, <3>1, <3>2 DEF FutureUntouched
    <2>6. TasksInStep'
      BY <1>a, <2>0
         DEF CallerTypeOK, ChannelsTypeOK, TasksInStep, FutureUntouched, AfterWait
    <2>7. MergeInStep'
      BY <1>a, <2>0 DEF CallerTypeOK, MergeTypeOK, FieldsInStep, MergeInStep, BeforeMerge
    <2>8. RelayInStep'
      BY <1>a, <2>0
         DEF CallerTypeOK, MergeTypeOK, MergeInStep, RelayInStep, BeforeMerge, HasRead
    <2>9. Own'
      BY <1>a, <2>0
         DEF CallerTypeOK, MergeTypeOK, FieldsInStep, MergeInStep, Own, BeforeMerge,
             AfterWait, HasRead
    <2>10. Flow'
      <3> SUFFICES ASSUME cut = {} PROVE Flow'
        BY DEF Flow
      <3>1. \A m \in Node : AllSay(m, results'[round][m], task'[EndNode])
        <4> SUFFICES ASSUME NEW m \in Node PROVE AllSay(m, results'[round][m], task'[EndNode])
          OBVIOUS
        <4>1. round \in Round /\ results[round][m] \in Seq(Report)
          BY DEF CallerTypeOK, ChannelsTypeOK
        <4>2. AllSay(m, results[round][m], task'[EndNode])
          BY <2>c DEF Flow
        <4>3. m = n => AllSay(m, Append(results[round][m], v), task'[EndNode])
          BY <2>0, <4>1, <4>2, Sent
        <4> QED BY <2>d, <4>1, <4>2, <4>3
      <3>2. UNCHANGED <<round, held, merged>>
        OBVIOUS
      <3> QED BY <2>b, <2>c, <3>1, <3>2 DEF Flow
    <2>11. Waiting'
      BY <1>a, <2>0
         DEF CallerTypeOK, MergeTypeOK, FieldsInStep, MergeInStep, RelayInStep, Own,
             Waiting, BeforeMerge, AfterWait, HasRead
    <2>12. VerdictSays'
      BY <1>a, <2>0 DEF CallerTypeOK, TasksInStep, VerdictSays, AfterWait
    <2> QED BY <2>1, <2>2, <2>3, <2>4, <2>5, <2>6, <2>7, <2>8, <2>9, <2>10, <2>11, <2>12
  <1>3. ASSUME NEW n \in Node, main # "crashed", DropTask(n)
        PROVE  IInv'
    <2> USE <1>3 DEF DropTask
    <2>0. task[n] = "queued"
      OBVIOUS
    <2>b. \A m, w : Says(m, w, task[EndNode]) => Says(m, w, task'[EndNode])
      BY <2>0, SaysNothing DEF ChannelsTypeOK
    <2>c. \A m, s : AllSay(m, s, task[EndNode]) => AllSay(m, s, task'[EndNode])
      BY <2>b DEF AllSay
    <2>1. CallerTypeOK'
      BY <1>a, <2>0 DEF CallerTypeOK
    <2>2. ChannelsTypeOK'
      BY <1>a, <2>0 DEF CallerTypeOK, ChannelsTypeOK
    <2>3. MergeTypeOK'
      BY <1>a, <2>0 DEF CallerTypeOK, MergeTypeOK
    <2>4. FieldsInStep'
      BY <1>a, <2>0 DEF CallerTypeOK, FieldsInStep, AfterWait
    <2>5. FutureUntouched'
      BY <1>a, <2>0 DEF CallerTypeOK, ChannelsTypeOK, FutureUntouched
    <2>6. TasksInStep'
      BY <1>a, <2>0
         DEF CallerTypeOK, ChannelsTypeOK, TasksInStep, FutureUntouched, AfterWait
    <2>7. MergeInStep'
      BY <1>a, <2>0 DEF CallerTypeOK, MergeTypeOK, FieldsInStep, MergeInStep, BeforeMerge
    <2>8. RelayInStep'
      BY <1>a, <2>0
         DEF CallerTypeOK, MergeTypeOK, MergeInStep, RelayInStep, BeforeMerge, HasRead
    <2>9. Own'
      BY <1>a, <2>0
         DEF CallerTypeOK, MergeTypeOK, FieldsInStep, MergeInStep, Own, BeforeMerge,
             AfterWait, HasRead
    <2>10. Flow'
      <3>1. UNCHANGED <<round, held, merged, results, cut>>
        OBVIOUS
      <3> QED BY <2>b, <2>c, <3>1 DEF Flow
    <2>11. Waiting'
      BY <1>a, <2>0
         DEF CallerTypeOK, MergeTypeOK, FieldsInStep, MergeInStep, RelayInStep, Own,
             Waiting, BeforeMerge, AfterWait, HasRead
    <2>12. VerdictSays'
      BY <1>a, <2>0 DEF CallerTypeOK, TasksInStep, VerdictSays, AfterWait
    <2> QED BY <2>1, <2>2, <2>3, <2>4, <2>5, <2>6, <2>7, <2>8, <2>9, <2>10, <2>11, <2>12
  <1>4. ASSUME NEW r \in Round, main # "crashed", MergeChecks(r)
        PROVE  IInv'
    <2> USE <1>4 DEF MergeChecks
    <2>1. CallerTypeOK'
      BY <1>a DEF CallerTypeOK
    <2>2. ChannelsTypeOK'
      BY <1>a DEF CallerTypeOK, ChannelsTypeOK
    <2>3. MergeTypeOK'
      BY <1>a DEF CallerTypeOK, MergeTypeOK
    <2>4. FieldsInStep'
      BY <1>a DEF CallerTypeOK, FieldsInStep, AfterWait
    <2>5. FutureUntouched'
      BY <1>a DEF CallerTypeOK, ChannelsTypeOK, FutureUntouched
    <2>6. TasksInStep'
      BY <1>a DEF CallerTypeOK, ChannelsTypeOK, TasksInStep, FutureUntouched, AfterWait
    <2>7. MergeInStep'
      BY <1>a DEF CallerTypeOK, MergeTypeOK, FieldsInStep, MergeInStep, BeforeMerge
    <2>8. RelayInStep'
      BY <1>a
         DEF CallerTypeOK, MergeTypeOK, MergeInStep, RelayInStep, BeforeMerge, HasRead
    <2>9. Own'
      BY <1>a
         DEF CallerTypeOK, MergeTypeOK, FieldsInStep, MergeInStep, Own, BeforeMerge,
             AfterWait, HasRead
    <2>10. Flow'
      BY <1>a DEF CallerTypeOK, FieldsInStep, MergeInStep, Own, Flow
    <2>11. Waiting'
      BY <1>a
         DEF CallerTypeOK, MergeTypeOK, FieldsInStep, MergeInStep, RelayInStep, Own,
             Waiting, BeforeMerge, AfterWait, HasRead
    <2>12. VerdictSays'
      BY <1>a DEF CallerTypeOK, TasksInStep, VerdictSays, AfterWait
    <2> QED BY <2>1, <2>2, <2>3, <2>4, <2>5, <2>6, <2>7, <2>8, <2>9, <2>10, <2>11, <2>12
  <1>5. ASSUME NEW r \in Round, main # "crashed", MergeReadsNodeResult(r)
        PROVE  IInv'
    <2> USE <1>5 DEF MergeReadsNodeResult
    <2>1. CallerTypeOK'
      BY <1>a DEF CallerTypeOK
    <2>2. ChannelsTypeOK'
      BY <1>a DEF CallerTypeOK, ChannelsTypeOK
    <2>3. MergeTypeOK'
      BY <1>a DEF CallerTypeOK, MergeTypeOK
    <2>4. FieldsInStep'
      BY <1>a DEF CallerTypeOK, FieldsInStep, AfterWait
    <2>5. FutureUntouched'
      BY <1>a DEF CallerTypeOK, ChannelsTypeOK, FutureUntouched
    <2>6. TasksInStep'
      BY <1>a DEF CallerTypeOK, ChannelsTypeOK, TasksInStep, FutureUntouched, AfterWait
    <2>7. MergeInStep'
      BY <1>a DEF CallerTypeOK, MergeTypeOK, FieldsInStep, MergeInStep, BeforeMerge
    <2>8. RelayInStep'
      BY <1>a
         DEF CallerTypeOK, MergeTypeOK, MergeInStep, RelayInStep, BeforeMerge, HasRead
    <2>9. Own'
      BY <1>a
         DEF CallerTypeOK, MergeTypeOK, FieldsInStep, MergeInStep, Own, BeforeMerge,
             AfterWait, HasRead
    <2>10. Flow'
      BY <1>a DEF CallerTypeOK, FieldsInStep, MergeInStep, Own, Flow
    <2>11. Waiting'
      BY <1>a
         DEF CallerTypeOK, MergeTypeOK, FieldsInStep, MergeInStep, RelayInStep, Own,
             Waiting, BeforeMerge, AfterWait, HasRead
    <2>12. VerdictSays'
      BY <1>a DEF CallerTypeOK, TasksInStep, VerdictSays, AfterWait
    <2> QED BY <2>1, <2>2, <2>3, <2>4, <2>5, <2>6, <2>7, <2>8, <2>9, <2>10, <2>11, <2>12
  <1>6. ASSUME NEW r \in Round, main # "crashed", MergeReadsNodesResult(r)
        PROVE  IInv'
    <2> USE <1>6 DEF MergeReadsNodesResult
    <2>1. CallerTypeOK'
      BY <1>a DEF CallerTypeOK
    <2>2. ChannelsTypeOK'
      BY <1>a DEF CallerTypeOK, ChannelsTypeOK
    <2>3. MergeTypeOK'
      BY <1>a DEF CallerTypeOK, MergeTypeOK
    <2>4. FieldsInStep'
      BY <1>a DEF CallerTypeOK, FieldsInStep, AfterWait
    <2>5. FutureUntouched'
      BY <1>a DEF CallerTypeOK, ChannelsTypeOK, FutureUntouched
    <2>6. TasksInStep'
      BY <1>a DEF CallerTypeOK, ChannelsTypeOK, TasksInStep, FutureUntouched, AfterWait
    <2>7. MergeInStep'
      BY <1>a DEF CallerTypeOK, MergeTypeOK, FieldsInStep, MergeInStep, BeforeMerge
    <2>8. RelayInStep'
      BY <1>a
         DEF CallerTypeOK, MergeTypeOK, MergeInStep, RelayInStep, BeforeMerge, HasRead
    <2>9. Own'
      BY <1>a
         DEF CallerTypeOK, MergeTypeOK, FieldsInStep, MergeInStep, Own, BeforeMerge,
             AfterWait, HasRead
    <2>10. Flow'
      BY <1>a DEF CallerTypeOK, FieldsInStep, MergeInStep, Own, Flow
    <2>11. Waiting'
      BY <1>a
         DEF CallerTypeOK, MergeTypeOK, FieldsInStep, MergeInStep, RelayInStep, Own,
             Waiting, BeforeMerge, AfterWait, HasRead
    <2>12. VerdictSays'
      BY <1>a DEF CallerTypeOK, TasksInStep, VerdictSays, AfterWait
    <2> QED BY <2>1, <2>2, <2>3, <2>4, <2>5, <2>6, <2>7, <2>8, <2>9, <2>10, <2>11, <2>12
  <1>7. ASSUME NEW r \in Round, main # "crashed", TornRead(r)
        PROVE  IInv'
    <2> USE <1>7 DEF TornRead
    <2>1. CallerTypeOK'
      BY <1>a DEF CallerTypeOK
    <2>2. ChannelsTypeOK'
      BY <1>a DEF CallerTypeOK, ChannelsTypeOK
    <2>3. MergeTypeOK'
      BY <1>a DEF CallerTypeOK, MergeTypeOK
    <2>4. FieldsInStep'
      BY <1>a DEF CallerTypeOK, FieldsInStep, AfterWait
    <2>5. FutureUntouched'
      BY <1>a DEF CallerTypeOK, ChannelsTypeOK, FutureUntouched
    <2>6. TasksInStep'
      BY <1>a DEF CallerTypeOK, ChannelsTypeOK, TasksInStep, FutureUntouched, AfterWait
    <2>7. MergeInStep'
      BY <1>a DEF CallerTypeOK, MergeTypeOK, FieldsInStep, MergeInStep, BeforeMerge
    <2>8. RelayInStep'
      BY <1>a
         DEF CallerTypeOK, MergeTypeOK, MergeInStep, RelayInStep, BeforeMerge, HasRead
    <2>9. Own'
      BY <1>a
         DEF CallerTypeOK, MergeTypeOK, FieldsInStep, MergeInStep, Own, BeforeMerge,
             AfterWait, HasRead
    <2>10. Flow'
      BY <1>a DEF CallerTypeOK, FieldsInStep, MergeInStep, Own, Flow
    <2>11. Waiting'
      BY <1>a
         DEF CallerTypeOK, MergeTypeOK, FieldsInStep, MergeInStep, RelayInStep, Own,
             Waiting, BeforeMerge, AfterWait, HasRead
    <2>12. VerdictSays'
      BY <1>a DEF CallerTypeOK, TasksInStep, VerdictSays, AfterWait
    <2> QED BY <2>1, <2>2, <2>3, <2>4, <2>5, <2>6, <2>7, <2>8, <2>9, <2>10, <2>11, <2>12
  <1>8. ASSUME NEW r \in Round, main # "crashed", MergeReturns(r)
        PROVE  IInv'
    <2> USE <1>8 DEF MergeReturns
    <2>1. CallerTypeOK'
      BY <1>a DEF CallerTypeOK
    <2>2. ChannelsTypeOK'
      BY <1>a DEF CallerTypeOK, ChannelsTypeOK
    <2>3. MergeTypeOK'
      BY <1>a DEF CallerTypeOK, MergeTypeOK
    <2>4. FieldsInStep'
      BY <1>a DEF CallerTypeOK, FieldsInStep, AfterWait
    <2>5. FutureUntouched'
      BY <1>a DEF CallerTypeOK, ChannelsTypeOK, FutureUntouched
    <2>6. TasksInStep'
      BY <1>a DEF CallerTypeOK, ChannelsTypeOK, TasksInStep, FutureUntouched, AfterWait
    <2>7. MergeInStep'
      BY <1>a DEF CallerTypeOK, MergeTypeOK, FieldsInStep, MergeInStep, BeforeMerge
    <2>8. RelayInStep'
      BY <1>a
         DEF CallerTypeOK, MergeTypeOK, MergeInStep, RelayInStep, BeforeMerge, HasRead
    <2>9. Own'
      BY <1>a
         DEF CallerTypeOK, MergeTypeOK, FieldsInStep, MergeInStep, Own, BeforeMerge,
             AfterWait, HasRead
    <2>10. Flow'
      BY <1>a DEF CallerTypeOK, FieldsInStep, MergeInStep, Own, Flow
    <2>11. Waiting'
      BY <1>a
         DEF CallerTypeOK, MergeTypeOK, FieldsInStep, MergeInStep, RelayInStep, Own,
             Waiting, BeforeMerge, AfterWait, HasRead
    <2>12. VerdictSays'
      BY <1>a DEF CallerTypeOK, TasksInStep, VerdictSays, AfterWait
    <2> QED BY <2>1, <2>2, <2>3, <2>4, <2>5, <2>6, <2>7, <2>8, <2>9, <2>10, <2>11, <2>12
  <1>9. ASSUME NEW r \in Round, NEW n \in Node, main # "crashed", RelayReceives(r, n)
        PROVE  IInv'
    <2> USE <1>9 DEF RelayReceives, RelayGoto
    <2>0. /\ merge[r] = "relaying" /\ src[r] \in Round /\ dst[r] \in Round
          /\ src[r] <= round /\ dst[r] <= round /\ round \in Round
      BY DEF RelayInStep, MergeInStep, CallerTypeOK
    <2>b. /\ relay' \in [Round -> [Node -> {"none", "recv", "inside", "ended"}]]
          /\ \A h \in Round, m \in Node :
                relay'[h][m] = IF h = r /\ m = n THEN relay'[r][n] ELSE relay[h][m]
      BY EntryChanges DEF MergeTypeOK
    <2>d. /\ results[src[r]][n] \in Seq(Report) /\ results[src[r]][n] # <<>>
      BY <2>0 DEF ChannelsTypeOK
    <2>c. /\ results' \in [Round -> [Node -> Seq(Report)]]
          /\ \A h \in Round, m \in Node :
                results'[h][m] = IF h = src[r] /\ m = n THEN Tail(results[h][m])
                                 ELSE results[h][m]
      <3>1. Tail(results[src[r]][n]) \in Seq(Report)
        BY <2>d, Received
      <3>2. results' = [results EXCEPT ![src[r]][n] = Tail(results[src[r]][n])]
        OBVIOUS
      <3>3. results \in [Round -> [Node -> Seq(Report)]]
        BY DEF ChannelsTypeOK
      <3> DEFINE g == src[r]
                 v == Tail(results[src[r]][n])
      <3>4. g \in Round /\ v \in Seq(Report) /\ results' = [results EXCEPT ![g][n] = v]
        BY <2>0, <3>1, <3>2
      <3>5. \A h \in Round, m \in Node : h = g /\ m = n => Tail(results[h][m]) = v
        OBVIOUS
      <3> HIDE DEF g, v
      <3>6. /\ results' \in [Round -> [Node -> Seq(Report)]]
            /\ \A h \in Round, m \in Node :
                  results'[h][m] = IF h = g /\ m = n THEN v ELSE results[h][m]
        BY ONLY <3>3, <3>4, n \in Node, EntryChanges
      <3> USE DEF g
      <3> QED BY <3>5, <3>6
    <2>e. /\ held' \in [Round -> [Node -> Report]]
          /\ \A h \in Round, m \in Node :
                held'[h][m] = IF h = r /\ m = n THEN Head(results[src[r]][n]) ELSE held[h][m]
      BY <2>d, Received, EntryChanges DEF MergeTypeOK, Report
    <2>1. CallerTypeOK'
      BY <1>a, <2>0 DEF CallerTypeOK
    <2>2. ChannelsTypeOK'
      <3>1. /\ Len(Tail(results[src[r]][n])) = Len(results[src[r]][n]) - 1
            /\ Len(results[src[r]][n]) \in Nat /\ Len(results[src[r]][n]) <= MinChannelBuffer
        BY <2>0, <2>d, Received DEF ChannelsTypeOK
      <3>2. Len(Tail(results[src[r]][n])) <= MinChannelBuffer
        BY <3>1
      <3>4. \A h \in Round, m \in Node : Len(results'[h][m]) <= MinChannelBuffer
        BY <2>c, <3>2 DEF ChannelsTypeOK
      <3>3. UNCHANGED <<task, merged>>
        OBVIOUS
      <3> QED BY <2>c, <3>4, <3>3 DEF ChannelsTypeOK
    <2>3. MergeTypeOK'
      BY <2>b, <2>e DEF CallerTypeOK, MergeTypeOK
    <2>4. FieldsInStep'
      BY <1>a, <2>0 DEF CallerTypeOK, FieldsInStep, AfterWait
    <2>5. FutureUntouched'
      <3>1. UNCHANGED <<round, merged>>
        OBVIOUS
      <3> QED BY <1>a, <2>0, <2>c, <3>1 DEF FutureUntouched
    <2>6. TasksInStep'
      <3>1. UNCHANGED <<main, round, task>>
        OBVIOUS
      <3>2. main \in {"getReady", "resetNodeResult"} => src[r] # round
        BY <2>0, <2>d DEF TasksInStep
      <3> QED BY <1>a, <2>0, <2>c, <3>1, <3>2 DEF TasksInStep
    <2>7. MergeInStep'
      BY <1>a, <2>0 DEF CallerTypeOK, MergeTypeOK, FieldsInStep, MergeInStep, BeforeMerge
    <2>8. RelayInStep'
      BY <2>0, <2>b, <2>e DEF MergeTypeOK, RelayInStep, HasRead
    <2>9. Own'
      BY <1>a, <2>0
         DEF CallerTypeOK, MergeTypeOK, FieldsInStep, MergeInStep, Own, BeforeMerge,
             AfterWait, HasRead
    <2>10. Flow'
      <3> SUFFICES ASSUME cut = {} PROVE Flow'
        BY DEF Flow
      <3>1. src[r] = r
        BY <2>0 DEF Own
      <3>2. UNCHANGED <<round, task, merged>>
        OBVIOUS
      <3>3. r = round => /\ AllSay(n, Tail(results[round][n]), task[EndNode])
                         /\ Says(n, Head(results[round][n]), task[EndNode])
        BY <2>d, <3>1, Received DEF Flow
      <3>4. \A m \in Node : AllSay(m, results'[round][m], task[EndNode])
        BY <2>0, <2>c, <3>1, <3>3 DEF Flow
      <3>5. \A m \in Node : Says(m, held'[round][m], task[EndNode])
        BY <2>0, <2>e, <3>1, <3>3 DEF Flow
      <3> QED BY <3>2, <3>4, <3>5 DEF Flow
    <2>11. Waiting'
      BY <2>0, <2>b DEF CallerTypeOK, MergeTypeOK, Own, Waiting
    <2>12. VerdictSays'
      BY <1>a, <2>0 DEF CallerTypeOK, TasksInStep, VerdictSays, AfterWait
    <2> QED BY <2>1, <2>2, <2>3, <2>4, <2>5, <2>6, <2>7, <2>8, <2>9, <2>10, <2>11, <2>12
  <1>10. ASSUME NEW r \in Round, NEW n \in Node, main # "crashed", RelayFindsClosed(r, n)
         PROVE  IInv'
    <2> USE <1>10 DEF RelayFindsClosed, RelayGoto, MergedClosed, EgDone
    <2>0. /\ merge[r] = "relaying" /\ src[r] \in Round /\ dst[r] \in Round
          /\ src[r] <= round /\ dst[r] <= round /\ round \in Round
      BY DEF RelayInStep, MergeInStep, CallerTypeOK
    <2>b. /\ relay' \in [Round -> [Node -> {"none", "recv", "inside", "ended"}]]
          /\ \A h \in Round, m \in Node :
                relay'[h][m] = IF h = r /\ m = n THEN relay'[r][n] ELSE relay[h][m]
      BY EntryChanges DEF MergeTypeOK
    <2>d. /\ results[src[r]][n] \in Seq(Report) /\ results[src[r]][n] # <<>>
      BY <2>0 DEF ChannelsTypeOK
    <2>c. /\ results' \in [Round -> [Node -> Seq(Report)]]
          /\ \A h \in Round, m \in Node :
                results'[h][m] = IF h = src[r] /\ m = n THEN Tail(results[h][m])
                                 ELSE results[h][m]
      <3>1. Tail(results[src[r]][n]) \in Seq(Report)
        BY <2>d, Received
      <3>2. results' = [results EXCEPT ![src[r]][n] = Tail(results[src[r]][n])]
        OBVIOUS
      <3>3. results \in [Round -> [Node -> Seq(Report)]]
        BY DEF ChannelsTypeOK
      <3> DEFINE g == src[r]
                 v == Tail(results[src[r]][n])
      <3>4. g \in Round /\ v \in Seq(Report) /\ results' = [results EXCEPT ![g][n] = v]
        BY <2>0, <3>1, <3>2
      <3>5. \A h \in Round, m \in Node : h = g /\ m = n => Tail(results[h][m]) = v
        OBVIOUS
      <3> HIDE DEF g, v
      <3>6. /\ results' \in [Round -> [Node -> Seq(Report)]]
            /\ \A h \in Round, m \in Node :
                  results'[h][m] = IF h = g /\ m = n THEN v ELSE results[h][m]
        BY ONLY <3>3, <3>4, n \in Node, EntryChanges
      <3> USE DEF g
      <3> QED BY <3>5, <3>6
    <2>1. CallerTypeOK'
      BY <1>a, <2>0 DEF CallerTypeOK
    <2>2. ChannelsTypeOK'
      <3>1. /\ Len(Tail(results[src[r]][n])) = Len(results[src[r]][n]) - 1
            /\ Len(results[src[r]][n]) \in Nat /\ Len(results[src[r]][n]) <= MinChannelBuffer
        BY <2>0, <2>d, Received DEF ChannelsTypeOK
      <3>2. Len(Tail(results[src[r]][n])) <= MinChannelBuffer
        BY <3>1
      <3>4. \A h \in Round, m \in Node : Len(results'[h][m]) <= MinChannelBuffer
        BY <2>c, <3>2 DEF ChannelsTypeOK
      <3>3. UNCHANGED <<task, merged>>
        OBVIOUS
      <3> QED BY <2>c, <3>4, <3>3 DEF ChannelsTypeOK
    <2>3. MergeTypeOK'
      BY <1>a, <2>0 DEF CallerTypeOK, MergeTypeOK
    <2>4. FieldsInStep'
      BY <1>a, <2>0 DEF CallerTypeOK, FieldsInStep, AfterWait
    <2>5. FutureUntouched'
      <3>1. UNCHANGED <<round, merged>>
        OBVIOUS
      <3> QED BY <1>a, <2>0, <2>c, <3>1 DEF FutureUntouched
    <2>6. TasksInStep'
      <3>1. UNCHANGED <<main, round, task>>
        OBVIOUS
      <3>2. main \in {"getReady", "resetNodeResult"} => src[r] # round
        BY <2>0, <2>d DEF TasksInStep
      <3> QED BY <1>a, <2>0, <2>c, <3>1, <3>2 DEF TasksInStep
    <2>7. MergeInStep'
      BY <1>a, <2>0 DEF CallerTypeOK, MergeTypeOK, FieldsInStep, MergeInStep, BeforeMerge
    <2>8. RelayInStep'
      BY <1>a, <2>0
         DEF CallerTypeOK, MergeTypeOK, MergeInStep, RelayInStep, BeforeMerge, HasRead
    <2>9. Own'
      BY <1>a, <2>0
         DEF CallerTypeOK, MergeTypeOK, FieldsInStep, MergeInStep, Own, BeforeMerge,
             AfterWait, HasRead
    <2>10. Flow'
      <3> SUFFICES ASSUME cut = {} PROVE Flow'
        BY DEF Flow
      <3>1. src[r] = r
        BY <2>0 DEF Own
      <3>2. UNCHANGED <<round, task, merged>>
        OBVIOUS
      <3>3. r = round => /\ AllSay(n, Tail(results[round][n]), task[EndNode])
                         /\ Says(n, Head(results[round][n]), task[EndNode])
        BY <2>d, <3>1, Received DEF Flow
      <3>4. \A m \in Node : AllSay(m, results'[round][m], task[EndNode])
        BY <2>0, <2>c, <3>1, <3>3 DEF Flow
      <3>5. \A m \in Node : Says(m, held'[round][m], task[EndNode])
        BY DEF Flow
      <3> QED BY <3>2, <3>4, <3>5 DEF Flow
    <2>11. Waiting'
      BY <1>a, <2>0
         DEF CallerTypeOK, MergeTypeOK, FieldsInStep, MergeInStep, RelayInStep, Own,
             Waiting, BeforeMerge, AfterWait, HasRead
    <2>12. VerdictSays'
      BY <1>a, <2>0 DEF CallerTypeOK, TasksInStep, VerdictSays, AfterWait
    <2> QED BY <2>1, <2>2, <2>3, <2>4, <2>5, <2>6, <2>7, <2>8, <2>9, <2>10, <2>11, <2>12
  <1>11. ASSUME NEW r \in Round, NEW n \in Node, main # "crashed", RelayDrained(r, n)
         PROVE  IInv'
    <2> USE <1>11 DEF RelayDrained, RelayGoto, ResultsClosed
    <2>0. /\ merge[r] = "relaying" /\ src[r] \in Round /\ dst[r] \in Round
          /\ src[r] <= round /\ dst[r] <= round /\ round \in Round
      BY DEF RelayInStep, MergeInStep, CallerTypeOK
    <2>b. /\ relay' \in [Round -> [Node -> {"none", "recv", "inside", "ended"}]]
          /\ \A h \in Round, m \in Node :
                relay'[h][m] = IF h = r /\ m = n THEN relay'[r][n] ELSE relay[h][m]
      BY EntryChanges DEF MergeTypeOK
    <2>1. CallerTypeOK'
      BY <1>a, <2>0 DEF CallerTypeOK
    <2>2. ChannelsTypeOK'
      BY <1>a, <2>0 DEF CallerTypeOK, ChannelsTypeOK
    <2>3. MergeTypeOK'
      BY <1>a, <2>0 DEF CallerTypeOK, MergeTypeOK
    <2>4. FieldsInStep'
      BY <1>a, <2>0 DEF CallerTypeOK, FieldsInStep, AfterWait
    <2>5. FutureUntouched'
      BY <1>a, <2>0 DEF CallerTypeOK, ChannelsTypeOK, FutureUntouched
    <2>6. TasksInStep'
      BY <1>a, <2>0
         DEF CallerTypeOK, ChannelsTypeOK, TasksInStep, FutureUntouched, AfterWait
    <2>7. MergeInStep'
      BY <1>a, <2>0 DEF CallerTypeOK, MergeTypeOK, FieldsInStep, MergeInStep, BeforeMerge
    <2>8. RelayInStep'
      BY <2>0, <2>b DEF MergeTypeOK, RelayInStep, HasRead
    <2>9. Own'
      BY <1>a, <2>0
         DEF CallerTypeOK, MergeTypeOK, FieldsInStep, MergeInStep, Own, BeforeMerge,
             AfterWait, HasRead
    <2>10. Flow'
      BY <1>a, <2>0 DEF CallerTypeOK, FieldsInStep, MergeInStep, Own, Flow
    <2>11. Waiting'
      BY <1>a, <2>0
         DEF CallerTypeOK, MergeTypeOK, FieldsInStep, MergeInStep, RelayInStep, Own,
             Waiting, BeforeMerge, AfterWait, HasRead
    <2>12. VerdictSays'
      BY <1>a, <2>0 DEF CallerTypeOK, TasksInStep, VerdictSays, AfterWait
    <2> QED BY <2>1, <2>2, <2>3, <2>4, <2>5, <2>6, <2>7, <2>8, <2>9, <2>10, <2>11, <2>12
  <1>12. ASSUME NEW r \in Round, NEW n \in Node, main # "crashed", RelaySends(r, n)
         PROVE  IInv'
    <2> USE <1>12 DEF RelaySends, RelayGoto
    <2>0. /\ merge[r] = "relaying" /\ src[r] \in Round /\ dst[r] \in Round
          /\ src[r] <= round /\ dst[r] <= round /\ round \in Round
      BY DEF RelayInStep, MergeInStep, CallerTypeOK
    <2>b. /\ relay' \in [Round -> [Node -> {"none", "recv", "inside", "ended"}]]
          /\ \A h \in Round, m \in Node :
                relay'[h][m] = IF h = r /\ m = n THEN relay'[r][n] ELSE relay[h][m]
      BY EntryChanges DEF MergeTypeOK
    <2>c. held[r][n] \in Report /\ merged[dst[r]] \in Seq(Report) /\ Len(merged[dst[r]]) \in Nat
      BY <2>0 DEF MergeTypeOK, ChannelsTypeOK
    <2>d. /\ merged' \in [Round -> Seq(Report)]
          /\ \A h \in Round : merged'[h] = IF h = dst[r] THEN Append(merged[h], held[r][n])
                                           ELSE merged[h]
      BY <2>0, <2>c, Sent DEF ChannelsTypeOK
    <2>e. /\ held' \in [Round -> [Node -> Report]]
          /\ \A h \in Round, m \in Node :
                held'[h][m] = IF h = r /\ m = n THEN "Other" ELSE held[h][m]
      BY EntryChanges DEF MergeTypeOK, Report
    <2>1. CallerTypeOK'
      BY <1>a, <2>0 DEF CallerTypeOK
    <2>2. ChannelsTypeOK'
      <3>1. Len(Append(merged[dst[r]], held[r][n])) = Len(merged[dst[r]]) + 1
        BY <2>c, Sent
      <3>2. \A h \in Round : Len(merged'[h]) <= MaxChannelBuffer
        BY <2>0, <2>c, <2>d, <3>1 DEF ChannelsTypeOK
      <3>3. UNCHANGED <<task, results>>
        OBVIOUS
      <3> QED BY <2>d, <3>2, <3>3 DEF ChannelsTypeOK
    <2>3. MergeTypeOK'
      BY <2>b, <2>e DEF CallerTypeOK, MergeTypeOK
    <2>4. FieldsInStep'
      BY <1>a, <2>0 DEF CallerTypeOK, FieldsInStep, AfterWait
    <2>5. FutureUntouched'
      <3>1. UNCHANGED <<round, results>>
        OBVIOUS
      <3> QED BY <1>a, <2>0, <2>d, <3>1 DEF FutureUntouched
    <2>6. TasksInStep'
      BY <1>a, <2>0
         DEF CallerTypeOK, ChannelsTypeOK, TasksInStep, FutureUntouched, AfterWait
    <2>7. MergeInStep'
      BY <1>a, <2>0 DEF CallerTypeOK, MergeTypeOK, FieldsInStep, MergeInStep, BeforeMerge
    <2>8. RelayInStep'
      BY <2>0, <2>b, <2>e DEF MergeTypeOK, RelayInStep, HasRead
    <2>9. Own'
      <3>1. UNCHANGED <<round, main, cut, merge, src, dst>>
        OBVIOUS
      <3>2. cut = {} /\ merged'[round] # <<>> => merge[round] \in HasRead
        BY <2>0, <2>d DEF Own, HasRead
      <3> QED BY <3>1, <3>2 DEF Own
    <2>10. Flow'
      <3> SUFFICES ASSUME cut = {} PROVE Flow'
        BY DEF Flow
      <3>1. dst[r] = r
        BY <2>0 DEF Own
      <3>2. UNCHANGED <<round, task, results>>
        OBVIOUS
      <3>3. r = round => Says(EndNode, held[r][n], task[EndNode])
        BY DEF Flow, Says
      <3>4. AllSay(EndNode, merged'[round], task[EndNode])
        BY <2>0, <2>c, <2>d, <3>1, <3>3, Sent DEF Flow
      <3>5. \A m \in Node : Says(m, held'[round][m], task[EndNode])
        BY <2>0, <2>e DEF Flow, Says
      <3> QED BY <3>2, <3>4, <3>5 DEF Flow
    <2>11. Waiting'
      BY <2>0, <2>b DEF CallerTypeOK, MergeTypeOK, Own, Waiting
    <2>12. VerdictSays'
      BY <1>a, <2>0 DEF CallerTypeOK, TasksInStep, VerdictSays, AfterWait
    <2> QED BY <2>1, <2>2, <2>3, <2>4, <2>5, <2>6, <2>7, <2>8, <2>9, <2>10, <2>11, <2>12
  <1>13. ASSUME NEW r \in Round, NEW n \in Node, main # "crashed", RelayGivesUp(r, n)
         PROVE  IInv'
    <2> USE <1>13 DEF RelayGivesUp, RelayGoto, EgDone
    <2>0. /\ merge[r] = "relaying" /\ src[r] \in Round /\ dst[r] \in Round
          /\ src[r] <= round /\ dst[r] <= round /\ round \in Round
      BY DEF RelayInStep, MergeInStep, CallerTypeOK
    <2>b. /\ relay' \in [Round -> [Node -> {"none", "recv", "inside", "ended"}]]
          /\ \A h \in Round, m \in Node :
                relay'[h][m] = IF h = r /\ m = n THEN relay'[r][n] ELSE relay[h][m]
      BY EntryChanges DEF MergeTypeOK
    <2>e. /\ held' \in [Round -> [Node -> Report]]
          /\ \A h \in Round, m \in Node :
                held'[h][m] = IF h = r /\ m = n THEN "Other" ELSE held[h][m]
      BY EntryChanges DEF MergeTypeOK, Report
    <2>1. CallerTypeOK'
      BY <1>a, <2>0 DEF CallerTypeOK
    <2>2. ChannelsTypeOK'
      BY <1>a, <2>0 DEF CallerTypeOK, ChannelsTypeOK
    <2>3. MergeTypeOK'
      BY <2>b, <2>e DEF CallerTypeOK, MergeTypeOK
    <2>4. FieldsInStep'
      BY <1>a, <2>0 DEF CallerTypeOK, FieldsInStep, AfterWait
    <2>5. FutureUntouched'
      BY <1>a, <2>0 DEF CallerTypeOK, ChannelsTypeOK, FutureUntouched
    <2>6. TasksInStep'
      BY <1>a, <2>0
         DEF CallerTypeOK, ChannelsTypeOK, TasksInStep, FutureUntouched, AfterWait
    <2>7. MergeInStep'
      BY <1>a, <2>0 DEF CallerTypeOK, MergeTypeOK, FieldsInStep, MergeInStep, BeforeMerge
    <2>8. RelayInStep'
      BY <2>0, <2>b, <2>e DEF MergeTypeOK, RelayInStep, HasRead
    <2>9. Own'
      BY <1>a, <2>0
         DEF CallerTypeOK, MergeTypeOK, FieldsInStep, MergeInStep, Own, BeforeMerge,
             AfterWait, HasRead
    <2>10. Flow'
      <3>1. UNCHANGED <<cut, round, task, results, merged>>
        OBVIOUS
      <3>2. cut = {} => \A m \in Node : Says(m, held'[round][m], task[EndNode])
        BY <2>0, <2>e DEF Flow, Says
      <3> QED BY <3>1, <3>2 DEF Flow
    <2>11. Waiting'
      BY <1>a, <2>0
         DEF CallerTypeOK, MergeTypeOK, FieldsInStep, MergeInStep, RelayInStep, Own,
             Waiting, BeforeMerge, AfterWait, HasRead
    <2>12. VerdictSays'
      BY <1>a, <2>0 DEF CallerTypeOK, TasksInStep, VerdictSays, AfterWait
    <2> QED BY <2>1, <2>2, <2>3, <2>4, <2>5, <2>6, <2>7, <2>8, <2>9, <2>10, <2>11, <2>12
  <1>14. ASSUME main # "crashed", GetReady
         PROVE  IInv'
    <2> USE <1>14 DEF GetReady
    <2>0. task[EndNode] = "idle"
      BY DEF TasksInStep
    <2>b. \A m, w : Says(m, w, task[EndNode]) => Says(m, w, task'[EndNode])
      BY <2>0, SaysNothing DEF ChannelsTypeOK
    <2>c. \A m, s : AllSay(m, s, task[EndNode]) => AllSay(m, s, task'[EndNode])
      BY <2>b DEF AllSay
    <2>1. CallerTypeOK'
      BY <1>a, <2>0 DEF CallerTypeOK
    <2>2. ChannelsTypeOK'
      BY <1>a, <2>0 DEF CallerTypeOK, ChannelsTypeOK
    <2>3. MergeTypeOK'
      BY <1>a, <2>0 DEF CallerTypeOK, MergeTypeOK
    <2>4. FieldsInStep'
      BY <1>a, <2>0 DEF CallerTypeOK, FieldsInStep, AfterWait
    <2>5. FutureUntouched'
      BY <1>a, <2>0 DEF CallerTypeOK, ChannelsTypeOK, FutureUntouched
    <2>6. TasksInStep'
      BY <1>a, <2>0
         DEF CallerTypeOK, ChannelsTypeOK, TasksInStep, FutureUntouched, AfterWait
    <2>7. MergeInStep'
      BY <1>a, <2>0 DEF CallerTypeOK, MergeTypeOK, FieldsInStep, MergeInStep, BeforeMerge
    <2>8. RelayInStep'
      BY <1>a, <2>0
         DEF CallerTypeOK, MergeTypeOK, MergeInStep, RelayInStep, BeforeMerge, HasRead
    <2>9. Own'
      BY <1>a, <2>0
         DEF CallerTypeOK, MergeTypeOK, FieldsInStep, MergeInStep, Own, BeforeMerge,
             AfterWait, HasRead
    <2>10. Flow'
      <3>1. UNCHANGED <<round, held, merged, results, cut>>
        OBVIOUS
      <3> QED BY <2>b, <2>c, <3>1 DEF Flow
    <2>11. Waiting'
      BY <1>a, <2>0
         DEF CallerTypeOK, MergeTypeOK, FieldsInStep, MergeInStep, RelayInStep, Own,
             Waiting, BeforeMerge, AfterWait, HasRead
    <2>12. VerdictSays'
      BY <1>a, <2>0 DEF CallerTypeOK, TasksInStep, VerdictSays, AfterWait
    <2> QED BY <2>1, <2>2, <2>3, <2>4, <2>5, <2>6, <2>7, <2>8, <2>9, <2>10, <2>11, <2>12
  <1>15. ASSUME main # "crashed", Start
         PROVE  IInv'
    <2> USE <1>15 DEF Start
    <2>1. CallerTypeOK'
      BY <1>a DEF CallerTypeOK
    <2>2. ChannelsTypeOK'
      BY <1>a DEF CallerTypeOK, ChannelsTypeOK
    <2>3. MergeTypeOK'
      BY <1>a DEF CallerTypeOK, MergeTypeOK
    <2>4. FieldsInStep'
      BY <1>a DEF CallerTypeOK, FieldsInStep, AfterWait
    <2>5. FutureUntouched'
      BY <1>a DEF CallerTypeOK, ChannelsTypeOK, FutureUntouched
    <2>6. TasksInStep'
      BY <1>a DEF CallerTypeOK, ChannelsTypeOK, TasksInStep, FutureUntouched, AfterWait
    <2>7. MergeInStep'
      BY <1>a DEF CallerTypeOK, MergeTypeOK, FieldsInStep, MergeInStep, BeforeMerge
    <2>8. RelayInStep'
      BY <1>a
         DEF CallerTypeOK, MergeTypeOK, MergeInStep, RelayInStep, BeforeMerge, HasRead
    <2>9. Own'
      BY <1>a
         DEF CallerTypeOK, MergeTypeOK, FieldsInStep, MergeInStep, Own, BeforeMerge,
             AfterWait, HasRead
    <2>10. Flow'
      BY <1>a DEF CallerTypeOK, FieldsInStep, MergeInStep, Own, Flow
    <2>11. Waiting'
      BY <1>a
         DEF CallerTypeOK, MergeTypeOK, FieldsInStep, MergeInStep, RelayInStep, Own,
             Waiting, BeforeMerge, AfterWait, HasRead
    <2>12. VerdictSays'
      BY <1>a DEF CallerTypeOK, TasksInStep, VerdictSays, AfterWait
    <2> QED BY <2>1, <2>2, <2>3, <2>4, <2>5, <2>6, <2>7, <2>8, <2>9, <2>10, <2>11, <2>12
  <1>16. ASSUME main # "crashed", EnterWait
         PROVE  IInv'
    <2> USE <1>16 DEF EnterWait
    <2>1. CallerTypeOK'
      BY <1>a DEF CallerTypeOK
    <2>2. ChannelsTypeOK'
      BY <1>a DEF CallerTypeOK, ChannelsTypeOK
    <2>3. MergeTypeOK'
      BY <1>a DEF CallerTypeOK, MergeTypeOK
    <2>4. FieldsInStep'
      BY <1>a DEF CallerTypeOK, FieldsInStep, AfterWait
    <2>5. FutureUntouched'
      BY <1>a DEF CallerTypeOK, ChannelsTypeOK, FutureUntouched
    <2>6. TasksInStep'
      BY <1>a DEF CallerTypeOK, ChannelsTypeOK, TasksInStep, FutureUntouched, AfterWait
    <2>7. MergeInStep'
      BY <1>a DEF CallerTypeOK, MergeTypeOK, FieldsInStep, MergeInStep, BeforeMerge
    <2>8. RelayInStep'
      BY <1>a
         DEF CallerTypeOK, MergeTypeOK, MergeInStep, RelayInStep, BeforeMerge, HasRead
    <2>9. Own'
      BY <1>a
         DEF CallerTypeOK, MergeTypeOK, FieldsInStep, MergeInStep, Own, BeforeMerge,
             AfterWait, HasRead
    <2>10. Flow'
      BY <1>a DEF CallerTypeOK, FieldsInStep, MergeInStep, Own, Flow
    <2>11. Waiting'
      BY <1>a
         DEF CallerTypeOK, MergeTypeOK, FieldsInStep, MergeInStep, RelayInStep, Own,
             Waiting, BeforeMerge, AfterWait, HasRead
    <2>12. VerdictSays'
      BY <1>a DEF CallerTypeOK, TasksInStep, VerdictSays, AfterWait
    <2> QED BY <2>1, <2>2, <2>3, <2>4, <2>5, <2>6, <2>7, <2>8, <2>9, <2>10, <2>11, <2>12
  <1>17. ASSUME main # "crashed", WaitReceives
         PROVE  IInv'
    <2> USE <1>17 DEF WaitReceives, Returns
    <2>0. /\ nodesResult = round /\ round \in Round
          /\ merged[round] \in Seq(Report) /\ merged[round] # <<>>
      BY DEF CallerTypeOK, ChannelsTypeOK, FieldsInStep
    <2>b. /\ AllSay(EndNode, merged[round], task[EndNode]) =>
                /\ AllSay(EndNode, Tail(merged[round]), task[EndNode])
                /\ Says(EndNode, Head(merged[round]), task[EndNode])
          /\ Tail(merged[round]) \in Seq(Report)
          /\ Len(Tail(merged[round])) = Len(merged[round]) - 1
          /\ Len(merged[round]) \in Nat
      BY <2>0, Received
    <2>c. /\ merged' \in [Round -> Seq(Report)]
          /\ \A h \in Round : merged'[h] = IF h = round THEN Tail(merged[h]) ELSE merged[h]
      BY <2>0, <2>b DEF ChannelsTypeOK
    <2>d. cut' = {} => cut = {}
      OBVIOUS
    <2>1. CallerTypeOK'
      BY <1>a, <2>0 DEF CallerTypeOK
    <2>2. ChannelsTypeOK'
      <3>1. \A h \in Round : Len(merged'[h]) <= MaxChannelBuffer
        BY <2>0, <2>b, <2>c DEF ChannelsTypeOK
      <3>2. UNCHANGED <<task, results>>
        OBVIOUS
      <3> QED BY <2>c, <3>1, <3>2 DEF ChannelsTypeOK
    <2>3. MergeTypeOK'
      BY <1>a, <2>0 DEF CallerTypeOK, MergeTypeOK
    <2>4. FieldsInStep'
      BY <1>a, <2>0 DEF CallerTypeOK, FieldsInStep, AfterWait
    <2>5. FutureUntouched'
      BY <1>a, <2>0 DEF CallerTypeOK, ChannelsTypeOK, FutureUntouched
    <2>6. TasksInStep'
      BY <1>a, <2>0
         DEF CallerTypeOK, ChannelsTypeOK, TasksInStep, FutureUntouched, AfterWait
    <2>7. MergeInStep'
      BY <1>a, <2>0 DEF CallerTypeOK, MergeTypeOK, FieldsInStep, MergeInStep, BeforeMerge
    <2>8. RelayInStep'
      BY <1>a, <2>0
         DEF CallerTypeOK, MergeTypeOK, MergeInStep, RelayInStep, BeforeMerge, HasRead
    <2>9. Own'
      BY <1>a, <2>0
         DEF CallerTypeOK, MergeTypeOK, FieldsInStep, MergeInStep, Own, BeforeMerge,
             AfterWait, HasRead
    <2>10. Flow'
      <3>1. UNCHANGED <<round, task, results, held>>
        OBVIOUS
      <3>2. merged'[round] = Tail(merged[round])
        BY <2>0, <2>c
      <3> QED BY <2>b, <2>d, <3>1, <3>2 DEF Flow
    <2>11. Waiting'
      BY <1>a, <2>0
         DEF CallerTypeOK, MergeTypeOK, FieldsInStep, MergeInStep, RelayInStep, Own,
             Waiting, BeforeMerge, AfterWait, HasRead
    <2>12. VerdictSays'
      <3>1. CASE Head(merged[round]) \in {"Failed", "FlightEnd"}
        BY <2>0, <2>b, <2>d, <3>1 DEF Flow, Says, VerdictSays
      <3>2. CASE Head(merged[round]) \notin {"Failed", "FlightEnd"}
        BY <2>0, <3>2 DEF VerdictSays, AfterWait
      <3> QED BY <3>1, <3>2
    <2> QED BY <2>1, <2>2, <2>3, <2>4, <2>5, <2>6, <2>7, <2>8, <2>9, <2>10, <2>11, <2>12
  <1>18. ASSUME main # "crashed", WaitGivesUp
         PROVE  IInv'
    <2> USE <1>18 DEF WaitGivesUp, Returns, MergedClosed
    <2>1. CallerTypeOK'
      BY <1>a DEF CallerTypeOK
    <2>2. ChannelsTypeOK'
      BY <1>a DEF CallerTypeOK, ChannelsTypeOK
    <2>3. MergeTypeOK'
      BY <1>a DEF CallerTypeOK, MergeTypeOK
    <2>4. FieldsInStep'
      BY <1>a DEF CallerTypeOK, FieldsInStep, AfterWait
    <2>5. FutureUntouched'
      BY <1>a DEF CallerTypeOK, ChannelsTypeOK, FutureUntouched
    <2>6. TasksInStep'
      BY <1>a DEF CallerTypeOK, ChannelsTypeOK, TasksInStep, FutureUntouched, AfterWait
    <2>7. MergeInStep'
      BY <1>a DEF CallerTypeOK, MergeTypeOK, FieldsInStep, MergeInStep, BeforeMerge
    <2>8. RelayInStep'
      BY <1>a
         DEF CallerTypeOK, MergeTypeOK, MergeInStep, RelayInStep, BeforeMerge, HasRead
    <2>9. Own'
      BY <1>a
         DEF CallerTypeOK, MergeTypeOK, FieldsInStep, MergeInStep, Own, BeforeMerge,
             AfterWait, HasRead
    <2>10. Flow'
      BY <1>a DEF CallerTypeOK, FieldsInStep, MergeInStep, Own, Flow
    <2>11. Waiting'
      BY <1>a
         DEF CallerTypeOK, MergeTypeOK, FieldsInStep, MergeInStep, RelayInStep, Own,
             Waiting, BeforeMerge, AfterWait, HasRead
    <2>12. VerdictSays'
      <3>2. ~MergedClosed(nodesResult)
        BY <1>a DEF MergedClosed, FieldsInStep, CallerTypeOK
      <3>3. waitDone \/ merge[round] = "false"
        BY <3>2
      <3>4. cut' # {}
        BY <3>3 DEF Waiting, CallerTypeOK
      <3> QED BY <3>4 DEF VerdictSays
    <2> QED BY <2>1, <2>2, <2>3, <2>4, <2>5, <2>6, <2>7, <2>8, <2>9, <2>10, <2>11, <2>12
  <1>19. ASSUME main # "crashed", PoolCloses
         PROVE  IInv'
    <2> USE <1>19 DEF PoolCloses
    <2>1. CallerTypeOK'
      BY <1>a DEF CallerTypeOK
    <2>2. ChannelsTypeOK'
      BY <1>a DEF CallerTypeOK, ChannelsTypeOK
    <2>3. MergeTypeOK'
      BY <1>a DEF CallerTypeOK, MergeTypeOK
    <2>4. FieldsInStep'
      BY <1>a DEF CallerTypeOK, FieldsInStep, AfterWait
    <2>5. FutureUntouched'
      BY <1>a DEF CallerTypeOK, ChannelsTypeOK, FutureUntouched
    <2>6. TasksInStep'
      BY <1>a DEF CallerTypeOK, ChannelsTypeOK, TasksInStep, FutureUntouched, AfterWait
    <2>7. MergeInStep'
      BY <1>a DEF CallerTypeOK, MergeTypeOK, FieldsInStep, MergeInStep, BeforeMerge
    <2>8. RelayInStep'
      BY <1>a
         DEF CallerTypeOK, MergeTypeOK, MergeInStep, RelayInStep, BeforeMerge, HasRead
    <2>9. Own'
      BY <1>a
         DEF CallerTypeOK, MergeTypeOK, FieldsInStep, MergeInStep, Own, BeforeMerge,
             AfterWait, HasRead
    <2>10. Flow'
      BY <1>a DEF CallerTypeOK, FieldsInStep, MergeInStep, Own, Flow
    <2>11. Waiting'
      BY <1>a
         DEF CallerTypeOK, MergeTypeOK, FieldsInStep, MergeInStep, RelayInStep, Own,
             Waiting, BeforeMerge, AfterWait, HasRead
    <2>12. VerdictSays'
      BY <1>a DEF CallerTypeOK, TasksInStep, VerdictSays, AfterWait
    <2> QED BY <2>1, <2>2, <2>3, <2>4, <2>5, <2>6, <2>7, <2>8, <2>9, <2>10, <2>11, <2>12
  <1>20. ASSUME main # "crashed", CloseMerged
         PROVE  IInv'
    <2> USE <1>20 DEF CloseMerged
    <2>1. CallerTypeOK'
      BY <1>a DEF CallerTypeOK
    <2>2. ChannelsTypeOK'
      BY <1>a DEF CallerTypeOK, ChannelsTypeOK
    <2>3. MergeTypeOK'
      BY <1>a DEF CallerTypeOK, MergeTypeOK
    <2>4. FieldsInStep'
      BY <1>a DEF CallerTypeOK, FieldsInStep, AfterWait
    <2>5. FutureUntouched'
      BY <1>a DEF CallerTypeOK, ChannelsTypeOK, FutureUntouched
    <2>6. TasksInStep'
      BY <1>a DEF CallerTypeOK, ChannelsTypeOK, TasksInStep, FutureUntouched, AfterWait
    <2>7. MergeInStep'
      BY <1>a DEF CallerTypeOK, MergeTypeOK, FieldsInStep, MergeInStep, BeforeMerge
    <2>8. RelayInStep'
      BY <1>a
         DEF CallerTypeOK, MergeTypeOK, MergeInStep, RelayInStep, BeforeMerge, HasRead
    <2>9. Own'
      BY <1>a
         DEF CallerTypeOK, MergeTypeOK, FieldsInStep, MergeInStep, Own, BeforeMerge,
             AfterWait, HasRead
    <2>10. Flow'
      BY <1>a DEF CallerTypeOK, FieldsInStep, MergeInStep, Own, Flow
    <2>11. Waiting'
      BY <1>a
         DEF CallerTypeOK, MergeTypeOK, FieldsInStep, MergeInStep, RelayInStep, Own,
             Waiting, BeforeMerge, AfterWait, HasRead
    <2>12. VerdictSays'
      BY <1>a DEF CallerTypeOK, TasksInStep, VerdictSays, AfterWait
    <2> QED BY <2>1, <2>2, <2>3, <2>4, <2>5, <2>6, <2>7, <2>8, <2>9, <2>10, <2>11, <2>12
  <1>21. ASSUME main # "crashed", CloseResults
         PROVE  IInv'
    <2> USE <1>21 DEF CloseResults
    <2>1. CallerTypeOK'
      BY <1>a DEF CallerTypeOK
    <2>2. ChannelsTypeOK'
      BY <1>a DEF CallerTypeOK, ChannelsTypeOK
    <2>3. MergeTypeOK'
      BY <1>a DEF CallerTypeOK, MergeTypeOK
    <2>4. FieldsInStep'
      BY <1>a DEF CallerTypeOK, FieldsInStep, AfterWait
    <2>5. FutureUntouched'
      BY <1>a DEF CallerTypeOK, ChannelsTypeOK, FutureUntouched
    <2>6. TasksInStep'
      BY <1>a DEF CallerTypeOK, ChannelsTypeOK, TasksInStep, FutureUntouched, AfterWait
    <2>7. MergeInStep'
      BY <1>a DEF CallerTypeOK, MergeTypeOK, FieldsInStep, MergeInStep, BeforeMerge
    <2>8. RelayInStep'
      BY <1>a
         DEF CallerTypeOK, MergeTypeOK, MergeInStep, RelayInStep, BeforeMerge, HasRead
    <2>9. Own'
      BY <1>a
         DEF CallerTypeOK, MergeTypeOK, FieldsInStep, MergeInStep, Own, BeforeMerge,
             AfterWait, HasRead
    <2>10. Flow'
      BY <1>a DEF CallerTypeOK, FieldsInStep, MergeInStep, Own, Flow
    <2>11. Waiting'
      BY <1>a
         DEF CallerTypeOK, MergeTypeOK, FieldsInStep, MergeInStep, RelayInStep, Own,
             Waiting, BeforeMerge, AfterWait, HasRead
    <2>12. VerdictSays'
      BY <1>a DEF CallerTypeOK, TasksInStep, VerdictSays, AfterWait
    <2> QED BY <2>1, <2>2, <2>3, <2>4, <2>5, <2>6, <2>7, <2>8, <2>9, <2>10, <2>11, <2>12
  <1>22. ASSUME main # "crashed", ResetNodesResult
         PROVE  IInv'
    <2> USE <1>22 DEF ResetNodesResult
    <2>0. /\ round' = round + 1 /\ round + 1 \in Round /\ round \in Nat
      BY <1>a DEF CallerTypeOK
    <2>a. \A r \in Round : r \in Nat /\ src[r] \in Nat /\ dst[r] \in Nat
      <3> HIDE <1>22 DEF ResetNodesResult
      <3>1. \A r \in Round : src[r] \in {0} \cup Round /\ dst[r] \in {0} \cup Round
        BY DEF MergeTypeOK
      <3>2. {0} \cup Round \subseteq Nat
        BY <1>a
      <3> QED BY <3>1, <3>2
    <2>b. /\ merge[round + 1] = "none" /\ merged[round + 1] = <<>>
          /\ \A n \in Node : results[round + 1][n] = <<>>
      BY <2>0, <2>a DEF MergeInStep, FutureUntouched
    <2>1. CallerTypeOK'
      BY <1>a, <2>0 DEF CallerTypeOK
    <2>2. ChannelsTypeOK'
      BY <1>a, <2>0 DEF CallerTypeOK, ChannelsTypeOK
    <2>3. MergeTypeOK'
      BY <1>a, <2>0 DEF CallerTypeOK, MergeTypeOK
    <2>4. FieldsInStep'
      BY <1>a, <2>0 DEF CallerTypeOK, FieldsInStep, AfterWait
    <2>5. FutureUntouched'
      BY <1>a, <2>0 DEF CallerTypeOK, ChannelsTypeOK, FutureUntouched
    <2>6. TasksInStep'
      BY <1>a, <2>0
         DEF CallerTypeOK, ChannelsTypeOK, TasksInStep, FutureUntouched, AfterWait
    <2>7. MergeInStep'
      <3>1. UNCHANGED <<merge, src, dst>>
        OBVIOUS
      <3> QED BY <2>0, <2>a, <3>1 DEF MergeInStep
    <2>8. RelayInStep'
      BY <1>a, <2>0
         DEF CallerTypeOK, MergeTypeOK, MergeInStep, RelayInStep, BeforeMerge, HasRead
    <2>9. Own'
      <3> SUFFICES ASSUME cut = {} PROVE Own'
        BY DEF Own
      <3>1. UNCHANGED <<cut, merge, src, dst, merged>>
        OBVIOUS
      <3>2. \A r \in Round : r < round + 1 => r < round \/ r = round
        BY <2>0, <2>a
      <3>3. \A r \in Round : r < round + 1 => merge[r] \in HasRead
        BY <3>2 DEF Own, AfterWait
      <3> QED BY <2>0, <2>b, <3>1, <3>3 DEF Own, AfterWait
    <2>10. Flow'
      <3>1. UNCHANGED <<results, held, merged>>
        OBVIOUS
      <3>2. \A n \in Node : held[round + 1][n] = "Other"
        BY <2>0, <2>b DEF RelayInStep, HasRead
      <3>3. \A n, end : Says(n, "Other", end) /\ AllSay(n, <<>>, end)
        BY DEF Says, AllSay
      <3> QED BY <2>0, <2>b, <3>1, <3>2, <3>3 DEF Flow
    <2>11. Waiting'
      BY <1>a, <2>0
         DEF CallerTypeOK, MergeTypeOK, FieldsInStep, MergeInStep, RelayInStep, Own,
             Waiting, BeforeMerge, AfterWait, HasRead
    <2>12. VerdictSays'
      BY <1>a, <2>0 DEF CallerTypeOK, TasksInStep, VerdictSays, AfterWait
    <2> QED BY <2>1, <2>2, <2>3, <2>4, <2>5, <2>6, <2>7, <2>8, <2>9, <2>10, <2>11, <2>12
  <1>23. ASSUME main # "crashed", ResetNodeResult
         PROVE  IInv'
    <2> USE <1>23 DEF ResetNodeResult
    <2>1. CallerTypeOK'
      BY <1>a DEF CallerTypeOK
    <2>2. ChannelsTypeOK'
      BY <1>a DEF CallerTypeOK, ChannelsTypeOK
    <2>3. MergeTypeOK'
      BY <1>a DEF CallerTypeOK, MergeTypeOK
    <2>4. FieldsInStep'
      BY <1>a DEF CallerTypeOK, FieldsInStep, AfterWait
    <2>5. FutureUntouched'
      BY <1>a DEF CallerTypeOK, ChannelsTypeOK, FutureUntouched
    <2>6. TasksInStep'
      BY <1>a DEF CallerTypeOK, ChannelsTypeOK, TasksInStep, FutureUntouched, AfterWait
    <2>7. MergeInStep'
      BY <1>a DEF CallerTypeOK, MergeTypeOK, FieldsInStep, MergeInStep, BeforeMerge
    <2>8. RelayInStep'
      BY <1>a
         DEF CallerTypeOK, MergeTypeOK, MergeInStep, RelayInStep, BeforeMerge, HasRead
    <2>9. Own'
      BY <1>a
         DEF CallerTypeOK, MergeTypeOK, FieldsInStep, MergeInStep, Own, BeforeMerge,
             AfterWait, HasRead
    <2>10. Flow'
      BY <1>a DEF CallerTypeOK, FieldsInStep, MergeInStep, Own, Flow
    <2>11. Waiting'
      BY <1>a
         DEF CallerTypeOK, MergeTypeOK, FieldsInStep, MergeInStep, RelayInStep, Own,
             Waiting, BeforeMerge, AfterWait, HasRead
    <2>12. VerdictSays'
      BY <1>a DEF CallerTypeOK, TasksInStep, VerdictSays, AfterWait
    <2> QED BY <2>1, <2>2, <2>3, <2>4, <2>5, <2>6, <2>7, <2>8, <2>9, <2>10, <2>11, <2>12
  <1>24. ASSUME main # "crashed", Interrupt
         PROVE  IInv'
    <2> USE <1>24 DEF Interrupt
    <2>1. CallerTypeOK'
      BY <1>a DEF CallerTypeOK
    <2>2. ChannelsTypeOK'
      BY <1>a DEF CallerTypeOK, ChannelsTypeOK
    <2>3. MergeTypeOK'
      BY <1>a DEF CallerTypeOK, MergeTypeOK
    <2>4. FieldsInStep'
      BY <1>a DEF CallerTypeOK, FieldsInStep, AfterWait
    <2>5. FutureUntouched'
      BY <1>a DEF CallerTypeOK, ChannelsTypeOK, FutureUntouched
    <2>6. TasksInStep'
      BY <1>a DEF CallerTypeOK, ChannelsTypeOK, TasksInStep, FutureUntouched, AfterWait
    <2>7. MergeInStep'
      BY <1>a DEF CallerTypeOK, MergeTypeOK, FieldsInStep, MergeInStep, BeforeMerge
    <2>8. RelayInStep'
      BY <1>a
         DEF CallerTypeOK, MergeTypeOK, MergeInStep, RelayInStep, BeforeMerge, HasRead
    <2>9. Own'
      BY <1>a
         DEF CallerTypeOK, MergeTypeOK, FieldsInStep, MergeInStep, Own, BeforeMerge,
             AfterWait, HasRead
    <2>10. Flow'
      BY <1>a DEF CallerTypeOK, FieldsInStep, MergeInStep, Own, Flow
    <2>11. Waiting'
      BY <1>a
         DEF CallerTypeOK, MergeTypeOK, FieldsInStep, MergeInStep, RelayInStep, Own,
             Waiting, BeforeMerge, AfterWait, HasRead
    <2>12. VerdictSays'
      BY <1>a DEF CallerTypeOK, TasksInStep, VerdictSays, AfterWait
    <2> QED BY <2>1, <2>2, <2>3, <2>4, <2>5, <2>6, <2>7, <2>8, <2>9, <2>10, <2>11, <2>12
  <1>25. CASE UNCHANGED vars
    <2> USE <1>25 DEF vars
    <2>1. CallerTypeOK' /\ ChannelsTypeOK' /\ MergeTypeOK'
      BY DEF CallerTypeOK, ChannelsTypeOK, MergeTypeOK
    <2>2. FieldsInStep' /\ FutureUntouched' /\ TasksInStep'
      BY DEF FieldsInStep, FutureUntouched, TasksInStep
    <2>3. MergeInStep' /\ RelayInStep' /\ Own'
      BY DEF MergeInStep, RelayInStep, Own
    <2>4. Flow' /\ Waiting' /\ VerdictSays'
      BY DEF Flow, AllSay, Waiting, VerdictSays
    <2> QED BY <2>1, <2>2, <2>3, <2>4
  <1>26. CASE main # "crashed" /\ Step
    BY <1>26, <1>1, <1>2, <1>3, <1>4, <1>5, <1>6, <1>7, <1>8, <1>9, <1>10, <1>11, <1>12,
       <1>13, <1>14, <1>15, <1>16, <1>17, <1>18, <1>19, <1>20, <1>21, <1>22, <1>23, <1>24
       DEF Step, Runner, Merge, Relay, Call, Wait, Reset
  <1> QED BY <1>25, <1>26 DEF Next, Stopped

\* The invariant holds throughout.
THEOREM InvHolds == Spec => []IInv
  BY InitInv, InvStep, PTL DEF Spec

\* Every variable keeps its type and no channel exceeds its capacity, for any
\* nodes, capacities and number of rounds.
THEOREM RoundsTypeCorrect == Spec => []RoundsTypeOK
  <1>1. IInv => RoundsTypeOK
    BY DEF IInv
  <1> QED BY InvHolds, <1>1, PTL

\* A Wait that was not cut short leaves no merge goroutine that still has to
\* read the fields which Reset writes.
THEOREM NoReaderLeftHolds == Spec => []NoReaderLeft
  <1>1. IInv => NoReaderLeft
    <2> SUFFICES ASSUME IInv, main \in {"returned", "resetNodeResult", "getReady"}, cut = {},
                        NEW r \in Round
                 PROVE  merge[r] \notin {"spawned", "checked", "sourced"}
      BY DEF NoReaderLeft
    <2>0. round \in Round /\ Round \subseteq Nat
      BY RoundsAssumption DEF IInv, RoundsTypeOK, CallerTypeOK, Round
    <2>1. CASE r < round
      BY <2>1 DEF IInv, Own, HasRead
    <2>2. CASE r > round
      BY <2>2 DEF IInv, InStep, MergeInStep
    <2>3. CASE r = round
      BY <2>3 DEF IInv, InStep, MergeInStep, Own, HasRead, BeforeMerge, AfterWait
    <2> QED BY <2>0, <2>1, <2>2, <2>3
  <1> QED BY InvHolds, <1>1, PTL

\* As long as no Wait is cut short, each Wait returns true exactly when the end
\* node of its own round has reported FlightEnd.
THEOREM RerunVerdictHolds == Spec => []RerunVerdict
  <1>1. IInv => RerunVerdict
    BY DEF IInv, VerdictSays, AfterWait, RerunVerdict
  <1> QED BY InvHolds, <1>1, PTL

(***************************************************************************)
(* Nobody waits for ever.                                                  *)
(***************************************************************************)

\* As long as no earlier Wait has been cut short, every merge reads the fields of
\* its own round, though this round's may read them after its Wait.
OwnChannels ==
    /\ round \in cut => main \in AfterWait
    /\ \A g \in cut : g <= round
    /\ cut \subseteq {round} =>
        \A r \in Round :
            /\ merge[r] \in {"sourced", "relaying"} => src[r] = r
            /\ merge[r] = "relaying" => dst[r] = r
            /\ r < round => merge[r] \in HasRead

\* How many reports a runner has made, at most.
Made(at) == CASE at = "pre" -> 1
              [] at \in {"in", "failed"} -> 2
              [] at = "done" -> 3
              [] OTHER -> 0

\* A result channel holds reports of its node alone, none of them twice.
OnlyMade == \A n \in Node : Len(results[round][n]) <= Made(task[n])

\* A relay that holds a report, or has given up, has taken one out before.
OneTaken ==
    cut \subseteq {round} /\ main \in {"wait", "closePool"} =>
        \A n \in Node : relay[round][n] \in {"inside", "ended"} =>
            Len(results[round][n]) + 1 <= Made(task[n])

\* The end node gets on when every other node has signalled.
EndComesLast ==
    task[EndNode] \in {"pre", "in", "done"} => \A m \in Other : task[m] \in {"in", "done"}

\* Wait hears of a cancellation, and cancels its own context first.
ContextsInStep ==
    /\ runDone => waitDone
    /\ main \in AfterWait => waitDone

\* There is a verdict among these reports.
Tells(s) == \E i \in DOMAIN s : s[i] # "Other"

\* The end node's verdict is not lost on its way to Wait.
VerdictKept ==
    (/\ cut = {} /\ main \in {"start", "enterWait", "wait"} /\ ~waitDone
     /\ task[EndNode] \in {"done", "failed"})
        => Tells(results[round][EndNode]) \/ held[round][EndNode] # "Other" \/ Tells(merged[round])

GoesOnInv == OnlyMade /\ OneTaken /\ EndComesLast /\ ContextsInStep /\ VerdictKept

\* A verdict sent stays in the channel ...
LEMMA TellsAppend ==
    ASSUME NEW s \in Seq(Report), NEW v \in Report
    PROVE  Tells(s) \/ v # "Other" => Tells(Append(s, v))
  <1>1. \A i \in DOMAIN s : i \in DOMAIN Append(s, v) /\ Append(s, v)[i] = s[i]
    OBVIOUS
  <1>2. Len(s) + 1 \in DOMAIN Append(s, v) /\ Append(s, v)[Len(s) + 1] = v
    OBVIOUS
  <1> QED BY <1>1, <1>2 DEF Tells

\* ... until it is received.
LEMMA TellsTail ==
    ASSUME NEW s \in Seq(Report), s # <<>>, Tells(s)
    PROVE  Head(s) # "Other" \/ Tells(Tail(s))
  <1> SUFFICES ASSUME Head(s) = "Other" PROVE Tells(Tail(s))
    OBVIOUS
  <1>1. PICK i \in DOMAIN s : s[i] # "Other"
    BY DEF Tells
  <1>2. i \in Nat \ {0} /\ i <= Len(s) /\ Len(s) \in Nat /\ Head(s) = s[1]
    OBVIOUS
  <1>3. i # 1
    BY <1>1, <1>2
  <1>4. i - 1 \in DOMAIN Tail(s) /\ Tail(s)[i - 1] = s[i]
    BY <1>2, <1>3
  <1> QED BY <1>1, <1>4 DEF Tells

LEMMA InitGoesOn == Init => GoesOnInv
  BY RoundsAssumption DEF Init, GoesOnInv, OnlyMade, OneTaken, EndComesLast, ContextsInStep,
     VerdictKept, Made, AfterWait, Round

LEMMA InitOwnChannels == Init => OwnChannels
  BY RoundsAssumption DEF Init, OwnChannels, Round

\* Only the merge of this round has its fields still to read, and they are there.
LEMMA StillToRead ==
    ASSUME IInv, OwnChannels, cut \subseteq {round}, main # "crashed",
           NEW r \in Round, merge[r] \in {"spawned", "checked", "sourced"}
    PROVE  r = round /\ main \notin BeforeMerge /\ nodeResult = round /\ nodesResult = round
  <1>1. ~(r < round) /\ ~(r > round)
    BY DEF IInv, InStep, OwnChannels, MergeInStep, HasRead
  <1>2. r = round
    BY <1>1, RoundsAssumption DEF IInv, RoundsTypeOK, CallerTypeOK, Round
  <1>3. main \notin BeforeMerge
    BY <1>2 DEF IInv, InStep, MergeInStep
  <1> QED BY <1>2, <1>3
          DEF IInv, InStep, FieldsInStep, RoundsTypeOK, CallerTypeOK, BeforeMerge, AfterWait

LEMMA StepOwnChannels == IInv /\ OwnChannels /\ [Next]_vars => OwnChannels'
  <1> SUFFICES ASSUME IInv, OwnChannels, [Next]_vars PROVE OwnChannels'
    OBVIOUS
  <1> USE DEF callerVars, fieldVars, mergeVars, relayVars, ctxVars
  <1>a. /\ round \in Round /\ Round \subseteq Nat \ {0}
        /\ merge \in [Round -> {"none", "spawned", "checked", "sourced", "relaying",
                                "true", "false"}]
        /\ src \in [Round -> {0} \cup Round] /\ dst \in [Round -> {0} \cup Round]
    BY RoundsAssumption DEF IInv, RoundsTypeOK, CallerTypeOK, MergeTypeOK, Round
  <1>1. CASE /\ UNCHANGED <<round, merge, src, dst>> /\ cut \subseteq cut'
             /\ cut' \subseteq cut \cup {round}
             /\ round \in cut' => main' \in AfterWait
    <2>1. \A g \in cut' : g <= round
      BY <1>1, <1>a DEF OwnChannels
    <2> QED BY <1>1, <2>1 DEF OwnChannels
  <1>2. ASSUME NEW n \in Node, Runner(n) PROVE OwnChannels'
    BY <1>1, <1>2 DEF Runner, ReportPhase, ReportFailure, DropTask, OwnChannels
  <1>3. ASSUME NEW r \in Round, main # "crashed", TornRead(r) PROVE OwnChannels'
    <2>1. round \notin cut
      BY <1>3 DEF TornRead, OwnChannels, AfterWait
    <2> QED BY <1>1, <1>3, <2>1 DEF TornRead
  <1>4. ASSUME NEW r \in Round, NEW n \in Node, Relay(r, n) PROVE OwnChannels'
    BY <1>1, <1>4
       DEF Relay, RelayReceives, RelayFindsClosed, RelayDrained, RelaySends, RelayGivesUp,
           OwnChannels
  <1>5. ASSUME NEW r \in Round, main # "crashed", Merge(r) PROVE OwnChannels'
    <2>1. /\ UNCHANGED <<round, main, cut>>
          /\ \A h \in Round : h # r => merge'[h] = merge[h] /\ src'[h] = src[h] /\ dst'[h] = dst[h]
      BY <1>5, <1>a
         DEF Merge, MergeChecks, MergeReadsNodeResult, MergeReadsNodesResult, MergeReturns
    <2> SUFFICES ASSUME cut \subseteq {round}
                 PROVE  /\ merge'[r] \in {"sourced", "relaying"} => src'[r] = r
                        /\ merge'[r] = "relaying" => dst'[r] = r
                        /\ r < round => merge'[r] \in HasRead
      BY <2>1 DEF OwnChannels
    <2>2. CASE MergeReturns(r)
      BY <2>2, <1>a DEF MergeReturns, HasRead
    <2>3. CASE MergeChecks(r) \/ MergeReadsNodeResult(r) \/ MergeReadsNodesResult(r)
      <3>1. r = round /\ nodeResult = round /\ nodesResult = round
        BY <1>5, <2>3, StillToRead DEF MergeChecks, MergeReadsNodeResult, MergeReadsNodesResult
      <3>2. ~(r < round)
        BY <1>a, <3>1
      <3>3. CASE MergeChecks(r)
        BY <1>a, <3>2, <3>3 DEF MergeChecks
      <3>4. CASE MergeReadsNodeResult(r)
        BY <1>a, <3>1, <3>2, <3>4 DEF MergeReadsNodeResult
      <3>5. CASE MergeReadsNodesResult(r)
        BY <1>a, <3>1, <3>2, <3>5 DEF MergeReadsNodesResult, OwnChannels
      <3> QED BY <2>3, <3>3, <3>4, <3>5
    <2> QED BY <1>5, <2>2, <2>3 DEF Merge
  <1>6. CASE GetReady \/ Start \/ ResetNodeResult
    BY <1>1, <1>6 DEF GetReady, Start, ResetNodeResult, OwnChannels, AfterWait
  <1>7. CASE EnterWait
    <2>1. /\ UNCHANGED <<round, cut, src, dst>> /\ main' = "wait" /\ round \notin cut
          /\ merge'[round] = "spawned" /\ \A h \in Round : h # round => merge'[h] = merge[h]
      BY <1>7, <1>a DEF EnterWait, OwnChannels, AfterWait
    <2> QED BY <1>a, <2>1 DEF OwnChannels
  <1>8. CASE Wait
    BY <1>1, <1>8
       DEF Wait, WaitReceives, WaitGivesUp, Returns, PoolCloses, CloseMerged, CloseResults,
           OwnChannels, AfterWait
  <1>9. CASE ResetNodesResult
    <2>1. /\ main = "returned" /\ round' = round + 1 /\ UNCHANGED <<cut, merge, src, dst>>
      BY <1>9 DEF ResetNodesResult
    <2>2. \A g \in cut : g <= round /\ g \in Round
      BY DEF OwnChannels, IInv, RoundsTypeOK, CallerTypeOK
    <2>3. \A g \in cut : g # round + 1 /\ g <= round + 1
      <3> SUFFICES ASSUME NEW g \in cut PROVE g # round + 1 /\ g <= round + 1
        OBVIOUS
      <3>1. g \in Nat /\ round \in Nat /\ g <= round
        BY <1>a, <2>2
      <3> QED BY <3>1
    <2>4. ASSUME cut \subseteq {round + 1}, NEW r \in Round
          PROVE  /\ merge[r] \in {"sourced", "relaying"} => src[r] = r
                 /\ merge[r] = "relaying" => dst[r] = r
                 /\ r < round + 1 => merge[r] \in HasRead
      <3>1. cut = {}
        BY <2>3, <2>4
      <3>2. r < round + 1 => r < round \/ r = round
        BY <1>a
      <3> QED BY <2>1, <3>1, <3>2 DEF IInv, Own, AfterWait
    <2> QED BY <2>1, <2>3, <2>4 DEF OwnChannels
  <1>10. CASE Interrupt
    BY <1>1, <1>10 DEF Interrupt, OwnChannels
  <1>11. CASE UNCHANGED vars
    BY <1>1, <1>11 DEF vars, OwnChannels
  <1>12. CASE main # "crashed" /\ Step
    BY <1>12, <1>2, <1>3, <1>4, <1>5, <1>6, <1>7, <1>8, <1>9, <1>10 DEF Step, Call, Reset
  <1> QED BY <1>11, <1>12 DEF Next, Stopped

LEMMA MadeValues ==
    /\ Made("idle") = 0 /\ Made("queued") = 0 /\ Made("pre") = 1 /\ Made("in") = 2
    /\ Made("done") = 3 /\ Made("failed") = 2
  BY DEF Made

\* A runner that reports or fails: one report more, in the channel of its node.
LEMMA ReportGoesOn ==
    ASSUME IInv, GoesOnInv, NEW n \in Node, NEW v \in Report, SendResult(n, v),
           UNCHANGED <<callerVars, fieldVars, merged, mergeVars, relayVars, ctxVars>>,
           NEW to \in {"pre", "in", "done", "failed"},
           task' = [task EXCEPT ![n] = to],
           Made(to) >= Made(task[n]) + 1,
           n = EndNode /\ to \in {"pre", "in", "done"} =>
               \A m \in Other : task[m] \in {"in", "done"},
           task[n] = "in" => to = "done",
           task[n] \notin {"done", "failed"},
           n = EndNode /\ to \in {"done", "failed"} => v # "Other"
    PROVE  GoesOnInv'
  <1> USE DEF callerVars, fieldVars, mergeVars, relayVars, ctxVars
  <1>1. CallerTypeOK /\ ChannelsTypeOK /\ round \in Round /\ EndNode \in Node /\ Other \subseteq Node
    BY RoundsAssumption DEF IInv, RoundsTypeOK, CallerTypeOK, Other
  <1>2. \A m \in Node :
          \/ results'[round][m] = results[round][m]
          \/ m = n /\ results'[round][m] = Append(results[round][m], v)
    BY <1>1, SendResultChanges
  <1>3. /\ \A m \in Node : task'[m] = IF m = n THEN to ELSE task[m]
        /\ UNCHANGED <<round, main, cut, relay, held, merged, runDone, waitDone>>
    BY <1>1 DEF ChannelsTypeOK
  <1>4. \A m \in Node : results[round][m] \in Seq(Report)
    BY <1>1 DEF ChannelsTypeOK
  <1>5. \A m \in Node : /\ Len(results[round][m]) \in Nat /\ Len(results'[round][m]) \in Nat
                        /\ Len(results'[round][m]) <= Len(results[round][m]) + 1
                        /\ m # n => Len(results'[round][m]) = Len(results[round][m])
    <2> SUFFICES ASSUME NEW m \in Node
                 PROVE  /\ Len(results[round][m]) \in Nat /\ Len(results'[round][m]) \in Nat
                        /\ Len(results'[round][m]) <= Len(results[round][m]) + 1
                        /\ m # n => Len(results'[round][m]) = Len(results[round][m])
      OBVIOUS
    <2>1. results[round][m] \in Seq(Report)
      BY <1>4
    <2>2. Len(Append(results[round][m], v)) = Len(results[round][m]) + 1
      BY <2>1, Sent
    <2>3. Len(results[round][m]) \in Nat
      BY <2>1
    <2> QED BY <1>2, <2>2, <2>3
  <1>6. \A m \in Node : Made(task[m]) \in Nat /\ Made(task'[m]) \in Nat
    <2>1. /\ task \in [Node -> {"idle", "queued", "pre", "in", "done", "failed"}]
          /\ task' \in [Node -> {"idle", "queued", "pre", "in", "done", "failed"}]
      BY <1>1 DEF ChannelsTypeOK
    <2>2. \A at \in {"idle", "queued", "pre", "in", "done", "failed"} : Made(at) \in Nat
      BY MadeValues
    <2> QED BY <2>1, <2>2
  <1>7. \A m \in Node : /\ m # n => Made(task'[m]) = Made(task[m])
                        /\ m = n => Made(task'[m]) >= Made(task[m]) + 1
    BY <1>3, <1>6
  <1>8. OnlyMade'
    <2> SUFFICES ASSUME NEW m \in Node PROVE Len(results'[round][m]) <= Made(task'[m])
      BY <1>3 DEF OnlyMade
    <2>1. Len(results[round][m]) <= Made(task[m])
      BY DEF GoesOnInv, OnlyMade
    <2>2. CASE m = n
      <3>1. /\ Len(results'[round][m]) <= Len(results[round][m]) + 1
            /\ Made(task'[m]) >= Made(task[m]) + 1
        BY <1>5, <1>7, <2>2
      <3> QED BY <1>5, <1>6, <2>1, <3>1
    <2>3. CASE m # n
      BY <1>5, <1>7, <2>1, <2>3
    <2> QED BY <2>2, <2>3
  <1>9. OneTaken'
    <2> SUFFICES ASSUME cut \subseteq {round}, main \in {"wait", "closePool"}, NEW m \in Node,
                        relay[round][m] \in {"inside", "ended"}
                 PROVE  Len(results'[round][m]) + 1 <= Made(task'[m])
      BY <1>3 DEF OneTaken
    <2>1. Len(results[round][m]) + 1 <= Made(task[m])
      BY DEF GoesOnInv, OneTaken
    <2>2. CASE m = n
      <3>1. /\ Len(results'[round][m]) <= Len(results[round][m]) + 1
            /\ Made(task'[m]) >= Made(task[m]) + 1
        BY <1>5, <1>7, <2>2
      <3> QED BY <1>5, <1>6, <2>1, <3>1
    <2>3. CASE m # n
      BY <1>5, <1>7, <2>1, <2>3
    <2> QED BY <2>2, <2>3
  <1>10. EndComesLast'
    <2>1. task'[EndNode] \in {"pre", "in", "done"} => \A m \in Other : task[m] \in {"in", "done"}
      BY <1>1, <1>3 DEF GoesOnInv, EndComesLast
    <2> QED BY <1>1, <1>3, <2>1 DEF EndComesLast
  <1>11. ContextsInStep'
    BY <1>3 DEF GoesOnInv, ContextsInStep
  <1>12. VerdictKept'
    <2> SUFFICES ASSUME cut = {}, main \in {"start", "enterWait", "wait"}, ~waitDone,
                        task'[EndNode] \in {"done", "failed"}
                 PROVE  \/ Tells(results'[round][EndNode]) \/ held[round][EndNode] # "Other"
                        \/ Tells(merged[round])
      BY <1>3 DEF VerdictKept
    <2>1. ~runDone
      BY DEF GoesOnInv, ContextsInStep
    <2>2. CASE n = EndNode
      <3>1. v # "Other"
        BY <1>1, <1>3, <2>2
      <3>2. results'[round][EndNode] = Append(results[round][EndNode], v)
        BY <1>1, <2>1, <2>2 DEF SendResult, ChannelsTypeOK
      <3> QED BY <1>1, <1>4, <3>1, <3>2, TellsAppend
    <2>3. CASE n # EndNode
      BY <1>1, <1>2, <1>3, <2>3 DEF GoesOnInv, VerdictKept
    <2> QED BY <2>2, <2>3
  <1> QED BY <1>8, <1>9, <1>10, <1>11, <1>12 DEF GoesOnInv

\* A step that touches neither tasks nor reports nor relays, and at most brings
\* the caller on with its context done.
LEMMA QuietGoesOn ==
    ASSUME IInv, GoesOnInv,
           UNCHANGED <<round, task, results, merged, relay, held, runDone>>,
           cut \subseteq cut',
           waitDone => waitDone',
           main' # main =>
               \/ main' = "crashed"
               \/ main' = "enterWait" /\ main = "start"
               \/ main' = "getReady" /\ main = "resetNodeResult"
               \/ main' = "closePool" /\ main = "wait" /\ waitDone'
               \/ main' \in AfterWait \ {"closePool"} /\ main \in AfterWait
    PROVE  GoesOnInv'
  <1>1. OnlyMade' /\ EndComesLast'
    BY DEF GoesOnInv, OnlyMade, EndComesLast
  <1>2. OneTaken'
    <2> SUFFICES ASSUME cut \subseteq {round}, main' \in {"wait", "closePool"}
                 PROVE  OneTaken'
      BY DEF OneTaken
    <2>1. main \in {"wait", "closePool"}
      BY DEF AfterWait
    <2> QED BY <2>1 DEF GoesOnInv, OneTaken
  <1>3. ContextsInStep'
    BY DEF GoesOnInv, ContextsInStep, AfterWait
  <1>4. VerdictKept'
    BY DEF GoesOnInv, VerdictKept, AfterWait
  <1> QED BY <1>1, <1>2, <1>3, <1>4 DEF GoesOnInv

\* One report is received from a result channel.
LEMMA TakeOne ==
    ASSUME ChannelsTypeOK, NEW g \in Round, NEW n \in Node, results[g][n] # <<>>,
           results' = [results EXCEPT ![g][n] = Tail(@)]
    PROVE  /\ \A h \in Round, m \in Node :
                h # g \/ m # n => results'[h][m] = results[h][m]
           /\ results'[g][n] = Tail(results[g][n])
           /\ results[g][n] \in Seq(Report)
           /\ Len(results'[g][n]) = Len(results[g][n]) - 1
           /\ \A h \in Round, m \in Node :
                /\ Len(results[h][m]) \in Nat /\ Len(results'[h][m]) \in Nat
                /\ Len(results'[h][m]) <= Len(results[h][m])
  <1>1. results[g][n] \in Seq(Report) /\ results \in [Round -> [Node -> Seq(Report)]]
    BY DEF ChannelsTypeOK
  <1>2. /\ Tail(results[g][n]) \in Seq(Report)
        /\ Len(Tail(results[g][n])) = Len(results[g][n]) - 1
    BY <1>1, Received
  <1>3. results' = [results EXCEPT ![g][n] = Tail(results[g][n])]
    OBVIOUS
  <1> DEFINE v == Tail(results[g][n])
  <1>4. v \in Seq(Report) /\ results' = [results EXCEPT ![g][n] = v]
    BY <1>2, <1>3
  <1> HIDE DEF v
  <1>5. \A h \in Round, m \in Node :
          results'[h][m] = IF h = g /\ m = n THEN v ELSE results[h][m]
    BY ONLY <1>1, <1>4, g \in Round, n \in Node, EntryChanges
  <1>6. results'[g][n] = Tail(results[g][n])
    BY <1>5 DEF v
  <1>7. \A h \in Round, m \in Node : Len(results[h][m]) \in Nat
    BY <1>1
  <1>8. \A h \in Round, m \in Node :
          /\ Len(results'[h][m]) \in Nat /\ Len(results'[h][m]) <= Len(results[h][m])
    <2> SUFFICES ASSUME NEW h \in Round, NEW m \in Node
                 PROVE  Len(results'[h][m]) \in Nat /\ Len(results'[h][m]) <= Len(results[h][m])
      OBVIOUS
    <2>1. CASE h = g /\ m = n
      <3>1. Len(Tail(results[g][n])) \in Nat
        BY <1>2
      <3> QED BY <1>2, <1>6, <1>7, <2>1, <3>1
    <2>2. CASE ~(h = g /\ m = n)
      BY <1>5, <1>7, <2>2
    <2> QED BY <2>1, <2>2
  <1> QED BY <1>1, <1>2, <1>5, <1>6, <1>7, <1>8

\* Without an earlier cut a relay that is still at it works between the channels of its
\* own round, and that of the round the caller is in after EnterWait only.
LEMMA RelayAtIt ==
    ASSUME IInv, OwnChannels, NEW r \in Round, NEW n \in Node,
           relay[r][n] \in {"recv", "inside"}
    PROVE  /\ src[r] \in Round /\ dst[r] \in Round /\ round \in Round
           /\ cut \subseteq {round} => src[r] = r /\ dst[r] = r
           /\ r = round => main \notin BeforeMerge
           /\ cut = {} /\ r = round /\ main \in {"start", "enterWait", "wait"} /\ ~waitDone
                 => main = "wait" /\ ~egErr[r]
  <1>1. merge[r] = "relaying"
    BY DEF IInv, InStep, RelayInStep
  <1>2. /\ src[r] \in Round /\ dst[r] \in Round /\ round \in Round
        /\ cut \subseteq {round} => src[r] = r /\ dst[r] = r
    BY <1>1 DEF IInv, InStep, MergeInStep, OwnChannels, RoundsTypeOK, CallerTypeOK
  <1>3. r = round => main \notin BeforeMerge
    BY <1>1 DEF IInv, InStep, MergeInStep
  <1> QED BY <1>2, <1>3 DEF IInv, Waiting, BeforeMerge

\* Every step keeps GoesOnInv: first those of the relays.
LEMMA RelayGoesOn ==
    ASSUME IInv, OwnChannels, GoesOnInv, NEW r \in Round, NEW n \in Node, Relay(r, n)
    PROVE  GoesOnInv'
  <1> USE DEF callerVars, fieldVars, mergeVars, relayVars, ctxVars
  <1>a. /\ ChannelsTypeOK /\ round \in Round /\ EndNode \in Node /\ Round \subseteq Nat
        /\ relay \in [Round -> [Node -> {"none", "recv", "inside", "ended"}]]
        /\ held \in [Round -> [Node -> Report]] /\ "Other" \in Report
        /\ merged \in [Round -> Seq(Report)]
        /\ nodesResult = round
    <2>1. Round \subseteq Nat /\ EndNode \in Node
      BY RoundsAssumption DEF Round
    <2>2. "Other" \in Report
      BY DEF Report
    <2> QED BY <2>1, <2>2
            DEF IInv, RoundsTypeOK, CallerTypeOK, MergeTypeOK, ChannelsTypeOK, InStep, FieldsInStep
  <1>b. UNCHANGED <<task, round, main, cut, runDone, waitDone>>
    BY DEF Relay, RelayReceives, RelayFindsClosed, RelayDrained, RelaySends, RelayGivesUp
  <1>c. EndComesLast' /\ ContextsInStep'
    BY <1>b DEF GoesOnInv, EndComesLast, ContextsInStep
  <1>d. /\ src[r] \in Round /\ dst[r] \in Round
        /\ cut \subseteq {round} => src[r] = r /\ dst[r] = r
        /\ r = round => main \notin BeforeMerge
        /\ cut = {} /\ r = round /\ main \in {"start", "enterWait", "wait"} /\ ~waitDone
              => main = "wait" /\ ~egErr[r]
    BY RelayAtIt
       DEF Relay, RelayReceives, RelayFindsClosed, RelayDrained, RelaySends, RelayGivesUp, RelayGoto
  <1>e. \A m \in Node : Made(task[m]) \in Nat
    <2>1. task \in [Node -> {"idle", "queued", "pre", "in", "done", "failed"}]
      BY <1>a DEF ChannelsTypeOK
    <2>2. \A at \in {"idle", "queued", "pre", "in", "done", "failed"} : Made(at) \in Nat
      BY MadeValues
    <2> QED BY <2>1, <2>2
  <1>1. CASE RelayReceives(r, n)
    <2> USE <1>1 DEF RelayReceives, RelayGoto
    <2>1. /\ \A h \in Round, m \in Node :
               h # src[r] \/ m # n => results'[h][m] = results[h][m]
          /\ results'[src[r]][n] = Tail(results[src[r]][n])
          /\ results[src[r]][n] \in Seq(Report)
          /\ Len(results'[src[r]][n]) = Len(results[src[r]][n]) - 1
          /\ \A h \in Round, m \in Node :
               /\ Len(results[h][m]) \in Nat /\ Len(results'[h][m]) \in Nat
               /\ Len(results'[h][m]) <= Len(results[h][m])
      BY <1>a, <1>d, TakeOne
    <2>2. /\ \A h \in Round, m \in Node : h # r \/ m # n => relay'[h][m] = relay[h][m]
          /\ \A h \in Round, m \in Node : h # r \/ m # n => held'[h][m] = held[h][m]
          /\ held'[r][n] = Head(results[src[r]][n])
      BY <1>a
    <2>3. OnlyMade'
      BY <1>a, <1>b, <1>e, <2>1 DEF GoesOnInv, OnlyMade
    <2>4. OneTaken'
      <3> SUFFICES ASSUME cut \subseteq {round}, main \in {"wait", "closePool"}, NEW m \in Node,
                          relay'[round][m] \in {"inside", "ended"}
                   PROVE  Len(results'[round][m]) + 1 <= Made(task[m])
        BY <1>b DEF OneTaken
      <3>1. CASE round = r /\ m = n
        <4>1. Len(results[round][m]) <= Made(task[m])
          BY DEF GoesOnInv, OnlyMade
        <4>2. src[r] = r
          BY <1>d
        <4> QED BY <1>a, <1>e, <2>1, <3>1, <4>1, <4>2
      <3>2. CASE ~(round = r /\ m = n)
        <4>1. relay[round][m] \in {"inside", "ended"}
          BY <1>a, <2>2, <3>2
        <4>2. Len(results[round][m]) + 1 <= Made(task[m])
          BY <4>1 DEF GoesOnInv, OneTaken
        <4> QED BY <1>a, <1>e, <2>1, <4>2
      <3> QED BY <3>1, <3>2
    <2>5. VerdictKept'
      <3> SUFFICES ASSUME cut = {}, main \in {"start", "enterWait", "wait"}, ~waitDone,
                          task[EndNode] \in {"done", "failed"}
                   PROVE  \/ Tells(results'[round][EndNode]) \/ held'[round][EndNode] # "Other"
                          \/ Tells(merged[round])
        BY <1>b DEF VerdictKept
      <3>1. \/ Tells(results[round][EndNode]) \/ held[round][EndNode] # "Other"
            \/ Tells(merged[round])
        BY DEF GoesOnInv, VerdictKept
      <3>2. CASE r = round /\ n = EndNode
        <4>1. held[round][EndNode] = "Other"
          BY <3>2 DEF IInv, InStep, RelayInStep
        <4> QED BY <1>d, <2>1, <2>2, <3>1, <3>2, <4>1, TellsTail
      <3>3. CASE ~(r = round /\ n = EndNode)
        BY <1>a, <1>d, <2>1, <2>2, <3>1, <3>3
      <3> QED BY <3>2, <3>3
    <2> QED BY <1>c, <2>3, <2>4, <2>5 DEF GoesOnInv
  <1>2. CASE RelayFindsClosed(r, n)
    <2> USE <1>2 DEF RelayFindsClosed, RelayGoto, MergedClosed
    <2>1. /\ \A h \in Round, m \in Node :
               h # src[r] \/ m # n => results'[h][m] = results[h][m]
          /\ \A h \in Round, m \in Node :
               /\ Len(results[h][m]) \in Nat /\ Len(results'[h][m]) \in Nat
               /\ Len(results'[h][m]) <= Len(results[h][m])
      BY <1>a, <1>d, TakeOne
    <2>2. \A h \in Round, m \in Node : h # r \/ m # n => relay'[h][m] = relay[h][m]
      BY <1>a
    <2>3. OnlyMade'
      BY <1>a, <1>b, <1>e, <2>1 DEF GoesOnInv, OnlyMade
    <2>4. cut \subseteq {round} /\ main \in {"start", "enterWait", "wait", "closePool"} => r # round
      BY <1>a, <1>d
    <2>5. OneTaken'
      <3> SUFFICES ASSUME cut \subseteq {round}, main \in {"wait", "closePool"}, NEW m \in Node,
                          relay'[round][m] \in {"inside", "ended"}
                   PROVE  Len(results'[round][m]) + 1 <= Made(task[m])
        BY <1>b DEF OneTaken
      <3>1. relay[round][m] \in {"inside", "ended"}
        BY <1>a, <2>2, <2>4
      <3>2. Len(results[round][m]) + 1 <= Made(task[m])
        BY <3>1 DEF GoesOnInv, OneTaken
      <3> QED BY <1>a, <1>e, <2>1, <3>2
    <2>6. VerdictKept'
      BY <1>a, <1>b, <1>d, <2>1, <2>4 DEF GoesOnInv, VerdictKept
    <2> QED BY <1>c, <2>3, <2>5, <2>6 DEF GoesOnInv
  <1>3. CASE RelayDrained(r, n)
    <2> USE <1>3 DEF RelayDrained, RelayGoto, ResultsClosed
    <2>1. \A h \in Round, m \in Node : h # r \/ m # n => relay'[h][m] = relay[h][m]
      BY <1>a
    <2>2. cut \subseteq {round} /\ main \in {"start", "enterWait", "wait", "closePool"} => r # round
      BY <1>a, <1>d
    <2>3. OnlyMade' /\ VerdictKept'
      BY <1>b DEF GoesOnInv, OnlyMade, VerdictKept
    <2>4. OneTaken'
      BY <1>a, <1>b, <2>1, <2>2 DEF GoesOnInv, OneTaken
    <2> QED BY <1>c, <2>3, <2>4 DEF GoesOnInv
  <1>4. CASE RelaySends(r, n)
    <2> USE <1>4 DEF RelaySends, RelayGoto
    <2>1. /\ \A h \in Round, m \in Node : h # r \/ m # n => relay'[h][m] = relay[h][m]
          /\ relay'[r][n] = "recv"
          /\ \A h \in Round, m \in Node : h # r \/ m # n => held'[h][m] = held[h][m]
          /\ merged'[dst[r]] = Append(merged[dst[r]], held[r][n])
          /\ \A h \in Round : h # dst[r] => merged'[h] = merged[h]
          /\ held[r][n] \in Report /\ merged[dst[r]] \in Seq(Report)
      BY <1>a, <1>d
    <2>2. OnlyMade'
      BY <1>b DEF GoesOnInv, OnlyMade
    <2>3. OneTaken'
      BY <1>a, <1>b, <2>1 DEF GoesOnInv, OneTaken
    <2>4. VerdictKept'
      <3> SUFFICES ASSUME cut = {}, main \in {"start", "enterWait", "wait"}, ~waitDone,
                          task[EndNode] \in {"done", "failed"}
                   PROVE  \/ Tells(results[round][EndNode]) \/ held'[round][EndNode] # "Other"
                          \/ Tells(merged'[round])
        BY <1>b DEF VerdictKept
      <3>1. \/ Tells(results[round][EndNode]) \/ held[round][EndNode] # "Other"
            \/ Tells(merged[round])
        BY DEF GoesOnInv, VerdictKept
      <3>2. Tells(merged[dst[r]]) \/ held[r][n] # "Other" => Tells(merged'[dst[r]])
        BY <2>1, TellsAppend
      <3>3. dst[r] = r
        BY <1>d
      <3> QED BY <1>a, <2>1, <3>1, <3>2, <3>3
    <2> QED BY <1>c, <2>2, <2>3, <2>4 DEF GoesOnInv
  <1>5. CASE RelayGivesUp(r, n)
    <2> USE <1>5 DEF RelayGivesUp, RelayGoto, EgDone
    <2>1. /\ \A h \in Round, m \in Node : h # r \/ m # n => relay'[h][m] = relay[h][m]
          /\ \A h \in Round, m \in Node : h # r \/ m # n => held'[h][m] = held[h][m]
          /\ relay[r][n] = "inside"
      BY <1>a
    <2>2. OnlyMade'
      BY <1>b DEF GoesOnInv, OnlyMade
    <2>3. OneTaken'
      <3> SUFFICES ASSUME cut \subseteq {round}, main \in {"wait", "closePool"}, NEW m \in Node,
                          relay'[round][m] \in {"inside", "ended"}
                   PROVE  Len(results[round][m]) + 1 <= Made(task[m])
        BY <1>b DEF OneTaken
      <3>1. relay[round][m] \in {"inside", "ended"}
        BY <1>a, <2>1
      <3> QED BY <3>1 DEF GoesOnInv, OneTaken
    <2>4. VerdictKept'
      <3> SUFFICES ASSUME cut = {}, main \in {"start", "enterWait", "wait"}, ~waitDone
                   PROVE  held'[round][EndNode] = held[round][EndNode]
        BY <1>b DEF GoesOnInv, VerdictKept
      <3>1. r # round
        BY <1>a, <1>d
      <3> QED BY <1>a, <2>1, <3>1
    <2> QED BY <1>c, <2>2, <2>3, <2>4 DEF GoesOnInv
  <1> QED BY <1>1, <1>2, <1>3, <1>4, <1>5 DEF Relay

LEMMA StepGoesOn == IInv /\ OwnChannels /\ GoesOnInv /\ [Next]_vars => GoesOnInv'
  <1> SUFFICES ASSUME IInv, OwnChannels, GoesOnInv, [Next]_vars PROVE GoesOnInv'
    OBVIOUS
  <1> USE DEF callerVars, fieldVars, mergeVars, relayVars, ctxVars
  <1>a. /\ CallerTypeOK /\ ChannelsTypeOK /\ MergeTypeOK /\ round \in Round
        /\ EndNode \in Node /\ Other \subseteq Node
        /\ task \in [Node -> {"idle", "queued", "pre", "in", "done", "failed"}]
        /\ Round \subseteq Nat \ {0} /\ \A g \in Round : g < MaxRounds => g + 1 \in Round
    <2>1. Round \subseteq Nat \ {0} /\ \A g \in Round : g < MaxRounds => g + 1 \in Round
      BY RoundsAssumption DEF Round
    <2>2. EndNode \in Node /\ Other \subseteq Node
      BY RoundsAssumption DEF Other
    <2> QED BY <2>1, <2>2 DEF IInv, RoundsTypeOK, CallerTypeOK, ChannelsTypeOK
  <1>b. Len(<<>>) = 0
    OBVIOUS
  <1>1. ASSUME NEW n \in Node, ReportPhase(n) PROVE GoesOnInv'
    <2>1. PICK from \in {"queued", "pre", "in"}, to \in {"pre", "in", "done"} :
            /\ from = "queued" => to = "pre"
            /\ from = "pre" => to = "in"
            /\ from = "in" => to = "done"
            /\ task[n] = from /\ task' = [task EXCEPT ![n] = to]
            /\ n = EndNode => \A m \in Other : task[m] \in {"in", "done"}
            /\ SendResult(n, IF n = EndNode /\ to = "done" THEN "FlightEnd" ELSE "Other")
            /\ UNCHANGED <<callerVars, fieldVars, merged, mergeVars, relayVars, ctxVars>>
      BY <1>1 DEF ReportPhase
    <2>2. Made(to) >= Made(task[n]) + 1
      BY <2>1, MadeValues
    <2> DEFINE v == IF n = EndNode /\ to = "done" THEN "FlightEnd" ELSE "Other"
    <2>3. v \in Report /\ SendResult(n, v) /\ (n = EndNode /\ to = "done" => v # "Other")
      BY <2>1 DEF Report
    <2> HIDE DEF v
    <2> QED BY <2>1, <2>2, <2>3, ReportGoesOn
  <1>2. ASSUME NEW n \in Node, ReportFailure(n) PROVE GoesOnInv'
    <2> DEFINE v == IF n = EndNode THEN "Failed" ELSE "Other"
    <2>1. /\ task[n] \in {"queued", "pre"} /\ task' = [task EXCEPT ![n] = "failed"]
          /\ v \in Report /\ SendResult(n, v) /\ (n = EndNode => v # "Other")
          /\ UNCHANGED <<callerVars, fieldVars, merged, mergeVars, relayVars, ctxVars>>
      BY <1>2 DEF ReportFailure, Report
    <2>2. Made("failed") >= Made(task[n]) + 1
      BY <2>1, MadeValues
    <2> HIDE DEF v
    <2> QED BY <2>1, <2>2, ReportGoesOn
  <1>3. ASSUME NEW n \in Node, DropTask(n) PROVE GoesOnInv'
    <2>1. /\ task[n] = "queued" /\ runDone /\ waitDone
          /\ \A m \in Node : task'[m] = IF m = n THEN "failed" ELSE task[m]
          /\ UNCHANGED <<round, main, cut, results, merged, relay, held, runDone, waitDone>>
      BY <1>3, <1>a DEF DropTask, GoesOnInv, ContextsInStep
    <2>2. \A m \in Node : \A k \in Nat : k <= Made(task[m]) => k <= Made(task'[m])
      BY <2>1, MadeValues
    <2>3. \A m \in Node : Len(results[round][m]) \in Nat
      BY <1>a DEF ChannelsTypeOK
    <2>4. OnlyMade' /\ OneTaken'
      BY <2>1, <2>2, <2>3 DEF GoesOnInv, OnlyMade, OneTaken
    <2>5. EndComesLast'
      BY <1>a, <2>1 DEF GoesOnInv, EndComesLast
    <2>6. ContextsInStep' /\ VerdictKept'
      BY <2>1 DEF GoesOnInv, ContextsInStep, VerdictKept
    <2> QED BY <2>4, <2>5, <2>6 DEF GoesOnInv
  <1>4. ASSUME NEW r \in Round, MergeChecks(r) \/ MergeReadsNodeResult(r) \/ TornRead(r)
                                \/ MergeReturns(r)
        PROVE  GoesOnInv'
    BY <1>4, QuietGoesOn DEF MergeChecks, MergeReadsNodeResult, TornRead, MergeReturns
  <1>5. ASSUME NEW r \in Round, MergeReadsNodesResult(r) PROVE GoesOnInv'
    <2>1. /\ UNCHANGED <<round, main, cut, task, results, merged, held, runDone, waitDone>>
          /\ \A m \in Node : relay'[round][m] \in {relay[round][m], "recv"}
      BY <1>5, <1>a DEF MergeReadsNodesResult, MergeTypeOK
    <2>2. OneTaken'
      BY <2>1 DEF GoesOnInv, OneTaken
    <2> QED BY <2>1, <2>2 DEF GoesOnInv, OnlyMade, EndComesLast, ContextsInStep, VerdictKept
  <1>6. ASSUME NEW r \in Round, NEW n \in Node, Relay(r, n) PROVE GoesOnInv'
    BY <1>6, RelayGoesOn
  <1>7. CASE GetReady
    <2>1. /\ \A n \in Node : task'[n] = "queued" /\ results'[round'][n] = <<>>
          /\ main' = "start" /\ UNCHANGED <<runDone, waitDone>>
      BY <1>7 DEF GetReady, IInv, InStep, TasksInStep
    <2> QED BY <1>a, <1>b, <2>1, MadeValues
            DEF GoesOnInv, OnlyMade, OneTaken, EndComesLast, ContextsInStep, VerdictKept, AfterWait
  <1>8. CASE Start
    BY <1>8, QuietGoesOn DEF Start
  <1>9. CASE EnterWait
    <2>1. /\ main = "enterWait" /\ main' = "wait"
          /\ UNCHANGED <<round, cut, task, results, merged, relay, held, runDone, waitDone>>
      BY <1>9 DEF EnterWait
    <2>2. \A n \in Node : relay[round][n] = "none"
      BY <1>a, <2>1 DEF IInv, InStep, MergeInStep, RelayInStep, BeforeMerge, HasRead, MergeTypeOK
    <2>3. OneTaken'
      BY <2>1, <2>2 DEF OneTaken
    <2> QED BY <2>1, <2>3
            DEF GoesOnInv, OnlyMade, EndComesLast, ContextsInStep, VerdictKept, AfterWait
  <1>10. CASE WaitReceives
    <2>1. /\ main = "wait" /\ merged[round] # <<>> /\ merged[round] \in Seq(Report)
          /\ merged'[round] = Tail(merged[round])
          /\ UNCHANGED <<round, task, results, relay, held, runDone>>
          /\ \/ Head(merged[round]) = "Other" /\ UNCHANGED <<main, cut, waitDone>>
             \/ main' = "closePool" /\ waitDone' /\ cut \subseteq cut'
      <3>1. nodesResult = round /\ merged \in [Round -> Seq(Report)]
        BY <1>a DEF IInv, InStep, FieldsInStep, ChannelsTypeOK
      <3>2. Head(merged[round]) \in Report
        BY <1>10, <1>a, <3>1 DEF WaitReceives
      <3> QED BY <1>10, <1>a, <3>1, <3>2 DEF WaitReceives, Returns, Report
    <2>2. OnlyMade' /\ EndComesLast'
      BY <2>1 DEF GoesOnInv, OnlyMade, EndComesLast
    <2>3. OneTaken'
      BY <2>1 DEF GoesOnInv, OneTaken
    <2>4. ContextsInStep'
      BY <2>1 DEF GoesOnInv, ContextsInStep, AfterWait
    <2>5. VerdictKept'
      BY <2>1, TellsTail DEF GoesOnInv, VerdictKept
    <2> QED BY <2>2, <2>3, <2>4, <2>5 DEF GoesOnInv
  <1>11. CASE WaitGivesUp
    <2>1. main = "wait" /\ main' = "closePool" /\ waitDone' /\ cut \subseteq cut'
      BY <1>11 DEF WaitGivesUp, Returns
    <2> QED BY <1>11, <2>1, QuietGoesOn DEF WaitGivesUp
  <1>12. CASE PoolCloses
    BY <1>12, QuietGoesOn DEF PoolCloses, AfterWait
  <1>13. CASE CloseMerged
    BY <1>13, QuietGoesOn DEF CloseMerged, AfterWait
  <1>14. CASE CloseResults
    BY <1>14, QuietGoesOn DEF CloseResults, AfterWait
  <1>15. CASE ResetNodesResult
    <2>1. /\ round' = round + 1 /\ round + 1 \in Round /\ round + 1 > round
          /\ \A n \in Node : task'[n] = "idle"
          /\ main' = "resetNodeResult" /\ ~runDone' /\ UNCHANGED results
      BY <1>15, <1>a DEF ResetNodesResult
    <2>2. \A n \in Node : results'[round'][n] = <<>>
      BY <2>1 DEF IInv, InStep, FutureUntouched
    <2> QED BY <1>a, <1>b, <2>1, <2>2, MadeValues
            DEF GoesOnInv, OnlyMade, OneTaken, EndComesLast, ContextsInStep, VerdictKept, AfterWait
  <1>16. CASE ResetNodeResult
    BY <1>16, QuietGoesOn DEF ResetNodeResult
  <1>17. CASE Interrupt
    <2>1. /\ waitDone'
          /\ UNCHANGED <<round, main, cut, task, results, merged, relay, held>>
      BY <1>17 DEF Interrupt
    <2> QED BY <2>1
            DEF GoesOnInv, OnlyMade, OneTaken, EndComesLast, ContextsInStep, VerdictKept
  <1>18. CASE UNCHANGED vars
    BY <1>18, QuietGoesOn DEF vars
  <1>19. CASE main # "crashed" /\ Step
    BY <1>19, <1>1, <1>2, <1>3, <1>4, <1>5, <1>6, <1>7, <1>8, <1>9, <1>10, <1>11, <1>12,
       <1>13, <1>14, <1>15, <1>16, <1>17
       DEF Step, Runner, Merge, Call, Wait, Reset
  <1> QED BY <1>18, <1>19 DEF Next, Stopped

\* What merge leaves behind for Wait: relays from the moment it has read both
\* fields, none of them at work once it has returned; and no crash.
MergeRelays ==
    /\ main \in {"wait"} \cup AfterWait => merge[round] # "none"
    /\ \A r \in Round : merge[r] = "relaying" => \A n \in Node : relay[r][n] # "none"
    /\ cut \subseteq {round} =>
         \A r \in Round : merge[r] \in {"true", "false"} => \A n \in Node : relay[r][n] = "ended"
    /\ cut \subseteq {round} => main # "crashed"

LEMMA InitMergeRelays == Init => MergeRelays
  BY DEF Init, MergeRelays, AfterWait

LEMMA StepMergeRelays == IInv /\ OwnChannels /\ MergeRelays /\ [Next]_vars => MergeRelays'
  <1> SUFFICES ASSUME IInv, OwnChannels, MergeRelays, [Next]_vars PROVE MergeRelays'
    OBVIOUS
  <1> USE DEF callerVars, fieldVars, mergeVars, relayVars, ctxVars
  <1>a. /\ round \in Round /\ Round \subseteq Nat \ {0}
        /\ merge \in [Round -> {"none", "spawned", "checked", "sourced", "relaying",
                                "true", "false"}]
        /\ relay \in [Round -> [Node -> {"none", "recv", "inside", "ended"}]]
    BY RoundsAssumption DEF IInv, RoundsTypeOK, CallerTypeOK, MergeTypeOK, Round
  <1>b. \A r \in Round :
          main # "crashed" /\ cut \subseteq {round} /\ merge[r] \in {"spawned", "checked", "sourced"}
            => r = round /\ main \notin BeforeMerge /\ nodeResult = round
    BY StillToRead
  <1>1. ASSUME NEW n \in Node, Runner(n) PROVE MergeRelays'
    BY <1>1 DEF Runner, ReportPhase, ReportFailure, DropTask, MergeRelays
  <1>2. ASSUME NEW r \in Round, main # "crashed", MergeChecks(r) PROVE MergeRelays'
    <2>1. \A h \in Round : h # r => merge'[h] = merge[h]
      BY <1>2, <1>a DEF MergeChecks
    <2>2. merge'[r] \in {"false", "checked"} /\ (cut \subseteq {round} => merge'[r] = "checked")
      BY <1>2, <1>a, <1>b DEF MergeChecks
    <2>3. UNCHANGED <<round, main, cut, relay>>
      BY <1>2 DEF MergeChecks
    <2> QED BY <1>a, <2>1, <2>2, <2>3 DEF MergeRelays
  <1>3. ASSUME NEW r \in Round, MergeReadsNodeResult(r) PROVE MergeRelays'
    <2>1. /\ \A h \in Round : h # r => merge'[h] = merge[h]
          /\ merge'[r] = "sourced" /\ UNCHANGED <<round, main, cut, relay>>
      BY <1>3, <1>a DEF MergeReadsNodeResult
    <2> QED BY <1>a, <2>1 DEF MergeRelays
  <1>4. ASSUME NEW r \in Round, main # "crashed", MergeReadsNodesResult(r) PROVE MergeRelays'
    <2>1. /\ \A h \in Round : h # r => merge'[h] = merge[h] /\ relay'[h] = relay[h]
          /\ UNCHANGED <<round, main, cut>>
      BY <1>4, <1>a DEF MergeReadsNodesResult
    <2>2. CASE src[r] = 0
      <3>1. merge'[r] = "true" /\ merge[r] = "sourced"
        BY <1>4, <1>a, <2>2 DEF MergeReadsNodesResult
      <3>2. ~(cut \subseteq {round})
        BY <1>a, <2>2, <3>1 DEF OwnChannels
      <3> QED BY <1>a, <2>1, <3>1, <3>2 DEF MergeRelays
    <2>3. CASE src[r] # 0
      <3>1. merge'[r] = "relaying" /\ \A n \in Node : relay'[r][n] = "recv"
        BY <1>4, <1>a, <2>3 DEF MergeReadsNodesResult
      <3>2. main \in {"wait"} \cup AfterWait => merge'[round] # "none"
        BY <1>a, <2>1, <3>1 DEF MergeRelays
      <3> QED BY <1>a, <2>1, <3>1, <3>2 DEF MergeRelays
    <2> QED BY <2>2, <2>3
  <1>5. ASSUME NEW r \in Round, main # "crashed", TornRead(r) PROVE MergeRelays'
    <2>1. ~(cut \subseteq {round})
      BY <1>5, <1>b DEF TornRead, BeforeMerge
    <2> QED BY <1>5, <2>1 DEF TornRead, MergeRelays, AfterWait
  <1>6. ASSUME NEW r \in Round, MergeReturns(r) PROVE MergeRelays'
    <2>1. /\ \A h \in Round : h # r => merge'[h] = merge[h]
          /\ merge'[r] \in {"true", "false"} /\ \A n \in Node : relay[r][n] = "ended"
          /\ UNCHANGED <<round, main, cut, relay>>
      BY <1>6, <1>a DEF MergeReturns
    <2> QED BY <1>a, <2>1 DEF MergeRelays
  <1>7. ASSUME NEW r \in Round, NEW n \in Node, Relay(r, n) PROVE MergeRelays'
    <2>1. /\ UNCHANGED <<round, main, cut, merge>>
          /\ relay[r][n] \in {"recv", "inside"}
          /\ \A h \in Round, m \in Node :
                relay'[h][m] = IF h = r /\ m = n THEN relay'[r][n] ELSE relay[h][m]
          /\ relay'[r][n] # "none"
      BY <1>7, <1>a
         DEF Relay, RelayReceives, RelayFindsClosed, RelayDrained, RelaySends, RelayGivesUp,
             RelayGoto
    <2>2. merge[r] = "relaying"
      BY <2>1 DEF IInv, InStep, RelayInStep
    <2> QED BY <2>1, <2>2 DEF MergeRelays
  <1>8. CASE GetReady \/ Start \/ ResetNodeResult
    BY <1>8 DEF GetReady, Start, ResetNodeResult, MergeRelays, AfterWait
  <1>8a. CASE ResetNodesResult
    <2>1. /\ round' = round + 1 /\ main' = "resetNodeResult" /\ UNCHANGED <<cut, merge, relay>>
      BY <1>8a DEF ResetNodesResult
    <2>2. round + 1 \notin cut
      <3>1. round + 1 \in cut => round + 1 <= round
        BY DEF OwnChannels
      <3> QED BY <1>a, <3>1
    <2>3. cut \subseteq {round + 1} => cut \subseteq {round}
      BY <2>2
    <2> QED BY <2>1, <2>3 DEF MergeRelays, AfterWait
  <1>9. CASE EnterWait
    <2>1. /\ \A h \in Round : h # round => merge'[h] = merge[h]
          /\ merge'[round] = "spawned" /\ main' = "wait" /\ UNCHANGED <<round, cut, relay>>
      BY <1>9, <1>a DEF EnterWait
    <2> QED BY <1>a, <2>1 DEF MergeRelays
  <1>10. CASE Wait
    <2>1. /\ UNCHANGED <<round, merge, relay>> /\ cut \subseteq cut'
          /\ main' # "crashed" /\ main \in {"wait"} \cup AfterWait
      BY <1>10
         DEF Wait, WaitReceives, WaitGivesUp, Returns, PoolCloses, CloseMerged, CloseResults,
             AfterWait
    <2> QED BY <2>1 DEF MergeRelays
  <1>11. CASE Interrupt \/ UNCHANGED vars
    BY <1>11 DEF Interrupt, vars, MergeRelays
  <1>12. CASE main # "crashed" /\ Step
    BY <1>12, <1>1, <1>2, <1>3, <1>4, <1>5, <1>6, <1>7, <1>8, <1>9, <1>10, <1>11, <1>8a
       DEF Step, Merge, Call, Reset
  <1> QED BY <1>11, <1>12 DEF Next, Stopped

\* A runner that finds its channel full has a relay that can empty it; if all
\* have room, one of those that have not ended can go on.
LEMMA SomeRunnerGoesOn ==
    ASSUME IInv, GoesOnInv, main \in {"wait", "closePool"},
           \E n \in Node : task[n] \notin {"done", "failed"},
           \A n \in Node : task[n] \in {"queued", "pre", "in"} =>
               Len(results[round][n]) < MinChannelBuffer
    PROVE  \E n \in Node : RunnerCanMove(n)
  <1>1. /\ \A n \in Node : task[n] \in {"queued", "pre", "in", "done", "failed"}
        /\ Started /\ EndNode \in Node /\ Other = Node \ {EndNode}
    BY RoundsAssumption
       DEF IInv, InStep, TasksInStep, RoundsTypeOK, ChannelsTypeOK, AfterWait, Started, Other
  <1>2. CASE \E n \in Other : task[n] \notin {"done", "failed"}
    BY <1>1, <1>2 DEF RunnerCanMove
  <1>3. CASE \A n \in Other : task[n] \in {"done", "failed"}
    <2>1. task[EndNode] \in {"queued", "pre", "in"}
      BY <1>1, <1>3
    <2>2. (\E m \in Other : task[m] = "failed") => task[EndNode] = "queued"
      BY <2>1 DEF GoesOnInv, EndComesLast
    <2> QED BY <1>1, <1>3, <2>1, <2>2 DEF RunnerCanMove
  <1> QED BY <1>2, <1>3

\* A relay that holds a report can always go on once Wait is over.
LEMMA InsideGoesOn ==
    ASSUME IInv, GoesOnInv, NEW r \in Round, NEW n \in Node, relay[r][n] = "inside",
           main \in AfterWait
    PROVE  RelayCanMove(r, n)
  <1>1. waitDone
    BY DEF GoesOnInv, ContextsInStep
  <1> QED BY <1>1 DEF RelayCanMove, EgDone

LEMMA GoesOn == IInv /\ OwnChannels /\ GoesOnInv /\ MergeRelays => RoundGoesOn
  <1> SUFFICES ASSUME IInv, OwnChannels, GoesOnInv, MergeRelays, MinChannelBuffer >= 2,
                      cut \subseteq {round},
                      ~(main = "returned" /\ MergesEnded)
               PROVE  CanMove
    BY DEF RoundGoesOn
  <1>a. /\ round \in Round /\ Round \subseteq Nat \ {0} /\ EndNode \in Node
        /\ MaxChannelBuffer \in Nat \ {0} /\ MinChannelBuffer \in Nat
        /\ CallerTypeOK /\ ChannelsTypeOK /\ MergeTypeOK
        /\ main # "crashed"
    BY RoundsAssumption DEF IInv, RoundsTypeOK, CallerTypeOK, Round, MergeRelays
  <1> SUFFICES \/ CallerCanMove
               \/ \E n \in Node : RunnerCanMove(n)
               \/ \E r \in Round : MergeCanMove(r) \/ \E n \in Node : RelayCanMove(r, n)
    BY <1>a DEF CanMove
  <1>1. CASE main \in {"getReady", "start", "enterWait", "closeResults", "resetNodeResult"}
    BY <1>1 DEF CallerCanMove
  <1>2. CASE main = "returned"
    <2>1. PICK r \in Round : merge[r] \notin {"none", "true", "false"}
      BY <1>2 DEF MergesEnded
    <2>2. CASE merge[r] # "relaying"
      BY <1>a, <2>1, <2>2 DEF MergeCanMove, MergeTypeOK
    <2>3. CASE merge[r] = "relaying" /\ \A n \in Node : relay[r][n] = "ended"
      BY <2>3 DEF MergeCanMove
    <2>4. ASSUME merge[r] = "relaying", NEW n \in Node, relay[r][n] # "ended"
          PROVE  RelayCanMove(r, n)
      <3>1. relay[r][n] \in {"recv", "inside"}
        BY <1>a, <2>4 DEF MergeRelays, MergeTypeOK
      <3>2. src[r] \in Round /\ src[r] <= round
        BY <2>4 DEF IInv, InStep, MergeInStep
      <3>3. ResultsClosed(src[r])
        <4>1. src[r] \in Nat /\ round \in Nat
          BY <1>a, <3>2
        <4>2. src[r] < round \/ src[r] = round
          BY <3>2, <4>1
        <4> QED BY <1>2, <4>2 DEF ResultsClosed
      <3> QED BY <1>2, <3>1, <3>3, InsideGoesOn DEF RelayCanMove, AfterWait
    <2> QED BY <2>2, <2>3, <2>4
  <1>3. CASE main = "closeMerged"
    BY <1>3, InsideGoesOn DEF CallerCanMove, AfterWait
  <1>4. CASE main = "closePool"
    <2>0. CASE merge[round] \in {"spawned", "checked", "sourced"}
      BY <1>a, <2>0 DEF MergeCanMove
    <2>1. ASSUME merge[round] \notin {"spawned", "checked", "sourced"},
                 NEW n \in Node, task[n] \in {"queued", "pre", "in"},
                 ~(Len(results[round][n]) < MinChannelBuffer)
          PROVE  RelayCanMove(round, n)
      <3>1. Made(task[n]) \in Nat /\ Made(task[n]) <= 2 /\ Len(results[round][n]) \in Nat
        BY <1>a, <2>1, MadeValues DEF ChannelsTypeOK
      <3>2. Len(results[round][n]) >= 2
        BY <1>a, <2>1, <3>1
      <3>3. relay[round][n] \notin {"inside", "ended"}
        BY <1>4, <3>1, <3>2 DEF GoesOnInv, OneTaken
      <3>4. merge[round] \in HasRead
        BY <1>a, <1>4, <2>1 DEF MergeRelays, MergeTypeOK, AfterWait, HasRead
      <3>5. merge[round] = "relaying" /\ relay[round][n] = "recv"
        BY <1>a, <3>3, <3>4 DEF MergeRelays, MergeTypeOK, HasRead
      <3>6. src[round] = round
        BY <1>a, <3>5 DEF OwnChannels
      <3>7. results[round][n] # <<>>
        BY <3>2
      <3> QED BY <3>5, <3>6, <3>7 DEF RelayCanMove
    <2>2. CASE \A n \in Node : task[n] \in {"done", "failed"}
      BY <1>4, <2>2 DEF CallerCanMove
    <2>3. CASE \E n \in Node : task[n] \notin {"done", "failed"}
      BY <1>a, <1>4, <2>0, <2>1, <2>3, SomeRunnerGoesOn
    <2> QED BY <2>2, <2>3
  <1>5. CASE main = "wait"
    <2>0. nodesResult = round /\ cut = {}
      BY <1>5 DEF IInv, InStep, FieldsInStep, OwnChannels, AfterWait
    <2>1. CASE waitDone \/ merged[round] # <<>>
      BY <1>5, <2>0, <2>1 DEF CallerCanMove
    <2>2. CASE merge[round] \in {"spawned", "checked", "sourced"}
      BY <1>a, <2>2 DEF MergeCanMove
    <2>3. CASE ~waitDone /\ merged[round] = <<>> /\ merge[round] \notin {"spawned", "checked", "sourced"}
      <3>1. /\ merge[round] = "relaying" /\ src[round] = round /\ dst[round] = round
            /\ \A n \in Node : relay[round][n] \in {"recv", "inside"}
        <4>1. merge[round] = "relaying"
          BY <1>a, <1>5, <2>0, <2>3 DEF MergeRelays, MergeTypeOK, IInv, Waiting
        <4>2. src[round] = round /\ dst[round] = round
          BY <1>a, <4>1 DEF OwnChannels
        <4>3. \A n \in Node : relay[round][n] \notin {"none", "ended"}
          BY <1>a, <1>5, <2>0, <2>3, <4>1 DEF MergeRelays, IInv, Waiting
        <4> QED BY <1>a, <4>1, <4>2, <4>3 DEF MergeTypeOK
      <3>2. CASE \E n \in Node : relay[round][n] = "inside"
        <4>1. Len(merged[round]) < MaxChannelBuffer
          BY <1>a, <2>3
        <4> QED BY <1>a, <3>1, <3>2, <4>1 DEF RelayCanMove
      <3>3. CASE \E n \in Node : relay[round][n] = "recv" /\ results[round][n] # <<>>
        BY <1>a, <3>1, <3>3 DEF RelayCanMove
      <3>4. CASE \A n \in Node : relay[round][n] = "recv" /\ results[round][n] = <<>>
        <4>1. \A n \in Node : Len(results[round][n]) < MinChannelBuffer
          <5>1. Len(<<>>) = 0 /\ 0 < MinChannelBuffer
            BY <1>a
          <5> QED BY <3>4, <5>1
        <4>2. held[round][EndNode] = "Other"
          BY <1>a, <3>4 DEF IInv, InStep, RelayInStep
        <4>3. ~Tells(results[round][EndNode]) /\ ~Tells(merged[round])
          BY <1>a, <2>3, <3>4 DEF Tells
        <4>4. task[EndNode] \notin {"done", "failed"}
          BY <1>5, <2>0, <2>3, <4>2, <4>3 DEF GoesOnInv, VerdictKept
        <4> QED BY <1>a, <1>5, <4>1, <4>4, SomeRunnerGoesOn
      <3> QED BY <3>1, <3>2, <3>3, <3>4
    <2> QED BY <2>1, <2>2, <2>3
  <1> QED BY <1>a, <1>1, <1>2, <1>3, <1>4, <1>5 DEF CallerTypeOK

\* As long as no earlier Wait was cut short, some goroutine can go on until Wait
\* has returned and its merge has ended, for any nodes, rounds and capacities of two
\* reports or more.
THEOREM RoundGoesOnHolds == Spec => []RoundGoesOn
  <1>1. Init => OwnChannels /\ GoesOnInv /\ MergeRelays
    BY InitOwnChannels, InitGoesOn, InitMergeRelays
  <1>2. IInv /\ OwnChannels /\ GoesOnInv /\ MergeRelays /\ [Next]_vars
          => OwnChannels' /\ GoesOnInv' /\ MergeRelays'
    BY StepOwnChannels, StepGoesOn, StepMergeRelays
  <1> QED BY InvHolds, <1>1, <1>2, GoesOn, PTL DEF Spec
=============================================================================
