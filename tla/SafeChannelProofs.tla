------------------------- MODULE SafeChannelProofs -------------------------
(***************************************************************************)
(* For any callers and any capacity: a SafeChannel never panics, a Close   *)
(* that closes is alone, and the channel implements SafeQueue.             *)
(***************************************************************************)
EXTENDS SafeChannel, TLAPS

\* Each kind of caller visits its own steps.
Steps ==
    /\ \A p \in Sender : pc[p] \in {"idle", "locked", "select", "unlock", "returned"}
    /\ \A p \in Closer : pc[p] \in {"idle", "pending", "closing", "mark", "unlock", "returned"}

\* Who holds the lock, by where its call is.  Once a Close holds it no reader
\* is in, because RLock is refused from its Lock on.
LockHeld ==
    /\ \A p \in Sender : p \in readers <=> pc[p] \in {"locked", "select", "unlock"}
    /\ \A p \in Closer : writer = p <=> pc[p] \in {"pending", "closing", "mark", "unlock"}
    /\ \A p \in Closer : pc[p] \in {"closing", "mark", "unlock"} => readers = {}

\* sc.closed tells whether sc.ch is closed to everybody who can look: it lags
\* only while a Close is between the two assignments.
ClosedIsKnown ==
    /\ closed => chClosed
    /\ chClosed => closed \/ \E p \in Closer : pc[p] = "mark"
    /\ \A p \in Closer : pc[p] = "mark" => chClosed /\ ~closed
    /\ \A p \in Sender : pc[p] = "select" => ~closed

\* A call has no result before the step that decides it.
Undecided ==
    \A p \in Proc :
        pc[p] \in {"idle", "locked", "select", "pending", "closing", "mark"} => ret[p] = "none"

ChanInv == ChanTypeOK /\ Steps /\ LockHeld /\ ClosedIsKnown /\ Undecided

-----------------------------------------------------------------------------

\* A sender at its select finds sc.ch open.
LEMMA SelectFindsOpen ==
    ASSUME ChanInv, NEW p \in Sender, pc[p] = "select"
    PROVE  ~chClosed
<1>1. p \in readers /\ ~closed
  BY DEF ChanInv, LockHeld, ClosedIsKnown
<1>2. \A q \in Closer : pc[q] # "mark"
  BY <1>1 DEF ChanInv, LockHeld
<1> QED BY <1>1, <1>2 DEF ChanInv, ClosedIsKnown

\* Two writers at a time do not exist.
LEMMA OneWriter ==
    ASSUME ChanInv,
           NEW p \in Closer, pc[p] \in {"pending", "closing", "mark", "unlock"},
           NEW q \in Closer, pc[q] \in {"pending", "closing", "mark", "unlock"}
    PROVE  p = q
BY DEF ChanInv, LockHeld

\* The constructor establishes the invariant.
LEMMA InitInv == Init => ChanInv
<1> SUFFICES ASSUME Init PROVE ChanInv
  OBVIOUS
<1> USE DEF Init
<1>1. ch \in Seq(Sender) /\ received \in Seq(Sender) /\ Len(ch) <= Cap
  <2>1. ch \in Seq(Sender) /\ received \in Seq(Sender)  OBVIOUS
  <2>2. Len(ch) = 0  OBVIOUS
  <2> QED BY <2>1, <2>2, CapAssumption
<1>2. ChanTypeOK  BY <1>1 DEF ChanTypeOK
<1>3. Steps /\ ClosedIsKnown /\ Undecided
  BY DEF Steps, ClosedIsKnown, Undecided, Proc
<1>4. LockHeld  BY CallerAssumption DEF LockHeld, Proc
<1> QED BY <1>2, <1>3, <1>4 DEF ChanInv

\* Every step of Send and SendBlocking keeps the invariant.
LEMMA SendKeepsInv ==
    ASSUME ChanInv, NEW p \in Sender, Send(p)
    PROVE  ChanInv'
<1> USE CallerAssumption, CapAssumption DEF Proc
<1>1. CASE RLock(p)
  <2> USE <1>1 DEF RLock, Goto, lockVars, chanVars
  <2>1. ChanTypeOK' /\ Steps'  BY DEF ChanInv, ChanTypeOK, Steps
  <2>2. LockHeld'  BY DEF ChanInv, ChanTypeOK, LockHeld
  <2>3. ClosedIsKnown'  BY DEF ChanInv, ChanTypeOK, ClosedIsKnown
  <2>4. Undecided'  BY DEF ChanInv, ChanTypeOK, Undecided
  <2> QED BY <2>1, <2>2, <2>3, <2>4 DEF ChanInv
<1>2. CASE CheckClosed(p)
  <2> USE <1>2 DEF CheckClosed, Goto, lockVars, chanVars, Return
  <2>1. ChanTypeOK' /\ Steps'  BY DEF ChanInv, ChanTypeOK, Steps
  <2>2. LockHeld'  BY DEF ChanInv, ChanTypeOK, LockHeld
  <2>3. ClosedIsKnown'  BY DEF ChanInv, ChanTypeOK, ClosedIsKnown
  <2>4. Undecided'  BY DEF ChanInv, ChanTypeOK, Undecided
  <2> QED BY <2>1, <2>2, <2>3, <2>4 DEF ChanInv
<1>3. CASE SelectSend(p)
  <2>1. ~chClosed  BY <1>3, SelectFindsOpen DEF SelectSend, Goto
  <2> USE <1>3, <2>1 DEF SelectSend, Goto, lockVars, Return
  <2>2. ch' \in Seq(Sender) /\ Len(ch') <= Cap
    BY DEF ChanInv, ChanTypeOK
  <2>3. ChanTypeOK' /\ Steps'  BY <2>2 DEF ChanInv, ChanTypeOK, Steps
  <2>4. LockHeld'  BY DEF ChanInv, ChanTypeOK, LockHeld
  <2>5. ClosedIsKnown'  BY DEF ChanInv, ChanTypeOK, ClosedIsKnown
  <2>6. Undecided'  BY DEF ChanInv, ChanTypeOK, Undecided
  <2> QED BY <2>3, <2>4, <2>5, <2>6 DEF ChanInv
<1>4. CASE SelectDefault(p) \/ SelectDone(p)
  <2> USE <1>4 DEF SelectDefault, SelectDone, Goto, lockVars, chanVars, Return
  <2>1. ChanTypeOK' /\ Steps'  BY DEF ChanInv, ChanTypeOK, Steps
  <2>2. LockHeld'  BY DEF ChanInv, ChanTypeOK, LockHeld
  <2>3. ClosedIsKnown'  BY DEF ChanInv, ChanTypeOK, ClosedIsKnown
  <2>4. Undecided'  BY DEF ChanInv, ChanTypeOK, Undecided
  <2> QED BY <2>1, <2>2, <2>3, <2>4 DEF ChanInv
<1>5. CASE RUnlock(p)
  <2> USE <1>5 DEF RUnlock, Goto, lockVars, chanVars
  <2>1. ChanTypeOK' /\ Steps'  BY DEF ChanInv, ChanTypeOK, Steps
  <2>2. LockHeld'  BY DEF ChanInv, ChanTypeOK, LockHeld
  <2>3. ClosedIsKnown'  BY DEF ChanInv, ChanTypeOK, ClosedIsKnown
  <2>4. Undecided'  BY DEF ChanInv, ChanTypeOK, Undecided
  <2> QED BY <2>1, <2>2, <2>3, <2>4 DEF ChanInv
<1> QED BY <1>1, <1>2, <1>3, <1>4, <1>5 DEF Send

\* Every step of Close keeps the invariant.
LEMMA CloseKeepsInv ==
    ASSUME ChanInv, NEW p \in Closer, Close(p)
    PROVE  ChanInv'
<1> USE CallerAssumption, CapAssumption DEF Proc
<1>1. CASE Lock(p)
  <2> USE <1>1 DEF Lock, Goto, chanVars
  <2>1. ChanTypeOK' /\ Steps'  BY DEF ChanInv, ChanTypeOK, Steps
  <2>2. LockHeld'  BY DEF ChanInv, ChanTypeOK, LockHeld
  <2>3. ClosedIsKnown'  BY DEF ChanInv, ChanTypeOK, ClosedIsKnown
  <2>4. Undecided'  BY DEF ChanInv, ChanTypeOK, Undecided
  <2> QED BY <2>1, <2>2, <2>3, <2>4 DEF ChanInv
<1>2. CASE LockAcquired(p)
  <2> USE <1>2 DEF LockAcquired, Goto, lockVars, chanVars
  <2>1. ChanTypeOK' /\ Steps'  BY DEF ChanInv, ChanTypeOK, Steps
  <2>2. LockHeld'  BY DEF ChanInv, ChanTypeOK, LockHeld
  <2>3. ClosedIsKnown'  BY DEF ChanInv, ChanTypeOK, ClosedIsKnown
  <2>4. Undecided'  BY DEF ChanInv, ChanTypeOK, Undecided
  <2> QED BY <2>1, <2>2, <2>3, <2>4 DEF ChanInv
<1>3. CASE CloseChan(p)
  <2>1. readers = {}  BY <1>3 DEF CloseChan, Goto, ChanInv, LockHeld
  <2>2. \A q \in Closer : pc[q] # "mark"
    BY <1>3, OneWriter DEF CloseChan, Goto
  <2> USE <1>3 DEF CloseChan, Goto, lockVars, Return
  <2>3. ChanTypeOK' /\ Steps'  BY DEF ChanInv, ChanTypeOK, Steps
  <2>4. LockHeld'  BY DEF ChanInv, ChanTypeOK, LockHeld
  <2>5. ClosedIsKnown'  BY <2>2 DEF ChanInv, ChanTypeOK, ClosedIsKnown
  <2>6. Undecided'  BY DEF ChanInv, ChanTypeOK, Undecided
  <2> QED BY <2>3, <2>4, <2>5, <2>6 DEF ChanInv
<1>4. CASE MarkClosed(p)
  <2>1. readers = {}  BY <1>4 DEF MarkClosed, Goto, ChanInv, LockHeld
  <2>2. \A q \in Sender : pc[q] # "select"  BY <2>1 DEF ChanInv, LockHeld
  <2>3. \A q \in Closer : pc[q] = "mark" => q = p
    BY <1>4, OneWriter DEF MarkClosed, Goto
  <2> USE <1>4 DEF MarkClosed, Goto, lockVars, Return
  <2>4. ChanTypeOK' /\ Steps'  BY DEF ChanInv, ChanTypeOK, Steps
  <2>5. LockHeld'  BY DEF ChanInv, ChanTypeOK, LockHeld
  <2>6. ClosedIsKnown'  BY <2>2, <2>3 DEF ChanInv, ChanTypeOK, ClosedIsKnown
  <2>7. Undecided'  BY DEF ChanInv, ChanTypeOK, Undecided
  <2> QED BY <2>4, <2>5, <2>6, <2>7 DEF ChanInv
<1>5. CASE Unlock(p)
  <2>1. \A q \in Closer \ {p} : pc[q] \notin {"pending", "closing", "mark", "unlock"}
    BY <1>5, OneWriter DEF Unlock, Goto
  <2> USE <1>5 DEF Unlock, Goto, chanVars
  <2>2. ChanTypeOK' /\ Steps'  BY DEF ChanInv, ChanTypeOK, Steps
  <2>3. LockHeld'  BY <2>1 DEF ChanInv, ChanTypeOK, LockHeld
  <2>4. ClosedIsKnown'  BY DEF ChanInv, ChanTypeOK, ClosedIsKnown
  <2>5. Undecided'  BY DEF ChanInv, ChanTypeOK, Undecided
  <2> QED BY <2>2, <2>3, <2>4, <2>5 DEF ChanInv
<1> QED BY <1>1, <1>2, <1>3, <1>4, <1>5 DEF Close

\* Receiving and cancelling keep the invariant: they take no lock and close nothing.
LEMMA EnvironmentKeepsInv ==
    ASSUME ChanInv, Receive \/ Cancel \/ UNCHANGED vars
    PROVE  ChanInv'
<1>1. CASE Receive
  <2>1. ch \in Seq(Sender) /\ ch # <<>> /\ received \in Seq(Sender)
    BY <1>1 DEF ChanInv, ChanTypeOK, Receive
  <2>2. Head(ch) \in Sender /\ Tail(ch) \in Seq(Sender) /\ Len(Tail(ch)) = Len(ch) - 1
    BY <2>1
  <2>3. ChanTypeOK'
    BY <1>1, <2>1, <2>2, CapAssumption DEF ChanInv, ChanTypeOK, Receive, lockVars
  <2> QED BY <1>1, <2>3
      DEF Receive, lockVars, ChanInv, Steps, LockHeld, ClosedIsKnown, Undecided
<1>2. CASE Cancel
  BY <1>2 DEF Cancel, lockVars, chanVars,
              ChanInv, ChanTypeOK, Steps, LockHeld, ClosedIsKnown, Undecided
<1>3. CASE UNCHANGED vars
  BY <1>3 DEF vars, lockVars, chanVars,
              ChanInv, ChanTypeOK, Steps, LockHeld, ClosedIsKnown, Undecided
<1> QED BY <1>1, <1>2, <1>3

\* The invariant holds in every reachable state.
THEOREM ChanInvariant == Spec => []ChanInv
<1>1. ChanInv /\ [Next]_vars => ChanInv'
  BY SendKeepsInv, CloseKeepsInv, EnvironmentKeepsInv DEF Next, AllReturned
<1> QED BY InitInv, <1>1, PTL DEF Spec

\* The variables keep their types; the buffer never exceeds its capacity.
THEOREM ChanTypeCorrect == Spec => []ChanTypeOK
BY ChanInvariant, PTL DEF ChanInv

\* No Send, SendBlocking or Close panics, however many callers interleave.
THEOREM NoPanicHolds == Spec => []NoPanic
<1>1. ChanInv => NoPanic
  BY DEF ChanInv, Steps, NoPanic, Proc
<1> QED BY ChanInvariant, <1>1, PTL

\* While a Close closes no sender is between its look at closed and its send.
THEOREM CloseIsExclusiveHolds == Spec => []CloseIsExclusive
<1>1. ChanInv => CloseIsExclusive
  BY DEF ChanInv, LockHeld, CloseIsExclusive
<1> QED BY ChanInvariant, <1>1, PTL

\* Nobody waits for ever but for room: if no call can go on, a SendBlocking with
\* a live context waits in front of a full buffer, and the others behind it.
THEOREM OnlyRoomIsAwaitedHolds == Spec => []OnlyRoomIsAwaited
<1>1. ChanInv => OnlyRoomIsAwaited
  <2> SUFFICES ASSUME ChanInv, NEW p \in Proc, pc[p] # "returned",
                      \A q \in Proc : ~CanGoOn(q)
               PROVE  ~ctxDone /\ Len(ch) = Cap /\ \E q \in WaitSender \cap readers : pc[q] = "select"
    BY DEF OnlyRoomIsAwaited
  <2>1. ASSUME NEW q \in Closer, writer = q PROVE readers # {}
    <3>1. q \in Proc /\ pc[q] \in {"pending", "closing", "mark", "unlock"}
      BY <2>1 DEF ChanInv, LockHeld, Proc
    <3> QED BY <3>1 DEF CanGoOn
  <2>2. ASSUME NEW q \in readers
        PROVE  ~ctxDone /\ Len(ch) = Cap /\ q \in WaitSender /\ pc[q] = "select"
    <3>1. q \in Sender /\ q \in Proc /\ pc[q] \in {"locked", "select", "unlock"}
      BY <2>2 DEF ChanInv, ChanTypeOK, LockHeld, Proc
    <3>2. pc[q] = "select" /\ q \notin TrySender /\ ~ctxDone /\ ~(Len(ch) < Cap)
      BY <3>1 DEF CanGoOn
    <3>3. Len(ch) \in Nat /\ Len(ch) <= Cap
      BY DEF ChanInv, ChanTypeOK
    <3> QED BY <3>1, <3>2, <3>3, CapAssumption DEF Sender
  <2>3. readers # {}
    <3>1. CASE p \in Sender
      BY <2>1, <3>1 DEF ChanInv, ChanTypeOK, Steps, LockHeld, CanGoOn, Proc
    <3>2. CASE p \in Closer
      BY <2>1, <3>2 DEF ChanInv, ChanTypeOK, Steps, LockHeld, CanGoOn, Proc
    <3> QED BY <3>1, <3>2 DEF Proc
  <2> QED BY <2>2, <2>3
<1> QED BY ChanInvariant, <1>1, PTL

-----------------------------------------------------------------------------

\* A step of a sender is a Put, a Refuse, or invisible.
LEMMA SendImplements ==
    ASSUME ChanInv, NEW p \in Sender, Send(p)
    PROVE  [Queue!Next]_(Queue!queueVars)
<1> DEFINE out == [q \in Proc |-> IF pc[q] = "mark" THEN "true" ELSE ret[q]]
<1> USE CallerAssumption DEF Proc
<1>0. p \in Proc /\ pc \in [Proc -> {"idle", "locked", "select", "pending", "closing", "mark",
                                     "unlock", "returned", "panic"}]
      /\ ret \in [Proc -> {"none", "true", "false"}]
  BY DEF ChanInv, ChanTypeOK
<1>1. ASSUME RLock(p) \/ RUnlock(p)  PROVE UNCHANGED Queue!queueVars
  <2>1. \A q \in Proc : (pc'[q] = "mark") <=> (pc[q] = "mark")
    BY <1>0, <1>1 DEF RLock, RUnlock, Goto
  <2>2. UNCHANGED <<ch, received, chClosed, ret>>
    BY <1>1 DEF RLock, RUnlock, chanVars
  <2>3. out' = out  BY <2>1, <2>2
  <2> QED BY <2>2, <2>3 DEF Queue!queueVars
<1>2. ASSUME NEW v \in {"true", "false"}, NEW s \in {"locked", "select"},
             Goto(p, s, "unlock"), Return(p, v)
      PROVE  Queue!Becomes(p, v)
  <2>1. out[p] = "none"  BY <1>0, <1>2 DEF ChanInv, Undecided, Goto
  <2>2. out' = [out EXCEPT ![p] = v]
    <3>1. \A q \in Proc : (pc'[q] = "mark") <=> (pc[q] = "mark")
      BY <1>0, <1>2 DEF Goto
    <3>2. ret' = [ret EXCEPT ![p] = v] /\ pc'[p] # "mark"
      BY <1>0, <1>2 DEF Return, Goto
    <3> QED BY <1>0, <3>1, <3>2
  <2> QED BY <2>1, <2>2 DEF Queue!Becomes
<1>3. CASE CheckClosed(p)
  <2>1. CASE closed
    <3>1. Queue!Becomes(p, "false")  BY <1>2, <1>3, <2>1 DEF CheckClosed
    <3> QED BY <1>3, <3>1 DEF CheckClosed, chanVars, Queue!Next, Queue!Refuse
  <2>2. CASE ~closed
    <3>1. \A q \in Proc : (pc'[q] = "mark") <=> (pc[q] = "mark")
      BY <1>0, <1>3, <2>2 DEF CheckClosed, Goto
    <3>2. UNCHANGED <<ch, received, chClosed, ret>>
      BY <1>3, <2>2 DEF CheckClosed, chanVars
    <3>3. out' = out  BY <3>1, <3>2
    <3> QED BY <3>2, <3>3 DEF Queue!queueVars
  <2> QED BY <2>1, <2>2
<1>4. CASE SelectSend(p)
  <2>1. ~chClosed  BY <1>4, SelectFindsOpen DEF SelectSend, Goto
  <2>2. Queue!Becomes(p, "true")  BY <1>2, <1>4, <2>1 DEF SelectSend
  <2> QED BY <1>4, <2>1, <2>2 DEF SelectSend, Queue!Next, Queue!Put
<1>5. CASE SelectDefault(p) \/ SelectDone(p)
  <2>1. Queue!Becomes(p, "false")  BY <1>2, <1>5 DEF SelectDefault, SelectDone
  <2> QED BY <1>5, <2>1 DEF SelectDefault, SelectDone, chanVars, Queue!Next, Queue!Refuse
<1> QED BY <1>1, <1>3, <1>4, <1>5 DEF Send

\* A Close takes effect at close(sc.ch), or where it finds closed set; the
\* rest of it is invisible.
LEMMA CloseImplements ==
    ASSUME ChanInv, NEW p \in Closer, Close(p)
    PROVE  [Queue!Next]_(Queue!queueVars)
<1> DEFINE out == [q \in Proc |-> IF pc[q] = "mark" THEN "true" ELSE ret[q]]
<1> USE CallerAssumption DEF Proc
<1>0. p \in Proc /\ pc \in [Proc -> {"idle", "locked", "select", "pending", "closing", "mark",
                                     "unlock", "returned", "panic"}]
      /\ ret \in [Proc -> {"none", "true", "false"}]
  BY DEF ChanInv, ChanTypeOK
<1>1. CASE Lock(p) \/ LockAcquired(p) \/ Unlock(p)
  <2>1. \A q \in Proc : (pc'[q] = "mark") <=> (pc[q] = "mark")
    BY <1>0, <1>1 DEF Lock, LockAcquired, Unlock, Goto
  <2>2. UNCHANGED <<ch, received, chClosed, ret>>
    BY <1>1 DEF Lock, LockAcquired, Unlock, chanVars
  <2>3. out' = out  BY <2>1, <2>2
  <2> QED BY <2>2, <2>3 DEF Queue!queueVars
<1>2. CASE CloseChan(p)
  <2>0. out[p] = "none"  BY <1>0, <1>2 DEF CloseChan, Goto, ChanInv, Undecided
  <2>1. CASE closed
    <3>1. chClosed  BY <2>1 DEF ChanInv, ClosedIsKnown
    <3>2. \A q \in Proc : (pc'[q] = "mark") <=> (pc[q] = "mark")
      BY <1>0, <1>2, <2>1 DEF CloseChan, Goto
    <3>3. ret' = [ret EXCEPT ![p] = "false"] /\ pc'[p] # "mark"
      BY <1>0, <1>2, <2>1 DEF CloseChan, Goto, Return
    <3>4. out' = [out EXCEPT ![p] = "false"]  BY <1>0, <3>2, <3>3
    <3>5. UNCHANGED <<ch, received, chClosed>>  BY <1>2, <2>1 DEF CloseChan
    <3> QED BY <2>0, <3>1, <3>4, <3>5 DEF Queue!Next, Queue!Close, Queue!Becomes
  <2>2. CASE ~closed
    <3>1. ~chClosed
      BY <1>2, <2>2, OneWriter DEF CloseChan, Goto, ChanInv, ClosedIsKnown
    <3>2. pc' = [pc EXCEPT ![p] = "mark"] /\ ret' = ret
      BY <1>2, <2>2 DEF CloseChan, Goto
    <3>3. out' = [out EXCEPT ![p] = "true"]  BY <1>0, <3>2
    <3>4. UNCHANGED <<ch, received>> /\ chClosed'  BY <1>2, <2>2 DEF CloseChan
    <3> QED BY <2>0, <3>1, <3>3, <3>4 DEF Queue!Next, Queue!Close, Queue!Becomes
  <2> QED BY <2>1, <2>2
<1>3. CASE MarkClosed(p)
  <2>1. pc[p] = "mark" /\ pc' = [pc EXCEPT ![p] = "unlock"] /\ ret' = [ret EXCEPT ![p] = "true"]
    BY <1>3 DEF MarkClosed, Goto, Return
  <2>2. out' = out  BY <1>0, <2>1
  <2> QED BY <1>3, <2>2 DEF MarkClosed, Queue!queueVars
<1> QED BY <1>1, <1>2, <1>3 DEF Close

\* A receive is a Take; a cancellation is invisible.
LEMMA EnvironmentImplements ==
    ASSUME ChanInv, Receive \/ Cancel \/ UNCHANGED vars
    PROVE  [Queue!Next]_(Queue!queueVars)
<1>1. CASE Receive
  BY <1>1 DEF Receive, Queue!Next, Queue!Take
<1>2. CASE Cancel \/ UNCHANGED vars
  BY <1>2 DEF Cancel, vars, lockVars, chanVars, Queue!queueVars
<1> QED BY <1>1, <1>2

\* The locked channel implements the queue that is closed once: its lock and
\* its two-step Close cannot be seen in what is sent, received and returned.
THEOREM QueueRefinement == Spec => RefinesQueue
<1>1. Init => Queue!Init
  BY DEF Init, Queue!Init, Proc
<1>2. ChanInv /\ [Next]_vars => [Queue!Next]_(Queue!queueVars)
  BY SendImplements, CloseImplements, EnvironmentImplements DEF Next, AllReturned
<1> QED BY <1>1, <1>2, ChanInvariant, PTL DEF Spec, RefinesQueue, Queue!Spec
=============================================================================
