---------------------------- MODULE SafeChannel ----------------------------
(***************************************************************************)
(* SafeChannel: a Go channel, a closed flag and a RWMutex.  Send and       *)
(* SendBlocking hold the read lock while they send, SendBlocking also      *)
(* while it waits for room; Close takes the write lock.  Receivers read    *)
(* the channel itself and take no lock.                                    *)
(*                                                                         *)
(* The lock is Go's: a Lock that waits for readers holds up every later    *)
(* RLock.  Each caller makes one call.                                     *)
(***************************************************************************)
EXTENDS Naturals, Sequences, FiniteSets

CONSTANTS
    TrySender,    \* callers of Send
    WaitSender,   \* callers of SendBlocking
    Closer,       \* callers of Close
    Nobody,       \* no writer
    Cap           \* buffer size of the channel

Sender == TrySender \cup WaitSender
Proc   == Sender \cup Closer

ASSUME CallerAssumption ==
    /\ TrySender \cap WaitSender = {} /\ Sender \cap Closer = {}
    /\ Nobody \notin Proc

ASSUME CapAssumption == Cap \in Nat \ {0}

VARIABLES
    pc,        \* pc[p]: where the call of p is
    readers,   \* holders of the read lock
    writer,    \* the Close that has called Lock: it waits for the readers or holds the lock
    ch,        \* the buffer of sc.ch
    chClosed,  \* close(sc.ch) has been done
    closed,    \* sc.closed
    ctxDone,   \* the context of the SendBlocking calls is done
    ret,       \* ret[p]: what the call of p returns, "none" until it is known
    received   \* the values received from sc.ch, in order

lockVars == <<readers, writer>>
chanVars == <<ch, chClosed, closed, received>>
vars == <<pc, lockVars, chanVars, ctxDone, ret>>

ChanTypeOK ==
    /\ pc \in [Proc -> {"idle", "locked", "select", "pending", "closing", "mark",
                        "unlock", "returned", "panic"}]
    /\ readers \subseteq Sender
    /\ writer \in Closer \cup {Nobody}
    /\ ch \in Seq(Sender)
    /\ Len(ch) <= Cap
    /\ chClosed \in BOOLEAN
    /\ closed \in BOOLEAN
    /\ ctxDone \in BOOLEAN
    /\ ret \in [Proc -> {"none", "true", "false"}]
    /\ received \in Seq(Sender)

\* NewSafeChannelGen.
Init ==
    /\ pc = [p \in Proc |-> "idle"]
    /\ readers = {}
    /\ writer = Nobody
    /\ ch = <<>>
    /\ chClosed = FALSE
    /\ closed = FALSE
    /\ ctxDone = FALSE
    /\ ret = [p \in Proc |-> "none"]
    /\ received = <<>>

Goto(p, from, to) ==
    /\ pc[p] = from
    /\ pc' = [pc EXCEPT ![p] = to]

Return(p, val) == ret' = [ret EXCEPT ![p] = val]

(***************************************************************************)
(* Send and SendBlocking.                                                  *)
(***************************************************************************)

RLock(p) ==
    /\ writer = Nobody
    /\ Goto(p, "idle", "locked")
    /\ readers' = readers \cup {p}
    /\ UNCHANGED <<writer, chanVars, ctxDone, ret>>

\* MUTANT of CheckClosed: the closed flag is not looked at.
CheckNothing(p) ==
    /\ Goto(p, "locked", "select")
    /\ UNCHANGED <<lockVars, chanVars, ctxDone, ret>>

CheckClosed(p) ==
    /\ Goto(p, "locked", IF closed THEN "unlock" ELSE "select")
    /\ IF closed THEN Return(p, "false") ELSE UNCHANGED ret
    /\ UNCHANGED <<lockVars, chanVars, ctxDone>>

\* MUTANT of SelectSend: the send does not wait for room.
SelectSendFull(p) ==
    /\ Goto(p, "select", IF chClosed THEN "panic" ELSE "unlock")
    /\ IF chClosed THEN UNCHANGED <<ch, ret>> ELSE ch' = Append(ch, p) /\ Return(p, "true")
    /\ UNCHANGED <<lockVars, chClosed, closed, received, ctxDone>>

\* The send case of the select.  A send on a closed channel panics.
SelectSend(p) ==
    /\ chClosed \/ Len(ch) < Cap
    /\ Goto(p, "select", IF chClosed THEN "panic" ELSE "unlock")
    /\ IF chClosed THEN UNCHANGED <<ch, ret>> ELSE ch' = Append(ch, p) /\ Return(p, "true")
    /\ UNCHANGED <<lockVars, chClosed, closed, received, ctxDone>>

\* The default case of Send: there is no room.
SelectDefault(p) ==
    /\ p \in TrySender
    /\ ~chClosed /\ Len(ch) = Cap
    /\ Goto(p, "select", "unlock")
    /\ Return(p, "false")
    /\ UNCHANGED <<lockVars, chanVars, ctxDone>>

\* MUTANT of SelectDone: a cancelled SendBlocking says that it has sent.
SelectDoneTrue(p) ==
    /\ p \in WaitSender
    /\ ctxDone
    /\ Goto(p, "select", "unlock")
    /\ Return(p, "true")
    /\ UNCHANGED <<lockVars, chanVars, ctxDone>>

\* The ctx.Done case of SendBlocking; it may be taken when there is room too.
SelectDone(p) ==
    /\ p \in WaitSender
    /\ ctxDone
    /\ Goto(p, "select", "unlock")
    /\ Return(p, "false")
    /\ UNCHANGED <<lockVars, chanVars, ctxDone>>

\* MUTANT of RUnlock: the read lock is not released.
RUnlockNot(p) ==
    /\ p \in Sender
    /\ Goto(p, "unlock", "returned")
    /\ UNCHANGED <<lockVars, chanVars, ctxDone, ret>>

RUnlock(p) ==
    /\ p \in Sender
    /\ Goto(p, "unlock", "returned")
    /\ readers' = readers \ {p}
    /\ UNCHANGED <<writer, chanVars, ctxDone, ret>>

(***************************************************************************)
(* Close.                                                                  *)
(***************************************************************************)

\* Lock: one writer at a time; from here on it keeps new readers out.
Lock(p) ==
    /\ writer = Nobody
    /\ Goto(p, "idle", "pending")
    /\ writer' = p
    /\ UNCHANGED <<readers, chanVars, ctxDone, ret>>

\* MUTANT of LockAcquired: the readers that are in are not waited for.
LockAcquiredEarly(p) ==
    /\ Goto(p, "pending", "closing")
    /\ UNCHANGED <<lockVars, chanVars, ctxDone, ret>>

LockAcquired(p) ==
    /\ readers = {}
    /\ Goto(p, "pending", "closing")
    /\ UNCHANGED <<lockVars, chanVars, ctxDone, ret>>

CloseChan(p) ==
    /\ Goto(p, "closing", IF closed THEN "unlock" ELSE "mark")
    /\ IF closed
       THEN Return(p, "false") /\ UNCHANGED chClosed
       ELSE chClosed' = TRUE /\ UNCHANGED ret
    /\ UNCHANGED <<lockVars, ch, closed, received, ctxDone>>

MarkClosed(p) ==
    /\ Goto(p, "mark", "unlock")
    /\ closed' = TRUE
    /\ Return(p, "true")
    /\ UNCHANGED <<lockVars, ch, chClosed, received, ctxDone>>

Unlock(p) ==
    /\ p \in Closer
    /\ Goto(p, "unlock", "returned")
    /\ writer' = Nobody
    /\ UNCHANGED <<readers, chanVars, ctxDone, ret>>

(***************************************************************************)
(* The environment: a consumer of GetChannel, and the context.             *)
(***************************************************************************)

Receive ==
    /\ ch # <<>>
    /\ received' = Append(received, Head(ch))
    /\ ch' = Tail(ch)
    /\ UNCHANGED <<pc, lockVars, chClosed, closed, ctxDone, ret>>

Cancel ==
    /\ ~ctxDone
    /\ ctxDone' = TRUE
    /\ UNCHANGED <<pc, lockVars, chanVars, ret>>

(***************************************************************************)
(* The specification.                                                      *)
(***************************************************************************)

Send(p) ==
    \/ RLock(p) \/ CheckClosed(p)
    \/ SelectSend(p) \/ SelectDefault(p) \/ SelectDone(p)
    \/ RUnlock(p)

Close(p) == Lock(p) \/ LockAcquired(p) \/ CloseChan(p) \/ MarkClosed(p) \/ Unlock(p)

AllReturned == (\A p \in Proc : pc[p] = "returned") /\ UNCHANGED vars

Next ==
    \/ \E p \in Sender : Send(p)
    \/ \E p \in Closer : Close(p)
    \/ Receive \/ Cancel
    \/ AllReturned

Spec == Init /\ [][Next]_vars

\* Callers go on when they can; nobody has to receive or to cancel.
Fairness ==
    /\ \A p \in Sender : SF_vars(RLock(p)) /\ WF_vars(Send(p))
    /\ \A p \in Closer : SF_vars(Lock(p)) /\ WF_vars(Close(p))

FairSpec == Spec /\ Fairness

\* The use dag.go makes of it: Wait's deferred cancel() ends the context of the
\* SendBlocking calls into NodesResult before closeChannels.
LiveSpec == FairSpec /\ WF_vars(Cancel)

(***************************************************************************)
(* Properties.                                                             *)
(***************************************************************************)

\* No call panics: nobody sends on a closed channel or closes it twice, however
\* sends, receives and closes interleave (safechannel.go:9-10).
NoPanic == \A p \in Proc : pc[p] # "panic"

\* A Close that has closed sc.ch is alone: no sender is between its look at
\* closed and its send.
CloseIsExclusive ==
    \A p \in Closer : pc[p] \in {"closing", "mark"} =>
        /\ writer = p
        /\ \A q \in Sender : pc[q] \notin {"locked", "select"}

\* The call of p waits neither for the lock nor for room in the buffer.
CanGoOn(p) ==
    \/ pc[p] = "idle" /\ writer = Nobody
    \/ pc[p] \in {"locked", "closing", "mark", "unlock"}
    \/ pc[p] = "select" /\ (chClosed \/ Len(ch) < Cap \/ p \in TrySender \/ ctxDone)
    \/ pc[p] = "pending" /\ readers = {}

\* All waiting comes down to one thing: while a call is unfinished, some call can
\* go on, or a SendBlocking, whose context is not done, holds the lock and
\* waits for room in a full buffer, with every Close and every Send behind it.
OnlyRoomIsAwaited ==
    (\E p \in Proc : pc[p] # "returned") =>
        \/ \E p \in Proc : CanGoOn(p)
        \/ ~ctxDone /\ Len(ch) = Cap /\ \E p \in WaitSender \cap readers : pc[p] = "select"

\* The lock and the two steps of Close are invisible: what is sent, received
\* and returned is what SafeQueue allows.
Queue == INSTANCE SafeQueue WITH
            queue <- ch,
            taken <- received,
            open <- ~chClosed,
            outcome <- [p \in Proc |->
                IF pc[p] = "mark" THEN "true" ELSE ret[p]]

RefinesQueue == Queue!Spec

\* Every call returns, a Close behind a SendBlocking that waits for room too.
EveryCallReturns == \A p \in Proc : pc[p] # "idle" ~> pc[p] = "returned"

(***************************************************************************)
(* What the documentation says and the code does not do.                   *)
(***************************************************************************)

\* safechannel.go:42 "SendBlocking blocks until value is delivered to the
\* channel, the context is cancelled, or the channel is closed": a SendBlocking
\* that waits while the channel is being closed returns.
CloseEndsSend ==
    \A p \in WaitSender : \A q \in Closer :
        pc[p] = "select" /\ pc[q] = "pending" ~> pc[p] = "returned"

=============================================================================
