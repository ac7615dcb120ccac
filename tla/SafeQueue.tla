----------------------------- MODULE SafeQueue -----------------------------
(***************************************************************************)
(* What a SafeChannel promises, without its lock: a bounded queue that is  *)
(* closed once.  Each caller makes one call and each call has one atomic   *)
(* effect.  SafeChannel, the model of the code, implements this module.    *)
(***************************************************************************)
EXTENDS Naturals, Sequences

CONSTANTS
    Sender,     \* callers of Send and SendBlocking; each sends itself
    Closer,     \* callers of Close
    Cap         \* capacity of the queue

VARIABLES
    queue,      \* the values sent and not yet received
    taken,      \* the values received, in order
    open,       \* FALSE once a Close has succeeded
    outcome     \* outcome[p]: what p's call came to, "none" before its effect

queueVars == <<queue, taken, open, outcome>>

Init ==
    /\ queue = <<>>
    /\ taken = <<>>
    /\ open = TRUE
    /\ outcome = [p \in Sender \cup Closer |-> "none"]

Becomes(p, o) ==
    /\ outcome[p] = "none"
    /\ outcome' = [outcome EXCEPT ![p] = o]

\* A send succeeds only while the queue is open and has room.
Put(p) ==
    /\ open
    /\ Len(queue) < Cap
    /\ queue' = Append(queue, p)
    /\ Becomes(p, "true")
    /\ UNCHANGED <<taken, open>>

\* A send that is refused leaves no trace in the queue.
Refuse(p) ==
    /\ Becomes(p, "false")
    /\ UNCHANGED <<queue, taken, open>>

Take ==
    /\ queue # <<>>
    /\ taken' = Append(taken, Head(queue))
    /\ queue' = Tail(queue)
    /\ UNCHANGED <<open, outcome>>

\* Exactly one Close succeeds: it finds the queue open.
Close(p) ==
    /\ Becomes(p, IF open THEN "true" ELSE "false")
    /\ open' = FALSE
    /\ UNCHANGED <<queue, taken>>

Next ==
    \/ \E p \in Sender : Put(p) \/ Refuse(p)
    \/ \E p \in Closer : Close(p)
    \/ Take

Spec == Init /\ [][Next]_queueVars
=============================================================================
