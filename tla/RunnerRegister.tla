--------------------------- MODULE RunnerRegister ---------------------------
(***************************************************************************)
(* What the binding of runners to nodes promises, without locks: each node *)
(* has a register that takes bindings while the node is open and keeps its *)
(* value once the node has begun; the node then runs what its register, or *)
(* failing that the dag's fallback, says at one moment.  RunnerBinding,    *)
(* the model of the code, implements this module.                          *)
(***************************************************************************)

CONSTANTS
    Id,       \* ids a caller may name
    Node,     \* those that name a node of the dag
    Special,  \* the start and the end node
    Runner,
    Nil,      \* no runner
    Setter    \* goroutines that bind runners

VARIABLES
    bound,    \* bound[n]: the runner n was given last, or Nil
    fallback, \* fallback[n]: what n runs without one
    phase,    \* phase[n]: "open", "begun" or "over"
    used,     \* used[n]: the runner n runs, Nil before and after
    todo,     \* todo[t]: the bindings <<id, runner>> t has asked for
    applied,  \* applied[t]: the ids of those that took effect
    refused   \* refused[t]: the ids of those that did not

registerVars == <<bound, fallback, phase, used, todo, applied, refused>>
callVars     == <<todo, applied, refused>>

Init ==
    /\ bound \in [Node -> Runner \cup {Nil}]
    /\ fallback \in [Node -> Runner \cup {Nil}]
    /\ phase = [n \in Node |-> "open"]
    /\ used = [n \in Node |-> Nil]
    /\ todo = [t \in Setter |-> {}]
    /\ applied = [t \in Setter |-> {}]
    /\ refused = [t \in Setter |-> {}]

Ask(t, request) ==
    /\ todo[t] = {} /\ applied[t] = {} /\ refused[t] = {}
    /\ todo' = [todo EXCEPT ![t] = request]
    /\ UNCHANGED <<bound, fallback, phase, used, applied, refused>>

\* The answer goes to the caller.
Answer(t) ==
    /\ todo[t] = {}
    /\ applied' = [applied EXCEPT ![t] = {}]
    /\ refused' = [refused EXCEPT ![t] = {}]
    /\ UNCHANGED <<bound, fallback, phase, used, todo>>

\* A binding takes effect at once, on a node that is open.
Bind(t, n, r) ==
    /\ <<n, r>> \in todo[t]
    /\ phase[n] = "open"
    /\ bound' = [bound EXCEPT ![n] = r]
    /\ todo' = [todo EXCEPT ![t] = @ \ {<<n, r>>}]
    /\ applied' = [applied EXCEPT ![t] = @ \cup {n}]
    /\ UNCHANGED <<fallback, phase, used, refused>>

\* A binding is refused for a reason, and then changes nothing.
Refuse(t, id, r) ==
    /\ <<id, r>> \in todo[t]
    /\ id \in Node \ Special => phase[id] # "open"
    /\ todo' = [todo EXCEPT ![t] = @ \ {<<id, r>>}]
    /\ refused' = [refused EXCEPT ![t] = @ \cup {id}]
    /\ UNCHANGED <<bound, fallback, phase, used, applied>>

FallBack(f) ==
    /\ fallback' = f
    /\ UNCHANGED <<bound, phase, used, callVars>>

Begin(n) ==
    /\ phase[n] = "open"
    /\ phase' = [phase EXCEPT ![n] = "begun"]
    /\ UNCHANGED <<bound, fallback, used, callVars>>

\* The choice of the runner is one moment's.
Use(n) ==
    /\ phase[n] = "begun"
    /\ used' = [used EXCEPT ![n] = IF bound[n] # Nil THEN bound[n] ELSE fallback[n]]
    /\ phase' = [phase EXCEPT ![n] = "over"]
    /\ UNCHANGED <<bound, fallback, callVars>>

\* The node ends, or will not run anything: skipped, failed before, special.
End(n) ==
    /\ phase' = [phase EXCEPT ![n] = "over"]
    /\ used' = [used EXCEPT ![n] = Nil]
    /\ UNCHANGED <<bound, fallback, callVars>>

\* The next run: bindings survive it.
Reopen(n) ==
    /\ phase[n] # "begun" /\ used[n] = Nil
    /\ phase' = [phase EXCEPT ![n] = "open"]
    /\ UNCHANGED <<bound, fallback, used, callVars>>

Next ==
    \/ \E t \in Setter :
        \/ \E request \in SUBSET (Id \X (Runner \cup {Nil})) : Ask(t, request)
        \/ Answer(t)
        \/ \E n \in Node, r \in Runner \cup {Nil} : Bind(t, n, r)
        \/ \E id \in Id, r \in Runner \cup {Nil} : Refuse(t, id, r)
    \/ \E f \in [Node -> Runner \cup {Nil}] : FallBack(f)
    \/ \E n \in Node : Begin(n) \/ Use(n) \/ End(n) \/ Reopen(n)

Spec == Init /\ [][Next]_registerVars
=============================================================================
