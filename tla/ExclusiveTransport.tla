--------------------------- MODULE ExclusiveTransport --------------------------
(***************************************************************************)
(* What the transport coordinator promises: the transports of the plan are *)
(* opened in plan order, none twice, and none is opened before every other *)
(* one is completely closed.  Fencing (no more Human input) and closing    *)
(* (the transport's resources are gone) are separate events, because a     *)
(* teardown takes time and may have to be asked for again.                 *)
(***************************************************************************)
EXTENDS Integers

CONSTANT Transports  \* the plan is 1..Transports

VARIABLES
    state,  \* state[t] \in {"off", "live", "fenced"}
    tried   \* transports 1..tried are behind us

vars == <<state, tried>>

Plan == 1..Transports

Init ==
    /\ state = [t \in Plan |-> "off"]
    /\ tried = 0

\* The plan moves past a transport that never came up.
Skip ==
    /\ tried < Transports
    /\ tried' = tried + 1
    /\ UNCHANGED state

Open(t) ==
    /\ tried < t
    /\ \A u \in Plan : state[u] = "off"
    /\ state' = [state EXCEPT ![t] = "live"]
    /\ tried' = t

Fence(t) ==
    /\ state[t] = "live"
    /\ state' = [state EXCEPT ![t] = "fenced"]
    /\ UNCHANGED tried

Close(t) ==
    /\ state[t] = "fenced"
    /\ state' = [state EXCEPT ![t] = "off"]
    /\ UNCHANGED tried

Next ==
    \/ Skip
    \/ \E t \in Plan : Open(t) \/ Fence(t) \/ Close(t)

Spec == Init /\ [][Next]_vars
================================================================================
