--------------------------- MODULE ExecutionAuthority --------------------------
(***************************************************************************)
(* What the lifecycle promises its consumers, without interventions or     *)
(* ids: one party at most drives the resource, control never passes from   *)
(* the Agent to the Human in a single step, and every generation of the    *)
(* resource is seen by one owner only: taking control from the Agent, or   *)
(* taking it from the Human, moves the generation on.  A Human period that *)
(* ended can reach the Agent in two ways only: it was accepted (accepted   *)
(* is then TRUE) or it was abandoned, which moves the generation once more.*)
(***************************************************************************)
EXTENDS Integers

VARIABLES
    holder,      \* "agent", "human" or "none"
    generation,  \* the fencing token of the resource
    accepted     \* the outcome of the last Human period was accepted

vars == <<holder, generation, accepted>>

Init ==
    /\ holder = "agent"
    /\ generation = 0
    /\ accepted = FALSE

\* The resource changed for a reason of its own.
Touch ==
    /\ generation' = generation + 1
    /\ UNCHANGED <<holder, accepted>>

Suspend ==
    /\ holder = "agent"
    /\ holder' = "none"
    /\ generation' = generation + 1
    /\ UNCHANGED accepted

Grant ==
    /\ holder = "none" /\ ~accepted
    /\ holder' = "human"
    /\ UNCHANGED <<generation, accepted>>

Withdraw ==
    /\ holder = "human"
    /\ holder' = "none"
    /\ generation' = generation + 1
    /\ UNCHANGED accepted

Accept ==
    /\ holder = "none" /\ ~accepted
    /\ accepted' = TRUE
    /\ UNCHANGED <<holder, generation>>

Restore ==
    /\ holder = "none" /\ accepted
    /\ holder' = "agent"
    /\ accepted' = FALSE
    /\ UNCHANGED generation

Abandon ==
    /\ holder # "agent"
    /\ holder' = "agent"
    /\ accepted' = FALSE
    /\ generation' = generation + 1

Next ==
    \/ Touch \/ Suspend \/ Grant \/ Withdraw \/ Accept \/ Restore \/ Abandon

Spec == Init /\ [][Next]_vars
================================================================================
