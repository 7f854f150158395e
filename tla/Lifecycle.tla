------------------------------- MODULE Lifecycle -------------------------------
(***************************************************************************)
(* ExecutionHandoffState (src/src/core/lifecycle.ts): who may drive the    *)
(* execution resource, and the resource epoch that fences whatever was     *)
(* learnt under an earlier owner.                                          *)
(*                                                                         *)
(* Every method is synchronous JavaScript, hence one atomic action.  A     *)
(* caller names the intervention by the id it was once given, so every     *)
(* method takes an id that may already be out of date.  A call that throws *)
(* changes nothing and is not a step.  Reasons, the suspended action, the  *)
(* resume policy and the timestamps are carried by the code without being  *)
(* looked at; they are left out.  The definitions marked Variant are        *)
(* deliberately wrong forms of their neighbour, never part of Next: each   *)
(* must break the property that is about it.                               *)
(***************************************************************************)
EXTENDS Integers

CONSTANTS
    MaxEpoch,  \* bound on the resource epoch
    MaxIssued  \* bound on the number of interventions ever begun

ASSUME BoundsAssumption == MaxEpoch \in Nat /\ MaxIssued \in Nat

VARIABLES
    epoch,   \* ExecutionHandoffState.epoch
    active,  \* ExecutionHandoffState.active, NoIntervention when undefined
    issued   \* ids 1..issued have been handed out; createId() is always fresh

lifecycleVars == <<epoch, active, issued>>

InterventionStatus ==
    {"awaiting_human", "human_active", "verifying", "ready_to_resume"}

Intervention ==
    [id: Nat, status: InterventionStatus, authority: {"human", "none"}, epoch: Nat]

NoIntervention == [id |-> 0, status |-> "idle", authority |-> "none", epoch |-> 0]

Suspended == active # NoIntervention

\* getAuthority(): derived from the status, not from the recorded authority.
Authority ==
    IF ~Suspended THEN "agent"
    ELSE IF active.status = "human_active" THEN "human" ELSE "none"

\* requireActive(id): the id must be the one of the active intervention.
IsActive(id) == Suspended /\ active.id = id

LifecycleInit ==
    /\ epoch = 0
    /\ active = NoIntervention
    /\ issued = 0

--------------------------------------------------------------------------------
\* advanceResourceEpoch(), the public call of a consumer.
AdvanceResourceEpoch ==
    /\ epoch < MaxEpoch
    /\ epoch' = epoch + 1
    /\ UNCHANGED <<active, issued>>

\* begin() when nothing is active.  A begin() that finds an active intervention
\* returns that one and changes nothing.
Begin ==
    /\ ~Suspended
    /\ epoch < MaxEpoch /\ issued < MaxIssued
    /\ epoch' = epoch + 1
    /\ issued' = issued + 1
    /\ active' = [id |-> issued + 1, status |-> "awaiting_human",
                  authority |-> "none", epoch |-> epoch + 1]

\* claimHuman(id): the first claim, or a claim that takes the control back
\* while the consumer verifies.  Neither advances the epoch.
ClaimHuman(id) ==
    /\ IsActive(id)
    /\ active.status \in {"awaiting_human", "verifying"}
    /\ active' = [active EXCEPT !.status = "human_active", !.authority = "human"]
    /\ UNCHANGED <<epoch, issued>>

\* markHumanComplete(id): Done.  The epoch moves, and the intervention with it.
MarkHumanComplete(id) ==
    /\ IsActive(id)
    /\ active.status = "human_active"
    /\ epoch < MaxEpoch
    /\ epoch' = epoch + 1
    /\ active' = [active EXCEPT !.status = "verifying", !.authority = "none",
                                !.epoch = epoch + 1]
    /\ UNCHANGED issued

\* returnToHuman(id): verification asks for another Human round.
ReturnToHuman(id) ==
    /\ IsActive(id)
    /\ active.status = "verifying"
    /\ active' = [active EXCEPT !.status = "human_active", !.authority = "human"]
    /\ UNCHANGED <<epoch, issued>>

MarkVerified(id) ==
    /\ IsActive(id)
    /\ active.status = "verifying"
    /\ active' = [active EXCEPT !.status = "ready_to_resume"]
    /\ UNCHANGED <<epoch, issued>>

\* Variant: the Agent resumes while verification is still open.
ResumeAgentUnverified(id) ==
    /\ IsActive(id)
    /\ active.status \in {"verifying", "ready_to_resume"}
    /\ active' = NoIntervention
    /\ UNCHANGED <<epoch, issued>>

\* resumeAgent(id): the decision it returns carries active.epoch.
ResumeAgent(id) ==
    /\ IsActive(id)
    /\ active.status = "ready_to_resume"
    /\ active' = NoIntervention
    /\ UNCHANGED <<epoch, issued>>

\* Variant: an abandoned Human period leaves the epoch as it was.
CancelKeepsEpoch(id) ==
    /\ IsActive(id)
    /\ active' = NoIntervention
    /\ UNCHANGED <<epoch, issued>>

\* cancel(id), from any status.
Cancel(id) ==
    /\ IsActive(id)
    /\ epoch < MaxEpoch
    /\ epoch' = epoch + 1
    /\ active' = NoIntervention
    /\ UNCHANGED issued
================================================================================
