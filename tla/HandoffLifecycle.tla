---------------------------- MODULE HandoffLifecycle ---------------------------
(***************************************************************************)
(* The lifecycle under every sequence of calls its consumers can make:     *)
(* each method, with the id of the active intervention or of any earlier   *)
(* one, in any order.                                                      *)
(***************************************************************************)
EXTENDS Lifecycle

VARIABLE
    humanEpoch  \* history: the last epoch under which the Human held authority

vars == <<epoch, active, issued, humanEpoch>>

Init == LifecycleInit /\ humanEpoch = -1

\* The history follows every step.
Record == humanEpoch' = IF Authority' = "human" THEN epoch' ELSE humanEpoch

Call(id) ==
    \/ ClaimHuman(id)
    \/ MarkHumanComplete(id)
    \/ ReturnToHuman(id)
    \/ MarkVerified(id)
    \/ ResumeAgent(id)
    \/ Cancel(id)

Lookup == UNCHANGED lifecycleVars  \* getActive(), getResourceEpoch(), a refused call

Next ==
    /\ \/ AdvanceResourceEpoch
       \/ Begin
       \/ \E id \in 1..issued : Call(id)
       \/ Lookup
    /\ Record

Spec == Init /\ [][Next]_vars
--------------------------------------------------------------------------------
(***************************************************************************)
(* Every variable ranges over the values the code can give it.             *)
(***************************************************************************)
TypeOK ==
    /\ epoch \in Nat
    /\ issued \in Nat
    /\ active \in Intervention \union {NoIntervention}
    /\ humanEpoch \in Nat \union {-1}

(***************************************************************************)
(* An epoch read outside a Human period and still current outside one is   *)
(* fresh: no Human period lies between the read and now, however many      *)
(* claims, returns, cancels and new interventions happened.  This is what  *)
(* lets a consumer compare getResourceEpoch() with the value it captured.  *)
(***************************************************************************)
EpochFencesHumanPeriods == Authority # "human" => humanEpoch < epoch

(***************************************************************************)
(* The authority an intervention reports to its holder (the recorded       *)
(* field) and the authority the gate computes from the status never        *)
(* disagree, on any path that changes either of them.                      *)
(***************************************************************************)
RecordedAuthorityAgrees == Suspended => active.authority = Authority

\* The lifecycle implements ExecutionAuthority, seen through getAuthority(),
\* getResourceEpoch() and the status ready_to_resume.
Abstract == INSTANCE ExecutionAuthority WITH
    holder <- Authority,
    generation <- epoch,
    accepted <- active.status = "ready_to_resume"

(***************************************************************************)
(* Refinement: every sequence of lifecycle calls is one ExecutionAuthority *)
(* allows.                                                                 *)
(***************************************************************************)
ImplementsExecutionAuthority == Abstract!Spec
================================================================================
