------------------------- MODULE CredentialSafeHandoff -------------------------
(***************************************************************************)
(* The lifecycle and the credential-safe surface together, used as         *)
(* src/docs/architecture.md:168-180 asks a consumer to use them: begin()   *)
(* is given the intervention as it is now, in a Human period, and          *)
(* assertInactive() is called in the same stretch of code that ends the    *)
(* Human period (Done or cancel).  revoke(), and the calls that wait for   *)
(* the provider, overlap everything.  Every method of the lifecycle is     *)
(* called with the id of the intervention or with a stale one.             *)
(***************************************************************************)
EXTENDS HumanSurface, HandoffLifecycle

safeVars == <<surfaceVars, vars>>

SafeInit == SurfaceInit /\ Init

\* The bindings of the intervention as it is, one for each principal.
Binding == {o \in Owners : o.id = active.id /\ o.epoch = active.epoch}

\* begin(state.getActive(), principal): assertCredentialSafeEntryState holds.
BeginSurface(t) ==
    /\ Authority = "human"
    /\ \E o \in Binding : BeginCalled(t, o)
    /\ UNCHANGED lifecycleVars

\* revoke(id, epoch, principal), with the binding of any intervention so far.
RevokeSurface(t) ==
    /\ \E o \in Owners : o.id <= issued /\ o.epoch <= epoch /\ RevokeCalled(t, o)
    /\ UNCHANGED lifecycleVars

\* Variant: assertInactive() lets a pending cleanup pass.
RestoresWhenNotActive(id) ==
    /\ surface.kind \in {"idle", "cleanup"}
    /\ MarkHumanComplete(id) \/ Cancel(id)
    /\ UNCHANGED surfaceVars

\* assertInactive(), then the end of the Human period.
EndHumanPeriod(id) ==
    /\ Inactive
    /\ MarkHumanComplete(id) \/ Cancel(id)
    /\ UNCHANGED surfaceVars

\* The lifecycle outside Human periods, and the start of one.
LifecycleMoves(id) ==
    /\ ClaimHuman(id) \/ ReturnToHuman(id) \/ MarkVerified(id) \/ ResumeAgent(id)
    /\ UNCHANGED surfaceVars

\* A new intervention, or a consumer that advances the epoch by itself.
NewEpoch == (Begin \/ AdvanceResourceEpoch) /\ UNCHANGED surfaceVars

SurfaceMoves == (Settles \/ Expires) /\ UNCHANGED lifecycleVars

SafeNext ==
    /\ \/ \E t \in Tasks : BeginSurface(t) \/ RevokeSurface(t)
       \/ \E id \in 1..issued : EndHumanPeriod(id) \/ LifecycleMoves(id)
       \/ NewEpoch
       \/ SurfaceMoves
    /\ Record

SafeSpec == SafeInit /\ [][SafeNext]_safeVars
--------------------------------------------------------------------------------
(***************************************************************************)
(* No external session is open, or being opened, while the Agent drives    *)
(* the resource or the consumer verifies (README.md:62): a begin() joined  *)
(* late, a revocation that failed and an expiry do not get past            *)
(* assertInactive().                                                       *)
(***************************************************************************)
AgentExcludesExternalSession == Authority # "human" => Open = {}
================================================================================
