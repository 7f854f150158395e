------------------------------ MODULE HandoffProofs ------------------------------
(***************************************************************************)
(* Machine-checked theorems on the execution lifecycle and on the two      *)
(* modules composed with it, for every value of their constants.           *)
(*                                                                         *)
(* HandoffLifecycle: LifecycleInv is inductive; freshness of the epoch     *)
(* needs to know that the history never runs ahead of the epoch, and that  *)
(* is all.                                                                 *)
(*                                                                         *)
(* CredentialSafeHandoff: the inductive invariant says which session may   *)
(* be open (the one of the surface, and no other), what a call that is     *)
(* still waiting may rely on, and that a surface is only there while the   *)
(* Human has authority.                                                    *)
(*                                                                         *)
(* CheckpointedHandoff: the inductive invariant ties the checkpoint being  *)
(* written to the intervention it was made of, which no lifecycle call can *)
(* touch while the store runs, and bounds what the file and the disk may   *)
(* hold.                                                                   *)
(***************************************************************************)
EXTENDS CredentialSafeHandoff, CheckpointedHandoff, TLAPS
--------------------------------------------------------------------------------
(* The lifecycle.                                                          *)

LifecycleInv ==
    /\ TypeOK
    /\ EpochFencesHumanPeriods
    /\ RecordedAuthorityAgrees
    /\ humanEpoch <= epoch

\* The initial state is idle under the Agent, before any epoch was handed over.
LEMMA InitInv == Init => LifecycleInv
  BY DEF Init, LifecycleInit, LifecycleInv, TypeOK, EpochFencesHumanPeriods,
         RecordedAuthorityAgrees, Suspended, Authority

\* A method call, with any id, keeps the invariant.  The methods
\* fall in three groups: the Human gets control, the Human lost it, nobody is left.
LEMMA CallInv ==
    ASSUME LifecycleInv, NEW id \in 1..issued, Call(id), Record
    PROVE  LifecycleInv'
<1>1. IsActive(id)
      BY DEF Call, ClaimHuman, MarkHumanComplete, ReturnToHuman, MarkVerified,
             ResumeAgent, Cancel
<1>2. active \in Intervention /\ epoch \in Nat /\ issued \in Nat /\ humanEpoch \in Int
      BY <1>1 DEF IsActive, Suspended, LifecycleInv, TypeOK
<1>3. ASSUME \/ ClaimHuman(id) \/ ReturnToHuman(id)
      PROVE  LifecycleInv'
  <2>1. /\ active' = [active EXCEPT !.status = "human_active", !.authority = "human"]
        /\ UNCHANGED <<epoch, issued>>
        BY <1>3 DEF ClaimHuman, ReturnToHuman
  <2>2. /\ active' \in Intervention
        /\ active'.status = "human_active" /\ active'.authority = "human"
        BY <1>2, <2>1 DEF Intervention, InterventionStatus
  <2>3. active' # NoIntervention
        BY <2>2 DEF NoIntervention
  <2>4. Authority' = "human"
        BY <2>2, <2>3 DEF Authority, Suspended
  <2> QED BY <1>1, <1>2, <2>1, <2>2, <2>3, <2>4
          DEF LifecycleInv, TypeOK, EpochFencesHumanPeriods, RecordedAuthorityAgrees,
              Record, Suspended, IsActive
<1>4. ASSUME \/ MarkHumanComplete(id) \/ MarkVerified(id)
      PROVE  LifecycleInv'
  <2>1. /\ active' \in Intervention
        /\ active'.status # "human_active" /\ active'.authority = "none"
        /\ epoch' \in Nat /\ epoch <= epoch' /\ issued' = issued
    <3>1. active.authority = Authority
          BY <1>1 DEF IsActive, LifecycleInv, RecordedAuthorityAgrees
    <3>2. CASE MarkHumanComplete(id)
      <4>1. /\ active' = [active EXCEPT !.status = "verifying", !.authority = "none",
                                        !.epoch = epoch + 1]
            /\ epoch' = epoch + 1 /\ issued' = issued
            BY <3>2 DEF MarkHumanComplete
      <4>2. active' = [id |-> active.id, status |-> "verifying", authority |-> "none",
                       epoch |-> epoch + 1]
            BY <1>2, <4>1 DEF Intervention
      <4> QED BY <1>2, <4>1, <4>2 DEF Intervention, InterventionStatus
    <3>3. CASE MarkVerified(id)
      <4>1. active.authority = "none"
            BY <1>1, <3>1, <3>3 DEF MarkVerified, Authority, IsActive
      <4> QED BY <1>2, <3>1, <3>3, <4>1
              DEF MarkVerified, Intervention, InterventionStatus
    <3> QED BY <1>4, <3>2, <3>3
  <2>2. humanEpoch < epoch'
        BY <1>1, <1>2, <1>4
        DEF MarkHumanComplete, MarkVerified, LifecycleInv, EpochFencesHumanPeriods,
            Authority, IsActive
  <2>3. active' # NoIntervention
        BY <2>1 DEF NoIntervention, Intervention, InterventionStatus
  <2>4. Authority' = "none"
        BY <2>1, <2>3 DEF Authority, Suspended
  <2> QED BY <1>1, <1>2, <2>1, <2>2, <2>3, <2>4
          DEF LifecycleInv, TypeOK, EpochFencesHumanPeriods, RecordedAuthorityAgrees,
              Record, Suspended, IsActive
<1>5. ASSUME \/ ResumeAgent(id) \/ Cancel(id)
      PROVE  LifecycleInv'
  <2>1. /\ active' = NoIntervention /\ issued' = issued
        /\ epoch' \in Nat /\ epoch <= epoch' /\ humanEpoch < epoch'
        BY <1>1, <1>2, <1>5
        DEF ResumeAgent, Cancel, LifecycleInv, EpochFencesHumanPeriods, Authority, IsActive
  <2>2. Authority' = "agent"
        BY <2>1 DEF Authority, Suspended
  <2> QED BY <1>2, <2>1, <2>2
          DEF LifecycleInv, TypeOK, EpochFencesHumanPeriods, RecordedAuthorityAgrees,
              Record, Suspended
<1> QED BY <1>3, <1>4, <1>5 DEF Call

\* Every method of the lifecycle keeps its invariant.
LEMMA NextInv == LifecycleInv /\ [Next]_vars => LifecycleInv'
<1> SUFFICES ASSUME LifecycleInv, [Next]_vars PROVE LifecycleInv'
    OBVIOUS
<1>1. CASE AdvanceResourceEpoch /\ Record
      BY <1>1 DEF AdvanceResourceEpoch, LifecycleInv, TypeOK, EpochFencesHumanPeriods,
         RecordedAuthorityAgrees, Record, Authority, Suspended,
         Intervention, InterventionStatus, NoIntervention
<1>2. CASE Begin /\ Record
      BY <1>2 DEF Begin, LifecycleInv, TypeOK, EpochFencesHumanPeriods,
         RecordedAuthorityAgrees, Record, Authority, Suspended,
         Intervention, InterventionStatus, NoIntervention
<1>3. CASE (\E id \in 1..issued : Call(id)) /\ Record
      BY <1>3, CallInv
<1>4. CASE Lookup /\ Record
      BY <1>4 DEF Lookup, lifecycleVars, LifecycleInv, TypeOK, EpochFencesHumanPeriods,
         RecordedAuthorityAgrees, Record, Authority, Suspended
<1>5. CASE UNCHANGED vars
      BY <1>5 DEF vars, LifecycleInv, TypeOK, EpochFencesHumanPeriods,
         RecordedAuthorityAgrees, Authority, Suspended
<1> QED BY <1>1, <1>2, <1>3, <1>4, <1>5 DEF Next

\* The inductive invariant holds in every reachable state.
THEOREM Invariance == Spec => []LifecycleInv
  BY InitInv, NextInv, PTL DEF Spec

\* Type correctness of the lifecycle state (active, epoch) for every bound.
THEOREM TypeCorrect == Spec => []TypeOK
<1>1. LifecycleInv => TypeOK  BY DEF LifecycleInv
<1> QED BY <1>1, Invariance, PTL

\* Freshness: getResourceEpoch() returns a value no earlier Human period shared,
\* after any sequence of claims, returns, completions and cancels.
THEOREM EpochFreshness == Spec => []EpochFencesHumanPeriods
<1>1. LifecycleInv => EpochFencesHumanPeriods  BY DEF LifecycleInv
<1> QED BY <1>1, Invariance, PTL

\* The recorded authority of the active intervention is the one getAuthority()
\* computes, whichever method ran last.
THEOREM AuthorityAgreement == Spec => []RecordedAuthorityAgrees
<1>1. LifecycleInv => RecordedAuthorityAgrees  BY DEF LifecycleInv
<1> QED BY <1>1, Invariance, PTL

--------------------------------------------------------------------------------
\* Each step of the lifecycle is a step of the promise or leaves it as it was.
LEMMA StepRefines ==
    LifecycleInv /\ [Next]_vars => [Abstract!Next]_(Abstract!vars)
<1> SUFFICES ASSUME LifecycleInv, [Next]_vars PROVE [Abstract!Next]_(Abstract!vars)
    OBVIOUS
<1> USE DEF LifecycleInv, TypeOK, RecordedAuthorityAgrees, Authority, Suspended, IsActive,
            Intervention, InterventionStatus, NoIntervention, Abstract!vars
<1>1. CASE AdvanceResourceEpoch
      BY <1>1 DEF AdvanceResourceEpoch, Abstract!Next, Abstract!Touch
<1>2. CASE Begin
      BY <1>2 DEF Begin, Abstract!Next, Abstract!Suspend
<1>3. ASSUME NEW id \in 1..issued, ClaimHuman(id)
      PROVE  [Abstract!Next]_(Abstract!vars)
      BY <1>3 DEF ClaimHuman, Abstract!Next, Abstract!Grant
<1>4. ASSUME NEW id \in 1..issued, MarkHumanComplete(id)
      PROVE  [Abstract!Next]_(Abstract!vars)
      BY <1>4 DEF MarkHumanComplete, Abstract!Next, Abstract!Withdraw
<1>5. ASSUME NEW id \in 1..issued, ReturnToHuman(id)
      PROVE  [Abstract!Next]_(Abstract!vars)
      BY <1>5 DEF ReturnToHuman, Abstract!Next, Abstract!Grant
<1>6. ASSUME NEW id \in 1..issued, MarkVerified(id)
      PROVE  [Abstract!Next]_(Abstract!vars)
      BY <1>6 DEF MarkVerified, Abstract!Next, Abstract!Accept
<1>7. ASSUME NEW id \in 1..issued, ResumeAgent(id)
      PROVE  [Abstract!Next]_(Abstract!vars)
      BY <1>7 DEF ResumeAgent, Abstract!Next, Abstract!Restore
<1>8. ASSUME NEW id \in 1..issued, Cancel(id)
      PROVE  [Abstract!Next]_(Abstract!vars)
      BY <1>8 DEF Cancel, Abstract!Next, Abstract!Abandon
<1>9. CASE Lookup         BY <1>9 DEF Lookup, lifecycleVars
<1>10. CASE UNCHANGED vars  BY <1>10 DEF vars
<1> QED BY <1>1, <1>2, <1>3, <1>4, <1>5, <1>6, <1>7, <1>8, <1>9, <1>10 DEF Next, Call

\* Refinement: whatever calls its consumers make, ExecutionHandoffState behaves
\* as the exclusive, generation-fenced authority of ExecutionAuthority.
THEOREM Refinement == Spec => ImplementsExecutionAuthority
<1>1. Init => Abstract!Init
      BY DEF Init, LifecycleInit, Abstract!Init, Authority, Suspended, NoIntervention
<1> QED BY <1>1, Invariance, StepRefines, PTL
        DEF Spec, ImplementsExecutionAuthority, Abstract!Spec

--------------------------------------------------------------------------------
(* The credential-safe surface over the lifecycle.                         *)

Reasons == {"none", "revocation", "expired", "invalid_grant"}
Points == {"unused", "start", "started", "failed", "cleanup", "cleaned", "uncleaned", "ended"}
Outcomes == {"none", "granted", "busy", "expired", "changed", "failed", "revoked",
             "revoke_failed"}

Task == [op: {"none", "begin", "revoke"}, owner: Owners \union {NoOwner},
         at: Points, outcome: Outcomes, session: Sessions \union {0},
         targets: SUBSET Sessions]
Surface == [kind: {"idle", "starting", "active", "cleanup"},
            owner: Owners \union {NoOwner}, session: Sessions \union {0},
            reason: Reasons, revoking: BOOLEAN]
Session == [state: {"unused", "requested", "live", "gone"}, owner: Owners \union {NoOwner}]

SurfaceTypeOK ==
    /\ surface \in Surface
    /\ opening \in {"no", "provider", "cleanup"}
    /\ expired \in BOOLEAN
    /\ session \in [Sessions -> Session]
    /\ task \in [Tasks -> Task]

\* The only session the provider may have open is the surface's own, and it was
\* asked for by the surface's owner.
SurfaceOwnsItsSession ==
    /\ surface.kind = "idle" => surface = Idle /\ opening = "no" /\ Open = {}
    /\ surface.kind # "idle" =>
          /\ surface.session \in Sessions /\ Open = {surface.session}
          /\ session[surface.session].owner = surface.owner
    /\ surface.kind = "starting" <=> opening = "provider"
    /\ opening = "cleanup" => surface.kind = "cleanup" /\ surface.revoking

\* A call that waits for a start waits for a start of its own owner.
WaitsForOwn(c) == c.at = "start" => opening # "no" /\ c.owner = surface.owner

\* A begin() that was granted a session, or is about to be, was granted its own;
\* one that waited for a cleanup is not granted anything.
GrantedOwn(c) ==
    c.op = "begin" =>
        /\ c.at = "started" \/ (c.at = "ended" /\ c.outcome = "granted") =>
              /\ c.session \in Sessions
              /\ session[c.session].state # "unused" /\ session[c.session].owner = c.owner
        /\ c.at \in {"cleanup", "cleaned", "uncleaned"} => c.outcome # "granted"

\* What a revoke() is to end had been asked for when it was called, and has
\* ended when the cleanup it waited for was confirmed.
ReachesTargets(c) ==
    c.op = "revoke" =>
        /\ \A s \in c.targets : session[s].state # "unused"
        /\ c.at \in {"cleaned", "ended"} /\ c.outcome = "revoked" => c.targets \intersect Open = {}

TaskInv == \A t \in Tasks :
    WaitsForOwn(task[t]) /\ GrantedOwn(task[t]) /\ ReachesTargets(task[t])

SurfaceInv == SurfaceTypeOK /\ SurfaceOwnsItsSession /\ TaskInv

\* The surface is there for a Human period only.
SurfaceInHumanPeriod == surface.kind # "idle" => Authority = "human"

SafeInv == LifecycleInv /\ SurfaceInv /\ SurfaceInHumanPeriod
--------------------------------------------------------------------------------
\* A call that comes to wait, or ends: what is known of it, and of the others.
LEMMA WaitsFacts ==
    ASSUME SurfaceTypeOK, NEW t \in Tasks, NEW what \in {"begin", "revoke"},
           NEW o \in Owners \union {NoOwner}, NEW at \in Points, NEW outcome \in Outcomes,
           Waits(t, what, o, at, outcome)
    PROVE  /\ task' \in [Tasks -> Task]
           /\ \A u \in Tasks \ {t} : task'[u] = task[u]
           /\ task'[t].op = what /\ task'[t].owner = o
           /\ task'[t].at = at /\ task'[t].outcome = outcome
           /\ task'[t].targets = IF what = "revoke" /\ task[t].at = "unused" THEN Open
                                 ELSE task[t].targets
<1>1. task \in [Tasks -> Task]
      BY DEF SurfaceTypeOK, Task
<1>2. Open \in SUBSET Sessions
      BY DEF Open
<1>3. task' = [task EXCEPT ![t] = [op |-> what, owner |-> o, at |-> at, outcome |-> outcome,
                                   session |-> 0,
                                   targets |-> IF what = "revoke" /\ task[t].at = "unused"
                                               THEN Open ELSE task[t].targets]]
      BY DEF Waits
<1>4. task[t].targets \in SUBSET Sessions
      BY <1>1 DEF Task
<1> QED BY <1>1, <1>2, <1>3, <1>4 DEF Task

\* The sessions of the provider do not move, and one call moves: the others keep
\* what they rely on.
LEMMA OneTaskMoves ==
    ASSUME SurfaceInv, NEW t \in Tasks, UNCHANGED <<session, opening>>,
           surface'.owner = surface.owner,
           \A u \in Tasks \ {t} : task'[u] = task[u],
           (WaitsForOwn(task[t]) /\ GrantedOwn(task[t]) /\ ReachesTargets(task[t]))'
    PROVE  TaskInv'
  BY DEF SurfaceInv, TaskInv, WaitsForOwn, GrantedOwn, ReachesTargets, Open

\* begin() of any owner, whatever it finds.
LEMMA BeginInv ==
    ASSUME SurfaceInv, NEW t \in Tasks, NEW o \in Owners, BeginCalled(t, o)
    PROVE  SurfaceInv'
<1>1. SurfaceTypeOK /\ SurfaceOwnsItsSession /\ TaskInv
      BY DEF SurfaceInv
<1>2. task[t].at = "unused"
      BY DEF BeginCalled, BeginJoins, BeginRefused, BeginReturnsCached, BeginCleansUp,
             BeginStarts, NewTask
<1> o \in Owners \union {NoOwner}
    OBVIOUS
<1>3. ASSUME BeginJoins(t, o)  PROVE SurfaceInv'
  <2>0. Waits(t, "begin", o, "start", "granted")
        BY <1>3 DEF BeginJoins
  <2>1. /\ task' \in [Tasks -> Task] /\ \A u \in Tasks \ {t} : task'[u] = task[u]
        /\ task'[t].op = "begin" /\ task'[t].owner = o /\ task'[t].at = "start"
        /\ task'[t].outcome = "granted"
        BY <1>1, <2>0, WaitsFacts DEF Points, Outcomes
  <2>2. surface.owner = o /\ opening # "no" /\ UNCHANGED <<surface, opening, expired, session>>
        BY <1>1, <1>3 DEF BeginJoins, Owns, SurfaceOwnsItsSession
  <2>3. (WaitsForOwn(task[t]) /\ GrantedOwn(task[t]) /\ ReachesTargets(task[t]))'
        BY <2>1, <2>2 DEF WaitsForOwn, GrantedOwn, ReachesTargets
  <2>4. TaskInv'
        BY <2>1, <2>2, <2>3, OneTaskMoves
  <2> QED BY <1>1, <2>1, <2>2, <2>4
          DEF SurfaceInv, SurfaceTypeOK, SurfaceOwnsItsSession, Open
<1>4. ASSUME BeginRefused(t, o)  PROVE SurfaceInv'
  <2>1. /\ task' \in [Tasks -> Task] /\ \A u \in Tasks \ {t} : task'[u] = task[u]
        /\ task'[t].op = "begin" /\ task'[t].at = "ended" /\ task'[t].outcome = "busy"
        BY <1>1, <1>4, WaitsFacts DEF BeginRefused, Ends, Points, Outcomes
  <2>2. UNCHANGED <<surface, opening, expired, session>>
        BY <1>4 DEF BeginRefused
  <2>3. (WaitsForOwn(task[t]) /\ GrantedOwn(task[t]) /\ ReachesTargets(task[t]))'
        BY <2>1, <2>2 DEF WaitsForOwn, GrantedOwn, ReachesTargets
  <2>4. TaskInv'
        BY <2>1, <2>2, <2>3, OneTaskMoves
  <2> QED BY <1>1, <2>1, <2>2, <2>4
          DEF SurfaceInv, SurfaceTypeOK, SurfaceOwnsItsSession, Open
<1>5. ASSUME BeginReturnsCached(t, o)  PROVE SurfaceInv'
  <2>1. /\ surface.kind = "active" /\ surface.owner = o
        /\ UNCHANGED <<surface, opening, expired, session>>
        BY <1>5 DEF BeginReturnsCached, Owns
  <2>2. /\ surface.session \in Sessions /\ session[surface.session].owner = o
        /\ session[surface.session].state # "unused"
        BY <1>1, <2>1 DEF SurfaceOwnsItsSession, Open
  <2>3. /\ task' \in [Tasks -> Task] /\ \A u \in Tasks \ {t} : task'[u] = task[u]
        /\ task'[t].op = "begin" /\ task'[t].owner = o /\ task'[t].at = "ended"
        /\ task'[t].session = surface.session
    <3>1. task' = [task EXCEPT ![t] =
                     [op |-> "begin", owner |-> o, at |-> "ended", outcome |-> "granted",
                      session |-> surface.session, targets |-> {}]]
          BY <1>5 DEF BeginReturnsCached
    <3> QED BY <1>1, <2>2, <3>1 DEF SurfaceTypeOK, Task, Points, Outcomes
  <2>4. (WaitsForOwn(task[t]) /\ GrantedOwn(task[t]) /\ ReachesTargets(task[t]))'
        BY <2>1, <2>2, <2>3 DEF WaitsForOwn, GrantedOwn, ReachesTargets
  <2>5. TaskInv'
        BY <2>1, <2>3, <2>4, OneTaskMoves
  <2> QED BY <1>1, <2>1, <2>3, <2>5
          DEF SurfaceInv, SurfaceTypeOK, SurfaceOwnsItsSession, Open
<1>6. ASSUME BeginCleansUp(t, o)  PROVE SurfaceInv'
  <2> DEFINE reason == IF surface.kind = "active" THEN "expired" ELSE surface.reason
  <2> DEFINE outcome == IF Owns(o) /\ reason = "expired" THEN "expired" ELSE "changed"
  <2>1. /\ surface' = Cleanup(reason) /\ Waits(t, "begin", o, "cleanup", outcome)
        /\ surface.kind # "starting" /\ surface.kind # "idle"
        /\ UNCHANGED <<opening, expired, session>>
        BY <1>6 DEF BeginCleansUp
  <2>2. /\ surface'.kind = "cleanup" /\ surface'.revoking
        /\ surface'.owner = surface.owner /\ surface'.session = surface.session
        /\ surface' \in Surface
    <3>1. reason \in Reasons /\ surface \in Surface
          BY <1>1 DEF SurfaceTypeOK, Surface, Reasons
    <3>2. surface' = [surface EXCEPT !.kind = "cleanup", !.reason = reason, !.revoking = TRUE]
          BY <2>1 DEF Cleanup
    <3> HIDE DEF reason
    <3> QED BY <3>1, <3>2 DEF Surface
  <2>3. /\ task' \in [Tasks -> Task] /\ \A u \in Tasks \ {t} : task'[u] = task[u]
        /\ task'[t].op = "begin" /\ task'[t].at = "cleanup" /\ task'[t].outcome # "granted"
        BY <1>1, <2>1, WaitsFacts DEF Points, Outcomes
  <2>4. (WaitsForOwn(task[t]) /\ GrantedOwn(task[t]) /\ ReachesTargets(task[t]))'
        BY <2>1, <2>3 DEF WaitsForOwn, GrantedOwn, ReachesTargets
  <2>5. TaskInv'
        BY <2>1, <2>2, <2>3, <2>4, OneTaskMoves
  <2> QED BY <1>1, <2>1, <2>2, <2>3, <2>5
          DEF SurfaceInv, SurfaceTypeOK, SurfaceOwnsItsSession, Open
<1>7. ASSUME NEW s \in Sessions, BeginStarts(t, o, s)  PROVE SurfaceInv'
  <2>1. /\ Open = {} /\ session[s].state = "unused" /\ UNCHANGED expired
        /\ opening = "no" /\ opening' = "provider"
        /\ surface' = [Idle EXCEPT !.kind = "starting", !.owner = o, !.session = s]
        /\ session' = [session EXCEPT ![s] = [state |-> "requested", owner |-> o]]
        BY <1>1, <1>7 DEF BeginStarts, SurfaceOwnsItsSession
  <2>2. /\ task' \in [Tasks -> Task] /\ \A u \in Tasks \ {t} : task'[u] = task[u]
        /\ task'[t].op = "begin" /\ task'[t].owner = o /\ task'[t].at = "start"
        BY <1>1, <1>7, WaitsFacts DEF BeginStarts, Points, Outcomes
  <2>3. SurfaceTypeOK'
    <3>1. surface' = [kind |-> "starting", owner |-> o, session |-> s, reason |-> "none",
                      revoking |-> FALSE]
          BY <2>1 DEF Idle
    <3>2. surface' \in Surface
          BY <3>1 DEF Surface, Reasons
    <3>3. session' \in [Sessions -> Session]
          BY <1>1, <2>1 DEF SurfaceTypeOK, Session
    <3> QED BY <1>1, <2>1, <2>2, <3>2, <3>3 DEF SurfaceTypeOK
  <2>4. /\ surface'.kind = "starting" /\ surface'.owner = o /\ surface'.session = s
        /\ session'[s].owner = o /\ session'[s].state = "requested"
        /\ \A r \in Sessions \ {s} : session'[r] = session[r]
        /\ Open' = {s}
        BY <1>1, <2>1 DEF SurfaceTypeOK, Idle, Open
  <2>5. SurfaceOwnsItsSession'
        BY <2>1, <2>4 DEF SurfaceOwnsItsSession
  <2>6. ASSUME NEW u \in Tasks
        PROVE  (WaitsForOwn(task[u]) /\ GrantedOwn(task[u]) /\ ReachesTargets(task[u]))'
    <3>1. CASE u = t
          BY <2>1, <2>2, <2>4, <3>1 DEF WaitsForOwn, GrantedOwn, ReachesTargets
    <3>2. CASE u # t
      <4>1. task'[u] = task[u] /\ WaitsForOwn(task[u]) /\ GrantedOwn(task[u])
            /\ ReachesTargets(task[u]) /\ task[u].targets \in SUBSET Sessions
            BY <1>1, <2>2, <3>2 DEF TaskInv, SurfaceTypeOK, Task
      <4>2. task[u].op = "revoke" => s \notin task[u].targets
            BY <2>1, <4>1 DEF ReachesTargets
      <4> QED BY <2>1, <2>4, <4>1, <4>2 DEF WaitsForOwn, GrantedOwn, ReachesTargets
    <3> QED BY <3>1, <3>2
  <2> QED BY <2>3, <2>5, <2>6 DEF SurfaceInv, TaskInv
<1> QED BY <1>3, <1>4, <1>5, <1>6, <1>7 DEF BeginCalled
--------------------------------------------------------------------------------
\* The provider moves one of its sessions: whose it is does not change.
LEMMA OneSessionMoves ==
    ASSUME SurfaceTypeOK, NEW s \in Sessions, NEW state \in {"live", "gone"},
           session' = [session EXCEPT ![s].state = state]
    PROVE  /\ session' \in [Sessions -> Session]
           /\ session'[s].state = state
           /\ \A r \in Sessions : session'[r].owner = session[r].owner
           /\ \A r \in Sessions \ {s} : session'[r] = session[r]
  BY DEF SurfaceTypeOK, Session

\* The answers of the provider to the request of a session.
LEMMA StartInv ==
    ASSUME SurfaceInv,
           \/ ProviderGrants \/ ProviderRejects
           \/ \E reason \in GrantDefects : ProviderGrantsUnusable(reason)
    PROVE  SurfaceInv'
<1>1. SurfaceTypeOK /\ SurfaceOwnsItsSession /\ TaskInv
      BY DEF SurfaceInv
<1>2. /\ opening = "provider" /\ surface.kind = "starting"
      /\ surface.session \in Sessions /\ Open = {surface.session}
      /\ session[surface.session].owner = surface.owner
      BY <1>1 DEF ProviderGrants, ProviderRejects, ProviderGrantsUnusable,
             SurfaceOwnsItsSession
<1>3. session[surface.session].state # "unused"
      BY <1>2 DEF Open
<1>4. \A u \in Tasks : task[u] \in Task /\ WaitsForOwn(task[u]) /\ GrantedOwn(task[u])
                       /\ ReachesTargets(task[u])
      BY <1>1 DEF TaskInv, SurfaceTypeOK
<1>5. ASSUME ProviderGrants  PROVE SurfaceInv'
  <2>1. /\ session' \in [Sessions -> Session] /\ session'[surface.session].state = "live"
        /\ \A r \in Sessions : session'[r].owner = session[r].owner
        /\ \A r \in Sessions \ {surface.session} : session'[r] = session[r]
        BY <1>1, <1>2, <1>5, OneSessionMoves DEF ProviderGrants
  <2>2. Open' = Open
        BY <1>2, <2>1 DEF Open
  <2>3. /\ surface' \in Surface /\ surface'.kind = "active"
        /\ surface'.session = surface.session /\ surface'.owner = surface.owner
        BY <1>1, <1>5 DEF ProviderGrants, SurfaceTypeOK, Surface
  <2>4. /\ opening' = "no" /\ expired' = FALSE
        /\ task' = [u \in Tasks |->
                      IF task[u].at = "start"
                      THEN [task[u] EXCEPT !.at = "started", !.session = surface.session]
                      ELSE task[u]]
        BY <1>5 DEF ProviderGrants, StartSettles
  <2>5. SurfaceTypeOK'
    <3>1. ASSUME NEW u \in Tasks  PROVE task'[u] \in Task
          BY <1>2, <1>4, <2>4 DEF Task, Points
    <3> QED BY <2>1, <2>3, <2>4, <3>1 DEF SurfaceTypeOK
  <2>6. SurfaceOwnsItsSession'
        BY <1>2, <2>1, <2>2, <2>3, <2>4 DEF SurfaceOwnsItsSession
  <2>7. ASSUME NEW u \in Tasks
        PROVE  (WaitsForOwn(task[u]) /\ GrantedOwn(task[u]) /\ ReachesTargets(task[u]))'
    <3>1. CASE task[u].at = "start"
      <4>1. /\ task'[u].op = task[u].op /\ task'[u].owner = surface.owner
            /\ task'[u].at = "started" /\ task'[u].session = surface.session
            /\ task'[u].targets = task[u].targets /\ task[u].targets \in SUBSET Sessions
            BY <1>4, <2>4, <3>1 DEF Task, WaitsForOwn
      <4> QED BY <1>2, <1>4, <2>1, <2>2, <4>1 DEF WaitsForOwn, GrantedOwn, ReachesTargets
    <3>2. CASE task[u].at # "start"
      <4>1. task'[u] = task[u] /\ task[u].targets \in SUBSET Sessions
            BY <1>4, <2>4, <3>2 DEF Task
      <4> QED BY <1>4, <2>1, <2>2, <3>2, <4>1 DEF WaitsForOwn, GrantedOwn, ReachesTargets
    <3> QED BY <3>1, <3>2
  <2> QED BY <2>5, <2>6, <2>7 DEF SurfaceInv, TaskInv
<1>6. ASSUME ProviderRejects  PROVE SurfaceInv'
  <2>1. /\ session' \in [Sessions -> Session] /\ session'[surface.session].state = "gone"
        /\ \A r \in Sessions : session'[r].owner = session[r].owner
        /\ \A r \in Sessions \ {surface.session} : session'[r] = session[r]
        BY <1>1, <1>2, <1>6, OneSessionMoves DEF ProviderRejects
  <2>2. Open' = {}
        BY <1>2, <2>1 DEF Open
  <2>3. surface' = Idle /\ surface' \in Surface
        BY <1>6 DEF ProviderRejects, Idle, Surface, Reasons
  <2>4. /\ opening' = "no" /\ expired' = expired
        /\ task' = [u \in Tasks |->
                      IF task[u].at = "start"
                      THEN [task[u] EXCEPT !.at = "failed", !.session = 0] ELSE task[u]]
        BY <1>6 DEF ProviderRejects, StartSettles
  <2>5. SurfaceTypeOK'
    <3>1. ASSUME NEW u \in Tasks  PROVE task'[u] \in Task
          BY <1>4, <2>4 DEF Task, Points
    <3> QED BY <1>1, <2>1, <2>3, <2>4, <3>1 DEF SurfaceTypeOK
  <2>6. SurfaceOwnsItsSession'
        BY <2>2, <2>3, <2>4 DEF SurfaceOwnsItsSession, Idle
  <2>7. ASSUME NEW u \in Tasks
        PROVE  (WaitsForOwn(task[u]) /\ GrantedOwn(task[u]) /\ ReachesTargets(task[u]))'
    <3>1. CASE task[u].at = "start"
      <4>1. /\ task'[u].op = task[u].op /\ task'[u].at = "failed"
            /\ task'[u].targets = task[u].targets /\ task[u].targets \in SUBSET Sessions
            BY <1>4, <2>4, <3>1 DEF Task
      <4> QED BY <1>4, <2>1, <2>2, <4>1 DEF WaitsForOwn, GrantedOwn, ReachesTargets
    <3>2. CASE task[u].at # "start"
      <4>1. task'[u] = task[u] /\ task[u].targets \in SUBSET Sessions
            BY <1>4, <2>4, <3>2 DEF Task
      <4> QED BY <1>4, <2>1, <2>2, <3>2, <4>1 DEF WaitsForOwn, GrantedOwn, ReachesTargets
    <3> QED BY <3>1, <3>2
  <2> QED BY <2>5, <2>6, <2>7 DEF SurfaceInv, TaskInv
<1>7. ASSUME NEW reason \in GrantDefects, ProviderGrantsUnusable(reason)  PROVE SurfaceInv'
  <2>1. /\ session' \in [Sessions -> Session] /\ session'[surface.session].state = "live"
        /\ \A r \in Sessions : session'[r].owner = session[r].owner
        /\ \A r \in Sessions \ {surface.session} : session'[r] = session[r]
        BY <1>1, <1>2, <1>7, OneSessionMoves DEF ProviderGrantsUnusable
  <2>2. Open' = Open
        BY <1>2, <2>1 DEF Open
  <2>3. /\ surface' \in Surface /\ surface'.kind = "cleanup" /\ surface'.revoking
        /\ surface'.session = surface.session /\ surface'.owner = surface.owner
    <3>1. surface' = [surface EXCEPT !.kind = "cleanup", !.reason = reason, !.revoking = TRUE]
          BY <1>7 DEF ProviderGrantsUnusable, Cleanup
    <3> QED BY <1>1, <1>7, <3>1 DEF SurfaceTypeOK, Surface, Reasons, GrantDefects
  <2>4. opening' = "cleanup" /\ UNCHANGED <<expired, task>>
        BY <1>7 DEF ProviderGrantsUnusable
  <2>5. SurfaceTypeOK' /\ SurfaceOwnsItsSession'
        BY <1>1, <1>2, <2>1, <2>2, <2>3, <2>4 DEF SurfaceTypeOK, SurfaceOwnsItsSession
  <2>6. ASSUME NEW u \in Tasks
        PROVE  (WaitsForOwn(task[u]) /\ GrantedOwn(task[u]) /\ ReachesTargets(task[u]))'
    <3>1. task'[u] = task[u] /\ task[u].targets \in SUBSET Sessions
          BY <1>4, <2>4 DEF Task
    <3> QED BY <1>3, <1>4, <2>1, <2>2, <2>3, <2>4, <3>1
            DEF WaitsForOwn, GrantedOwn, ReachesTargets
  <2> QED BY <2>5, <2>6 DEF SurfaceInv, TaskInv
<1> QED BY <1>5, <1>6, <1>7

\* The answers of the provider to a revocation.  When the cleanup is the one a
\* start began, the calls that wait for the start fail with it; otherwise no call
\* waits for a start.
LEMMA CleanupInv ==
    ASSUME SurfaceInv, CleanupConfirmed \/ CleanupFails
    PROVE  SurfaceInv'
<1>1. SurfaceTypeOK /\ SurfaceOwnsItsSession /\ TaskInv
      BY DEF SurfaceInv
<1>2. /\ surface.kind = "cleanup" /\ opening # "provider"
      /\ surface.session \in Sessions /\ Open = {surface.session}
      /\ session[surface.session].owner = surface.owner
      BY <1>1 DEF CleanupConfirmed, CleanupFails, SurfaceOwnsItsSession
<1>3. \A u \in Tasks : task[u] \in Task /\ WaitsForOwn(task[u]) /\ GrantedOwn(task[u])
                       /\ ReachesTargets(task[u])
      BY <1>1 DEF TaskInv, SurfaceTypeOK
<1>4. session[surface.session].state # "unused"
      BY <1>2 DEF Open
<1>5. PICK result \in {"cleaned", "uncleaned"} :
        /\ CleanupSettles(result)
        /\ result = "cleaned" => Open' = {}
        /\ session' \in [Sessions -> Session]
        /\ \A r \in Sessions : session'[r].owner = session[r].owner
                               /\ (session[r].state # "unused" => session'[r].state # "unused")
        /\ Open' \subseteq Open
        /\ SurfaceOwnsItsSession' /\ surface' \in Surface /\ expired' \in BOOLEAN
  <2>1. CASE CleanupConfirmed
    <3>1. /\ session' \in [Sessions -> Session] /\ session'[surface.session].state = "gone"
          /\ \A r \in Sessions : session'[r].owner = session[r].owner
          /\ \A r \in Sessions \ {surface.session} : session'[r] = session[r]
          BY <1>1, <1>2, <2>1, OneSessionMoves DEF CleanupConfirmed
    <3>2. Open' = {}
          BY <1>2, <3>1 DEF Open
    <3>3. surface' = Idle /\ surface' \in Surface /\ expired' = FALSE /\ opening' = "no"
          /\ CleanupSettles("cleaned")
          BY <2>1 DEF CleanupConfirmed, CleanupSettles, Idle, Surface, Reasons
    <3>4. SurfaceOwnsItsSession'
          BY <3>2, <3>3 DEF SurfaceOwnsItsSession, Idle
    <3>5. \A r \in Sessions : session[r].state # "unused" => session'[r].state # "unused"
          BY <3>1
    <3> QED BY <3>1, <3>2, <3>3, <3>4, <3>5
  <2>2. CASE CleanupFails
    <3>1. /\ UNCHANGED <<expired, session>> /\ CleanupSettles("uncleaned")
          /\ opening' = "no" /\ surface' = [surface EXCEPT !.revoking = FALSE]
          BY <2>2 DEF CleanupFails, CleanupSettles
    <3>2. /\ surface' \in Surface /\ surface'.kind = "cleanup"
          /\ surface'.session = surface.session /\ surface'.owner = surface.owner
          BY <1>1, <1>2, <3>1 DEF SurfaceTypeOK, Surface
    <3>3. Open' = Open
          BY <3>1 DEF Open
    <3>4. SurfaceOwnsItsSession'
          BY <1>2, <3>1, <3>2, <3>3 DEF SurfaceOwnsItsSession
    <3> QED BY <1>1, <3>1, <3>2, <3>3, <3>4 DEF SurfaceTypeOK
  <2> QED BY <2>1, <2>2
<1>6. /\ opening' = "no"
      /\ task' = [u \in Tasks |->
                    IF task[u].at = "cleanup" THEN [task[u] EXCEPT !.at = result]
                    ELSE IF task[u].at = "start" /\ opening = "cleanup"
                         THEN [task[u] EXCEPT !.at = "failed"] ELSE task[u]]
      BY <1>5 DEF CleanupSettles
<1>7. SurfaceTypeOK'
  <2>1. ASSUME NEW u \in Tasks  PROVE task'[u] \in Task
        BY <1>3, <1>5, <1>6 DEF Task, Points
  <2> QED BY <1>5, <1>6, <2>1 DEF SurfaceTypeOK
<1>8. ASSUME NEW u \in Tasks
      PROVE  (WaitsForOwn(task[u]) /\ GrantedOwn(task[u]) /\ ReachesTargets(task[u]))'
  <2>1. task[u].targets \in SUBSET Sessions
        BY <1>3 DEF Task
  <2>2. CASE task[u].at = "cleanup"
    <3>1. /\ task'[u].op = task[u].op /\ task'[u].at = result
          /\ task'[u].outcome = task[u].outcome /\ task'[u].targets = task[u].targets
          BY <1>3, <1>6, <2>2 DEF Task
    <3> QED BY <1>3, <1>5, <2>1, <2>2, <3>1 DEF WaitsForOwn, GrantedOwn, ReachesTargets
  <2>3. CASE task[u].at = "start"
    <3>1. opening = "cleanup"
          BY <1>1, <1>2, <1>3, <2>3 DEF WaitsForOwn, SurfaceTypeOK
    <3>2. /\ task'[u].op = task[u].op /\ task'[u].at = "failed"
          /\ task'[u].targets = task[u].targets
          BY <1>3, <1>6, <2>3, <3>1 DEF Task
    <3> QED BY <1>3, <1>5, <2>1, <2>3, <3>2 DEF WaitsForOwn, GrantedOwn, ReachesTargets
  <2>4. CASE task[u].at \notin {"cleanup", "start"}
    <3>1. task'[u] = task[u]
          BY <1>6, <2>4
    <3> QED BY <1>3, <1>5, <2>1, <2>4, <3>1 DEF WaitsForOwn, GrantedOwn, ReachesTargets
  <2> QED BY <2>2, <2>3, <2>4
<1> QED BY <1>5, <1>7, <1>8 DEF SurfaceInv, TaskInv

\* The body of revoke(), entered by the caller or after the start it waited for.
LEMMA RevokeInv ==
    ASSUME SurfaceInv, NEW t \in Tasks, NEW o \in Owners \union {NoOwner},
           RevokeProceeds(t, o), task[t].op = "revoke" \/ task[t].at = "unused"
    PROVE  SurfaceInv'
<1>1. SurfaceTypeOK /\ SurfaceOwnsItsSession /\ TaskInv
      BY DEF SurfaceInv
<1>2. /\ UNCHANGED <<opening, expired, session>> /\ Open' = Open
      /\ surface'.owner = surface.owner /\ surface' \in Surface
      /\ SurfaceOwnsItsSession'
  <2>1. surface \in Surface
        BY <1>1 DEF SurfaceTypeOK
  <2>2. UNCHANGED <<opening, expired, session>> /\ Open' = Open
        BY DEF RevokeProceeds, Open
  <2>3. CASE UNCHANGED surface
        BY <1>1, <2>1, <2>2, <2>3 DEF SurfaceOwnsItsSession
  <2>4. CASE \/ /\ surface.kind = "active"
                /\ surface' = Cleanup(IF expired THEN "expired" ELSE "revocation")
             \/ surface.kind = "cleanup" /\ surface' = [surface EXCEPT !.revoking = TRUE]
    <3>1. /\ surface'.kind = "cleanup" /\ surface'.revoking
          /\ surface'.session = surface.session /\ surface'.owner = surface.owner
          /\ surface' \in Surface
          BY <2>1, <2>4 DEF Cleanup, Surface, Reasons
    <3> QED BY <1>1, <2>2, <2>4, <3>1 DEF SurfaceOwnsItsSession
  <2> QED BY <2>3, <2>4 DEF RevokeProceeds
<1>3. PICK at \in {"start", "cleanup", "ended"}, outcome \in {"none", "changed", "revoked"} :
        /\ Waits(t, "revoke", o, at, outcome)
        /\ at = "start" => surface.owner = o /\ opening # "no"
        /\ at = "ended" => outcome = "changed"
  <2>1. surface.kind = "starting" => opening # "no"
        BY <1>1 DEF SurfaceOwnsItsSession
  <2> QED BY <2>1 DEF RevokeProceeds, Ends, Owns
<1>4. /\ task' \in [Tasks -> Task] /\ \A u \in Tasks \ {t} : task'[u] = task[u]
      /\ task'[t].op = "revoke" /\ task'[t].owner = o /\ task'[t].at = at
      /\ task'[t].outcome = outcome
      /\ task'[t].targets = IF task[t].at = "unused" THEN Open ELSE task[t].targets
      BY <1>1, <1>3, WaitsFacts DEF Points, Outcomes
<1>5. \A s \in task'[t].targets : session'[s].state # "unused"
      BY <1>1, <1>2, <1>4 DEF TaskInv, ReachesTargets, Open
<1>6. (WaitsForOwn(task[t]) /\ GrantedOwn(task[t]) /\ ReachesTargets(task[t]))'
      BY <1>2, <1>3, <1>4, <1>5 DEF WaitsForOwn, GrantedOwn, ReachesTargets
<1>7. TaskInv'
      BY <1>2, <1>4, <1>6, OneTaskMoves
<1> QED BY <1>1, <1>2, <1>4, <1>7 DEF SurfaceInv, SurfaceTypeOK

\* A call runs on after the promise it waited for.
LEMMA ContinuesInv ==
    ASSUME SurfaceInv, NEW t \in Tasks, RevokeContinues(t) \/ TaskEnds(t)
    PROVE  SurfaceInv'
<1>1. SurfaceTypeOK /\ SurfaceOwnsItsSession /\ TaskInv
      BY DEF SurfaceInv
<1>2. task[t] \in Task /\ GrantedOwn(task[t]) /\ ReachesTargets(task[t])
      BY <1>1 DEF TaskInv, SurfaceTypeOK
<1>3. task[t].owner \in Owners \union {NoOwner}
      BY <1>2 DEF Task
<1>4. CASE /\ task[t].op = "revoke" /\ task[t].at = "failed" /\ surface.kind = "idle"
           /\ Ends(t, "revoke", task[t].owner, "revoked")
           /\ UNCHANGED <<surface, opening, expired, session>>
  <2>1. /\ task' \in [Tasks -> Task] /\ \A u \in Tasks \ {t} : task'[u] = task[u]
        /\ task'[t].op = "revoke" /\ task'[t].at = "ended"
        /\ task'[t].targets = task[t].targets
        BY <1>1, <1>3, <1>4, WaitsFacts DEF Ends, Points, Outcomes
  <2>2. Open = {} /\ Open' = {}
        BY <1>1, <1>4 DEF SurfaceOwnsItsSession, Open
  <2>3. (WaitsForOwn(task[t]) /\ GrantedOwn(task[t]) /\ ReachesTargets(task[t]))'
        BY <1>2, <1>4, <2>1, <2>2 DEF WaitsForOwn, GrantedOwn, ReachesTargets
  <2>4. TaskInv'
        BY <1>4, <2>1, <2>3, OneTaskMoves
  <2> QED BY <1>1, <1>4, <2>1, <2>4
          DEF SurfaceInv, SurfaceTypeOK, SurfaceOwnsItsSession, Open
<1>5. CASE task[t].op = "revoke" /\ RevokeProceeds(t, task[t].owner)
      BY <1>3, <1>5, RevokeInv
<1>6. CASE TaskEnds(t)
  <2> DEFINE outcome == IF task[t].at = "failed" THEN "failed"
                        ELSE IF task[t].at = "uncleaned" /\ task[t].op = "revoke"
                             THEN "revoke_failed" ELSE task[t].outcome
  <2>1. /\ task' = [task EXCEPT ![t].at = "ended", ![t].outcome = outcome]
        /\ \/ task[t].at \in {"cleaned", "uncleaned"}
           \/ task[t].at \in {"started", "failed"} /\ task[t].op = "begin"
        /\ UNCHANGED <<surface, opening, expired, session>>
        BY <1>1, <1>6 DEF TaskEnds, SurfaceTypeOK
  <2>2. outcome \in Outcomes
        BY <1>2 DEF Task, Outcomes
  <2> HIDE DEF outcome
  <2>3. /\ task' \in [Tasks -> Task] /\ \A u \in Tasks \ {t} : task'[u] = task[u]
        /\ task'[t].op = task[t].op /\ task'[t].owner = task[t].owner
        /\ task'[t].at = "ended" /\ task'[t].outcome = outcome
        /\ task'[t].session = task[t].session /\ task'[t].targets = task[t].targets
        BY <1>1, <2>1, <2>2 DEF SurfaceTypeOK, Task, Points
  <2>4. outcome = "granted" => task[t].at # "failed" /\ task[t].outcome = "granted"
        BY DEF outcome
  <2>5. outcome = "revoked" /\ task[t].op = "revoke" =>
            task[t].at # "uncleaned" /\ task[t].outcome = "revoked"
        BY DEF outcome
  <2>6. Open' = Open
        BY <2>1 DEF Open
  <2>7. (WaitsForOwn(task[t]) /\ GrantedOwn(task[t]) /\ ReachesTargets(task[t]))'
        BY <1>2, <2>1, <2>3, <2>4, <2>5, <2>6 DEF WaitsForOwn, GrantedOwn, ReachesTargets
  <2>8. TaskInv'
        BY <2>1, <2>3, <2>7, OneTaskMoves
  <2> QED BY <1>1, <2>1, <2>3, <2>6, <2>8 DEF SurfaceInv, SurfaceTypeOK, SurfaceOwnsItsSession
<1> QED BY <1>4, <1>5, <1>6 DEF RevokeContinues

\* The expiry of a surface keeps the invariant of the sessions.
LEMMA ExpiresInv == SurfaceInv /\ Expires => SurfaceInv'
  BY DEF Expires, SurfaceInv, SurfaceTypeOK, SurfaceOwnsItsSession, TaskInv, WaitsForOwn,
         GrantedOwn, ReachesTargets, Open

\* No call, no provider and no clock can see the surface rest unchanged.
LEMMA StutterInv == SurfaceInv /\ UNCHANGED surfaceVars => SurfaceInv'
  BY DEF surfaceVars, SurfaceInv, SurfaceTypeOK, SurfaceOwnsItsSession, TaskInv, WaitsForOwn,
         GrantedOwn, ReachesTargets, Open

\* No surface and no session in the initial state.
LEMMA SurfaceInitInv == SurfaceInit => SurfaceInv
<1> SUFFICES ASSUME SurfaceInit PROVE SurfaceInv
    OBVIOUS
<1>1. surface \in Surface /\ session \in [Sessions -> Session] /\ task \in [Tasks -> Task]
      BY DEF SurfaceInit, Idle, NoSession, NoTask, Surface, Session, Task, Reasons, Points,
             Outcomes
<1>2. Open = {}
      BY DEF SurfaceInit, NoSession, Open
<1>3. surface.kind = "idle" /\ surface = Idle /\ opening = "no" /\ expired = FALSE
      BY DEF SurfaceInit, Idle
<1>4. TaskInv
      BY DEF SurfaceInit, NoTask, TaskInv, WaitsForOwn, GrantedOwn, ReachesTargets
<1> QED BY <1>1, <1>2, <1>3, <1>4 DEF SurfaceInv, SurfaceTypeOK, SurfaceOwnsItsSession
--------------------------------------------------------------------------------
\* The composition adds the surface to the lifecycle and nothing to its calls.
LEMMA LifecycleStep == [SafeNext]_safeVars => [Next]_vars
<1> SUFFICES ASSUME [SafeNext]_safeVars PROVE [Next]_vars
    OBVIOUS
<1>1. CASE UNCHANGED safeVars
      BY <1>1 DEF safeVars, vars
<1>2. CASE (\E t \in Tasks : BeginSurface(t) \/ RevokeSurface(t)) /\ Record
      BY <1>2 DEF BeginSurface, RevokeSurface, Next, Lookup
<1>3. CASE (\E id \in 1..issued : EndHumanPeriod(id) \/ LifecycleMoves(id)) /\ Record
      BY <1>3 DEF EndHumanPeriod, LifecycleMoves, Next, Call
<1>4. CASE NewEpoch /\ Record
      BY <1>4 DEF NewEpoch, Next
<1>5. CASE SurfaceMoves /\ Record
      BY <1>5 DEF SurfaceMoves, Next, Lookup
<1> QED BY <1>1, <1>2, <1>3, <1>4, <1>5 DEF SafeNext

\* Every step of the composition keeps the part of the surface.
LEMMA SurfaceStep == SurfaceInv /\ [SafeNext]_safeVars => SurfaceInv'
<1> SUFFICES ASSUME SurfaceInv, [SafeNext]_safeVars PROVE SurfaceInv'
    OBVIOUS
<1>1. CASE UNCHANGED surfaceVars
      BY <1>1, StutterInv
<1>2. ASSUME NEW t \in Tasks, BeginSurface(t)  PROVE SurfaceInv'
      BY <1>2, BeginInv DEF BeginSurface, Binding
<1>3. ASSUME NEW t \in Tasks, RevokeSurface(t)  PROVE SurfaceInv'
  <2>1. PICK o \in Owners : RevokeCalled(t, o)
        BY <1>3 DEF RevokeSurface
  <2>2. RevokeProceeds(t, o) /\ task[t].at = "unused" /\ o \in Owners \union {NoOwner}
        BY <2>1 DEF RevokeCalled, NewTask
  <2> QED BY <2>2, RevokeInv
<1>4. CASE SurfaceMoves
      BY <1>4, StartInv, CleanupInv, ContinuesInv, ExpiresInv DEF SurfaceMoves, Settles
<1>5. CASE UNCHANGED safeVars
      BY <1>5, StutterInv DEF safeVars
<1> QED BY <1>1, <1>2, <1>3, <1>4, <1>5
        DEF SafeNext, EndHumanPeriod, LifecycleMoves, NewEpoch

\* The surface comes to be in a Human period only, and assertInactive() keeps a
\* Human period from ending while it is there.
LEMMA PeriodStep ==
    ASSUME SurfaceInv, SurfaceInHumanPeriod, [SafeNext]_safeVars
    PROVE  SurfaceInHumanPeriod'
<1>1. ASSUME UNCHANGED lifecycleVars, surface'.kind # "idle" => surface.kind # "idle"
      PROVE  SurfaceInHumanPeriod'
      BY <1>1 DEF SurfaceInHumanPeriod, lifecycleVars, Authority, Suspended
<1>2. ASSUME NEW t \in Tasks, BeginSurface(t)  PROVE SurfaceInHumanPeriod'
      BY <1>2 DEF BeginSurface, SurfaceInHumanPeriod, lifecycleVars, Authority, Suspended
<1>3. ASSUME NEW t \in Tasks, RevokeSurface(t)  PROVE SurfaceInHumanPeriod'
  <2>1. PICK o \in Owners : RevokeProceeds(t, o)
        BY <1>3 DEF RevokeSurface, RevokeCalled
  <2>2. surface'.kind # "idle" => surface.kind # "idle"
        BY <2>1 DEF RevokeProceeds
  <2> QED BY <1>1, <1>3, <2>2 DEF RevokeSurface
<1>4. ASSUME SurfaceMoves  PROVE SurfaceInHumanPeriod'
  <2>1. surface'.kind # "idle" => surface.kind # "idle"
    <3>1. CASE ProviderGrants \/ ProviderRejects \/ CleanupConfirmed \/ CleanupFails
               \/ \E reason \in GrantDefects : ProviderGrantsUnusable(reason)
          BY <3>1 DEF ProviderGrants, ProviderRejects, CleanupConfirmed, CleanupFails,
                      ProviderGrantsUnusable, SurfaceInv, SurfaceOwnsItsSession
    <3>2. CASE Expires \/ \E t \in Tasks : RevokeContinues(t) \/ TaskEnds(t)
          BY <3>2 DEF Expires, RevokeContinues, RevokeProceeds, TaskEnds
    <3> QED BY <1>4, <3>1, <3>2 DEF SurfaceMoves, Settles
  <2> QED BY <1>1, <1>4, <2>1 DEF SurfaceMoves
<1>5. ASSUME NEW id \in 1..issued, EndHumanPeriod(id)  PROVE SurfaceInHumanPeriod'
      BY <1>5 DEF EndHumanPeriod, Inactive, SurfaceInHumanPeriod, surfaceVars
<1>6. ASSUME NEW id \in 1..issued, LifecycleMoves(id)  PROVE SurfaceInHumanPeriod'
  <2>1. CASE Authority = "human"
        BY <1>6, <2>1 DEF LifecycleMoves, ClaimHuman, ReturnToHuman, MarkVerified, ResumeAgent,
                          Authority, Suspended, IsActive
  <2>2. CASE Authority # "human"
    <3>1. surface'.kind = "idle"
          BY <1>6, <2>2 DEF LifecycleMoves, SurfaceInHumanPeriod, surfaceVars
    <3> QED BY <3>1 DEF SurfaceInHumanPeriod
  <2> QED BY <2>1, <2>2
<1>7. ASSUME NewEpoch  PROVE SurfaceInHumanPeriod'
      BY <1>7 DEF NewEpoch, Begin, AdvanceResourceEpoch, SurfaceInHumanPeriod, surfaceVars,
                  Authority, Suspended
<1>8. CASE UNCHANGED safeVars
      BY <1>1, <1>8 DEF safeVars, vars, surfaceVars, lifecycleVars
<1> QED BY <1>2, <1>3, <1>4, <1>5, <1>6, <1>7, <1>8 DEF SafeNext

\* The inductive invariant holds in every reachable state of the composition.
THEOREM SafeInvariance == SafeSpec => []SafeInv
<1>1. SafeInit => SafeInv
  <2> SUFFICES ASSUME SafeInit PROVE SafeInv
      OBVIOUS
  <2>1. surface.kind = "idle"
        BY DEF SafeInit, SurfaceInit, Idle
  <2> QED BY <2>1, InitInv, SurfaceInitInv DEF SafeInit, SafeInv, SurfaceInHumanPeriod
<1>2. SafeInv /\ [SafeNext]_safeVars => SafeInv'
      BY LifecycleStep, NextInv, SurfaceStep, PeriodStep DEF SafeInv
<1> QED BY <1>1, <1>2, PTL DEF SafeSpec

\* What the lifecycle promises by itself it promises with the surface beside it:
\* no call of begin() or revoke() reaches into ExecutionHandoffState.
THEOREM SurfaceLeavesLifecycle == SafeSpec => Spec
<1>1. SafeInit => Init
      BY DEF SafeInit
<1> QED BY <1>1, LifecycleStep, PTL DEF SafeSpec, Spec

\* The composition implements the exclusive, generation-fenced authority.
THEOREM SafeRefinement == SafeSpec => ImplementsExecutionAuthority
  BY SurfaceLeavesLifecycle, Refinement

\* getResourceEpoch() stays fresh under the composition.
THEOREM SafeEpochFreshness == SafeSpec => []EpochFencesHumanPeriods
  BY SurfaceLeavesLifecycle, EpochFreshness

\* While the Agent drives the resource or the consumer verifies, no external
\* session is open or being opened: assertInactive() is enough, whatever the
\* provider answers and however late.
THEOREM AgentIsExclusive == SafeSpec => []AgentExcludesExternalSession
<1>1. SafeInv => AgentExcludesExternalSession
      BY DEF SafeInv, SurfaceInv, SurfaceOwnsItsSession, SurfaceInHumanPeriod,
             AgentExcludesExternalSession
<1> QED BY <1>1, SafeInvariance, PTL

\* The session a begin() returns was opened for the very intervention, epoch and
\* principal of the call, single flight or not.
THEOREM GrantOwnership == SafeSpec => []GrantsAreOwned
<1>1. SafeInv => GrantsAreOwned
      BY DEF SafeInv, SurfaceInv, TaskInv, GrantedOwn, GrantsAreOwned
<1> QED BY <1>1, SafeInvariance, PTL

\* A revoke() that returns without an error has ended all it was called to end.
THEOREM RevokeCompleteness == SafeSpec => []RevokeReachesEverySession
<1>1. SafeInv => RevokeReachesEverySession
      BY DEF SafeInv, SurfaceInv, TaskInv, ReachesTargets, RevokeReachesEverySession
<1> QED BY <1>1, SafeInvariance, PTL

--------------------------------------------------------------------------------
(* The checkpoint store over the lifecycle.                                *)

WriteSteps == {"writing", "written", "synced", "renaming"}
Answers == {"unasked", "none", "verified", "invalid", "expired", "recovered"}

StoreTypeOK ==
    /\ epoch \in 0..MaxEpoch /\ issued \in 0..MaxIssued
    /\ active \in Intervention \union {NoIntervention}
    /\ Suspended => active.id \in 1..issued /\ active.epoch \in 0..epoch
    /\ op \in WriteSteps \union {"idle", "clearing", "unlinked"}
    /\ recovered \in Answers
    /\ refused \subseteq 1..issued

\* While write() runs, what it writes is the intervention as it is.
DraftIsActive == op \in WriteSteps => Suspended /\ draft = CheckpointOf(active)

\* The file, and what a power loss may make of it, is a whole checkpoint or nothing.
WholeFiles ==
    /\ visible \in Checkpoint \union {NoFile}
    /\ mayRecover \subseteq Checkpoint \union {NoFile}

StoreInv ==
    /\ StoreTypeOK /\ DraftIsActive /\ WholeFiles
    /\ FailedCheckpointFencesHuman /\ ReportedCheckpointSurvives /\ NoTornCheckpoint
--------------------------------------------------------------------------------
\* No file, and a call of the store that has not returned, are not checkpoints.
LEMMA NotCheckpoints == NoFile \notin Checkpoint /\ Unreported \notin Checkpoint
  BY DEF NoFile, Unreported, Checkpoint, InterventionStatus

\* No checkpoint is written, reported or refused in the initial state.
LEMMA StoreInitInv == StoreInit => StoreInv
  BY BoundsAssumption, NotCheckpoints
  DEF StoreInit, LifecycleInit, StoreInv, StoreTypeOK, DraftIsActive, WholeFiles, Suspended,
      FailedCheckpointFencesHuman, ReportedCheckpointSurvives, NoTornCheckpoint,
      WriteSteps, Answers

\* A call of the lifecycle keeps its variables in range and hands out fresh ids.
LEMMA LifecycleTypes ==
    ASSUME StoreTypeOK, ConsumerStep
    PROVE  /\ epoch' \in 0..MaxEpoch /\ issued' \in 0..MaxIssued /\ issued <= issued'
           /\ active' \in Intervention \union {NoIntervention}
           /\ Suspended' => active'.id \in 1..issued' /\ active'.epoch \in 0..epoch'
           /\ Suspended' => (Suspended /\ active'.id = active.id) \/ active'.id = issued + 1
<1> USE BoundsAssumption DEF StoreTypeOK, Suspended
<1>1. CASE AdvanceResourceEpoch
      BY <1>1 DEF AdvanceResourceEpoch, Intervention, InterventionStatus, NoIntervention
<1>2. CASE Begin
  <2>1. /\ active' = [id |-> issued + 1, status |-> "awaiting_human", authority |-> "none",
                      epoch |-> epoch + 1]
        /\ epoch' = epoch + 1 /\ issued' = issued + 1 /\ epoch < MaxEpoch /\ issued < MaxIssued
        BY <1>2 DEF Begin
  <2> QED BY <2>1 DEF Intervention, InterventionStatus
<1>3. ASSUME NEW id \in 1..issued,
             ClaimHuman(id) \/ ReturnToHuman(id) \/ MarkVerified(id) \/ MarkHumanComplete(id)
      PROVE  /\ epoch' \in epoch..MaxEpoch /\ issued' = issued
             /\ Suspended /\ active' \in Intervention /\ active'.id = active.id
             /\ active'.epoch \in 0..epoch'
  <2>1. active \in Intervention /\ active # NoIntervention
        BY <1>3 DEF ClaimHuman, ReturnToHuman, MarkVerified, MarkHumanComplete, IsActive
  <2>2. CASE ClaimHuman(id) \/ ReturnToHuman(id) \/ MarkVerified(id)
    <3>1. /\ active' \in Intervention
          /\ active'.id = active.id /\ active'.epoch = active.epoch
          /\ UNCHANGED <<epoch, issued>>
          BY <2>1, <2>2 DEF ClaimHuman, ReturnToHuman, MarkVerified, Intervention,
                            InterventionStatus
    <3> QED BY <2>1, <3>1
  <2>3. CASE MarkHumanComplete(id)
    <3>1. /\ epoch < MaxEpoch /\ epoch' = epoch + 1 /\ issued' = issued
          /\ active' = [active EXCEPT !.status = "verifying", !.authority = "none",
                                      !.epoch = epoch + 1]
          BY <2>3 DEF MarkHumanComplete
    <3>2. active' = [id |-> active.id, status |-> "verifying", authority |-> "none",
                     epoch |-> epoch + 1]
          BY <2>1, <3>1 DEF Intervention
    <3>3. /\ active' \in Intervention /\ active'.id = active.id
          /\ active'.epoch = epoch + 1
          BY <2>1, <3>1, <3>2 DEF Intervention, InterventionStatus
    <3> QED BY <2>1, <3>1, <3>3
  <2> QED BY <1>3, <2>2, <2>3
<1>4. ASSUME NEW id \in 1..issued, ResumeAgent(id) \/ Cancel(id)
      PROVE  epoch' \in epoch..MaxEpoch /\ issued' = issued /\ active' = NoIntervention
      BY <1>4 DEF ResumeAgent, Cancel
<1> QED BY <1>1, <1>2, <1>3, <1>4 DEF ConsumerStep

\* The consumer's calls run between two calls of the store.
LEMMA ConsumerInv == StoreInv /\ ConsumerStep => StoreInv'
<1> SUFFICES ASSUME StoreInv, ConsumerStep PROVE StoreInv'
    OBVIOUS
<1>1. StoreTypeOK /\ WholeFiles /\ FailedCheckpointFencesHuman
      BY DEF StoreInv
<1>2. op = "idle" /\ UNCHANGED storeVars
      BY DEF ConsumerStep, StoreIdle
<1>3. StoreTypeOK'
      BY <1>1, <1>2, LifecycleTypes DEF StoreTypeOK, storeVars, fileVars
<1>4. FailedCheckpointFencesHuman'
      BY <1>1, <1>2, LifecycleTypes
      DEF FailedCheckpointFencesHuman, StoreTypeOK, storeVars, fileVars
<1> QED BY <1>2, <1>3, <1>4
        DEF StoreInv, DraftIsActive, WholeFiles, ReportedCheckpointSurvives, NoTornCheckpoint,
            storeVars, fileVars, WriteSteps

\* The file operations of write(), in their order, and a failure at any of them.
LEMMA WriteInv ==
    ASSUME StoreInv,
           CheckpointCalled \/ TempWritten \/ TempSynced \/ Renamed \/ WriteReturns \/ WriteFails
    PROVE  StoreInv'
<1> USE DEF StoreInv, StoreTypeOK, DraftIsActive, WholeFiles, FailedCheckpointFencesHuman,
            ReportedCheckpointSurvives, NoTornCheckpoint, WriteSteps, lifecycleVars, Suspended
<1>1. op \in WriteSteps => draft \in Checkpoint /\ draft.id = active.id
      BY BoundsAssumption, NotCheckpoints DEF CheckpointOf, Checkpoint, Intervention
<1>2. CASE CheckpointCalled
      BY <1>2 DEF CheckpointCalled, StoreIdle
<1>3. CASE TempWritten \/ TempSynced
      BY <1>3 DEF TempWritten, TempSynced
<1>4. CASE Renamed
      BY <1>1, <1>4, NotCheckpoints DEF Renamed
<1>5. CASE WriteReturns
      BY <1>5 DEF WriteReturns, FlushDirectory
<1>6. CASE WriteFails
  <2>1. /\ active' = NoIntervention /\ epoch' = epoch + 1 /\ epoch < MaxEpoch
        /\ issued' = issued /\ op' = "idle" /\ refused' = refused \union {draft.id}
        /\ UNCHANGED <<draft, visible, mayRecover, reported, recovered>>
        BY <1>6 DEF WriteFails, Cancel
  <2>2. draft.id \in 1..issued
        BY <1>1, <1>6 DEF WriteFails
  <2>3. StoreTypeOK'
    <3>1. epoch' \in 0..MaxEpoch
          BY <2>1, BoundsAssumption
    <3>2. issued' \in 0..MaxIssued /\ refused' \subseteq 1..issued'
          BY <2>1, <2>2
    <3>3. /\ active' \in Intervention \union {NoIntervention} /\ ~Suspended'
          /\ op' \in WriteSteps \union {"idle", "clearing", "unlinked"} /\ recovered' \in Answers
          BY <2>1
    <3> QED BY <3>1, <3>2, <3>3
  <2>4. op' \notin WriteSteps /\ ~Suspended' /\ WholeFiles'
        BY <2>1
  <2>5. ReportedCheckpointSurvives' /\ NoTornCheckpoint'
        BY <2>1
  <2> QED BY <2>3, <2>4, <2>5
<1> QED BY <1>2, <1>3, <1>4, <1>5, <1>6

\* The file operations of clear().
LEMMA ClearInv ==
    ASSUME StoreInv, ClearCalled \/ Unlinked \/ ClearReturns \/ ClearFails
    PROVE  StoreInv'
<1> USE DEF StoreInv, StoreTypeOK, DraftIsActive, WholeFiles, FailedCheckpointFencesHuman,
            ReportedCheckpointSurvives, NoTornCheckpoint, WriteSteps, lifecycleVars, Suspended
<1>1. CASE ClearCalled \/ ClearFails
      BY <1>1 DEF ClearCalled, ClearFails, StoreIdle
<1>2. CASE Unlinked
      BY <1>2, NotCheckpoints DEF Unlinked
<1>3. CASE ClearReturns
      BY <1>3, NotCheckpoints DEF ClearReturns, FlushDirectory
<1> QED BY <1>1, <1>2, <1>3

\* A process ends, with or without the power, and another one reads the file.
LEMMA RestartInv ==
    ASSUME StoreInv, ProcessCrash \/ PowerLoss \/ Recover
    PROVE  StoreInv'
<1> USE DEF StoreInv, StoreTypeOK, DraftIsActive, WholeFiles, FailedCheckpointFencesHuman,
            ReportedCheckpointSurvives, NoTornCheckpoint, WriteSteps, Answers, Suspended
<1>1. CASE ProcessCrash
      BY <1>1, BoundsAssumption DEF ProcessCrash, Restart
<1>2. CASE PowerLoss
      BY <1>2, BoundsAssumption DEF PowerLoss, Restart
<1>3. CASE Recover
  <2>1. Verified(visible) \in {"none", "verified"}
        BY DEF Verified, WellFormed
  <2>2. recovered' \in Answers /\ recovered' # "invalid"
        BY <1>3, <2>1 DEF Recover, Reads, Recoverable
  <2> QED BY <1>3, <2>2 DEF Recover, lifecycleVars, fileVars
<1> QED BY <1>1, <1>2, <1>3

\* The inductive invariant holds in every reachable state.
THEOREM StoreInvariance == StoreSpec => []StoreInv
<1>1. StoreInv /\ [StoreNext]_checkpointedVars => StoreInv'
  <2> SUFFICES ASSUME StoreInv, [StoreNext]_checkpointedVars PROVE StoreInv'
      OBVIOUS
  <2>1. CASE UNCHANGED checkpointedVars
        BY <2>1 DEF checkpointedVars, lifecycleVars, storeVars, fileVars, StoreInv, StoreTypeOK,
           DraftIsActive, WholeFiles, FailedCheckpointFencesHuman, ReportedCheckpointSurvives,
           NoTornCheckpoint, Suspended
  <2> QED BY <2>1, ConsumerInv, WriteInv, ClearInv, RestartInv DEF StoreNext
<1> QED BY <1>1, StoreInitInv, PTL DEF StoreSpec

\* An intervention whose checkpoint() failed, at whichever file operation, is
\* never again in the Human's hands.
THEOREM FailureFences == StoreSpec => []FailedCheckpointFencesHuman
<1>1. StoreInv => FailedCheckpointFencesHuman  BY DEF StoreInv
<1> QED BY <1>1, StoreInvariance, PTL

\* A checkpoint() that returned outlives the power, where directories can be flushed.
THEOREM Durability == StoreSpec => []ReportedCheckpointSurvives
<1>1. StoreInv => ReportedCheckpointSurvives  BY DEF StoreInv
<1> QED BY <1>1, StoreInvariance, PTL

\* recover() never meets a file that write() left half done.
THEOREM Atomicity == StoreSpec => []NoTornCheckpoint
<1>1. StoreInv => NoTornCheckpoint  BY DEF StoreInv
<1> QED BY <1>1, StoreInvariance, PTL
================================================================================
