------------------------------ MODULE HumanSurface -----------------------------
(***************************************************************************)
(* CredentialSafeHumanSurfaceRuntime (src/src/core/human-surface.ts): one  *)
(* external operator session at a time, obtained from a provider that is   *)
(* asked asynchronously to open and to revoke sessions.                    *)
(*                                                                         *)
(* begin() and revoke() are async methods: a task is one call of either,   *)
(* and waits for a promise that other tasks may wait for too.  An owner    *)
(* stands for intervention id, epoch and principal binding, which the code *)
(* only ever compares together.  A provider session is named when it is    *)
(* asked for.  Whether a surface has reached its expiry is a fact that may *)
(* become true at any time.                                                *)
(***************************************************************************)
EXTENDS Integers

CONSTANTS
    Owners,       \* the (intervention, epoch, principal) bindings
    MaxTasks,     \* bound on the calls of begin() and revoke()
    MaxSessions,  \* bound on the sessions asked of the provider
    NoOwner

ASSUME SurfaceAssumption ==
    MaxTasks \in Nat /\ MaxSessions \in Nat /\ NoOwner \notin Owners

VARIABLES
    surface,  \* this.state; revoking: cleanup.revokePromise is there
    opening,  \* startProviderSurface: "no", at the "provider" or in its "cleanup"
    expired,  \* expiresAt of the active surface has passed
    session,  \* what the provider knows of each session
    task      \* the calls

surfaceVars == <<surface, opening, expired, session, task>>

Tasks == 1..MaxTasks
Sessions == 1..MaxSessions

Idle == [kind |-> "idle", owner |-> NoOwner, session |-> 0, reason |-> "none",
         revoking |-> FALSE]
NoTask == [op |-> "none", owner |-> NoOwner, at |-> "unused", outcome |-> "none",
           session |-> 0, targets |-> {}]
NoSession == [state |-> "unused", owner |-> NoOwner]

SurfaceInit ==
    /\ surface = Idle
    /\ opening = "no"
    /\ expired = FALSE
    /\ session = [s \in Sessions |-> NoSession]
    /\ task = [t \in Tasks |-> NoTask]

Open == {s \in Sessions : session[s].state \in {"requested", "live"}}
Live == {s \in Sessions : session[s].state = "live"}

\* matches(), matchesRequest(): the surface is this owner's.
Owns(o) == surface.owner = o

\* What normalizeGrant() finds wrong with a grant of the provider.
GrantDefects == {"expired", "invalid_grant"}

\* makeCleanup(), with its revocation under way: the surface keeps its owner and
\* its session.
Cleanup(reason) == [surface EXCEPT !.kind = "cleanup", !.reason = reason, !.revoking = TRUE]

\* assertInactive() does not throw.
Inactive == surface.kind = "idle"
--------------------------------------------------------------------------------
NewTask(t) == task[t].at = "unused" /\ \A u \in 1..(t - 1) : task[u].at # "unused"

\* A task waits (at) for a promise, knowing what it will answer afterwards.
Waits(t, op, o, at, outcome) ==
    task' = [task EXCEPT ![t] = [op |-> op, owner |-> o, at |-> at, outcome |-> outcome,
                                 session |-> 0,
                                 targets |-> IF op = "revoke" /\ @.at = "unused"
                                             THEN Open ELSE @.targets]]

Ends(t, op, o, outcome) == Waits(t, op, o, "ended", outcome)

\* Variant: a begin() joins whatever start is in flight.
BeginJoinsAny(t, o) ==
    /\ NewTask(t)
    /\ surface.kind = "starting"
    /\ Waits(t, "begin", o, "start", "granted")
    /\ UNCHANGED <<surface, opening, expired, session>>

\* begin() while the same owner's surface is starting: single flight.
BeginJoins(t, o) ==
    /\ NewTask(t)
    /\ surface.kind = "starting" /\ Owns(o)
    /\ Waits(t, "begin", o, "start", "granted")
    /\ UNCHANGED <<surface, opening, expired, session>>

\* begin() while another owner's surface is starting or active.
BeginRefused(t, o) ==
    /\ NewTask(t)
    /\ ~Owns(o)
    /\ surface.kind = "starting" \/ (surface.kind = "active" /\ ~expired)
    /\ Ends(t, "begin", o, "busy")
    /\ UNCHANGED <<surface, opening, expired, session>>

\* begin() of the owner of the active surface: the cached grant.
BeginReturnsCached(t, o) ==
    /\ NewTask(t)
    /\ surface.kind = "active" /\ ~expired /\ Owns(o)
    /\ task' = [task EXCEPT ![t] = [op |-> "begin", owner |-> o, at |-> "ended",
                                    outcome |-> "granted", session |-> surface.session,
                                    targets |-> {}]]
    /\ UNCHANGED <<surface, opening, expired, session>>

\* begin() that finds a surface to clean up, an expired one included: it cleans
\* up (joining a revocation under way) and then throws, never opening another.
BeginCleansUp(t, o) ==
    /\ NewTask(t)
    /\ surface.kind = "cleanup" \/ (surface.kind = "active" /\ expired)
    /\ LET reason == IF surface.kind = "active" THEN "expired" ELSE surface.reason IN
        /\ surface' = Cleanup(reason)
        /\ Waits(t, "begin", o, "cleanup",
                 IF Owns(o) /\ reason = "expired" THEN "expired" ELSE "changed")
    /\ UNCHANGED <<opening, expired, session>>

\* begin() with nothing there: the provider is asked for a session.
BeginStarts(t, o, s) ==
    /\ NewTask(t)
    /\ surface.kind = "idle"
    /\ session[s].state = "unused" /\ \A r \in 1..(s - 1) : session[r].state # "unused"
    /\ surface' = [Idle EXCEPT !.kind = "starting", !.owner = o, !.session = s]
    /\ opening' = "provider"
    /\ session' = [session EXCEPT ![s] = [state |-> "requested", owner |-> o]]
    /\ Waits(t, "begin", o, "start", "granted")
    /\ UNCHANGED expired
--------------------------------------------------------------------------------
\* The promise of the start settles for every task that waits for it.
StartSettles(result, s) ==
    /\ opening' = "no"
    /\ task' = [t \in Tasks |->
                  IF task[t].at = "start"
                  THEN [task[t] EXCEPT !.at = result, !.session = s] ELSE task[t]]

\* provider.begin() gave a valid grant: the surface is active.
ProviderGrants ==
    /\ opening = "provider"
    /\ session' = [session EXCEPT ![surface.session].state = "live"]
    /\ surface' = [surface EXCEPT !.kind = "active"]
    /\ expired' = FALSE
    /\ StartSettles("started", surface.session)

\* provider.begin() gave an invalid or already expired grant, which is revoked
\* before the start rejects.
ProviderGrantsUnusable(reason) ==
    /\ opening = "provider"
    /\ session' = [session EXCEPT ![surface.session].state = "live"]
    /\ surface' = Cleanup(reason)
    /\ opening' = "cleanup"
    /\ UNCHANGED <<expired, task>>

\* provider.begin() rejected: there is no session.
ProviderRejects ==
    /\ opening = "provider"
    /\ session' = [session EXCEPT ![surface.session].state = "gone"]
    /\ surface' = Idle
    /\ StartSettles("failed", 0)
    /\ UNCHANGED expired

\* The promise of the revocation settles for every task that waits for it, and
\* for the start that began it.
CleanupSettles(result) ==
    /\ opening' = "no"
    /\ task' = [t \in Tasks |->
                  IF task[t].at = "cleanup" THEN [task[t] EXCEPT !.at = result]
                  ELSE IF task[t].at = "start" /\ opening = "cleanup"
                       THEN [task[t] EXCEPT !.at = "failed"] ELSE task[t]]

\* provider.revoke() resolved.
CleanupConfirmed ==
    /\ surface.kind = "cleanup" /\ surface.revoking
    /\ session' = [session EXCEPT ![surface.session].state = "gone"]
    /\ surface' = Idle
    /\ expired' = FALSE
    /\ CleanupSettles("cleaned")

\* provider.revoke() rejected: the cleanup stays required, to be tried again.
CleanupFails ==
    /\ surface.kind = "cleanup" /\ surface.revoking
    /\ surface' = [surface EXCEPT !.revoking = FALSE]
    /\ CleanupSettles("uncleaned")
    /\ UNCHANGED <<expired, session>>

\* The expiry of the active surface passes.
Expires ==
    /\ surface.kind = "active" /\ ~expired
    /\ expired' = TRUE
    /\ UNCHANGED <<surface, opening, session, task>>
--------------------------------------------------------------------------------
\* Variant: a revoke() during a start reports success without waiting for it.
RevokeSkipsStart(t, o) ==
    /\ \/ surface.kind = "starting" /\ Owns(o)
          /\ Ends(t, "revoke", o, "revoked") /\ UNCHANGED surface
       \/ surface.kind \in {"active", "cleanup"} /\ Owns(o)
          /\ surface' = [surface EXCEPT !.kind = "cleanup", !.revoking = TRUE]
          /\ Waits(t, "revoke", o, "cleanup", "revoked")
       \/ ~Owns(o)
          /\ Ends(t, "revoke", o, "changed") /\ UNCHANGED surface
    /\ UNCHANGED <<opening, expired, session>>

\* The body of revoke(), entered by the caller or again after a start it awaited.
RevokeProceeds(t, o) ==
    /\ \/ surface.kind = "starting" /\ Owns(o)
          /\ Waits(t, "revoke", o, "start", "none") /\ UNCHANGED surface
       \/ surface.kind = "active" /\ Owns(o)
          /\ surface' = Cleanup(IF expired THEN "expired" ELSE "revocation")
          /\ Waits(t, "revoke", o, "cleanup", "revoked")
       \/ surface.kind = "cleanup" /\ Owns(o)
          /\ surface' = [surface EXCEPT !.revoking = TRUE]
          /\ Waits(t, "revoke", o, "cleanup", "revoked")
       \/ ~Owns(o)
          /\ Ends(t, "revoke", o, "changed") /\ UNCHANGED surface
    /\ UNCHANGED <<opening, expired, session>>

RevokeCalled(t, o) == NewTask(t) /\ RevokeProceeds(t, o)

\* revoke() after the start it waited for: a start that failed and left nothing
\* is what was asked for.
RevokeContinues(t) ==
    /\ task[t].op = "revoke" /\ task[t].at \in {"started", "failed"}
    /\ IF task[t].at = "failed" /\ surface.kind = "idle"
       THEN /\ Ends(t, "revoke", task[t].owner, "revoked")
            /\ UNCHANGED <<surface, opening, expired, session>>
       ELSE RevokeProceeds(t, task[t].owner)

\* A task returns or throws what the promise it waited for made of it.
TaskEnds(t) ==
    /\ \/ task[t].at \in {"cleaned", "uncleaned"}
       \/ task[t].at \in {"started", "failed"} /\ task[t].op = "begin"
    /\ task' = [task EXCEPT ![t].at = "ended",
                   ![t].outcome = IF task[t].at = "failed" THEN "failed"
                                  ELSE IF task[t].at = "uncleaned" /\ task[t].op = "revoke"
                                       THEN "revoke_failed" ELSE @]
    /\ UNCHANGED <<surface, opening, expired, session>>
--------------------------------------------------------------------------------
BeginCalled(t, o) ==
    \/ BeginJoins(t, o) \/ BeginRefused(t, o) \/ BeginReturnsCached(t, o)
    \/ BeginCleansUp(t, o)
    \/ \E s \in Sessions : BeginStarts(t, o, s)

\* The provider answers, and the tasks it answered run on.
Settles ==
    \/ ProviderGrants \/ ProviderRejects
    \/ \E reason \in GrantDefects : ProviderGrantsUnusable(reason)
    \/ CleanupConfirmed \/ CleanupFails
    \/ \E t \in Tasks : RevokeContinues(t) \/ TaskEnds(t)
--------------------------------------------------------------------------------
(***************************************************************************)
(* A begin() returns a session that was opened for its own intervention,   *)
(* epoch and principal, also when it joined a start.                       *)
(***************************************************************************)
GrantsAreOwned ==
    \A t \in Tasks :
        (task[t].op = "begin" /\ task[t].at = "ended" /\ task[t].outcome = "granted")
            => session[task[t].session].owner = task[t].owner

(***************************************************************************)
(* A revoke() that returns without an error has ended every session that   *)
(* was open, or being opened, when it was called.                          *)
(***************************************************************************)
RevokeReachesEverySession ==
    \A t \in Tasks :
        (task[t].op = "revoke" /\ task[t].at = "ended" /\ task[t].outcome = "revoked")
            => task[t].targets \intersect Open = {}
================================================================================
