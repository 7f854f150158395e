-------------------------- MODULE TransportCoordinator -------------------------
(***************************************************************************)
(* ManagedBrowserHandoffTransportCoordinator                               *)
(* (src/src/browser-takeover/managed-transport-coordinator.ts): the staged *)
(* transports of one intervention, and the queue that runs the operations  *)
(* on them one after the other.                                            *)
(*                                                                         *)
(* An operation is a promise chained on #serial: it runs from one await to *)
(* the next, and whatever else happens in the process runs in between.     *)
(* The steps below are those stretches.  A driver is what the coordinator  *)
(* is given: start() brings a transport up, revoke() fences it at once and *)
(* settles when its teardown is over, or rejects.  A lease is named by its *)
(* generation, which determines its transport; generation 0 stands for the *)
(* lease revoke() may omit.  Diagnostics (transition count, last and       *)
(* previous transport, fallback reason) are left out.                      *)
(***************************************************************************)
EXTENDS Integers, Sequences

CONSTANTS
    Transports,   \* length of the validated plan
    MaxCalls,     \* bound on the operations ever enqueued
    DriverFaults  \* what drivers may do wrong: subset of {"blank_locator"}

ASSUME CoordinatorAssumption ==
    /\ Transports \in Nat \ {0}
    /\ MaxCalls \in Nat
    /\ DriverFaults \subseteq {"blank_locator"}

VARIABLES
    started,     \* #started
    active,      \* index of #active in the plan, 0 when undefined
    generation,  \* #generation
    driver,      \* driver[i]: "off", "live" (Human input possible) or "fenced"
    attempt,     \* the last index of the plan that was tried
    pc,          \* where the running operation waits, "idle" when none runs
    queue,       \* the operations chained on #serial, the running one first
    calls        \* what each operation asked and how it settled

coordinatorVars == <<started, active, generation, driver, attempt, pc, queue, calls>>

Plan == 1..Transports
Calls == 1..MaxCalls

Kinds == {"start", "advance", "fallback", "revoke"}
Settled == {"ok", "none", "stale", "not_active", "already_started", "failed"}
NoCall == [kind |-> "revoke", lease |-> 0, state |-> "unused", grant |-> 0]

CoordinatorInit ==
    /\ started = FALSE
    /\ active = 0
    /\ generation = 0
    /\ driver = [i \in Plan |-> "off"]
    /\ attempt = 0
    /\ pc = "idle"
    /\ queue = <<>>
    /\ calls = [c \in Calls |-> NoCall]
--------------------------------------------------------------------------------
\* #enqueue: a call joins the chain.
Enqueue(c, kind, lease) ==
    /\ calls[c].state = "unused"
    /\ calls' = [calls EXCEPT ![c] =
                    [kind |-> kind, lease |-> lease, state |-> "queued", grant |-> 0]]
    /\ queue' = Append(queue, c)

\* Variant: a rejection is passed down the chain instead of being swallowed.
SettleUnlessRejected(state, grant) ==
    /\ calls' = [calls EXCEPT ![Head(queue)].state = state, ![Head(queue)].grant = grant]
    /\ queue' = IF state \in {"ok", "none"} THEN Tail(queue) ELSE queue
    /\ pc' = IF state \in {"ok", "none"} THEN "idle" ELSE "poisoned"

\* The running operation settles; the chain goes on whether it resolved or
\* rejected.
Settle(state, grant) ==
    /\ calls' = [calls EXCEPT ![Head(queue)].state = state, ![Head(queue)].grant = grant]
    /\ queue' = Tail(queue)
    /\ pc' = "idle"

Ready == pc = "idle" /\ queue # <<>>
Running == calls[Head(queue)]

\* Variant: the generation of the caller's lease is not compared.
RefusalOfNone(op) ==
    IF op.kind = "start" THEN IF started THEN "already_started" ELSE "ok"
    ELSE IF active = 0 THEN IF op.kind = "revoke" THEN "ok" ELSE "not_active"
    ELSE "ok"

\* #assertActive and the early returns: how an operation settles without doing
\* anything, or "ok" when it may go on.  Only the active lease carries the
\* current generation while a transport is active.
Refusal(op) ==
    IF op.kind = "start" THEN IF started THEN "already_started" ELSE "ok"
    ELSE IF active = 0 THEN IF op.kind = "revoke" THEN "ok" ELSE "not_active"
    ELSE IF op.lease # generation /\ ~(op.kind = "revoke" /\ op.lease = 0) THEN "stale"
    ELSE "ok"

\* The running operation settles at once: refused, or a revoke() of nothing.
Return ==
    /\ Ready
    /\ Refusal(Running) # "ok" \/ (Running.kind = "revoke" /\ active = 0)
    /\ Settle(Refusal(Running), 0)
    /\ UNCHANGED <<started, active, generation, driver, attempt>>

\* start() passes its guard and calls the first driver.
BeginStart ==
    /\ Ready
    /\ Running.kind = "start" /\ ~started
    /\ started' = TRUE
    /\ attempt' = 1
    /\ pc' = "starting"
    /\ UNCHANGED <<active, generation, driver, queue, calls>>

\* advance(), fallback() and revoke() call the active driver's revoke(), which
\* fences the transport before the first await.
BeginRevoke ==
    /\ Ready
    /\ Running.kind # "start" /\ active # 0 /\ Refusal(Running) = "ok"
    /\ driver' = [driver EXCEPT ![active] = IF @ = "live" THEN "fenced" ELSE @]
    /\ pc' = "revoking"
    /\ UNCHANGED <<started, active, generation, attempt, queue, calls>>

\* The teardown of a fenced transport finishes.
DriverCloses(i) ==
    /\ driver[i] = "fenced"
    /\ driver' = [driver EXCEPT ![i] = "off"]
    /\ UNCHANGED <<started, active, generation, attempt, pc, queue, calls>>

\* Variant: the coordinator moves on without waiting for the teardown.
LeavesEarly ==
    /\ pc = "revoking"
    /\ active' = 0
    /\ UNCHANGED <<started, driver>>

\* await driver.revoke() resolved: the transport is no longer active.
Leaves ==
    /\ pc = "revoking"
    /\ driver[active] = "off"
    /\ active' = 0
    /\ UNCHANGED <<started, driver>>

\* Variant: the revoked transport is kept as the active one.
RevokedKept ==
    /\ pc = "revoking" /\ driver[active] = "off"
    /\ Running.kind = "revoke"
    /\ Settle("ok", 0)
    /\ UNCHANGED <<started, active, generation, driver, attempt>>

\* revoke() is over.
Revoked ==
    /\ Leaves
    /\ Running.kind = "revoke"
    /\ generation' = generation + 1
    /\ Settle("ok", 0)
    /\ UNCHANGED attempt

\* advance() or fallback() left the last transport of the plan.
Exhausted ==
    /\ Leaves
    /\ Running.kind \in {"advance", "fallback"} /\ active = Transports
    /\ generation' = generation + 1
    /\ Settle("none", 0)
    /\ UNCHANGED attempt

\* ... or goes on with the next one.
BeginNext ==
    /\ Leaves
    /\ Running.kind \in {"advance", "fallback"} /\ active < Transports
    /\ attempt' = active + 1
    /\ pc' = "starting"
    /\ UNCHANGED <<generation, queue, calls>>

\* await driver.revoke() rejected: so does the operation; the lease stays.
RevokeRejected ==
    /\ pc = "revoking"
    /\ driver[active] = "fenced"
    /\ Settle("failed", 0)
    /\ UNCHANGED <<started, active, generation, driver, attempt>>
--------------------------------------------------------------------------------
\* #startDriver: driver.start(generation + 1) brings the transport up.
DriverComesUp ==
    /\ pc = "starting"
    /\ driver' = [driver EXCEPT ![attempt] = "live"]
    /\ pc' = "up"
    /\ UNCHANGED <<started, active, generation, attempt, queue, calls>>

\* #activate: the attempt becomes the active lease.
Activate ==
    /\ pc = "up"
    /\ active' = attempt
    /\ generation' = generation + 1
    /\ Settle("ok", generation + 1)
    /\ UNCHANGED <<started, driver, attempt>>

\* Variant: the next attempt is given the generation of the one that failed.
AttemptFailedReusing ==
    /\ UNCHANGED generation
    /\ IF Running.kind = "fallback" /\ attempt < Transports
       THEN /\ attempt' = attempt + 1
            /\ pc' = "starting"
            /\ UNCHANGED <<queue, calls>>
       ELSE /\ Settle(IF Running.kind = "fallback" THEN "none" ELSE "failed", 0)
            /\ UNCHANGED attempt

\* An attempt that failed: fallback() goes on with the plan, start() and
\* advance() reject.  Either way the attempt has used up a generation.
AttemptFailed ==
    /\ generation' = generation + 1
    /\ IF Running.kind = "fallback" /\ attempt < Transports
       THEN /\ attempt' = attempt + 1
            /\ pc' = "starting"
            /\ UNCHANGED <<queue, calls>>
       ELSE /\ Settle(IF Running.kind = "fallback" THEN "none" ELSE "failed", 0)
            /\ UNCHANGED attempt

\* driver.start() rejected without bringing anything up; its revoke() is awaited
\* and its outcome ignored.
StartRejected ==
    /\ pc = "starting"
    /\ AttemptFailed
    /\ UNCHANGED <<started, active, driver>>

\* Variant: the transport with the blank locator is not revoked at all.
BlankLocatorKept ==
    /\ pc = "up" /\ "blank_locator" \in DriverFaults
    /\ AttemptFailed
    /\ UNCHANGED <<started, active, driver>>

\* driver.start() gave a blank locator: revoke() is called and not awaited.
BlankLocator ==
    /\ pc = "up" /\ "blank_locator" \in DriverFaults
    /\ driver' = [driver EXCEPT ![attempt] = IF @ = "live" THEN "fenced" ELSE @]
    /\ AttemptFailed
    /\ UNCHANGED <<started, active>>

\* startSync() bypasses the queue: the driver gives a locator synchronously...
StartSync ==
    /\ ~started
    /\ started' = TRUE
    /\ attempt' = 1
    /\ driver' = [driver EXCEPT ![1] = "live"]
    /\ active' = 1
    /\ generation' = generation + 1
    /\ UNCHANGED <<pc, queue, calls>>

\* ... or throws.
StartSyncFails ==
    /\ ~started
    /\ started' = TRUE
    /\ attempt' = 1
    /\ generation' = generation + 1
    /\ UNCHANGED <<active, driver, pc, queue, calls>>

\* A live transport ends on its own: its session expired, or the Human is Done.
DriverEnds(i) ==
    /\ driver[i] = "live"
    /\ driver' = [driver EXCEPT ![i] = "fenced"]
    /\ UNCHANGED <<started, active, generation, attempt, pc, queue, calls>>
--------------------------------------------------------------------------------
\* The steps of the operation at the head of the chain.
Serve ==
    \/ Return \/ BeginStart \/ BeginRevoke
    \/ Revoked \/ Exhausted \/ BeginNext \/ RevokeRejected
    \/ DriverComesUp \/ Activate \/ StartRejected \/ BlankLocator

\* The calls come in any order, with any lease ever granted.
Issue(c) ==
    /\ \A d \in 1..(c - 1) : calls[d].state # "unused"
    /\ \/ Enqueue(c, "start", 0)
       \/ Enqueue(c, "revoke", 0)
       \/ \E kind \in {"advance", "fallback", "revoke"}, lease \in 1..generation :
             Enqueue(c, kind, lease)
    /\ UNCHANGED <<started, active, generation, driver, attempt, pc>>

CoordinatorNext ==
    \/ Serve
    \/ StartSync \/ StartSyncFails
    \/ \E i \in Plan : DriverCloses(i) \/ DriverEnds(i)
    \/ \E c \in Calls : Issue(c)

CoordinatorSpec == CoordinatorInit /\ [][CoordinatorNext]_coordinatorVars

\* What a driver returns settles, and the event loop runs the continuation.
FairCoordinatorSpec == CoordinatorSpec /\ WF_coordinatorVars(Serve)
--------------------------------------------------------------------------------
(***************************************************************************)
(* Every variable ranges over the values the code can give it.             *)
(***************************************************************************)
CoordinatorTypeOK ==
    /\ started \in BOOLEAN
    /\ active \in 0..Transports
    /\ generation \in Nat
    /\ driver \in [Plan -> {"off", "live", "fenced"}]
    /\ attempt \in 0..Transports
    /\ pc \in {"idle", "revoking", "starting", "up"}
    /\ queue \in Seq(Calls)
    /\ calls \in [Calls -> [kind: Kinds, lease: Nat,
                           state: Settled \union {"unused", "queued"}, grant: Nat]]

\* The coordinator, seen as an ExclusiveTransport.
Exclusion == INSTANCE ExclusiveTransport WITH
    state <- driver,
    tried <- IF pc = "starting" THEN attempt - 1 ELSE attempt

(***************************************************************************)
(* Refinement: no transport is opened before every other one is closed,    *)
(* and the plan is only walked forward, whatever calls are queued and      *)
(* however attempts fail ("the currently active driver must finish         *)
(* revoke()", class comment of the coordinator).                           *)
(***************************************************************************)
ImplementsExclusiveTransport == Exclusion!Spec

(***************************************************************************)
(* Human input reaches at most one transport of the plan, even when an     *)
(* attempt is abandoned without waiting for its teardown.                  *)
(***************************************************************************)
AtMostOneLive ==
    \A i, j \in Plan : driver[i] = "live" /\ driver[j] = "live" => i = j

(***************************************************************************)
(* Of the calls that carry the same lease, one at most leaves it: a second *)
(* fallback() or revoke() of the same page is refused, also when it was    *)
(* queued while the first one was still running.                           *)
(***************************************************************************)
OneTransitionPerLease ==
    \A c, d \in Calls :
        /\ calls[c].lease = calls[d].lease /\ calls[c].lease # 0
        /\ {calls[c].kind, calls[d].kind} \subseteq {"advance", "fallback"}
        /\ {calls[c].state, calls[d].state} \subseteq {"ok", "none"}
        => c = d

(***************************************************************************)
(* Once a revoke() of some lease has resolved, no transport takes Human    *)
(* input, then or later: what was queued behind it finds nothing to        *)
(* continue from.                                                          *)
(***************************************************************************)
RevokeIsFinal ==
    (\E c \in Calls : calls[c].kind = "revoke" /\ calls[c].state = "ok" /\ calls[c].lease # 0)
        => \A i \in Plan : driver[i] # "live"

(***************************************************************************)
(* Every queued operation settles, whatever happened to the ones before it *)
(* in the chain.                                                           *)
(***************************************************************************)
EveryCallSettles ==
    \A c \in Calls : (calls[c].state = "queued") ~> (calls[c].state \in Settled)
================================================================================
