---------------------------- MODULE ManagedTransport ---------------------------
(***************************************************************************)
(* ManagedHandoffRuntime (browser-takeover/managed-handoff-runtime.ts) for *)
(* one intervention: the HTTP handlers and the consumer's calls that share *)
(* one TransportCoordinator.  A handler runs up to the coordinator call it *)
(* awaits, and goes on in a later step, when anything may have happened.   *)
(*                                                                         *)
(* A transport session id is minted with each transport that comes up and  *)
(* is named here by the generation of its lease.  Principal, origin and    *)
(* method checks are left out: a request that fails one changes nothing.   *)
(* The drivers are the runtime's own: their locator is a URL, never blank, *)
(* and start() is synchronous.  With a physical desktop session each       *)
(* transport attaches a viewer of its generation to it                     *)
(* (desktop-session/desktop-session.ts).                                   *)
(***************************************************************************)
EXTENDS TransportCoordinator

CONSTANT PhysicalWindow  \* desktopSessionBoundary = "physical_window"

ASSUME PhysicalWindowAssumption == PhysicalWindow \in BOOLEAN

VARIABLES
    registered,     \* the session is in #sessionsByIntervention
    routes,         \* session ids in #sessionsByTransportSession
    lease,          \* session.lease
    activeRoute,    \* session.activeSessionId, 0 when undefined
    capability,     \* session.fallbackCapability, one number per fresh value
    current,        \* session.state.current: index of the driver, 0 when none
    completed,      \* session.completed
    desktopClosed,  \* session.desktopSession was closed
    viewer,         \* generation of the attached viewer, 0 when none
    viewed,         \* #viewerGeneration: the last one that was attached
    ended,          \* #terminalTombstones: session ids whose page says so
    finished,       \* drivers whose child session was completed
    finishing,      \* completions awaited: "done" by the Human, "verified";
                    \* "released": its authority hook ran, its callback not yet
    request         \* what each call is for, and whether it went on

desktopVars == <<desktopClosed, viewer, viewed>>
sessionVars == <<registered, routes, lease, activeRoute, capability, ended>>
completionVars == <<completed, finished, finishing>>
runtimeVars == <<sessionVars, desktopVars, completionVars, current, request>>
vars == <<coordinatorVars, runtimeVars>>

NoRequest == [of |-> "none", route |-> 0, capability |-> 0, handled |-> FALSE]

\* A new DesktopSessionDisplayBoundary.
DesktopInit == desktopClosed = FALSE /\ viewer = 0 /\ viewed = 0

Init ==
    /\ CoordinatorInit
    /\ registered = FALSE
    /\ routes = {}
    /\ lease = 0
    /\ activeRoute = 0
    /\ capability = 0
    /\ current = 0
    /\ completed = FALSE
    /\ DesktopInit
    /\ ended = {}
    /\ finished = {}
    /\ finishing = {}
    /\ request = [c \in Calls |-> NoRequest]

NextCall(c) == \A d \in 1..(c - 1) : calls[d].state # "unused"
Asks(c, of, route) ==
    request' = [request EXCEPT ![c] = [of |-> of, route |-> route,
                                       capability |-> capability, handled |-> FALSE]]
Answered(c, of) ==
    /\ request[c].of = of /\ ~request[c].handled
    /\ calls[c].state \in Settled
    /\ request' = [request EXCEPT ![c].handled = TRUE]

UnchangedCoordinatorButQueue == UNCHANGED <<started, active, generation, driver, attempt, pc>>
--------------------------------------------------------------------------------
\* attachViewer(g) does not throw: the session is open, its viewer detached, and
\* the generation is new.
MayAttach(g) == ~desktopClosed /\ viewer = 0 /\ g > viewed

\* What a driver's start() does first, when there is a desktop session.
AttachViewer(g) ==
    IF PhysicalWindow
    THEN MayAttach(g) /\ viewer' = g /\ viewed' = g /\ UNCHANGED desktopClosed
    ELSE UNCHANGED desktopVars

\* detachCurrentViewer(), which names no generation.
DetachCurrentViewer == viewer' = 0 /\ UNCHANGED <<desktopClosed, viewed>>

\* close(): the boundary is closed, its viewer detached.
CloseDesktop == desktopClosed' = TRUE /\ viewer' = 0 /\ UNCHANGED viewed
--------------------------------------------------------------------------------
\* start(): startSync() gave a locator, and the session is registered.
Start ==
    /\ StartSync
    /\ registered' = TRUE
    /\ routes' = {1}
    /\ lease' = 1
    /\ activeRoute' = 1
    /\ capability' = 1
    /\ current' = 1
    /\ AttachViewer(1)
    /\ UNCHANGED <<ended, completionVars, request>>

\* start(): the first driver throws; nothing is registered.
StartFails ==
    /\ StartSyncFails
    /\ UNCHANGED runtimeVars

\* #handleFallback up to its await: the page of a routed session asks, with the
\* capability the page was given, for the next transport of session.lease.
FallbackRequested(c) ==
    /\ NextCall(c)
    /\ ~completed
    /\ \E r \in routes :
        /\ Enqueue(c, "fallback", lease)
        /\ Asks(c, "fallback", r)
    /\ UnchangedCoordinatorButQueue
    /\ UNCHANGED <<sessionVars, desktopVars, completionVars, current>>

\* #handleFallback, the coordinator refused or failed: 409 or 503.
FallbackRefused(c) ==
    /\ calls[c].state \notin {"ok", "none"}
    /\ Answered(c, "fallback")
    /\ UNCHANGED <<coordinatorVars, sessionVars, desktopVars, completionVars, current>>

\* #rememberTerminalTombstone: the page of this session id now says it has ended.
\* The bound of 64 and the expiry of a tombstone only shorten that.
RememberEnded(r) == ended' = ended \union ({r} \ {0})

\* #handleFallback, the plan is exhausted.
FallbackExhausted(c) ==
    /\ calls[c].state = "none"
    /\ Answered(c, "fallback")
    /\ routes' = routes \ {request[c].route}
    /\ RememberEnded(request[c].route)
    /\ capability' = capability + 1
    /\ activeRoute' = 0
    /\ UNCHANGED <<coordinatorVars, registered, lease, desktopVars, completionVars, current>>

\* Variant: session.lease keeps naming the abandoned transport.
FallbackTakesOldLease(c) ==
    /\ calls[c].state = "ok"
    /\ Answered(c, "fallback")
    /\ routes' = (routes \ {request[c].route}) \union {calls[c].grant}
    /\ capability' = capability + 1
    /\ activeRoute' = calls[c].grant
    /\ UNCHANGED <<coordinatorVars, registered, lease, ended, desktopVars, completionVars, current>>

\* #handleFallback after its await: routes, lease and capability move to the new
\* transport, whatever became of the session meanwhile.
FallbackTakes(c) ==
    /\ calls[c].state = "ok"
    /\ Answered(c, "fallback")
    /\ routes' = (routes \ {request[c].route}) \union {calls[c].grant}
    /\ capability' = capability + 1
    /\ lease' = calls[c].grant
    /\ activeRoute' = calls[c].grant
    /\ UNCHANGED <<coordinatorVars, registered, ended, desktopVars, completionVars, current>>
--------------------------------------------------------------------------------
\* #forgetSession: both maps lose the session, and its page has ended.
ForgetSession ==
    /\ registered' = FALSE
    /\ routes' = routes \ {activeRoute}
    /\ RememberEnded(activeRoute)
    /\ UNCHANGED <<lease, activeRoute, capability>>

\* revoke() up to its await, called by the consumer or by the cleanup timer.
RevokeRequested(c) ==
    /\ NextCall(c)
    /\ registered
    /\ ForgetSession
    /\ Enqueue(c, "revoke", lease)
    /\ Asks(c, "revoke", 0)
    /\ UnchangedCoordinatorButQueue
    /\ UNCHANGED <<desktopVars, completionVars, current>>

\* revoke() after its await, the coordinator's refusal swallowed.
RevokeReturns(c) ==
    /\ Answered(c, "revoke")
    /\ CloseDesktop
    /\ UNCHANGED <<coordinatorVars, sessionVars, completionVars, current>>

\* revokeUnclaimed(): the current transport is fenced and the desktop session
\* closed at once; the coordinator hears of it later.
RevokeUnclaimed(c) ==
    /\ NextCall(c)
    /\ registered
    /\ ForgetSession
    /\ driver' = [i \in Plan |-> IF i = current /\ driver[i] = "live" THEN "fenced" ELSE driver[i]]
    /\ CloseDesktop
    /\ Enqueue(c, "revoke", lease)
    /\ Asks(c, "unclaimed", 0)
    /\ UNCHANGED <<started, active, generation, attempt, pc>>
    /\ UNCHANGED <<completionVars, current>>
--------------------------------------------------------------------------------
\* The child session of a driver may be completed: it is live, or it ended by
\* itself and is in its completion grace period, or it was completed before.
Completable(i) ==
    \/ driver[i] = "live"
    \/ registered /\ active = i /\ pc # "revoking"
    \/ i \in finished

\* Completing a child session fences its transport at once; the teardown is
\* awaited before the runtime hears of it.
CompleteChild(i, by) ==
    /\ Completable(i)
    /\ driver' = [driver EXCEPT ![i] = IF @ = "live" THEN "fenced" ELSE @]
    /\ finished' = finished \union {i}
    /\ finishing' = finishing \union {by}
    /\ UNCHANGED <<started, active, generation, attempt, pc, queue, calls>>
    /\ UNCHANGED <<sessionVars, desktopVars, completed, current, request>>

\* Done, from the page of the transport that session.lease names.
Done ==
    /\ current # 0 /\ current = active /\ lease = generation
    /\ CompleteChild(current, "done")

\* The authority hook of start(), which every completed child runs first: the
\* viewer that is attached by now is detached.
AuthorityReleased ==
    /\ "done" \in finishing
    /\ finishing' = (finishing \ {"done"}) \union {"released"}
    /\ DetachCurrentViewer
    /\ UNCHANGED <<coordinatorVars, sessionVars, completed, finished, current, request>>

\* ... and then the completion callback of start().
Completed ==
    /\ "released" \in finishing
    /\ finishing' = finishing \ {"released"}
    /\ completed' = TRUE
    /\ UNCHANGED <<coordinatorVars, sessionVars, desktopVars, finished, current, request>>

\* completeAfterVerification() up to its await.
VerificationRequested ==
    /\ registered /\ current # 0
    /\ CompleteChild(current, "verified")

\* completeAfterVerification() after its await.
Verified ==
    /\ "verified" \in finishing
    /\ finishing' = finishing \ {"verified"}
    /\ completed' = TRUE
    /\ CloseDesktop
    /\ UNCHANGED <<coordinatorVars, sessionVars, finished, current, request>>
--------------------------------------------------------------------------------
\* A driver's start() inside the coordinator.
TransportComesUp ==
    /\ DriverComesUp
    /\ current' = attempt
    /\ AttachViewer(generation + 1)
    /\ UNCHANGED <<sessionVars, completionVars, request>>

\* A driver's start() throws, before or after it attached its viewer, and is
\* revoked: the viewer is detached either way.
TransportStartFails ==
    /\ StartRejected
    /\ viewer' = 0
    /\ viewed' \in {viewed} \union
          (IF PhysicalWindow /\ MayAttach(generation + 1) THEN {generation + 1} ELSE {})
    /\ UNCHANGED <<sessionVars, desktopClosed, completionVars, current, request>>

\* A driver's revoke() has settled, either way: its viewer is detached, and
\* state.current cleared if it still is this driver.
TransportRevoked ==
    /\ Revoked \/ Exhausted \/ BeginNext \/ RevokeRejected
    /\ current' = IF current = active THEN 0 ELSE current
    /\ DetachCurrentViewer
    /\ UNCHANGED <<sessionVars, completionVars, request>>

\* A transport ends on its own.  The WebSocket one runs the authority hook at
\* once, the WebRTC ones do not.
TransportEnds(i) ==
    /\ DriverEnds(i)
    /\ DetachCurrentViewer \/ UNCHANGED desktopVars
    /\ UNCHANGED <<sessionVars, completionVars, current, request>>

\* The rest of the coordinator's steps do not touch the session.
CoordinatorRuns ==
    /\ Return \/ BeginRevoke \/ Activate \/ \E i \in Plan : DriverCloses(i)
    /\ UNCHANGED runtimeVars

Call(c) ==
    \/ FallbackRequested(c) \/ FallbackRefused(c)
    \/ FallbackExhausted(c) \/ FallbackTakes(c)
    \/ RevokeRequested(c) \/ RevokeReturns(c) \/ RevokeUnclaimed(c)

Next ==
    \/ Start \/ StartFails
    \/ \E c \in Calls : Call(c)
    \/ Done \/ AuthorityReleased \/ Completed \/ VerificationRequested \/ Verified
    \/ TransportComesUp \/ TransportStartFails \/ TransportRevoked
    \/ \E i \in Plan : TransportEnds(i)
    \/ CoordinatorRuns

Spec == Init /\ [][Next]_vars
--------------------------------------------------------------------------------
\* handle(): what a GET of /takeover/<r> shows.
Page(r) ==
    IF r \in routes THEN IF current # 0 THEN "child" ELSE "unavailable"
    ELSE IF r \in ended THEN "ended" ELSE "unknown"

\* The revoke that forgot the session has not had its turn in the coordinator yet...
RevokeWaits ==
    \E c \in Calls : request[c].of \in {"revoke", "unclaimed"} /\ calls[c].state = "queued"

\* ... or was rejected there, which revoke() swallows: a transition ahead of it had
\* replaced its lease, or the driver's teardown rejected.
RevokeLost ==
    \E c \in Calls : /\ request[c].of \in {"revoke", "unclaimed"}
                     /\ calls[c].state \in {"stale", "failed"}

(***************************************************************************)
(* When no fallback is in flight, a transport that takes Human input is    *)
(* within reach of revoke(): the session is registered and its lease names *)
(* the transport.  The one exception is a session that a revoke has        *)
(* forgotten already, and whose revoke waits its turn or was rejected; and *)
(* the page of a live transport says "Remote input is disabled" only while *)
(* that revoke waits.                                                      *)
(***************************************************************************)
LiveTransportIsLeased ==
    (\A c \in Calls : request[c].of = "fallback" => request[c].handled) =>
        \A i \in Plan : driver[i] = "live" =>
            /\ active = i /\ lease = generation
            /\ registered \/ RevokeWaits \/ RevokeLost
            /\ Page(generation) = "ended" => RevokeWaits

(***************************************************************************)
(* src/docs/component-support-matrix.md:116: after an explicit revoke "a       *)
(* locally open channel cannot send input": when revoke() has returned, no *)
(* transport of the intervention takes Human input.                        *)
(***************************************************************************)
RevokeEndsHumanAccess ==
    (\E c \in Calls : request[c].of = "revoke" /\ request[c].handled)
        => \A i \in Plan : driver[i] # "live"

(***************************************************************************)
(* With a physical desktop session, the viewer follows the transport: the  *)
(* next attempt of the plan always finds the session detached and its own  *)
(* generation unused, however the ones before it failed to start or to     *)
(* stop, and a transport that takes Human input has its viewer attached    *)
(* until somebody completes the handoff or closes the session.             *)
(***************************************************************************)
ViewersFollowTransports ==
    PhysicalWindow /\ ~desktopClosed =>
        /\ pc = "starting" => MayAttach(generation + 1)
        /\ ~completed /\ finishing = {} =>
              \A i \in Plan : driver[i] = "live" =>
                  viewer = IF pc = "up" THEN generation + 1 ELSE generation
================================================================================
