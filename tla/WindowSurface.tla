----------------------------- MODULE WindowSurface -----------------------------
(***************************************************************************)
(* The surface behind the WebSocket transport of a window: frames and      *)
(* input of one exact window, through a helper process                     *)
(* (linux-websocket-window-surface.ts, macos-websocket-window-surface.ts). *)
(*                                                                         *)
(* On Linux every use is preceded by a query to a second process, the      *)
(* authority helper; on macOS the helper itself says when authority over   *)
(* the window is lost.  Replacing a helper is a transition that all uses   *)
(* share.  What runs without awaiting anything is urgent: the steps of the *)
(* processes and of the timers wait for it (Quiet).                        *)
(***************************************************************************)
EXTENDS Integers, Sequences, FiniteSets

CONSTANTS
    Targets,        \* exact windows
    MaxCalls,       \* bound on the uses of the surface
    MaxHelpers,     \* bound on the helpers that exist at a time
    SurfaceBounds   \* what a behaviour has: its platform ("linux", "macos", or "successor",
                    \* macOS with its successor policy), and how many uses, windows, failures
                    \* of processes, and losses or recoveries of a window

ASSUME SurfaceAssumption ==
    /\ MaxCalls \in Nat /\ MaxHelpers \in Nat \ {0}
    /\ \A b \in SurfaceBounds : /\ b.platform \in {"linux", "macos", "successor"}
                        /\ b.calls \in 0..MaxCalls /\ b.targets \subseteq Targets
                        /\ b.faults \in Nat /\ b.changes \in Nat

VARIABLES
    bounds,         \* the member of SurfaceBounds of this behaviour
    valid,          \* the windows that are visible and still owned by their process
    helper,         \* the ActiveLinuxSurface (or macOS) objects with their processes
    active,         \* #active
    transition,     \* #transition: what it waits for, the helper it stops or starts
    boundary,       \* #authorityBoundary is "lost" (decides on macOS only)
    call,           \* captures and inputs
    closing,        \* close()
    faults, changes \* of the environment, bounded

surfaceVars == <<bounds, valid, helper, active, transition, boundary, call, closing, faults, changes>>

Helpers == 1..MaxHelpers
Calls == 1..MaxCalls
AnyTarget == CHOOSE t \in Targets : TRUE
NoTransition == [phase |-> "none", target |-> AnyTarget, owner |-> 0, of |-> 0]

\* host, authority: the processes.  chain: inputs, the first one at work; poison: how
\* the chain was rejected.  asking: uses in the query chain; pipe: queries written to
\* the authority helper and not answered to us; late: one of them timed out.
NoHelper ==
    [target |-> AnyTarget, host |-> "none", authority |-> "none", failed |-> FALSE,
     stopping |-> FALSE, framed |-> FALSE, chain |-> <<>>, poison |-> "no", pending |-> 0,
     commands |-> <<>>, asking |-> <<>>, asked |-> FALSE, pipe |-> <<>>, late |-> FALSE]

\* again: a second attempt is left.  fresh: a frame came since the use looked.
\* held: the window was valid at some time since the use began to ask.
NoCall ==
    [kind |-> "none", target |-> AnyTarget, pc |-> "idle", helper |-> 0, again |-> TRUE,
     fresh |-> FALSE, held |-> FALSE]

UseKinds == {"capture", "latest", "input"}
Outcomes == {"done", "plain", "authority"}
Waits == {"ensure", "owning", "joining", "queued", "asking", "waiting", "acking", "resting"}

SurfaceInit ==
    /\ bounds \in SurfaceBounds /\ valid = Targets /\ boundary = FALSE /\ active = 0
    /\ helper = [h \in Helpers |-> NoHelper] /\ transition = NoTransition
    /\ call = [c \in Calls |-> NoCall] /\ closing = [phase |-> "no", of |-> 0] /\ faults = 0 /\ changes = 0

Linux == bounds.platform = "linux"

-----------------------------------------------------------------------------
(* What happens to the helpers and the uses together: operators on a       *)
(* World, which an action makes the next state (Becomes).                  *)

World == [hs |-> helper, cs |-> call, lost |-> boundary]

\* A helper that has ended and that nobody refers to is forgotten.
Forgotten(w, h) ==
    /\ w.hs[h].host = "down" /\ w.hs[h].authority # "up"
    /\ h \notin {active, transition.of, closing.of}
    /\ w.hs[h].chain = <<>> /\ w.hs[h].asking = <<>> /\ \A c \in Calls : w.cs[c].helper # h
Becomes(w) ==
    /\ helper' = [h \in Helpers |-> IF Forgotten(w, h) THEN NoHelper ELSE w.hs[h]]
    /\ call' = w.cs /\ boundary' = w.lost

\* A capture on Linux tries once more when its helper, not its window, failed.
Retries(cs, c, how) == how = "plain" /\ Linux /\ cs[c].kind = "capture" /\ cs[c].again
EndedFinally(cs, c, how) == [cs EXCEPT ![c] = [NoCall EXCEPT !.pc = how]]
Ended(cs, c, how) ==
    IF Retries(cs, c, how)
    THEN [cs EXCEPT ![c] = [NoCall EXCEPT !.kind = "capture", !.target = cs[c].target,
                                          !.again = FALSE, !.pc = "resting"]]
    ELSE EndedFinally(cs, c, how)

\* settleInput(); on Linux the rejection of one input rejects the whole chain.
InputEnds(w, h, c, how) ==
    [w EXCEPT !.hs[h].chain = Tail(@), !.hs[h].pending = 0,
              !.hs[h].poison = IF Linux /\ how # "done" THEN how ELSE @,
              !.cs = EndedFinally(@, c, how)]

\* A query ends without an answer that allows the use.
QueryFails(w, h, how) ==
    LET c == Head(w.hs[h].asking)
        v == [w EXCEPT !.hs[h].asking = Tail(@), !.hs[h].asked = FALSE]
    IN  IF w.cs[c].kind = "input" THEN InputEnds(v, h, c, how)
        ELSE [v EXCEPT !.cs = EndedFinally(@, c, how)]

\* failActive(): the input that waits for its answer and the frame waiters are rejected,
\* and the process is ended; what it still does reaches nobody.
PendingRejected(w, h) ==
    IF w.hs[h].pending = 0 THEN w ELSE InputEnds(w, h, w.hs[h].pending, "plain")
WaitersRejected(w, h) ==
    LET Reject(cs, c) == Ended(cs, c, IF w.lost /\ ~Linux THEN "authority" ELSE "plain")
    IN  [w EXCEPT !.cs = [c \in Calls |-> IF @[c].helper = h /\ @[c].pc = "waiting"
                                          THEN Reject(@, c)[c] ELSE @[c]]]
\* Variant: the input that waits for its answer is forgotten, not rejected.
FailForgetting(w, h) ==
    IF w.hs[h].failed THEN w
    ELSE [WaitersRejected(w, h) EXCEPT
            !.hs[h].failed = TRUE, !.hs[h].pending = 0,
            !.hs[h].host = "down", !.hs[h].commands = <<>>]

FailActive(w, h) ==
    IF w.hs[h].failed THEN w
    ELSE [WaitersRejected(PendingRejected(w, h), h) EXCEPT
            !.hs[h].failed = TRUE, !.hs[h].host = "down", !.hs[h].commands = <<>>]
\* LinuxWindowAuthorityHelper.close(): the query under way is rejected.
AuthorityCloses(w, h) ==
    IF w.hs[h].authority # "up" THEN w
    ELSE [(IF w.hs[h].asked THEN QueryFails(w, h, "plain") ELSE w) EXCEPT
            !.hs[h].authority = "closed", !.hs[h].pipe = <<>>]

\* stopActive(): its beginning, and when the process has ended or had its time to.
StopBegins(w, h) ==
    [(IF Linux THEN w ELSE PendingRejected(w, h)) EXCEPT !.hs[h].stopping = TRUE]
StopEnds(w, h) == [AuthorityCloses(w, h) EXCEPT !.hs[h].host = IF @ = "up" THEN "dying" ELSE @]

-----------------------------------------------------------------------------
(* #ensure(), #replace() and close()                                       *)

unchangedEnvironment == UNCHANGED <<bounds, valid, faults, changes>>

\* A use is urgent until it awaits something.
Ensuring == \E c \in Calls : call[c].pc = "ensure"
Turn(c) == call[c].pc = "queued" /\ Head(helper[call[c].helper].chain) = c
Queries(h) == helper[h].asking # <<>> /\ ~helper[h].asked
FirstFrame == transition.phase = "firstframe" /\ (helper[transition.of].framed \/ helper[transition.of].failed)
Quiet ==
    /\ ~Ensuring /\ ~FirstFrame /\ closing.phase # "taking" /\ \A c \in Calls : ~Turn(c)
    /\ \A h \in Helpers : ~Queries(h)

Begin(c, k, t) ==
    /\ c <= bounds.calls /\ t \in bounds.targets
    /\ Quiet /\ call[c].pc = "idle" /\ \A d \in 1..c-1 : call[d].pc # "idle"
    /\ closing.phase = "no" /\ k \in (IF Linux THEN {"capture", "input"} ELSE UseKinds)
    /\ call' = [call EXCEPT ![c] = [NoCall EXCEPT !.kind = k, !.target = t, !.pc = "ensure"]]
    /\ UNCHANGED <<helper, active, transition, boundary, closing>> /\ unchangedEnvironment

\* captureExactWindow(), captureLatestExactWindow() and #input(), once there is a helper.
\* On macOS the frame that the replacement waited for is the first capture's.
Proceed(w, c, h, replaced) ==
    LET v == [w EXCEPT !.cs[c].helper = h, !.cs[c].fresh = FALSE]
        kind == w.cs[c].kind
    IN  CASE kind = "input" -> [v EXCEPT !.cs[c].pc = "queued", !.hs[h].chain = Append(@, c)]
          [] kind = "capture" /\ Linux ->
                [v EXCEPT !.cs[c].pc = "asking", !.cs[c].held = w.cs[c].target \in valid,
                          !.hs[h].asking = Append(@, c)]
          [] OTHER -> IF w.hs[h].framed /\ (kind = "latest" \/ replaced)
                      THEN [v EXCEPT !.cs = EndedFinally(@, c, "done")]
                      ELSE [v EXCEPT !.cs[c].pc = "waiting"]

Usable(t) == active # 0 /\ ~helper[active].failed /\ helper[active].target = t

\* Variant: #active is reset before it is read.
PreviousAfterReset == 0
\* The helper that a replacement stops first.
Previous == active

\* A transition under way is joined.
Ensure(c) ==
    /\ call[c].pc = "ensure"
    /\ IF boundary /\ ~Linux
       THEN Becomes([World EXCEPT !.cs = EndedFinally(@, c, "authority")])
            /\ UNCHANGED <<active, transition>>
       ELSE IF Usable(call[c].target)
       THEN Becomes(Proceed(World, c, active, FALSE)) /\ UNCHANGED <<active, transition>>
       ELSE IF transition.phase = "none"
       THEN /\ transition' = [phase |-> "stopping", target |-> call[c].target,
                              owner |-> c, of |-> Previous]
            /\ active' = 0
            /\ Becomes([(IF Previous = 0 THEN World ELSE StopBegins(World, Previous)) EXCEPT
                            !.cs[c].pc = "owning"])
       ELSE Becomes([World EXCEPT !.cs[c].pc = "joining"]) /\ UNCHANGED <<active, transition>>
    /\ UNCHANGED closing /\ unchangedEnvironment

\* The transition has settled: whoever awaits it goes on.
Continued(w, how) ==
    LET owner == transition.owner
        ready == how = "done" /\ Usable(call[owner].target)
        v == IF ready THEN Proceed(w, owner, active, TRUE)
             ELSE [w EXCEPT !.cs = Ended(@, owner, IF how = "done" THEN "plain" ELSE how)]
    IN  [v EXCEPT !.cs = [c \in Calls |->
            IF @[c].pc # "joining" THEN @[c]
            ELSE IF how = "done" THEN [@[c] EXCEPT !.pc = "ensure"] ELSE Ended(@, c, how)[c]]]

TransitionEnds(w, how) ==
    /\ Becomes(Continued(w, how)) /\ transition' = NoTransition
    /\ closing' = [closing EXCEPT !.phase = IF @ = "waiting" THEN "taking" ELSE @]

Free(h) == helper[h] = NoHelper
NewHelper == CHOOSE h \in Helpers : Free(h)

\* #replace() spawns the helper and waits for its first frame.
Spawned(w, h, t, authority) ==
    [w EXCEPT !.hs[h] = [NoHelper EXCEPT !.target = t, !.host = "up", !.authority = authority]]
AwaitFirst(h) ==
    active' = h /\ transition' = [transition EXCEPT !.phase = "firstframe", !.of = h]

PreviousStopped ==
    /\ Quiet /\ transition.phase = "stopping"
    /\ LET w == IF transition.of = 0 THEN World ELSE StopEnds(World, transition.of)
       IN  IF Linux
           THEN Becomes(w) /\ transition' = [transition EXCEPT !.phase = "starting", !.of = 0]
                /\ UNCHANGED active
           ELSE /\ \E h \in Helpers : Free(h)
                /\ Becomes(Spawned(w, NewHelper, transition.target, "none"))
                /\ AwaitFirst(NewHelper)
    /\ UNCHANGED closing /\ unchangedEnvironment

\* LinuxWindowAuthorityHelper.start(), and the revalidation before the spawn.
AuthorityStarts ==
    /\ Quiet /\ transition.phase = "starting"
    /\ \/ /\ transition.target \in valid /\ \E h \in Helpers : Free(h)
          /\ Becomes(Spawned(World, NewHelper, transition.target, "up")) /\ AwaitFirst(NewHelper)
          /\ UNCHANGED <<closing, faults>>
       \/ /\ transition.target \notin valid
          /\ TransitionEnds(World, "authority") /\ UNCHANGED <<active, faults>>
       \/ /\ faults < bounds.faults /\ faults' = faults + 1
          /\ TransitionEnds(World, "plain") /\ UNCHANGED active
    /\ UNCHANGED <<bounds, valid, changes>>

FirstFrameSettles ==
    /\ ~Ensuring /\ FirstFrame
    /\ TransitionEnds(World, IF helper[transition.of].failed THEN "plain" ELSE "done")
    /\ UNCHANGED active /\ unchangedEnvironment

FirstFrameTimesOut ==
    /\ Quiet /\ transition.phase = "firstframe" /\ TransitionEnds(World, "plain")
    /\ UNCHANGED active /\ unchangedEnvironment

\* close() waits for one transition, whatever follows it.
Close ==
    /\ Quiet /\ closing.phase = "no"
    /\ closing' = [closing EXCEPT !.phase = IF transition.phase = "none" THEN "taking" ELSE "waiting"]
    /\ UNCHANGED <<helper, call, boundary, active, transition>> /\ unchangedEnvironment

CloseTakes ==
    /\ ~Ensuring /\ closing.phase = "taking" /\ active' = 0
    /\ closing' = [phase |-> IF active = 0 THEN "closed" ELSE "stopping", of |-> active]
    /\ Becomes(IF active = 0 THEN World ELSE StopBegins(World, active))
    /\ UNCHANGED transition /\ unchangedEnvironment

CloseEnds ==
    /\ Quiet /\ closing.phase = "stopping" /\ closing' = [phase |-> "closed", of |-> 0]
    /\ Becomes(StopEnds(World, closing.of))
    /\ UNCHANGED <<active, transition>> /\ unchangedEnvironment

-----------------------------------------------------------------------------
(* Frames                                                                  *)

CaptureOf(c, h) == call[c].helper = h /\ call[c].kind # "input"

\* A frame of the helper: whoever waits for one is served.
FrameArrives(h) ==
    /\ Quiet /\ helper[h].host = "up" /\ ~helper[h].failed
    /\ \/ ~helper[h].framed
       \/ \E c \in Calls : CaptureOf(c, h) /\ call[c].pc \in {"asking", "waiting"} /\ ~call[c].fresh
    /\ Becomes([World EXCEPT
            !.hs[h].framed = TRUE,
            !.cs = [c \in Calls |->
                CASE CaptureOf(c, h) /\ @[c].pc = "waiting" -> EndedFinally(@, c, "done")[c]
                  [] CaptureOf(c, h) /\ @[c].pc = "asking" -> [@[c] EXCEPT !.fresh = TRUE]
                  [] OTHER -> @[c]]])
    /\ UNCHANGED <<active, transition, closing>> /\ unchangedEnvironment

\* No frame came in time: on Linux the helper is given up if an attempt is left.
\* On macOS the capture fails, as it does when its signal aborts it.
FrameTimesOut(c) ==
    /\ Quiet /\ call[c].pc = "waiting"
    /\ LET how == IF boundary /\ ~Linux THEN "authority" ELSE "plain"
           w == [World EXCEPT !.cs = Ended(@, c, how)]
       IN  Becomes(IF Retries(call, c, how) THEN FailActive(w, call[c].helper) ELSE w)
    /\ UNCHANGED <<active, transition, closing>> /\ unchangedEnvironment

RestEnds(c) ==
    /\ Quiet /\ call[c].pc = "resting" /\ call' = [call EXCEPT ![c].pc = "ensure"]
    /\ UNCHANGED <<helper, active, transition, boundary, closing>> /\ unchangedEnvironment

-----------------------------------------------------------------------------
(* Queries to the authority helper, on Linux                               *)

\* #queryOnce()
QueryTurn(h) ==
    /\ Queries(h)
    /\ Becomes(IF helper[h].authority = "up"
               THEN [World EXCEPT !.hs[h].asked = TRUE, !.hs[h].pipe = Append(@, "none")]
               ELSE QueryFails(World, h, "plain"))
    /\ UNCHANGED <<active, transition, closing>> /\ unchangedEnvironment

\* The authority helper answers what it reads, in order.
AuthorityAnswers(h) ==
    /\ Quiet /\ helper[h].authority = "up"
    /\ \E i \in 1..Len(helper[h].pipe) :
        /\ helper[h].pipe[i] = "none" /\ \A j \in 1..i-1 : helper[h].pipe[j] # "none"
        /\ helper' = [helper EXCEPT ![h].pipe[i] = IF helper[h].target \in valid THEN "ok" ELSE "lost"]
    /\ UNCHANGED <<call, active, transition, boundary, closing>> /\ unchangedEnvironment

\* What is written to a helper that has ended is lost.
Written(w, h, c) ==
    [w EXCEPT !.hs[h].pending = c, !.cs[c].pc = "acking",
              !.hs[h].commands = IF w.hs[h].host = "down" THEN @ ELSE Append(@, c)]

\* The use goes on: an input is written to the helper, a capture looks for its frame.
Allowed(w, h) ==
    LET c == Head(w.hs[h].asking)
        v == [w EXCEPT !.hs[h].asking = Tail(@), !.hs[h].asked = FALSE]
    IN  IF w.cs[c].kind = "input"
        THEN Written(v, h, c)
        ELSE IF w.hs[h].failed \/ active # h
        THEN LET u == [v EXCEPT !.cs = Ended(@, c, "plain")]
             IN  IF Retries(w.cs, c, "plain") THEN FailActive(u, h) ELSE u
        ELSE IF v.cs[c].fresh THEN [v EXCEPT !.cs = EndedFinally(@, c, "done")]
        ELSE [v EXCEPT !.cs[c].pc = "waiting"]

\* Variant: an answer serves the next query too.
AllowedBoth(w, h) ==
    LET v == Allowed(w, h) IN IF v.hs[h].asking = <<>> THEN v ELSE Allowed(v, h)

Served(w, h) == Allowed(w, h)

\* LinuxWindowAuthorityHelper.#consume(): a line answers the query that is pending now.
QueryAnswered(h) ==
    /\ Quiet /\ helper[h].pipe # <<>> /\ Head(helper[h].pipe) # "none"
    /\ LET w == [World EXCEPT !.hs[h].pipe = Tail(@)]
       IN  Becomes(CASE ~helper[h].asked -> w
                     [] helper[h].asked /\ Head(helper[h].pipe) = "ok" -> Served(w, h)
                     [] OTHER -> QueryFails(w, h, "authority"))
    /\ UNCHANGED <<active, transition, closing>> /\ unchangedEnvironment

QueryTimesOut(h) ==
    /\ Quiet /\ helper[h].asked
    /\ Becomes([QueryFails(World, h, "plain") EXCEPT !.hs[h].late = TRUE])
    /\ UNCHANGED <<active, transition, closing>> /\ unchangedEnvironment

AuthorityDies(h) ==
    /\ Quiet /\ helper[h].authority = "up" /\ faults < bounds.faults /\ faults' = faults + 1
    /\ Becomes(AuthorityCloses(World, h))
    /\ UNCHANGED <<bounds, valid, active, transition, closing, changes>>

-----------------------------------------------------------------------------
(* Input                                                                   *)

\* The turn of an input in the chain of its helper.
InputTurn(c) ==
    LET h == call[c].helper
        unfit == helper[h].failed \/ active # h
    IN  /\ Turn(c)
        /\ Becomes(
             CASE Linux /\ helper[h].poison # "no" -> InputEnds(World, h, c, helper[h].poison)
               [] ~Linux /\ boundary -> InputEnds(World, h, c, "authority")
               [] helper[h].poison = "no" /\ (Linux \/ ~boundary) /\ unfit ->
                    InputEnds(World, h, c, "plain")
               [] Linux /\ helper[h].poison = "no" /\ ~unfit ->
                    [World EXCEPT !.hs[h].asking = Append(@, c), !.cs[c].pc = "asking",
                                  !.cs[c].held = helper[h].target \in valid]
               [] OTHER ->
                    Written(World, h, c))
        /\ UNCHANGED <<active, transition, closing>> /\ unchangedEnvironment

\* The helper's line for its oldest command; it settles the input that waits now.
InputAnswered(h, answer) ==
    /\ Quiet /\ helper[h].host = "up" /\ helper[h].commands # <<>>
    /\ answer = "lost" => ~Linux /\ helper[h].target \notin valid
    /\ LET w == [World EXCEPT !.hs[h].commands = Tail(@),
                              !.lost = @ \/ (answer = "lost" /\ ~helper[h].failed)]
           c == helper[h].pending
       IN  Becomes(CASE helper[h].failed -> w
                     [] ~helper[h].failed /\ answer = "failed" /\ Linux -> FailActive(w, h)
                     [] OTHER ->
                        IF c = 0 THEN w
                        ELSE InputEnds(w, h, c, CASE answer = "applied" -> "done"
                                                  [] answer = "failed" -> "plain"
                                                  [] answer = "lost" -> "authority"))
    /\ UNCHANGED <<active, transition, closing>> /\ unchangedEnvironment

\* On Linux the helper fails with its acknowledgement, on macOS it stays.
AckExpires(w, h) ==
    IF Linux THEN FailActive(PendingRejected(w, h), h) ELSE PendingRejected(w, h)
AckTimesOut(h) ==
    /\ Quiet /\ helper[h].pending # 0 /\ Becomes(AckExpires(World, h))
    /\ UNCHANGED <<active, transition, closing>> /\ unchangedEnvironment

-----------------------------------------------------------------------------
(* The processes and the window                                            *)

\* On macOS the helper reports that its window is lost.
HostReportsLoss(h) ==
    /\ Quiet /\ ~Linux /\ helper[h].host = "up" /\ ~helper[h].failed /\ ~boundary
    /\ helper[h].target \notin valid
    /\ LET w == [World EXCEPT !.lost = TRUE]
       IN  Becomes(IF helper[h].pending = 0 THEN w
                   ELSE InputEnds(w, h, helper[h].pending, "authority"))
    /\ UNCHANGED <<active, transition, closing>> /\ unchangedEnvironment

\* With the successor policy nobody knows which window a broken helper followed.
HostFails(h) ==
    FailActive([World EXCEPT !.lost = @ \/ (bounds.platform = "successor" /\ ~helper[h].stopping)], h)

\* The process ends, or what it writes is not understood or is too much.
HostEnds(h) ==
    /\ Quiet
    /\ \/ helper[h].host = "dying" /\ UNCHANGED faults
       \/ helper[h].host = "up" /\ faults < bounds.faults /\ faults' = faults + 1
    /\ Becomes(HostFails(h))
    /\ UNCHANGED <<bounds, valid, active, transition, closing, changes>>

ValidityChanges(t) ==
    /\ Quiet /\ t \in bounds.targets /\ changes < bounds.changes /\ changes' = changes + 1
    /\ valid' = IF t \in valid THEN valid \ {t} ELSE valid \union {t}
    /\ call' = [c \in Calls |-> [call[c] EXCEPT !.held =
                    @ \/ (call[c].target \in valid' /\ call[c].pc = "asking")]]
    /\ UNCHANGED <<bounds, helper, active, transition, boundary, closing, faults>>

-----------------------------------------------------------------------------

Urgent ==
    \/ \E c \in Calls : Ensure(c) \/ InputTurn(c)
    \/ \E h \in Helpers : QueryTurn(h)
    \/ FirstFrameSettles \/ CloseTakes
Timer ==
    \/ PreviousStopped \/ AuthorityStarts \/ FirstFrameTimesOut \/ CloseEnds
    \/ \E c \in Calls : FrameTimesOut(c) \/ RestEnds(c)
    \/ \E h \in Helpers : QueryTimesOut(h) \/ AckTimesOut(h)
Killed == \E h \in Helpers : helper[h].host = "dying" /\ HostEnds(h)

SurfaceNext ==
    \/ \E c \in Calls, k \in UseKinds, t \in Targets : Begin(c, k, t)
    \/ Close \/ Urgent \/ Timer
    \/ \E h \in Helpers :
        \/ FrameArrives(h) \/ AuthorityAnswers(h) \/ QueryAnswered(h)
        \/ AuthorityDies(h) \/ HostReportsLoss(h) \/ HostEnds(h)
        \/ \E answer \in {"applied", "failed", "lost"} : InputAnswered(h, answer)
    \/ \E t \in Targets : ValidityChanges(t)

\* Microtasks run, timers fire, and a process that was killed ends; no answer and no
\* frame is promised.
SurfaceSpec == SurfaceInit /\ [][SurfaceNext]_surfaceVars /\ WF_surfaceVars(Urgent \/ Timer \/ Killed)

-----------------------------------------------------------------------------
(* Properties                                                              *)

\* Never two helpers that nobody has told to stop: however uses of two windows, failures
\* and retries overlap, one process at a time captures and types.
OneHelper == Cardinality({h \in Helpers : helper[h].host = "up" /\ ~helper[h].stopping}) <= 1

\* On Linux a use goes on only if the window was valid at some time since the use asked;
\* after a query of the helper timed out its late answer may be taken for the next one.
ValidatedUse ==
    Linux => \A c \in Calls :
        (call[c].pc \in {"acking", "waiting"} /\ ~helper[call[c].helper].late) => call[c].held

\* Every use settles: no wait for a process is without a timer.
Unsettled == \E c \in Calls : call[c].pc \in Waits
UsesSettle == Unsettled ~> ~Unsettled
================================================================================
