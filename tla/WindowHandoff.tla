----------------------------- MODULE WindowHandoff -----------------------------
(***************************************************************************)
(* The broker as its consumers use it: the legacy and native deployments   *)
(* call it themselves, the WebRTC ones through WindowHandoffAdapter over   *)
(* WindowHandoffCore (src/src/window-takeover).  The core keeps the routes *)
(* the consumer's HTTP server hands to the broker, the adapter the desktop *)
(* session of the intervention with its viewer.                            *)
(***************************************************************************)
EXTENDS NativeTakeover

VARIABLES
    owned,      \* #sessionIds, the sessions of #sessionsByIntervention
    desktop,    \* #directDesktopSessions: none, or its viewer attached or detached
    closers     \* the calls of revoke() whose end closes the desktop session

adapterVars == <<desktop, closers>>
handoffVars == <<vars, owned, adapterVars>>

HandoffInit == Init /\ owned = {} /\ desktop = "none" /\ closers = {}

\* ownsPath(): what the consumer's server asks before it calls handle().
OwnsPath(s) == deployment.kind = "webrtc" => s \in owned

\* start(): a link the broker refuses is not remembered, and start() throws.
Start(e, s) ==
    /\ CreateWebRtcLink(e, s)
    /\ owned' = IF page[s].verifying THEN owned ELSE owned \union {s}

\* The adapter's start(): a link that was made has a desktop session of its own, with a
\* first viewer, in the place of an earlier one.
AttachDesktop(s) == desktop' = IF page[s].verifying THEN desktop ELSE "attached"

\* revoke() and revokeUnclaimed(): the routes at once, then the broker.
Revoke(t) == RevokeForIntervention(t) /\ owned' = {}

\* The adapter's revokeUnclaimed() closes the desktop session at once, its revoke()
\* after the core's.
CloseDesktop(t) ==
    \/ desktop' = "none" /\ UNCHANGED closers
    \/ UNCHANGED desktop /\ closers' = closers \union {t}

\* The timer of a route, which outlasts the media lease and both completion windows.
RouteForgotten(s) ==
    /\ s \in owned /\ records[s].doneOver /\ page[s] = NoPage
    /\ owned' = owned \ {s}
    /\ UNCHANGED <<vars, adapterVars>>

\* What a step of the broker means to the adapter.  The end of a revoke() or of a verified
\* completion closes whatever desktop session there is then; the release of the authority
\* before the completion callback detaches its viewer.
DesktopFollows ==
    LET Settles(t) == task[t] # Idle /\ task'[t] = Idle
        Ends == {t \in Tasks : Settles(t) /\ (t \in closers \/ task[t].kind = "verified")}
        Told == {t \in Tasks : task'[t].pc = "hook" /\ task[t].pc # "hook"}
    IN /\ desktop' = IF Ends # {} THEN "none"
                     ELSE IF Told # {} /\ desktop = "attached" THEN "detached" ELSE desktop
       /\ closers' = closers \ Ends

HandoffNext ==
    \/ \E s \in Sessions :
        \/ RouteForgotten(s)
        \/ \E e \in Epochs : Start(e, s) /\ AttachDesktop(s) /\ UNCHANGED closers
        \/ OwnsPath(s) /\ UNCHANGED <<owned, adapterVars>>
           /\ \E t \in Tasks : Requests(t, s)
    \/ \E t \in Tasks : Revoke(t) /\ CloseDesktop(t)
    \/ UNCHANGED owned /\ (Works \/ NativeWorks) /\ DesktopFollows

HandoffSpec == HandoffInit /\ [][HandoffNext]_handoffVars
================================================================================
