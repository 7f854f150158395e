----------------------------- MODULE TerminalHandoff ----------------------------
(***************************************************************************)
(* One terminal handed to the Human and back:                              *)
(*   - TerminalHandoffAdapter (src/src/terminal-takeover/                  *)
(*     terminal-handoff-adapter.ts), whose methods are the actions,        *)
(*   - ExperimentalTerminalPtyAuthority (src/src/experimental/             *)
(*     terminal-pty.ts), the gate over Lifecycle it calls,                 *)
(*   - ExperimentalTerminalWebRtcTakeover (src/src/experimental/           *)
(*     terminal-webrtc.ts), the Human's transport,                         *)
(*   - and the consumer that owns the PTY, as src/README.md:190-231 has it *)
(*     call the adapter: it claims after the Agent's writes drained,       *)
(*     confirms after the Human's did, and acknowledges after it reloaded. *)
(*                                                                         *)
(* The methods are synchronous but for the teardown of the transport, whose *)
(* two ends are two actions.  A call with an intervention or epoch that is *)
(* not the current one throws before it changed anything and is no step.   *)
(* Output to the Human, the bytes and the locator page are left out.       *)
(***************************************************************************)
EXTENDS Lifecycle, Sequences

CONSTANTS
    MaxQueue,  \* MAX_EVENT_QUEUE_ITEMS
    MaxWrites  \* bound on the writes the PTY still has to carry out

ASSUME TerminalAssumption == MaxQueue \in Nat \ {0} /\ MaxWrites \in Nat \ {0}

VARIABLES
    sessionAlive,       \* the PTY is running
    syncRequired,       \* agentStateSynchronizationRequired
    drained,            \* humanWritesDrained
    humanDisconnected,  \* what the authority was told of the transport
    transportRef,       \* #transportRef, NoRef when undefined
    session,            \* the transport's #session and its peer, NoSession when undefined
    teardown,           \* the running transport.revoke() and what follows it
    agentWrites,        \* consumer: Agent writes admitted and not carried out
    humanWrites,        \* consumer: the same for the Human's
    reloaded,           \* consumer: it reloaded the terminal since it resumed
    agentView           \* history: the Agent knows what the Human did

authorityVars == <<sessionAlive, syncRequired, drained, humanDisconnected>>
transportVars == <<transportRef, session, teardown>>
consumerVars == <<agentWrites, humanWrites, reloaded, agentView>>
vars == <<lifecycleVars, authorityVars, transportVars, consumerVars>>

NoRef == [id |-> 0, epoch |-> 0]
NoSession == [id |-> 0, epoch |-> 0, peer |-> "none", ready |-> FALSE, humanActive |-> FALSE,
              disconnected |-> FALSE, completed |-> FALSE, faulted |-> FALSE, queue |-> <<>>]
NoTeardown == [of |-> NoRef, cancels |-> FALSE]

Init ==
    /\ LifecycleInit
    /\ sessionAlive = TRUE /\ syncRequired = FALSE
    /\ drained = TRUE /\ humanDisconnected = FALSE
    /\ transportRef = NoRef /\ session = NoSession /\ teardown = NoTeardown
    /\ agentWrites = 0 /\ humanWrites = 0
    /\ reloaded = FALSE /\ agentView = TRUE
--------------------------------------------------------------------------------
\* The authority gate.

\* requireIntervention(): ref names the active intervention in this status.
At(ref, status) ==
    /\ IsActive(ref.id)
    /\ active.epoch = ref.epoch /\ active.status = status

\* effectiveAuthority(): a PTY that exited leaves the Agent nothing.
EffectiveAuthority == IF ~sessionAlive /\ Authority = "agent" THEN "none" ELSE Authority

\* assertAgentInput().
AgentMayWrite == sessionAlive /\ Authority = "agent" /\ ~syncRequired

\* beginFence().
BeginFence == sessionAlive /\ Begin /\ drained' = TRUE

\* claimHumanAfterAgentDrain(); unheard: the transport lost its peer without a word.
AuthorityClaims(ref, unheard) ==
    /\ sessionAlive /\ At(ref, "awaiting_human")
    /\ ClaimHuman(ref.id)
    /\ humanDisconnected' = unheard

\* cancelBeforeHuman(), which may throw.
MayCancel(ref) == sessionAlive /\ At(ref, "awaiting_human")

AuthorityCancels(ref) ==
    /\ Cancel(ref.id)
    /\ humanDisconnected' = FALSE /\ drained' = TRUE

\* assertHumanInput().
HumanMayWrite(ref) == sessionAlive /\ At(ref, "human_active")

\* Variant: Done does not ask the Agent to synchronise.
DoneFenceUnsynchronized(ref) ==
    /\ At(ref, "human_active")
    /\ MarkHumanComplete(ref.id)
    /\ humanDisconnected' = FALSE /\ drained' = FALSE
    /\ UNCHANGED syncRequired

\* markHumanDoneFence().
DoneFence(ref) ==
    /\ At(ref, "human_active")
    /\ MarkHumanComplete(ref.id)
    /\ humanDisconnected' = FALSE /\ syncRequired' = TRUE
    /\ drained' = FALSE

\* noteSessionExit(): a Human who had not claimed is cancelled, one who had goes to
\* verification.
AuthorityExits ==
    /\ sessionAlive' = FALSE /\ syncRequired' = TRUE /\ humanDisconnected' = FALSE
    /\ \/ /\ Suspended /\ active.status = "awaiting_human"
          /\ Cancel(active.id) /\ drained' = TRUE
       \/ /\ Suspended /\ active.status = "human_active"
          /\ MarkHumanComplete(active.id) /\ drained' = TRUE
       \/ /\ Suspended => active.status \in {"verifying", "ready_to_resume"}
          /\ UNCHANGED <<lifecycleVars, drained>>

\* confirmHumanWritesDrained().
AuthorityConfirms == Suspended /\ active.status = "verifying" /\ drained' = TRUE

\* reportVerification(satisfied).  An unsatisfied one changes nothing.
AuthorityVerifies == drained /\ Suspended /\ MarkVerified(active.id)

\* resumeAgent(), also of a PTY that exited.
AuthorityResumes == Suspended /\ ResumeAgent(active.id)

\* acknowledgeAgentStateSynchronization().
AuthorityAcknowledges == sessionAlive /\ Authority = "agent" /\ syncRequired' = FALSE
--------------------------------------------------------------------------------
\* The transport's methods.

\* start(); it needs the place free.
Startable == session = NoSession \/ session.completed

StartSession(id, e) == session' = [NoSession EXCEPT !.id = id, !.epoch = e]

\* status(): what the adapter calls ready.
TransportReady ==
    session.ready /\ ~session.disconnected /\ ~session.completed /\ ~session.faulted

\* activateHuman() and activate() of the runtime, which refuses a channel that is not open.
Activates == session' = [session EXCEPT !.humanActive = (session.peer = "open")]

\* nextEvent() finds this.
NextEvent(kind) == session.queue # <<>> /\ Head(session.queue) = kind

\* releaseCompleted().
ReleaseCompleted ==
    /\ session.completed /\ ~session.humanActive
    /\ session' = NoSession

\* revoke() up to its first await: no Human input from here on.
StartTeardown(cancels) ==
    /\ transportRef' = NoRef
    /\ session' = [session EXCEPT !.humanActive = FALSE]
    /\ teardown' = [of |-> transportRef, cancels |-> cancels]
--------------------------------------------------------------------------------
\* The adapter's methods.

\* #requireTransportRef(): the adapter has a transport for this intervention and epoch.
HasTransport == transportRef # NoRef

\* The guard of begin().
MayBegin == transportRef = NoRef /\ EffectiveAuthority = "agent" /\ ~syncRequired

\* begin(): the Agent is fenced, then the Human's transport is opened.
BeginHandoff ==
    /\ MayBegin /\ Startable
    /\ BeginFence
    /\ StartSession(issued + 1, epoch + 1)
    /\ transportRef' = [id |-> issued + 1, epoch |-> epoch + 1]
    /\ UNCHANGED <<sessionAlive, syncRequired, humanDisconnected, teardown, consumerVars>>

\* ... and when the transport cannot be opened, because none is configured or
\* one is still there, the intervention is cancelled at once.
BeginFails ==
    /\ MayBegin
    /\ issued < MaxIssued /\ epoch + 2 <= MaxEpoch
    /\ epoch' = epoch + 2 /\ issued' = issued + 1
    /\ drained' = TRUE /\ humanDisconnected' = FALSE
    /\ UNCHANGED <<active, sessionAlive, syncRequired, transportVars, consumerVars>>

\* cancelBeforeHuman(), up to the await.
CancelRequested ==
    /\ HasTransport
    /\ At(transportRef, "awaiting_human")
    /\ StartTeardown(TRUE)
    /\ UNCHANGED <<lifecycleVars, authorityVars, consumerVars>>

\* The await returns.  A cancellation goes on if the PTY still runs and nobody
\* ended the intervention meanwhile; otherwise it throws.
TeardownEnds ==
    /\ teardown # NoTeardown
    /\ session' = NoSession
    /\ teardown' = NoTeardown
    /\ IF teardown.cancels /\ MayCancel(teardown.of)
       THEN AuthorityCancels(teardown.of)
       ELSE UNCHANGED <<lifecycleVars, humanDisconnected, drained>>
    /\ UNCHANGED <<sessionAlive, syncRequired, transportRef, consumerVars>>

\* claimHumanAfterAgentDrain(): authority first, then the transport.  When the
\* transport's peer is gone without having said so, the authority stays with
\* the Human and the disconnection is recorded.
Claim ==
    /\ agentWrites = 0
    /\ HasTransport /\ TransportReady
    /\ AuthorityClaims(transportRef, session.peer # "open")
    /\ Activates
    /\ UNCHANGED <<sessionAlive, syncRequired, drained, transportRef, teardown, consumerVars>>

\* nextHumanEvent() finds keystrokes or a resize: the consumer writes them.
NextInput ==
    /\ HasTransport /\ NextEvent("input")
    /\ HumanMayWrite(transportRef)
    /\ humanWrites < MaxWrites
    /\ session' = [session EXCEPT !.queue = Tail(@)]
    /\ humanWrites' = humanWrites + 1
    /\ UNCHANGED <<lifecycleVars, authorityVars, transportRef, teardown,
                   agentWrites, reloaded, agentView>>

\* nextHumanEvent() finds Done: the transport is fenced and released, the
\* authority goes to nobody.
NextDone ==
    /\ HasTransport /\ NextEvent("done")
    /\ DoneFence(transportRef)
    /\ ReleaseCompleted
    /\ transportRef' = NoRef
    /\ UNCHANGED <<sessionAlive, teardown, consumerVars>>

\* noteHumanDisconnect(): recorded, and nothing else.
NoteHumanDisconnect ==
    /\ HasTransport
    /\ session.disconnected /\ ~session.completed
    /\ HumanMayWrite(transportRef)
    /\ humanDisconnected' = TRUE
    /\ UNCHANGED <<lifecycleVars, sessionAlive, syncRequired, drained, transportVars, consumerVars>>

\* confirmHumanDrain().
ConfirmDrain ==
    /\ humanWrites = 0
    /\ AuthorityConfirms
    /\ UNCHANGED <<lifecycleVars, sessionAlive, syncRequired, humanDisconnected,
                   transportVars, consumerVars>>

\* Variant: the verdict is taken without a look at the drain.
ReportSatisfiedUndrained ==
    /\ Suspended /\ MarkVerified(active.id)
    /\ UNCHANGED <<authorityVars, transportVars, consumerVars>>

\* reportVerification().
ReportSatisfied ==
    /\ AuthorityVerifies
    /\ UNCHANGED <<authorityVars, transportVars, consumerVars>>

\* resume(): the Agent has authority again, and still has to synchronise.
Resume ==
    /\ AuthorityResumes
    /\ reloaded' = FALSE
    /\ UNCHANGED <<authorityVars, transportVars, agentWrites, humanWrites, agentView>>

\* acknowledgeAgentStateSynchronization().
Acknowledge ==
    /\ reloaded
    /\ AuthorityAcknowledges
    /\ UNCHANGED <<lifecycleVars, sessionAlive, drained, humanDisconnected,
                   transportVars, consumerVars>>

\* noteSessionExit(): the PTY is gone for good, and the transport is torn down.
SessionExits ==
    /\ sessionAlive /\ AuthorityExits
    /\ IF transportRef = NoRef THEN UNCHANGED transportVars ELSE StartTeardown(FALSE)
    /\ UNCHANGED consumerVars

\* revokeTransport(): the authority stays where it is.
RevokeTransport ==
    /\ transportRef # NoRef
    /\ humanDisconnected' = (humanDisconnected \/ At(transportRef, "human_active"))
    /\ StartTeardown(FALSE)
    /\ UNCHANGED <<lifecycleVars, sessionAlive, syncRequired, drained, consumerVars>>
--------------------------------------------------------------------------------
\* The transport's own events leave everything else alone.
Peer(s) ==
    /\ session # NoSession
    /\ session' = s
    /\ UNCHANGED <<lifecycleVars, authorityVars, transportRef, teardown, consumerVars>>

\* The ready hook: the channel of the one connection opened.
PeerReady ==
    /\ session.peer = "none"
    /\ Peer([session EXCEPT !.peer = "open", !.ready = TRUE])

\* The disconnected hook: a session that is completed takes no note of it.
PeerLost ==
    /\ session.peer = "open"
    /\ Peer([session EXCEPT !.peer = "gone", !.humanActive = FALSE, !.disconnected = TRUE])

\* The lease runs out, or the connection's setup fails, which is final too: the
\* runtime closes the peer, and its hooks do not fire for a close of its own.
LeaseExpires ==
    /\ session.peer # "gone"
    /\ Peer([session EXCEPT !.peer = "gone"])

\* acceptMessage() takes nothing unless the Human is active.
Accepting == session.peer = "open" /\ session.humanActive

HumanTypes ==
    /\ Accepting /\ Len(session.queue) < MaxQueue
    /\ Peer([session EXCEPT !.queue = Append(@, "input")])

\* Variant: a Done that finds the queue full completes without being queued.
HumanDoneUnqueued ==
    /\ Accepting
    /\ Peer([session EXCEPT !.humanActive = FALSE, !.completed = TRUE, !.peer = "gone",
                            !.queue = IF Len(@) < MaxQueue THEN Append(@, "done") ELSE @])

\* Done is queued behind what was typed, and ends the transport.
HumanDone ==
    /\ Accepting /\ Len(session.queue) < MaxQueue
    /\ Peer([session EXCEPT !.humanActive = FALSE, !.completed = TRUE, !.peer = "gone",
                            !.queue = Append(@, "done")])

\* A malformed message, or one too many: faultSession().
SessionFaults ==
    /\ Accepting
    /\ Peer([session EXCEPT !.humanActive = FALSE, !.faulted = TRUE, !.peer = "gone"])
--------------------------------------------------------------------------------
\* The consumer asks before each Agent write.
AgentWrites ==
    /\ AgentMayWrite
    /\ agentWrites < MaxWrites
    /\ agentWrites' = agentWrites + 1
    /\ UNCHANGED <<lifecycleVars, authorityVars, transportVars, humanWrites, reloaded, agentView>>

\* The PTY carries out an admitted write.
AgentWriteLands ==
    /\ agentWrites > 0
    /\ agentWrites' = agentWrites - 1
    /\ UNCHANGED <<lifecycleVars, authorityVars, transportVars, humanWrites, reloaded, agentView>>

HumanWriteLands ==
    /\ humanWrites > 0
    /\ humanWrites' = humanWrites - 1
    /\ agentView' = FALSE
    /\ UNCHANGED <<lifecycleVars, authorityVars, transportVars, agentWrites, reloaded>>

\* invalidateAndReloadAgentPtyState().
Reload ==
    /\ sessionAlive /\ Authority = "agent" /\ syncRequired
    /\ reloaded' = TRUE /\ agentView' = TRUE
    /\ UNCHANGED <<lifecycleVars, authorityVars, transportVars, agentWrites, humanWrites>>

NextHumanEvent == NextInput \/ NextDone
--------------------------------------------------------------------------------
(***************************************************************************)
(* What the Agent and what the Human wrote never wait for the PTY at the   *)
(* same time, so they cannot mix ("exclusive authority", class comment of  *)
(* ExperimentalTerminalPtyAuthority): a fence, a drain and a flag on each  *)
(* side make it so.                                                        *)
(***************************************************************************)
WritersDoNotMix == agentWrites = 0 \/ humanWrites = 0

(***************************************************************************)
(* No Agent write is admitted while the Agent's picture of the terminal    *)
(* predates something the Human did.                                       *)
(***************************************************************************)
AgentActsOnCurrentView == [][agentWrites' > agentWrites => agentView]_vars

(***************************************************************************)
(* A Done the transport accepted ends the Human period, whatever is queued *)
(* before it, unless the consumer throws the transport away.               *)
(***************************************************************************)
DoneEndsHumanPeriod == session.completed ~> (Authority # "human" \/ transportRef = NoRef)
================================================================================
