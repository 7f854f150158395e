---------------------------- MODULE TerminalTransport ----------------------------
(***************************************************************************)
(* TerminalHandoff with the Human's transport in full: the page's two      *)
(* requests, the session record they are checked against, and              *)
(* TerminalDataChannelRuntime with its prepared and active connections     *)
(* (src/src/experimental/terminal-webrtc.ts, src/src/browser-takeover/     *)
(* session.ts).  Every step of the handoff is taken together with what it  *)
(* does to the runtime; the steps of the runtime alone leave the handoff   *)
(* as it is.                                                               *)
(*                                                                         *)
(* A session is named by its intervention.  One page talks to it: it asks  *)
(* for one preparation, then for one connection, and another client is     *)
(* refused.  So no session ever has a prepared and an active connection at *)
(* once, and a revocation of the runtime takes whichever there is in one   *)
(* step; what it awaits then settles in steps of its own.  The deployment  *)
(* has an ICE provider.                                                    *)
(***************************************************************************)
EXTENDS TerminalHandoff

VARIABLES
    record,      \* the session record: none, made, claimed, released or revoked
    leaseOver,   \* the record's expiresAt has passed
    page,        \* how far the page's requests have come
    prepared,    \* the session is in #prepared
    runtime,     \* its peer: none, open or lost (in #active), closing, closed
    input,       \* inputEnabled
    credential,  \* the ICE credential: none, issued, revoking, revoked
    awaits       \* the running teardown found something to wait for

connectionVars == <<record, leaseOver, page, prepared, runtime, input, credential, awaits>>
transportHandoffVars == <<vars, connectionVars>>

Sessions == 1..MaxIssued

TransportInit ==
    /\ Init
    /\ record = [s \in Sessions |-> "none"] /\ leaseOver = [s \in Sessions |-> FALSE]
    /\ page = [s \in Sessions |-> "away"]
    /\ prepared = [s \in Sessions |-> FALSE] /\ runtime = [s \in Sessions |-> "none"]
    /\ input = [s \in Sessions |-> FALSE] /\ credential = [s \in Sessions |-> "none"]
    /\ awaits = FALSE

\* verify(): the capability of the claim still counts.
Verified(s) == record[s] = "claimed" /\ ~leaseOver[s]

\* releaseClientGeneration(), refused for a record that is over.
Released(s) == record' = [record EXCEPT ![s] = IF Verified(s) THEN "released" ELSE @]

InMap(s) == runtime[s] \in {"open", "lost"}

\* Variant: the credential of a peer is forgotten with it.
RuntimeRevokedKeepingCredential(s) ==
    /\ prepared' = [prepared EXCEPT ![s] = FALSE]
    /\ runtime' = [runtime EXCEPT ![s] = IF InMap(s) THEN "closing" ELSE @]
    /\ input' = [input EXCEPT ![s] = FALSE]
    /\ credential' = [credential EXCEPT ![s] =
            IF prepared[s] /\ @ = "issued" THEN "revoking" ELSE IF InMap(s) THEN "none" ELSE @]

\* revoke(), revokePrepared() and revokeActive() up to what they await: nothing of the
\* session is in a map any more, and a closing peer takes no input and calls no hook.
RuntimeRevoked(s) ==
    /\ prepared' = [prepared EXCEPT ![s] = FALSE]
    /\ runtime' = [runtime EXCEPT ![s] = IF InMap(s) THEN "closing" ELSE @]
    /\ input' = [input EXCEPT ![s] = FALSE]
    /\ credential' = [credential EXCEPT ![s] = IF prepared[s] /\ @ = "issued" THEN "revoking" ELSE @]

RuntimeUnchanged == UNCHANGED <<prepared, runtime, input, credential>>
--------------------------------------------------------------------------------
\* The steps of the handoff that touch the transport.
TransportBegins ==
    /\ BeginHandoff
    /\ record' = [record EXCEPT ![issued + 1] = "made"]
    /\ RuntimeUnchanged /\ UNCHANGED <<leaseOver, page, awaits>>

\* activateHuman(): the runtime's gate opens before the session's.
TransportClaims ==
    /\ Claim
    /\ input' = [input EXCEPT ![session.id] = session.peer = "open"]
    /\ UNCHANGED <<record, leaseOver, page, prepared, runtime, credential, awaits>>

\* Variant: the PTY's exit ends the session and forgets its connection.
TransportRevokesNotOnExit ==
    /\ \/ CancelRequested \/ RevokeTransport
       \/ SessionExits /\ transportRef # NoRef
    /\ IF sessionAlive' THEN RuntimeRevoked(session.id) ELSE RuntimeUnchanged
    /\ awaits' = InMap(session.id)
    /\ UNCHANGED <<record, leaseOver, page>>

\* revoke() up to its await, on behalf of the adapter.
TransportRevokes ==
    /\ \/ CancelRequested \/ RevokeTransport
       \/ SessionExits /\ transportRef # NoRef
    /\ RuntimeRevoked(session.id)
    /\ awaits' = (InMap(session.id) \/ (prepared[session.id] /\ credential[session.id] = "issued"))
    /\ UNCHANGED <<record, leaseOver, page>>

\* ... and after it: what it waited for has settled.
TeardownSettled ==
    awaits => runtime[session.id] # "closing" /\ credential[session.id] # "revoking"

TransportRevoked ==
    /\ TeardownEnds
    /\ TeardownSettled
    /\ record' = IF session = NoSession THEN record
                 ELSE [record EXCEPT ![session.id] = "revoked"]
    /\ awaits' = FALSE
    /\ RuntimeUnchanged /\ UNCHANGED <<leaseOver, page>>

\* The channel of the answered connection opens.
ChannelOpens ==
    /\ PeerReady
    /\ page[session.id] = "connected" /\ runtime[session.id] = "open"
    /\ UNCHANGED connectionVars

\* The connection is lost.  The peer stays in #active, with its gate closed.
ChannelLost ==
    /\ PeerLost
    /\ runtime[session.id] = "open"
    /\ runtime' = [runtime EXCEPT ![session.id] = "lost"]
    /\ input' = [input EXCEPT ![session.id] = FALSE]
    /\ UNCHANGED <<record, leaseOver, page, prepared, credential, awaits>>

\* Variant: Done leaves the connection to its timer.
DoneAcceptedKeepingPeer ==
    /\ HumanDone
    /\ input[session.id]
    /\ input' = [input EXCEPT ![session.id] = FALSE]
    /\ record' = [record EXCEPT ![session.id] = "revoked"]
    /\ UNCHANGED <<leaseOver, page, prepared, runtime, credential, awaits>>

\* acceptMessage() of a Done fences, revokes the record and the runtime.
DoneAccepted ==
    /\ HumanDone
    /\ input[session.id]
    /\ RuntimeRevoked(session.id)
    /\ record' = [record EXCEPT ![session.id] = "revoked"]
    /\ UNCHANGED <<leaseOver, page, awaits>>

\* faultSession(), and a message beyond the channel's limit.
Faulted ==
    /\ SessionFaults
    /\ input[session.id]
    /\ RuntimeRevoked(session.id)
    /\ UNCHANGED <<record, leaseOver, page, awaits>>

\* Everything else the handoff does.
HandoffOnly ==
    /\ \/ BeginFails \/ NextHumanEvent \/ NoteHumanDisconnect \/ ConfirmDrain
       \/ ReportSatisfied \/ Resume \/ Acknowledge
       \/ SessionExits /\ transportRef = NoRef
       \/ HumanTypes /\ input[session.id]
       \/ AgentWrites \/ AgentWriteLands \/ HumanWriteLands \/ Reload
    /\ UNCHANGED connectionVars
--------------------------------------------------------------------------------
\* The transport's peer of the current session closes without a word to it.
Silently(s) ==
    IF session.id = s /\ InMap(s) /\ session.peer # "gone" THEN LeaseExpires ELSE UNCHANGED vars

\* handle(): the id of the request's path is that of the transport's session.
Addressed(s) == session.id = s

\* handlePrepare(): the client's claim, up to the ICE credential.
Prepare(s) ==
    /\ Addressed(s) /\ ~session.completed
    /\ page[s] = "away" /\ record[s] = "made" /\ ~leaseOver[s]
    /\ record' = [record EXCEPT ![s] = "claimed"]
    /\ page' = [page EXCEPT ![s] = "preparing"]
    /\ RuntimeUnchanged /\ UNCHANGED <<vars, leaseOver, awaits>>

\* ... which came, or could not be had: nobody asks what became of the session.
Prepared(s) ==
    /\ page[s] = "preparing"
    /\ page' = [page EXCEPT ![s] = "prepared"]
    /\ prepared' = [prepared EXCEPT ![s] = TRUE]
    /\ \E c \in {"issued", "none"} : credential' = [credential EXCEPT ![s] = c]
    /\ UNCHANGED <<vars, record, leaseOver, runtime, input, awaits>>

\* handleConnect() up to the end of the request's body.
ConnectArrives(s) ==
    /\ Addressed(s) /\ page[s] = "prepared"
    /\ page' = [page EXCEPT ![s] = "offering"]
    /\ RuntimeUnchanged /\ UNCHANGED <<vars, record, leaseOver, awaits>>

\* start(): the prepared connection becomes the active one.
Connect(s) ==
    /\ page[s] = "offering" /\ Verified(s) /\ prepared[s]
    /\ page' = [page EXCEPT ![s] = "connecting"]
    /\ prepared' = [prepared EXCEPT ![s] = FALSE]
    /\ runtime' = [runtime EXCEPT ![s] = "open"]
    /\ UNCHANGED <<vars, record, leaseOver, input, credential, awaits>>

\* The answer is on its way to the page.
Answered(s) ==
    /\ page[s] = "connecting"
    /\ page' = [page EXCEPT ![s] = "connected"]
    /\ RuntimeUnchanged /\ UNCHANGED <<vars, record, leaseOver, awaits>>

\* A connection is refused, or its negotiation failed: the claim is given back and the
\* runtime of the session revoked.
ConnectFails(s) ==
    /\ \/ page[s] = "offering" /\ ~(Verified(s) /\ prepared[s])
       \/ page[s] = "connecting"
    /\ page' = [page EXCEPT ![s] = "refused"]
    /\ IF page[s] = "offering" /\ ~Verified(s) THEN RuntimeUnchanged /\ UNCHANGED <<vars, record>>
       ELSE Released(s) /\ RuntimeRevoked(s) /\ Silently(s)
    /\ UNCHANGED <<leaseOver, awaits>>

\* A peer is lost before its channel opened: the session has no generation to note it.
LostUnopened(s) ==
    /\ runtime[s] = "open" /\ ~(session.id = s /\ session.peer = "open")
    /\ runtime' = [runtime EXCEPT ![s] = "lost"]
    /\ input' = [input EXCEPT ![s] = FALSE]
    /\ UNCHANGED <<vars, record, leaseOver, page, prepared, credential, awaits>>

LeaseEnds(s) ==
    /\ record[s] # "none" /\ ~leaseOver[s]
    /\ leaseOver' = [leaseOver EXCEPT ![s] = TRUE]
    /\ RuntimeUnchanged /\ UNCHANGED <<vars, record, page, awaits>>

\* The timer of a prepared or active connection.
TimerFires(s) ==
    /\ leaseOver[s] /\ (prepared[s] \/ InMap(s))
    /\ RuntimeRevoked(s) /\ Silently(s)
    /\ UNCHANGED <<record, leaseOver, page, awaits>>

\* peer.close() settles; the credential of the peer is revoked next.
PeerClosed(s) ==
    /\ runtime[s] = "closing"
    /\ runtime' = [runtime EXCEPT ![s] = "closed"]
    /\ credential' = [credential EXCEPT ![s] = IF @ = "issued" THEN "revoking" ELSE @]
    /\ UNCHANGED <<vars, record, leaseOver, page, prepared, input, awaits>>

\* External: the provider took the credential back, or failed to.
CredentialRevoked(s) ==
    /\ credential[s] = "revoking"
    /\ credential' = [credential EXCEPT ![s] = "revoked"]
    /\ UNCHANGED <<vars, record, leaseOver, page, prepared, runtime, input, awaits>>

\* What timers and the network owe a session.
RuntimeSettles ==
    \E s \in Sessions :
        \/ LeaseEnds(s) \/ TimerFires(s) \/ PeerClosed(s) \/ CredentialRevoked(s)
        \/ Prepared(s) \/ Connect(s) \/ ConnectFails(s)

\* A teardown with nothing to wait for ends before anything else runs.
Urgent == teardown # NoTeardown /\ ~awaits

TransportNext ==
    \/ TransportRevoked
    \/ /\ ~Urgent
       /\ \/ TransportBegins \/ TransportClaims \/ TransportRevokes
          \/ ChannelOpens \/ ChannelLost \/ DoneAccepted \/ Faulted \/ HandoffOnly
          \/ \E s \in Sessions : Prepare(s) \/ ConnectArrives(s) \/ Answered(s) \/ LostUnopened(s)
          \/ RuntimeSettles

\* A teardown whose waits are over ends, the consumer pulls what the Human sent, the
\* PTY carries out what it accepted, and timers and the network settle.
TransportSpec ==
    /\ TransportInit /\ [][TransportNext]_transportHandoffVars
    /\ WF_transportHandoffVars(TransportRevoked)
    /\ WF_transportHandoffVars(HandoffOnly /\ NextHumanEvent)
    /\ WF_transportHandoffVars(HandoffOnly /\ HumanWriteLands)
    /\ WF_transportHandoffVars(RuntimeSettles)
--------------------------------------------------------------------------------
(***************************************************************************)
(* No peer outlives its session: a connection that is still in the runtime *)
(* belongs to the transport's session, which is neither completed nor      *)
(* faulted, so its hooks find what they speak of and a teardown reaches    *)
(* it, however requests, timers, Done and revocations overlap.             *)
(***************************************************************************)
NoPeerBehindTeardown ==
    \A s \in Sessions : InMap(s) => session.id = s /\ ~session.completed /\ ~session.faulted

(***************************************************************************)
(* The runtime takes Human input only when the session does and while the  *)
(* authority says Human, for that very intervention and epoch, and never   *)
(* for a PTY that exited: four parties agree, two of which learn of it by  *)
(* a hook or a call that may come late.                                    *)
(***************************************************************************)
InputFollowsAuthority ==
    \A s \in Sessions : input[s] =>
        /\ session.id = s /\ session.humanActive
        /\ sessionAlive /\ Authority = "human"
        /\ active.id = s /\ active.epoch = session.epoch

(***************************************************************************)
(* No ICE credential stays issued for good, also when its preparation came *)
(* back after the session had been torn down.                              *)
(***************************************************************************)
CredentialsSettle ==
    \A s \in Sessions : credential[s] = "issued" ~> credential[s] = "revoked"
================================================================================
