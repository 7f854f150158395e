----------------------- MODULE TerminalTransportProofs ------------------------
(***************************************************************************)
(* Machine-checked theorems on TerminalTransport, for every number of      *)
(* interventions, queued items and pending writes.  HandoffInv speaks of   *)
(* the authority, the transport's session and the writes of both sides;    *)
(* ConnectionInv of the page, the record and the runtime of each session,  *)
(* and of what a teardown that waits leaves possible meanwhile.            *)
(***************************************************************************)
EXTENDS TerminalTransport, TLAPS

--------------------------------------------------------------------------------
\* The inductive invariant, in its parts.

Session == [id: Nat, epoch: Nat, peer: {"none", "open", "gone"}, ready: BOOLEAN,
            humanActive: BOOLEAN, disconnected: BOOLEAN, completed: BOOLEAN,
            faulted: BOOLEAN, queue: Seq({"input", "done"})]

HandoffTypeOK ==
    /\ epoch \in Nat /\ issued \in Nat
    /\ active \in Intervention \union {NoIntervention}
    /\ session \in Session
    /\ session.id <= issued /\ (session.id = 0 => session = NoSession)
    /\ agentWrites \in Nat /\ humanWrites \in Nat

Status(s) == Suspended /\ active.status = s

\* What the Human was given, the Agent's writes had drained; and what the Human
\* wrote drains before the Agent is given anything.
WritesDrain ==
    /\ Status("human_active") \/ Status("verifying") \/ Status("ready_to_resume")
          => agentWrites = 0
    /\ humanWrites > 0 /\ sessionAlive =>
          Status("human_active") \/ (Status("verifying") /\ ~drained)

\* An Agent that does not know what the Human did has to reload and to say so.
ViewInv ==
    /\ sessionAlive /\ (Status("verifying") \/ Status("ready_to_resume")) => syncRequired
    /\ ~agentView /\ sessionAlive =>
          \/ Status("human_active") \/ Status("verifying") \/ Status("ready_to_resume")
          \/ ~Suspended /\ syncRequired /\ ~reloaded

\* The adapter's reference, the transport's session and the authority belong
\* together, and a running teardown has taken the session out of their hands.
RefInv ==
    /\ transportRef # NoRef =>
          /\ session # NoSession /\ teardown = NoTeardown
          /\ transportRef = [id |-> session.id, epoch |-> session.epoch]
    /\ session.humanActive =>
          transportRef # NoRef /\ sessionAlive /\ At(transportRef, "human_active")
    /\ session.completed =>
          ~session.humanActive /\ (~sessionAlive \/ Status("human_active"))
    /\ teardown # NoTeardown => session # NoSession /\ ~session.humanActive

HandoffInv == HandoffTypeOK /\ WritesDrain /\ WritersDoNotMix /\ ViewInv /\ RefInv

ConnectionTypeOK ==
    /\ record \in [Sessions -> {"none", "made", "claimed", "released", "revoked"}]
    /\ page \in [Sessions -> {"away", "preparing", "prepared", "offering", "connecting",
                              "connected", "refused"}]
    /\ prepared \in [Sessions -> BOOLEAN]
    /\ runtime \in [Sessions -> {"none", "open", "lost", "closing", "closed"}]
    /\ input \in [Sessions -> BOOLEAN]
    /\ issued <= MaxIssued

\* Where a session's page is, and who has its connection.
PageInv == \A s \in Sessions :
    /\ s > issued => page[s] = "away"
    /\ prepared[s] => page[s] \in {"prepared", "offering", "refused"}
    /\ InMap(s) => page[s] \in {"connecting", "connected"}
    /\ session.id = s /\ (session.peer = "open" \/ session.faulted) => page[s] = "connected"

\* A record that still admits a client is that of the transport's session.
RecordInv == \A s \in Sessions :
    record[s] \in {"made", "claimed"} => session.id = s /\ ~session.completed

\* The runtime takes input of an active session only.
InputInv == \A s \in Sessions : input[s] => session.id = s /\ session.humanActive

\* While a teardown waits, its session has no connection and cannot get one.
TeardownInv ==
    teardown # NoTeardown =>
        \A s \in Sessions : session.id = s =>
            /\ ~InMap(s)
            /\ awaits => page[s] \notin {"away", "preparing"} /\ ~prepared[s]

ConnectionInv ==
    /\ ConnectionTypeOK
    /\ NoPeerBehindTeardown /\ PageInv /\ RecordInv /\ InputInv /\ TeardownInv

TransportInv == HandoffInv /\ ConnectionInv
--------------------------------------------------------------------------------
\* What the methods of ExecutionHandoffState do to the intervention.
LEMMA LifecycleFacts ==
    ASSUME active \in Intervention \union {NoIntervention}, epoch \in Nat, issued \in Nat,
           NEW id
    PROVE  /\ Begin => /\ ~Suspended /\ Status("awaiting_human")' /\ active' \in Intervention
                       /\ active'.id = issued + 1 /\ active'.epoch = epoch + 1
                       /\ epoch' = epoch + 1 /\ issued' = issued + 1
           /\ ClaimHuman(id) =>
                 /\ Suspended /\ Status("human_active")' /\ active' \in Intervention
                 /\ active'.id = active.id /\ active'.epoch = active.epoch
                 /\ UNCHANGED <<epoch, issued>>
           /\ MarkHumanComplete(id) =>
                 /\ Status("human_active") /\ Status("verifying")' /\ active' \in Intervention
                 /\ epoch' = epoch + 1 /\ issued' = issued
           /\ MarkVerified(id) =>
                 /\ Status("verifying") /\ Status("ready_to_resume")' /\ active' \in Intervention
                 /\ UNCHANGED <<epoch, issued>>
           /\ ResumeAgent(id) =>
                 /\ Status("ready_to_resume") /\ ~Suspended' /\ active' = NoIntervention
                 /\ UNCHANGED <<epoch, issued>>
           /\ Cancel(id) =>
                 /\ Suspended /\ ~Suspended' /\ active' = NoIntervention
                 /\ epoch' = epoch + 1 /\ issued' = issued
<1>1. Begin => /\ ~Suspended /\ Status("awaiting_human")' /\ active' \in Intervention
               /\ active'.id = issued + 1 /\ active'.epoch = epoch + 1
               /\ epoch' = epoch + 1 /\ issued' = issued + 1
      BY DEF Begin, Status, Suspended, Intervention, InterventionStatus, NoIntervention
<1>2. ClaimHuman(id) =>
          /\ Suspended /\ Status("human_active")' /\ active' \in Intervention
          /\ active'.id = active.id /\ active'.epoch = active.epoch
          /\ UNCHANGED <<epoch, issued>>
  <2> SUFFICES ASSUME ClaimHuman(id)
               PROVE  /\ Suspended /\ Status("human_active")' /\ active' \in Intervention
                      /\ active'.id = active.id /\ active'.epoch = active.epoch
                      /\ UNCHANGED <<epoch, issued>>
      OBVIOUS
  <2>1. /\ Suspended /\ active \in Intervention /\ UNCHANGED <<epoch, issued>>
        /\ active' = [active EXCEPT !.status = "human_active", !.authority = "human"]
        BY DEF ClaimHuman, IsActive, Suspended
  <2>2. /\ active' \in Intervention /\ active'.status = "human_active"
        /\ active'.id = active.id /\ active'.epoch = active.epoch
        BY <2>1 DEF Intervention, InterventionStatus
  <2>3. active' # NoIntervention
        BY <2>2 DEF NoIntervention
  <2> QED BY <2>1, <2>2, <2>3 DEF Status, Suspended
<1>3. MarkHumanComplete(id) =>
          /\ Status("human_active") /\ Status("verifying")' /\ active' \in Intervention
          /\ epoch' = epoch + 1 /\ issued' = issued
  <2> SUFFICES ASSUME MarkHumanComplete(id)
               PROVE  /\ Status("human_active") /\ Status("verifying")' /\ active' \in Intervention
                      /\ epoch' = epoch + 1 /\ issued' = issued
      OBVIOUS
  <2>1. /\ Status("human_active") /\ active \in Intervention
        /\ epoch' = epoch + 1 /\ issued' = issued
        /\ active' = [active EXCEPT !.status = "verifying", !.authority = "none",
                                    !.epoch = epoch + 1]
        BY DEF MarkHumanComplete, IsActive, Suspended, Status
  <2>2. active' = [id |-> active.id, status |-> "verifying", authority |-> "none",
                   epoch |-> epoch + 1]
        BY <2>1 DEF Intervention
  <2>3. active' \in Intervention /\ active'.status = "verifying"
        BY <2>1, <2>2 DEF Intervention, InterventionStatus
  <2>4. active' # NoIntervention
        BY <2>3 DEF NoIntervention
  <2> QED BY <2>1, <2>3, <2>4 DEF Status, Suspended
<1>4. MarkVerified(id) =>
          /\ Status("verifying") /\ Status("ready_to_resume")' /\ active' \in Intervention
          /\ UNCHANGED <<epoch, issued>>
      BY DEF MarkVerified, IsActive, Status, Suspended, Intervention, InterventionStatus,
             NoIntervention
<1>5. ResumeAgent(id) => /\ Status("ready_to_resume") /\ ~Suspended' /\ active' = NoIntervention
                         /\ UNCHANGED <<epoch, issued>>
      BY DEF ResumeAgent, IsActive, Status, Suspended
<1>6. Cancel(id) => /\ Suspended /\ ~Suspended' /\ active' = NoIntervention
                    /\ epoch' = epoch + 1 /\ issued' = issued
      BY DEF Cancel, IsActive, Suspended
<1> QED BY <1>1, <1>2, <1>3, <1>4, <1>5, <1>6

\* Only one status at a time, and none without an intervention.
LEMMA AuthorityStatus ==
    /\ Authority = "agent" <=> ~Suspended
    /\ Authority = "human" <=> Status("human_active")
  BY DEF Authority, Status

\* Events of the transport's peer: the session keeps its name, input is only ever
\* taken away, and only an active session is completed.
LEMMA PeerEventInv ==
    ASSUME HandoffInv, session # NoSession, session' \in Session,
           session'.id = session.id, session'.epoch = session.epoch,
           session'.humanActive => session.humanActive,
           session'.completed =>
               ~session'.humanActive /\ (session.completed \/ session.humanActive),
           UNCHANGED <<lifecycleVars, authorityVars, transportRef, teardown, consumerVars>>
    PROVE  HandoffInv'
<1>1. HandoffTypeOK /\ WritesDrain /\ WritersDoNotMix /\ ViewInv /\ RefInv
      BY DEF HandoffInv
<1>2. /\ UNCHANGED <<epoch, active, issued, sessionAlive, syncRequired, drained, transportRef,
                     teardown, agentWrites, humanWrites, reloaded, agentView>>
      /\ Suspended' = Suspended /\ \A st : Status(st)' = Status(st)
      BY DEF lifecycleVars, authorityVars, consumerVars, Suspended, Status
<1>3. session.id # 0 /\ session' # NoSession
      BY <1>1 DEF HandoffTypeOK, NoSession
<1>4. HandoffTypeOK' /\ WritesDrain' /\ WritersDoNotMix' /\ ViewInv'
      BY <1>1, <1>2, <1>3 DEF HandoffTypeOK, WritesDrain, WritersDoNotMix, ViewInv
<1>5. RefInv'
      BY <1>1, <1>2, <1>3 DEF RefInv, At, IsActive, Status
<1> QED BY <1>4, <1>5 DEF HandoffInv

\* What the peer may cause keeps the invariant of the handoff.
LEMMA PeerEvents ==
    ASSUME HandoffInv,
           PeerReady \/ PeerLost \/ LeaseExpires \/ HumanTypes \/ HumanDone \/ SessionFaults
    PROVE  HandoffInv'
<1>1. session \in Session /\ session # NoSession
      BY DEF HandoffInv, HandoffTypeOK, PeerReady, PeerLost, LeaseExpires, HumanTypes,
             HumanDone, SessionFaults, Peer
<1>2. /\ session' \in Session /\ session'.id = session.id /\ session'.epoch = session.epoch
      /\ session'.humanActive => session.humanActive
      /\ session'.completed =>
             ~session'.humanActive /\ (session.completed \/ session.humanActive)
  <2>1. session.completed => ~session.humanActive
        BY DEF HandoffInv, RefInv
  <2>2. CASE PeerReady
        BY <1>1, <2>1, <2>2 DEF PeerReady, Peer, Session
  <2>3. CASE PeerLost
        BY <1>1, <2>1, <2>3 DEF PeerLost, Peer, Session
  <2>4. CASE LeaseExpires
        BY <1>1, <2>1, <2>4 DEF LeaseExpires, Peer, Session
  <2>5. CASE HumanTypes
    <3> DEFINE q == Append(session.queue, "input")
    <3>1. q \in Seq({"input", "done"}) /\ session' = [session EXCEPT !.queue = q]
          BY <1>1, <2>5 DEF HumanTypes, Peer, Session
    <3> HIDE DEF q
    <3> QED BY <1>1, <2>1, <3>1 DEF Session
  <2>6. CASE HumanDone
    <3> DEFINE q == Append(session.queue, "done")
    <3>1. /\ q \in Seq({"input", "done"}) /\ session.humanActive
          /\ session' = [session EXCEPT !.humanActive = FALSE, !.completed = TRUE,
                                        !.peer = "gone", !.queue = q]
          BY <1>1, <2>6 DEF HumanDone, Accepting, Peer, Session
    <3> HIDE DEF q
    <3> QED BY <1>1, <2>1, <3>1 DEF Session
  <2>7. CASE SessionFaults
        BY <1>1, <2>1, <2>7 DEF SessionFaults, Accepting, Peer, Session
  <2> QED BY <2>2, <2>3, <2>4, <2>5, <2>6, <2>7
<1>3. UNCHANGED <<lifecycleVars, authorityVars, transportRef, teardown, consumerVars>>
      BY DEF PeerReady, PeerLost, LeaseExpires, HumanTypes, HumanDone, SessionFaults, Peer
<1> QED BY <1>1, <1>2, <1>3, PeerEventInv

\* The writes of both sides, the reload, and what the adapter is told or asked in
\* a period that goes on.
LEMMA WriteSteps ==
    ASSUME HandoffInv,
           \/ AgentWrites \/ AgentWriteLands \/ HumanWriteLands \/ Reload
           \/ NoteHumanDisconnect \/ ConfirmDrain \/ Acknowledge
    PROVE  HandoffInv'
<1>1. HandoffTypeOK /\ WritesDrain /\ WritersDoNotMix /\ ViewInv /\ RefInv
      BY DEF HandoffInv
<1>2. /\ UNCHANGED <<epoch, active, issued, sessionAlive, transportRef, session, teardown>>
      /\ Suspended' = Suspended /\ Authority' = Authority
      /\ \A st : Status(st)' = Status(st)
      BY DEF AgentWrites, AgentWriteLands, HumanWriteLands, Reload, NoteHumanDisconnect,
             ConfirmDrain, Acknowledge, lifecycleVars, authorityVars, transportVars,
             Suspended, Status, Authority
<1>3. RefInv'
      BY <1>1, <1>2 DEF RefInv, At, IsActive
<1>4. agentWrites \in Nat /\ humanWrites \in Nat
      BY <1>1 DEF HandoffTypeOK
<1>5. CASE AgentWrites
  <2>1. /\ agentWrites' = agentWrites + 1 /\ sessionAlive /\ ~Suspended /\ ~syncRequired
        /\ UNCHANGED <<humanWrites, syncRequired, drained, reloaded, agentView>>
        BY <1>5, AuthorityStatus DEF AgentWrites, AgentMayWrite, authorityVars
  <2>2. humanWrites = 0
        BY <1>1, <1>4, <2>1 DEF WritesDrain, Status
  <2> QED BY <1>1, <1>2, <1>3, <1>4, <2>1, <2>2
          DEF HandoffInv, HandoffTypeOK, WritesDrain, WritersDoNotMix, ViewInv, Status
<1>6. CASE AgentWriteLands
      BY <1>1, <1>2, <1>3, <1>4, <1>6
      DEF AgentWriteLands, authorityVars, HandoffInv, HandoffTypeOK, WritesDrain,
          WritersDoNotMix, ViewInv
<1>7. CASE HumanWriteLands
      BY <1>1, <1>2, <1>3, <1>4, <1>7
      DEF HumanWriteLands, authorityVars, HandoffInv, HandoffTypeOK, WritesDrain,
          WritersDoNotMix, ViewInv
<1>8. CASE Reload
      BY <1>1, <1>2, <1>3, <1>4, <1>8
      DEF Reload, authorityVars, HandoffInv, HandoffTypeOK, WritesDrain,
          WritersDoNotMix, ViewInv
<1>9. CASE NoteHumanDisconnect
      BY <1>1, <1>2, <1>3, <1>4, <1>9
      DEF NoteHumanDisconnect, consumerVars, HandoffInv, HandoffTypeOK, WritesDrain,
          WritersDoNotMix, ViewInv
<1>10. CASE ConfirmDrain
      BY <1>1, <1>2, <1>3, <1>4, <1>10
      DEF ConfirmDrain, consumerVars, HandoffInv, HandoffTypeOK, WritesDrain,
          WritersDoNotMix, ViewInv
<1>11. CASE Acknowledge
  <2>1. /\ reloaded /\ ~Suspended
        /\ UNCHANGED <<drained, agentWrites, humanWrites, reloaded, agentView>>
        BY <1>11, AuthorityStatus DEF Acknowledge, AuthorityAcknowledges, consumerVars
  <2> QED BY <1>1, <1>2, <1>3, <1>4, <2>1
          DEF HandoffInv, HandoffTypeOK, WritesDrain, WritersDoNotMix, ViewInv, Status
<1> QED BY <1>5, <1>6, <1>7, <1>8, <1>9, <1>10, <1>11

\* nextHumanEvent() hands the consumer what the Human typed: the Agent's writes had
\* drained before the Human could type.
LEMMA NextInputInv == HandoffInv /\ NextInput => HandoffInv'
<1> SUFFICES ASSUME HandoffInv, NextInput PROVE HandoffInv'
    OBVIOUS
<1>1. HandoffTypeOK /\ WritesDrain /\ WritersDoNotMix /\ ViewInv /\ RefInv
      BY DEF HandoffInv
<1>2. /\ UNCHANGED <<epoch, active, issued, sessionAlive, syncRequired, drained, transportRef,
                     teardown, agentWrites, reloaded, agentView>>
      /\ humanWrites' = humanWrites + 1 /\ Status("human_active")
      /\ Suspended' = Suspended /\ \A st : Status(st)' = Status(st)
      BY DEF NextInput, HumanMayWrite, At, IsActive, Status, Suspended, lifecycleVars,
             authorityVars
<1>3. session' \in Session /\ session'.id = session.id /\ session'.epoch = session.epoch
      /\ session'.humanActive = session.humanActive /\ session'.completed = session.completed
  <2> DEFINE q == Tail(session.queue)
  <2>1. session' = [session EXCEPT !.queue = q] /\ session \in Session
        BY <1>1 DEF NextInput, HandoffTypeOK
  <2>2. q \in Seq({"input", "done"})
        BY <2>1 DEF NextInput, NextEvent, Session
  <2> HIDE DEF q
  <2> QED BY <2>1, <2>2 DEF Session
<1>4. session.id # 0 /\ session' # NoSession /\ session # NoSession
  <2>1. session # NoSession
        BY <1>1 DEF NextInput, HasTransport, RefInv
  <2> QED BY <1>1, <1>3, <2>1 DEF HandoffTypeOK, NoSession
<1>5. HandoffTypeOK' /\ WritesDrain' /\ WritersDoNotMix' /\ ViewInv'
      BY <1>1, <1>2, <1>3, <1>4 DEF HandoffTypeOK, WritesDrain, WritersDoNotMix, ViewInv
<1>6. RefInv'
      BY <1>1, <1>2, <1>3, <1>4 DEF RefInv, At, IsActive
<1> QED BY <1>5, <1>6 DEF HandoffInv

\* The Agent is fenced and the Human's transport opened: there is no session left
\* of a handoff before, and the Human has written all it had to.
LEMMA BeginInv == HandoffInv /\ (BeginHandoff \/ BeginFails) => HandoffInv'
<1> SUFFICES ASSUME HandoffInv, BeginHandoff \/ BeginFails PROVE HandoffInv'
    OBVIOUS
<1>1. HandoffTypeOK /\ WritesDrain /\ WritersDoNotMix /\ ViewInv /\ RefInv
      BY DEF HandoffInv
<1>2. transportRef = NoRef /\ sessionAlive /\ ~Suspended /\ ~syncRequired
      BY AuthorityStatus DEF BeginHandoff, BeginFails, MayBegin, EffectiveAuthority
<1>3. humanWrites = 0 /\ agentView
      BY <1>1, <1>2 DEF HandoffTypeOK, WritesDrain, ViewInv, Status
<1>4. CASE BeginHandoff
  <2>1. /\ Status("awaiting_human")' /\ active' \in Intervention
        /\ active'.id = issued + 1 /\ active'.epoch = epoch + 1
        /\ epoch' = epoch + 1 /\ issued' = issued + 1
        BY <1>1, <1>4, LifecycleFacts DEF BeginHandoff, BeginFence, HandoffTypeOK
  <2>2. /\ session' = [NoSession EXCEPT !.id = issued + 1, !.epoch = epoch + 1]
        /\ transportRef' = [id |-> issued + 1, epoch |-> epoch + 1]
        /\ UNCHANGED <<sessionAlive, syncRequired, teardown, agentWrites, humanWrites,
                       reloaded, agentView>>
        BY <1>4 DEF BeginHandoff, StartSession, consumerVars
  <2>3. session = NoSession /\ teardown = NoTeardown
    <3>1. ~session.completed
          BY <1>1, <1>2 DEF RefInv, Status
    <3> QED BY <1>1, <1>4, <3>1 DEF BeginHandoff, Startable, RefInv
  <2>4. /\ session' = [id |-> issued + 1, epoch |-> epoch + 1, peer |-> "none", ready |-> FALSE,
                       humanActive |-> FALSE, disconnected |-> FALSE, completed |-> FALSE,
                       faulted |-> FALSE, queue |-> <<>>]
        BY <2>2 DEF NoSession
  <2>5. HandoffTypeOK'
    <3>1. issued + 1 \in Nat /\ epoch + 1 \in Nat /\ issued + 1 # 0
          BY <1>1 DEF HandoffTypeOK
    <3>2. session' \in Session /\ session'.id = issued + 1
          BY <2>4, <3>1 DEF Session
    <3> QED BY <1>1, <2>1, <2>2, <3>1, <3>2 DEF HandoffTypeOK
  <2>6. WritesDrain' /\ WritersDoNotMix' /\ ViewInv'
        BY <1>2, <1>3, <2>1, <2>2 DEF WritesDrain, WritersDoNotMix, ViewInv, Status
  <2>7. RefInv'
    <3>1. /\ session'.id = issued + 1 /\ session'.epoch = epoch + 1 /\ ~session'.humanActive
          /\ ~session'.completed
          BY <2>4
    <3>2. session' # NoSession
          BY <1>1, <3>1 DEF NoSession, HandoffTypeOK
    <3> QED BY <2>2, <2>3, <3>1, <3>2 DEF RefInv
  <2> QED BY <2>5, <2>6, <2>7 DEF HandoffInv
<1>5. CASE BeginFails
  <2>1. /\ epoch' = epoch + 2 /\ issued' = issued + 1 /\ drained' = TRUE
        /\ UNCHANGED <<active, sessionAlive, syncRequired, transportRef, session, teardown,
                       agentWrites, humanWrites, reloaded, agentView>>
        /\ Suspended' = Suspended /\ \A st : Status(st)' = Status(st)
        BY <1>5 DEF BeginFails, transportVars, consumerVars, Suspended, Status
  <2>2. HandoffTypeOK'
    <3>1. session.id \in Nat /\ session.id <= issued /\ issued \in Nat /\ epoch \in Nat
          BY <1>1 DEF HandoffTypeOK, Session
    <3>2. session'.id <= issued' /\ issued' \in Nat /\ epoch' \in Nat
          BY <2>1, <3>1
    <3> QED BY <1>1, <2>1, <3>2 DEF HandoffTypeOK
  <2>3. WritesDrain' /\ WritersDoNotMix' /\ ViewInv'
        BY <1>1, <1>3, <2>1 DEF WritesDrain, WritersDoNotMix, ViewInv
  <2>4. RefInv'
        BY <1>1, <2>1 DEF RefInv, At, IsActive
  <2> QED BY <2>2, <2>3, <2>4 DEF HandoffInv
<1> QED BY <1>4, <1>5

\* The Human gets the terminal.
LEMMA ClaimInv == HandoffInv /\ Claim => HandoffInv'
<1> SUFFICES ASSUME HandoffInv, Claim PROVE HandoffInv'
    OBVIOUS
<1>1. HandoffTypeOK /\ WritesDrain /\ WritersDoNotMix /\ ViewInv /\ RefInv
      BY DEF HandoffInv
<1>2. /\ agentWrites = 0 /\ transportRef # NoRef /\ sessionAlive
      /\ At(transportRef, "awaiting_human") /\ ClaimHuman(transportRef.id) /\ Activates
      /\ ~session.completed
      /\ UNCHANGED <<sessionAlive, syncRequired, drained, transportRef, teardown, agentWrites,
                     humanWrites, reloaded, agentView>>
      BY DEF Claim, HasTransport, AuthorityClaims, TransportReady, consumerVars
<1>3. /\ Suspended /\ Status("human_active")' /\ active' \in Intervention
      /\ active'.id = active.id /\ active'.epoch = active.epoch
      /\ UNCHANGED <<epoch, issued>>
      BY <1>1, <1>2, LifecycleFacts DEF HandoffTypeOK
<1>4. /\ session' \in Session /\ session'.id = session.id /\ session'.epoch = session.epoch
      /\ session'.completed = session.completed
      BY <1>1, <1>2 DEF HandoffTypeOK, Activates, Session
<1>5. session # NoSession /\ session.id # 0 /\ session' # NoSession
      BY <1>1, <1>2, <1>4 DEF RefInv, HandoffTypeOK, NoSession
<1>6. At(transportRef, "human_active")'
      BY <1>2, <1>3 DEF At, IsActive, Status
<1>7. HandoffTypeOK' /\ WritesDrain' /\ WritersDoNotMix' /\ ViewInv'
      BY <1>1, <1>2, <1>3, <1>4, <1>5
      DEF HandoffTypeOK, WritesDrain, WritersDoNotMix, ViewInv, Status
<1>8. RefInv'
      BY <1>1, <1>2, <1>4, <1>5, <1>6 DEF RefInv
<1> QED BY <1>7, <1>8 DEF HandoffInv

\* Done: nobody has the terminal, and the Agent will have to synchronise.
LEMMA DoneInv == HandoffInv /\ NextDone => HandoffInv'
<1> SUFFICES ASSUME HandoffInv, NextDone PROVE HandoffInv'
    OBVIOUS
<1>1. HandoffTypeOK /\ WritesDrain /\ WritersDoNotMix /\ ViewInv /\ RefInv
      BY DEF HandoffInv
<1>2. /\ transportRef # NoRef /\ transportRef' = NoRef /\ session' = NoSession
      /\ MarkHumanComplete(transportRef.id) /\ syncRequired' = TRUE /\ drained' = FALSE
      /\ UNCHANGED <<sessionAlive, teardown, agentWrites, humanWrites, reloaded, agentView>>
      BY DEF NextDone, HasTransport, DoneFence, ReleaseCompleted, consumerVars
<1>3. /\ Status("human_active") /\ Status("verifying")' /\ active' \in Intervention
      /\ epoch' = epoch + 1 /\ issued' = issued
      BY <1>1, <1>2, LifecycleFacts DEF HandoffTypeOK
<1>4. teardown = NoTeardown
      BY <1>1, <1>2 DEF RefInv
<1>5. session' \in Session /\ session'.id = 0 /\ ~session'.humanActive /\ ~session'.completed
      BY <1>2 DEF NoSession, Session
<1>6. HandoffTypeOK' /\ WritesDrain' /\ WritersDoNotMix' /\ ViewInv'
      BY <1>1, <1>2, <1>3, <1>5
      DEF HandoffTypeOK, WritesDrain, WritersDoNotMix, ViewInv, Status
<1>7. RefInv'
      BY <1>2, <1>4, <1>5 DEF RefInv
<1> QED BY <1>6, <1>7 DEF HandoffInv

\* Verification is over, or the Agent resumes.
LEMMA ResumeInv == HandoffInv /\ (ReportSatisfied \/ Resume) => HandoffInv'
<1> SUFFICES ASSUME HandoffInv, ReportSatisfied \/ Resume PROVE HandoffInv'
    OBVIOUS
<1>1. HandoffTypeOK /\ WritesDrain /\ WritersDoNotMix /\ ViewInv /\ RefInv
      BY DEF HandoffInv
<1>2. /\ UNCHANGED <<sessionAlive, syncRequired, drained, transportRef, session, teardown,
                     agentWrites, humanWrites, agentView>>
      BY DEF ReportSatisfied, Resume, authorityVars, transportVars, consumerVars
<1>3. ~Status("human_active") /\ ~Status("human_active")' /\ UNCHANGED <<epoch, issued>>
      BY <1>1, LifecycleFacts
      DEF ReportSatisfied, AuthorityVerifies, Resume, AuthorityResumes, HandoffTypeOK, Status
<1>4. RefInv'
  <2>1. ~session.humanActive
        BY <1>1, <1>3 DEF RefInv, At, IsActive, Status
  <2> QED BY <1>1, <1>2, <1>3, <2>1 DEF RefInv
<1>5. CASE ReportSatisfied
  <2>1. /\ Status("verifying") /\ Status("ready_to_resume")' /\ active' \in Intervention
        /\ drained /\ reloaded' = reloaded
        BY <1>1, <1>5, LifecycleFacts
        DEF ReportSatisfied, AuthorityVerifies, HandoffTypeOK, consumerVars
  <2>2. HandoffTypeOK'
        BY <1>1, <1>2, <1>3, <2>1 DEF HandoffTypeOK
  <2>3. WritesDrain' /\ WritersDoNotMix' /\ ViewInv'
        BY <1>1, <1>2, <2>1 DEF WritesDrain, WritersDoNotMix, ViewInv, Status
  <2> QED BY <1>4, <2>2, <2>3 DEF HandoffInv
<1>6. CASE Resume
  <2>1. /\ Status("ready_to_resume") /\ ~Suspended' /\ active' = NoIntervention
        /\ reloaded' = FALSE
        BY <1>1, <1>6, LifecycleFacts DEF Resume, AuthorityResumes, HandoffTypeOK
  <2>2. HandoffTypeOK'
        BY <1>1, <1>2, <1>3, <2>1 DEF HandoffTypeOK
  <2>3. WritesDrain' /\ WritersDoNotMix' /\ ViewInv'
        BY <1>1, <1>2, <2>1 DEF WritesDrain, WritersDoNotMix, ViewInv, Status
  <2> QED BY <1>4, <2>2, <2>3 DEF HandoffInv
<1> QED BY <1>5, <1>6

\* The PTY exits.
LEMMA ExitInv == HandoffInv /\ SessionExits => HandoffInv'
<1> SUFFICES ASSUME HandoffInv, SessionExits PROVE HandoffInv'
    OBVIOUS
<1>1. HandoffTypeOK /\ WritesDrain /\ WritersDoNotMix /\ ViewInv /\ RefInv
      BY DEF HandoffInv
<1>2. /\ AuthorityExits /\ sessionAlive' = FALSE /\ syncRequired' = TRUE
      /\ UNCHANGED <<agentWrites, humanWrites, reloaded, agentView>>
      BY DEF SessionExits, AuthorityExits, consumerVars
<1>3. /\ active' \in Intervention \union {NoIntervention}
      /\ epoch' \in Nat /\ issued' = issued
      /\ \/ Status("human_active") /\ Status("verifying")'
         \/ ~Suspended'
         \/ Suspended' = Suspended /\ \A st : Status(st)' = Status(st)
  <2>1. CASE UNCHANGED lifecycleVars
        BY <1>1, <2>1 DEF lifecycleVars, HandoffTypeOK, Suspended, Status
  <2>2. CASE Cancel(active.id) \/ MarkHumanComplete(active.id)
        BY <1>1, <2>2, LifecycleFacts DEF HandoffTypeOK
  <2> QED BY <1>2, <2>1, <2>2 DEF AuthorityExits
<1>4. /\ \/ UNCHANGED <<transportRef, session, teardown>> /\ transportRef = NoRef
         \/ /\ transportRef' = NoRef /\ transportRef # NoRef
            /\ session' = [session EXCEPT !.humanActive = FALSE]
      BY DEF SessionExits, StartTeardown, transportVars
<1>5. /\ session' \in Session /\ session'.id = session.id /\ ~session'.humanActive
      /\ transportRef' = NoRef /\ (session # NoSession => session' # NoSession)
      /\ session'.id = 0 => session' = NoSession
      /\ teardown' # NoTeardown => session # NoSession
  <2>1. session \in Session /\ (session # NoSession => session.id # 0)
        BY <1>1 DEF HandoffTypeOK
  <2>2. transportRef = NoRef => ~session.humanActive
        BY <1>1 DEF RefInv
  <2>3. CASE UNCHANGED <<transportRef, session, teardown>> /\ transportRef = NoRef
        BY <1>1, <2>2, <2>3 DEF HandoffTypeOK, RefInv
  <2>4. CASE /\ transportRef' = NoRef /\ transportRef # NoRef
             /\ session' = [session EXCEPT !.humanActive = FALSE]
    <3>1. session # NoSession /\ session.id # 0
          BY <1>1, <2>1, <2>4 DEF RefInv
    <3>2. session' \in Session /\ session'.id = session.id /\ ~session'.humanActive
          BY <2>1, <2>4, <3>1 DEF Session
    <3>3. session' # NoSession
          BY <3>1, <3>2 DEF NoSession
    <3> QED BY <2>4, <3>1, <3>2, <3>3
  <2> QED BY <1>4, <2>3, <2>4
<1>6. HandoffTypeOK'
      BY <1>1, <1>2, <1>3, <1>5 DEF HandoffTypeOK
<1>7. WritesDrain' /\ WritersDoNotMix' /\ ViewInv'
      BY <1>1, <1>2, <1>3 DEF WritesDrain, WritersDoNotMix, ViewInv, Status
<1>8. RefInv'
      BY <1>2, <1>5 DEF RefInv
<1> QED BY <1>6, <1>7, <1>8 DEF HandoffInv

\* A teardown of the transport begins.
LEMMA TeardownBegins == HandoffInv /\ (CancelRequested \/ RevokeTransport) => HandoffInv'
<1> SUFFICES ASSUME HandoffInv, CancelRequested \/ RevokeTransport PROVE HandoffInv'
    OBVIOUS
<1>1. HandoffTypeOK /\ WritesDrain /\ WritersDoNotMix /\ ViewInv /\ RefInv
      BY DEF HandoffInv
<1>2. /\ UNCHANGED <<epoch, active, issued, sessionAlive, syncRequired, drained, agentWrites,
                     humanWrites, reloaded, agentView>>
      /\ Suspended' = Suspended /\ \A st : Status(st)' = Status(st)
      /\ transportRef # NoRef /\ transportRef' = NoRef
      /\ session' = [session EXCEPT !.humanActive = FALSE]
      BY DEF CancelRequested, RevokeTransport, HasTransport, StartTeardown, lifecycleVars,
             authorityVars, consumerVars, Suspended, Status
<1>3. /\ session' \in Session /\ session'.id = session.id /\ ~session'.humanActive
      /\ session'.completed = session.completed
      BY <1>1, <1>2 DEF HandoffTypeOK, Session
<1>4. session # NoSession /\ session.id # 0 /\ session' # NoSession
      BY <1>1, <1>2, <1>3 DEF RefInv, HandoffTypeOK, NoSession
<1>5. HandoffTypeOK' /\ WritesDrain' /\ WritersDoNotMix' /\ ViewInv'
      BY <1>1, <1>2, <1>3, <1>4 DEF HandoffTypeOK, WritesDrain, WritersDoNotMix, ViewInv
<1>6. RefInv'
      BY <1>1, <1>2, <1>3, <1>4 DEF RefInv
<1> QED BY <1>5, <1>6 DEF HandoffInv

\* ... and ends, with the cancellation it was for, if it still can be.
LEMMA TeardownEndsInv == HandoffInv /\ TeardownEnds => HandoffInv'
<1> SUFFICES ASSUME HandoffInv, TeardownEnds PROVE HandoffInv'
    OBVIOUS
<1>1. HandoffTypeOK /\ WritesDrain /\ WritersDoNotMix /\ ViewInv /\ RefInv
      BY DEF HandoffInv
<1>2. /\ teardown # NoTeardown /\ session' = NoSession /\ teardown' = NoTeardown
      /\ UNCHANGED <<sessionAlive, syncRequired, transportRef, agentWrites, humanWrites,
                     reloaded, agentView>>
      BY DEF TeardownEnds, consumerVars
<1>3. session' \in Session /\ session'.id = 0 /\ ~session'.humanActive /\ ~session'.completed
      BY <1>2 DEF NoSession, Session
<1>4. transportRef = NoRef
      BY <1>1, <1>2 DEF RefInv
<1>5. RefInv'
      BY <1>2, <1>3, <1>4 DEF RefInv
<1>6. CASE MayCancel(teardown.of) /\ AuthorityCancels(teardown.of)
  <2>1. /\ sessionAlive /\ Status("awaiting_human") /\ drained' = TRUE /\ ~Suspended'
        /\ active' = NoIntervention /\ epoch' = epoch + 1 /\ issued' = issued
        BY <1>1, <1>6, LifecycleFacts
        DEF MayCancel, AuthorityCancels, At, IsActive, Status, HandoffTypeOK
  <2>2. humanWrites = 0 /\ agentView
        BY <1>1, <2>1 DEF WritesDrain, ViewInv, Status, HandoffTypeOK
  <2>3. HandoffTypeOK'
        BY <1>1, <1>2, <1>3, <2>1 DEF HandoffTypeOK
  <2>4. WritesDrain' /\ WritersDoNotMix' /\ ViewInv'
        BY <1>2, <2>1, <2>2 DEF WritesDrain, WritersDoNotMix, ViewInv, Status
  <2> QED BY <1>5, <2>3, <2>4 DEF HandoffInv
<1>7. CASE UNCHANGED <<lifecycleVars, humanDisconnected, drained>>
  <2>1. /\ UNCHANGED <<epoch, active, issued, drained>>
        /\ Suspended' = Suspended /\ \A st : Status(st)' = Status(st)
        BY <1>7 DEF lifecycleVars, Suspended, Status
  <2>2. HandoffTypeOK'
        BY <1>1, <1>2, <1>3, <2>1 DEF HandoffTypeOK
  <2>3. WritesDrain' /\ WritersDoNotMix' /\ ViewInv'
        BY <1>1, <1>2, <2>1 DEF WritesDrain, WritersDoNotMix, ViewInv
  <2> QED BY <1>5, <2>2, <2>3 DEF HandoffInv
<1> QED BY <1>6, <1>7 DEF TeardownEnds
--------------------------------------------------------------------------------
\* The steps of the handoff, and that TransportNext takes it no other.
HandoffStep ==
    \/ BeginHandoff \/ BeginFails \/ CancelRequested \/ TeardownEnds \/ Claim
    \/ NextInput \/ NextDone \/ NoteHumanDisconnect \/ ConfirmDrain
    \/ ReportSatisfied \/ Resume \/ Acknowledge \/ SessionExits \/ RevokeTransport
    \/ PeerReady \/ PeerLost \/ LeaseExpires \/ HumanTypes \/ HumanDone \/ SessionFaults
    \/ AgentWrites \/ AgentWriteLands \/ HumanWriteLands \/ Reload

\* The steps of the transport move the handoff by its own steps, or not at all.
LEMMA StepsOfTheHandoff ==
    [TransportNext]_transportHandoffVars => HandoffStep \/ UNCHANGED vars
<1> SUFFICES ASSUME [TransportNext]_transportHandoffVars
             PROVE  HandoffStep \/ UNCHANGED vars
    OBVIOUS
<1>1. CASE UNCHANGED transportHandoffVars
      BY <1>1 DEF transportHandoffVars
<1>2. CASE TransportRevoked \/ TransportBegins \/ TransportClaims \/ TransportRevokes
      BY <1>2 DEF TransportRevoked, TransportBegins, TransportClaims, TransportRevokes,
                  HandoffStep
<1>3. CASE ChannelOpens \/ ChannelLost \/ DoneAccepted \/ Faulted \/ HandoffOnly
      BY <1>3 DEF ChannelOpens, ChannelLost, DoneAccepted, Faulted, HandoffOnly,
                  NextHumanEvent, HandoffStep
<1>4. ASSUME NEW s \in Sessions,
             Prepare(s) \/ ConnectArrives(s) \/ Answered(s) \/ LostUnopened(s)
      PROVE  UNCHANGED vars
      BY <1>4 DEF Prepare, ConnectArrives, Answered, LostUnopened
<1>5. CASE RuntimeSettles
      BY <1>5 DEF RuntimeSettles, LeaseEnds, TimerFires, PeerClosed, CredentialRevoked,
                  Prepared, Connect, ConnectFails, Silently, HandoffStep
<1> QED BY <1>1, <1>2, <1>3, <1>4, <1>5 DEF TransportNext

\* Every step of the handoff keeps its invariant.
LEMMA HandoffInvKept == HandoffInv /\ (HandoffStep \/ UNCHANGED vars) => HandoffInv'
<1> SUFFICES ASSUME HandoffInv, HandoffStep \/ UNCHANGED vars PROVE HandoffInv'
    OBVIOUS
<1>1. CASE UNCHANGED vars
      BY <1>1 DEF vars, lifecycleVars, authorityVars, transportVars, consumerVars, HandoffInv,
                  HandoffTypeOK, WritesDrain, WritersDoNotMix, ViewInv, RefInv, Status,
                  Suspended, At, IsActive
<1>2. CASE HandoffStep
      BY <1>2, BeginInv, ClaimInv, NextInputInv, DoneInv, ResumeInv, ExitInv, TeardownBegins,
         TeardownEndsInv, PeerEvents, WriteSteps
      DEF HandoffStep
<1> QED BY <1>1, <1>2

\* The handoff starts with its invariant.
LEMMA HandoffInvInitially == Init => HandoffInv
<1> SUFFICES ASSUME Init PROVE HandoffInv
    OBVIOUS
<1>1. /\ epoch = 0 /\ issued = 0 /\ active = NoIntervention /\ ~Suspended
      BY DEF Init, LifecycleInit, Suspended
<1>2. /\ session = NoSession /\ transportRef = NoRef /\ teardown = NoTeardown
      /\ agentWrites = 0 /\ humanWrites = 0 /\ agentView
      BY DEF Init
<1>3. session \in Session /\ session.id = 0 /\ ~session.humanActive /\ ~session.completed
      BY <1>2 DEF Session, NoSession
<1>4. HandoffTypeOK
      BY <1>1, <1>2, <1>3 DEF HandoffTypeOK
<1> QED BY <1>1, <1>2, <1>3, <1>4
        DEF HandoffInv, WritesDrain, WritersDoNotMix, ViewInv, RefInv, Status

\* An Agent that may write knows what the Human did.
LEMMA WritesOnCurrentView ==
    HandoffInv /\ (HandoffStep \/ UNCHANGED vars) /\ agentWrites' > agentWrites => agentView
<1> SUFFICES ASSUME HandoffInv, HandoffStep \/ UNCHANGED vars, agentWrites' > agentWrites
             PROVE  agentView
    OBVIOUS
<1>1. agentWrites \in Nat
      BY DEF HandoffInv, HandoffTypeOK
<1>2. agentWrites' # agentWrites /\ agentWrites' # agentWrites - 1
      BY <1>1
<1>3. AgentWrites
      BY <1>2 DEF HandoffStep, vars, consumerVars, BeginHandoff, BeginFails, CancelRequested,
                  TeardownEnds, Claim, NextInput, NextDone, NoteHumanDisconnect, ConfirmDrain,
                  ReportSatisfied, Resume, Acknowledge, SessionExits, RevokeTransport,
                  PeerReady, PeerLost, LeaseExpires, HumanTypes, HumanDone, SessionFaults, Peer,
                  AgentWriteLands, HumanWriteLands, Reload
<1>4. sessionAlive /\ ~Suspended /\ ~syncRequired
      BY <1>3, AuthorityStatus DEF AgentWrites, AgentMayWrite
<1> QED BY <1>4 DEF HandoffInv, ViewInv, Status
--------------------------------------------------------------------------------
\* Interventions are numbered one by one, up to the bound.
LEMMA IssuedSteps ==
    ASSUME HandoffInv, HandoffStep \/ UNCHANGED vars, issued <= MaxIssued
    PROVE  issued' \in Nat /\ issued <= issued' /\ issued' <= MaxIssued
<1>1. issued \in Nat /\ MaxIssued \in Nat /\ epoch \in Nat
      /\ active \in Intervention \union {NoIntervention}
      BY BoundsAssumption DEF HandoffInv, HandoffTypeOK
<1>2. CASE BeginHandoff \/ BeginFails
      BY <1>1, <1>2 DEF BeginHandoff, BeginFails, BeginFence, Begin
<1>3. CASE Claim \/ NextDone \/ TeardownEnds \/ SessionExits \/ ReportSatisfied \/ Resume
  <2>1. issued' = issued
        BY <1>1, <1>3, LifecycleFacts
        DEF Claim, AuthorityClaims, NextDone, DoneFence, TeardownEnds, AuthorityCancels,
            SessionExits, AuthorityExits, ReportSatisfied, AuthorityVerifies, Resume,
            AuthorityResumes, lifecycleVars
  <2> QED BY <1>1, <2>1
<1>4. CASE ~(BeginHandoff \/ BeginFails \/ Claim \/ NextDone \/ TeardownEnds \/ SessionExits
             \/ ReportSatisfied \/ Resume)
  <2>1. UNCHANGED lifecycleVars
        BY <1>4 DEF HandoffStep, vars, CancelRequested, NextInput, NoteHumanDisconnect,
                    ConfirmDrain, Acknowledge, RevokeTransport, PeerReady, PeerLost,
                    LeaseExpires, HumanTypes, HumanDone, SessionFaults, Peer, AgentWrites,
                    AgentWriteLands, HumanWriteLands, Reload
  <2> QED BY <1>1, <2>1 DEF lifecycleVars
<1> QED BY <1>2, <1>3, <1>4

\* Where the session's name stands among the sessions.
LEMMA SessionName ==
    ASSUME HandoffInv, ConnectionInv
    PROVE  /\ session \in Session /\ session.id \in Nat /\ session.id <= issued
           /\ issued \in Nat /\ MaxIssued \in Nat
           /\ session # NoSession => session.id \in Sessions
           /\ NoSession.id \notin Sessions /\ ~NoSession.humanActive
<1>1. session \in Session /\ session.id \in Nat /\ session.id <= issued /\ issued \in Nat
      /\ (session.id = 0 => session = NoSession) /\ issued <= MaxIssued /\ MaxIssued \in Nat
      BY BoundsAssumption
      DEF HandoffInv, HandoffTypeOK, ConnectionInv, ConnectionTypeOK, Session
<1> QED BY <1>1 DEF Sessions, NoSession

\* A step that opens nothing keeps the invariant of the connections.
LEMMA ConnectionShrinks ==
    ASSUME ConnectionInv, issued \in Nat,
           issued' \in Nat, issued <= issued', issued' <= MaxIssued,
           record' \in [Sessions -> {"none", "made", "claimed", "released", "revoked"}],
           prepared' \in [Sessions -> BOOLEAN],
           runtime' \in [Sessions -> {"none", "open", "lost", "closing", "closed"}],
           input' \in [Sessions -> BOOLEAN],
           page' = page, teardown' = teardown, awaits' = awaits,
           session'.id = session.id, session'.completed = session.completed,
           session'.faulted = session.faulted, session'.humanActive = session.humanActive,
           session'.peer = "open" => session.peer = "open",
           \A s \in Sessions :
               /\ InMap(s)' => InMap(s)
               /\ prepared'[s] => prepared[s]
               /\ input'[s] => input[s]
               /\ record'[s] \in {"made", "claimed"} => record[s] \in {"made", "claimed"}
    PROVE  ConnectionInv'
<1>1. /\ ConnectionTypeOK /\ NoPeerBehindTeardown /\ PageInv /\ RecordInv /\ InputInv
      /\ TeardownInv /\ Sessions' = Sessions
      BY DEF ConnectionInv, Sessions
<1>2. ConnectionTypeOK'
      BY <1>1 DEF ConnectionTypeOK
<1>3. NoPeerBehindTeardown' /\ RecordInv' /\ InputInv' /\ TeardownInv'
      BY <1>1 DEF NoPeerBehindTeardown, RecordInv, InputInv, TeardownInv
<1>4. PageInv'
  <2> SUFFICES ASSUME NEW s \in Sessions
               PROVE  /\ s > issued' => page[s] = "away"
                      /\ prepared'[s] => page[s] \in {"prepared", "offering", "refused"}
                      /\ InMap(s)' => page[s] \in {"connecting", "connected"}
                      /\ session'.id = s /\ (session'.peer = "open" \/ session'.faulted)
                            => page[s] = "connected"
      BY <1>1 DEF PageInv
  <2>1. s > issued' => s > issued
        BY DEF Sessions
  <2> QED BY <1>1, <2>1 DEF PageInv
<1> QED BY <1>2, <1>3, <1>4 DEF ConnectionInv

\* A runtime that is revoked keeps its type and touches no other session's.
LEMMA RuntimeRevokedFacts ==
    ASSUME ConnectionTypeOK, NEW s \in Sessions, RuntimeRevoked(s)
    PROVE  /\ prepared' \in [Sessions -> BOOLEAN]
           /\ runtime' \in [Sessions -> {"none", "open", "lost", "closing", "closed"}]
           /\ input' \in [Sessions -> BOOLEAN]
           /\ \A t \in Sessions :
                 /\ InMap(t)' => InMap(t) /\ t # s
                 /\ prepared'[t] => prepared[t] /\ t # s
                 /\ input'[t] => input[t] /\ t # s
<1>1. /\ prepared \in [Sessions -> BOOLEAN] /\ prepared' = [prepared EXCEPT ![s] = FALSE]
      /\ input \in [Sessions -> BOOLEAN] /\ input' = [input EXCEPT ![s] = FALSE]
      /\ runtime \in [Sessions -> {"none", "open", "lost", "closing", "closed"}]
      /\ runtime' = [runtime EXCEPT ![s] = IF InMap(s) THEN "closing" ELSE @]
      BY DEF RuntimeRevoked, ConnectionTypeOK
<1>2. runtime' \in [Sessions -> {"none", "open", "lost", "closing", "closed"}]
      BY <1>1 DEF InMap
<1>3. \A t \in Sessions : InMap(t)' => InMap(t) /\ t # s
      BY <1>1 DEF InMap
<1>4. \A t \in Sessions : (prepared'[t] => prepared[t] /\ t # s) /\ (input'[t] => input[t] /\ t # s)
      BY <1>1
<1> QED BY <1>1, <1>2, <1>3, <1>4

\* A new session: its page and its record are untouched, and no other is left.
LEMMA BeginKeepsConnections ==
    HandoffInv /\ ConnectionInv /\ TransportBegins => ConnectionInv'
<1> SUFFICES ASSUME HandoffInv, ConnectionInv, TransportBegins PROVE ConnectionInv'
    OBVIOUS
<1>1. /\ ConnectionTypeOK /\ NoPeerBehindTeardown /\ PageInv /\ RecordInv /\ InputInv
      /\ RefInv /\ Sessions' = Sessions
      BY DEF ConnectionInv, HandoffInv, Sessions
<1>2. issued \in Nat /\ MaxIssued \in Nat /\ issued' = issued + 1 /\ issued' <= MaxIssued
  <2>1. BeginHandoff /\ issued <= MaxIssued
        BY <1>1 DEF TransportBegins, ConnectionTypeOK
  <2>2. issued' <= MaxIssued
        BY <2>1, IssuedSteps DEF HandoffStep
  <2> QED BY <2>1, <2>2, SessionName DEF BeginHandoff, BeginFence, Begin
<1>3. session = NoSession /\ teardown = NoTeardown
  <2>1. transportRef = NoRef /\ sessionAlive /\ ~Suspended /\ Startable
        BY AuthorityStatus DEF TransportBegins, BeginHandoff, MayBegin, EffectiveAuthority
  <2>2. ~session.completed
        BY <1>1, <2>1 DEF RefInv, Status
  <2> QED BY <1>1, <2>1, <2>2 DEF Startable, RefInv
<1>4. /\ session'.id = issued + 1 /\ session'.peer = "none" /\ ~session'.faulted
      /\ ~session'.completed /\ teardown' = NoTeardown
      BY <1>3 DEF TransportBegins, BeginHandoff, StartSession, NoSession
<1>5. /\ record' = [record EXCEPT ![issued + 1] = "made"]
      /\ UNCHANGED <<prepared, runtime, input, page, awaits>>
      /\ \A s \in Sessions : InMap(s)' = InMap(s)
      BY DEF TransportBegins, RuntimeUnchanged, InMap
<1>6. \A s \in Sessions : s # session.id
      BY <1>3, SessionName
<1>7. ConnectionTypeOK'
      BY <1>1, <1>2, <1>5 DEF ConnectionTypeOK
<1>8. NoPeerBehindTeardown' /\ InputInv' /\ TeardownInv'
      BY <1>1, <1>4, <1>5, <1>6 DEF NoPeerBehindTeardown, InputInv, TeardownInv
<1>9. RecordInv'
      BY <1>1, <1>4, <1>5, <1>6 DEF RecordInv, ConnectionTypeOK
<1>10. PageInv'
  <2> SUFFICES ASSUME NEW s \in Sessions
               PROVE  /\ s > issued' => page[s] = "away"
                      /\ prepared[s] => page[s] \in {"prepared", "offering", "refused"}
                      /\ InMap(s) => page[s] \in {"connecting", "connected"}
      BY <1>1, <1>4, <1>5 DEF PageInv
  <2>1. s > issued' => s > issued
        BY <1>2 DEF Sessions
  <2> QED BY <1>1, <2>1 DEF PageInv
<1> QED BY <1>1, <1>7, <1>8, <1>9, <1>10 DEF ConnectionInv

\* activateHuman(): the gate opens with the session's.
LEMMA ClaimKeepsConnections ==
    HandoffInv /\ ConnectionInv /\ TransportClaims => ConnectionInv'
<1> SUFFICES ASSUME HandoffInv, ConnectionInv, TransportClaims PROVE ConnectionInv'
    OBVIOUS
<1>1. /\ ConnectionTypeOK /\ NoPeerBehindTeardown /\ PageInv /\ RecordInv /\ InputInv
      /\ RefInv /\ Sessions' = Sessions
      BY DEF ConnectionInv, HandoffInv, Sessions
<1>2. /\ transportRef # NoRef /\ session' = [session EXCEPT !.humanActive = (session.peer = "open")]
      /\ input' = [input EXCEPT ![session.id] = session.peer = "open"]
      /\ UNCHANGED <<teardown, record, page, prepared, runtime, awaits>>
      /\ \A s \in Sessions : InMap(s)' = InMap(s)
      BY DEF TransportClaims, Claim, HasTransport, Activates, InMap
<1>3. /\ session \in Session /\ session.id \in Sessions /\ teardown = NoTeardown
      BY <1>1, <1>2, SessionName DEF RefInv
<1>4. /\ session'.id = session.id /\ session'.completed = session.completed
      /\ session'.faulted = session.faulted /\ session'.peer = session.peer
      /\ session'.humanActive = (session.peer = "open")
      BY <1>2, <1>3 DEF Session
<1>5. issued' = issued
      BY LifecycleFacts DEF TransportClaims, Claim, AuthorityClaims, HandoffInv, HandoffTypeOK
<1>6. ConnectionTypeOK'
      BY <1>1, <1>2, <1>3, <1>5 DEF ConnectionTypeOK
<1>7. NoPeerBehindTeardown' /\ PageInv' /\ RecordInv' /\ TeardownInv'
      BY <1>1, <1>2, <1>3, <1>4, <1>5
      DEF NoPeerBehindTeardown, PageInv, RecordInv, TeardownInv
<1>8. InputInv'
  <2> SUFFICES ASSUME NEW s \in Sessions, input'[s]
               PROVE  session'.id = s /\ session'.humanActive
      BY <1>1 DEF InputInv
  <2>1. s = session.id
        BY <1>1, <1>2 DEF InputInv, ConnectionTypeOK
  <2>2. input'[s] = (session.peer = "open")
        BY <1>1, <1>2, <1>3, <2>1 DEF ConnectionTypeOK
  <2> QED BY <1>4, <2>1, <2>2
<1> QED BY <1>6, <1>7, <1>8 DEF ConnectionInv

\* A teardown takes the connection of its session, and finds whose it is.
LEMMA RevokeKeepsConnections ==
    HandoffInv /\ ConnectionInv /\ TransportRevokes => ConnectionInv'
<1> SUFFICES ASSUME HandoffInv, ConnectionInv, TransportRevokes PROVE ConnectionInv'
    OBVIOUS
<1>1. /\ ConnectionTypeOK /\ NoPeerBehindTeardown /\ PageInv /\ RecordInv /\ InputInv
      /\ RefInv /\ Sessions' = Sessions
      BY DEF ConnectionInv, HandoffInv, Sessions
<1>2. /\ transportRef # NoRef /\ session' = [session EXCEPT !.humanActive = FALSE]
      /\ RuntimeRevoked(session.id) /\ UNCHANGED <<record, page>>
      /\ awaits' = (InMap(session.id)
                        \/ (prepared[session.id] /\ credential[session.id] = "issued"))
      BY DEF TransportRevokes, CancelRequested, RevokeTransport, SessionExits, HasTransport,
             StartTeardown
<1>3. session \in Session /\ session.id \in Sessions
      BY <1>1, <1>2, SessionName DEF RefInv
<1>4. /\ session'.id = session.id /\ session'.completed = session.completed
      /\ session'.faulted = session.faulted /\ session'.peer = session.peer
      BY <1>2, <1>3 DEF Session
<1>5. issued' = issued
  <2>1. CASE UNCHANGED lifecycleVars
        BY <2>1 DEF lifecycleVars
  <2>2. CASE Cancel(active.id) \/ MarkHumanComplete(active.id)
        BY <2>2, LifecycleFacts DEF HandoffInv, HandoffTypeOK
  <2> QED BY <2>1, <2>2
          DEF TransportRevokes, CancelRequested, RevokeTransport, SessionExits, AuthorityExits
<1>6. /\ prepared' \in [Sessions -> BOOLEAN] /\ input' \in [Sessions -> BOOLEAN]
      /\ runtime' \in [Sessions -> {"none", "open", "lost", "closing", "closed"}]
      /\ \A t \in Sessions :
            /\ InMap(t)' => InMap(t) /\ t # session.id
            /\ prepared'[t] => prepared[t] /\ t # session.id
            /\ input'[t] => input[t] /\ t # session.id
      BY <1>1, <1>2, <1>3, RuntimeRevokedFacts
<1>7. ConnectionTypeOK'
      BY <1>1, <1>2, <1>5, <1>6 DEF ConnectionTypeOK
<1>8. NoPeerBehindTeardown' /\ RecordInv' /\ InputInv'
      BY <1>1, <1>2, <1>4, <1>6 DEF NoPeerBehindTeardown, RecordInv, InputInv
<1>9. PageInv'
      BY <1>1, <1>2, <1>4, <1>5, <1>6 DEF PageInv
<1>10. TeardownInv'
  <2>1. awaits' => page[session.id] \notin {"away", "preparing"}
        BY <1>1, <1>2, <1>3 DEF PageInv
  <2> QED BY <1>1, <1>2, <1>4, <1>6, <2>1 DEF TeardownInv
<1> QED BY <1>7, <1>8, <1>9, <1>10 DEF ConnectionInv

\* When it is over, the place is free and nothing of the session is left.
LEMMA RevokedKeepsConnections ==
    HandoffInv /\ ConnectionInv /\ TransportRevoked => ConnectionInv'
<1> SUFFICES ASSUME HandoffInv, ConnectionInv, TransportRevoked PROVE ConnectionInv'
    OBVIOUS
<1>1. /\ ConnectionTypeOK /\ NoPeerBehindTeardown /\ PageInv /\ RecordInv /\ InputInv
      /\ TeardownInv /\ RefInv /\ Sessions' = Sessions
      BY DEF ConnectionInv, HandoffInv, Sessions
<1>2. /\ teardown # NoTeardown /\ session # NoSession
      /\ session' = NoSession /\ teardown' = NoTeardown
      /\ record' = [record EXCEPT ![session.id] = "revoked"]
      /\ UNCHANGED <<prepared, runtime, input, page>>
      /\ \A s \in Sessions : InMap(s)' = InMap(s)
      BY <1>1 DEF TransportRevoked, TeardownEnds, RuntimeUnchanged, RefInv, InMap
<1>3. session.id \in Sessions /\ NoSession.id \notin Sessions /\ ~session.humanActive
      BY <1>1, <1>2, SessionName DEF RefInv
<1>4. issued' = issued
      BY LifecycleFacts
      DEF TransportRevoked, TeardownEnds, AuthorityCancels, lifecycleVars, HandoffInv,
          HandoffTypeOK
<1>5. \A s \in Sessions : ~InMap(s) /\ ~input[s] /\ record'[s] \notin {"made", "claimed"}
      BY <1>1, <1>2, <1>3
      DEF NoPeerBehindTeardown, TeardownInv, InputInv, RecordInv, ConnectionTypeOK
<1>6. ConnectionTypeOK'
      BY <1>1, <1>2, <1>3, <1>4 DEF ConnectionTypeOK
<1>7. NoPeerBehindTeardown' /\ RecordInv' /\ InputInv' /\ TeardownInv'
      BY <1>1, <1>2, <1>5 DEF NoPeerBehindTeardown, RecordInv, InputInv, TeardownInv
<1>8. PageInv'
      BY <1>1, <1>2, <1>3, <1>4, <1>5 DEF PageInv
<1> QED BY <1>6, <1>7, <1>8 DEF ConnectionInv

\* The channel of the session's one connection opens or is lost, or its Human ends
\* or breaks it.
LEMMA ChannelKeepsConnections ==
    ASSUME HandoffInv, ConnectionInv,
           ChannelOpens \/ ChannelLost \/ DoneAccepted \/ Faulted
    PROVE  ConnectionInv'
<1>1. /\ ConnectionTypeOK /\ NoPeerBehindTeardown /\ PageInv /\ RecordInv /\ InputInv
      /\ TeardownInv /\ RefInv /\ Sessions' = Sessions
      BY DEF ConnectionInv, HandoffInv, Sessions
<1>2. /\ session # NoSession /\ issued' = issued /\ teardown' = teardown
      /\ UNCHANGED <<page, awaits>>
      BY DEF ChannelOpens, ChannelLost, DoneAccepted, Faulted, PeerReady, PeerLost, HumanDone,
             SessionFaults, Peer, lifecycleVars, connectionVars
<1>3. session \in Session /\ session.id \in Sessions
      BY <1>2, SessionName
<1>4. CASE ChannelOpens
  <2>1. /\ session' = [session EXCEPT !.peer = "open", !.ready = TRUE]
        /\ page[session.id] = "connected" /\ UNCHANGED <<record, prepared, runtime, input>>
        /\ \A s \in Sessions : InMap(s)' = InMap(s)
        BY <1>4 DEF ChannelOpens, PeerReady, Peer, connectionVars, InMap
  <2>2. /\ session'.id = session.id /\ session'.completed = session.completed
        /\ session'.faulted = session.faulted /\ session'.humanActive = session.humanActive
        BY <1>3, <2>1 DEF Session
  <2>3. ConnectionTypeOK'
        BY <1>1, <1>2, <2>1 DEF ConnectionTypeOK
  <2>4. NoPeerBehindTeardown' /\ RecordInv' /\ InputInv' /\ TeardownInv' /\ PageInv'
        BY <1>1, <1>2, <2>1, <2>2
        DEF NoPeerBehindTeardown, RecordInv, InputInv, TeardownInv, PageInv
  <2> QED BY <2>3, <2>4 DEF ConnectionInv
<1>5. CASE ChannelLost
  <2>1. /\ session' = [session EXCEPT !.peer = "gone", !.humanActive = FALSE,
                                      !.disconnected = TRUE]
        /\ runtime[session.id] = "open" /\ runtime' = [runtime EXCEPT ![session.id] = "lost"]
        /\ input' = [input EXCEPT ![session.id] = FALSE] /\ UNCHANGED <<record, prepared>>
        BY <1>5 DEF ChannelLost, PeerLost, Peer
  <2>2. /\ session'.id = session.id /\ session'.completed = session.completed
        /\ session'.faulted = session.faulted /\ session'.peer = "gone"
        BY <1>3, <2>1 DEF Session
  <2>3. \A s \in Sessions : (InMap(s)' => InMap(s)) /\ (input'[s] => input[s] /\ s # session.id)
        BY <1>1, <1>3, <2>1 DEF InMap, ConnectionTypeOK
  <2>4. ConnectionTypeOK'
        BY <1>1, <1>2, <2>1 DEF ConnectionTypeOK
  <2>5. NoPeerBehindTeardown' /\ RecordInv' /\ InputInv' /\ TeardownInv' /\ PageInv'
        BY <1>1, <1>2, <2>1, <2>2, <2>3
        DEF NoPeerBehindTeardown, RecordInv, InputInv, TeardownInv, PageInv
  <2> QED BY <2>4, <2>5 DEF ConnectionInv
<1>6. CASE DoneAccepted \/ Faulted
  <2>1. /\ session.humanActive /\ session.peer = "open" /\ RuntimeRevoked(session.id)
        /\ session'.id = session.id
        /\ session'.peer = "gone"
        /\ \/ /\ record' = [record EXCEPT ![session.id] = "revoked"]
              /\ session'.faulted = session.faulted
           \/ record' = record /\ session'.completed = session.completed
        BY <1>3, <1>6
        DEF DoneAccepted, Faulted, HumanDone, SessionFaults, Accepting, Peer, Session
  <2>2. /\ prepared' \in [Sessions -> BOOLEAN] /\ input' \in [Sessions -> BOOLEAN]
        /\ runtime' \in [Sessions -> {"none", "open", "lost", "closing", "closed"}]
        /\ \A t \in Sessions :
              /\ InMap(t)' => InMap(t) /\ t # session.id
              /\ prepared'[t] => prepared[t] /\ t # session.id
              /\ input'[t] => input[t] /\ t # session.id
        BY <1>1, <1>3, <2>1, RuntimeRevokedFacts
  <2>3. ConnectionTypeOK'
        BY <1>1, <1>2, <1>3, <2>1, <2>2 DEF ConnectionTypeOK
  <2>4. teardown' = NoTeardown
        BY <1>1, <1>2, <2>1 DEF RefInv
  <2>5. NoPeerBehindTeardown' /\ InputInv' /\ TeardownInv'
        BY <1>1, <2>1, <2>2, <2>4 DEF NoPeerBehindTeardown, InputInv, TeardownInv
  <2>6. RecordInv'
        BY <1>1, <1>3, <2>1 DEF RecordInv, ConnectionTypeOK
  <2>7. page[session.id] = "connected"
        BY <1>1, <1>3, <2>1 DEF PageInv
  <2>8. PageInv'
        BY <1>1, <1>2, <2>1, <2>2, <2>7 DEF PageInv
  <2> QED BY <2>3, <2>5, <2>6, <2>8 DEF ConnectionInv
<1> QED BY <1>4, <1>5, <1>6

\* The rest of the handoff touches no connection: the transport's session stays, or a
\* completed one is released.
LEMMA HandoffKeepsConnections ==
    HandoffInv /\ ConnectionInv /\ HandoffOnly => ConnectionInv'
<1> SUFFICES ASSUME HandoffInv, ConnectionInv, HandoffOnly PROVE ConnectionInv'
    OBVIOUS
<1>1. /\ ConnectionTypeOK /\ NoPeerBehindTeardown /\ PageInv /\ RecordInv /\ InputInv
      /\ TeardownInv /\ RefInv /\ Sessions' = Sessions
      BY DEF ConnectionInv, HandoffInv, Sessions
<1>2. /\ UNCHANGED <<record, prepared, runtime, input, page, awaits>>
      /\ \A s \in Sessions : InMap(s)' = InMap(s)
      BY DEF HandoffOnly, connectionVars, InMap
<1>3. issued \in Nat /\ issued' \in Nat /\ issued <= issued' /\ issued' <= MaxIssued
  <2>1. HandoffStep
        BY DEF HandoffOnly, NextHumanEvent, HandoffStep
  <2> QED BY <1>1, <2>1, IssuedSteps, SessionName DEF ConnectionTypeOK
<1>4. CASE NextDone
  <2>1. /\ transportRef # NoRef /\ session.completed /\ ~session.humanActive
        /\ session' = NoSession /\ teardown' = teardown
        BY <1>4 DEF NextDone, HasTransport, ReleaseCompleted
  <2>2. /\ NoSession.id \notin Sessions /\ teardown' = NoTeardown
        BY <1>1, <2>1, SessionName DEF RefInv
  <2>3. \A s \in Sessions : ~InMap(s) /\ ~input[s] /\ record[s] \notin {"made", "claimed"}
        BY <1>1, <2>1 DEF NoPeerBehindTeardown, InputInv, RecordInv
  <2>4. ConnectionTypeOK'
        BY <1>1, <1>2, <1>3 DEF ConnectionTypeOK
  <2>5. NoPeerBehindTeardown' /\ RecordInv' /\ InputInv' /\ TeardownInv'
        BY <1>1, <1>2, <2>1, <2>2, <2>3
        DEF NoPeerBehindTeardown, RecordInv, InputInv, TeardownInv
  <2>6. PageInv'
    <3> SUFFICES ASSUME NEW s \in Sessions
                 PROVE  /\ s > issued' => page[s] = "away"
                        /\ prepared[s] => page[s] \in {"prepared", "offering", "refused"}
                        /\ session'.id # s
        BY <1>1, <1>2, <2>3 DEF PageInv
    <3>1. s > issued' => s > issued
          BY <1>3 DEF Sessions
    <3> QED BY <1>1, <2>1, <2>2, <3>1 DEF PageInv
  <2> QED BY <2>4, <2>5, <2>6 DEF ConnectionInv
<1>5. CASE ~NextDone
  <2>1. /\ teardown' = teardown /\ session'.id = session.id
        /\ session'.completed = session.completed /\ session'.faulted = session.faulted
        /\ session'.humanActive = session.humanActive /\ session'.peer = session.peer
    <3>1. CASE NextInput
          BY <3>1, SessionName DEF NextInput, Session
    <3>2. CASE HumanTypes
          BY <3>2, SessionName DEF HumanTypes, Peer, Session
    <3>3. CASE ~NextInput /\ ~HumanTypes
          BY <1>5, <3>3
          DEF HandoffOnly, NextHumanEvent, BeginFails, NoteHumanDisconnect, ConfirmDrain,
              ReportSatisfied, Resume, Acknowledge, SessionExits, AgentWrites,
              AgentWriteLands, HumanWriteLands, Reload, transportVars
    <3> QED BY <3>1, <3>2, <3>3
  <2>2. \A s \in Sessions :
            /\ InMap(s)' => InMap(s)
            /\ prepared'[s] => prepared[s]
            /\ input'[s] => input[s]
            /\ record'[s] \in {"made", "claimed"} => record[s] \in {"made", "claimed"}
        BY <1>2
  <2>3. /\ record' \in [Sessions -> {"none", "made", "claimed", "released", "revoked"}]
        /\ prepared' \in [Sessions -> BOOLEAN] /\ input' \in [Sessions -> BOOLEAN]
        /\ runtime' \in [Sessions -> {"none", "open", "lost", "closing", "closed"}]
        BY <1>1, <1>2 DEF ConnectionTypeOK
  <2> QED BY <1>2, <1>3, <2>1, <2>2, <2>3, ConnectionShrinks
<1> QED BY <1>4, <1>5

\* The page's requests: each moves its session's page, and none is taken for a session
\* that a teardown is waiting for before its preparation had come.
LEMMA RequestsKeepConnections ==
    ASSUME HandoffInv, ConnectionInv, ~Urgent, NEW s \in Sessions,
           Prepare(s) \/ Prepared(s) \/ ConnectArrives(s) \/ Connect(s) \/ Answered(s)
    PROVE  ConnectionInv'
<1>1. /\ ConnectionTypeOK /\ NoPeerBehindTeardown /\ PageInv /\ RecordInv /\ InputInv
      /\ TeardownInv /\ Sessions' = Sessions
      BY DEF ConnectionInv, Sessions
<1>2. UNCHANGED <<issued, session, teardown, awaits, input>>
      BY DEF Prepare, Prepared, ConnectArrives, Connect, Answered, vars, lifecycleVars,
             transportVars, RuntimeUnchanged
<1>3. teardown # NoTeardown => awaits
      BY DEF Urgent
<1>4. InputInv'
      BY <1>1, <1>2 DEF InputInv
<1>5. CASE Prepare(s)
  <2>1. /\ session.id = s /\ ~session.completed /\ page[s] = "away" /\ record[s] = "made"
        /\ record' = [record EXCEPT ![s] = "claimed"] /\ page' = [page EXCEPT ![s] = "preparing"]
        /\ UNCHANGED <<prepared, runtime>> /\ \A t \in Sessions : InMap(t)' = InMap(t)
        BY <1>5 DEF Prepare, Addressed, RuntimeUnchanged, InMap
  <2>2. teardown = NoTeardown /\ s <= issued
        BY <1>1, <1>3, <2>1, SessionName DEF TeardownInv
  <2>3. ConnectionTypeOK'
        BY <1>1, <1>2, <2>1 DEF ConnectionTypeOK
  <2>4. NoPeerBehindTeardown' /\ RecordInv' /\ TeardownInv'
        BY <1>1, <1>2, <2>1, <2>2
        DEF NoPeerBehindTeardown, RecordInv, TeardownInv, ConnectionTypeOK
  <2>5. ~(s > issued)
        BY <2>2, SessionName DEF Sessions
  <2>6. PageInv'
        BY <1>1, <1>2, <2>1, <2>5 DEF PageInv, ConnectionTypeOK
  <2> QED BY <1>4, <2>3, <2>4, <2>6 DEF ConnectionInv
<1>6. CASE Prepared(s)
  <2>1. /\ page[s] = "preparing" /\ page' = [page EXCEPT ![s] = "prepared"]
        /\ prepared' = [prepared EXCEPT ![s] = TRUE]
        /\ UNCHANGED <<record, runtime>> /\ \A t \in Sessions : InMap(t)' = InMap(t)
        BY <1>6 DEF Prepared, InMap
  <2>2. session.id = s => teardown = NoTeardown
        BY <1>1, <1>3, <2>1 DEF TeardownInv
  <2>3. ConnectionTypeOK'
        BY <1>1, <1>2, <2>1 DEF ConnectionTypeOK
  <2>4. NoPeerBehindTeardown' /\ RecordInv'
        BY <1>1, <1>2, <2>1 DEF NoPeerBehindTeardown, RecordInv
  <2>5. TeardownInv'
        BY <1>1, <1>2, <2>1, <2>2 DEF TeardownInv, ConnectionTypeOK
  <2>6. PageInv'
        BY <1>1, <1>2, <2>1 DEF PageInv, ConnectionTypeOK
  <2> QED BY <1>4, <2>3, <2>4, <2>5, <2>6 DEF ConnectionInv
<1>7. CASE ConnectArrives(s) \/ Answered(s)
  <2>1. /\ \/ page[s] = "prepared" /\ page' = [page EXCEPT ![s] = "offering"]
           \/ page[s] = "connecting" /\ page' = [page EXCEPT ![s] = "connected"]
        /\ UNCHANGED <<record, prepared, runtime>> /\ \A t \in Sessions : InMap(t)' = InMap(t)
        BY <1>7 DEF ConnectArrives, Answered, RuntimeUnchanged, InMap
  <2>2. ConnectionTypeOK'
        BY <1>1, <1>2, <2>1 DEF ConnectionTypeOK
  <2>3. NoPeerBehindTeardown' /\ RecordInv'
        BY <1>1, <1>2, <2>1 DEF NoPeerBehindTeardown, RecordInv
  <2>4. TeardownInv'
        BY <1>1, <1>2, <2>1 DEF TeardownInv, ConnectionTypeOK
  <2>5. PageInv'
        BY <1>1, <1>2, <2>1 DEF PageInv, ConnectionTypeOK
  <2> QED BY <1>4, <2>2, <2>3, <2>4, <2>5 DEF ConnectionInv
<1>8. CASE Connect(s)
  <2>1. /\ page[s] = "offering" /\ record[s] = "claimed" /\ prepared[s] /\ record' = record
        /\ page' = [page EXCEPT ![s] = "connecting"]
        /\ prepared' = [prepared EXCEPT ![s] = FALSE]
        /\ runtime' = [runtime EXCEPT ![s] = "open"]
        BY <1>8 DEF Connect, Verified
  <2>2. session.id = s /\ ~session.completed /\ teardown = NoTeardown
        BY <1>1, <1>3, <2>1 DEF RecordInv, TeardownInv
  <2>3. ~session.faulted /\ session.peer # "open"
        BY <1>1, <2>1, <2>2 DEF PageInv
  <2>4. \A t \in Sessions : (InMap(t)' <=> InMap(t) \/ t = s) /\ (prepared'[t] <=> prepared[t] /\ t # s)
        BY <1>1, <2>1 DEF InMap, ConnectionTypeOK
  <2>5. ConnectionTypeOK'
        BY <1>1, <1>2, <2>1 DEF ConnectionTypeOK
  <2>6. NoPeerBehindTeardown' /\ RecordInv' /\ TeardownInv'
        BY <1>1, <1>2, <2>1, <2>2, <2>3, <2>4
        DEF NoPeerBehindTeardown, RecordInv, TeardownInv
  <2>7. PageInv'
        BY <1>1, <1>2, <2>1, <2>3, <2>4 DEF PageInv, ConnectionTypeOK
  <2> QED BY <1>4, <2>5, <2>6, <2>7 DEF ConnectionInv
<1> QED BY <1>5, <1>6, <1>7, <1>8

\* The peer closing without a word leaves the session what it was.
LEMMA SilentlyFacts ==
    ASSUME HandoffInv, NEW s \in Sessions, Silently(s)
    PROVE  /\ UNCHANGED <<issued, teardown>>
           /\ session'.id = session.id /\ session'.completed = session.completed
           /\ session'.faulted = session.faulted /\ session'.humanActive = session.humanActive
           /\ session'.peer = "open" => session.peer = "open"
<1>1. CASE LeaseExpires
  <2>1. session \in Session
        BY DEF HandoffInv, HandoffTypeOK
  <2> QED BY <1>1, <2>1 DEF LeaseExpires, Peer, Session, lifecycleVars
<1>2. CASE UNCHANGED vars
      BY <1>2 DEF vars, lifecycleVars, transportVars
<1> QED BY <1>1, <1>2 DEF Silently

\* What closes, expires or is refused opens nothing.
LEMMA ClosingKeepsConnections ==
    ASSUME HandoffInv, ConnectionInv, NEW s \in Sessions,
           LostUnopened(s) \/ LeaseEnds(s) \/ TimerFires(s) \/ PeerClosed(s) \/ CredentialRevoked(s)
    PROVE  ConnectionInv'
<1>1. ConnectionTypeOK /\ issued \in Nat /\ issued <= MaxIssued /\ MaxIssued \in Nat
      BY SessionName DEF ConnectionInv, ConnectionTypeOK
<1>2. /\ record' = record /\ page' = page /\ awaits' = awaits
      /\ UNCHANGED <<issued, teardown>>
      /\ session'.id = session.id /\ session'.completed = session.completed
      /\ session'.faulted = session.faulted /\ session'.humanActive = session.humanActive
      /\ session'.peer = "open" => session.peer = "open"
  <2>1. CASE TimerFires(s)
        BY <2>1, SilentlyFacts DEF TimerFires
  <2>2. CASE ~TimerFires(s)
        BY <2>2 DEF LostUnopened, LeaseEnds, PeerClosed, CredentialRevoked, vars,
                    lifecycleVars, transportVars
  <2> QED BY <2>1, <2>2
<1>3. /\ prepared' \in [Sessions -> BOOLEAN] /\ input' \in [Sessions -> BOOLEAN]
      /\ runtime' \in [Sessions -> {"none", "open", "lost", "closing", "closed"}]
      /\ \A t \in Sessions :
            /\ InMap(t)' => InMap(t)
            /\ prepared'[t] => prepared[t]
            /\ input'[t] => input[t]
  <2>1. CASE LostUnopened(s)
        BY <1>1, <2>1 DEF LostUnopened, ConnectionTypeOK, InMap
  <2>2. CASE LeaseEnds(s) \/ CredentialRevoked(s)
        BY <1>1, <2>2 DEF LeaseEnds, CredentialRevoked, RuntimeUnchanged, ConnectionTypeOK, InMap
  <2>3. CASE TimerFires(s)
        BY <1>1, <2>3, RuntimeRevokedFacts DEF TimerFires
  <2>4. CASE PeerClosed(s)
        BY <1>1, <2>4 DEF PeerClosed, ConnectionTypeOK, InMap
  <2> QED BY <2>1, <2>2, <2>3, <2>4
<1>4. record' \in [Sessions -> {"none", "made", "claimed", "released", "revoked"}]
      BY <1>1, <1>2 DEF ConnectionTypeOK
<1>5. issued' \in Nat /\ issued <= issued' /\ issued' <= MaxIssued
      BY <1>1, <1>2
<1>6. \A t \in Sessions :
          record'[t] \in {"made", "claimed"} => record[t] \in {"made", "claimed"}
      BY <1>2
<1> QED BY <1>1, <1>2, <1>3, <1>4, <1>5, <1>6, ConnectionShrinks

\* A refused request leaves the connections as they are.
LEMMA RefusalKeepsConnections ==
    ASSUME HandoffInv, ConnectionInv, NEW s \in Sessions, ConnectFails(s)
    PROVE  ConnectionInv'
<1>1. /\ ConnectionTypeOK /\ NoPeerBehindTeardown /\ PageInv /\ RecordInv /\ InputInv
      /\ TeardownInv /\ Sessions' = Sessions
      BY DEF ConnectionInv, Sessions
<1>2. page[s] \in {"offering", "connecting"} /\ page' = [page EXCEPT ![s] = "refused"]
      /\ awaits' = awaits
      BY DEF ConnectFails
<1>3. /\ UNCHANGED <<issued, teardown>>
      /\ session'.id = session.id /\ session'.completed = session.completed
      /\ session'.faulted = session.faulted /\ session'.humanActive = session.humanActive
      /\ session'.peer = "open" => session.peer = "open"
      BY SilentlyFacts DEF ConnectFails, vars, lifecycleVars, transportVars
<1>4. /\ prepared' \in [Sessions -> BOOLEAN] /\ input' \in [Sessions -> BOOLEAN]
      /\ runtime' \in [Sessions -> {"none", "open", "lost", "closing", "closed"}]
      /\ \A t \in Sessions :
            /\ InMap(t)' => InMap(t) /\ t # s
            /\ prepared'[t] => prepared[t]
            /\ input'[t] => input[t]
      /\ record' \in [Sessions -> {"none", "made", "claimed", "released", "revoked"}]
      /\ \A t \in Sessions :
            record'[t] \in {"made", "claimed"} => record[t] \in {"made", "claimed"}
  <2>1. CASE RuntimeUnchanged /\ record' = record /\ page[s] = "offering"
    <3>1. ~InMap(s)
          BY <1>1, <2>1 DEF PageInv
    <3> QED BY <1>1, <2>1, <3>1 DEF RuntimeUnchanged, ConnectionTypeOK, InMap
  <2>2. CASE Released(s) /\ RuntimeRevoked(s)
    <3>1. /\ record' \in [Sessions -> {"none", "made", "claimed", "released", "revoked"}]
          /\ \A t \in Sessions :
                record'[t] \in {"made", "claimed"} => record[t] \in {"made", "claimed"}
          BY <1>1, <2>2 DEF Released, Verified, ConnectionTypeOK
    <3> QED BY <1>1, <2>2, <3>1, RuntimeRevokedFacts
  <2> QED BY <2>1, <2>2 DEF ConnectFails
<1>5. ConnectionTypeOK'
      BY <1>1, <1>2, <1>3, <1>4 DEF ConnectionTypeOK
<1>6. NoPeerBehindTeardown' /\ RecordInv' /\ InputInv'
      BY <1>1, <1>3, <1>4 DEF NoPeerBehindTeardown, RecordInv, InputInv
<1>7. \A t \in Sessions : page'[t] = (IF t = s THEN "refused" ELSE page[t])
      BY <1>1, <1>2 DEF ConnectionTypeOK
<1>8. PageInv'
      BY <1>1, <1>2, <1>3, <1>4, <1>7 DEF PageInv
<1>9. TeardownInv'
      BY <1>1, <1>2, <1>3, <1>4, <1>7 DEF TeardownInv
<1> QED BY <1>5, <1>6, <1>8, <1>9 DEF ConnectionInv

\* Every step of the transport keeps the invariant of its connections.
LEMMA ConnectionInvKept ==
    HandoffInv /\ ConnectionInv /\ [TransportNext]_transportHandoffVars => ConnectionInv'
<1> SUFFICES ASSUME HandoffInv, ConnectionInv, [TransportNext]_transportHandoffVars
             PROVE  ConnectionInv'
    OBVIOUS
<1>1. CASE UNCHANGED transportHandoffVars
      BY <1>1 DEF transportHandoffVars, vars, lifecycleVars, transportVars, connectionVars,
                  ConnectionInv, ConnectionTypeOK, NoPeerBehindTeardown, PageInv, RecordInv,
                  InputInv, TeardownInv, InMap, Sessions
<1>2. CASE TransportNext
      BY <1>2, BeginKeepsConnections, ClaimKeepsConnections, RevokeKeepsConnections,
         RevokedKeepsConnections, ChannelKeepsConnections, HandoffKeepsConnections,
         RequestsKeepConnections, ClosingKeepsConnections, RefusalKeepsConnections
      DEF TransportNext, RuntimeSettles
<1> QED BY <1>1, <1>2

\* The transport starts without a connection.
LEMMA ConnectionInvInitially == TransportInit => ConnectionInv
<1> SUFFICES ASSUME TransportInit PROVE ConnectionInv
    OBVIOUS
<1>1. /\ issued = 0 /\ session = NoSession /\ teardown = NoTeardown
      /\ record = [s \in Sessions |-> "none"] /\ page = [s \in Sessions |-> "away"]
      /\ prepared = [s \in Sessions |-> FALSE] /\ runtime = [s \in Sessions |-> "none"]
      /\ input = [s \in Sessions |-> FALSE]
      BY DEF TransportInit, Init, LifecycleInit
<1>2. \A s \in Sessions : ~InMap(s) /\ session.id # s
      BY <1>1 DEF InMap, Sessions, NoSession
<1>3. ConnectionTypeOK
      BY <1>1, BoundsAssumption DEF ConnectionTypeOK
<1> QED BY <1>1, <1>2, <1>3
        DEF ConnectionInv, NoPeerBehindTeardown, PageInv, RecordInv, InputInv, TeardownInv
--------------------------------------------------------------------------------
\* The authority, the transport's session, the page and the runtime stay in step: the
\* inductive invariant holds in every reachable state.
THEOREM TransportInvariance == TransportSpec => []TransportInv
<1>1. TransportInit => TransportInv
      BY HandoffInvInitially, ConnectionInvInitially DEF TransportInit, TransportInv
<1>2. TransportInv /\ [TransportNext]_transportHandoffVars => TransportInv'
      BY StepsOfTheHandoff, HandoffInvKept, ConnectionInvKept DEF TransportInv
<1> QED BY <1>1, <1>2, PTL DEF TransportSpec

\* Exclusive authority down to the PTY: writes of the Agent and of the Human never wait
\* for it together.
THEOREM ExclusiveWriters == TransportSpec => []WritersDoNotMix
<1>1. TransportInv => WritersDoNotMix
      BY DEF TransportInv, HandoffInv
<1> QED BY <1>1, TransportInvariance, PTL

\* assertAgentInput() lets no Agent write through before the Agent knows what the Human
\* did.
THEOREM CurrentView == TransportSpec => AgentActsOnCurrentView
<1>1. TransportInv /\ [TransportNext]_transportHandoffVars
          => [agentWrites' > agentWrites => agentView]_vars
      BY StepsOfTheHandoff, WritesOnCurrentView DEF TransportInv
<1> QED BY <1>1, TransportInvariance, PTL DEF TransportSpec, AgentActsOnCurrentView

\* A teardown of the transport reaches every connection of the runtime.
THEOREM NoPeerOutlives == TransportSpec => []NoPeerBehindTeardown
<1>1. TransportInv => NoPeerBehindTeardown
      BY DEF TransportInv, ConnectionInv
<1> QED BY <1>1, TransportInvariance, PTL

\* The runtime's gate is open only while the session, the adapter's reference and the
\* authority agree that this Human has the terminal.
THEOREM GateFollowsAuthority == TransportSpec => []InputFollowsAuthority
<1>1. TransportInv => InputFollowsAuthority
  <2> SUFFICES ASSUME TransportInv, NEW s \in Sessions, input[s]
               PROVE  /\ session.id = s /\ session.humanActive
                      /\ sessionAlive /\ Authority = "human"
                      /\ active.id = s /\ active.epoch = session.epoch
      BY DEF InputFollowsAuthority
  <2>1. session.id = s /\ session.humanActive
        BY DEF TransportInv, ConnectionInv, InputInv
  <2>2. /\ sessionAlive /\ At(transportRef, "human_active")
        /\ transportRef = [id |-> session.id, epoch |-> session.epoch]
        BY <2>1 DEF TransportInv, HandoffInv, RefInv
  <2>3. Status("human_active") /\ active.id = session.id /\ active.epoch = session.epoch
        BY <2>2 DEF At, IsActive, Status
  <2> QED BY <2>1, <2>2, <2>3, AuthorityStatus
<1> QED BY <1>1, TransportInvariance, PTL
================================================================================
