--------------------------- MODULE WebSocketTakeover ---------------------------
(***************************************************************************)
(* The WebSocket transport of one intervention of a browser or a window:   *)
(* the page (websocket-browser-handoff.ts) in front of the window handoff  *)
(* (websocket-window-handoff.ts), its binding to the broker                *)
(* (websocket-broker-binding.ts, broker.ts), the ingress with its tickets  *)
(* and connections (websocket-ingress.ts), and the channel of each         *)
(* connection (websocket-takeover.ts) over the session records.            *)
(*                                                                         *)
(* A channel runs its operations one after another, and beside them it     *)
(* sends frames; each use of the surface is counted in the session record  *)
(* from its begin to its end.  A step of the model runs the code from one  *)
(* awaited answer (of the surface, the socket, the consumer's hook) to the *)
(* next.  A ping is an input that settles at once; latency reports and     *)
(* client diagnostics change nothing.                                      *)
(***************************************************************************)
EXTENDS TakeoverSessions, Sequences

CONSTANTS
    MaxConns,       \* bound on the connections ever accepted
    MaxQueued,      \* maxQueuedInboundMessages
    Bounds          \* how many sessions, connections and messages of each a behaviour
                    \* has, whether the window is captured, and whether
                    \* leases end, upgrades fail and messages are invalid

ASSUME ChannelAssumption ==
    /\ MaxConns \in Nat \ {0} /\ MaxQueued \in Nat \ {0}
    /\ \A b \in Bounds : /\ b.sessions \in 1..MaxSessions /\ b.conns \in 1..MaxConns
                        /\ b.messages \in Nat /\ b.frames \in BOOLEAN
                        /\ b.trouble \in BOOLEAN

VARIABLES
    window,     \* the ActiveWindowSession of the intervention, and its capture
    shown,      \* the BrowserSession of the page in front of the window
    routes,     \* webSocketOnlySessions, each with its revoke handler
    policies,   \* sessions of ExperimentalWebSocketBrokerBinding.#policies
    delivered,  \* completionDelivered
    known,      \* sessions the session authority has a record of
    tickets,    \* sessions whose handshake ticket is valid
    clientGen,  \* currentGeneration of the authority's record
    active,     \* ExperimentalWebSocketTakeoverIngress.#active
    conn,       \* the connections, with their channels
    bounds      \* the member of Bounds that this behaviour explores

brokerVars == <<routes, policies, delivered>>
ingressVars == <<known, tickets, clientGen, active>>
vars == <<records, issued, window, shown, brokerVars, ingressVars, conn, bounds>>

Conns == 1..MaxConns

NoWindow == [session |-> 0, epoch |-> 0, gen |-> 0, capturing |-> FALSE, aborted |-> FALSE]
NoPage == [session |-> 0, epoch |-> 0]

Channel(s, g) ==
    [session |-> s, gen |-> g, ticket |-> s > 0, state |-> IF s > 0 THEN "open" ELSE "none",
     admits |-> s > 0, received |-> 0, queue |-> <<>>, busy |-> "no", starting |-> s > 0,
     sending |-> FALSE, pending |-> FALSE, timer |-> FALSE, released |-> FALSE,
     socket |-> IF s > 0 THEN "open" ELSE "gone", left |-> FALSE]

\* parseHumanMessage(): an input, Done, or what the protocol or the policy refuses.
Kinds == {"input", "done", "invalid"}
Ops == Kinds \union {"overflow", "disconnect", "revoke"}

\* queuedInboundMessages: the messages received that have not begun.
Queued(ch) == Cardinality({i \in 1..Len(ch.queue) : ch.queue[i] \in Kinds})

Init ==
    /\ bounds \in Bounds /\ SessionsInit /\ window = NoWindow /\ shown = NoPage
    /\ routes = {} /\ policies = {} /\ delivered = {} /\ known = {} /\ tickets = {}
    /\ clientGen = [s \in Sessions |-> 0] /\ active = [s \in Sessions |-> 0]
    /\ conn = [c \in Conns |-> Channel(0, 0)]

-----------------------------------------------------------------------------
(* The channel: what its operations do to it and to the session record.    *)

\* enqueue(), after admission is closed.
Fenced(ch, op) == [ch EXCEPT !.admits = FALSE, !.queue = Append(@, op)]
Closing(ch) == IF ch.socket = "open" THEN "closing" ELSE ch.socket

Cut(ch, st) == [ch EXCEPT !.state = st, !.admits = FALSE, !.pending = FALSE, !.timer = FALSE]

\* failClosed()
Ending(ch) == ch.state \in {"failed", "closed", "revoked"}
Failed(ch) ==
    IF Ending(ch) THEN ch
    ELSE [Cut(ch, "failed") EXCEPT !.released = TRUE, !.socket = Closing(ch)]

\* lease.release(): nothing for a generation that is no longer current.
LeaseReleased(rs, ch) ==
    IF clientGen[ch.session] = ch.gen
    THEN [rs EXCEPT ![ch.session] = Released(@, ch.gen)] ELSE rs
\* Variant: the failed channel keeps its lease until its socket is gone.
FailedKeepingLease(rs, ch) == rs
FailedRecords(rs, ch) ==
    IF Ending(ch) \/ ch.released THEN rs ELSE LeaseReleased(rs, ch)

\* runBoundUse(): lease.beginUse() and lease.endUse().
MayBegin(ch) == clientGen[ch.session] = ch.gen /\ MayUse(records[ch.session], ch.gen)
Begun(ch) == [records EXCEPT ![ch.session] = UseBegun(@)]
EndedUse(rs, ch) == [rs EXCEPT ![ch.session] = UseEnded(@, ch.gen)]
\* Variant: the end of a use that failed is not told.
EndedIfOk(rs, ch, ok) == IF ok THEN EndedUse(rs, ch) ELSE rs
EndedAnyway(rs, ch, ok) == EndedUse(rs, ch)

\* A refused message of a failed channel invalidates the connection's ticket.
Invalidate(c) ==
    tickets' = IF conn[c].ticket THEN tickets \ {conn[c].session} ELSE tickets
InvalidateIfFailed(c) ==
    IF conn'[c].state = "failed" THEN Invalidate(c) ELSE UNCHANGED tickets

\* The operation, or the frame loop, of c fails the channel.
FailClosed(c, ch) ==
    /\ conn' = [conn EXCEPT ![c] = Failed(ch)]
    /\ records' = FailedRecords(records, ch)

-----------------------------------------------------------------------------
(* Revocation reaches the connections through the revoke handlers.          *)

\* ingress.revoke(): the channel of the active connection is told to revoke.
TellRevoked(cs, S) ==
    [c \in Conns |-> IF cs[c].session \in S /\ active[cs[c].session] = c
                     THEN Fenced(cs[c], "revoke") ELSE cs[c]]
Relink(S, added, cs) ==
    LET told == S \intersect routes IN
    /\ routes' = (routes \ S) \union added /\ delivered' = delivered \ S
    /\ policies' = (policies \ told) \union added
    /\ known' = known \ told /\ tickets' = tickets \ told
    /\ active' = [s \in Sessions |-> IF s \in told THEN 0 ELSE active[s]]
    /\ conn' = TellRevoked(cs, told)
    /\ UNCHANGED clientGen

\* ExperimentalWebSocketWindowHandoff.revoke(), broker.revokeForIntervention(): of
\* records and connections that the caller has already changed.
Revoke(rs, cs) ==
    /\ window' = NoWindow /\ records' = [s \in Sessions |-> Revoked(rs[s])]
    /\ Relink(Sessions, {}, cs) /\ UNCHANGED issued

\* createLink(): the session has the one route and policy of the intervention.
Link(s) == Relink(Sessions \ {s}, {s}, conn)

\* createSession(): a session for the epoch; that of an older epoch is revoked first,
\* and a revoked record goes with the pruning.
SessionFor(e, s) ==
    /\ s <= bounds.sessions /\ \A o \in Sessions : records[o].epoch <= e
    /\ \/ window.session = 0 /\ Ensure(e, s)
       \/ /\ window.session > 0 /\ window.epoch < e
          /\ s = issued + 1 /\ issued' = s
          /\ records' = [o \in Sessions |->
                IF o = s THEN NewRecord(e) ELSE IF Pruned[o].completed THEN Pruned[o] ELSE Gone]

\* start()
Start(e, s) ==
    /\ SessionFor(e, s)
    /\ Link(s)
    /\ window' = [NoWindow EXCEPT !.session = s, !.epoch = e]

\* ExperimentalWebSocketBrowserHandoff.start(): its page takes the place of an older one.
ShowPage(e, s) == Start(e, s) /\ shown' = [session |-> s, epoch |-> e]

\* revoke() by the consumer, of the page and of the window; it reaches the broker even
\* when the window has no session.
RevokeByConsumer == Revoke(records, conn) /\ shown' = NoPage

\* #forgetMatching()
ForgetPage(e) == shown' = IF shown.epoch = e THEN NoPage ELSE shown

\* The binding has a policy for s, and s is a live session: validateLocator().
Located(s) == s \in policies /\ Live(records[s])

\* The locator page is answered: authorizeClientPage() asks the window and the binding.
Page(s) == shown.session = s /\ window.session = s /\ Located(s)

\* completeWebSocketAfterVerification(): the routes go, and no transport is told.
CompleteAfterVerification(e) ==
    LET S == Verifiable(e) \intersect routes IN
    /\ Verifiable(e) # {} /\ records' = VerifiedRecords(e)
    /\ routes' = routes \ S /\ delivered' = delivered \ S
    /\ UNCHANGED <<issued, window, policies, ingressVars, conn>>

\* The timer of createExperimentalWebSocketSession().
ExpiryCleanup(s) ==
    /\ s \in routes /\ records[s].mediaOver /\ (records[s].doneOver \/ records[s].extended)
    /\ records' = [records EXCEPT ![s] = Revoked(@)]
    /\ Relink({s}, {}, conn) /\ UNCHANGED <<issued, window>>

-----------------------------------------------------------------------------
(* The ingress: tickets, upgrades, sockets.                                *)

\* The authority forgets the records whose lease is over before it serves one.
PrunedKnown == {s \in known : ~records[s].mediaOver}

\* issueHandshakeTicket(): a fresh ticket; the connections made with older ones keep those.
IssueTicket(s) ==
    /\ known' = PrunedKnown \union {s} /\ tickets' = (tickets \intersect PrunedKnown) \union {s}
    /\ conn' = [c \in Conns |->
        [conn[c] EXCEPT !.ticket = @ /\ conn[c].session # s /\ conn[c].session \in PrunedKnown]]
    /\ UNCHANGED <<records, issued, window, brokerVars, clientGen, active>>

\* handleBootstrap()
Bootstrap(s) == Located(s) /\ IssueTicket(s)

\* accept(): the first claim, or a reconnect with the handle the authority holds.
Accept(s) ==
    /\ s \in tickets /\ s \in PrunedKnown /\ clientGen[s] < MaxGen
    /\ IF clientGen[s] = 0 THEN MayClaim(records[s]) /\ records[s].gen = 0
       ELSE MayReconnect(records[s])
Accepted(s) == IF clientGen[s] = 0 THEN Claimed(records[s]) ELSE Reconnected(records[s])

\* handleUpgrade(), and channel.start() with its use for "ready".
Upgrade(s, c) ==
    /\ c <= bounds.conns /\ conn[c].state = "none" /\ \A d \in 1..(c - 1) : conn[d].state # "none"
    /\ Accept(s)
    /\ records' = [records EXCEPT ![s] = UseBegun(Accepted(s))]
    /\ clientGen' = [clientGen EXCEPT ![s] = @ + 1]
    /\ active' = [active EXCEPT ![s] = c]
    /\ conn' = [d \in Conns |->
        IF d = c THEN Channel(s, clientGen[s] + 1)
        ELSE IF d = active[s] THEN [Fenced(conn[d], "disconnect") EXCEPT !.socket = Closing(conn[d])]
        ELSE conn[d]]
    /\ known' = PrunedKnown /\ tickets' = tickets \intersect PrunedKnown
    /\ UNCHANGED <<issued, window, brokerVars>>

\* The upgrade of an accepted client comes to nothing: it throws, and the generation is
\* released, or the library answers the request itself, and it is not.
UpgradeFails(s, released) ==
    /\ bounds.trouble /\ Accept(s)
    /\ records' = [records EXCEPT ![s] =
        IF released THEN [Accepted(s) EXCEPT !.released = TRUE] ELSE Accepted(s)]
    /\ clientGen' = [clientGen EXCEPT ![s] = @ + 1]
    /\ known' = PrunedKnown /\ tickets' = tickets \intersect PrunedKnown
    /\ UNCHANGED <<issued, window, brokerVars, active, conn>>

\* A text message: receiveText() queues it, unless the queue is at its limit.
Received(ch, kind) ==
    [(IF Queued(ch) < MaxQueued THEN [ch EXCEPT !.queue = Append(@, kind)]
      ELSE Fenced(ch, "overflow")) EXCEPT !.received = ch.received + 1]
Receive(c, kind) ==
    /\ kind = "invalid" => bounds.trouble
    /\ conn[c].admits /\ conn[c].socket # "gone" /\ conn[c].received < bounds.messages
    /\ conn' = [conn EXCEPT ![c] = Received(conn[c], kind)]
    /\ UNCHANGED <<records, issued, window, brokerVars, ingressVars>>

\* disconnectOnce(), after the socket closed, failed, or sent what is not text.
Leave(c, sock) ==
    /\ conn[c].state # "none" /\ conn[c].socket # "gone"
    /\ sock = "closing" => conn[c].socket = "open" /\ bounds.trouble
    /\ conn' = [conn EXCEPT ![c] =
        IF @.left THEN [@ EXCEPT !.socket = sock]
        ELSE [Fenced(@, "disconnect") EXCEPT !.socket = sock, !.left = TRUE]]
    /\ active' = [s \in Sessions |->
        IF active[s] = c /\ ~conn[c].left THEN 0 ELSE active[s]]
    /\ IF sock = "closing" THEN Invalidate(c) ELSE UNCHANGED tickets
    /\ UNCHANGED <<records, issued, window, brokerVars, known, clientGen>>

\* channel.start(): "ready" was sent, or was not.
Ready(c, ok) ==
    /\ conn[c].starting
    /\ LET ch == [conn[c] EXCEPT !.starting = FALSE]
           rs == EndedAnyway(records, ch, ok)
       IN IF ok THEN /\ conn' = [conn EXCEPT ![c] = ch] /\ records' = rs /\ UNCHANGED tickets
          ELSE /\ conn' = [conn EXCEPT ![c] = Failed(ch)] /\ records' = FailedRecords(rs, ch)
               /\ Invalidate(c)
    /\ UNCHANGED <<issued, window, brokerVars, known, clientGen, active>>

-----------------------------------------------------------------------------
(* The queue of a channel.                                                 *)

Head1(c, kind) == conn[c].busy = "no" /\ conn[c].queue # <<>> /\ Head(conn[c].queue) = kind
Popped(c) == [conn[c] EXCEPT !.queue = Tail(@)]
Serves(ch) == ch.state = "open" /\ ch.admits

\* An input is dispatched to the surface when the window still has its session.
RunInput(c) ==
    /\ Head1(c, "input")
    /\ LET ch == Popped(c) IN
        IF ~Serves(ch)
        THEN conn' = [conn EXCEPT ![c] = ch] /\ UNCHANGED <<records, tickets>>
        ELSE IF MayBegin(ch) /\ window.session = ch.session
        THEN /\ conn' = [conn EXCEPT ![c] = [ch EXCEPT !.busy = "input"]]
             /\ records' = Begun(ch) /\ UNCHANGED tickets
        ELSE FailClosed(c, ch) /\ Invalidate(c)
    /\ UNCHANGED <<issued, window, brokerVars, known, clientGen, active>>

\* The surface answers: applied, refused in a recoverable way, or its authority is lost.
InputSettles(c, outcome) ==
    /\ conn[c].busy = "input"
    /\ LET ch == [conn[c] EXCEPT !.busy = "no"] IN
        IF outcome # "lost"
        THEN /\ conn' = [conn EXCEPT ![c] = ch]
             /\ records' = EndedAnyway(records, ch, outcome = "applied")
             /\ IF outcome = "refused" THEN InvalidateIfFailed(c) ELSE UNCHANGED tickets
             /\ UNCHANGED <<issued, window, brokerVars, known, clientGen, active>>
        ELSE /\ Revoke(EndedAnyway(records, ch, FALSE), [conn EXCEPT ![c] = Failed(ch)])

\* A message that does not parse, or does not fit, fails the channel.
RunRefused(c) ==
    /\ Head1(c, "invalid") \/ Head1(c, "overflow")
    /\ LET ch == Popped(c) IN
        IF Head1(c, "invalid") /\ ~Serves(ch)
        THEN conn' = [conn EXCEPT ![c] = ch] /\ UNCHANGED <<records, tickets>>
        ELSE FailClosed(c, ch) /\ InvalidateIfFailed(c)
    /\ UNCHANGED <<issued, window, brokerVars, known, clientGen, active>>

\* lease.complete(): by the current generation, within the completion window.
MayFinish(ch) == clientGen[ch.session] = ch.gen /\ MayComplete(records[ch.session])

\* complete(): the fence, and what the binding and the window forget with it.
RunDone(c) ==
    /\ Head1(c, "done")
    /\ LET ch == Popped(c) s == ch.session IN
        \/ /\ ~Serves(ch)
           /\ conn' = [conn EXCEPT ![c] = ch]
           /\ UNCHANGED <<records, window, shown, policies, known, tickets>>
        \/ /\ Serves(ch) /\ ~MayFinish(ch)
           /\ FailClosed(c, ch) /\ Invalidate(c) /\ UNCHANGED <<window, shown, policies, known>>
        \/ /\ Serves(ch) /\ MayFinish(ch)
           /\ known' = known \ {s} /\ tickets' = tickets \ {s} /\ policies' = policies \ {s}
           /\ records' = [records EXCEPT ![s] = Completed(@)]
           /\ window' = IF s \in routes /\ records[s].epoch = window.epoch THEN NoWindow ELSE window
           /\ IF s \in routes THEN ForgetPage(records[s].epoch) ELSE UNCHANGED shown
           /\ conn' = [conn EXCEPT ![c] =
                IF s \in routes THEN [Cut(ch, "closing") EXCEPT !.busy = "done"] ELSE Failed(ch)]
    /\ UNCHANGED <<issued, routes, delivered, clientGen, active>>

\* The consumer's completion hook answers.
CompletedHook(c, ok) ==
    /\ conn[c].busy = "done"
    /\ LET ch == [conn[c] EXCEPT !.busy = "no"] IN
        IF ok
        THEN /\ delivered' = delivered \union {ch.session}
             /\ conn' = [conn EXCEPT ![c] =
                    [ch EXCEPT !.released = TRUE, !.state = "closed", !.socket = Closing(ch)]]
             /\ UNCHANGED records
        ELSE FailClosed(c, ch) /\ UNCHANGED delivered
    /\ UNCHANGED <<issued, window, routes, policies, ingressVars>>

\* disconnect() and revoke()
RunEnd(c) ==
    /\ Head1(c, "disconnect") \/ Head1(c, "revoke")
    /\ LET ch == Popped(c) revoking == Head1(c, "revoke") IN
        IF ch.state \in {"closed", "revoked"} /\ ch.released
        THEN conn' = [conn EXCEPT ![c] = ch] /\ UNCHANGED records
        ELSE /\ records' = IF ch.released THEN records ELSE LeaseReleased(records, ch)
             /\ conn' = [conn EXCEPT ![c] =
                    [Cut(ch, IF revoking THEN "revoked" ELSE "closed") EXCEPT
                        !.released = TRUE, !.socket = IF revoking THEN Closing(ch) ELSE ch.socket]]
    /\ UNCHANGED <<issued, window, brokerVars, ingressVars>>

-----------------------------------------------------------------------------
(* Frames: the pump of the window, and the frame loop of a channel.        *)

\* sendFrameLoop(): the next frame is sent, or waits for the drain timer, or the use is
\* refused and the channel fails.
SendNext(c, ch, rs, congested) ==
    IF congested
    THEN /\ conn' = [conn EXCEPT ![c] = [ch EXCEPT !.sending = FALSE, !.pending = TRUE, !.timer = TRUE]]
         /\ records' = rs
    ELSE IF clientGen[ch.session] = ch.gen /\ MayUse(rs[ch.session], ch.gen)
    THEN /\ conn' = [conn EXCEPT ![c] = [ch EXCEPT !.sending = TRUE, !.pending = FALSE]]
         /\ records' = [rs EXCEPT ![ch.session] = UseBegun(@)]
    ELSE /\ conn' = [conn EXCEPT ![c] = [Failed(ch) EXCEPT !.sending = FALSE]]
         /\ records' = FailedRecords(rs, ch)

OpenConn(s) == {c \in Conns : active[s] = c /\ conn[c].state = "open"}

\* pumpFrame(): a capture for the open connection; a change of it aborts the capture.
Pump ==
    /\ bounds.frames /\ window.session > 0
    /\ LET open == OpenConn(window.session) IN
        IF open = {} THEN window' = [window EXCEPT !.gen = 0, !.aborted = @ \/ window.capturing]
        ELSE LET c == CHOOSE c \in open : TRUE IN
            window' = [window EXCEPT !.gen = conn[c].gen, !.capturing = TRUE,
                       !.aborted = window.capturing /\ (@ \/ window.gen # conn[c].gen)]
    /\ UNCHANGED <<records, issued, brokerVars, ingressVars, conn>>

\* pushFrame(): straight to the socket, or kept as the newest pending frame.
PushFrame(c, congested) ==
    IF conn[c].sending \/ congested
    THEN conn' = [conn EXCEPT ![c].pending = TRUE, ![c].timer = TRUE] /\ UNCHANGED records
    ELSE SendNext(c, [conn[c] EXCEPT !.pending = FALSE], records, FALSE)

CaptureSettles(congested) ==
    /\ window.capturing
    /\ window' = [window EXCEPT !.capturing = FALSE, !.aborted = FALSE]
    /\ \/ \E c \in OpenConn(window.session) : PushFrame(c, congested)
       \/ OpenConn(window.session) = {} /\ UNCHANGED <<records, conn>>
    /\ UNCHANGED <<issued, brokerVars, ingressVars>>

\* A failed capture: aborted or recoverable, or the authority over the target is lost.
CaptureFails(lost) ==
    /\ window.capturing
    /\ IF lost /\ ~window.aborted THEN Revoke(records, conn)
       ELSE /\ window' = [window EXCEPT !.capturing = FALSE, !.aborted = FALSE]
            /\ UNCHANGED <<records, issued, brokerVars, ingressVars, conn>>

FrameSent(c, ok, congested) ==
    /\ conn[c].sending
    /\ LET ch == [conn[c] EXCEPT !.sending = FALSE]
           rs == EndedAnyway(records, ch, ok)
       IN IF ~ok THEN conn' = [conn EXCEPT ![c] = Failed(ch)] /\ records' = FailedRecords(rs, ch)
          ELSE IF ch.state = "open" /\ ch.pending THEN SendNext(c, ch, rs, congested)
          ELSE conn' = [conn EXCEPT ![c] = ch] /\ records' = rs
    /\ UNCHANGED <<issued, window, brokerVars, ingressVars>>

\* flushPendingFrame()
Drain(c, congested) ==
    /\ conn[c].timer
    /\ LET ch == [conn[c] EXCEPT !.timer = FALSE] IN
        IF ch.state = "open" /\ ~ch.sending /\ ch.pending THEN SendNext(c, ch, records, congested)
        ELSE conn' = [conn EXCEPT ![c] = ch] /\ UNCHANGED records
    /\ UNCHANGED <<issued, window, brokerVars, ingressVars>>

Time(s) ==
    /\ bounds.trouble
    /\ MediaLeaseEnds(s) \/ CompletionWindowEnds(s)
    /\ UNCHANGED <<issued, window, brokerVars, ingressVars, conn>>

Run(c) == RunDone(c) \/ (UNCHANGED shown /\ (RunInput(c) \/ RunRefused(c) \/ RunEnd(c)))

\* Queued operations run before Node serves another event; only the messages of one
\* packet are received back to back.
Idle == \A c \in Conns : conn[c].busy # "no" \/ conn[c].queue = <<>>

Consumer ==
    \/ \E e \in Epochs, s \in Sessions : ShowPage(e, s)
    \/ RevokeByConsumer
Broker ==
    \/ \E e \in Epochs : CompleteAfterVerification(e)
    \/ \E s \in Sessions : ExpiryCleanup(s) \/ Time(s)
    \/ \E c \in Conns, ok \in BOOLEAN : CompletedHook(c, ok)
Client ==
    \/ \E s \in Sessions : Bootstrap(s)
    \/ \E s \in Sessions, c \in Conns : Upgrade(s, c)
    \/ \E s \in Sessions, released \in BOOLEAN : UpgradeFails(s, released)
    \/ \E c \in Conns, sock \in {"closing", "gone"} : Leave(c, sock)
    \/ \E c \in Conns, ok \in BOOLEAN : Ready(c, ok)
Surface ==
    \/ \E c \in Conns, outcome \in {"applied", "refused", "lost"} : InputSettles(c, outcome)
    \/ Pump
    \/ \E b \in BOOLEAN : CaptureSettles(b) \/ CaptureFails(b)
    \/ \E c \in Conns, ok, b \in BOOLEAN : FrameSent(c, ok, b)
    \/ \E c \in Conns, b \in BOOLEAN : Drain(c, b)

Next ==
    /\ UNCHANGED bounds
    /\ \/ \E c \in Conns : Run(c)
       \/ UNCHANGED shown /\ \E c \in Conns, kind \in Kinds : Receive(c, kind)
       \/ Idle /\ (Consumer \/ (UNCHANGED shown /\ (Broker \/ Client \/ Surface)))

Spec == Init /\ [][Next]_vars

-----------------------------------------------------------------------------
(* Properties                                                              *)

Uses(s) ==
    LET of == {c \in Conns : conn[c].session = s /\ conn[c].gen = records[s].gen} IN
    Cardinality({c \in of : conn[c].starting}) + Cardinality({c \in of : conn[c].sending})
        + Cardinality({c \in of : conn[c].busy = "input"})

\* The uses counted in a live session (beginBoundUse, endUse) are those its client really
\* has in progress: a lost end of use would keep every later client out, and a lost begin
\* would let one in beside an input that is still on its way.
UsesAreAccounted ==
    \A s \in Sessions :
        Live(records[s]) /\ records[s].gen > 0 => records[s].inFlight = Uses(s)

\* Done is the last word: while the consumer is told of a completion (complete(),
\* hooks.completed), no connection of that session has an input at the surface, and its
\* page is no longer answered.
InputsSettleBeforeDone ==
    \A c \in Conns : conn[c].busy = "done" =>
        /\ ~Page(conn[c].session)
        /\ \A d \in Conns : conn[d].session = conn[c].session => conn[d].busy # "input"

\* A channel that has ended and has nothing left to run (failClosed, disconnect, revoke)
\* does not keep the lease of its generation: the next client need not wait for it.
DeadClientReleases ==
    \A c \in Conns :
        LET ch == conn[c] IN
        Ending(ch) /\ ch.queue = <<>> /\ ch.busy = "no"
            => ~(MayUse(records[ch.session], ch.gen) /\ clientGen[ch.session] = ch.gen)

================================================================================
