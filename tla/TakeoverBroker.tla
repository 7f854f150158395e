---------------------------- MODULE TakeoverBroker ----------------------------
(***************************************************************************)
(* The takeover broker (src/src/browser-takeover/broker.ts) over the       *)
(* session manager, with the WebRTC runtime that owns one helper process   *)
(* per session (webrtc-runtime.ts).  A request that is awaiting something  *)
(* is a task; whatever a handler does between two awaits is one step.      *)
(* Requests arrive in any order, repeated and late, from any page that     *)
(* holds the capability they need.  An input over the data channel begins  *)
(* and ends its use in one step, so the model says when one is admitted.   *)
(***************************************************************************)
EXTENDS TakeoverSessions, TLC

CONSTANTS
    Deployments,    \* how the runtime is configured: legacy or WebRTC pages or
                    \* native clients, host kept over a suspend, TURN credentials, the consumer
                    \* verifies when a connected runtime ends; and the bounds
                    \* on sessions, helper processes, and links and
                    \* requests together
    Tasks,          \* requests that may be in progress at one time
    MaxHosts        \* bound on the helper processes ever spawned

ASSUME BrokerAssumption ==
    /\ Deployments \subseteq [kind: {"legacy", "webrtc", "native"}, preserve: BOOLEAN, turn: BOOLEAN,
                       ends: BOOLEAN, sessions: Nat, hosts: Nat, calls: Nat]
    /\ MaxGen > 0 /\ MaxHosts \in Nat

VARIABLES
    deployment, \* the configuration of this run
    page,       \* what the broker's maps say of each session
    rt,         \* active and prepared entries of the runtime, per session
    hosts,      \* the helper processes
    strays,     \* history: runtimes that lost their entry of `active` and were not ended
    task,       \* what each request in progress does
    calls,      \* requests that arrived
    delivered   \* history: how often hooks.completed succeeded for a session

vars == <<sessionVars, deployment, page, rt, hosts, strays, task, calls, delivered>>

Hosts == 1..MaxHosts

\* Route marker, input policy, verify-on-end option, intervention of the session,
\* verifying, verified and completion-delivered sets.
Page == [route: BOOLEAN, policy: BOOLEAN, ends: BOOLEAN, known: BOOLEAN,
         verifying: BOOLEAN, verified: BOOLEAN, done: BOOLEAN]
NoPage == [route |-> FALSE, policy |-> FALSE, ends |-> FALSE, known |-> FALSE,
           verifying |-> FALSE, verified |-> FALSE, done |-> FALSE]

\* ActiveWebRtcRuntime (gen 0: none) and PreparedWebRtcRuntime (0: none).  `connected` is
\* wasConnected, which a suspend and a resume leave as it is.
Runtime == [prepared: 0..MaxGen, gen: 0..MaxGen, host: 0..MaxHosts, connected: BOOLEAN,
            suspended: BOOLEAN, resumeFailed: BOOLEAN]
NoRuntime == [prepared |-> 0, gen |-> 0, host |-> 0, connected |-> FALSE,
              suspended |-> FALSE, resumeFailed |-> FALSE]

\* A runtime that `active` does not know any more but that nobody ended: its own start
\* failed, another request took its entry away (lost), or its end was taken for that of a
\* suspended runtime (misled).  Generation 0: it was suspended and has no peer.
Stray == [host: Hosts, s: Sessions, gen: 0..MaxGen, how: {"failed", "lost", "misled"}]

Idle == [kind |-> "idle", pc |-> "idle", s |-> 0, gen |-> 0, host |-> 0, rest |-> {}]
Running(kind, pc, s, g) ==
    [kind |-> kind, pc |-> pc, s |-> s, gen |-> g, host |-> 0, rest |-> {}]
At(t, pc) == task' = [task EXCEPT ![t].pc = pc]
Finish(t) == task' = [task EXCEPT ![t] = Idle]
Arrives == calls < deployment.calls /\ calls' = calls + 1
\* webRtcConnectInFlight: the connect that came last, whose host the entry is about.
Connecting(s) ==
    \E t \in Tasks : /\ task[t].kind = "connect" /\ task[t].s = s
                     /\ rt[s].gen > 0 => task[t].host = rt[s].host
Finalizing(s) == \E t \in Tasks : task[t].kind = "complete" /\ task[t].s = s

Init ==
    /\ SessionsInit
    /\ deployment \in Deployments
    /\ page = [s \in Sessions |-> NoPage]
    /\ rt = [s \in Sessions |-> NoRuntime]
    /\ hosts = [h \in Hosts |-> "none"] /\ strays = {}
    /\ task = [t \in Tasks |-> Idle]
    /\ calls = 0
    /\ delivered = [s \in Sessions |-> 0]

--------------------------------------------------------------------------------
(***************************************************************************)
(* Runtime: end(), revoke() and the calls that await them.                 *)
(***************************************************************************)
\* end() before its first await: the entry is gone and its host is being stopped.
Ended(s) == [NoRuntime EXCEPT !.prepared = rt[s].prepared]
Stopping(s) == IF rt[s].gen > 0 /\ hosts[rt[s].host] = "up"
               THEN [hosts EXCEPT ![rt[s].host] = "ending"] ELSE hosts

\* The entry of the session is deleted or overwritten, and its runtime not ended.
Strayed(s, how) ==
    IF rt[s].gen = 0 THEN strays
    ELSE strays \union {[host |-> rt[s].host, s |-> s, how |-> how,
                         gen |-> IF rt[s].suspended THEN 0 ELSE rt[s].gen]}

\* Requests that have nothing left to do once their revoke() settled.
LastIsRevoke == {"prepare-failed", "connect-failed", "suspend", "done", "native-failed"}

\* Request r goes on to await the end of host h, if there is one.
AwaitingHost(r, h) ==
    IF h > 0 THEN [r EXCEPT !.pc = "stopping", !.host = h]
    ELSE IF r.kind \in LastIsRevoke THEN Idle ELSE [r EXCEPT !.pc = "revoked", !.host = 0]

\* Request r of session s goes on to revoke() of the runtime: the prepared credential
\* first, whose revocation is awaited if it is one of TURN, and then end().
RevokeStep(t, r) ==
    LET s == r.s IN
    IF rt[s].prepared > 0 /\ deployment.turn
    THEN /\ rt' = [rt EXCEPT ![s].prepared = 0]
         /\ task' = [task EXCEPT ![t] = [r EXCEPT !.pc = "credential"]]
         /\ UNCHANGED hosts
    ELSE /\ rt' = [rt EXCEPT ![s] = NoRuntime]
         /\ hosts' = Stopping(s)
         /\ task' = [task EXCEPT ![t] = AwaitingHost(r, rt[s].host)]

\* The TURN credential was revoked: now the runtime itself.
CredentialRevoked(t) ==
    /\ task[t].pc = "credential"
    /\ LET s == task[t].s IN
        /\ rt' = [rt EXCEPT ![s] = Ended(s)]
        /\ hosts' = Stopping(s)
        /\ task' = [task EXCEPT ![t] = AwaitingHost(@, rt[s].host)]
    /\ UNCHANGED <<sessionVars, deployment, page, calls, delivered, strays>>

\* It could not be revoked: revoke() throws before it reaches end().
CredentialFails(t) ==
    /\ task[t].pc = "credential"
    /\ At(t, "failed")
    /\ UNCHANGED <<sessionVars, deployment, page, rt, hosts, calls, delivered, strays>>

\* waitForExitOrTerminate() returned, with the host gone or killed but its exit not awaited,
\* or killing it threw.
HostStopped(t) ==
    /\ task[t].pc = "stopping"
    /\ \/ At(t, "revoked")
       \/ hosts[task[t].host] = "ending" /\ At(t, "failed")
    /\ UNCHANGED <<sessionVars, deployment, page, rt, hosts, calls, delivered, strays>>

\* The session of a stray that still has its peer.
StrayOf(h, s) ==
    /\ deployment.kind = "webrtc"
    /\ \E o \in strays : o.host = h /\ o.s = s /\ o.gen > 0

\* A host that was told to stop is gone, or the host of a stray exits: there is nothing
\* else to end.
HostGone(h) ==
    /\ hosts[h] = "ending" \/ (hosts[h] = "up" /\ \E o \in strays : o.host = h)
    /\ \A s \in Sessions : StrayOf(h, s) => rt[s].gen = 0
    /\ hosts' = [hosts EXCEPT ![h] = "gone"]
    /\ UNCHANGED <<sessionVars, deployment, page, rt, task, calls, delivered, strays>>

RevokeSettled(t) ==
    /\ \/ task[t].kind \in LastIsRevoke /\ task[t].pc \in {"revoked", "failed"}
       \/ task[t].kind = "complete" /\ task[t].pc = "failed"
    /\ Finish(t)
    /\ UNCHANGED <<sessionVars, deployment, page, rt, hosts, calls, delivered, strays>>

\* A host of its own for a start: spawnHost().
Fresh(h) ==
    h <= deployment.hosts /\ hosts[h] = "none" /\ \A j \in 1..(h - 1) : hosts[j] # "none"

--------------------------------------------------------------------------------
(***************************************************************************)
(* Links.                                                                  *)
(***************************************************************************)
\* createLink(): the legacy page has no marker of its own.
CreateLink(e, s) ==
    /\ deployment.kind = "legacy" /\ Arrives /\ s <= deployment.sessions /\ Ensure(e, s)
    /\ UNCHANGED <<deployment, page, rt, hosts, task, delivered, strays>>

\* createWebRtcLink(): older sessions of the intervention lose target and policy.
CreateWebRtcLink(e, s) ==
    /\ deployment.kind = "webrtc" /\ Arrives /\ s <= deployment.sessions /\ Ensure(e, s)
    /\ page' = [o \in Sessions |->
            IF o # s THEN [page[o] EXCEPT !.policy = @ /\ ~page[o].route]
            ELSE IF page[s].verifying THEN page[s]
            ELSE [page[s] EXCEPT !.route = TRUE, !.known = TRUE, !.policy = TRUE,
                                 !.ends = deployment.ends]]
    /\ UNCHANGED <<deployment, rt, hosts, task, delivered, strays>>

--------------------------------------------------------------------------------
(***************************************************************************)
(* The page of a session and its state.                                    *)
(***************************************************************************)
\* What the page, webrtc-state, prepare and complete find of a session first.
Shows(s) ==
    IF page[s].verified /\ IsCompleted(records[s]) THEN "closed"
    ELSE IF page[s].verifying THEN "verifying" ELSE "open"

\* GET of the page gives the completion capability away, as soon as there is a link:
\* whoever has it may complete for as long as MayComplete.
PageFetched(s) == deployment.kind = "webrtc" /\ records[s].epoch > 0

\* The WebRTC requests of a session are served while its route is known.
Served(s) == deployment.kind = "webrtc" /\ page[s].route

--------------------------------------------------------------------------------
(***************************************************************************)
(* webrtc-prepare-claim and webrtc-prepare-reconnect.                      *)
(***************************************************************************)
\* catch of prepare and connect: generation g is released, the runtime revoked by
\* session.
Failed(t, kind, s, record, g) ==
    /\ records' = [records EXCEPT ![s] = Released(record, g)]
    /\ RevokeStep(t, Running(kind, "begin", s, g))

\* prepare() and start() refuse a client whose host is up already, or whose suspended host is gone.
Refuses(s, g) ==
    (rt[s].gen = g /\ ~rt[s].suspended) \/ (rt[s].suspended /\ rt[s].resumeFailed)

\* The runtime part of a prepare for this client, up to its first await: an entry of its
\* generation or a host that cannot be resumed refuses it, another entry is ended.
PrepareRuntime(t, s, record) ==
    LET r == rt[s]  g == record.gen IN
    IF Refuses(s, g)
    THEN Failed(t, "prepare-failed", s, record, g)
    ELSE /\ records' = [records EXCEPT ![s] = record]
         /\ rt' = [rt EXCEPT ![s] = IF r.suspended THEN r ELSE Ended(s)]
         /\ hosts' = IF r.suspended THEN hosts ELSE Stopping(s)
         /\ task' = [task EXCEPT ![t] = AwaitingHost(Running("prepare", "begin", s, g),
                                            IF r.suspended THEN 0 ELSE r.host)]

\* POST prepare: a use begins, what the session still runs is torn down first.
Prepare(t, s) ==
    /\ task[t] = Idle /\ Arrives
    /\ Served(s) /\ Shows(s) = "open"
    /\ \/ MayClaim(records[s]) /\ PrepareRuntime(t, s, Claimed(records[s]))
       \/ /\ MayReconnect(records[s]) /\ records[s].gen < MaxGen
          /\ PrepareRuntime(t, s, Reconnected(records[s]))
    /\ UNCHANGED <<issued, deployment, page, delivered, strays>>

\* The replaced host is gone: an earlier credential is dropped and one is issued,
\* at once without TURN.
PrepareGoesOn(t) ==
    /\ task[t].kind = "prepare" /\ task[t].pc = "revoked"
    /\ IF deployment.turn
       THEN /\ rt' = [rt EXCEPT ![task[t].s].prepared = 0]
            /\ At(t, IF rt[task[t].s].prepared > 0 THEN "reissuing" ELSE "issuing")
       ELSE rt' = [rt EXCEPT ![task[t].s].prepared = task[t].gen] /\ Finish(t)
    /\ UNCHANGED <<sessionVars, deployment, page, hosts, calls, delivered, strays>>

\* issue() answered, with a credential or with none: the entry is kept either way.
Prepared(t) ==
    /\ task[t].kind = "prepare" /\ task[t].pc \in {"issuing", "reissuing"}
    /\ rt' = [rt EXCEPT ![task[t].s].prepared = task[t].gen]
    /\ Finish(t)
    /\ UNCHANGED <<sessionVars, deployment, page, hosts, calls, delivered, strays>>

\* The earlier credential could not be revoked, or the replaced host not be stopped.
PrepareFails(t) ==
    /\ task[t].kind = "prepare"
    /\ task[t].pc \in {"reissuing", "failed"}
    /\ Failed(t, "prepare-failed", task[t].s, records[task[t].s], task[t].gen)
    /\ UNCHANGED <<issued, deployment, page, calls, delivered, strays>>

--------------------------------------------------------------------------------
(***************************************************************************)
(* webrtc-connect.                                                         *)
(***************************************************************************)
\* The rest of start() up to the await for the host: the prepared entry is taken and
\* the suspended host given to this generation, or a new one spawned.  Without TURN a
\* missing entry is prepared again.
TakePrepared(t, s, g) ==
    LET r == rt[s] IN
    IF r.prepared = g \/ (r.prepared = 0 /\ ~deployment.turn)
    THEN \/ /\ r.suspended
            /\ rt' = [rt EXCEPT ![s] = [NoRuntime EXCEPT !.gen = g, !.host = r.host,
                                                        !.connected = r.connected]]
            /\ task' = [task EXCEPT ![t] = [Running("connect", "resuming", s, g)
                            EXCEPT !.host = r.host]]
            /\ UNCHANGED <<records, hosts>>
         \/ /\ ~r.suspended
            /\ \E h \in Hosts :
                /\ Fresh(h)
                /\ hosts' = [hosts EXCEPT ![h] = "up"]
                /\ rt' = [rt EXCEPT ![s] = [NoRuntime EXCEPT !.gen = g, !.host = h]]
                /\ task' = [task EXCEPT ![t] = [Running("connect", "starting", s, g)
                                EXCEPT !.host = h]]
            /\ UNCHANGED records
    ELSE Failed(t, "connect-failed", s, records[s], g)

\* A runtime of another generation was ended by the prepare of this one.
Connect(t, s) ==
    /\ task[t] = Idle /\ Arrives /\ Served(s)
    /\ LET g == records[s].gen IN
        /\ MayUse(records[s], g)
        /\ \/ Refuses(s, g) /\ Failed(t, "connect-failed", s, records[s], g)
           \/ /\ ~Refuses(s, g) /\ (rt[s].gen = 0 \/ rt[s].suspended)
              /\ TakePrepared(t, s, g)
    /\ UNCHANGED <<issued, deployment, page, delivered, strays>>

\* The host is ready, the answer made: while this runtime was not ended, whether or not it
\* still has its entry.
Answered(t) ==
    /\ task[t].pc \in {"starting", "resuming"} /\ hosts[task[t].host] = "up"
    /\ Finish(t)
    /\ UNCHANGED <<sessionVars, deployment, page, rt, hosts, calls, delivered, strays>>

\* Variant: the host of a failed start is left to its expiry.
StartFailsKeepingHost(t) ==
    /\ task[t].pc = "starting"
    /\ LET s == task[t].s IN
        /\ rt' = [rt EXCEPT ![s] = Ended(s)]
        /\ strays' = Strayed(s, IF rt[s].host = task[t].host THEN "failed" ELSE "lost")
        /\ task' = [task EXCEPT ![t] = Running("connect-failed", "release", s, @.gen)]
    /\ UNCHANGED <<sessionVars, deployment, page, hosts, calls, delivered>>

\* Too late, no host, no answer: a fresh start kills its host and deletes the entry that
\* the session has by now, with the timer of whichever runtime that is.
StartFails(t) ==
    /\ task[t].pc = "starting"
    /\ LET s == task[t].s IN
        /\ rt' = [rt EXCEPT ![s] = Ended(s)]
        /\ hosts' = [hosts EXCEPT ![task[t].host] = IF @ = "up" THEN "ending" ELSE @]
        /\ strays' = Strayed(s, IF rt[s].host = task[t].host THEN "failed" ELSE "lost")
        /\ task' = [task EXCEPT ![t] = Running("connect-failed", "release", s, @.gen)]
    /\ UNCHANGED <<sessionVars, deployment, page, calls, delivered>>

\* A resumed one ends the runtime of the session.
ResumeFails(t) ==
    /\ task[t].pc = "resuming"
    /\ LET s == task[t].s IN
        /\ rt' = [rt EXCEPT ![s] = Ended(s)]
        /\ hosts' = Stopping(s)
        /\ task' = [task EXCEPT ![t] = Running("connect-failed", "release", s, @.gen)]
    /\ UNCHANGED <<sessionVars, deployment, page, calls, delivered, strays>>

\* The catch of connect, after the clean-up of a failed start.
FailedRequest(t) ==
    /\ task[t].kind = "connect-failed" /\ task[t].pc = "release"
    /\ Failed(t, "connect-failed", task[t].s, records[task[t].s], task[t].gen)
    /\ UNCHANGED <<issued, deployment, page, calls, delivered, strays>>

--------------------------------------------------------------------------------
(***************************************************************************)
(* webrtc-suspend, once a connect in flight has settled.                   *)
(***************************************************************************)
Suspended(s) ==
    [rt[s] EXCEPT !.prepared = 0, !.suspended = @ \/ rt[s].gen > 0]

Suspend(t, s) ==
    /\ task[t] = Idle /\ Arrives /\ Served(s) /\ ~Connecting(s)
    /\ LET g == records[s].gen IN
        /\ MayUse(records[s], g)
        /\ records' = [records EXCEPT ![s] = Released(@, g)]
        /\ \/ ~deployment.preserve /\ RevokeStep(t, Running("suspend", "begin", s, g))
           \/ /\ deployment.preserve /\ deployment.turn /\ rt[s].prepared > 0
              /\ rt' = [rt EXCEPT ![s].prepared = 0]
              /\ task' = [task EXCEPT ![t] = Running("suspend", "dropping", s, g)]
              /\ UNCHANGED hosts
           \/ /\ deployment.preserve /\ (rt[s].prepared > 0 => ~deployment.turn)
              /\ rt' = [rt EXCEPT ![s] = Suspended(s)]
              /\ UNCHANGED <<hosts, task>>
    /\ UNCHANGED <<issued, deployment, page, delivered, strays>>

\* The dropped credential settled: only if it was revoked is the runtime suspended.
SuspendGoesOn(t) ==
    /\ task[t].kind = "suspend" /\ task[t].pc = "dropping"
    /\ rt' = [rt EXCEPT ![task[t].s] = Suspended(task[t].s)] \/ UNCHANGED rt
    /\ Finish(t)
    /\ UNCHANGED <<sessionVars, deployment, page, hosts, calls, delivered, strays>>

--------------------------------------------------------------------------------
(***************************************************************************)
(* complete, done/cancel, and what the consumer calls.                     *)
(***************************************************************************)
\* Variant: every completion request runs a finalization of its own.
CompleteUnshared(t, s) ==
    /\ task[t] = Idle /\ Arrives /\ PageFetched(s)
    /\ ~page[s].verifying /\ MayComplete(records[s])
    /\ records' = [records EXCEPT ![s] = Completed(@)]
    /\ IF page[s].route THEN RevokeStep(t, Running("complete", "begin", s, 0))
       ELSE /\ task' = [task EXCEPT ![t] = Running("complete", "revoked", s, 0)]
            /\ UNCHANGED <<rt, hosts>>
    /\ UNCHANGED <<issued, deployment, page, delivered, strays>>

\* The completion capability of the page: a finalization in flight is shared.
Complete(t, s) ==
    /\ task[t] = Idle /\ Arrives /\ PageFetched(s)
    /\ ~page[s].verifying /\ MayComplete(records[s])
    /\ records' = [records EXCEPT ![s] = Completed(@)]
    /\ IF Finalizing(s) THEN UNCHANGED <<rt, hosts, task>>
       ELSE IF page[s].route THEN RevokeStep(t, Running("complete", "begin", s, 0))
       ELSE /\ task' = [task EXCEPT ![t] = Running("complete", "revoked", s, 0)]
            /\ UNCHANGED <<rt, hosts>>
    /\ UNCHANGED <<issued, deployment, page, delivered, strays>>

\* finalizeCompletion() after the teardown: the route is given up, the hook called once.
FinalizeCompletion(t) ==
    /\ task[t].kind = "complete" /\ task[t].pc = "revoked"
    /\ LET s == task[t].s IN
        /\ page' = [page EXCEPT ![s] = [@ EXCEPT !.route = FALSE, !.policy = FALSE,
                                                 !.ends = FALSE, !.verifying = FALSE]]
        /\ IF page[s].done THEN Finish(t) ELSE At(t, "hook")
    /\ UNCHANGED <<sessionVars, deployment, rt, hosts, calls, delivered, strays>>

\* hooks.completed() returned, or threw and waits for an explicit retry.
CompletedHook(t) ==
    /\ task[t].kind = "complete" /\ task[t].pc = "hook"
    /\ \/ /\ page' = [page EXCEPT ![task[t].s].done = TRUE]
          /\ delivered' = [delivered EXCEPT ![task[t].s] = @ + 1]
       \/ UNCHANGED <<page, delivered>>
    /\ Finish(t)
    /\ UNCHANGED <<sessionVars, deployment, rt, hosts, calls, strays>>

\* done and cancel of a page that holds the capability: no completion is delivered.
Done(t, s) ==
    /\ task[t] = Idle /\ Arrives
    /\ MayUse(records[s], records[s].gen)
    /\ records' = [records EXCEPT ![s] = Revoked(@)]
    /\ page' = [page EXCEPT ![s].route = FALSE, ![s].policy = FALSE]
    /\ RevokeStep(t, Running("done", "begin", s, 0))
    /\ UNCHANGED <<issued, deployment, delivered, strays>>

\* revokeForIntervention(): the records and maps at once, the runtimes one by one.
RevokeForIntervention(t) ==
    /\ task[t] = Idle /\ Arrives
    /\ records' = [s \in Sessions |-> Revoked(records[s])]
    /\ page' = [s \in Sessions |->
            [NoPage EXCEPT !.done = page[s].done /\ ~page[s].route]]
    /\ task' = [task EXCEPT ![t] = [Running("revoke-all", "revoked", 0, 0) EXCEPT
                    !.rest = {s \in Sessions : rt[s].gen > 0 \/ rt[s].prepared > 0}]]
    /\ UNCHANGED <<issued, deployment, rt, hosts, delivered, strays>>

\* completeWebRtcAfterVerification(): the records at once, then session by session.
CompleteAfterVerification(t, e) ==
    /\ deployment.kind = "webrtc" /\ task[t] = Idle /\ Arrives /\ Verifiable(e) # {}
    /\ records' = VerifiedRecords(e)
    /\ task' = [task EXCEPT ![t] = [Running("verified", "revoked", 0, 0) EXCEPT
                    !.rest = Verifiable(e)]]
    /\ UNCHANGED <<issued, deployment, page, rt, hosts, delivered, strays>>

\* The next session of either loop.  revoke-all stops at the first failure.
NextSession(t) ==
    /\ \/ task[t].kind \in {"verified", "revoke-all"} /\ task[t].pc = "revoked"
       \/ task[t].kind = "verified" /\ task[t].pc = "failed"
    /\ \E s \in task[t].rest :
        LET r == [task[t] EXCEPT !.rest = @ \ {s}, !.s = s, !.host = 0] IN
        IF task[t].kind = "verified" /\ ~page[s].known
        THEN /\ task' = [task EXCEPT ![t] = [r EXCEPT !.pc = "revoked"]]
             /\ UNCHANGED <<page, rt, hosts>>
        ELSE /\ RevokeStep(t, r)
             /\ page' = IF task[t].kind = "revoke-all" THEN page
                        ELSE [page EXCEPT ![s].verifying = FALSE, ![s].verified = TRUE,
                                          ![s].policy = FALSE]
    /\ UNCHANGED <<sessionVars, deployment, calls, delivered, strays>>
LoopEnds(t) ==
    /\ task[t].kind \in {"verified", "revoke-all"}
    /\ \/ task[t].rest = {} /\ task[t].pc \in {"revoked", "failed"}
       \/ task[t].kind = "revoke-all" /\ task[t].pc = "failed"
    /\ Finish(t)
    /\ UNCHANGED <<sessionVars, deployment, page, rt, hosts, calls, delivered, strays>>

--------------------------------------------------------------------------------
(***************************************************************************)
(* A legacy page: frame and input hold a use while the browser works.      *)
(***************************************************************************)
Bootstrap(s) ==
    /\ deployment.kind = "legacy" /\ Arrives
    /\ \/ MayClaim(records[s]) /\ records' = [records EXCEPT ![s] = Claimed(@)]
       \/ MayReconnect(records[s]) /\ records[s].gen < MaxGen
          /\ records' = [records EXCEPT ![s] = Reconnected(@)]
    /\ UNCHANGED <<issued, deployment, page, rt, hosts, task, delivered, strays>>

BeginUse(t, s) ==
    /\ deployment.kind = "legacy" /\ task[t] = Idle /\ Arrives
    /\ MayUse(records[s], records[s].gen)
    /\ records' = [records EXCEPT ![s] = UseBegun(@)]
    /\ task' = [task EXCEPT ![t] = Running("use", "browser", s, records[s].gen)]
    /\ UNCHANGED <<issued, deployment, page, rt, hosts, delivered, strays>>

EndUse(t) ==
    /\ task[t].kind = "use"
    /\ records' = [records EXCEPT ![task[t].s] = UseEnded(@, task[t].gen)]
    /\ Finish(t)
    /\ UNCHANGED <<issued, deployment, page, rt, hosts, calls, delivered, strays>>

--------------------------------------------------------------------------------
(***************************************************************************)
(* What happens to a runtime, and time.                                    *)
(***************************************************************************)
\* The client has the answer: its peer connects.
PeerConnects(s) ==
    /\ deployment.kind = "webrtc" /\ ~Connecting(s)
    /\ rt[s].gen > 0 /\ ~rt[s].connected /\ ~rt[s].suspended
    /\ rt' = [rt EXCEPT ![s].connected = TRUE]
    /\ UNCHANGED <<sessionVars, deployment, page, hosts, task, calls, delivered, strays>>

\* end() with notice, before its first await: a terminal cause of a connected runtime
\* opens the verification, and the generation is released either way.
EndWithNotice(s, terminal) ==
    /\ records' = [records EXCEPT ![s] = Released(@, rt[s].gen)]
    /\ page' = IF terminal /\ rt[s].connected /\ page[s].ends
               THEN [page EXCEPT ![s].verifying = TRUE, ![s].policy = FALSE] ELSE page
    /\ rt' = [rt EXCEPT ![s] = Ended(s)]
    /\ UNCHANGED <<issued, deployment, task, calls, delivered>>

\* Variant: opening the verification leaves the release to the page.
LostKeepingGeneration(s) ==
    /\ deployment.kind = "webrtc" /\ rt[s].gen > 0 /\ ~rt[s].suspended
    /\ page' = IF rt[s].connected /\ page[s].ends
               THEN [page EXCEPT ![s].verifying = TRUE, ![s].policy = FALSE] ELSE page
    /\ rt' = [rt EXCEPT ![s] = Ended(s)]
    /\ hosts' = Stopping(s)
    /\ UNCHANGED <<sessionVars, deployment, task, calls, delivered, strays>>

\* Peer state failed (not terminal); target missing, protocol error, exit or error of
\* the host, or a frame that could not be sent (terminal).
RuntimeLost(s) ==
    /\ deployment.kind = "webrtc" /\ rt[s].gen > 0 /\ ~rt[s].suspended
    /\ \E terminal \in BOOLEAN : EndWithNotice(s, terminal)
    /\ hosts' = Stopping(s) /\ UNCHANGED strays

\* The same of a stray, the exit of its host included: end() takes the session's entry
\* for it, be it that of another generation or of a suspended runtime.
StrayFails(o) ==
    /\ StrayOf(o.host, o.s) /\ rt[o.s].gen > 0
    /\ \E terminal \in BOOLEAN : EndWithNotice(o.s, terminal)
    /\ hosts' \in {Stopping(o.s), [Stopping(o.s) EXCEPT ![o.host] = "gone"]}
    /\ strays' = IF rt[o.s].suspended /\ page' # page
                 THEN (strays \ {o}) \union {[o EXCEPT !.how = "misled"]}
                 ELSE strays

\* The host of a suspended runtime exits: it cannot be resumed.
SuspendedHostExits(s) ==
    /\ rt[s].suspended /\ hosts[rt[s].host] = "up"
    /\ rt' = [rt EXCEPT ![s].resumeFailed = TRUE]
    /\ hosts' = [hosts EXCEPT ![rt[s].host] = "gone"]
    /\ UNCHANGED <<sessionVars, deployment, page, task, calls, delivered, strays>>

\* The media lease ends, and after it the timers of runtime, prepared entry, target
\* and policy; the completion window ends, and after it the timer of the route.  Time is
\* not told of a session that is revoked and forgotten.
Matters(s) == MayComplete(records[s]) \/ page[s] # NoPage \/ rt[s] # NoRuntime
MediaOver(s) ==
    /\ Matters(s) /\ MediaLeaseEnds(s)
    /\ UNCHANGED <<issued, deployment, page, rt, hosts, task, calls, delivered, strays>>
DoneOver(s) ==
    /\ Matters(s) /\ CompletionWindowEnds(s)
    /\ UNCHANGED <<issued, deployment, page, rt, hosts, task, calls, delivered, strays>>
RuntimeExpires(s) ==
    /\ deployment.kind = "webrtc" /\ records[s].mediaOver /\ rt[s].gen > 0
    /\ EndWithNotice(s, FALSE) /\ hosts' = Stopping(s) /\ UNCHANGED strays
PreparedExpires(s) ==
    /\ records[s].mediaOver /\ rt[s].prepared > 0
    /\ rt' = [rt EXCEPT ![s].prepared = 0]
    /\ UNCHANGED <<sessionVars, deployment, page, hosts, task, calls, delivered, strays>>
MediaCleanup(s) ==
    /\ records[s].mediaOver /\ page[s].policy
    /\ page' = [page EXCEPT ![s].policy = FALSE]
    /\ UNCHANGED <<sessionVars, deployment, rt, hosts, task, calls, delivered, strays>>
CompletionCleanup(s) ==
    /\ deployment.kind = "webrtc" /\ records[s].doneOver /\ page[s] # NoPage
    /\ page' = [page EXCEPT ![s] = NoPage]
    /\ UNCHANGED <<sessionVars, deployment, rt, hosts, task, calls, delivered, strays>>

Requests(t, s) ==
    \/ Prepare(t, s) \/ Connect(t, s) \/ Suspend(t, s) \/ Complete(t, s) \/ Done(t, s)
    \/ BeginUse(t, s)
Continues(t) ==
    \/ CredentialRevoked(t) \/ CredentialFails(t) \/ HostStopped(t) \/ RevokeSettled(t)
    \/ PrepareGoesOn(t) \/ Prepared(t) \/ PrepareFails(t) \/ FailedRequest(t)
    \/ Answered(t) \/ StartFails(t) \/ ResumeFails(t) \/ SuspendGoesOn(t)
    \/ FinalizeCompletion(t) \/ CompletedHook(t) \/ NextSession(t) \/ LoopEnds(t)
    \/ EndUse(t)
Happens(s) ==
    \/ PeerConnects(s) \/ RuntimeLost(s) \/ SuspendedHostExits(s)
    \/ MediaOver(s) \/ DoneOver(s) \/ RuntimeExpires(s) \/ PreparedExpires(s)
    \/ MediaCleanup(s) \/ CompletionCleanup(s) \/ Bootstrap(s)

\* All of it but the calls that give a session its route or take it away.
Works ==
    \/ \E t \in Tasks : Continues(t) \/ \E e \in Epochs : CompleteAfterVerification(t, e)
    \/ \E s \in Sessions : Happens(s) \/ \E e \in Epochs : CreateLink(e, s)
    \/ \E h \in Hosts : HostGone(h)
    \/ \E o \in strays : StrayFails(o)

--------------------------------------------------------------------------------
\* "so two mutable generations never coexist" (session.ts:80): at most one session of the
\* intervention is live, and the uses in flight of a live session are all of its client,
\* as many as the record counts: a reconnect never overtakes one.
OneClientInUse ==
    /\ OneLiveSession
    /\ \A s \in Sessions : Live(records[s]) =>
        /\ records[s].inFlight =
               Cardinality({t \in Tasks : task[t].kind = "use" /\ task[t].s = s})
        /\ \A t \in Tasks : task[t].kind = "use" /\ task[t].s = s
                => task[t].gen = records[s].gen

\* handleChannelMessage() goes on with a message of a peer of generation g of session s:
\* that of the entry, or of a runtime that lost its entry.
ChannelTakes(s, g) ==
    \/ rt[s].gen = g /\ rt[s].connected /\ ~rt[s].suspended
    \/ \E h \in Hosts : StrayOf(h, s) /\ \E o \in strays : o.host = h /\ o.gen = g

\* A data channel of session s would have an input carried out now.
InputAdmitted(s) ==
    \E g \in 1..MaxGen : ChannelTakes(s, g) /\ MayUse(records[s], g)

Misled(s) == \E o \in strays : o.s = s /\ o.how = "misled"

\* webRtcInputPolicy() of the broker allows everything when a session has no policy, and
\* three timers and handlers drop it: no session is ever admitted without its policy,
\* nor one that the consumer is verifying, that is verified or completed.  One case is
\* left out: a stray that ended and was taken for the suspended runtime of its session
\* opens the verification of a session whose client is another one.
InputIsFenced ==
    \A s \in Sessions : InputAdmitted(s) =>
        /\ ~page[s].verified /\ ~records[s].completed
        /\ (page[s].policy /\ ~page[s].verifying) \/ Misled(s)

\* A helper process that runs can be reached: it is the host of its session's runtime,
\* whose expiry ends it, or it was told to stop.  The code loses one in two ways only: a
\* start that failed late deletes the entry of a later one (webrtc-runtime.ts:482), and a
\* native claim overwrites the entry of another (native-runtime.ts:242).
HostsAreTracked ==
    \A h \in Hosts : hosts[h] = "up" =>
        \/ \E s \in Sessions : rt[s].gen > 0 /\ rt[s].host = h
        \/ \E o \in strays : o.host = h /\ o.how # "failed"

\* "Completion first fences/revokes transport and only then invokes the adapter's
\* optional consumer callback ... successful delivery is idempotent"
\* (docs/architecture.md:200), over shared finalizations, failed teardowns, retries and
\* revocations: within its completion window a session is delivered once, and it is a
\* completed one.
CompletionIsDeliveredOnce ==
    \A s \in Sessions :
        /\ delivered[s] > 1 => records[s].doneOver \/ records[s].epoch = 0
        /\ delivered[s] = 1 => records[s].completed \/ records[s].epoch = 0
================================================================================
