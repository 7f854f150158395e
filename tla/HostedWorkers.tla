----------------------------- MODULE HostedWorkers -----------------------------
(***************************************************************************)
(* A hosted Human period: the registry of workers, the control channels    *)
(* towards them, the gate inside a worker, the Human input bridge and the  *)
(* helper that ends the period (src/src/core/hosted-worker.ts,             *)
(* hosted-worker-channel.ts, hosted-worker-data.ts,                        *)
(* hosted-operator-binding.ts, hosted-lifecycle-route.ts).                 *)
(*                                                                         *)
(* A connection is a worker with the generation the registry gave it.  A   *)
(* channel object belongs to one connection, and a second open() with the  *)
(* same authenticated binding makes a second object of the same            *)
(* connection.  Control messages of a connection arrive in order or are    *)
(* reported as failed; a Human input travels beside them.  A call that is  *)
(* awaiting something is a task.  Every request here carries the principal *)
(* the deployment authenticated: another one is refused before anything    *)
(* changes, and so is a malformed message.                                 *)
(***************************************************************************)
EXTENDS Lifecycle, Sequences, FiniteSets, TLC

CONSTANTS
    Workers,        \* worker identities
    MaxChannels,    \* bound on the channel objects ever opened
    MaxViewers,     \* bound on the viewer generation
    Tasks           \* calls that may be awaiting something at one time

ASSUME HostedAssumption == MaxChannels \in Nat /\ MaxViewers \in Nat

VARIABLES
    registered, \* activeWorkers: the generation in use, 0 when not connected
    generation, \* workerGenerations
    routes,     \* routes: what is known of each intervention
    channels,   \* the channel objects, in the order they were opened
    wire,       \* control messages of each connection that were not answered yet
    gate,       \* HostedWorkerRouteGate of each connection: epoch by intervention
    task,       \* what each running call does
    binding,    \* the HostedOperatorRouteBinding the surface uses
    viewer,     \* the viewer generation of the operator session, 0 once it expired
    input,      \* the Human input, or the frame, that is on its way
    late,       \* history: an input was carried out, or a frame published, too late
    rebound     \* history: a route was bound again while its revocation was awaited

registryVars == <<registered, generation, routes>>
viewVars == <<binding, viewer, input>>
vars == <<lifecycleVars, registryVars, channels, wire, gate, task, viewVars, late, rebound>>

Interventions == 1..MaxIssued
Generations == 1..MaxChannels
Connections == Workers \X Generations

\* RouteHistory; a route that was never bound has epoch 0.
Route == [worker: Workers \union {"none"}, gen: 0..MaxChannels, epoch: 0..MaxEpoch,
          active: BOOLEAN]
NeverBound == [worker |-> "none", gen |-> 0, epoch |-> 0, active |-> FALSE]

\* A HostedWorkerRouteLease: intervention, epoch and connection.
Lease == [iv: Interventions, epoch: 0..MaxEpoch, conn: Connections]

Conn(k) == <<channels[k].worker, channels[k].gen>>
LeaseOf(i) == [iv |-> i, epoch |-> routes[i].epoch,
               conn |-> <<routes[i].worker, routes[i].gen>>]

\* assertCurrent() of the registry.
Current(lease) ==
    /\ routes[lease.iv].active
    /\ LeaseOf(lease.iv) = lease
    /\ registered[lease.conn[1]] = lease.conn[2]

Idle == [kind |-> "idle"]
NoBinding == [viewer |-> 0]
NoInput == [state |-> "none"]

\* A worker that connected anew has left its earlier connections and their gates.
Abandoned(c) == c[2] < generation[c[1]]

\* The Human period a lease was made for is still going on.
HumanPeriod(lease) ==
    IsActive(lease.iv) /\ active.status = "human_active" /\ active.epoch = lease.epoch

\* A revocation that its caller still awaits.
Revoking(i) == \E t \in Tasks : task[t].kind = "revoke" /\ task[t].lease.iv = i

Init ==
    /\ LifecycleInit
    /\ registered = [w \in Workers |-> 0]
    /\ generation = [w \in Workers |-> 0]
    /\ routes = [i \in Interventions |-> NeverBound]
    /\ channels = <<>>
    /\ wire = [c \in Connections |-> <<>>]
    /\ gate = [c \in Connections |-> [i \in Interventions |-> 0]]
    /\ task = [t \in Tasks |-> Idle]
    /\ binding = NoBinding /\ viewer = 1
    /\ input = NoInput
    /\ late = FALSE /\ rebound = FALSE

--------------------------------------------------------------------------------
(***************************************************************************)
(* Control channel: every call up to its first await.                      *)
(***************************************************************************)
Send(c, t) == wire' = [wire EXCEPT ![c] = Append(@, t)]

\* open(): register(), or the registration this authenticated channel already
\* has, and the "registered" message.
OpenChannel(t, w) ==
    /\ task[t] = Idle /\ Len(channels) < MaxChannels
    /\ LET gen == IF registered[w] = 0 THEN generation[w] + 1 ELSE registered[w] IN
        /\ channels' = Append(channels, [worker |-> w, gen |-> gen, state |-> "opening"])
        /\ registered' = [registered EXCEPT ![w] = gen]
        /\ generation' = [generation EXCEPT ![w] = gen]
        /\ task' = [task EXCEPT ![t] = [kind |-> "open", pc |-> "send",
                                        chan |-> Len(channels) + 1]]
        /\ Send(<<w, gen>>, t)
    /\ UNCHANGED <<lifecycleVars, routes, gate, viewVars, late, rebound>>

\* Variant: the worker's identity is not compared with the route's.
BindRouteAnywhere(i, e, c) ==
    /\ registered[c[1]] = c[2]
    /\ routes' = [routes EXCEPT ![i] = [worker |-> c[1], gen |-> c[2],
                                        epoch |-> e, active |-> TRUE]]

\* registry.bindIntervention(): the same lease again, or a route that is not
\* active or older.
BindRoute(i, e, c) ==
    /\ registered[c[1]] = c[2]
    /\ routes[i].epoch = 0 \/ routes[i].worker = c[1]
    /\ routes[i].epoch <= e
    /\ routes[i].epoch = e /\ routes[i].active => routes[i].gen = c[2]
    /\ routes' = [routes EXCEPT ![i] = [worker |-> c[1], gen |-> c[2],
                                        epoch |-> e, active |-> TRUE]]

\* channel.bindIntervention() for the Human period of the moment: nothing keeps the
\* consumer from it while revokeIntervention() awaits.
BindIntervention(t, k) ==
    /\ task[t] = Idle /\ channels[k].state = "open"
    /\ Suspended /\ active.status = "human_active"
    /\ BindRoute(active.id, active.epoch, Conn(k))
    /\ task' = [task EXCEPT ![t] = [kind |-> "bind", pc |-> "send", chan |-> k,
                    lease |-> [iv |-> active.id, epoch |-> active.epoch, conn |-> Conn(k)]]]
    /\ Send(Conn(k), t)
    /\ rebound' = (rebound \/ Revoking(active.id))
    /\ UNCHANGED <<lifecycleVars, registered, generation, channels, gate, viewVars, late>>

\* revokeIntervention(): release first, then the callback.  `then` is what the
\* caller does when the call succeeds.
RevokeIntervention(t, k, lease, then) ==
    /\ task[t] = Idle /\ channels[k].state = "open"
    /\ Current(lease) /\ lease.conn = Conn(k)
    /\ routes' = [routes EXCEPT ![lease.iv].active = FALSE]
    /\ task' = [task EXCEPT ![t] = [kind |-> "revoke", pc |-> "notify", chan |-> k,
                    lease |-> lease, then |-> then, id |-> active.id, failed |-> FALSE]]
    /\ UNCHANGED <<lifecycleVars, registered, generation, channels, wire, gate,
                   viewVars, late, rebound>>

\* Variant: a disconnected worker keeps its routes.
FenceLocalKeepingRoutes(k) ==
    /\ channels' = [channels EXCEPT ![k].state = "fenced"]
    /\ registered' = IF registered[channels[k].worker] = channels[k].gen
                     THEN [registered EXCEPT ![channels[k].worker] = 0] ELSE registered
    /\ UNCHANGED <<routes>>

\* #fenceLocal() with registry.disconnect().  The registry refuses a generation
\* that is not connected any more, and the exception ends the call.
FenceLocal(k) ==
    LET c == Conn(k)
        connected == channels[k].state # "fenced" /\ registered[c[1]] = c[2]
        gone == {i \in Interventions : connected /\ routes[i].active
                                       /\ LeaseOf(i).conn = c}
    IN  /\ channels' = [channels EXCEPT ![k].state = "fenced"]
        /\ registered' = IF connected THEN [registered EXCEPT ![c[1]] = 0] ELSE registered
        /\ routes' = [i \in Interventions |->
                        [routes[i] EXCEPT !.active = @ /\ i \notin gone]]

\* disconnect(): the callback and the close of the peer that it then awaits have
\* no continuation that changes anything.
Disconnect(k) ==
    /\ channels[k].state = "open"
    /\ FenceLocal(k)
    /\ UNCHANGED <<lifecycleVars, generation, wire, gate, task, viewVars, late, rebound>>

--------------------------------------------------------------------------------
(***************************************************************************)
(* The worker's side, and the continuations of the calls.                  *)
(***************************************************************************)
\* The gate refuses an older bind, and a revoke of a route it does not have;
\* the sender then sees a failed send.
GateAdmits(t, c) ==
    /\ ~Abandoned(c)
    /\ task[t].kind = "bind" => gate[c][task[t].lease.iv] <= task[t].lease.epoch
    /\ task[t].kind = "revoke" => gate[c][task[t].lease.iv] = task[t].lease.epoch

\* Variant: revoke is not applied.
ApplyControlWithoutRevoke(t, c) ==
    GateAdmits(t, c) /\
    gate' = IF task[t].kind = "bind"
            THEN [gate EXCEPT ![c][task[t].lease.iv] = task[t].lease.epoch] ELSE gate

\* applyControl(): "registered" comes first and only names the generation, which
\* a connection does not change.
ApplyControl(t, c) ==
    GateAdmits(t, c) /\
    gate' = CASE task[t].kind = "bind" ->
                   [gate EXCEPT ![c][task[t].lease.iv] = task[t].lease.epoch]
              [] task[t].kind = "revoke" -> [gate EXCEPT ![c][task[t].lease.iv] = 0]
              [] OTHER -> gate

\* A call whose message the worker got: open() and bindIntervention() return,
\* revokeIntervention() lets the helper move the lifecycle, unless the callback
\* failed.  The lifecycle's own guards are the last word.
EndHumanPeriod(t) ==
    LET call == task[t]
        moves == /\ call.kind = "revoke" /\ ~call.failed /\ IsActive(call.id)
                 /\ \/ call.then = "cancel"
                    \/ call.then = "complete" /\ active.status = "human_active"
    IN  CASE moves /\ call.then = "complete" -> MarkHumanComplete(call.id)
          [] moves /\ call.then = "cancel" -> Cancel(call.id)
          [] OTHER -> UNCHANGED lifecycleVars

Opened(t) ==
    IF task[t].kind = "open"
    THEN channels' = [channels EXCEPT ![task[t].chan].state =
                        IF @ = "opening" THEN "open" ELSE @]
    ELSE UNCHANGED channels

Delivered(c) ==
    /\ wire[c] # <<>>
    /\ LET t == Head(wire[c]) IN
        /\ ApplyControl(t, c)
        /\ Opened(t)
        /\ EndHumanPeriod(t)
        /\ task' = [task EXCEPT ![t] = Idle]
    /\ wire' = [wire EXCEPT ![c] = Tail(@)]
    /\ UNCHANGED <<registryVars, viewVars, late, rebound>>

\* The transport reports a send as failed; the worker may have got the message.
\* Every caller fences its channel and throws; the callback and the close of the
\* peer that it awaits in between change nothing.
SendFails(c) ==
    \E j \in DOMAIN wire[c] :
        LET t == wire[c][j] IN
        /\ ApplyControl(t, c) \/ UNCHANGED gate
        /\ FenceLocal(task[t].chan)
        /\ wire' = [wire EXCEPT ![c] = SubSeq(@, 1, j - 1) \o SubSeq(@, j + 1, Len(@))]
        /\ task' = [task EXCEPT ![t] = Idle]
        /\ UNCHANGED <<lifecycleVars, generation, viewVars, late, rebound>>

\* routesInvalidated() returns or throws; the worker is told in either case.
CallbackSettles(t) ==
    /\ task[t].kind = "revoke" /\ task[t].pc = "notify"
    /\ \E failed \in BOOLEAN :
        task' = [task EXCEPT ![t].pc = "send", ![t].failed = failed]
    /\ Send(Conn(task[t].chan), t)
    /\ UNCHANGED <<lifecycleVars, registryVars, channels, gate, viewVars, late, rebound>>

--------------------------------------------------------------------------------
(***************************************************************************)
(* The operator's side.                                                    *)
(***************************************************************************)
\* assertSessionLive()
SessionLive == viewer # 0

\* The bridge over a binding copies it: operator session, viewer and route as they were.
Bridge(lease) == [viewer |-> viewer, lease |-> lease, closed |-> FALSE]

\* bindHostedOperatorSession() of a route that is current, for the operator
\* session of the Human period.
BindOperator ==
    /\ Suspended /\ SessionLive /\ Current(LeaseOf(active.id))
    /\ routes[active.id].epoch = active.epoch
    /\ binding' = Bridge(LeaseOf(active.id))
    /\ UNCHANGED <<lifecycleVars, registryVars, channels, wire, gate, task, viewer, input,
                   late, rebound>>

\* assertHostedOperatorBindingCurrent()
BindingCurrent ==
    /\ binding # NoBinding /\ SessionLive
    /\ binding.viewer = viewer
    /\ Current(binding.lease)

\* Variant: the binding is looked at when it is made and not again.
DispatchUnchecked ==
    /\ binding # NoBinding /\ ~binding.closed /\ input = NoInput
    /\ input' = [state |-> "awaited", lease |-> binding.lease]
    /\ UNCHANGED <<lifecycleVars, registryVars, channels, wire, gate, task, binding,
                   viewer, late, rebound>>

\* HostedHumanInputBridge.dispatch(): one input at a time.
Dispatch ==
    /\ BindingCurrent /\ ~binding.closed /\ input = NoInput
    /\ input' = [state |-> "awaited", lease |-> binding.lease]
    /\ UNCHANGED <<lifecycleVars, registryVars, channels, wire, gate, task, binding,
                   viewer, late, rebound>>

\* applyHumanInput() in the worker: carried out, or refused as stale, which the
\* bridge survives.
ApplyHumanInput ==
    /\ input.state \in {"awaited", "stray"}
    /\ late' = (late \/ /\ ~Abandoned(input.lease.conn)
                        /\ gate[input.lease.conn][input.lease.iv] = input.lease.epoch
                        /\ ~HumanPeriod(input.lease))
    /\ input' = NoInput
    /\ UNCHANGED <<lifecycleVars, registryVars, channels, wire, gate, task, binding,
                   viewer, rebound>>

\* sendInput() rejects, which closes the bridge; the input may still be under way.
InputFails ==
    /\ input.state = "awaited"
    /\ binding' = IF binding.lease = input.lease
                  THEN [binding EXCEPT !.closed = TRUE] ELSE binding
    /\ input' \in {NoInput, [input EXCEPT !.state = "stray"]}
    /\ UNCHANGED <<lifecycleVars, registryVars, channels, wire, gate, task, viewer,
                   late, rebound>>

\* frameEnvelope(): the gate names the route the worker still has.
SendFrame(lease) ==
    /\ input = NoInput /\ ~Abandoned(lease.conn)
    /\ gate[lease.conn][lease.iv] = lease.epoch
    /\ input' = [state |-> "frame", lease |-> lease]
    /\ UNCHANGED <<lifecycleVars, registryVars, channels, wire, gate, task, binding,
                   viewer, late, rebound>>

\* HostedWorkerFrameIngress.accept(): published to the surface, or refused.
AcceptFrame ==
    /\ input.state = "frame"
    /\ late' = (late \/ /\ BindingCurrent /\ input.lease = binding.lease
                        /\ ~HumanPeriod(input.lease))
    /\ input' = NoInput
    /\ UNCHANGED <<lifecycleVars, registryVars, channels, wire, gate, task, binding,
                   viewer, rebound>>

\* External: the viewer reconnects, or the session's time is over.
ViewerReconnects ==
    /\ viewer \in 1..MaxViewers - 1
    /\ viewer' = viewer + 1
    /\ UNCHANGED <<lifecycleVars, registryVars, channels, wire, gate, task, binding, input,
                   late, rebound>>

SessionExpires ==
    /\ binding # NoBinding /\ SessionLive
    /\ viewer' = 0
    /\ UNCHANGED <<lifecycleVars, registryVars, channels, wire, gate, task, binding,
                   input, late, rebound>>

\* Variant: the lifecycle moves before the route is revoked.
EndCalledEarly(t, k) ==
    /\ binding # NoBinding /\ Suspended
    /\ active.id = binding.lease.iv /\ active.epoch = binding.lease.epoch
    /\ task[t] = Idle /\ channels[k].state = "open"
    /\ Current(binding.lease) /\ binding.lease.conn = Conn(k)
    /\ MarkHumanComplete(active.id)
    /\ routes' = [routes EXCEPT ![binding.lease.iv].active = FALSE]
    /\ task' = [task EXCEPT ![t] = [kind |-> "revoke", pc |-> "notify", chan |-> k,
                    lease |-> binding.lease, then |-> "return", id |-> active.id, failed |-> FALSE]]
    /\ UNCHANGED <<registered, generation, channels, wire, gate, viewVars, late, rebound>>

\* markHumanDone(), cancelHuman() and expireOperatorSession().
EndCalled(t, k) ==
    /\ binding # NoBinding /\ Suspended /\ active.status = "human_active"
    /\ active.id = binding.lease.iv /\ active.epoch = binding.lease.epoch
    /\ \E then \in {"complete", "cancel"} : RevokeIntervention(t, k, binding.lease, then)

\* The consumer outside hosted Human periods, and a fresh operator session for a
\* new one.
ConsumerMoves ==
    /\ \/ Begin /\ viewer' = 1
       \/ /\ ClaimHuman(active.id) \/ ReturnToHuman(active.id)
             \/ MarkVerified(active.id) \/ ResumeAgent(active.id)
          /\ UNCHANGED viewer
    /\ UNCHANGED <<registryVars, channels, wire, gate, task, binding, input,
                   late, rebound>>

--------------------------------------------------------------------------------
ChannelMoves ==
    \/ \E c \in Connections : Delivered(c) \/ SendFails(c)
    \/ \E t \in Tasks : CallbackSettles(t)

DataMoves ==
    \/ ApplyHumanInput \/ InputFails \/ AcceptFrame
    \/ \E i \in Interventions : routes[i].epoch # 0 /\ SendFrame(LeaseOf(i))

Next ==
    \/ \E t \in Tasks, w \in Workers : OpenChannel(t, w)
    \/ \E t \in Tasks, k \in DOMAIN channels : BindIntervention(t, k) \/ EndCalled(t, k)
    \/ \E k \in DOMAIN channels : Disconnect(k)
    \/ \E t \in Tasks, k \in DOMAIN channels, i \in Interventions :
            RevokeIntervention(t, k, LeaseOf(i), "return")
    \/ ChannelMoves \/ DataMoves
    \/ BindOperator \/ Dispatch \/ ViewerReconnects \/ SessionExpires
    \/ ConsumerMoves

Spec == Init /\ [][Next]_vars

--------------------------------------------------------------------------------
(***************************************************************************)
(* The class comment of HostedInterventionRouteLifecycle: routing is       *)
(* revoked before Done, Cancel or expiry may advance the lifecycle.  So a  *)
(* route that is active belongs to a worker that is connected and, unless  *)
(* the consumer bound a route whose revocation it was still awaiting, to   *)
(* the Human period of the moment: bindIntervention() does not know of a   *)
(* revocation under way (hosted-worker-channel.ts:115), and the lifecycle  *)
(* then moves although there is a route again.                             *)
(***************************************************************************)
RoutedMeansHuman ==
    \A i \in Interventions : routes[i].active =>
        /\ rebound \/ HumanPeriod(LeaseOf(i))
        /\ registered[routes[i].worker] = routes[i].gen

\* Messages under way, or a release whose message is not under way yet.
Settling(c) ==
    \/ wire[c] # <<>>
    \/ \E t \in Tasks : task[t].kind = "revoke" /\ Conn(task[t].chan) = c

\* Registry and worker agree once nothing is under way: the gate of a connection
\* in good order admits exactly the routes the registry has for it, unless a bind
\* overtook a revocation of the same route.
GateAgreesWithRegistry ==
    \A c \in Connections :
        registered[c[1]] = c[2] /\ ~Settling(c) /\ ~rebound =>
            \A i \in Interventions :
                gate[c][i] = IF routes[i].active /\ LeaseOf(i).conn = c
                             THEN routes[i].epoch ELSE 0

\* No worker carries out an input, and no frame reaches the surface, of a Human
\* period that Done, Cancel or expiry ended, however late it arrives
\* (hosted-worker-data.ts: the gate, the bridge and the ingress), but for one whose
\* route was bound again while its revocation was awaited.
NothingAfterHumanPeriod == late => rebound
================================================================================
