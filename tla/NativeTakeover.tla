----------------------------- MODULE NativeTakeover -----------------------------
(***************************************************************************)
(* The same broker for native clients (claim and reconnect of broker.ts)   *)
(* over InheritedFdNativeRuntimeProvider (native-runtime.ts), whose        *)
(* `active` map is `rt` here: generation and host of a session.  A host is *)
(* told to stop by a message that is authenticated with the key it was     *)
(* started with, and killed when that fails or takes too long; its own     *)
(* expiry ends it too.  A native page is never given a completion          *)
(* capability, so done and cancel are how its client ends.                 *)
(***************************************************************************)
EXTENDS TakeoverBroker

\* createNativeLink(): the other sessions of the intervention lose their mark.
CreateNativeLink(e, s) ==
    /\ deployment.kind = "native" /\ Arrives /\ s <= deployment.sessions /\ Ensure(e, s)
    /\ page' = [o \in Sessions |-> [page[o] EXCEPT !.route = o = s]]
    /\ UNCHANGED <<deployment, rt, hosts, task, delivered, strays>>

\* Its timer: the mark goes with the media lease.
NativeLinkExpires(s) ==
    /\ deployment.kind = "native" /\ records[s].mediaOver /\ page[s].route
    /\ page' = [page EXCEPT ![s].route = FALSE]
    /\ UNCHANGED <<sessionVars, deployment, rt, hosts, task, calls, delivered, strays>>

\* begin() from the spawn on: the new entry takes the place of whatever is there, and the
\* host of that one is left to its expiry.
Spawn(s, g) ==
    \E h \in Hosts :
        /\ Fresh(h)
        /\ hosts' = [hosts EXCEPT ![h] = "up"]
        /\ rt' = [rt EXCEPT ![s] = [NoRuntime EXCEPT !.gen = g, !.host = h]]
        /\ strays' = Strayed(s, "lost")

\* The catch of claim and reconnect: the session is revoked, and what it runs.
BeginFails(t, s, record) ==
    /\ records' = [records EXCEPT ![s] = Revoked(record)]
    /\ page' = [page EXCEPT ![s].route = FALSE]
    /\ RevokeStep(t, Running("native-failed", "begin", s, 0)) /\ UNCHANGED strays

\* begin() up to its first await: a host of this generation is refused, one of another
\* generation revoked first, and without one the spawn works or fails.
BeginNative(t, s, record) ==
    LET g == record.gen IN
    \/ /\ rt[s].gen = g
       /\ records' = [records EXCEPT ![s] = record] /\ UNCHANGED <<page, rt, hosts, task, strays>>
    \/ /\ rt[s].gen = 0 /\ Spawn(s, g)
       /\ records' = [records EXCEPT ![s] = record] /\ UNCHANGED <<page, task>>
    \/ /\ rt[s].gen = 0 /\ BeginFails(t, s, record)
    \/ /\ rt[s].gen \notin {0, g}
       /\ records' = [records EXCEPT ![s] = record] /\ UNCHANGED <<page, strays>>
       /\ RevokeStep(t, Running("native", "begin", s, g))

\* POST claim and reconnect.
ClaimNative(t, s) ==
    /\ deployment.kind = "native" /\ task[t] = Idle /\ Arrives
    /\ \/ MayClaim(records[s]) /\ BeginNative(t, s, Claimed(records[s]))
       \/ /\ MayReconnect(records[s]) /\ records[s].gen < MaxGen
          /\ BeginNative(t, s, Reconnected(records[s]))
    /\ UNCHANGED <<issued, deployment, delivered>>

\* revoke() of the earlier host returned: begin() spawns, whoever came in between.
NativeBegun(t) ==
    /\ task[t].kind = "native" /\ task[t].pc = "revoked"
    /\ \/ /\ Spawn(task[t].s, task[t].gen)
          /\ Finish(t) /\ UNCHANGED <<records, page>>
       \/ BeginFails(t, task[t].s, records[task[t].s])
    /\ UNCHANGED <<issued, deployment, calls, delivered>>

\* The stop could not be sent: the earlier host is killed and begin() throws.
NativeRevokeFails(t) ==
    /\ task[t].kind = "native" /\ task[t].pc = "failed"
    /\ BeginFails(t, task[t].s, records[task[t].s])
    /\ UNCHANGED <<issued, deployment, calls, delivered>>

\* A host exits by itself, at its expiry at the latest: only its own entry goes.
NativeHostExits(h) ==
    /\ deployment.kind = "native" /\ hosts[h] = "up"
    /\ hosts' = [hosts EXCEPT ![h] = "gone"]
    /\ rt' = [s \in Sessions |-> IF rt[s].host = h THEN NoRuntime ELSE rt[s]]
    /\ UNCHANGED <<sessionVars, deployment, page, task, calls, delivered, strays>>

NativeWorks ==
    \/ \E t \in Tasks :
        \/ NativeBegun(t) \/ NativeRevokeFails(t)
        \/ \E s \in Sessions : ClaimNative(t, s)
    \/ \E s \in Sessions :
        NativeLinkExpires(s) \/ \E e \in Epochs : CreateNativeLink(e, s)
    \/ \E h \in Hosts : NativeHostExits(h)
================================================================================
