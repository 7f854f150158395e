---------------------------- MODULE TakeoverProofs ----------------------------
(***************************************************************************)
(* Proofs about the takeover broker, its native and window deployments     *)
(* (TakeoverBroker, NativeTakeover, WindowHandoff), for every number of    *)
(* sessions, generations, helper processes and requests.  BrokerInv is     *)
(* about what a session, its client and its page are, FenceInv about those *)
(* the consumer verifies, and the last part about the helper processes.    *)
(***************************************************************************)
EXTENDS WindowHandoff, FiniteSetTheorems, TLAPS

TaskKinds == {"idle", "prepare", "prepare-failed", "connect", "connect-failed", "suspend",
              "complete", "done", "revoke-all", "verified", "use", "native", "native-failed"}
TaskPcs == {"idle", "begin", "credential", "stopping", "revoked", "failed", "issuing",
            "reissuing", "starting", "resuming", "release", "dropping", "hook", "browser"}
TaskRecord == [kind: TaskKinds, pc: TaskPcs, s: 0..MaxSessions, gen: 0..MaxGen,
               host: 0..MaxHosts, rest: SUBSET Sessions]

BrokerTypeOK ==
    /\ records \in [Sessions -> TakeoverRecord] /\ issued \in 0..MaxSessions
    /\ deployment \in Deployments
    /\ page \in [Sessions -> Page] /\ rt \in [Sessions -> Runtime]
    /\ hosts \in [Hosts -> {"none", "up", "ending", "gone"}]
    /\ task \in [Tasks -> TaskRecord] /\ calls \in Nat /\ delivered \in [Sessions -> Nat]

WebRtc == deployment.kind = "webrtc"
Over(r) == r.completed \/ r.epoch = 0

\* A completed session is over for its client, and only it has its window moved.
WellFormed(r) ==
    /\ r.epoch = 0 => r = Gone
    /\ r.completed => r.revoked
    /\ r.doneOver => r.mediaOver \/ r.completed
    /\ r.extended => r.completed

\* One session is live, and nothing is known of those not made yet.
RecordInv ==
    /\ \A s \in Sessions : WellFormed(records[s])
    /\ \A s, o \in Sessions : Live(records[s]) /\ Live(records[o]) => s = o
    /\ \A s \in Sessions : s > issued => /\ records[s] = Gone /\ page[s] = NoPage
                                         /\ rt[s] = NoRuntime /\ delivered[s] = 0

UsesOf(s) == {t \in Tasks : task[t].kind = "use" /\ task[t].s = s}
UseInv ==
    \A s \in Sessions :
        /\ IsFiniteSet(UsesOf(s))
        /\ Live(records[s]) => /\ records[s].inFlight = Cardinality(UsesOf(s))
                               /\ \A t \in UsesOf(s) : task[t].gen = records[s].gen

\* The runtime y of a session with record r: a peer in control is the session's client.
RuntimeFine(y, r) ==
    /\ y.gen = 0 => y.host = 0 /\ ~y.connected /\ ~y.suspended
    /\ y.gen > 0 => y.host \in Hosts
    /\ y.connected \/ y.prepared > 0 \/ y.suspended => WebRtc
    /\ WebRtc /\ y.gen > 0 /\ ~y.suspended /\ Live(r) => r.gen = y.gen
RuntimeInv == \A s \in Sessions : RuntimeFine(rt[s], records[s])

\* What the maps of the broker say (p) of a session with record r that was delivered d
\* times: a live one has its policy unless it is being verified.
PageFine(p, r, d) ==
    /\ WebRtc /\ Live(r) => p.route /\ (p.policy \/ p.verifying)
    /\ p.verifying => WebRtc
    /\ p.verified => ~Live(r)
    /\ p.done => ~p.route
    /\ p.done \/ d > 0 => Over(r)
    /\ r.epoch # 0 /\ ~r.doneOver => d = IF p.done THEN 1 ELSE 0
PageInv == \A s \in Sessions : PageFine(page[s], records[s], delivered[s])

RevokePcs == {"credential", "stopping", "revoked", "failed"}

\* A request x over the records rs and pages ps, with n sessions made.
TaskFine(x, rs, ps, n) ==
    /\ x.s \in 0..n /\ x.rest \subseteq 1..n
    /\ x.kind \notin {"idle", "verified", "revoke-all"} => x.s > 0
    /\ x.pc \in {"credential", "stopping"} => x.s > 0
    /\ x.pc \in {"starting", "resuming"} => x.kind = "connect" /\ x.host \in Hosts /\ WebRtc
    /\ x.kind \in {"prepare", "suspend", "complete"} => WebRtc
    /\ x.kind = "use" => x.pc = "browser" /\ x.gen > 0
    /\ x.kind = "complete" => Over(rs[x.s]) /\ x.pc \in RevokePcs \union {"hook"}
    /\ x.kind = "native" => deployment.kind = "native" /\ x.pc \in RevokePcs /\ x.gen > 0
    /\ x.pc = "hook" => x.kind = "complete" /\ ~ps[x.s].route /\ ~ps[x.s].done
    /\ x.kind = "verified" => \A s \in x.rest : ~Live(rs[s])

OneFinalization ==
    \A t, u \in Tasks :
        task[t].kind = "complete" /\ task[u].kind = "complete" /\ task[t].s = task[u].s => t = u
TaskInv == OneFinalization /\ \A t \in Tasks : TaskFine(task[t], records, page, issued)

BrokerInv == BrokerTypeOK /\ RecordInv /\ UseInv /\ RuntimeInv /\ PageInv /\ TaskInv
-----------------------------------------------------------------------------
(* The records of the session manager.                                     *)

\* What any operation but ensure() may make of a record.
Later(r, r2) ==
    /\ r2 \in TakeoverRecord /\ WellFormed(r2)
    /\ Live(r2) => Live(r)
    /\ r = Gone => r2 = Gone
    /\ Over(r) => Over(r2)
    /\ r2.epoch # 0 /\ ~r2.doneOver => r.epoch # 0 /\ (~r.doneOver \/ ~r.completed)

\* r2 is r, as far as its client can use it, or over.
Quiet(r, r2) ==
    Live(r2) => r2.gen = r.gen /\ r2.inFlight = r.inFlight /\ (r.released => r2.released)

\* The record of a session that the manager does not have.
LEMMA GoneRecord ==
    /\ Gone \in TakeoverRecord /\ Gone.epoch = 0 /\ Gone.revoked = TRUE /\ Gone.completed = FALSE
    /\ Gone.doneOver = FALSE /\ Gone.extended = FALSE /\ ~Live(Gone) /\ WellFormed(Gone)
<1>1. 0 \in 0..MaxGen /\ 0 \in Nat
      BY SessionsAssumption
<1>2. NewRecord(0) \in TakeoverRecord
      BY <1>1 DEF NewRecord, TakeoverRecord
<1>3. /\ Gone \in TakeoverRecord /\ Gone.epoch = 0 /\ Gone.revoked = TRUE
      /\ Gone.completed = FALSE /\ Gone.doneOver = FALSE /\ Gone.extended = FALSE
      BY <1>2 DEF Gone, NewRecord, TakeoverRecord
<1>. QED
  BY <1>3 DEF Live, WellFormed

\* A new record is live and has no client.
LEMMA NewRecords ==
    ASSUME NEW e \in Epochs
    PROVE  /\ NewRecord(e) \in TakeoverRecord /\ Live(NewRecord(e)) /\ WellFormed(NewRecord(e))
           /\ NewRecord(e).gen = 0 /\ NewRecord(e).inFlight = 0 /\ NewRecord(e).epoch = e
           /\ NewRecord(e).released = FALSE /\ NewRecord(e).doneOver = FALSE /\ e # 0
<1>1. 0 \in 0..MaxGen /\ 0 \in Nat /\ e # 0
      BY SessionsAssumption
<1>2. NewRecord(e) \in TakeoverRecord
      BY <1>1 DEF NewRecord, TakeoverRecord
<1>. QED
  BY <1>1, <1>2 DEF NewRecord, Live, WellFormed

\* An operation that leaves the record of a session alone (TakeoverSessionManager).
LEMMA LaterRefl == ASSUME NEW r \in TakeoverRecord, WellFormed(r) PROVE Later(r, r) /\ Quiet(r, r)
  BY DEF Later, Quiet, WellFormed, Over, Live

\* Two operations on a record in a row: pruneExpired() runs at the start of most of them.
LEMMA LaterTrans ==
    ASSUME NEW a, NEW b, NEW c, Later(a, b), Later(b, c)
    PROVE  Later(a, c) /\ (Quiet(a, b) /\ Quiet(b, c) => Quiet(a, c))
  BY DEF Later, Quiet, WellFormed, Over

\* The manager deletes a record: pruneExpired(), revokeForIntervention(), a replaced link.
LEMMA LaterGone == ASSUME NEW r \in TakeoverRecord PROVE Later(r, Gone) /\ Quiet(r, Gone)
  BY GoneRecord DEF Later, Quiet, Over

\* Releasing and revoking a client.
LEMMA LaterEnds ==
    ASSUME NEW r \in TakeoverRecord, WellFormed(r)
    PROVE  /\ \A g : /\ Later(r, Released(r, g)) /\ Quiet(r, Released(r, g))
                     /\ Released(r, g).gen = r.gen
                     /\ Live(Released(r, g)) /\ g = r.gen => Released(r, g).released
           /\ Later(r, Revoked(r)) /\ Quiet(r, Revoked(r)) /\ ~Live(Revoked(r))
<1>1. CASE r = Gone
  <2>1. Revoked(r) = r /\ \A g : Released(r, g) = r
        BY <1>1, GoneRecord DEF Revoked, Released, TakeoverRecord
  <2>. QED
    BY <2>1, <1>1, LaterRefl, GoneRecord DEF Live
<1>2. CASE r # Gone
  <2>1. Later(r, Revoked(r)) /\ Quiet(r, Revoked(r)) /\ ~Live(Revoked(r))
        BY <1>2 DEF Later, Quiet, Revoked, WellFormed, Over, Live, TakeoverRecord
  <2>2. ASSUME NEW g
        PROVE  /\ Later(r, Released(r, g)) /\ Quiet(r, Released(r, g))
               /\ Released(r, g).gen = r.gen
               /\ Live(Released(r, g)) /\ g = r.gen => Released(r, g).released
        BY <1>2 DEF Later, Quiet, Released, WellFormed, Over, Live, TakeoverRecord
  <2>. QED
    BY <2>1, <2>2
<1>. QED
  BY <1>1, <1>2

\* Completing, and time.
LEMMA LaterMoves ==
    ASSUME NEW r \in TakeoverRecord, WellFormed(r), r.epoch # 0
    PROVE  /\ Later(r, Completed(r)) /\ Quiet(r, Completed(r)) /\ ~Live(Completed(r))
           /\ Completed(r).completed
           /\ Later(r, [r EXCEPT !.mediaOver = TRUE]) /\ Quiet(r, [r EXCEPT !.mediaOver = TRUE])
           /\ r.mediaOver \/ r.extended
                => Later(r, [r EXCEPT !.doneOver = TRUE]) /\ Quiet(r, [r EXCEPT !.doneOver = TRUE])
           /\ ~r.completed =>
                LET v == [Completed(r) EXCEPT !.extended = TRUE, !.doneOver = FALSE]
                IN Later(r, v) /\ Quiet(r, v) /\ ~Live(v)
<1>0. r # Gone
      BY GoneRecord
<1>1. /\ Later(r, Completed(r)) /\ Quiet(r, Completed(r)) /\ ~Live(Completed(r))
      /\ Completed(r).completed
      BY <1>0 DEF Later, Quiet, Completed, WellFormed, Over, Live, TakeoverRecord
<1>2. Later(r, [r EXCEPT !.mediaOver = TRUE]) /\ Quiet(r, [r EXCEPT !.mediaOver = TRUE])
      BY <1>0 DEF Later, Quiet, WellFormed, Over, Live, TakeoverRecord
<1>3. ASSUME r.mediaOver \/ r.extended
      PROVE  Later(r, [r EXCEPT !.doneOver = TRUE]) /\ Quiet(r, [r EXCEPT !.doneOver = TRUE])
      BY <1>0, <1>3 DEF Later, Quiet, WellFormed, Over, Live, TakeoverRecord
<1>4. ASSUME ~r.completed
      PROVE  LET v == [Completed(r) EXCEPT !.extended = TRUE, !.doneOver = FALSE]
             IN Later(r, v) /\ Quiet(r, v) /\ ~Live(v)
      BY <1>0, <1>4 DEF Later, Quiet, Completed, WellFormed, Over, Live, TakeoverRecord
<1>. QED
  BY <1>1, <1>2, <1>3, <1>4

\* Claims and uses of a live session.
LEMMA LaterClient ==
    ASSUME NEW r \in TakeoverRecord, WellFormed(r), Live(r)
    PROVE  /\ 0 < MaxGen => Later(r, Claimed(r)) /\ Claimed(r).gen > 0
           /\ r.gen > 0 => Claimed(r) = r
           /\ r.gen < MaxGen => Later(r, Reconnected(r)) /\ Reconnected(r).gen = r.gen + 1
           /\ Claimed(r).inFlight = r.inFlight /\ Reconnected(r).inFlight = r.inFlight
           /\ Later(r, UseBegun(r)) /\ \A g : Later(r, UseEnded(r, g))
<1>0. /\ r # Gone /\ r.gen \in 0..MaxGen /\ r.inFlight \in Nat /\ MaxGen \in Nat
      /\ r.gen \in Nat
      BY GoneRecord, SessionsAssumption DEF TakeoverRecord
<1>1. 0 < MaxGen => Later(r, Claimed(r)) /\ Claimed(r).gen > 0
  <2>1. 0 < MaxGen => 1 \in 0..MaxGen
        BY <1>0
  <2>2. CASE r.gen = 0
    <3>1. Claimed(r) = [r EXCEPT !.gen = 1, !.released = FALSE]
          BY <2>2 DEF Claimed
    <3>2. /\ 0 < MaxGen => Claimed(r) \in TakeoverRecord
          /\ Claimed(r).gen = 1 /\ Claimed(r).epoch = r.epoch /\ Claimed(r).revoked = r.revoked
          /\ Claimed(r).completed = r.completed /\ Claimed(r).mediaOver = r.mediaOver
          /\ Claimed(r).doneOver = r.doneOver /\ Claimed(r).extended = r.extended
          BY <2>1, <3>1 DEF TakeoverRecord
    <3>. QED
      BY <1>0, <3>2, GoneRecord DEF Later, WellFormed, Over, Live
  <2>3. CASE r.gen # 0
        BY <1>0, <2>3, LaterRefl DEF Claimed
  <2>. QED
    BY <2>2, <2>3
<1>2. r.gen > 0 => Claimed(r) = r
      BY <1>0 DEF Claimed
<1>3. r.gen < MaxGen => Later(r, Reconnected(r)) /\ Reconnected(r).gen = r.gen + 1
  <2>1. r.gen < MaxGen => r.gen + 1 \in 0..MaxGen
        BY <1>0
  <2>. QED
    BY <1>0, <2>1 DEF Later, Reconnected, WellFormed, Over, Live, TakeoverRecord
<1>4. Claimed(r).inFlight = r.inFlight /\ Reconnected(r).inFlight = r.inFlight
      BY DEF Claimed, Reconnected, TakeoverRecord
<1>5. Later(r, UseBegun(r))
  <2>1. r.inFlight + 1 \in Nat
        BY <1>0
  <2>. QED
    BY <1>0, <2>1 DEF Later, UseBegun, WellFormed, Over, Live, TakeoverRecord
<1>6. \A g : Later(r, UseEnded(r, g))
  <2>1. r.inFlight > 0 => r.inFlight - 1 \in Nat
        BY <1>0
  <2>. QED
    BY <1>0, <2>1 DEF Later, UseEnded, WellFormed, Over, Live, TakeoverRecord
<1>. QED
  BY <1>1, <1>2, <1>3, <1>4, <1>5, <1>6

\* pruneExpired() takes records away, completeAfterVerification() completes what is left.
LEMMA PrunedLater ==
    ASSUME BrokerTypeOK, RecordInv, NEW s \in Sessions
    PROVE  /\ Pruned[s] \in {records[s], Gone}
           /\ Pruned[s] \in TakeoverRecord /\ WellFormed(Pruned[s])
           /\ Later(records[s], Pruned[s]) /\ Quiet(records[s], Pruned[s])
<1>1. Pruned[s] \in {records[s], Gone}
      BY DEF Pruned
<1>2. records[s] \in TakeoverRecord /\ WellFormed(records[s])
      BY DEF BrokerTypeOK, RecordInv
<1>. QED
  BY <1>1, <1>2, LaterRefl, LaterGone, GoneRecord

\* completeAfterVerification() ends the sessions of the epoch and makes none live.
LEMMA VerifiedLater ==
    ASSUME BrokerTypeOK, RecordInv, NEW e \in Epochs, NEW s \in Sessions
    PROVE  /\ Later(records[s], VerifiedRecords(e)[s]) /\ Quiet(records[s], VerifiedRecords(e)[s])
           /\ s \in Verifiable(e) => ~Live(VerifiedRecords(e)[s]) /\ s <= issued
<1>1. /\ Pruned[s] \in {records[s], Gone}
      /\ Pruned[s] \in TakeoverRecord /\ WellFormed(Pruned[s])
      /\ Later(records[s], Pruned[s]) /\ Quiet(records[s], Pruned[s])
      BY PrunedLater
<1>2. e # 0
      BY SessionsAssumption
<1>3. CASE s \in Verifiable(e) /\ ~Pruned[s].completed
  <2>1. Pruned[s].epoch = e /\ Pruned[s].epoch # 0
        BY <1>3, <1>2 DEF Verifiable
  <2>2. VerifiedRecords(e)[s]
            = [Completed(Pruned[s]) EXCEPT !.extended = TRUE, !.doneOver = FALSE]
        BY <1>3 DEF VerifiedRecords
  <2>3. /\ Later(Pruned[s], VerifiedRecords(e)[s]) /\ Quiet(Pruned[s], VerifiedRecords(e)[s])
        /\ ~Live(VerifiedRecords(e)[s])
        BY <1>1, <1>3, <2>1, <2>2, LaterMoves
  <2>4. records[s] # Gone
        BY <1>1, <2>1, GoneRecord
  <2>. QED
    BY <1>1, <2>3, <2>4, LaterTrans DEF RecordInv, BrokerTypeOK, Sessions
<1>4. CASE ~(s \in Verifiable(e) /\ ~Pruned[s].completed)
  <2>1. VerifiedRecords(e)[s] = Pruned[s]
        BY <1>4 DEF VerifiedRecords
  <2>2. s \in Verifiable(e) => Pruned[s].completed /\ Pruned[s].epoch # 0
        BY <1>4, <1>2 DEF Verifiable
  <2>3. s \in Verifiable(e) => ~Live(Pruned[s]) /\ records[s] # Gone
        BY <2>2, <1>1, GoneRecord DEF WellFormed, Live
  <2>. QED
    BY <1>1, <2>1, <2>3 DEF RecordInv, BrokerTypeOK, Sessions
<1>. QED
  BY <1>3, <1>4
-----------------------------------------------------------------------------
(* What a step of any kind has to show.                                    *)

\* The maps of the broker (verifying, policies, routes) stay true of a record that only ends.
LEMMA PageStays ==
    ASSUME NEW p, NEW r, NEW r2, NEW d \in Nat, PageFine(p, r, d), Later(r, r2), Quiet(r, r2)
    PROVE  PageFine(p, r2, d)
  BY DEF PageFine, Later, Quiet, Over

\* So does the entry of WebRtcRuntime: its peer stays the session's client, or it has none.
LEMMA RuntimeStays ==
    ASSUME NEW y, NEW r, NEW r2, RuntimeFine(y, r), Later(r, r2), Quiet(r, r2)
    PROVE  RuntimeFine(y, r2)
  BY DEF RuntimeFine, Later, Quiet

\* A session without a runtime, and one whose prepared entry goes or changes.
LEMMA RuntimeShrinks ==
    /\ \A r : RuntimeFine(NoRuntime, r)
    /\ NoRuntime \in Runtime /\ NoRuntime.gen = 0 /\ NoRuntime.host = 0 /\ NoRuntime.prepared = 0
    /\ \A y \in Runtime : \A r : RuntimeFine(y, r) =>
          /\ [y EXCEPT !.prepared = 0] \in Runtime
          /\ [NoRuntime EXCEPT !.prepared = y.prepared] \in Runtime
          /\ RuntimeFine([y EXCEPT !.prepared = 0], r)
          /\ RuntimeFine([NoRuntime EXCEPT !.prepared = y.prepared], r)
          /\ y = NoRuntime => /\ [y EXCEPT !.prepared = 0] = NoRuntime
                              /\ [NoRuntime EXCEPT !.prepared = y.prepared] = NoRuntime
<1>1. 0 \in 0..MaxGen /\ 0 \in 0..MaxHosts
      BY SessionsAssumption, BrokerAssumption
<1>2. NoRuntime \in Runtime /\ \A r : RuntimeFine(NoRuntime, r)
      BY <1>1 DEF NoRuntime, Runtime, RuntimeFine
<1>3. ASSUME NEW y \in Runtime, NEW r, RuntimeFine(y, r)
      PROVE  /\ [y EXCEPT !.prepared = 0] \in Runtime
             /\ [NoRuntime EXCEPT !.prepared = y.prepared] \in Runtime
             /\ RuntimeFine([y EXCEPT !.prepared = 0], r)
             /\ RuntimeFine([NoRuntime EXCEPT !.prepared = y.prepared], r)
  <2>1. [y EXCEPT !.prepared = 0] \in Runtime /\ y.prepared \in 0..MaxGen
        BY <1>1 DEF Runtime
  <2>2. RuntimeFine([y EXCEPT !.prepared = 0], r)
        BY <1>3 DEF RuntimeFine, Runtime
  <2>3. \A v \in 0..MaxGen :
            LET w == [NoRuntime EXCEPT !.prepared = v] IN
            w \in Runtime /\ w.prepared = v /\ w.gen = 0 /\ w.host = 0 /\ ~w.connected /\ ~w.suspended
        BY <1>2 DEF Runtime, NoRuntime
  <2>4. [NoRuntime EXCEPT !.prepared = y.prepared] \in Runtime
        BY <2>1, <2>3
  <2>5. RuntimeFine([NoRuntime EXCEPT !.prepared = y.prepared], r)
    <3>1. \A w : w.prepared = y.prepared /\ w.gen = 0 /\ w.host = 0 /\ ~w.connected /\ ~w.suspended
                    => RuntimeFine(w, r)
          BY <1>3 DEF RuntimeFine
    <3>. QED
      BY <2>1, <2>3, <3>1
  <2>. QED
    BY <2>1, <2>2, <2>4, <2>5
<1>4. /\ [NoRuntime EXCEPT !.prepared = 0] = NoRuntime
      /\ NoRuntime.gen = 0 /\ NoRuntime.host = 0 /\ NoRuntime.prepared = 0
      BY DEF NoRuntime
<1>. QED
  BY <1>2, <1>3, <1>4

SameUses ==
    \A u \in Tasks : task'[u].kind = "use" \/ task[u].kind = "use" => task'[u] = task[u]

\* Session s keeps its client, or it had nothing in use.
KeepsClient(s) ==
    \/ Quiet(records[s], records'[s])
    \/ UsesOf(s) = {} /\ records'[s].inFlight = records[s].inFlight

\* No beginUse() or endUse() runs: a record keeps its count, or the count was zero.
LEMMA UsesKept ==
    ASSUME BrokerInv, SameUses,
           \A s \in Sessions : Later(records[s], records'[s]) /\ KeepsClient(s)
    PROVE  UseInv'
<1>1. ASSUME NEW s \in Sessions
      PROVE  /\ IsFiniteSet(UsesOf(s)')
             /\ Live(records'[s]) => /\ records'[s].inFlight = Cardinality(UsesOf(s)')
                                     /\ \A t \in UsesOf(s)' : task'[t].gen = records'[s].gen
  <2>1. UsesOf(s)' = UsesOf(s) /\ \A t \in UsesOf(s) : task'[t] = task[t]
        BY DEF UsesOf, SameUses
  <2>2. Live(records'[s]) => /\ Live(records[s]) /\ records'[s].inFlight = records[s].inFlight
                             /\ records'[s].gen = records[s].gen \/ UsesOf(s) = {}
        BY DEF Later, Quiet, KeepsClient
  <2>3. /\ IsFiniteSet(UsesOf(s))
        /\ Live(records[s]) => /\ records[s].inFlight = Cardinality(UsesOf(s))
                               /\ \A t \in UsesOf(s) : task[t].gen = records[s].gen
        BY DEF BrokerInv, UseInv
  <2>. QED
    BY <2>1, <2>2, <2>3
<1>. QED
  BY <1>1 DEF UseInv

\* The sessions go on: nothing becomes live, and nothing is known of those not made.
LEMMA RecordsKept ==
    ASSUME BrokerInv, issued' = issued, \A s \in Sessions : Later(records[s], records'[s]),
           \A s \in Sessions :
               s > issued => page'[s] = NoPage /\ rt'[s] = NoRuntime /\ delivered'[s] = 0
    PROVE  RecordInv'
<1>1. RecordInv
      BY DEF BrokerInv
<1>2. \A s \in Sessions : WellFormed(records'[s])
      BY DEF Later
<1>3. \A s, o \in Sessions : Live(records'[s]) /\ Live(records'[o]) => s = o
      BY <1>1 DEF Later, RecordInv
<1>4. \A s \in Sessions : s > issued => records'[s] = Gone
      BY <1>1 DEF Later, RecordInv
<1>. QED
  BY <1>2, <1>3, <1>4 DEF RecordInv

Typed ==
    /\ records' \in [Sessions -> TakeoverRecord] /\ page' \in [Sessions -> Page]
    /\ rt' \in [Sessions -> Runtime] /\ hosts' \in [Hosts -> {"none", "up", "ending", "gone"}]
    /\ task' \in [Tasks -> TaskRecord] /\ calls' \in Nat /\ delivered' \in [Sessions -> Nat]
    /\ UNCHANGED <<issued, deployment>>

\* A step that begins and ends no use: what it makes of each session and of the requests.
LEMMA QuietStep ==
    ASSUME BrokerInv, Typed, SameUses, TaskInv',
           \A s \in Sessions : Later(records[s], records'[s]) /\ KeepsClient(s),
           \A s \in Sessions :
               s > issued => page'[s] = NoPage /\ rt'[s] = NoRuntime /\ delivered'[s] = 0,
           \A s \in Sessions : RuntimeFine(rt'[s], records'[s]),
           \A s \in Sessions : PageFine(page'[s], records'[s], delivered'[s])
    PROVE  BrokerInv'
<1>1. UseInv' /\ RecordInv' /\ BrokerTypeOK'
      BY UsesKept, RecordsKept DEF Typed, BrokerInv, BrokerTypeOK
<1>2. RuntimeInv' /\ PageInv'
      BY DEF RuntimeInv, PageInv, RuntimeFine, PageFine, WebRtc, Typed
<1>. QED
  BY <1>1, <1>2 DEF BrokerInv

\* The request of nobody else is touched.
RoutesEnd ==
    \A s \in Sessions : /\ page'[s].route => page[s].route \/ ~Over(records[s])
                        /\ page'[s].done => page[s].done

\* The other requests: a step that makes nothing live and gives back no route leaves them
\* what they were, whatever they await.
LEMMA OthersRest ==
    ASSUME BrokerInv, RoutesEnd, issued' = issued,
           \A s \in Sessions : Later(records[s], records'[s])
    PROVE  \A u \in Tasks : TaskFine(task[u], records', page', issued')
<1>1. SUFFICES ASSUME NEW u \in Tasks PROVE TaskFine(task[u], records', page', issued)
      OBVIOUS
<1>2. /\ TaskFine(task[u], records, page, issued) /\ issued \in 0..MaxSessions
      /\ MaxSessions \in Nat /\ task[u] \in TaskRecord
      BY SessionsAssumption DEF BrokerInv, TaskInv, BrokerTypeOK
<1>3. task[u].kind \notin {"idle", "verified", "revoke-all"} => task[u].s \in Sessions
      BY <1>2 DEF TaskFine, Sessions
<1>4. task[u].kind = "complete" => Over(records'[task[u].s])
      BY <1>2, <1>3 DEF TaskFine, Later
<1>5. task[u].kind = "verified" => \A s \in task[u].rest : ~Live(records'[s])
      BY <1>2 DEF TaskFine, Later, TaskRecord
<1>6. task[u].pc = "hook" => ~page'[task[u].s].route /\ ~page'[task[u].s].done
      BY <1>2, <1>3 DEF TaskFine, RoutesEnd
<1>. QED
  BY <1>2, <1>4, <1>5, <1>6 DEF TaskFine

\* A timer or another call of no request: all of them are what they were.
LEMMA TasksRest ==
    ASSUME BrokerInv, RoutesEnd, issued' = issued, deployment' = deployment, task' = task,
           \A s \in Sessions : Later(records[s], records'[s])
    PROVE  TaskInv' /\ SameUses
<1>1. \A u \in Tasks : TaskFine(task'[u], records', page', issued')
      BY OthersRest
<1>2. OneFinalization'
      BY DEF BrokerInv, TaskInv, OneFinalization
<1>. QED
  BY <1>1, <1>2 DEF TaskInv, TaskFine, SameUses, WebRtc

\* A request of the broker moves on, to x, and does not become a second finalization of its
\* session (completionFinalizations).
LEMMA OneTaskMoves ==
    ASSUME BrokerInv, RoutesEnd, issued' = issued, deployment' = deployment,
           NEW t \in Tasks, NEW x, task' = [task EXCEPT ![t] = x],
           task[t].kind # "use", x.kind # "use",
           TaskFine(x, records', page', issued),
           x.kind = "complete" =>
               (task[t].kind = "complete" /\ task[t].s = x.s) \/ ~Finalizing(x.s),
           \A s \in Sessions : Later(records[s], records'[s])
    PROVE  TaskInv' /\ SameUses
<1>1. /\ task \in [Tasks -> TaskRecord] /\ task'[t] = x
      /\ \A u \in Tasks : u # t => task'[u] = task[u]
      BY DEF BrokerInv, BrokerTypeOK
<1>2. \A u \in Tasks : TaskFine(task'[u], records', page', issued')
      BY <1>1, OthersRest
<1>3. OneFinalization'
      BY <1>1 DEF BrokerInv, TaskInv, OneFinalization, Finalizing
<1>4. SameUses
      BY <1>1 DEF SameUses
<1>. QED
  BY <1>2, <1>3, <1>4 DEF TaskInv, TaskFine, WebRtc
-----------------------------------------------------------------------------
(* revoke() of the runtime and what its callers go on with.                *)

\* A request slot that is not in use.
LEMMA IdleTask == Idle \in TaskRecord /\ Idle.kind = "idle" /\ Idle.pc = "idle" /\ Idle.s = 0 /\ Idle.rest = {}
  BY SessionsAssumption, BrokerAssumption DEF Idle, TaskRecord, TaskKinds, TaskPcs

\* What a request is once it awaits the end of a host, or goes on without.
LEMMA AwaitingEffect ==
    ASSUME NEW r \in TaskRecord, NEW h \in 0..MaxHosts
    PROVE  LET x == AwaitingHost(r, h) IN
           /\ x \in TaskRecord
           /\ \/ /\ x.kind = r.kind /\ x.s = r.s /\ x.rest = r.rest /\ x.gen = r.gen
                 /\ x.pc \in {"stopping", "revoked"}
              \/ x = Idle /\ r.kind \in LastIsRevoke
<1>1. [r EXCEPT !.pc = "stopping", !.host = h] \in TaskRecord
      BY DEF TaskRecord, TaskPcs
<1>2. [r EXCEPT !.pc = "revoked", !.host = 0] \in TaskRecord
  <2>1. 0 \in 0..MaxHosts
        BY BrokerAssumption
  <2>. QED
    BY <2>1 DEF TaskRecord, TaskPcs
<1>3. CASE h > 0
      BY <1>1, <1>3 DEF AwaitingHost, TaskRecord
<1>4. CASE ~(h > 0) /\ r.kind \in LastIsRevoke
      BY <1>4, IdleTask DEF AwaitingHost
<1>5. CASE ~(h > 0) /\ r.kind \notin LastIsRevoke
      BY <1>2, <1>5 DEF AwaitingHost, TaskRecord
<1>. QED
  BY <1>3, <1>4, <1>5

\* end() of webrtc-runtime.ts stops the host of the entry it takes away.
LEMMA StoppingTyped ==
    ASSUME BrokerTypeOK, NEW s \in Sessions
    PROVE  /\ Stopping(s) \in [Hosts -> {"none", "up", "ending", "gone"}]
           /\ \A h \in Hosts : Stopping(s)[h] = "up" =>
                 hosts[h] = "up" /\ ~(rt[s].gen > 0 /\ rt[s].host = h)
  BY DEF BrokerTypeOK, Stopping

\* x goes on with what r began; y is left of the runtime of its session.
Revoking(t, r, x, y) ==
    /\ x \in TaskRecord /\ y \in Runtime
    /\ task' = [task EXCEPT ![t] = x] /\ rt' = [rt EXCEPT ![r.s] = y]
    /\ hosts' \in [Hosts -> {"none", "up", "ending", "gone"}]
    /\ \/ /\ x.kind = r.kind /\ x.s = r.s /\ x.rest = r.rest /\ x.gen = r.gen
          /\ x.pc \in {"credential", "stopping", "revoked"}
       \/ x = Idle /\ r.kind \in LastIsRevoke
    /\ \/ y = NoRuntime
       \/ rt[r.s].prepared > 0 /\ y = [rt[r.s] EXCEPT !.prepared = 0]
    /\ \A h \in Hosts : hosts'[h] = "up" =>
          hosts[h] = "up" /\ (rt[r.s].gen > 0 /\ rt[r.s].host = h => y.gen = rt[r.s].gen /\ y.host = h)

\* r is a request that may go on to revoke().
RevokeFine(r, rs, n) ==
    /\ r.s \in 1..n /\ r.rest \subseteq 1..n /\ r.kind \notin {"idle", "use"}
    /\ r.kind \in {"prepare", "suspend", "complete"} => WebRtc
    /\ r.kind = "complete" => Over(rs[r.s])
    /\ r.kind = "native" => deployment.kind = "native" /\ r.gen > 0
    /\ r.kind = "verified" => \A s \in r.rest : ~Live(rs[s])

\* revoke() of webrtc-runtime.ts: it awaits the credential's revocation first when there is
\* one, and takes the entry away at once when there is none.
LEMMA RevokeEffect ==
    ASSUME BrokerTypeOK, NEW t \in Tasks, NEW r \in TaskRecord, r.s \in Sessions, RevokeStep(t, r)
    PROVE  \E x, y : Revoking(t, r, x, y)
<1>1. CASE rt[r.s].prepared > 0 /\ deployment.turn
  <2>1. /\ rt' = [rt EXCEPT ![r.s].prepared = 0] /\ hosts' = hosts
        /\ task' = [task EXCEPT ![t] = [r EXCEPT !.pc = "credential"]]
        BY <1>1 DEF RevokeStep
  <2>2. [r EXCEPT !.pc = "credential"] \in TaskRecord /\ rt[r.s] \in Runtime
        BY DEF TaskRecord, TaskPcs, BrokerTypeOK
  <2>3. 0 \in 0..MaxGen
        BY SessionsAssumption
  <2>4. /\ [rt[r.s] EXCEPT !.prepared = 0] \in Runtime
        /\ [rt[r.s] EXCEPT !.prepared = 0].gen = rt[r.s].gen
        /\ [rt[r.s] EXCEPT !.prepared = 0].host = rt[r.s].host
        BY <2>2, <2>3 DEF Runtime
  <2>5. /\ [r EXCEPT !.pc = "credential"].kind = r.kind /\ [r EXCEPT !.pc = "credential"].s = r.s
        /\ [r EXCEPT !.pc = "credential"].rest = r.rest
        /\ [r EXCEPT !.pc = "credential"].pc = "credential"
        /\ [r EXCEPT !.pc = "credential"].gen = r.gen
        BY DEF TaskRecord
  <2>6. rt' = [rt EXCEPT ![r.s] = [rt[r.s] EXCEPT !.prepared = 0]]
        BY <2>1 DEF BrokerTypeOK
  <2>7. Revoking(t, r, [r EXCEPT !.pc = "credential"], [rt[r.s] EXCEPT !.prepared = 0])
        BY <1>1, <2>1, <2>2, <2>4, <2>5, <2>6 DEF Revoking, BrokerTypeOK
  <2>. QED
    BY <2>7
<1>2. CASE ~(rt[r.s].prepared > 0 /\ deployment.turn)
  <2>1. /\ rt' = [rt EXCEPT ![r.s] = NoRuntime] /\ hosts' = Stopping(r.s)
        /\ task' = [task EXCEPT ![t] = AwaitingHost(r, rt[r.s].host)]
        BY <1>2 DEF RevokeStep
  <2>2. rt[r.s].host \in 0..MaxHosts
        BY DEF BrokerTypeOK, Runtime
  <2> DEFINE x == AwaitingHost(r, rt[r.s].host)
  <2>3. /\ x \in TaskRecord
        /\ \/ /\ x.kind = r.kind /\ x.s = r.s /\ x.rest = r.rest /\ x.gen = r.gen
              /\ x.pc \in {"stopping", "revoked"}
           \/ x = Idle /\ r.kind \in LastIsRevoke
        BY <2>2, AwaitingEffect
  <2>4. /\ hosts' \in [Hosts -> {"none", "up", "ending", "gone"}]
        /\ \A h \in Hosts : hosts'[h] = "up" => hosts[h] = "up" /\ ~(rt[r.s].gen > 0 /\ rt[r.s].host = h)
        BY <2>1, StoppingTyped
  <2>5. /\ NoRuntime \in Runtime /\ rt' = [rt EXCEPT ![r.s] = NoRuntime]
        /\ task' = [task EXCEPT ![t] = x]
        BY <2>1, RuntimeShrinks
  <2> HIDE DEF x
  <2>6. Revoking(t, r, x, NoRuntime)
        BY <2>3, <2>4, <2>5 DEF Revoking
  <2>. QED
    BY <2>6
<1>. QED
  BY <1>1, <1>2

\* It leaves the runtime of its session and the request as they should be.
LEMMA RevokingKeeps ==
    ASSUME BrokerTypeOK, RuntimeInv, NEW t \in Tasks, NEW r \in TaskRecord, r.s \in Sessions,
           NEW x, NEW y, Revoking(t, r, x, y)
    PROVE  /\ \A rec : RuntimeFine(rt[r.s], rec) => RuntimeFine(y, rec)
           /\ rt[r.s] = NoRuntime => y = NoRuntime
           /\ x.kind # "use" \/ r.kind = "use"
           /\ \A rs, ps : \A n \in Nat : RevokeFine(r, rs, n) => TaskFine(x, rs, ps, n)
<1>1. y = NoRuntime \/ y = [rt[r.s] EXCEPT !.prepared = 0]
      BY DEF Revoking
<1>2. rt[r.s] \in Runtime
      BY DEF BrokerTypeOK
<1>3. ASSUME NEW rec, RuntimeFine(rt[r.s], rec) PROVE RuntimeFine(y, rec)
  <2>1. RuntimeFine(NoRuntime, rec)
        BY RuntimeShrinks
  <2>2. RuntimeFine([rt[r.s] EXCEPT !.prepared = 0], rec)
        BY <1>2, <1>3, RuntimeShrinks
  <2>. QED
    BY <1>1, <2>1, <2>2
<1>4. RuntimeFine(rt[r.s], records[r.s])
      BY DEF RuntimeInv
<1>5. rt[r.s] = NoRuntime => y = NoRuntime
      BY <1>1, <1>2, <1>4, RuntimeShrinks
<1>6. x.kind # "use" \/ r.kind = "use"
      BY IdleTask DEF Revoking
<1>7. ASSUME NEW rs, NEW ps, NEW n \in Nat, RevokeFine(r, rs, n)
      PROVE  TaskFine(x, rs, ps, n)
  <2>1. CASE x = Idle
        BY <2>1, IdleTask DEF TaskFine
  <2>2. CASE x # Idle
        BY <1>7, <2>2 DEF TaskFine, Revoking, RevokePcs, RevokeFine
  <2>. QED
    BY <2>1, <2>2
<1>. QED
  BY <1>3, <1>5, <1>6, <1>7
-----------------------------------------------------------------------------
(* Steps of the runtime: nothing changes in the records and the maps.      *)

Unasked == UNCHANGED <<records, issued, deployment, page, delivered, calls>>

\* A step inside the runtime asks the session manager for nothing.
LEMMA UnaskedFacts ==
    ASSUME BrokerInv, Unasked
    PROVE  /\ \A s \in Sessions : Later(records[s], records'[s]) /\ KeepsClient(s)
           /\ RoutesEnd /\ issued' = issued /\ deployment' = deployment
  BY LaterRefl DEF KeepsClient, BrokerInv, BrokerTypeOK, RecordInv, Unasked, RoutesEnd

\* Such a step keeps the invariant when the entries it leaves are those of the clients.
LEMMA RuntimeStep ==
    ASSUME BrokerInv, Unasked, TaskInv', SameUses, task' \in [Tasks -> TaskRecord],
           rt' \in [Sessions -> Runtime], hosts' \in [Hosts -> {"none", "up", "ending", "gone"}],
           \A s \in Sessions : RuntimeFine(rt'[s], records[s]),
           \A s \in Sessions : s > issued => rt'[s] = NoRuntime
    PROVE  BrokerInv'
<1>1. Typed
      BY DEF Typed, Unasked, BrokerInv, BrokerTypeOK
<1>2. \A s \in Sessions : s > issued => page'[s] = NoPage /\ rt'[s] = NoRuntime /\ delivered'[s] = 0
      BY DEF Unasked, BrokerInv, RecordInv
<1>3. \A s \in Sessions : RuntimeFine(rt'[s], records'[s])
      BY DEF Unasked
<1>4. \A s \in Sessions : PageFine(page'[s], records'[s], delivered'[s])
      BY DEF Unasked, BrokerInv, PageInv
<1>. QED
  BY <1>1, <1>2, <1>3, <1>4, UnaskedFacts, QuietStep

\* One request moves on, to x.
LEMMA TaskStep ==
    ASSUME BrokerInv, Unasked, NEW t \in Tasks, NEW x \in TaskRecord,
           task' = [task EXCEPT ![t] = x], task[t].kind # "use", x.kind # "use",
           TaskFine(x, records, page, issued),
           x.kind = "complete" => task[t].kind = "complete" /\ task[t].s = x.s,
           rt' \in [Sessions -> Runtime], hosts' \in [Hosts -> {"none", "up", "ending", "gone"}],
           \A s \in Sessions : RuntimeFine(rt'[s], records[s]),
           \A s \in Sessions : s > issued => rt'[s] = NoRuntime
    PROVE  BrokerInv'
<1>1. TaskFine(x, records', page', issued)
      BY DEF Unasked
<1>2. TaskInv' /\ SameUses
      BY <1>1, UnaskedFacts, OneTaskMoves
<1>3. task' \in [Tasks -> TaskRecord]
      BY DEF BrokerInv, BrokerTypeOK
<1>. QED
  BY <1>2, <1>3, RuntimeStep

\* Nothing but the runtimes and hosts changes.
LEMMA HostStep ==
    ASSUME BrokerInv, Unasked, task' = task,
           rt' \in [Sessions -> Runtime], hosts' \in [Hosts -> {"none", "up", "ending", "gone"}],
           \A s \in Sessions : RuntimeFine(rt'[s], records[s]),
           \A s \in Sessions : s > issued => rt'[s] = NoRuntime
    PROVE  BrokerInv'
<1>1. TaskInv' /\ SameUses
      BY UnaskedFacts, TasksRest
<1>2. task' \in [Tasks -> TaskRecord]
      BY DEF BrokerInv, BrokerTypeOK
<1>. QED
  BY <1>1, <1>2, RuntimeStep

\* What holds of a request, spelled out.
LEMMA TaskFacts ==
    ASSUME BrokerInv, NEW t \in Tasks
    PROVE  /\ task[t] \in TaskRecord /\ TaskFine(task[t], records, page, issued)
           /\ issued \in Nat /\ issued <= MaxSessions /\ MaxSessions \in Nat
           /\ \A s \in 1..issued : s \in Sessions
           /\ task[t].s \in 1..issued \/ task[t].s = 0
           /\ task[t].kind \notin {"idle", "verified", "revoke-all"} => task[t].s \in 1..issued
           /\ task[t].pc \in {"credential", "stopping"} => task[t].s \in 1..issued
  BY SessionsAssumption DEF BrokerInv, BrokerTypeOK, TaskInv, TaskFine, Sessions

\* What holds of a session.
LEMMA RuntimeFacts ==
    ASSUME BrokerInv
    PROVE  /\ rt \in [Sessions -> Runtime] /\ hosts \in [Hosts -> {"none", "up", "ending", "gone"}]
           /\ \A s \in Sessions : RuntimeFine(rt[s], records[s])
           /\ \A s \in Sessions : s > issued => rt[s] = NoRuntime
           /\ \A s \in Sessions : rt[s].gen > 0 \/ rt[s].prepared > 0 => s <= issued
  BY RuntimeShrinks, SessionsAssumption
     DEF BrokerInv, BrokerTypeOK, RecordInv, RuntimeInv, Sessions

\* end(), and what deleting an entry leaves.
LEMMA EndedFacts ==
    ASSUME BrokerInv, NEW s \in Sessions
    PROVE  /\ Ended(s) \in Runtime /\ Ended(s).gen = 0
           /\ \A r : RuntimeFine(rt[s], r) => RuntimeFine(Ended(s), r)
           /\ rt[s] = NoRuntime => Ended(s) = NoRuntime
           /\ [rt EXCEPT ![s] = Ended(s)] \in [Sessions -> Runtime]
           /\ \A o \in Sessions : RuntimeFine([rt EXCEPT ![s] = Ended(s)][o], records[o])
           /\ \A o \in Sessions : o > issued => [rt EXCEPT ![s] = Ended(s)][o] = NoRuntime
<1>1. rt[s] \in Runtime /\ RuntimeFine(rt[s], records[s])
      BY RuntimeFacts
<1>2. /\ Ended(s) \in Runtime
      /\ \A r : RuntimeFine(rt[s], r) => RuntimeFine(Ended(s), r)
      /\ rt[s] = NoRuntime => Ended(s) = NoRuntime
      BY <1>1, RuntimeShrinks DEF Ended
<1>3. Ended(s).gen = 0
      BY <1>1, RuntimeShrinks DEF Ended, NoRuntime
<1>. QED
  BY <1>1, <1>2, <1>3, RuntimeFacts

\* The revocation of a TURN credential is answered: revoke() goes on to the host, or fails.
LEMMA CredentialInv ==
    ASSUME BrokerInv, NEW t \in Tasks, CredentialRevoked(t) \/ CredentialFails(t)
    PROVE  BrokerInv'
<1>1. /\ task[t].pc = "credential" /\ task[t].s \in 1..issued /\ task[t].s \in Sessions
      /\ task[t] \in TaskRecord /\ TaskFine(task[t], records, page, issued) /\ issued \in Nat
      /\ task[t].kind # "use" /\ Unasked
      BY TaskFacts DEF CredentialRevoked, CredentialFails, TaskFine, Unasked, sessionVars
<1>2. CASE CredentialRevoked(t)
  <2> DEFINE s == task[t].s
             x == AwaitingHost(task[t], rt[s].host)
  <2>1. /\ rt' = [rt EXCEPT ![s] = Ended(s)] /\ hosts' = Stopping(s)
        /\ task' = [task EXCEPT ![t] = x]
        BY <1>2, TaskFacts DEF CredentialRevoked, BrokerInv, BrokerTypeOK
  <2>2. rt[s].host \in 0..MaxHosts
        BY <1>1, RuntimeFacts DEF Runtime
  <2>3. /\ x \in TaskRecord
        /\ \/ /\ x.kind = task[t].kind /\ x.s = s /\ x.rest = task[t].rest /\ x.gen = task[t].gen
              /\ x.pc \in {"stopping", "revoked"}
           \/ x = Idle
        BY <1>1, <2>2, AwaitingEffect
  <2> HIDE DEF x
  <2>4. TaskFine(x, records, page, issued) /\ x.kind # "use"
    <3>1. CASE x = Idle
          BY <3>1, <1>1, IdleTask DEF TaskFine
    <3>2. CASE x # Idle
          BY <3>2, <1>1, <2>3 DEF TaskFine, RevokePcs
    <3>. QED
      BY <3>1, <3>2
  <2>5. x.kind = "complete" => task[t].kind = "complete" /\ task[t].s = x.s
        BY <2>3, IdleTask
  <2>6. /\ rt' \in [Sessions -> Runtime] /\ \A o \in Sessions : RuntimeFine(rt'[o], records[o])
        /\ \A o \in Sessions : o > issued => rt'[o] = NoRuntime
        BY <1>1, <2>1, EndedFacts
  <2>7. hosts' \in [Hosts -> {"none", "up", "ending", "gone"}]
        BY <1>1, <2>1, StoppingTyped DEF BrokerInv
  <2>. QED
    BY <1>1, <2>1, <2>3, <2>4, <2>5, <2>6, <2>7, TaskStep
<1>3. CASE CredentialFails(t)
  <2> DEFINE x == [task[t] EXCEPT !.pc = "failed"]
  <2>1. task' = [task EXCEPT ![t] = x] /\ UNCHANGED <<rt, hosts>>
        BY <1>3 DEF CredentialFails, At
  <2>2. /\ x \in TaskRecord /\ x.kind = task[t].kind /\ x.s = task[t].s /\ x.rest = task[t].rest
        /\ x.pc = "failed" /\ x.gen = task[t].gen
        BY <1>1 DEF TaskRecord, TaskPcs
  <2> HIDE DEF x
  <2>3. TaskFine(x, records, page, issued)
        BY <1>1, <2>2 DEF TaskFine, RevokePcs
  <2>. QED
    BY <1>1, <2>1, <2>2, <2>3, RuntimeFacts, TaskStep
<1>. QED
  BY <1>2, <1>3

\* A request that is done with, or that moves to where none but itself has a say.
LEMMA IdleFine == \A rs, ps : \A n \in Nat : TaskFine(Idle, rs, ps, n)
  BY IdleTask DEF TaskFine

\* A request of the runtime returns.
LEMMA FinishInv ==
    ASSUME BrokerInv, Unasked, NEW t \in Tasks, Finish(t), task[t].kind # "use",
           rt' \in [Sessions -> Runtime], hosts' \in [Hosts -> {"none", "up", "ending", "gone"}],
           \A s \in Sessions : RuntimeFine(rt'[s], records[s]),
           \A s \in Sessions : s > issued => rt'[s] = NoRuntime
    PROVE  BrokerInv'
<1>1. task' = [task EXCEPT ![t] = Idle] /\ TaskFine(Idle, records, page, issued)
      BY IdleFine, TaskFacts DEF Finish
<1>. QED
  BY <1>1, IdleTask, TaskStep

\* A request of the runtime goes on to its next await.
LEMMA PcInv ==
    ASSUME BrokerInv, Unasked, NEW t \in Tasks, NEW pc \in TaskPcs, At(t, pc),
           task[t].pc # "browser",
           pc \notin {"credential", "stopping", "starting", "resuming", "hook"},
           task[t].kind \in {"complete", "native"} => pc \in RevokePcs,
           rt' \in [Sessions -> Runtime], hosts' \in [Hosts -> {"none", "up", "ending", "gone"}],
           \A s \in Sessions : RuntimeFine(rt'[s], records[s]),
           \A s \in Sessions : s > issued => rt'[s] = NoRuntime
    PROVE  BrokerInv'
<1> DEFINE x == [task[t] EXCEPT !.pc = pc]
<1>1. task' = [task EXCEPT ![t] = x]
      BY DEF At
<1>2. /\ task[t] \in TaskRecord /\ TaskFine(task[t], records, page, issued)
      /\ task[t].kind # "use"
      BY TaskFacts DEF TaskFine
<1>3. /\ x \in TaskRecord /\ x.kind = task[t].kind /\ x.s = task[t].s /\ x.rest = task[t].rest
      /\ x.pc = pc /\ x.gen = task[t].gen
      BY <1>2 DEF TaskRecord
<1> HIDE DEF x
<1>4. TaskFine(x, records, page, issued)
      BY <1>2, <1>3 DEF TaskFine
<1>. QED
  BY <1>1, <1>2, <1>3, <1>4, TaskStep

\* revoke() is over, with the host stopped, for the request that awaited it.
LEMMA SettlesInv ==
    ASSUME BrokerInv, NEW t \in Tasks,
           HostStopped(t) \/ RevokeSettled(t) \/ LoopEnds(t) \/ Answered(t)
    PROVE  BrokerInv'
<1>1. Unasked /\ UNCHANGED <<rt, hosts>>
      BY DEF HostStopped, RevokeSettled, LoopEnds, Answered, Unasked, sessionVars
<1>2. TaskFine(task[t], records, page, issued)
      BY TaskFacts
<1>3. CASE HostStopped(t)
  <2>1. PICK pc \in {"revoked", "failed"} : At(t, pc)
        BY <1>3 DEF HostStopped
  <2>. QED
    BY <1>1, <1>3, <2>1, RuntimeFacts, PcInv DEF HostStopped, TaskPcs, RevokePcs
<1>4. CASE RevokeSettled(t) \/ LoopEnds(t) \/ Answered(t)
  <2>1. Finish(t) /\ task[t].kind # "use"
        BY <1>2, <1>4 DEF RevokeSettled, LoopEnds, Answered, TaskFine, LastIsRevoke
  <2>. QED
    BY <1>1, <2>1, RuntimeFacts, FinishInv
<1>. QED
  BY <1>3, <1>4

\* The runtime of one session changes, and no request awaits it.
LEMMA RuntimeOfOne ==
    ASSUME BrokerInv, NEW s \in Sessions, NEW y \in Runtime, RuntimeFine(y, records[s]),
           s <= issued, rt' = [rt EXCEPT ![s] = y]
    PROVE  /\ rt' \in [Sessions -> Runtime] /\ \A o \in Sessions : RuntimeFine(rt'[o], records[o])
           /\ \A o \in Sessions : o > issued => rt'[o] = NoRuntime
<1>1. issued \in Nat /\ \A o \in Sessions : o \in Nat
      BY SessionsAssumption DEF BrokerInv, BrokerTypeOK, Sessions
<1>2. \A o \in Sessions : rt'[o] = IF o = s THEN y ELSE rt[o]
      BY RuntimeFacts
<1>3. \A o \in Sessions : o > issued => o # s
      BY <1>1
<1>. QED
  BY <1>2, <1>3, RuntimeFacts

\* A credential is prepared or taken away, a peer connects, a suspended host exits.
LEMMA RuntimeChanges ==
    ASSUME NEW y \in Runtime, NEW r, RuntimeFine(y, r), WebRtc
    PROVE  /\ \A g \in 0..MaxGen : /\ [y EXCEPT !.prepared = g] \in Runtime
                                   /\ RuntimeFine([y EXCEPT !.prepared = g], r)
           /\ y.gen > 0 => /\ [y EXCEPT !.connected = TRUE] \in Runtime
                           /\ RuntimeFine([y EXCEPT !.connected = TRUE], r)
           /\ [y EXCEPT !.resumeFailed = TRUE] \in Runtime
           /\ RuntimeFine([y EXCEPT !.resumeFailed = TRUE], r)
<1>1. 0 \in 0..MaxGen
      BY SessionsAssumption
<1>2. ASSUME NEW g \in 0..MaxGen
      PROVE  [y EXCEPT !.prepared = g] \in Runtime /\ RuntimeFine([y EXCEPT !.prepared = g], r)
      BY DEF Runtime, RuntimeFine
<1>3. /\ y.gen > 0 => /\ [y EXCEPT !.connected = TRUE] \in Runtime
                      /\ RuntimeFine([y EXCEPT !.connected = TRUE], r)
      /\ [y EXCEPT !.resumeFailed = TRUE] \in Runtime
      /\ RuntimeFine([y EXCEPT !.resumeFailed = TRUE], r)
  <2>1. [y EXCEPT !.connected = TRUE] \in Runtime /\ [y EXCEPT !.resumeFailed = TRUE] \in Runtime
        BY DEF Runtime
  <2>2. RuntimeFine([y EXCEPT !.resumeFailed = TRUE], r)
        BY DEF Runtime, RuntimeFine
  <2>3. ASSUME y.gen > 0 PROVE RuntimeFine([y EXCEPT !.connected = TRUE], r)
    <3>1. LET v == [y EXCEPT !.connected = TRUE]
          IN v.gen = y.gen /\ v.host = y.host /\ v.suspended = y.suspended /\ v.prepared = y.prepared
          BY DEF Runtime
    <3>2. y.gen # 0
          BY <2>3
    <3>. QED
      BY <2>3, <3>1, <3>2 DEF RuntimeFine
  <2>. QED
    BY <2>1, <2>2, <2>3
<1>. QED
  BY <1>2, <1>3

\* suspend() keeps host and peer of the entry and drops what was prepared.
LEMMA SuspendedFacts ==
    ASSUME NEW s \in Sessions, rt[s] \in Runtime, NEW r, RuntimeFine(rt[s], r), WebRtc
    PROVE  Suspended(s) \in Runtime /\ RuntimeFine(Suspended(s), r)
<1> DEFINE y == rt[s]
           b == y.suspended \/ y.gen > 0
           v == [y EXCEPT !.prepared = 0, !.suspended = b]
<1>1. Suspended(s) = v
      BY Zenon DEF Suspended
<1>2. 0 \in 0..MaxGen /\ y \in Runtime /\ b \in BOOLEAN /\ y.gen \in Nat
      BY SessionsAssumption DEF Runtime
<1>3. (b <=> y.suspended \/ y.gen > 0)
      OBVIOUS
<1> HIDE DEF b
<1>4. v \in Runtime
      BY <1>2 DEF Runtime
<1>5. /\ v.gen = y.gen /\ v.host = y.host /\ v.suspended = b /\ v.prepared = 0
      /\ v.connected = y.connected
      BY <1>2 DEF Runtime
<1> HIDE DEF v
<1>6. RuntimeFine(v, r)
  <2>1. y.gen = 0 => ~b
    <3>1. y.gen = 0 => ~(y.gen > 0)
          BY <1>2
    <3>2. y.gen = 0 => ~y.suspended
          BY DEF RuntimeFine
    <3>. QED
      BY <1>3, <3>1, <3>2, Zenon
  <2>2. y.gen > 0 => b
        BY <1>3, Zenon
  <2>3. (v.connected <=> y.connected) /\ (v.suspended <=> b)
        BY <1>5
  <2>. QED
    BY <1>2, <1>5, <2>1, <2>2, <2>3 DEF RuntimeFine
<1>. QED
  BY <1>1, <1>4, <1>6, Zenon

\* prepare() and suspend() of the runtime go on after their await: the entry is the client's, or
\* they find another generation and leave it alone.
LEMMA PrepareStepInv ==
    ASSUME BrokerInv, NEW t \in Tasks, PrepareGoesOn(t) \/ Prepared(t) \/ SuspendGoesOn(t)
    PROVE  BrokerInv'
<1> DEFINE s == task[t].s
<1>1. /\ Unasked /\ hosts' = hosts /\ hosts \in [Hosts -> {"none", "up", "ending", "gone"}]
      /\ task[t].kind \in {"prepare", "suspend"} /\ task[t].pc # "browser"
      BY RuntimeFacts DEF PrepareGoesOn, Prepared, SuspendGoesOn, Unasked, sessionVars
<1>2. /\ TaskFine(task[t], records, page, issued) /\ task[t] \in TaskRecord
      /\ s \in Sessions /\ s <= issued /\ task[t].gen \in 0..MaxGen /\ WebRtc
      BY <1>1, TaskFacts DEF TaskFine, TaskRecord
<1>3. /\ rt[s] \in Runtime /\ RuntimeFine(rt[s], records[s]) /\ 0 \in 0..MaxGen
      /\ rt \in [Sessions -> Runtime]
      BY <1>2, RuntimeFacts, SessionsAssumption
<1> HIDE DEF s
<1>4. \/ \E g \in 0..MaxGen : rt' = [rt EXCEPT ![s] = [rt[s] EXCEPT !.prepared = g]]
      \/ rt' = [rt EXCEPT ![s] = Suspended(s)]
      \/ rt' = rt
      BY <1>2, <1>3 DEF PrepareGoesOn, Prepared, SuspendGoesOn, s
<1>5. /\ rt' \in [Sessions -> Runtime] /\ \A o \in Sessions : RuntimeFine(rt'[o], records[o])
      /\ \A o \in Sessions : o > issued => rt'[o] = NoRuntime
  <2>1. CASE rt' = rt
        BY <2>1, RuntimeFacts
  <2>2. CASE rt' = [rt EXCEPT ![s] = Suspended(s)]
    <3>1. Suspended(s) \in Runtime /\ RuntimeFine(Suspended(s), records[s])
          BY <1>2, <1>3, SuspendedFacts
    <3>. QED
      BY <1>2, <2>2, <3>1, RuntimeOfOne
  <2>3. ASSUME NEW g \in 0..MaxGen, rt' = [rt EXCEPT ![s] = [rt[s] EXCEPT !.prepared = g]]
        PROVE  /\ rt' \in [Sessions -> Runtime] /\ \A o \in Sessions : RuntimeFine(rt'[o], records[o])
               /\ \A o \in Sessions : o > issued => rt'[o] = NoRuntime
    <3>1. [rt[s] EXCEPT !.prepared = g] \in Runtime /\ RuntimeFine([rt[s] EXCEPT !.prepared = g], records[s])
          BY <1>2, <1>3, RuntimeChanges
    <3>. QED
      BY <1>2, <2>3, <3>1, RuntimeOfOne
  <2>. QED
    BY <1>4, <2>1, <2>2, <2>3
<1>6. Finish(t) \/ \E pc \in {"issuing", "reissuing"} : At(t, pc)
      BY DEF PrepareGoesOn, Prepared, SuspendGoesOn
<1>7. CASE Finish(t)
      BY <1>1, <1>5, <1>7, FinishInv
<1>8. ASSUME NEW pc \in {"issuing", "reissuing"}, At(t, pc) PROVE BrokerInv'
      BY <1>1, <1>5, <1>8, PcInv DEF TaskPcs
<1>. QED
  BY <1>6, <1>7, <1>8

\* connect() fails while it starts or resumes a host: its catch deletes the entry.
LEMMA StartEndsInv ==
    ASSUME BrokerInv, NEW t \in Tasks, StartFails(t) \/ ResumeFails(t)
    PROVE  BrokerInv'
<1> DEFINE s == task[t].s
           x == Running("connect-failed", "release", s, task[t].gen)
<1>1. Unasked /\ task[t].pc \in {"starting", "resuming"}
      BY DEF StartFails, ResumeFails, Unasked, sessionVars
<1>2. /\ TaskFine(task[t], records, page, issued) /\ task[t] \in TaskRecord
      /\ task[t].kind = "connect" /\ s \in Sessions /\ s \in 1..issued /\ issued \in Nat
      /\ task[t].gen \in 0..MaxGen /\ s \in 0..MaxSessions /\ task[t].host \in Hosts
      BY <1>1, TaskFacts DEF TaskFine, TaskRecord
<1>3. /\ rt' = [rt EXCEPT ![s] = Ended(s)] /\ task' = [task EXCEPT ![t] = x]
      BY <1>2, TaskFacts DEF StartFails, ResumeFails, BrokerInv, BrokerTypeOK
<1>4. hosts' \in [Hosts -> {"none", "up", "ending", "gone"}]
  <2>1. CASE StartFails(t)
        BY <1>2, <2>1, RuntimeFacts DEF StartFails
  <2>2. CASE ResumeFails(t)
        BY <1>2, <2>2, StoppingTyped DEF ResumeFails, BrokerInv
  <2>. QED
    BY <2>1, <2>2
<1>5. /\ x \in TaskRecord /\ x.kind = "connect-failed" /\ x.pc = "release" /\ x.s = s /\ x.rest = {}
  <2>1. 0 \in 0..MaxHosts
        BY BrokerAssumption
  <2>. QED
    BY <1>2, <2>1 DEF Running, TaskRecord, TaskKinds, TaskPcs
<1> HIDE DEF x, s
<1>6. TaskFine(x, records, page, issued)
      BY <1>2, <1>5 DEF TaskFine
<1>. QED
  BY <1>1, <1>2, <1>3, <1>4, <1>5, <1>6, EndedFacts, TaskStep

\* A host exits, a peer connects, and a prepared entry expires.
LEMMA HostMovesInv ==
    ASSUME BrokerInv,
           \/ \E h \in Hosts : HostGone(h) \/ NativeHostExits(h)
           \/ \E s \in Sessions : PeerConnects(s) \/ SuspendedHostExits(s) \/ PreparedExpires(s)
    PROVE  BrokerInv'
<1>1. Unasked /\ task' = task
      BY DEF HostGone, NativeHostExits, PeerConnects, SuspendedHostExits, PreparedExpires,
             Unasked, sessionVars
<1>2. ASSUME NEW h \in Hosts, HostGone(h) PROVE BrokerInv'
      BY <1>1, <1>2, RuntimeFacts, HostStep DEF HostGone
<1>3. ASSUME NEW h \in Hosts, NativeHostExits(h) PROVE BrokerInv'
  <2>1. /\ hosts' \in [Hosts -> {"none", "up", "ending", "gone"}]
        /\ \A s \in Sessions : rt'[s] \in {rt[s], NoRuntime}
        /\ rt' \in [Sessions -> Runtime]
        BY <1>3, RuntimeFacts, RuntimeShrinks DEF NativeHostExits
  <2>2. /\ \A s \in Sessions : RuntimeFine(rt'[s], records[s])
        /\ \A s \in Sessions : s > issued => rt'[s] = NoRuntime
        BY <2>1, RuntimeFacts, RuntimeShrinks
  <2>. QED
    BY <1>1, <2>1, <2>2, HostStep
<1>4. ASSUME NEW s \in Sessions,
             PeerConnects(s) \/ SuspendedHostExits(s) \/ PreparedExpires(s)
      PROVE  BrokerInv'
  <2>1. /\ rt[s] \in Runtime /\ RuntimeFine(rt[s], records[s]) /\ rt \in [Sessions -> Runtime]
        /\ hosts \in [Hosts -> {"none", "up", "ending", "gone"}] /\ 0 \in 0..MaxGen
        BY RuntimeFacts, SessionsAssumption
  <2>2. WebRtc /\ (rt[s].gen > 0 \/ rt[s].prepared > 0)
    <3>1. rt[s].gen \in Nat
          BY <2>1, SessionsAssumption DEF Runtime
    <3>. QED
      BY <1>4, <2>1, <3>1 DEF PeerConnects, SuspendedHostExits, PreparedExpires, RuntimeFine, WebRtc
  <2>3. s <= issued
        BY <2>2, RuntimeFacts
  <2>4. \E y \in Runtime : RuntimeFine(y, records[s]) /\ rt' = [rt EXCEPT ![s] = y]
    <3>1. CASE PeerConnects(s)
          BY <2>1, <2>2, <3>1, RuntimeChanges DEF PeerConnects
    <3>2. CASE SuspendedHostExits(s)
          BY <2>1, <2>2, <3>2, RuntimeChanges DEF SuspendedHostExits
    <3>3. CASE PreparedExpires(s)
          BY <2>1, <2>2, <3>3, RuntimeChanges DEF PreparedExpires
    <3>. QED
      BY <1>4, <3>1, <3>2, <3>3
  <2>5. hosts' \in [Hosts -> {"none", "up", "ending", "gone"}]
        BY <1>4, <2>1 DEF PeerConnects, SuspendedHostExits, PreparedExpires
  <2>. QED
    BY <1>1, <2>3, <2>4, <2>5, RuntimeOfOne, HostStep
<1>. QED
  BY <1>2, <1>3, <1>4
-----------------------------------------------------------------------------
(* Requests and calls: the records and maps first, then the runtime.       *)

\* What the broker knows of the sessions after a step, whatever it does to the runtimes:
\* the maps go with the records, and no runtime of another client is in control.
SessionsFine ==
    /\ records' \in [Sessions -> TakeoverRecord] /\ page' \in [Sessions -> Page]
    /\ calls' \in Nat /\ RoutesEnd /\ UNCHANGED <<issued, deployment, delivered>>
    /\ \A s \in Sessions : Later(records[s], records'[s]) /\ KeepsClient(s)
    /\ \A s \in Sessions : s > issued => page'[s] = NoPage
    /\ \A s \in Sessions : PageFine(page'[s], records'[s], delivered[s])

\* A step of one request that also changes records or maps of the broker.
LEMMA SessionStep ==
    ASSUME BrokerInv, SessionsFine, NEW t \in Tasks, NEW x \in TaskRecord,
           task' = [task EXCEPT ![t] = x], task[t].kind # "use", x.kind # "use",
           TaskFine(x, records', page', issued),
           x.kind = "complete" =>
               (task[t].kind = "complete" /\ task[t].s = x.s) \/ ~Finalizing(x.s),
           rt' \in [Sessions -> Runtime], hosts' \in [Hosts -> {"none", "up", "ending", "gone"}],
           \A s \in Sessions : RuntimeFine(rt'[s], records'[s]),
           \A s \in Sessions : s > issued => rt'[s] = NoRuntime
    PROVE  BrokerInv'
<1>1. TaskInv' /\ SameUses
      BY OneTaskMoves DEF SessionsFine
<1>2. Typed
      BY DEF Typed, SessionsFine, BrokerInv, BrokerTypeOK
<1>3. \A s \in Sessions : s > issued => page'[s] = NoPage /\ rt'[s] = NoRuntime /\ delivered'[s] = 0
      BY DEF SessionsFine, BrokerInv, RecordInv
<1>4. \A s \in Sessions : PageFine(page'[s], records'[s], delivered'[s])
      BY DEF SessionsFine
<1>5. \A s \in Sessions : Later(records[s], records'[s]) /\ KeepsClient(s)
      BY DEF SessionsFine
<1>. QED
  BY <1>1, <1>2, <1>3, <1>4, <1>5, QuietStep

\* No request moves.
LEMMA SessionOnlyStep ==
    ASSUME BrokerInv, SessionsFine, task' = task,
           rt' \in [Sessions -> Runtime], hosts' \in [Hosts -> {"none", "up", "ending", "gone"}],
           \A s \in Sessions : RuntimeFine(rt'[s], records'[s]),
           \A s \in Sessions : s > issued => rt'[s] = NoRuntime
    PROVE  BrokerInv'
<1>1. TaskInv' /\ SameUses
      BY TasksRest DEF SessionsFine
<1>2. Typed
      BY DEF Typed, SessionsFine, BrokerInv, BrokerTypeOK
<1>3. \A s \in Sessions : s > issued => page'[s] = NoPage /\ rt'[s] = NoRuntime /\ delivered'[s] = 0
      BY DEF SessionsFine, BrokerInv, RecordInv
<1>4. \A s \in Sessions : PageFine(page'[s], records'[s], delivered'[s])
      BY DEF SessionsFine
<1>5. \A s \in Sessions : Later(records[s], records'[s]) /\ KeepsClient(s)
      BY DEF SessionsFine
<1>. QED
  BY <1>1, <1>2, <1>3, <1>4, <1>5, QuietStep

\* A request goes on to revoke() of the runtime of its session.
LEMMA RevokeStepInv ==
    ASSUME BrokerInv, SessionsFine, NEW t \in Tasks, task[t].kind # "use",
           NEW r \in TaskRecord, RevokeFine(r, records', issued), RevokeStep(t, r),
           r.kind = "complete" => ~Finalizing(r.s),
           \A s \in Sessions : RuntimeFine(rt[s], records'[s])
    PROVE  BrokerInv'
<1>1. BrokerTypeOK /\ RuntimeInv /\ issued \in Nat /\ r.s \in Sessions /\ r.s <= issued
      BY SessionsAssumption DEF BrokerInv, BrokerTypeOK, RevokeFine, Sessions
<1>2. PICK x, y : Revoking(t, r, x, y)
      BY <1>1, RevokeEffect
<1>3. /\ \A rec : RuntimeFine(rt[r.s], rec) => RuntimeFine(y, rec)
      /\ rt[r.s] = NoRuntime => y = NoRuntime
      /\ x.kind # "use" \/ r.kind = "use"
      /\ \A rs, ps : \A n \in Nat : RevokeFine(r, rs, n) => TaskFine(x, rs, ps, n)
      BY <1>1, <1>2, RevokingKeeps
<1>4. /\ x \in TaskRecord /\ y \in Runtime
      /\ task' = [task EXCEPT ![t] = x] /\ rt' = [rt EXCEPT ![r.s] = y]
      /\ hosts' \in [Hosts -> {"none", "up", "ending", "gone"}]
      BY <1>2 DEF Revoking
<1>5. TaskFine(x, records', page', issued) /\ x.kind # "use"
      BY <1>1, <1>3 DEF RevokeFine
<1>6. x.kind = "complete" => ~Finalizing(x.s)
      BY <1>2, IdleTask DEF Revoking
<1>7. \A s \in Sessions : rt'[s] = IF s = r.s THEN y ELSE rt[s]
      BY <1>4, RuntimeFacts
<1>8. /\ rt' \in [Sessions -> Runtime] /\ \A s \in Sessions : RuntimeFine(rt'[s], records'[s])
      /\ \A s \in Sessions : s > issued => rt'[s] = NoRuntime
      BY <1>3, <1>4, <1>7, RuntimeFacts
<1>. QED
  BY <1>4, <1>5, <1>6, <1>8, SessionStep

\* What a request is when it begins.
LEMMA RunningFacts ==
    ASSUME NEW kind \in TaskKinds, NEW pc \in TaskPcs, NEW s \in 0..MaxSessions, NEW g \in 0..MaxGen
    PROVE  LET x == Running(kind, pc, s, g) IN
           /\ x \in TaskRecord /\ x.kind = kind /\ x.pc = pc /\ x.s = s /\ x.gen = g
           /\ x.host = 0 /\ x.rest = {}
<1>1. 0 \in 0..MaxHosts
      BY BrokerAssumption
<1>. QED
  BY <1>1 DEF Running, TaskRecord

\* What holds of a session.
LEMMA SessionFacts ==
    ASSUME BrokerInv, NEW s \in Sessions
    PROVE  /\ records[s] \in TakeoverRecord /\ WellFormed(records[s])
           /\ Later(records[s], records[s]) /\ Quiet(records[s], records[s])
           /\ page[s] \in Page /\ delivered[s] \in Nat
           /\ PageFine(page[s], records[s], delivered[s]) /\ RuntimeFine(rt[s], records[s])
           /\ s > issued => records[s] = Gone /\ page[s] = NoPage
           /\ Live(records[s]) \/ records[s].epoch # 0 \/ page[s] # NoPage => s \in 1..issued
           /\ records[s].gen \in 0..MaxGen /\ s \in 0..MaxSessions /\ issued \in Nat
<1>1. /\ records[s] \in TakeoverRecord /\ WellFormed(records[s])
      /\ page[s] \in Page /\ delivered[s] \in Nat
      /\ PageFine(page[s], records[s], delivered[s]) /\ RuntimeFine(rt[s], records[s])
      /\ s > issued => records[s] = Gone /\ page[s] = NoPage
      /\ s \in 1..MaxSessions /\ issued \in Nat /\ MaxSessions \in Nat
      BY SessionsAssumption
         DEF BrokerInv, BrokerTypeOK, RecordInv, PageInv, RuntimeInv, Sessions
<1>2. ~(s > issued) => s \in 1..issued
      BY <1>1
<1>. QED
  BY <1>1, <1>2, LaterRefl, GoneRecord DEF TakeoverRecord

\* The record of one session becomes r2, and its maps p2.
LEMMA OneSessionMoves ==
    ASSUME BrokerInv, NEW s \in Sessions, s <= issued, NEW r2, NEW p2 \in Page,
           records' = [records EXCEPT ![s] = r2], Later(records[s], r2),
           Quiet(records[s], r2) \/ (UsesOf(s) = {} /\ r2.inFlight = records[s].inFlight),
           page' = [page EXCEPT ![s] = p2], PageFine(p2, r2, delivered[s]),
           p2.route => page[s].route \/ ~Over(records[s]), p2.done => page[s].done,
           calls' \in Nat, UNCHANGED <<issued, deployment, delivered>>
    PROVE  SessionsFine
<1>1. /\ records \in [Sessions -> TakeoverRecord] /\ page \in [Sessions -> Page]
      /\ r2 \in TakeoverRecord /\ issued \in Nat /\ s \in Nat
      BY SessionFacts, SessionsAssumption DEF BrokerInv, BrokerTypeOK, Later, Sessions
<1>2. /\ \A o \in Sessions : records'[o] = IF o = s THEN r2 ELSE records[o]
      /\ \A o \in Sessions : page'[o] = IF o = s THEN p2 ELSE page[o]
      BY <1>1
<1>3. \A o \in Sessions : Later(records[o], records'[o]) /\ KeepsClient(o)
      BY <1>2, SessionFacts DEF KeepsClient
<1>4. \A o \in Sessions : o > issued => page'[o] = NoPage
  <2>1. \A o \in Sessions : o > issued => o # s
        BY <1>1
  <2>. QED
    BY <1>2, <2>1, SessionFacts
<1>5. \A o \in Sessions : PageFine(page'[o], records'[o], delivered[o])
      BY <1>2, SessionFacts
<1>6. RoutesEnd
      BY <1>2 DEF RoutesEnd
<1>7. records' \in [Sessions -> TakeoverRecord] /\ page' \in [Sessions -> Page]
      BY <1>1
<1>. QED
  BY <1>3, <1>4, <1>5, <1>6, <1>7 DEF SessionsFine

\* Its maps stay.
LEMMA OneRecordMoves ==
    ASSUME BrokerInv, NEW s \in Sessions, s <= issued, NEW r2,
           records' = [records EXCEPT ![s] = r2], Later(records[s], r2),
           Quiet(records[s], r2) \/ (UsesOf(s) = {} /\ r2.inFlight = records[s].inFlight),
           PageFine(page[s], r2, delivered[s]),
           calls' \in Nat, UNCHANGED <<issued, deployment, delivered, page>>
    PROVE  SessionsFine
<1>1. page' = [page EXCEPT ![s] = page[s]] /\ page[s] \in Page
      BY DEF BrokerInv, BrokerTypeOK
<1>. QED
  BY <1>1, OneSessionMoves

\* The runtimes go with the records as long as no client is replaced.
LEMMA RuntimesStay ==
    ASSUME BrokerInv, NEW s \in Sessions, NEW r2, records' = [records EXCEPT ![s] = r2],
           RuntimeFine(rt[s], r2)
    PROVE  \A o \in Sessions : RuntimeFine(rt[o], records'[o])
<1>1. \A o \in Sessions : records'[o] = IF o = s THEN r2 ELSE records[o]
      BY DEF BrokerInv, BrokerTypeOK
<1>. QED
  BY <1>1, SessionFacts

\* The catch of a request: generation g of the session, whose record is now r, is released
\* and its runtime revoked.
LEMMA FailedInv ==
    ASSUME BrokerInv, NEW t \in Tasks, task[t].kind # "use", NEW s \in Sessions, s \in 1..issued,
           NEW kind \in {"prepare-failed", "connect-failed"}, NEW r, NEW g \in 0..MaxGen,
           Failed(t, kind, s, r, g), Later(records[s], r),
           Quiet(records[s], r) \/ (UsesOf(s) = {} /\ r.inFlight = records[s].inFlight),
           PageFine(page[s], r, delivered[s]), RuntimeFine(rt[s], r),
           calls' \in Nat, UNCHANGED <<issued, deployment, delivered, page>>
    PROVE  BrokerInv'
<1> DEFINE r2 == Released(r, g)
           x == Running(kind, "begin", s, g)
<1>1. r \in TakeoverRecord /\ WellFormed(r)
      BY DEF Later
<1>2. /\ Later(r, r2) /\ Quiet(r, r2) /\ r2.inFlight = r.inFlight
      BY <1>1, LaterEnds DEF Released, TakeoverRecord
<1>3. /\ records' = [records EXCEPT ![s] = r2] /\ RevokeStep(t, x)
      BY DEF Failed
<1>4. /\ x \in TaskRecord /\ x.kind = kind /\ x.s = s /\ x.rest = {}
      BY SessionFacts, RunningFacts DEF TaskKinds, TaskPcs
<1> HIDE DEF r2, x
<1>5. /\ Later(records[s], r2)
      /\ Quiet(records[s], r2) \/ (UsesOf(s) = {} /\ r2.inFlight = records[s].inFlight)
      /\ PageFine(page[s], r2, delivered[s]) /\ RuntimeFine(rt[s], r2) /\ s <= issued
      BY <1>2, LaterTrans, PageStays, RuntimeStays, SessionFacts
<1>6. SessionsFine /\ \A o \in Sessions : RuntimeFine(rt[o], records'[o])
      BY <1>3, <1>5, OneRecordMoves, RuntimesStay
<1>7. RevokeFine(x, records', issued)
      BY <1>4 DEF RevokeFine
<1>. QED
  BY <1>3, <1>4, <1>6, <1>7, RevokeStepInv

\* The catch of the prepare and connect requests: it releases the generation that failed.
LEMMA RequestFailsInv ==
    ASSUME BrokerInv, NEW t \in Tasks, PrepareFails(t) \/ FailedRequest(t)
    PROVE  BrokerInv'
<1> DEFINE s == task[t].s
<1>1. /\ task[t].kind \in {"prepare", "connect-failed"} /\ calls' \in Nat
      /\ UNCHANGED <<issued, deployment, delivered, page>>
      /\ \E kind \in {"prepare-failed", "connect-failed"} :
            Failed(t, kind, s, records[s], task[t].gen)
      BY DEF PrepareFails, FailedRequest, BrokerInv, BrokerTypeOK
<1>2. s \in 1..issued /\ s \in Sessions /\ task[t].gen \in 0..MaxGen
      BY <1>1, TaskFacts DEF TaskRecord
<1>. QED
  BY <1>1, <1>2, SessionFacts, FailedInv

\* The claim of a client: c is the record it gets.
Claims(s, c) ==
    \/ MayClaim(records[s]) /\ c = Claimed(records[s])
    \/ MayReconnect(records[s]) /\ records[s].gen < MaxGen /\ c = Reconnected(records[s])

\* claimClient() and reconnectClient(): a claim takes a live session over only when its client
\* has nothing in use, or was released.
LEMMA ClaimFacts ==
    ASSUME BrokerInv, NEW s \in Sessions, NEW c, Claims(s, c)
    PROVE  /\ Live(records[s]) /\ s \in 1..issued /\ s <= issued
           /\ Later(records[s], c) /\ c \in TakeoverRecord /\ c.gen \in 1..MaxGen
           /\ Quiet(records[s], c) \/ (UsesOf(s) = {} /\ c.inFlight = records[s].inFlight)
           /\ ~page[s].verifying => PageFine(page[s], c, delivered[s])
<1>1. /\ Live(records[s]) /\ s \in 1..issued /\ s <= issued
      /\ records[s] \in TakeoverRecord /\ WellFormed(records[s]) /\ records[s].gen \in 0..MaxGen
      /\ MaxGen \in Nat /\ 0 < MaxGen /\ Quiet(records[s], records[s])
      /\ PageFine(page[s], records[s], delivered[s])
      /\ delivered[s] \in Nat
      BY SessionFacts, SessionsAssumption, BrokerAssumption DEF Claims, MayClaim, MayReconnect
<1>2. /\ Later(records[s], c) /\ c.gen \in 1..MaxGen /\ c.inFlight = records[s].inFlight
      /\ \/ c = records[s]
         \/ records[s].gen = 0
         \/ records[s].inFlight = 0
  <2>1. CASE c = Claimed(records[s])
    <3>1. c.gen \in 0..MaxGen
          BY <1>1, <2>1, LaterClient DEF Later, TakeoverRecord
    <3>. QED
      BY <1>1, <2>1, <3>1, LaterClient
  <2>2. CASE records[s].gen < MaxGen /\ MayReconnect(records[s]) /\ c = Reconnected(records[s])
        BY <1>1, <2>2, LaterClient DEF MayReconnect
  <2>. QED
    BY <2>1, <2>2 DEF Claims
<1>3. c = records[s] \/ UsesOf(s) = {}
  <2>1. ASSUME records[s].inFlight = 0 PROVE UsesOf(s) = {}
    <3>1. IsFiniteSet(UsesOf(s)) /\ Cardinality(UsesOf(s)) = 0
          BY <1>1, <2>1 DEF BrokerInv, UseInv
    <3>. QED
      BY <3>1, FS_EmptySet
  <2>2. ASSUME records[s].gen = 0 PROVE UsesOf(s) = {}
    <3>1. \A t \in UsesOf(s) : task[t].gen = 0
          BY <1>1, <2>2 DEF BrokerInv, UseInv
    <3>2. \A t \in UsesOf(s) : task[t].gen > 0
          BY DEF BrokerInv, TaskInv, TaskFine, UsesOf
    <3>. QED
      BY <3>1, <3>2
  <2>. QED
    BY <1>2, <2>1, <2>2
<1>4. ~page[s].verifying => PageFine(page[s], c, delivered[s])
      BY <1>1, <1>2 DEF PageFine, Later, Over
<1>. QED
  BY <1>1, <1>2, <1>3, <1>4 DEF Later

\* The prepare request (handle() of broker.ts): the claim, and prepare() of the runtime up to its first await.
LEMMA PrepareInv ==
    ASSUME BrokerInv, NEW t \in Tasks, NEW s \in Sessions, Prepare(t, s)
    PROVE  BrokerInv'
<1>1. /\ task[t] = Idle /\ calls' \in Nat /\ WebRtc /\ ~page[s].verifying
      /\ UNCHANGED <<issued, deployment, page, delivered>>
      BY DEF Prepare, Arrives, Served, Shows, WebRtc, BrokerInv, BrokerTypeOK
<1>2. PICK c : Claims(s, c) /\ PrepareRuntime(t, s, c)
      BY DEF Prepare, Claims
<1>3. /\ s \in 1..issued /\ s <= issued /\ task[t].kind # "use"
      /\ Later(records[s], c) /\ c \in TakeoverRecord /\ c.gen \in 1..MaxGen
      /\ Quiet(records[s], c) \/ (UsesOf(s) = {} /\ c.inFlight = records[s].inFlight)
      /\ PageFine(page[s], c, delivered[s])
      BY <1>1, <1>2, ClaimFacts, IdleTask
<1>4. /\ c.gen \in 0..MaxGen /\ c.gen > 0 /\ rt[s] \in Runtime /\ RuntimeFine(rt[s], records[s])
      /\ issued \in Nat /\ s \in 0..MaxSessions
      BY <1>3, RuntimeFacts, SessionFacts, SessionsAssumption
<1>5. CASE Refuses(s, c.gen)
  <2>1. RuntimeFine(rt[s], c)
        BY <1>4, <1>5 DEF Refuses, RuntimeFine
  <2>2. Failed(t, "prepare-failed", s, c, c.gen)
        BY <1>2, <1>5 DEF PrepareRuntime
  <2>. QED
    BY <1>1, <1>3, <1>4, <2>1, <2>2, FailedInv
<1>6. CASE ~Refuses(s, c.gen)
  <2> DEFINE y == IF rt[s].suspended THEN rt[s] ELSE Ended(s)
             h == IF rt[s].suspended THEN 0 ELSE rt[s].host
             r == Running("prepare", "begin", s, c.gen)
             x == AwaitingHost(r, h)
  <2>1. /\ records' = [records EXCEPT ![s] = c] /\ rt' = [rt EXCEPT ![s] = y]
        /\ hosts' = (IF rt[s].suspended THEN hosts ELSE Stopping(s))
        /\ task' = [task EXCEPT ![t] = x]
        BY <1>2, <1>6 DEF PrepareRuntime
  <2>2. h \in 0..MaxHosts
        BY <1>4, BrokerAssumption DEF Runtime
  <2>3. r \in TaskRecord /\ r.kind = "prepare" /\ r.s = s /\ r.rest = {}
        BY <1>4, RunningFacts DEF TaskKinds, TaskPcs
  <2>4. /\ y \in Runtime /\ RuntimeFine(y, c)
        /\ rt[s] = NoRuntime => y = NoRuntime
    <3>1. CASE rt[s].suspended
          BY <1>4, <3>1 DEF RuntimeFine
    <3>2. CASE ~rt[s].suspended
      <4>1. /\ Ended(s) \in Runtime /\ Ended(s).gen = 0 /\ RuntimeFine(Ended(s), records[s])
            /\ rt[s] = NoRuntime => Ended(s) = NoRuntime
            BY <1>4, EndedFacts
      <4>. QED
        BY <3>2, <4>1 DEF RuntimeFine
    <3>. QED
      BY <3>1, <3>2
  <2>5. hosts' \in [Hosts -> {"none", "up", "ending", "gone"}]
        BY <2>1, RuntimeFacts, StoppingTyped DEF BrokerInv
  <2>6. SessionsFine
        BY <1>1, <1>3, <2>1, OneRecordMoves
  <2> HIDE DEF y, h, r
  <2>7. /\ x \in TaskRecord
        /\ x.kind = "prepare" /\ x.s = s /\ x.rest = {} /\ x.pc \in {"stopping", "revoked"}
        BY <2>2, <2>3, AwaitingEffect DEF LastIsRevoke
  <2> HIDE DEF x
  <2>8. TaskFine(x, records', page', issued) /\ x.kind \notin {"use", "complete"}
        BY <1>1, <1>3, <1>4, <2>7 DEF TaskFine
  <2>9. \A o \in Sessions : /\ rt'[o] = IF o = s THEN y ELSE rt[o]
                            /\ records'[o] = IF o = s THEN c ELSE records[o]
        BY <2>1, RuntimeFacts DEF BrokerInv, BrokerTypeOK
  <2>10. /\ rt' \in [Sessions -> Runtime] /\ \A o \in Sessions : RuntimeFine(rt'[o], records'[o])
         /\ \A o \in Sessions : o > issued => rt'[o] = NoRuntime
         BY <2>1, <2>4, <2>9, RuntimeFacts
  <2>. QED
    BY <1>3, <2>1, <2>5, <2>6, <2>7, <2>8, <2>10, SessionStep
<1>. QED
  BY <1>5, <1>6

\* Records, maps and tasks as they were.
LEMMA NothingMoves ==
    ASSUME BrokerInv, UNCHANGED <<records, issued, deployment, page, delivered>>, calls' \in Nat
    PROVE  SessionsFine
  BY SessionFacts DEF SessionsFine, RoutesEnd, KeepsClient, BrokerInv, BrokerTypeOK

\* The connect request (handle() of broker.ts): the client's own generation, and connect() up to its first await.
LEMMA ConnectInv ==
    ASSUME BrokerInv, NEW t \in Tasks, NEW s \in Sessions, Connect(t, s)
    PROVE  BrokerInv'
<1> DEFINE g == records[s].gen
<1>1. /\ task[t] = Idle /\ calls' \in Nat /\ WebRtc /\ Live(records[s]) /\ g > 0 /\ g \in 0..MaxGen
      /\ UNCHANGED <<issued, deployment, page, delivered>>
      BY SessionFacts
         DEF Connect, Arrives, Served, WebRtc, MayUse, Names, BrokerInv, BrokerTypeOK
<1>2. /\ s \in 1..issued /\ s <= issued /\ issued \in Nat /\ s \in 0..MaxSessions
      /\ Later(records[s], records[s]) /\ Quiet(records[s], records[s])
      /\ PageFine(page[s], records[s], delivered[s])
      /\ rt[s] \in Runtime /\ RuntimeFine(rt[s], records[s]) /\ task[t].kind # "use"
      BY <1>1, SessionFacts, RuntimeFacts, IdleTask
<1>3. ASSUME Failed(t, "connect-failed", s, records[s], g) PROVE BrokerInv'
      BY <1>1, <1>2, <1>3, FailedInv
<1>4. ASSUME NEW h \in Hosts, NEW pc \in {"resuming", "starting"}, NEW y \in Runtime,
             y.gen = g, y.host = h, ~y.suspended, y.prepared = 0,
             hosts' \in [Hosts -> {"none", "up", "ending", "gone"}], records' = records,
             rt' = [rt EXCEPT ![s] = y],
             task' = [task EXCEPT ![t] = [Running("connect", pc, s, g) EXCEPT !.host = h]]
      PROVE  BrokerInv'
  <2> DEFINE x == [Running("connect", pc, s, g) EXCEPT !.host = h]
  <2>1. h \in 0..MaxHosts /\ h > 0
        BY BrokerAssumption DEF Hosts
  <2>3. /\ x \in TaskRecord /\ x.kind = "connect" /\ x.pc = pc /\ x.s = s /\ x.rest = {}
        /\ x.host = h
    <3>1. /\ Running("connect", pc, s, g) \in TaskRecord
          /\ Running("connect", pc, s, g).kind = "connect" /\ Running("connect", pc, s, g).pc = pc
          /\ Running("connect", pc, s, g).s = s /\ Running("connect", pc, s, g).rest = {}
      <4>1. "connect" \in TaskKinds /\ pc \in TaskPcs
            BY DEF TaskKinds, TaskPcs
      <4>. QED
        BY <1>1, <1>2, <4>1, RunningFacts
    <3>. QED
      BY <2>1, <3>1 DEF TaskRecord
  <2>4. rt' = [rt EXCEPT ![s] = y] /\ task' = [task EXCEPT ![t] = x]
        BY <1>4
  <2> HIDE DEF x
  <2>5. RuntimeFine(y, records[s])
        BY <1>1, <1>4, <2>1 DEF RuntimeFine
  <2>6. TaskFine(x, records', page', issued) /\ x.kind \notin {"use", "complete"}
        BY <1>1, <1>2, <2>3 DEF TaskFine
  <2>7. SessionsFine
        BY <1>1, <1>4, NothingMoves
  <2>8. /\ rt' \in [Sessions -> Runtime] /\ \A o \in Sessions : RuntimeFine(rt'[o], records'[o])
        /\ \A o \in Sessions : o > issued => rt'[o] = NoRuntime
        BY <1>2, <1>4, <2>4, <2>5, RuntimeOfOne
  <2>. QED
    BY <1>2, <1>4, <2>3, <2>4, <2>6, <2>7, <2>8, SessionStep
<1>5. CASE Refuses(s, g) /\ Failed(t, "connect-failed", s, records[s], g)
      BY <1>3, <1>5
<1>7. ASSUME NEW h \in Hosts, NEW c \in BOOLEAN
      PROVE  LET y == [NoRuntime EXCEPT !.gen = g, !.host = h, !.connected = c]
                 z == [NoRuntime EXCEPT !.gen = g, !.host = h]
             IN /\ y \in Runtime /\ y.gen = g /\ y.host = h /\ ~y.suspended /\ y.prepared = 0
                /\ z \in Runtime /\ z.gen = g /\ z.host = h /\ ~z.suspended /\ z.prepared = 0
  <2>1. h \in 0..MaxHosts
        BY BrokerAssumption DEF Hosts
  <2>. QED
    BY <1>1, <2>1, RuntimeShrinks DEF NoRuntime, Runtime
<1>6. CASE TakePrepared(t, s, g)
  <2>1. CASE Failed(t, "connect-failed", s, records[s], g)
        BY <1>3, <2>1
  <2>2. CASE /\ rt[s].suspended
             /\ rt' = [rt EXCEPT ![s] = [NoRuntime EXCEPT !.gen = g, !.host = rt[s].host,
                                                         !.connected = rt[s].connected]]
             /\ task' = [task EXCEPT ![t] = [Running("connect", "resuming", s, g)
                            EXCEPT !.host = rt[s].host]]
             /\ UNCHANGED <<records, hosts>>
    <3>1. rt[s].host \in Hosts
      <4>1. rt[s].gen # 0 /\ rt[s].gen \in Nat
            BY <1>2, <2>2, SessionsAssumption DEF RuntimeFine, Runtime
      <4>. QED
        BY <1>2, <4>1 DEF RuntimeFine
    <3>2. rt[s].connected \in BOOLEAN
          BY <1>2 DEF Runtime
    <3> DEFINE y == [NoRuntime EXCEPT !.gen = g, !.host = rt[s].host,
                                      !.connected = rt[s].connected]
    <3>3. /\ y \in Runtime /\ y.gen = g /\ y.host = rt[s].host /\ ~y.suspended
          /\ y.prepared = 0 /\ rt' = [rt EXCEPT ![s] = y]
          BY <1>7, <2>2, <3>1, <3>2
    <3> HIDE DEF y
    <3>. QED
      BY <1>4, <2>2, <3>1, <3>3, RuntimeFacts
  <2>3. ASSUME NEW h \in Hosts,
               hosts' = [hosts EXCEPT ![h] = "up"],
               rt' = [rt EXCEPT ![s] = [NoRuntime EXCEPT !.gen = g, !.host = h]],
               task' = [task EXCEPT ![t] = [Running("connect", "starting", s, g)
                                EXCEPT !.host = h]],
               records' = records
        PROVE  BrokerInv'
    <3>1. hosts' \in [Hosts -> {"none", "up", "ending", "gone"}]
          BY <2>3, RuntimeFacts
    <3> DEFINE y == [NoRuntime EXCEPT !.gen = g, !.host = h]
    <3>2. /\ y \in Runtime /\ y.gen = g /\ y.host = h /\ ~y.suspended
          /\ y.prepared = 0 /\ rt' = [rt EXCEPT ![s] = y]
          BY <1>7, <2>3
    <3> HIDE DEF y
    <3>. QED
      BY <1>4, <2>3, <3>1, <3>2
  <2>. QED
    BY <1>6, <2>1, <2>2, <2>3 DEF TakePrepared
<1>. QED
  BY <1>5, <1>6 DEF Connect

\* The suspend request (handle() of broker.ts): the client is released before its runtime is suspended.
LEMMA SuspendInv ==
    ASSUME BrokerInv, NEW t \in Tasks, NEW s \in Sessions, Suspend(t, s)
    PROVE  BrokerInv'
<1> DEFINE g == records[s].gen
           r2 == Released(records[s], g)
<1>1. /\ task[t] = Idle /\ task[t].kind # "use" /\ calls' \in Nat /\ WebRtc /\ Live(records[s])
      /\ g \in 0..MaxGen /\ UNCHANGED <<issued, deployment, page, delivered>>
      /\ records' = [records EXCEPT ![s] = r2]
      BY SessionFacts, IdleTask
         DEF Suspend, Arrives, Served, WebRtc, MayUse, Names, BrokerInv, BrokerTypeOK
<1>2. /\ s \in 1..issued /\ s <= issued /\ issued \in Nat /\ s \in 0..MaxSessions
      /\ records[s] \in TakeoverRecord /\ WellFormed(records[s]) /\ delivered[s] \in Nat
      /\ PageFine(page[s], records[s], delivered[s]) /\ 0 \in 0..MaxGen
      /\ rt[s] \in Runtime /\ RuntimeFine(rt[s], records[s])
      BY <1>1, SessionFacts, RuntimeFacts, SessionsAssumption
<1>3. Later(records[s], r2) /\ Quiet(records[s], r2)
      BY <1>2, LaterEnds
<1> HIDE DEF r2
<1>4. PageFine(page[s], r2, delivered[s]) /\ \A y : RuntimeFine(y, records[s]) => RuntimeFine(y, r2)
      BY <1>2, <1>3, PageStays, RuntimeStays
<1>5. SessionsFine
      BY <1>1, <1>2, <1>3, <1>4, OneRecordMoves
<1>6. \A pc \in {"begin", "dropping"} :
          LET x == Running("suspend", pc, s, g) IN
          /\ x \in TaskRecord /\ x.kind = "suspend" /\ x.pc = pc /\ x.s = s /\ x.rest = {}
          /\ RevokeFine(x, records', issued) /\ (pc = "dropping" => TaskFine(x, records', page', issued))
  <2>1. SUFFICES ASSUME NEW pc \in {"begin", "dropping"}
                 PROVE  LET x == Running("suspend", pc, s, g) IN
                        /\ x \in TaskRecord /\ x.kind = "suspend" /\ x.pc = pc /\ x.s = s /\ x.rest = {}
                        /\ RevokeFine(x, records', issued)
                        /\ (pc = "dropping" => TaskFine(x, records', page', issued))
        OBVIOUS
  <2> DEFINE x == Running("suspend", pc, s, g)
  <2>2. x \in TaskRecord /\ x.kind = "suspend" /\ x.pc = pc /\ x.s = s /\ x.rest = {}
    <3>1. "suspend" \in TaskKinds /\ pc \in TaskPcs
          BY DEF TaskKinds, TaskPcs
    <3>. QED
      BY <1>1, <1>2, <3>1, RunningFacts
  <2> HIDE DEF x
  <2>3. RevokeFine(x, records', issued)
        BY <1>1, <1>2, <2>2 DEF RevokeFine
  <2>4. pc = "dropping" => TaskFine(x, records', page', issued)
        BY <1>1, <1>2, <2>2 DEF TaskFine
  <2>. QED
    BY <2>2, <2>3, <2>4 DEF x
<1>7. CASE RevokeStep(t, Running("suspend", "begin", s, g))
  <2>1. \A o \in Sessions : RuntimeFine(rt[o], records'[o])
        BY <1>1, <1>2, <1>4, RuntimesStay
  <2>. QED
    BY <1>1, <1>5, <1>6, <1>7, <2>1, RevokeStepInv
<1>8. ASSUME NEW y \in Runtime, RuntimeFine(y, records[s]), rt' = [rt EXCEPT ![s] = y],
             UNCHANGED hosts,
             task' = [task EXCEPT ![t] = Running("suspend", "dropping", s, g)] \/ task' = task
      PROVE  BrokerInv'
  <2>1. \A o \in Sessions : /\ rt'[o] = IF o = s THEN y ELSE rt[o]
                            /\ records'[o] = IF o = s THEN r2 ELSE records[o]
        BY <1>1, <1>8, RuntimeFacts DEF BrokerInv, BrokerTypeOK
  <2>2. /\ rt' \in [Sessions -> Runtime] /\ \A o \in Sessions : RuntimeFine(rt'[o], records'[o])
        /\ \A o \in Sessions : o > issued => rt'[o] = NoRuntime
        /\ hosts' \in [Hosts -> {"none", "up", "ending", "gone"}]
    <3>1. \A o \in Sessions : o > issued => o # s
          BY <1>2
    <3>. QED
      BY <1>4, <1>8, <2>1, <3>1, RuntimeFacts
  <2>3. CASE task' = task
        BY <1>5, <2>2, <2>3, SessionOnlyStep
  <2>4. CASE task' = [task EXCEPT ![t] = Running("suspend", "dropping", s, g)]
        BY <1>1, <1>5, <1>6, <2>2, <2>4, SessionStep
  <2>. QED
    BY <1>8, <2>3, <2>4
<1>9. CASE /\ rt' = [rt EXCEPT ![s].prepared = 0]
           /\ task' = [task EXCEPT ![t] = Running("suspend", "dropping", s, g)]
           /\ UNCHANGED hosts
  <2>1. /\ [rt[s] EXCEPT !.prepared = 0] \in Runtime
        /\ RuntimeFine([rt[s] EXCEPT !.prepared = 0], records[s])
        /\ rt' = [rt EXCEPT ![s] = [rt[s] EXCEPT !.prepared = 0]]
        BY <1>2, <1>9, RuntimeShrinks, RuntimeFacts
  <2>. QED
    BY <1>8, <1>9, <2>1
<1>10. CASE rt' = [rt EXCEPT ![s] = Suspended(s)] /\ UNCHANGED <<hosts, task>>
  <2>1. Suspended(s) \in Runtime /\ RuntimeFine(Suspended(s), records[s])
        BY <1>1, <1>2, SuspendedFacts
  <2>. QED
    BY <1>8, <1>10, <2>1
<1>. QED
  BY <1>7, <1>9, <1>10 DEF Suspend

\* complete(): the record first, and a finalization in flight is shared.
LEMMA CompleteInv ==
    ASSUME BrokerInv, NEW t \in Tasks, NEW s \in Sessions, Complete(t, s)
    PROVE  BrokerInv'
<1> DEFINE r2 == Completed(records[s])
<1>1. /\ task[t] = Idle /\ task[t].kind # "use" /\ calls' \in Nat /\ WebRtc
      /\ UNCHANGED <<issued, deployment, page, delivered>>
      /\ records' = [records EXCEPT ![s] = r2] /\ records[s].epoch > 0
      BY IdleTask
         DEF Complete, Arrives, PageFetched, WebRtc, BrokerInv, BrokerTypeOK
<1>2. records[s].epoch # 0
      BY <1>1
<1>3. /\ s \in 1..issued /\ s <= issued /\ issued \in Nat /\ s \in 0..MaxSessions
      /\ records[s] \in TakeoverRecord /\ WellFormed(records[s]) /\ delivered[s] \in Nat
      /\ PageFine(page[s], records[s], delivered[s]) /\ 0 \in 0..MaxGen
      /\ RuntimeFine(rt[s], records[s])
      BY <1>2, SessionFacts, SessionsAssumption
<1>4. Later(records[s], r2) /\ Quiet(records[s], r2) /\ r2.completed
      BY <1>2, <1>3, LaterMoves
<1> HIDE DEF r2
<1>5. PageFine(page[s], r2, delivered[s]) /\ RuntimeFine(rt[s], r2)
      BY <1>3, <1>4, PageStays, RuntimeStays
<1>6. SessionsFine /\ \A o \in Sessions : RuntimeFine(rt[o], records'[o])
      BY <1>1, <1>3, <1>4, <1>5, OneRecordMoves, RuntimesStay
<1>7. Over(records'[s])
      BY <1>1, <1>4 DEF Over, BrokerInv, BrokerTypeOK
<1>8. CASE Finalizing(s) /\ UNCHANGED <<rt, hosts, task>>
      BY <1>6, <1>8, RuntimeFacts, SessionOnlyStep
<1>9. CASE ~Finalizing(s) /\ RevokeStep(t, Running("complete", "begin", s, 0))
  <2> DEFINE r == Running("complete", "begin", s, 0)
  <2>1. r \in TaskRecord /\ r.kind = "complete" /\ r.s = s /\ r.rest = {}
        BY <1>3, RunningFacts DEF TaskKinds, TaskPcs
  <2> HIDE DEF r
  <2>2. RevokeFine(r, records', issued)
        BY <1>1, <1>3, <1>7, <2>1 DEF RevokeFine
  <2>. QED
    BY <1>1, <1>6, <1>9, <2>1, <2>2, RevokeStepInv DEF r
<1>10. CASE /\ ~Finalizing(s) /\ UNCHANGED <<rt, hosts>>
            /\ task' = [task EXCEPT ![t] = Running("complete", "revoked", s, 0)]
  <2> DEFINE x == Running("complete", "revoked", s, 0)
  <2>1. /\ x \in TaskRecord /\ x.kind = "complete" /\ x.pc = "revoked" /\ x.s = s /\ x.rest = {}
        BY <1>3, RunningFacts DEF TaskKinds, TaskPcs
  <2> HIDE DEF x
  <2>2. TaskFine(x, records', page', issued)
        BY <1>1, <1>3, <1>7, <2>1 DEF TaskFine, RevokePcs
  <2>. QED
    BY <1>1, <1>6, <1>10, <2>1, <2>2, RuntimeFacts, SessionStep DEF x
<1>. QED
  BY <1>8, <1>9, <1>10 DEF Complete

\* done and cancel: the session is revoked and loses its route.
LEMMA DoneInv ==
    ASSUME BrokerInv, NEW t \in Tasks, NEW s \in Sessions, Done(t, s)
    PROVE  BrokerInv'
<1> DEFINE r2 == Revoked(records[s])
           p2 == [page[s] EXCEPT !.route = FALSE, !.policy = FALSE]
           r == Running("done", "begin", s, 0)
<1>1. /\ task[t].kind # "use" /\ calls' \in Nat /\ Live(records[s])
      /\ UNCHANGED <<issued, deployment, delivered>>
      /\ records' = [records EXCEPT ![s] = r2] /\ page' = [page EXCEPT ![s] = p2]
      /\ RevokeStep(t, r)
  <2>1. page' = [page EXCEPT ![s].route = FALSE, ![s].policy = FALSE]
        BY DEF Done
  <2>2. page' = [page EXCEPT ![s] = p2]
        BY <2>1 DEF BrokerInv, BrokerTypeOK
  <2>3. task[t].kind # "use" /\ Live(records[s])
        BY IdleTask DEF Done, MayUse
  <2>4. calls' \in Nat /\ UNCHANGED <<issued, deployment, delivered>>
        BY DEF Done, Arrives, BrokerInv, BrokerTypeOK
  <2>5. records' = [records EXCEPT ![s] = r2] /\ RevokeStep(t, r)
        BY DEF Done
  <2>. QED
    BY <2>2, <2>3, <2>4, <2>5
<1>2. /\ s \in 1..issued /\ s <= issued /\ s \in 0..MaxSessions /\ page[s] \in Page
      /\ records[s] \in TakeoverRecord /\ WellFormed(records[s]) /\ delivered[s] \in Nat
      /\ PageFine(page[s], records[s], delivered[s]) /\ 0 \in 0..MaxGen
      /\ RuntimeFine(rt[s], records[s])
      BY <1>1, SessionFacts, SessionsAssumption
<1>3. Later(records[s], r2) /\ Quiet(records[s], r2) /\ ~Live(r2)
      BY <1>2, LaterEnds
<1>4. /\ p2 \in Page /\ p2.route = FALSE /\ p2.done = page[s].done
      /\ p2.verifying = page[s].verifying /\ p2.verified = page[s].verified
      BY <1>2 DEF Page
<1>5. /\ r \in TaskRecord /\ r.kind = "done" /\ r.s = s /\ r.rest = {}
      BY <1>2, RunningFacts DEF TaskKinds, TaskPcs
<1> HIDE DEF r, r2, p2
<1>6. PageFine(page[s], r2, delivered[s]) /\ RuntimeFine(rt[s], r2)
      BY <1>2, <1>3, PageStays, RuntimeStays
<1>7. PageFine(p2, r2, delivered[s])
      BY <1>3, <1>4, <1>6 DEF PageFine
<1>8. SessionsFine
      BY <1>1, <1>2, <1>3, <1>4, <1>7, OneSessionMoves
<1>9. RevokeFine(r, records', issued)
      BY <1>2, <1>5 DEF RevokeFine
<1>. QED
  BY <1>1, <1>5, <1>6, <1>8, <1>9, RuntimesStay, RevokeStepInv

\* finalizeCompletion() gives up the route of a completed session before the hook.
LEMMA FinalizeInv ==
    ASSUME BrokerInv, NEW t \in Tasks, FinalizeCompletion(t)
    PROVE  BrokerInv'
<1> DEFINE s == task[t].s
           p2 == [page[s] EXCEPT !.route = FALSE, !.policy = FALSE, !.ends = FALSE,
                                 !.verifying = FALSE]
<1>1. /\ task[t].kind = "complete" /\ UNCHANGED <<records, issued, deployment, rt, hosts, delivered>>
      /\ calls' \in Nat /\ page' = [page EXCEPT ![s] = p2]
      BY DEF FinalizeCompletion, sessionVars, BrokerInv, BrokerTypeOK
<1>2. /\ TaskFine(task[t], records, page, issued) /\ task[t] \in TaskRecord
      /\ s \in 1..issued /\ s \in Sessions /\ s <= issued /\ issued \in Nat
      BY <1>1, TaskFacts DEF TaskFine
<1>3. /\ records[s] \in TakeoverRecord /\ WellFormed(records[s]) /\ page[s] \in Page
      /\ Later(records[s], records[s]) /\ Quiet(records[s], records[s])
      /\ PageFine(page[s], records[s], delivered[s])
      BY <1>2, SessionFacts
<1>4. Over(records[s]) /\ ~Live(records[s])
      BY <1>1, <1>2, <1>3, GoneRecord DEF TaskFine, Over, WellFormed, Live
<1>5. p2 \in Page /\ p2.route = FALSE /\ p2.done = page[s].done /\ p2.verifying = FALSE
      BY <1>3 DEF Page
<1> HIDE DEF p2
<1>6. PageFine(p2, records[s], delivered[s])
      BY <1>3, <1>4, <1>5 DEF PageFine
<1>7. records' = [records EXCEPT ![s] = records[s]]
      BY <1>1 DEF BrokerInv, BrokerTypeOK
<1>8. SessionsFine
      BY <1>1, <1>2, <1>3, <1>5, <1>6, <1>7, OneSessionMoves
<1>9. /\ rt' \in [Sessions -> Runtime] /\ hosts' \in [Hosts -> {"none", "up", "ending", "gone"}]
      /\ \A o \in Sessions : RuntimeFine(rt'[o], records'[o])
      /\ \A o \in Sessions : o > issued => rt'[o] = NoRuntime
      BY <1>1, RuntimeFacts
<1>10. CASE Finish(t)
  <2>1. task' = [task EXCEPT ![t] = Idle] /\ TaskFine(Idle, records', page', issued)
        BY <1>2, <1>10, IdleFine DEF Finish
  <2>. QED
    BY <1>1, <1>8, <1>9, <2>1, IdleTask, SessionStep
<1>11. CASE ~page[s].done /\ At(t, "hook")
  <2> DEFINE x == [task[t] EXCEPT !.pc = "hook"]
  <2>1. task' = [task EXCEPT ![t] = x]
        BY <1>11 DEF At
  <2>2. /\ x \in TaskRecord /\ x.kind = "complete" /\ x.s = s /\ x.rest = task[t].rest
        /\ x.pc = "hook"
        BY <1>1, <1>2 DEF TaskRecord, TaskPcs
  <2> HIDE DEF x
  <2>3. page'[s] = p2
        BY <1>1, <1>2 DEF BrokerInv, BrokerTypeOK
  <2>4. TaskFine(x, records', page', issued)
        BY <1>1, <1>2, <1>4, <1>5, <1>11, <2>2, <2>3 DEF TaskFine
  <2>. QED
    BY <1>1, <1>8, <1>9, <2>1, <2>2, <2>4, SessionStep
<1>. QED
  BY <1>10, <1>11 DEF FinalizeCompletion

\* The completion hook: the one finalization of the session delivers it, or leaves it.
LEMMA HookInv ==
    ASSUME BrokerInv, NEW t \in Tasks, CompletedHook(t)
    PROVE  BrokerInv'
<1> DEFINE s == task[t].s
<1>1. /\ task[t].kind = "complete" /\ task[t].pc = "hook"
      /\ UNCHANGED <<records, issued, deployment, rt, hosts, calls>>
      /\ task' = [task EXCEPT ![t] = Idle]
      BY DEF CompletedHook, sessionVars, Finish
<1>2. /\ TaskFine(task[t], records, page, issued) /\ task[t] \in TaskRecord
      /\ s \in 1..issued /\ s \in Sessions /\ s <= issued /\ issued \in Nat
      BY <1>1, TaskFacts DEF TaskFine
<1>3. CASE UNCHANGED <<page, delivered>>
  <2>1. Unasked /\ Finish(t)
        BY <1>1, <1>3 DEF Unasked, Finish
  <2>. QED
    BY <1>1, <2>1, RuntimeFacts, FinishInv
<1>4. CASE /\ page' = [page EXCEPT ![s].done = TRUE]
           /\ delivered' = [delivered EXCEPT ![s] = @ + 1]
  <2> DEFINE p2 == [page[s] EXCEPT !.done = TRUE]
  <2>1. /\ page[s] \in Page /\ delivered[s] \in Nat
        /\ PageFine(page[s], records[s], delivered[s])
        BY <1>2, SessionFacts
  <2>2. /\ p2 \in Page /\ p2.done = TRUE /\ p2.route = page[s].route /\ p2.policy = page[s].policy
        /\ p2.verifying = page[s].verifying /\ p2.verified = page[s].verified
        BY <2>1 DEF Page
  <2>3. Over(records[s]) /\ ~page[s].route /\ ~page[s].done
        BY <1>1, <1>2 DEF TaskFine
  <2>4. PageFine(p2, records[s], delivered[s] + 1)
        BY <2>1, <2>2, <2>3 DEF PageFine
  <2> HIDE DEF p2
  <2>5. /\ page' = [page EXCEPT ![s] = p2]
        /\ \A o \in Sessions : page'[o] = IF o = s THEN p2 ELSE page[o]
        /\ \A o \in Sessions : delivered'[o] = IF o = s THEN delivered[s] + 1 ELSE delivered[o]
        BY <1>2, <1>4 DEF p2, BrokerInv, BrokerTypeOK
  <2>6. Typed
    <3>1. page' \in [Sessions -> Page]
          BY <2>2, <2>5 DEF BrokerInv, BrokerTypeOK
    <3>2. delivered' \in [Sessions -> Nat]
      <4>1. delivered[s] + 1 \in Nat /\ delivered \in [Sessions -> Nat]
            BY <2>1 DEF BrokerInv, BrokerTypeOK
      <4>. QED
        BY <1>4, <4>1
    <3>3. task' \in [Tasks -> TaskRecord]
          BY <1>1, IdleTask DEF BrokerInv, BrokerTypeOK
    <3>. QED
      BY <1>1, <3>1, <3>2, <3>3 DEF Typed, BrokerInv, BrokerTypeOK
  <2>7. /\ task'[t] = Idle /\ \A u \in Tasks : u # t => task'[u] = task[u]
        BY <1>1 DEF BrokerInv, BrokerTypeOK
  <2>8. SameUses
        BY <1>1, <2>7, IdleTask DEF SameUses
  <2>9. ASSUME NEW u \in Tasks, u # t PROVE TaskFine(task[u], records, page', issued)
    <3>1. TaskFine(task[u], records, page, issued)
          BY TaskFacts
    <3>2. task[u].pc = "hook" => task[u].kind = "complete" /\ task[u].s # s
          BY <1>1, <2>9, <3>1 DEF TaskFine, BrokerInv, TaskInv, OneFinalization
    <3>3. task[u].pc = "hook" => task[u].s \in Sessions
          BY <3>2, TaskFacts
    <3>4. task[u].pc = "hook" => ~page'[task[u].s].route /\ ~page'[task[u].s].done
          BY <2>5, <3>1, <3>2, <3>3 DEF TaskFine
    <3>. QED
      BY <3>1, <3>4 DEF TaskFine
  <2>10. TaskInv'
    <3>1. \A u \in Tasks : TaskFine(task'[u], records, page', issued)
          BY <1>2, <2>7, <2>9, IdleFine
    <3>2. OneFinalization'
          BY <2>7, IdleTask DEF BrokerInv, TaskInv, OneFinalization
    <3>. QED
      BY <1>1, <3>1, <3>2 DEF TaskInv, TaskFine, WebRtc
  <2>11. \A o \in Sessions : Later(records[o], records'[o]) /\ KeepsClient(o)
         BY <1>1, SessionFacts DEF KeepsClient
  <2>12. \A o \in Sessions : o > issued => page'[o] = NoPage /\ rt'[o] = NoRuntime /\ delivered'[o] = 0
    <3>1. \A o \in Sessions : o > issued => o # s
          BY <1>2
    <3>. QED
      BY <1>1, <2>5, <3>1 DEF BrokerInv, RecordInv
  <2>13. \A o \in Sessions : RuntimeFine(rt'[o], records'[o])
         BY <1>1, RuntimeFacts
  <2>14. \A o \in Sessions : PageFine(page'[o], records'[o], delivered'[o])
         BY <1>1, <2>4, <2>5, SessionFacts
  <2>. QED
    BY <2>6, <2>8, <2>10, <2>11, <2>12, <2>13, <2>14, QuietStep
<1>. QED
  BY <1>3, <1>4 DEF CompletedHook

\* revokeForIntervention() at once takes every session and map away.
LEMMA RevokeAllInv ==
    ASSUME BrokerInv, NEW t \in Tasks, RevokeForIntervention(t)
    PROVE  BrokerInv'
<1> DEFINE R == {s \in Sessions : rt[s].gen > 0 \/ rt[s].prepared > 0}
           x == [Running("revoke-all", "revoked", 0, 0) EXCEPT !.rest = R]
           p2(s) == [NoPage EXCEPT !.done = page[s].done /\ ~page[s].route]
<1>1. /\ task[t] = Idle /\ task[t].kind # "use"
      /\ UNCHANGED <<issued, deployment, rt, hosts, delivered>>
      /\ records' = [s \in Sessions |-> Revoked(records[s])]
      /\ page' = [s \in Sessions |-> p2(s)]
      /\ task' = [task EXCEPT ![t] = x]
      BY IdleTask DEF RevokeForIntervention
<1>2. calls' \in Nat
      BY DEF RevokeForIntervention, Arrives, BrokerInv, BrokerTypeOK
<1>3. R \subseteq 1..issued /\ R \in SUBSET Sessions /\ issued \in Nat /\ 0 \in 0..MaxSessions
      /\ 0 \in 0..MaxGen
  <2>1. \A s \in R : s <= issued /\ s \in Sessions
        BY RuntimeFacts
  <2>2. issued \in Nat /\ \A s \in Sessions : s \in Nat /\ s >= 1
        BY SessionsAssumption DEF BrokerInv, BrokerTypeOK, Sessions
  <2>. QED
    BY <2>1, <2>2, SessionsAssumption
<1> HIDE DEF R
<1>4. x \in TaskRecord /\ x.kind = "revoke-all" /\ x.pc = "revoked" /\ x.s = 0 /\ x.rest = R
  <2>1. /\ Running("revoke-all", "revoked", 0, 0) \in TaskRecord
        /\ Running("revoke-all", "revoked", 0, 0).kind = "revoke-all"
        /\ Running("revoke-all", "revoked", 0, 0).pc = "revoked"
        /\ Running("revoke-all", "revoked", 0, 0).s = 0
        BY <1>3, RunningFacts DEF TaskKinds, TaskPcs
  <2>. QED
    BY <1>3, <2>1 DEF TaskRecord
<1> HIDE DEF x
<1>5. ASSUME NEW s \in Sessions
      PROVE  /\ p2(s) \in Page /\ p2(s).route = FALSE /\ p2(s).verifying = FALSE
             /\ p2(s).verified = FALSE /\ p2(s).done = page[s].done
             /\ page[s] = NoPage => p2(s) = NoPage
  <2>1. page[s] \in Page /\ PageFine(page[s], records[s], delivered[s])
        BY SessionFacts
  <2>2. page[s].done \in BOOLEAN /\ (page[s].done /\ ~page[s].route) = page[s].done
        BY <2>1 DEF Page, PageFine
  <2>3. p2(s) = [NoPage EXCEPT !.done = page[s].done]
        BY <2>2
  <2>4. \A b \in BOOLEAN : LET p == [NoPage EXCEPT !.done = b] IN
            /\ p \in Page /\ p.route = FALSE /\ p.verifying = FALSE /\ p.verified = FALSE
            /\ p.done = b
        BY DEF NoPage, Page
  <2>5. page[s] = NoPage => [NoPage EXCEPT !.done = page[s].done] = NoPage
    <3>1. [page[s] EXCEPT !.done = page[s].done] = page[s]
          BY <2>1, Zenon DEF Page
    <3>. QED
      BY <3>1
  <2>. QED
    BY <2>2, <2>3, <2>4, <2>5
<1>6. ASSUME NEW s \in Sessions
      PROVE  /\ Later(records[s], records'[s]) /\ Quiet(records[s], records'[s])
             /\ ~Live(records'[s]) /\ records'[s] \in TakeoverRecord
             /\ page'[s] = p2(s)
             /\ PageFine(page'[s], records'[s], delivered[s])
  <2>1. records'[s] = Revoked(records[s]) /\ page'[s] = p2(s)
        BY <1>1
  <2>2. /\ Later(records[s], records'[s]) /\ Quiet(records[s], records'[s]) /\ ~Live(records'[s])
        BY <2>1, SessionFacts, LaterEnds
  <2>3. PageFine(page[s], records'[s], delivered[s])
        BY <2>2, SessionFacts, PageStays
  <2>4. PageFine(page'[s], records'[s], delivered[s])
        BY <1>5, <2>1, <2>2, <2>3 DEF PageFine
  <2>. QED
    BY <2>1, <2>2, <2>4 DEF Later
<1>7. SessionsFine
  <2>1. records' \in [Sessions -> TakeoverRecord] /\ page' \in [Sessions -> Page]
    <3>1. \A s \in Sessions : Revoked(records[s]) \in TakeoverRecord /\ p2(s) \in Page
          BY <1>1, <1>5, <1>6
    <3>. QED
      BY <1>1, <3>1
  <2>2. RoutesEnd
        BY <1>5, <1>6 DEF RoutesEnd
  <2>3. \A s \in Sessions : s > issued => page'[s] = NoPage
        BY <1>5, <1>6, SessionFacts
  <2>. QED
    BY <1>1, <1>2, <1>6, <2>1, <2>2, <2>3 DEF SessionsFine, KeepsClient
<1>8. TaskFine(x, records', page', issued)
      BY <1>3, <1>4 DEF TaskFine
<1>9. \A o \in Sessions : RuntimeFine(rt[o], records'[o])
      BY <1>6, SessionFacts, RuntimeStays
<1>. QED
  BY <1>1, <1>4, <1>7, <1>8, <1>9, RuntimeFacts, SessionStep

\* completeWebRtcAfterVerification(): the records of the intervention at once.
LEMMA VerifyInv ==
    ASSUME BrokerInv, NEW t \in Tasks, NEW e \in Epochs, CompleteAfterVerification(t, e)
    PROVE  BrokerInv'
<1> DEFINE R == Verifiable(e)
           x == [Running("verified", "revoked", 0, 0) EXCEPT !.rest = R]
<1>1. /\ task[t] = Idle /\ task[t].kind # "use" /\ calls' \in Nat
      /\ UNCHANGED <<issued, deployment, page, rt, hosts, delivered>>
      /\ records' = VerifiedRecords(e) /\ task' = [task EXCEPT ![t] = x]
      BY IdleTask DEF CompleteAfterVerification, Arrives, BrokerInv, BrokerTypeOK
<1>2. \A s \in Sessions :
          /\ Later(records[s], records'[s]) /\ Quiet(records[s], records'[s])
          /\ s \in R => ~Live(records'[s]) /\ s <= issued
  <2>1. records' = VerifiedRecords(e)
        BY <1>1
  <2>. QED
    BY <2>1, VerifiedLater DEF BrokerInv
<1>3. R \subseteq 1..issued /\ R \in SUBSET Sessions /\ issued \in Nat /\ 0 \in 0..MaxSessions
      /\ 0 \in 0..MaxGen
  <2>1. R \in SUBSET Sessions
        BY DEF Verifiable
  <2>2. issued \in Nat /\ \A s \in Sessions : s \in Nat /\ s >= 1
        BY SessionsAssumption DEF BrokerInv, BrokerTypeOK, Sessions
  <2>. QED
    BY <1>2, <2>1, <2>2, SessionsAssumption
<1> HIDE DEF R
<1>4. x \in TaskRecord /\ x.kind = "verified" /\ x.pc = "revoked" /\ x.s = 0 /\ x.rest = R
  <2>1. /\ Running("verified", "revoked", 0, 0) \in TaskRecord
        /\ Running("verified", "revoked", 0, 0).kind = "verified"
        /\ Running("verified", "revoked", 0, 0).pc = "revoked"
        /\ Running("verified", "revoked", 0, 0).s = 0
        BY <1>3, RunningFacts DEF TaskKinds, TaskPcs
  <2>. QED
    BY <1>3, <2>1 DEF TaskRecord
<1> HIDE DEF x
<1>5. \A s \in Sessions : /\ PageFine(page[s], records'[s], delivered[s])
                          /\ RuntimeFine(rt[s], records'[s])
      BY <1>2, SessionFacts, PageStays, RuntimeStays
<1>6. records' \in [Sessions -> TakeoverRecord]
  <2>1. \A s \in Sessions : records'[s] \in TakeoverRecord
        BY <1>2 DEF Later
  <2>. QED
    BY <1>1, <2>1 DEF VerifiedRecords
<1>7. SessionsFine
      BY <1>1, <1>2, <1>5, <1>6, SessionFacts
         DEF SessionsFine, KeepsClient, RoutesEnd, BrokerInv, BrokerTypeOK
<1>8. TaskFine(x, records', page', issued)
  <2>1. \A s \in x.rest : ~Live(records'[s])
        BY <1>2, <1>3, <1>4
  <2>. QED
    BY <1>3, <1>4, <2>1 DEF TaskFine
<1>. QED
  BY <1>1, <1>4, <1>5, <1>7, <1>8, RuntimeFacts, SessionStep

\* Both loops over the sessions of the intervention.
LEMMA NextSessionInv ==
    ASSUME BrokerInv, NEW t \in Tasks, NextSession(t)
    PROVE  BrokerInv'
<1>1. /\ task[t].kind \in {"verified", "revoke-all"}
      /\ UNCHANGED <<records, issued, deployment, delivered, calls>>
      BY DEF NextSession, sessionVars
<1>2. PICK s \in task[t].rest :
          LET r == [task[t] EXCEPT !.rest = @ \ {s}, !.s = s, !.host = 0] IN
          \/ /\ task[t].kind = "verified"
             /\ task' = [task EXCEPT ![t] = [r EXCEPT !.pc = "revoked"]]
             /\ UNCHANGED <<page, rt, hosts>>
          \/ /\ RevokeStep(t, r)
             /\ page' = IF task[t].kind = "revoke-all" THEN page
                        ELSE [page EXCEPT ![s].verifying = FALSE, ![s].verified = TRUE,
                                          ![s].policy = FALSE]
      BY DEF NextSession
<1> DEFINE r == [task[t] EXCEPT !.rest = @ \ {s}, !.s = s, !.host = 0]
<1>3. /\ task[t] \in TaskRecord /\ TaskFine(task[t], records, page, issued)
      /\ s \in 1..issued /\ s \in Sessions /\ s <= issued /\ issued \in Nat /\ s \in 0..MaxSessions
      /\ task[t].rest \subseteq 1..issued /\ task[t].rest \in SUBSET Sessions
      /\ 0 \in 0..MaxHosts
  <2>1. task[t].rest \subseteq 1..issued /\ task[t].rest \in SUBSET Sessions
        BY TaskFacts DEF TaskFine, TaskRecord
  <2>. QED
    BY <2>1, TaskFacts, SessionFacts, BrokerAssumption
<1>4. /\ r \in TaskRecord /\ r.kind = task[t].kind /\ r.s = s /\ r.rest = task[t].rest \ {s}
      /\ r.pc = task[t].pc
  <2>1. task[t].rest \ {s} \in SUBSET Sessions
        BY <1>3
  <2>. QED
    BY <1>3, <2>1 DEF TaskRecord
<1>5. /\ records[s] \in TakeoverRecord /\ WellFormed(records[s]) /\ page[s] \in Page
      /\ Later(records[s], records[s]) /\ Quiet(records[s], records[s])
      /\ PageFine(page[s], records[s], delivered[s])
      BY <1>3, SessionFacts
<1>6. task[t].kind = "verified" => \A o \in task[t].rest : ~Live(records[o])
      BY <1>3 DEF TaskFine
<1>7. CASE /\ task[t].kind = "verified"
           /\ task' = [task EXCEPT ![t] = [r EXCEPT !.pc = "revoked"]]
           /\ UNCHANGED <<page, rt, hosts>>
  <2> DEFINE x == [r EXCEPT !.pc = "revoked"]
  <2>1. /\ x \in TaskRecord /\ x.kind = "verified" /\ x.s = s /\ x.rest = task[t].rest \ {s}
        /\ x.pc = "revoked"
    <3> HIDE DEF r
    <3>. QED
      BY <1>4, <1>7 DEF TaskRecord, TaskPcs
  <2> HIDE DEF x
  <2>2. TaskFine(x, records, page, issued)
    <3>1. \A o \in x.rest : ~Live(records[o])
          BY <1>6, <1>7, <2>1
    <3>2. x.rest \subseteq 1..issued /\ x.s \in 0..issued
          BY <1>3, <2>1
    <3>. QED
      BY <2>1, <3>1, <3>2 DEF TaskFine
  <2>3. Unasked
        BY <1>1, <1>7 DEF Unasked
  <2>4. task' = [task EXCEPT ![t] = x]
        BY <1>7 DEF x
  <2>. QED
    BY <1>7, <2>1, <2>2, <2>3, <2>4, RuntimeFacts, TaskStep
<1>8. CASE /\ RevokeStep(t, r)
           /\ page' = IF task[t].kind = "revoke-all" THEN page
                      ELSE [page EXCEPT ![s].verifying = FALSE, ![s].verified = TRUE,
                                        ![s].policy = FALSE]
  <2> HIDE DEF r
  <2>0. calls' \in Nat /\ records' = [records EXCEPT ![s] = records[s]]
        BY <1>1 DEF BrokerInv, BrokerTypeOK
  <2>1. RevokeFine(r, records', issued) /\ task[t].kind # "use" /\ r.kind # "complete"
        BY <1>1, <1>3, <1>4, <1>6 DEF RevokeFine
  <2>2. SessionsFine
    <3>1. CASE task[t].kind = "revoke-all"
          BY <1>1, <1>8, <2>0, <3>1, NothingMoves
    <3>2. CASE task[t].kind = "verified"
      <4> DEFINE p2 == [page[s] EXCEPT !.verifying = FALSE, !.verified = TRUE, !.policy = FALSE]
      <4>1. page' = [page EXCEPT ![s].verifying = FALSE, ![s].verified = TRUE, ![s].policy = FALSE]
            BY <1>8, <3>2
      <4>2. page' = [page EXCEPT ![s] = p2]
            BY <4>1 DEF BrokerInv, BrokerTypeOK
      <4>3. p2 \in Page /\ p2.route = page[s].route /\ p2.done = page[s].done /\ p2.verifying = FALSE
            BY <1>5 DEF Page
      <4> HIDE DEF p2
      <4>4. ~Live(records[s])
            BY <1>6, <3>2
      <4>5. PageFine(p2, records[s], delivered[s])
            BY <1>5, <4>3, <4>4 DEF PageFine
      <4>. QED
        BY <1>1, <1>3, <1>5, <2>0, <4>2, <4>3, <4>5, OneSessionMoves
    <3>. QED
      BY <1>1, <3>1, <3>2
  <2>3. \A o \in Sessions : RuntimeFine(rt[o], records'[o])
        BY <1>1, RuntimeFacts
  <2>. QED
    BY <1>4, <1>8, <2>1, <2>2, <2>3, RevokeStepInv
<1>. QED
  BY <1>2, <1>7, <1>8

\* The record and the maps of one session move; its runtime and the requests stay.
LEMMA OneSessionStep ==
    ASSUME BrokerInv, SessionsFine, UNCHANGED <<task, rt, hosts>>, NEW s \in Sessions, NEW r2,
           records' = [records EXCEPT ![s] = r2], RuntimeFine(rt[s], r2)
    PROVE  BrokerInv'
<1>1. \A o \in Sessions : RuntimeFine(rt[o], records'[o])
      BY RuntimesStay
<1>. QED
  BY <1>1, RuntimeFacts, SessionOnlyStep

\* Bootstrap of a legacy page: a claim, and no runtime to end.
LEMMA BootstrapInv ==
    ASSUME BrokerInv, NEW s \in Sessions, Bootstrap(s)
    PROVE  BrokerInv'
<1>1. /\ ~WebRtc /\ calls' \in Nat /\ UNCHANGED <<issued, deployment, delivered, page>>
      /\ UNCHANGED <<task, rt, hosts>>
      BY DEF Bootstrap, Arrives, WebRtc, BrokerInv, BrokerTypeOK
<1>2. PICK c : Claims(s, c) /\ records' = [records EXCEPT ![s] = c]
      BY DEF Bootstrap, Claims
<1>3. ~page[s].verifying /\ RuntimeFine(rt[s], records[s])
      BY <1>1, SessionFacts DEF PageFine
<1>4. /\ s <= issued /\ Later(records[s], c)
      /\ Quiet(records[s], c) \/ (UsesOf(s) = {} /\ c.inFlight = records[s].inFlight)
      /\ PageFine(page[s], c, delivered[s])
      BY <1>2, <1>3, ClaimFacts
<1>5. RuntimeFine(rt[s], c)
      BY <1>1, <1>3 DEF RuntimeFine
<1>. QED
  BY <1>1, <1>2, <1>4, <1>5, OneRecordMoves, OneSessionStep

\* A use begins or ends: only the count of the session's record changes.
LEMMA UseStep ==
    ASSUME BrokerInv, NEW s \in Sessions, s <= issued, NEW r2, Later(records[s], r2),
           r2.gen = records[s].gen, r2.released = records[s].released,
           r2.completed = records[s].completed, r2.epoch = records[s].epoch,
           r2.doneOver = records[s].doneOver, records' = [records EXCEPT ![s] = r2],
           NEW t \in Tasks, NEW x \in TaskRecord, task' = [task EXCEPT ![t] = x],
           x.kind # "complete", TaskFine(x, records, page, issued), x.kind # "verified",
           UNCHANGED <<issued, deployment, page, rt, hosts, delivered>>, calls' \in Nat, UseInv'
    PROVE  BrokerInv'
<1>1. \A o \in Sessions : records'[o] = IF o = s THEN r2 ELSE records[o]
      BY DEF BrokerInv, BrokerTypeOK
<1>2. \A o \in Sessions : Later(records[o], records'[o])
      BY <1>1, SessionFacts
<1>3. RecordInv'
      BY <1>2, RecordsKept DEF BrokerInv, RecordInv
<1>4. BrokerTypeOK'
      BY DEF BrokerInv, BrokerTypeOK, Later
<1>5. \A o \in Sessions : RuntimeFine(rt[o], records'[o])
      BY <1>1, SessionFacts DEF RuntimeFine, Later
<1>6. \A o \in Sessions : PageFine(page[o], records'[o], delivered[o])
  <2>1. PageFine(page[s], r2, delivered[s])
        BY SessionFacts DEF PageFine, Later, Over
  <2>. QED
    BY <1>1, <2>1, SessionFacts
<1>7. RuntimeInv' /\ PageInv'
      BY <1>5, <1>6 DEF RuntimeInv, PageInv, RuntimeFine, PageFine, WebRtc
<1>8. RoutesEnd
      BY DEF RoutesEnd
<1>9. /\ task'[t] = x /\ \A u \in Tasks : u # t => task'[u] = task[u]
      BY DEF BrokerInv, BrokerTypeOK
<1>10. TaskInv'
  <2>1. \A u \in Tasks : TaskFine(task[u], records', page', issued)
        BY <1>2, <1>8, OthersRest
  <2>2. TaskFine(x, records', page', issued)
        BY DEF TaskFine
  <2>3. \A u \in Tasks : TaskFine(task'[u], records', page', issued')
        BY <1>9, <2>1, <2>2
  <2>4. OneFinalization'
        BY <1>9 DEF BrokerInv, TaskInv, OneFinalization
  <2>. QED
    BY <2>3, <2>4 DEF TaskInv, TaskFine, WebRtc
<1>. QED
  BY <1>3, <1>4, <1>7, <1>10 DEF BrokerInv

\* beginUse(): one more of the client's inputs is at the browser.
LEMMA BeginUseInv ==
    ASSUME BrokerInv, NEW t \in Tasks, NEW s \in Sessions, BeginUse(t, s)
    PROVE  BrokerInv'
<1> DEFINE r == records[s]
           r2 == UseBegun(r)
           x == Running("use", "browser", s, r.gen)
<1>1. /\ task[t] = Idle /\ calls' \in Nat /\ Live(r) /\ r.gen > 0
      /\ UNCHANGED <<issued, deployment, page, rt, hosts, delivered>>
      BY DEF BeginUse, Arrives, MayUse, Names, BrokerInv, BrokerTypeOK
<1>2. records' = [records EXCEPT ![s] = r2] /\ task' = [task EXCEPT ![t] = x]
      BY DEF BeginUse
<1>3. /\ r \in TakeoverRecord /\ WellFormed(r) /\ r.gen \in 0..MaxGen /\ s \in 0..MaxSessions
      /\ s \in 1..issued /\ s <= issued /\ issued \in Nat
      BY <1>1, SessionFacts
<1>4. /\ Later(r, r2) /\ r2.gen = r.gen /\ r2.released = r.released /\ r2.completed = r.completed
      /\ r2.epoch = r.epoch /\ r2.doneOver = r.doneOver /\ r2.inFlight = r.inFlight + 1
      BY <1>1, <1>3, LaterClient DEF UseBegun, TakeoverRecord
<1>5. /\ x \in TaskRecord /\ x.kind = "use" /\ x.pc = "browser" /\ x.s = s /\ x.gen = r.gen
      /\ x.rest = {}
  <2>1. "use" \in TaskKinds /\ "browser" \in TaskPcs
        BY DEF TaskKinds, TaskPcs
  <2> HIDE DEF r
  <2>. QED
    BY <1>3, <2>1, RunningFacts
<1> HIDE DEF r2, x
<1>6. TaskFine(x, records, page, issued)
      BY <1>1, <1>3, <1>5 DEF TaskFine
<1>7. /\ task'[t] = x /\ \A u \in Tasks : u # t => task'[u] = task[u]
      /\ \A o \in Sessions : records'[o] = IF o = s THEN r2 ELSE records[o]
      BY <1>2 DEF BrokerInv, BrokerTypeOK
<1>8. ASSUME NEW o \in Sessions
      PROVE  /\ IsFiniteSet(UsesOf(o)')
             /\ Live(records'[o]) => /\ records'[o].inFlight = Cardinality(UsesOf(o)')
                                     /\ \A u \in UsesOf(o)' : task'[u].gen = records'[o].gen
  <2>1. /\ IsFiniteSet(UsesOf(o))
        /\ Live(records[o]) => /\ records[o].inFlight = Cardinality(UsesOf(o))
                               /\ \A u \in UsesOf(o) : task[u].gen = records[o].gen
        BY DEF BrokerInv, UseInv
  <2>2. CASE o # s
    <3>1. UsesOf(o)' = UsesOf(o) /\ \A u \in UsesOf(o) : task'[u] = task[u]
          BY <1>1, <1>5, <1>7, <2>2, IdleTask DEF UsesOf
    <3>. QED
      BY <1>7, <2>1, <2>2, <3>1
  <2>3. CASE o = s
    <3>1. UsesOf(s)' = UsesOf(s) \union {t} /\ t \notin UsesOf(s)
          BY <1>1, <1>5, <1>7, IdleTask DEF UsesOf
    <3>2. /\ IsFiniteSet(UsesOf(s) \union {t})
          /\ Cardinality(UsesOf(s) \union {t}) = Cardinality(UsesOf(s)) + 1
          BY <2>1, <2>3, <3>1, FS_AddElement
    <3>3. \A u \in UsesOf(s) : u # t /\ task'[u] = task[u]
          BY <1>7, <3>1 DEF UsesOf
    <3>4. records'[s] = r2
          BY <1>7
    <3>5. \A u \in UsesOf(s)' : task'[u].gen = r.gen
          BY <1>1, <1>5, <1>7, <2>1, <2>3, <3>1, <3>3
    <3>. QED
      BY <1>1, <1>4, <2>1, <2>3, <3>1, <3>2, <3>4, <3>5
  <2>. QED
    BY <2>2, <2>3
<1>9. UseInv'
      BY <1>8 DEF UseInv
<1>. QED
  BY <1>1, <1>2, <1>3, <1>4, <1>5, <1>6, <1>9, UseStep

\* endUse(): the count goes down only for the generation that began the use.
LEMMA EndUseInv ==
    ASSUME BrokerInv, NEW t \in Tasks, EndUse(t)
    PROVE  BrokerInv'
<1> DEFINE s == task[t].s
           r == records[s]
           r2 == UseEnded(r, task[t].gen)
<1>1. /\ task[t].kind = "use" /\ calls' \in Nat
      /\ UNCHANGED <<issued, deployment, page, rt, hosts, delivered>>
      /\ task' = [task EXCEPT ![t] = Idle]
      BY DEF EndUse, Finish, BrokerInv, BrokerTypeOK
<1>2. records' = [records EXCEPT ![s] = r2]
      BY DEF EndUse
<1>3. s \in 1..issued /\ s \in Sessions /\ s <= issued /\ issued \in Nat
      BY <1>1, TaskFacts
<1>4. r \in TakeoverRecord /\ WellFormed(r)
      BY <1>3, SessionFacts
<1>5. /\ Later(r, r2) /\ r2.gen = r.gen /\ r2.released = r.released /\ r2.completed = r.completed
      /\ r2.epoch = r.epoch /\ r2.doneOver = r.doneOver
  <2>1. CASE Live(r)
        BY <1>4, <2>1, LaterClient DEF UseEnded, TakeoverRecord
  <2>2. CASE ~Live(r)
        BY <1>4, <2>2, LaterRefl DEF UseEnded
  <2>. QED
    BY <2>1, <2>2
<1>6. Live(r) /\ r.gen = task[t].gen /\ r.inFlight > 0 => r2.inFlight = r.inFlight - 1
      BY <1>4 DEF UseEnded, TakeoverRecord
<1>7. Live(r2) => Live(r)
      BY <1>5 DEF Later
<1> HIDE DEF r2, s
<1>8. TaskFine(Idle, records, page, issued)
      BY <1>3, IdleFine
<1>9. /\ task'[t] = Idle /\ \A u \in Tasks : u # t => task'[u] = task[u]
      /\ \A o \in Sessions : records'[o] = IF o = s THEN r2 ELSE records[o]
      BY <1>1, <1>2 DEF BrokerInv, BrokerTypeOK
<1>10. ASSUME NEW o \in Sessions
       PROVE  /\ IsFiniteSet(UsesOf(o)')
              /\ Live(records'[o]) => /\ records'[o].inFlight = Cardinality(UsesOf(o)')
                                      /\ \A u \in UsesOf(o)' : task'[u].gen = records'[o].gen
  <2>1. /\ IsFiniteSet(UsesOf(o))
        /\ Live(records[o]) => /\ records[o].inFlight = Cardinality(UsesOf(o))
                               /\ \A u \in UsesOf(o) : task[u].gen = records[o].gen
        BY DEF BrokerInv, UseInv
  <2>2. CASE o # s
    <3>1. UsesOf(o)' = UsesOf(o) /\ \A u \in UsesOf(o) : task'[u] = task[u]
          BY <1>1, <1>9, <2>2, IdleTask DEF UsesOf, s
    <3>. QED
      BY <1>9, <2>1, <2>2, <3>1
  <2>3. CASE o = s
    <3>1. UsesOf(o)' = UsesOf(o) \ {t} /\ t \in UsesOf(o)
          BY <1>1, <1>9, <2>3, IdleTask DEF UsesOf, s
    <3>2. /\ IsFiniteSet(UsesOf(o) \ {t})
          /\ Cardinality(UsesOf(o) \ {t}) = Cardinality(UsesOf(o)) - 1
          /\ Cardinality(UsesOf(o)) \in Nat
          BY <2>1, <2>3, <3>1, FS_RemoveElement, FS_CardinalityType
    <3>3. \A u \in UsesOf(o)' : u \in UsesOf(o) /\ task'[u] = task[u]
          BY <1>9, <3>1 DEF UsesOf
    <3>4. records'[o] = r2
          BY <1>9, <2>3
    <3>5. ASSUME Live(r2)
          PROVE  /\ r2.inFlight = Cardinality(UsesOf(o)')
                 /\ \A u \in UsesOf(o)' : task'[u].gen = r2.gen
      <4>1. /\ r.inFlight = Cardinality(UsesOf(o)) /\ \A u \in UsesOf(o) : task[u].gen = r.gen
            BY <1>7, <2>1, <2>3, <3>5
      <4>2. Cardinality(UsesOf(o)) # 0
            BY <2>1, <2>3, <3>1, FS_EmptySet
      <4>3. r2.inFlight = Cardinality(UsesOf(o)) - 1
            BY <1>6, <1>7, <3>1, <3>2, <3>5, <4>1, <4>2
      <4>. QED
        BY <1>5, <3>1, <3>2, <3>3, <4>1, <4>3
    <3>. QED
      BY <2>1, <2>3, <3>1, <3>2, <3>4, <3>5
  <2>. QED
    BY <2>2, <2>3
<1>11. UseInv'
       BY <1>10 DEF UseInv
<1>. QED
  BY <1>1, <1>2, <1>3, <1>5, <1>8, <1>11, IdleTask, UseStep

\* The timers: a lease or window that is over, and what the broker forgets with it.
LEMMA TimeInv ==
    ASSUME BrokerInv, NEW s \in Sessions, MediaOver(s) \/ DoneOver(s)
    PROVE  BrokerInv'
<1>1. /\ calls' \in Nat /\ UNCHANGED <<issued, deployment, delivered, page>>
      /\ UNCHANGED <<task, rt, hosts>> /\ records[s].epoch > 0
      BY DEF MediaOver, DoneOver, MediaLeaseEnds, CompletionWindowEnds, BrokerInv, BrokerTypeOK
<1>2. records[s].epoch # 0
      BY <1>1
<1>3. /\ records[s] \in TakeoverRecord /\ WellFormed(records[s]) /\ s \in 1..issued /\ s <= issued
      /\ PageFine(page[s], records[s], delivered[s]) /\ RuntimeFine(rt[s], records[s])
      /\ delivered[s] \in Nat
      BY <1>2, SessionFacts
<1>4. \E r2 : /\ Later(records[s], r2) /\ Quiet(records[s], r2)
              /\ records' = [records EXCEPT ![s] = r2]
  <2>1. CASE MediaOver(s)
        BY <1>2, <1>3, <2>1, LaterMoves DEF MediaOver, MediaLeaseEnds, BrokerInv, BrokerTypeOK
  <2>2. CASE DoneOver(s)
        BY <1>2, <1>3, <2>2, LaterMoves DEF DoneOver, CompletionWindowEnds, BrokerInv, BrokerTypeOK
  <2>. QED
    BY <2>1, <2>2
<1>5. PICK r2 : /\ Later(records[s], r2) /\ Quiet(records[s], r2)
                /\ records' = [records EXCEPT ![s] = r2]
      BY <1>4
<1>6. PageFine(page[s], r2, delivered[s]) /\ RuntimeFine(rt[s], r2)
      BY <1>3, <1>5, PageStays, RuntimeStays
<1>7. SessionsFine
      BY <1>1, <1>3, <1>5, <1>6, OneRecordMoves
<1>. QED
  BY <1>1, <1>5, <1>6, <1>7, OneSessionStep

\* The timers that drop the maps of a session, and the link of a native one.
LEMMA CleanupInv ==
    ASSUME BrokerInv, NEW s \in Sessions,
           MediaCleanup(s) \/ CompletionCleanup(s) \/ NativeLinkExpires(s)
    PROVE  BrokerInv'
<1>1. /\ calls' \in Nat /\ UNCHANGED <<records, issued, deployment, delivered>>
      /\ UNCHANGED <<task, rt, hosts>>
      BY DEF MediaCleanup, CompletionCleanup, NativeLinkExpires, sessionVars, BrokerInv, BrokerTypeOK
<1>2. /\ records[s] \in TakeoverRecord /\ WellFormed(records[s]) /\ page[s] \in Page
      /\ Later(records[s], records[s]) /\ Quiet(records[s], records[s])
      /\ PageFine(page[s], records[s], delivered[s]) /\ RuntimeFine(rt[s], records[s])
      BY SessionFacts
<1>3. records' = [records EXCEPT ![s] = records[s]]
      BY <1>1 DEF BrokerInv, BrokerTypeOK
<1>4. ~Live(records[s])
      BY <1>2 DEF MediaCleanup, CompletionCleanup, NativeLinkExpires, Live, WellFormed
<1>5. page[s] # NoPage
  <2>1. page[s].policy \/ page[s].route => page[s] # NoPage
        BY DEF NoPage
  <2>. QED
    BY <2>1 DEF MediaCleanup, CompletionCleanup, NativeLinkExpires
<1>6. s <= issued /\ s \in 1..issued
      BY <1>5, SessionFacts
<1>7. \E p2 \in Page :
          /\ page' = [page EXCEPT ![s] = p2] /\ PageFine(p2, records[s], delivered[s])
          /\ p2.route => page[s].route
          /\ p2.done => page[s].done
  <2>1. CASE MediaCleanup(s)
    <3> DEFINE p2 == [page[s] EXCEPT !.policy = FALSE]
    <3>1. page' = [page EXCEPT ![s] = p2]
          BY <2>1 DEF MediaCleanup, BrokerInv, BrokerTypeOK
    <3>2. /\ p2 \in Page /\ p2.route = page[s].route /\ p2.done = page[s].done
          /\ p2.verifying = page[s].verifying /\ p2.verified = page[s].verified
          BY <1>2 DEF Page
    <3> HIDE DEF p2
    <3>3. PageFine(p2, records[s], delivered[s])
          BY <1>2, <1>4, <3>2 DEF PageFine
    <3>. QED
      BY <3>1, <3>2, <3>3
  <2>2. CASE CompletionCleanup(s)
    <3>1. page' = [page EXCEPT ![s] = NoPage] /\ records[s].doneOver
          BY <2>2 DEF CompletionCleanup
    <3>2. NoPage \in Page /\ ~NoPage.route /\ ~NoPage.done /\ ~NoPage.verifying
          BY DEF NoPage, Page
    <3>3. PageFine(NoPage, records[s], delivered[s])
          BY <1>2, <1>4, <3>1, <3>2 DEF PageFine
    <3>. QED
      BY <3>1, <3>2, <3>3
  <2>3. CASE NativeLinkExpires(s)
    <3> DEFINE p2 == [page[s] EXCEPT !.route = FALSE]
    <3>1. page' = [page EXCEPT ![s] = p2]
          BY <2>3 DEF NativeLinkExpires, BrokerInv, BrokerTypeOK
    <3>2. /\ p2 \in Page /\ p2.route = FALSE /\ p2.done = page[s].done
          /\ p2.verifying = page[s].verifying /\ p2.verified = page[s].verified
          BY <1>2 DEF Page
    <3> HIDE DEF p2
    <3>3. PageFine(p2, records[s], delivered[s])
          BY <1>2, <1>4, <3>2 DEF PageFine
    <3>. QED
      BY <3>1, <3>2, <3>3
  <2>. QED
    BY <2>1, <2>2, <2>3
<1>8. SessionsFine
      BY <1>1, <1>2, <1>3, <1>6, <1>7, OneSessionMoves
<1>. QED
  BY <1>1, <1>2, <1>3, <1>8, OneSessionStep

\* end() with notice of whatever entry the session has, called for a runtime that is lost,
\* expired or astray.
LEMMA NoticeInv ==
    ASSUME BrokerInv, NEW s \in Sessions, NEW terminal \in BOOLEAN, EndWithNotice(s, terminal),
           WebRtc, rt[s].gen > 0, hosts' \in [Hosts -> {"none", "up", "ending", "gone"}]
    PROVE  BrokerInv'
<1> DEFINE r2 == Released(records[s], rt[s].gen)
           p2 == [page[s] EXCEPT !.verifying = TRUE, !.policy = FALSE]
<1>2. WebRtc /\ rt[s].gen > 0
      OBVIOUS
<1>3. /\ records' = [records EXCEPT ![s] = r2] /\ rt' = [rt EXCEPT ![s] = Ended(s)]
      /\ UNCHANGED <<issued, deployment, task, delivered>> /\ calls' \in Nat
      BY DEF EndWithNotice, BrokerInv, BrokerTypeOK
<1>4. /\ records[s] \in TakeoverRecord /\ WellFormed(records[s]) /\ page[s] \in Page
      /\ PageFine(page[s], records[s], delivered[s]) /\ RuntimeFine(rt[s], records[s])
      /\ delivered[s] \in Nat /\ s <= issued
      BY <1>2, SessionFacts, RuntimeFacts
<1>5. /\ Later(records[s], r2) /\ Quiet(records[s], r2) /\ r2.gen = records[s].gen
      /\ Live(r2) /\ rt[s].gen = records[s].gen => r2.released
      BY <1>4, LaterEnds
<1> HIDE DEF r2
<1>6. PageFine(page[s], r2, delivered[s]) /\ RuntimeFine(rt[s], r2)
      BY <1>4, <1>5, PageStays, RuntimeStays
<1>7. \E p \in Page :
          /\ page' = [page EXCEPT ![s] = p] /\ PageFine(p, r2, delivered[s])
          /\ p.route = page[s].route /\ p.done = page[s].done
  <2>1. CASE page' = page
        BY <1>4, <1>6, <2>1 DEF BrokerInv, BrokerTypeOK
  <2>2. CASE terminal /\ page' = [page EXCEPT ![s].verifying = TRUE, ![s].policy = FALSE]
    <3>1. page' = [page EXCEPT ![s] = p2]
          BY <2>2 DEF BrokerInv, BrokerTypeOK
    <3>2. /\ p2 \in Page /\ p2.route = page[s].route /\ p2.done = page[s].done
          /\ p2.verifying = TRUE /\ p2.verified = page[s].verified
          BY <1>4 DEF Page
    <3> HIDE DEF p2
    <3>4. PageFine(p2, r2, delivered[s])
          BY <1>2, <1>6, <3>2 DEF PageFine
    <3>. QED
      BY <3>1, <3>2, <3>4
  <2>. QED
    BY <2>1, <2>2 DEF EndWithNotice
<1>8. SessionsFine
      BY <1>3, <1>4, <1>5, <1>7, OneSessionMoves
<1>9. \A o \in Sessions : RuntimeFine(rt[o], records'[o])
      BY <1>3, <1>6, RuntimesStay
<1>10. /\ Ended(s) \in Runtime
       /\ \A r : RuntimeFine(rt[s], r) => RuntimeFine(Ended(s), r)
       /\ rt' \in [Sessions -> Runtime]
       /\ \A o \in Sessions : o > issued => rt'[o] = NoRuntime
       BY <1>3, EndedFacts
<1>11. \A o \in Sessions : rt'[o] = IF o = s THEN Ended(s) ELSE rt[o]
       BY <1>3, RuntimeFacts
<1>12. \A o \in Sessions : RuntimeFine(rt'[o], records'[o])
       BY <1>9, <1>10, <1>11
<1>. QED
  BY <1>3, <1>8, <1>10, <1>12, SessionOnlyStep

\* A runtime is lost or expires, or a stray ends in the place of it.
LEMMA RuntimeEndsInv ==
    ASSUME BrokerInv, strays \subseteq Stray,
           \/ \E s \in Sessions : RuntimeLost(s) \/ RuntimeExpires(s)
           \/ \E o \in strays : StrayFails(o)
    PROVE  BrokerInv'
<1>1. \A s \in Sessions : Stopping(s) \in [Hosts -> {"none", "up", "ending", "gone"}]
      BY StoppingTyped DEF BrokerInv
<1>2. ASSUME NEW s \in Sessions, RuntimeLost(s) \/ RuntimeExpires(s) PROVE BrokerInv'
  <2>1. /\ \E terminal \in BOOLEAN : EndWithNotice(s, terminal)
        /\ WebRtc /\ rt[s].gen > 0 /\ hosts' = Stopping(s)
        BY <1>2 DEF RuntimeLost, RuntimeExpires, WebRtc
  <2>. QED
    BY <1>1, <2>1, NoticeInv
<1>3. ASSUME NEW o \in strays, StrayFails(o) PROVE BrokerInv'
  <2>1. /\ \E terminal \in BOOLEAN : EndWithNotice(o.s, terminal)
        /\ WebRtc /\ rt[o.s].gen > 0 /\ o.s \in Sessions
        /\ hosts' \in {Stopping(o.s), [Stopping(o.s) EXCEPT ![o.host] = "gone"]}
        BY <1>3 DEF StrayFails, StrayOf, Stray, WebRtc
  <2>2. hosts' \in [Hosts -> {"none", "up", "ending", "gone"}]
        BY <1>1, <2>1
  <2>. QED
    BY <2>1, <2>2, NoticeInv
<1>. QED
  BY <1>2, <1>3
-----------------------------------------------------------------------------
(* Links: ensure() makes a session, or gives the live one of its epoch.     *)

\* A live session was never completed.
LEMMA LiveIsNotOver == ASSUME NEW r, WellFormed(r), Live(r) PROVE ~Over(r)
  BY GoneRecord DEF WellFormed, Live, Over

\* The session of a link is the only live one from then on.
LEMMA EnsureFacts ==
    ASSUME BrokerInv, NEW e \in Epochs, NEW s \in Sessions, Ensure(e, s)
    PROVE  /\ records' \in [Sessions -> TakeoverRecord] /\ issued' \in 0..MaxSessions
           /\ s \in 1..issued' /\ \A o \in 0..issued : o \in 0..issued'
           /\ Live(records'[s]) /\ WellFormed(records'[s])
           /\ \/ s <= issued /\ records'[s] = records[s] /\ issued' = issued
              \/ /\ s > issued /\ records'[s].gen = 0 /\ records'[s].inFlight = 0
                 /\ records'[s].epoch # 0 /\ issued' = s
           /\ \A o \in Sessions : o # s =>
                 /\ Later(records[o], records'[o]) /\ Quiet(records[o], records'[o])
                 /\ ~Live(records'[o])
           /\ \A o \in Sessions : o > issued' => o > issued /\ o # s
<1>1. /\ issued \in 0..MaxSessions /\ MaxSessions \in Nat /\ s \in 1..MaxSessions
      /\ \A o \in Sessions : o \in 1..MaxSessions
      BY SessionsAssumption DEF BrokerInv, BrokerTypeOK, Sessions
<1>2. \A o \in Sessions :
          /\ Pruned[o] \in {records[o], Gone}
          /\ Pruned[o] \in TakeoverRecord /\ WellFormed(Pruned[o])
          /\ Later(records[o], Pruned[o]) /\ Quiet(records[o], Pruned[o])
      BY PrunedLater DEF BrokerInv
<1>3. CASE s <= issued /\ s \in Reusable(e) /\ records' = Pruned /\ issued' = issued
  <2>1. Live(records'[s]) /\ WellFormed(records'[s])
        BY <1>2, <1>3 DEF Reusable
  <2>2. records'[s] = records[s] /\ Live(records[s])
        BY <1>2, <1>3, <2>1, GoneRecord
  <2>3. records' \in [Sessions -> TakeoverRecord]
    <3>1. records' = [o \in Sessions |-> records'[o]]
          BY <1>3 DEF Pruned
    <3>. QED
      BY <1>2, <1>3, <3>1
  <2>4. \A o \in Sessions : o # s => ~Live(records'[o])
    <3>1. \A o \in Sessions : Live(records'[o]) => Live(records[o])
          BY <1>2, <1>3 DEF Later
    <3>. QED
      BY <2>2, <3>1 DEF BrokerInv, RecordInv
  <2>5. s \in 1..issued' /\ \A o \in Sessions : o > issued' => o > issued /\ o # s
        BY <1>1, <1>3
  <2>. QED
    BY <1>1, <1>2, <1>3, <2>1, <2>2, <2>3, <2>4, <2>5
<1>4. CASE /\ ~(s <= issued) /\ s = issued + 1 /\ issued' = s
           /\ records' = [o \in Sessions |->
                  IF o = s THEN NewRecord(e)
                  ELSE [Pruned[o] EXCEPT !.revoked = @ \/ ~Pruned[o].mediaOver]]
  <2>1. records'[s] = NewRecord(e)
        BY <1>4
  <2>2. /\ Live(records'[s]) /\ WellFormed(records'[s]) /\ records'[s] \in TakeoverRecord
        /\ records'[s].gen = 0 /\ records'[s].inFlight = 0 /\ records'[s].epoch # 0
        BY <2>1, NewRecords
  <2>3. ASSUME NEW o \in Sessions, o # s
        PROVE  /\ Later(records[o], records'[o]) /\ Quiet(records[o], records'[o])
               /\ ~Live(records'[o]) /\ records'[o] \in TakeoverRecord
    <3> DEFINE p == Pruned[o]
    <3>1. records'[o] = [p EXCEPT !.revoked = p.revoked \/ ~p.mediaOver]
          BY <1>4, <2>3
    <3>2. /\ p \in TakeoverRecord /\ WellFormed(p)
          /\ Later(records[o], p) /\ Quiet(records[o], p) /\ records[o] \in TakeoverRecord
          BY <1>2, SessionFacts
    <3> HIDE DEF p
    <3>3. p.revoked \in BOOLEAN /\ p.mediaOver \in BOOLEAN
          BY <3>2 DEF TakeoverRecord
    <3>4. CASE p.revoked \/ p.mediaOver
      <4>1. (p.revoked \/ ~p.mediaOver) = p.revoked
            BY <3>3, <3>4
      <4>2. [p EXCEPT !.revoked = p.revoked] = p
            BY <3>2, Zenon DEF TakeoverRecord
      <4>3. records'[o] = p
            BY <3>1, <4>1, <4>2
      <4>. QED
        BY <3>2, <3>4, <4>3 DEF Live
    <3>5. CASE ~p.revoked /\ ~p.mediaOver
      <4>1. (p.revoked \/ ~p.mediaOver) = TRUE
            BY <3>3, <3>5
      <4>2. records'[o] = Revoked(p)
            BY <3>1, <4>1 DEF Revoked
      <4>3. Later(p, Revoked(p)) /\ Quiet(p, Revoked(p)) /\ ~Live(Revoked(p))
            BY <3>2, LaterEnds
      <4>4. Later(records[o], Revoked(p)) /\ Quiet(records[o], Revoked(p))
            BY <3>2, <4>3, LaterTrans
      <4>. QED
        BY <4>2, <4>3, <4>4 DEF Later
    <3>. QED
      BY <3>4, <3>5
  <2>4. records' \in [Sessions -> TakeoverRecord]
    <3>1. \A o \in Sessions : records'[o] \in TakeoverRecord
          BY <2>2, <2>3
    <3>. QED
      BY <1>4, <3>1
  <2>5. /\ s \in 1..issued' /\ s > issued /\ issued' \in 0..MaxSessions
        /\ \A o \in Sessions : o > issued' => o > issued /\ o # s
        /\ \A o \in 0..issued : o \in 0..issued'
        BY <1>1, <1>4
  <2>. QED
    BY <1>4, <2>2, <2>3, <2>4, <2>5
<1>. QED
  BY <1>3, <1>4 DEF Ensure

\* A link: whatever the deployment marks in its maps, the requests in progress and the
\* runtimes of all sessions are what they were.
LEMMA LinkStep ==
    ASSUME BrokerInv, NEW e \in Epochs, NEW s \in Sessions, Ensure(e, s),
           page' \in [Sessions -> Page], calls' \in Nat,
           UNCHANGED <<deployment, rt, hosts, task, delivered>>,
           \A o \in Sessions : o # s =>
               /\ page'[o].route => page[o].route
               /\ page'[o].done => page[o].done
               /\ page[o] = NoPage => page'[o] = NoPage,
           \A o \in Sessions : PageFine(page'[o], records'[o], delivered[o])
    PROVE  BrokerInv'
<1>1. /\ records' \in [Sessions -> TakeoverRecord] /\ issued' \in 0..MaxSessions
      /\ s \in 1..issued' /\ \A o \in 0..issued : o \in 0..issued'
      /\ Live(records'[s]) /\ WellFormed(records'[s])
      /\ \/ s <= issued /\ records'[s] = records[s] /\ issued' = issued
         \/ /\ s > issued /\ records'[s].gen = 0 /\ records'[s].inFlight = 0
            /\ records'[s].epoch # 0 /\ issued' = s
      /\ \A o \in Sessions : o # s =>
            /\ Later(records[o], records'[o]) /\ Quiet(records[o], records'[o])
            /\ ~Live(records'[o])
      /\ \A o \in Sessions : o > issued' => o > issued /\ o # s
      BY EnsureFacts
<1>2. BrokerTypeOK'
      BY <1>1 DEF BrokerInv, BrokerTypeOK
<1>3. RecordInv'
  <2>1. \A o \in Sessions : WellFormed(records'[o])
        BY <1>1 DEF Later
  <2>2. \A o, q \in Sessions : Live(records'[o]) /\ Live(records'[q]) => o = q
        BY <1>1
  <2>3. \A o \in Sessions : o > issued' =>
            /\ records'[o] = Gone /\ page'[o] = NoPage /\ rt'[o] = NoRuntime /\ delivered'[o] = 0
    <3>1. SUFFICES ASSUME NEW o \in Sessions, o > issued'
                   PROVE  /\ records'[o] = Gone /\ page'[o] = NoPage
                          /\ rt'[o] = NoRuntime /\ delivered'[o] = 0
          OBVIOUS
    <3>2. o > issued /\ o # s
          BY <1>1, <3>1
    <3>3. records[o] = Gone /\ page[o] = NoPage /\ rt[o] = NoRuntime /\ delivered[o] = 0
          BY <3>2 DEF BrokerInv, RecordInv
    <3>. QED
      BY <1>1, <3>2, <3>3 DEF Later
  <2>. QED
    BY <2>1, <2>2, <2>3 DEF RecordInv
<1>4. UseInv'
  <2>1. \A o \in Sessions : /\ IsFiniteSet(UsesOf(o))
                            /\ Live(records[o]) =>
                                  /\ records[o].inFlight = Cardinality(UsesOf(o))
                                  /\ \A u \in UsesOf(o) : task[u].gen = records[o].gen
        BY DEF BrokerInv, UseInv
  <2>2. \A o \in Sessions : UsesOf(o)' = UsesOf(o)
        BY DEF UsesOf
  <2>3. s > issued => UsesOf(s) = {}
    <3>1. \A u \in Tasks : task[u].s \in 0..issued /\ issued \in Nat /\ s \in Nat
          BY TaskFacts, SessionsAssumption DEF TaskFine, Sessions
    <3>. QED
      BY <3>1 DEF UsesOf
  <2>4. /\ records'[s].inFlight = Cardinality(UsesOf(s))
        /\ \A u \in UsesOf(s) : task[u].gen = records'[s].gen
    <3>1. CASE records'[s] = records[s]
          BY <1>1, <2>1, <3>1
    <3>2. CASE s > issued /\ records'[s].inFlight = 0
          BY <2>3, <3>2, FS_EmptySet
    <3>. QED
      BY <1>1, <3>1, <3>2
  <2>. QED
    BY <1>1, <2>1, <2>2, <2>4 DEF UseInv
<1>5. \A o \in Sessions : RuntimeFine(rt[o], records'[o])
  <2>1. s > issued => rt[s] = NoRuntime
        BY RuntimeFacts
  <2>2. RuntimeFine(rt[s], records'[s])
        BY <1>1, <2>1, SessionFacts, RuntimeShrinks
  <2>. QED
    BY <1>1, <2>2, SessionFacts, RuntimeStays
<1>6. RuntimeInv' /\ PageInv'
      BY <1>5 DEF RuntimeInv, PageInv, RuntimeFine, PageFine, WebRtc
<1>7. ASSUME NEW u \in Tasks PROVE TaskFine(task[u], records', page', issued')
  <2> DEFINE x == task[u]
  <2>1. /\ TaskFine(x, records, page, issued) /\ x \in TaskRecord /\ x.s \in 0..issued
        /\ x.rest \subseteq 1..issued /\ x.rest \subseteq Sessions
        /\ x.kind = "complete" => x.s \in Sessions /\ x.s \in 1..issued
        BY TaskFacts DEF TaskFine, TaskRecord
  <2>2. issued \in Nat /\ s \in Nat /\ issued' \in Nat
        BY SessionFacts, <1>1, SessionsAssumption
  <2>3. x.s \in 0..issued' /\ x.rest \subseteq 1..issued'
        BY <1>1, <2>1, <2>2
  <2>4. ASSUME NEW o \in Sessions, o \in 1..issued, ~Live(records[o])
        PROVE  o # s /\ Later(records[o], records'[o]) /\ ~Live(records'[o])
        BY <1>1, <2>2, <2>4
  <2>5. ASSUME x.kind = "complete"
        PROVE  /\ Over(records'[x.s])
               /\ page'[x.s].route => page[x.s].route
               /\ page'[x.s].done => page[x.s].done
               /\ x.s # s
    <3>1. Over(records[x.s]) /\ WellFormed(records[x.s])
          BY <2>1, <2>5, SessionFacts DEF TaskFine
    <3>2. ~Live(records[x.s])
          BY <3>1, LiveIsNotOver
    <3>. QED
      BY <2>1, <2>4, <2>5, <3>1, <3>2 DEF Later
  <2>6. x.kind = "verified" => \A o \in x.rest : ~Live(records'[o])
    <3>1. x.kind = "verified" => \A o \in x.rest : ~Live(records[o])
          BY <2>1 DEF TaskFine
    <3>. QED
      BY <2>1, <2>4, <3>1
  <2>7. x.pc = "hook" => ~page'[x.s].route /\ ~page'[x.s].done
        BY <2>1, <2>5 DEF TaskFine
  <2> HIDE DEF x
  <2>. QED
    BY <2>1, <2>3, <2>5, <2>6, <2>7 DEF TaskFine, x
<1>8. TaskInv'
  <2>1. OneFinalization'
        BY DEF BrokerInv, TaskInv, OneFinalization
  <2>. QED
    BY <1>7, <2>1 DEF TaskInv, TaskFine, WebRtc
<1>. QED
  BY <1>2, <1>3, <1>4, <1>6, <1>8 DEF BrokerInv

\* What the maps say of the session a link is for, and of the others.
LEMMA LinkPages ==
    ASSUME BrokerInv, NEW e \in Epochs, NEW s \in Sessions, Ensure(e, s)
    PROVE  /\ ~page[s].verified /\ ~page[s].done /\ delivered[s] = 0
           /\ page[s].verifying => WebRtc
           /\ page[s].verifying => page[s].route
           /\ \A o \in Sessions : o # s => PageFine(page[o], records'[o], delivered[o])
           /\ \A o \in Sessions : page[o] \in Page
<1>1. /\ Live(records'[s]) /\ WellFormed(records'[s])
      /\ \/ s <= issued /\ records'[s] = records[s] /\ issued' = issued
         \/ s > issued
      /\ \A o \in Sessions : o # s =>
            Later(records[o], records'[o]) /\ Quiet(records[o], records'[o])
      BY EnsureFacts
<1>2. \A o \in Sessions : o # s => PageFine(page[o], records'[o], delivered[o])
      BY <1>1, SessionFacts, PageStays
<1>3. page[s] \in Page /\ PageFine(page[s], records[s], delivered[s]) /\ delivered[s] \in Nat
      BY SessionFacts
<1>4. CASE records'[s] = records[s]
  <2>1. ~Over(records[s]) /\ Live(records[s])
        BY <1>1, <1>4, LiveIsNotOver
  <2>2. ~(delivered[s] > 0)
        BY <1>3, <2>1 DEF PageFine
  <2>3. delivered[s] = 0
        BY <1>3, <2>2
  <2>4. /\ ~page[s].verified /\ ~page[s].done
        /\ page[s].verifying => WebRtc
        /\ page[s].verifying => page[s].route
        BY <1>3, <2>1 DEF PageFine
  <2>. QED
    BY <1>2, <1>4, <2>3, <2>4, SessionFacts
<1>5. CASE s > issued
  <2>1. page[s] = NoPage /\ delivered[s] = 0
        BY <1>5 DEF BrokerInv, RecordInv
  <2>2. ~NoPage.verified /\ ~NoPage.done /\ ~NoPage.verifying
        BY DEF NoPage
  <2>. QED
    BY <1>2, <2>1, <2>2, SessionFacts
<1>. QED
  BY <1>1, <1>4, <1>5

\* createLink(), createWebRtcLink() and createNativeLink().
LEMMA LinkInv ==
    ASSUME BrokerInv, NEW e \in Epochs, NEW s \in Sessions,
           CreateLink(e, s) \/ CreateWebRtcLink(e, s) \/ CreateNativeLink(e, s)
    PROVE  BrokerInv'
<1>1. /\ Ensure(e, s) /\ calls' \in Nat /\ UNCHANGED <<deployment, rt, hosts, task, delivered>>
      BY DEF CreateLink, CreateWebRtcLink, CreateNativeLink, Arrives, BrokerInv, BrokerTypeOK
<1>2. /\ ~page[s].verified /\ ~page[s].done /\ delivered[s] = 0
      /\ page[s].verifying => WebRtc
      /\ page[s].verifying => page[s].route
      /\ \A o \in Sessions : o # s => PageFine(page[o], records'[o], delivered[o])
      /\ \A o \in Sessions : page[o] \in Page
      BY <1>1, LinkPages
<1>3. \A o \in Sessions : o # s => ~Live(records'[o])
      BY <1>1, EnsureFacts
<1>4. page \in [Sessions -> Page]
      BY DEF BrokerInv, BrokerTypeOK
\* It is enough that each map is left as it was, or loses its route or its policy.
<1>5. ASSUME page' \in [Sessions -> Page],
             \A o \in Sessions : o # s =>
                 /\ page'[o].route => page[o].route
                 /\ page'[o].done = page[o].done /\ page'[o].verifying = page[o].verifying
                 /\ page'[o].verified = page[o].verified
                 /\ page[o] = NoPage => page'[o] = NoPage,
             PageFine(page'[s], records'[s], 0)
      PROVE  BrokerInv'
  <2>1. \A o \in Sessions : o # s => PageFine(page'[o], records'[o], delivered[o])
        BY <1>2, <1>3, <1>5 DEF PageFine
  <2>2. \A o \in Sessions : PageFine(page'[o], records'[o], delivered'[o])
        BY <1>1, <1>2, <1>5, <2>1
  <2>. QED
    BY <1>1, <1>5, <2>2, LinkStep
<1>6. CASE CreateLink(e, s)
  <2>1. page' = page /\ ~WebRtc
        BY <1>6 DEF CreateLink, WebRtc
  <2>2. PageFine(page[s], records'[s], 0)
        BY <1>2, <2>1 DEF PageFine
  <2>. QED
    BY <1>4, <1>5, <2>1, <2>2
<1>7. CASE CreateWebRtcLink(e, s)
  <2> DEFINE lost(o) == [page[o] EXCEPT !.policy = page[o].policy /\ ~page[o].route]
             own == [page[s] EXCEPT !.route = TRUE, !.known = TRUE, !.policy = TRUE,
                                    !.ends = deployment.ends]
  <2>1. page' = [o \in Sessions |-> IF o # s THEN lost(o)
                                    ELSE IF page[s].verifying THEN page[s] ELSE own]
        BY <1>7 DEF CreateWebRtcLink
  <2>2. WebRtc /\ deployment.ends \in BOOLEAN
        BY <1>7, BrokerAssumption DEF CreateWebRtcLink, WebRtc, BrokerInv, BrokerTypeOK
  <2>3. ASSUME NEW o \in Sessions
        PROVE  /\ lost(o) \in Page /\ lost(o).route = page[o].route
               /\ lost(o).done = page[o].done /\ lost(o).verifying = page[o].verifying
               /\ lost(o).verified = page[o].verified
               /\ page[o] = NoPage => lost(o) = NoPage
    <3>1. page[o] \in Page
          BY <1>2
    <3>2. \A b \in BOOLEAN : LET p == [page[o] EXCEPT !.policy = b] IN
              /\ p \in Page /\ p.route = page[o].route /\ p.done = page[o].done
              /\ p.verifying = page[o].verifying /\ p.verified = page[o].verified
          BY <3>1 DEF Page
    <3>3. page[o] = NoPage => lost(o) = NoPage
      <4>1. page[o] = NoPage => (page[o].policy /\ ~page[o].route) = page[o].policy
        <5>1. NoPage.policy = FALSE
              BY DEF NoPage
        <5>. QED
          BY <5>1, Zenon
      <4>2. [page[o] EXCEPT !.policy = page[o].policy] = page[o]
            BY <3>1, Zenon DEF Page
      <4>. QED
        BY <4>1, <4>2
    <3>. QED
      BY <3>2, <3>3
  <2>4. /\ own \in Page /\ own.route = TRUE /\ own.policy = TRUE /\ own.done = page[s].done
        /\ own.verifying = page[s].verifying /\ own.verified = page[s].verified
        BY <1>2, <2>2 DEF Page
  <2> HIDE DEF lost, own
  <2>5. page' \in [Sessions -> Page]
    <3>1. \A o \in Sessions :
              (IF o # s THEN lost(o) ELSE IF page[s].verifying THEN page[s] ELSE own) \in Page
          BY <1>2, <2>3, <2>4
    <3>. QED
      BY <2>1, <3>1
  <2>6. \A o \in Sessions : o # s => page'[o] = lost(o)
        BY <2>1
  <2>7. page'[s] = IF page[s].verifying THEN page[s] ELSE own
        BY <2>1
  <2>8. PageFine(page'[s], records'[s], 0)
    <3>1. CASE page[s].verifying
          BY <1>2, <2>7, <3>1 DEF PageFine
    <3>2. CASE ~page[s].verifying
      <4>1. /\ page'[s].route /\ page'[s].policy /\ ~page'[s].done /\ ~page'[s].verifying
            /\ ~page'[s].verified
            BY <1>2, <2>4, <2>7, <3>2
      <4>2. ~Over(records'[s])
            BY <1>1, EnsureFacts, LiveIsNotOver
      <4>. QED
        BY <4>1, <4>2 DEF PageFine
    <3>. QED
      BY <3>1, <3>2
  <2>. QED
    BY <1>5, <2>3, <2>5, <2>6, <2>8
<1>8. CASE CreateNativeLink(e, s)
  <2> DEFINE q(o) == [page[o] EXCEPT !.route = o = s]
  <2>1. page' = [o \in Sessions |-> q(o)] /\ ~WebRtc
        BY <1>8 DEF CreateNativeLink, WebRtc
  <2>2. ASSUME NEW o \in Sessions
        PROVE  /\ q(o) \in Page /\ q(o).route = (o = s)
               /\ q(o).done = page[o].done /\ q(o).verifying = page[o].verifying
               /\ q(o).verified = page[o].verified
               /\ o # s /\ page[o] = NoPage => q(o) = NoPage
    <3>1. page[o] \in Page
          BY <1>2
    <3>2. \A b \in BOOLEAN : LET p == [page[o] EXCEPT !.route = b] IN
              /\ p \in Page /\ p.route = b /\ p.done = page[o].done
              /\ p.verifying = page[o].verifying /\ p.verified = page[o].verified
          BY <3>1 DEF Page
    <3>3. o # s /\ page[o] = NoPage => q(o) = NoPage
      <4>1. o # s /\ page[o] = NoPage => (o = s) = page[o].route
        <5>1. NoPage.route = FALSE
              BY DEF NoPage
        <5>. QED
          BY <5>1, Zenon
      <4>2. [page[o] EXCEPT !.route = page[o].route] = page[o]
            BY <3>1, Zenon DEF Page
      <4>. QED
        BY <4>1, <4>2
    <3>. QED
      BY <3>2, <3>3
  <2> HIDE DEF q
  <2>3. page' \in [Sessions -> Page]
        BY <2>1, <2>2
  <2>4. \A o \in Sessions : page'[o] = q(o)
        BY <2>1
  <2>5. PageFine(page'[s], records'[s], 0)
        BY <1>2, <2>1, <2>2, <2>4 DEF PageFine
  <2>. QED
    BY <1>5, <2>2, <2>3, <2>4, <2>5
<1>. QED
  BY <1>6, <1>7, <1>8
-----------------------------------------------------------------------------
(* Native clients.                                                          *)

\* The catch of a native claim: the session is revoked, and what it runs.
LEMMA BeginFailsInv ==
    ASSUME BrokerInv, ~WebRtc, NEW t \in Tasks, task[t].kind # "use", NEW s \in Sessions,
           s \in 1..issued, NEW r, Later(records[s], r), PageFine(page[s], r, delivered[s]),
           BeginFails(t, s, r), calls' \in Nat, UNCHANGED <<issued, deployment, delivered>>
    PROVE  BrokerInv'
<1> DEFINE r2 == Revoked(r)
           p2 == [page[s] EXCEPT !.route = FALSE]
           x == Running("native-failed", "begin", s, 0)
<1>1. r \in TakeoverRecord /\ WellFormed(r)
      BY DEF Later
<1>2. /\ page[s] \in Page /\ s <= issued /\ issued \in Nat /\ s \in 0..MaxSessions
      /\ RuntimeFine(rt[s], records[s]) /\ 0 \in 0..MaxGen /\ delivered[s] \in Nat
      BY SessionFacts, SessionsAssumption
<1>3. /\ records' = [records EXCEPT ![s] = r2] /\ RevokeStep(t, x)
      /\ page' = [page EXCEPT ![s] = p2]
      BY DEF BeginFails, BrokerInv, BrokerTypeOK
<1>4. /\ Later(records[s], r2) /\ Quiet(r, r2) /\ ~Live(r2) /\ Later(r, r2)
      BY <1>1, LaterEnds, LaterTrans
<1>5. Quiet(records[s], r2)
      BY <1>4 DEF Quiet
<1>6. /\ p2 \in Page /\ p2.route = FALSE /\ p2.done = page[s].done
      /\ p2.verifying = page[s].verifying /\ p2.verified = page[s].verified
      BY <1>2 DEF Page
<1>7. x \in TaskRecord /\ x.kind = "native-failed" /\ x.s = s /\ x.rest = {}
      BY <1>2, RunningFacts DEF TaskKinds, TaskPcs
<1> HIDE DEF r2, p2, x
<1>8. PageFine(p2, r2, delivered[s])
  <2>1. PageFine(page[s], r2, delivered[s])
        BY <1>2, <1>4, PageStays
  <2>. QED
    BY <1>4, <1>6, <2>1 DEF PageFine
<1>9. SessionsFine
      BY <1>2, <1>3, <1>4, <1>5, <1>6, <1>8, OneSessionMoves
<1>10. \A o \in Sessions : RuntimeFine(rt[o], records'[o])
  <2>1. RuntimeFine(rt[s], r2)
        BY <1>2, <1>4 DEF RuntimeFine
  <2>. QED
    BY <1>3, <2>1, RuntimesStay
<1>11. RevokeFine(x, records', issued)
       BY <1>2, <1>7 DEF RevokeFine
<1>. QED
  BY <1>3, <1>7, <1>9, <1>10, <1>11, RevokeStepInv

\* The spawn of begin(): the entry of the new host.
LEMMA SpawnFacts ==
    ASSUME BrokerInv, ~WebRtc, NEW s \in Sessions, s <= issued, NEW g \in 1..MaxGen, Spawn(s, g)
    PROVE  /\ rt' \in [Sessions -> Runtime] /\ hosts' \in [Hosts -> {"none", "up", "ending", "gone"}]
           /\ \A o \in Sessions : o > issued => rt'[o] = NoRuntime
           /\ \A o \in Sessions : \A r : RuntimeFine(rt[o], r) => RuntimeFine(rt'[o], r)
<1>1. PICK h \in Hosts : /\ hosts' = [hosts EXCEPT ![h] = "up"]
                         /\ rt' = [rt EXCEPT ![s] = [NoRuntime EXCEPT !.gen = g, !.host = h]]
      BY DEF Spawn
<1> DEFINE y == [NoRuntime EXCEPT !.gen = g, !.host = h]
<1>2. h \in 0..MaxHosts /\ g \in 0..MaxGen /\ g # 0 /\ issued \in Nat /\ s \in Nat
      /\ \A o \in Sessions : o \in Nat
      BY SessionFacts, BrokerAssumption, SessionsAssumption DEF Hosts, Sessions
<1>3. y \in Runtime /\ y.gen = g /\ y.host = h /\ ~y.connected /\ ~y.suspended /\ y.prepared = 0
      BY <1>2, RuntimeShrinks DEF NoRuntime, Runtime
<1>4. rt' = [rt EXCEPT ![s] = y]
      BY <1>1
<1> HIDE DEF y
<1>5. \A r : RuntimeFine(y, r)
      BY <1>2, <1>3 DEF RuntimeFine
<1>6. \A o \in Sessions : rt'[o] = IF o = s THEN y ELSE rt[o]
      BY <1>4, RuntimeFacts
<1>7. \A o \in Sessions : o > issued => o # s
      BY <1>2
<1>8. hosts' \in [Hosts -> {"none", "up", "ending", "gone"}]
      BY <1>1, RuntimeFacts
<1>. QED
  BY <1>3, <1>4, <1>5, <1>6, <1>7, <1>8, RuntimeFacts

\* The claim of a native client (handle() of broker.ts), then begin() of native-runtime.ts.
LEMMA ClaimNativeInv ==
    ASSUME BrokerInv, NEW t \in Tasks, NEW s \in Sessions, ClaimNative(t, s)
    PROVE  BrokerInv'
<1>1. /\ task[t].kind # "use" /\ calls' \in Nat /\ ~WebRtc /\ deployment.kind = "native"
      /\ UNCHANGED <<issued, deployment, delivered>>
      BY IdleTask DEF ClaimNative, Arrives, WebRtc, BrokerInv, BrokerTypeOK
<1>2. PICK c : Claims(s, c) /\ BeginNative(t, s, c)
      BY DEF ClaimNative, Claims
<1>3. ~page[s].verifying /\ RuntimeFine(rt[s], records[s])
      BY <1>1, SessionFacts DEF PageFine
<1>4. /\ s <= issued /\ s \in 1..issued /\ Later(records[s], c) /\ c.gen \in 1..MaxGen
      /\ Quiet(records[s], c) \/ (UsesOf(s) = {} /\ c.inFlight = records[s].inFlight)
      /\ PageFine(page[s], c, delivered[s])
      BY <1>2, <1>3, ClaimFacts
<1>5. RuntimeFine(rt[s], c)
      BY <1>1, <1>3 DEF RuntimeFine
<1>6. CASE BeginFails(t, s, c)
      BY <1>1, <1>4, <1>6, BeginFailsInv
<1>7. ASSUME records' = [records EXCEPT ![s] = c], UNCHANGED page
      PROVE  SessionsFine /\ \A o \in Sessions : RuntimeFine(rt[o], records'[o])
      BY <1>1, <1>4, <1>5, <1>7, OneRecordMoves, RuntimesStay
<1>8. CASE records' = [records EXCEPT ![s] = c] /\ UNCHANGED <<page, rt, hosts, task>>
      BY <1>5, <1>7, <1>8, OneSessionStep
<1>9. CASE Spawn(s, c.gen) /\ records' = [records EXCEPT ![s] = c] /\ UNCHANGED <<page, task>>
      BY <1>1, <1>4, <1>7, <1>9, SpawnFacts, SessionOnlyStep
<1>10. CASE /\ records' = [records EXCEPT ![s] = c] /\ UNCHANGED page
            /\ RevokeStep(t, Running("native", "begin", s, c.gen))
  <2> DEFINE x == Running("native", "begin", s, c.gen)
  <2>1. /\ c.gen \in 0..MaxGen /\ c.gen > 0 /\ s \in 0..MaxSessions /\ issued \in Nat
        BY <1>4, SessionFacts, SessionsAssumption
  <2>2. x \in TaskRecord /\ x.kind = "native" /\ x.s = s /\ x.rest = {} /\ x.gen = c.gen
        BY <2>1, RunningFacts DEF TaskKinds, TaskPcs
  <2> HIDE DEF x
  <2>3. RevokeFine(x, records', issued)
        BY <1>1, <1>4, <2>1, <2>2 DEF RevokeFine
  <2>. QED
    BY <1>1, <1>7, <1>10, <2>2, <2>3, RevokeStepInv DEF x
<1>. QED
  BY <1>2, <1>6, <1>8, <1>9, <1>10 DEF BeginNative

\* A native claim goes on once the host of an earlier client is stopped, or fails.
LEMMA NativeTaskInv ==
    ASSUME BrokerInv, NEW t \in Tasks, NativeBegun(t) \/ NativeRevokeFails(t)
    PROVE  BrokerInv'
<1> DEFINE s == task[t].s
<1>1. /\ task[t].kind = "native" /\ calls' \in Nat /\ UNCHANGED <<issued, deployment, delivered, calls>>
      BY DEF NativeBegun, NativeRevokeFails, BrokerInv, BrokerTypeOK
<1>2. /\ TaskFine(task[t], records, page, issued) /\ task[t] \in TaskRecord
      /\ s \in 1..issued /\ s \in Sessions /\ s <= issued
      BY <1>1, TaskFacts
<1>3. ~WebRtc /\ task[t].gen \in 1..MaxGen
      BY <1>1, <1>2, SessionsAssumption DEF TaskFine, WebRtc, TaskRecord
<1>4. /\ Later(records[s], records[s]) /\ PageFine(page[s], records[s], delivered[s])
      BY <1>2, SessionFacts
<1>5. CASE BeginFails(t, s, records[s])
      BY <1>1, <1>2, <1>3, <1>4, <1>5, BeginFailsInv
<1>6. CASE Spawn(s, task[t].gen) /\ Finish(t) /\ UNCHANGED <<records, page>>
  <2>1. /\ rt' \in [Sessions -> Runtime] /\ hosts' \in [Hosts -> {"none", "up", "ending", "gone"}]
        /\ \A o \in Sessions : o > issued => rt'[o] = NoRuntime
        /\ \A o \in Sessions : \A r : RuntimeFine(rt[o], r) => RuntimeFine(rt'[o], r)
        BY <1>2, <1>3, <1>6, SpawnFacts
  <2>2. \A o \in Sessions : RuntimeFine(rt'[o], records[o])
        BY <2>1, RuntimeFacts
  <2>3. Unasked
        BY <1>1, <1>6 DEF Unasked
  <2>. QED
    BY <1>1, <1>6, <2>1, <2>2, <2>3, FinishInv
<1>. QED
  BY <1>5, <1>6 DEF NativeBegun, NativeRevokeFails
-----------------------------------------------------------------------------
(* The invariant of every step.                                             *)

\* No session was made yet (the constructors of the broker, the manager and the runtime).
LEMMA BrokerInit == HandoffInit => BrokerInv
<1>1. SUFFICES ASSUME HandoffInit PROVE BrokerInv
      OBVIOUS
<1>2. /\ records = [s \in Sessions |-> Gone] /\ issued = 0
      /\ page = [s \in Sessions |-> NoPage] /\ rt = [s \in Sessions |-> NoRuntime]
      /\ hosts = [h \in Hosts |-> "none"] /\ task = [t \in Tasks |-> Idle]
      /\ delivered = [s \in Sessions |-> 0] /\ deployment \in Deployments /\ calls = 0
      BY <1>1 DEF HandoffInit, Init, SessionsInit
<1>3. NoPage \in Page /\ ~NoPage.verifying /\ ~NoPage.verified /\ ~NoPage.done
      BY DEF NoPage, Page
<1>4. BrokerTypeOK
      BY <1>2, <1>3, GoneRecord, RuntimeShrinks, IdleTask, SessionsAssumption DEF BrokerTypeOK
<1>5. RecordInv
      BY <1>2, GoneRecord DEF RecordInv
<1>6. UseInv
  <2>1. \A s \in Sessions : UsesOf(s) = {} /\ ~Live(records[s])
        BY <1>2, IdleTask, GoneRecord DEF UsesOf
  <2>. QED
    BY <2>1, FS_EmptySet DEF UseInv
<1>7. RuntimeInv
      BY <1>2, RuntimeShrinks DEF RuntimeInv
<1>8. PageInv
      BY <1>2, <1>3, GoneRecord DEF PageInv, PageFine
<1>9. TaskInv
  <2>1. \A t \in Tasks : TaskFine(task[t], records, page, issued)
        BY <1>2, IdleFine
  <2>2. OneFinalization
        BY <1>2, IdleTask DEF OneFinalization
  <2>. QED
    BY <2>1, <2>2 DEF TaskInv
<1>. QED
  BY <1>4, <1>5, <1>6, <1>7, <1>8, <1>9 DEF BrokerInv

\* The adapter and core only watch.
LEMMA BrokerStutter == BrokerInv /\ UNCHANGED vars => BrokerInv'
<1>1. SUFFICES ASSUME BrokerInv, UNCHANGED vars PROVE BrokerInv'
      OBVIOUS
<1>2. /\ records' = records /\ issued' = issued /\ deployment' = deployment /\ page' = page
      /\ rt' = rt /\ hosts' = hosts /\ task' = task /\ calls' = calls /\ delivered' = delivered
      BY <1>1 DEF vars, sessionVars
<1>3. Unasked
      BY <1>2 DEF Unasked
<1>. QED
  BY <1>1, <1>2, <1>3, RuntimeFacts, HostStep

\* Every action of the broker, the native claims and the window adapters keeps the invariant.
LEMMA BrokerStep == BrokerInv /\ strays \subseteq Stray /\ HandoffNext => BrokerInv'
<1>1. SUFFICES ASSUME BrokerInv, strays \subseteq Stray, HandoffNext PROVE BrokerInv'
      OBVIOUS
<1>2. ASSUME NEW s \in Sessions, RouteForgotten(s) PROVE BrokerInv'
      BY <1>1, <1>2, BrokerStutter DEF RouteForgotten
<1>3. ASSUME NEW s \in Sessions, NEW e \in Epochs, Start(e, s) PROVE BrokerInv'
      BY <1>1, <1>3, LinkInv DEF Start
<1>4. ASSUME NEW s \in Sessions, NEW t \in Tasks, Requests(t, s) PROVE BrokerInv'
      BY <1>1, <1>4, PrepareInv, ConnectInv, SuspendInv, CompleteInv, DoneInv, BeginUseInv
         DEF Requests
<1>5. ASSUME NEW t \in Tasks, Revoke(t) PROVE BrokerInv'
      BY <1>1, <1>5, RevokeAllInv DEF Revoke
<1>6. ASSUME NEW t \in Tasks, Continues(t) PROVE BrokerInv'
      BY <1>1, <1>6, CredentialInv, SettlesInv, PrepareStepInv, RequestFailsInv, StartEndsInv,
         FinalizeInv, HookInv, NextSessionInv, EndUseInv DEF Continues
<1>7. ASSUME NEW s \in Sessions, Happens(s) PROVE BrokerInv'
      BY <1>1, <1>7, HostMovesInv, RuntimeEndsInv, TimeInv, CleanupInv, BootstrapInv DEF Happens
<1>8. ASSUME Works PROVE BrokerInv'
      BY <1>1, <1>6, <1>7, <1>8, VerifyInv, LinkInv, HostMovesInv, RuntimeEndsInv DEF Works
<1>9. ASSUME NativeWorks PROVE BrokerInv'
      BY <1>1, <1>9, NativeTaskInv, ClaimNativeInv, CleanupInv, LinkInv, HostMovesInv DEF NativeWorks
<1>. QED
  BY <1>1, <1>2, <1>3, <1>4, <1>5, <1>8, <1>9 DEF HandoffNext
-----------------------------------------------------------------------------
(* A session that its consumer verifies has no client.                      *)

\* end() releases the client before it opens the verification, and no request gives a session
\* a client while it is verified: but for the end of a stray that was taken for its session.
AskedInv ==
    \A s \in Sessions :
        page[s].verifying /\ Live(records[s]) => records[s].released \/ Misled(s)
FenceInv == strays \subseteq Stray /\ AskedInv

\* No stray that misled the broker is forgotten.
MisledStays == \A s \in Sessions : Misled(s) => Misled(s)'

\* What is left of a session is no more than it was, and a released client stays released.
Calmer(s) == Live(records'[s]) => Live(records[s]) /\ (records[s].released => records'[s].released)

\* A step that opens no verification of a client, and no client of a session in one.
LEMMA FenceKept ==
    ASSUME FenceInv, strays' \subseteq Stray, MisledStays,
           \A s \in Sessions : page'[s].verifying =>
               \/ page[s].verifying /\ Calmer(s)
               \/ ~Live(records'[s]) \/ records'[s].released \/ Misled(s)'
    PROVE  FenceInv'
<1>1. SUFFICES ASSUME NEW s \in Sessions, page'[s].verifying, Live(records'[s])
               PROVE  records'[s].released \/ Misled(s)'
      BY DEF FenceInv, AskedInv
<1>. QED
  BY <1>1 DEF FenceInv, AskedInv, MisledStays, Calmer

\* No stray goes astray or ends.
LEMMA StraysStay ==
    ASSUME FenceInv, strays \subseteq strays', strays' \subseteq Stray
    PROVE  MisledStays
  BY DEF MisledStays, Misled

\* One session moves on, its client at most released, and no verification is opened.
LEMMA FenceEnds ==
    ASSUME BrokerInv, FenceInv, strays' = strays, NEW s \in Sessions, NEW r2,
           records' = [records EXCEPT ![s] = r2],
           Later(records[s], r2), Quiet(records[s], r2),
           \A o \in Sessions : page'[o].verifying => page[o].verifying
    PROVE  FenceInv'
<1>1. \A o \in Sessions : records'[o] = IF o = s THEN r2 ELSE records[o]
      BY DEF BrokerInv, BrokerTypeOK
<1>2. \A o \in Sessions : Calmer(o)
      BY <1>1 DEF Calmer, Later, Quiet
<1>3. strays' \subseteq Stray /\ MisledStays
      BY StraysStay DEF FenceInv
<1>. QED
  BY <1>2, <1>3, FenceKept

\* The records and maps stay as they are.
LEMMA FenceSame ==
    ASSUME BrokerInv, FenceInv, strays \subseteq strays', strays' \subseteq Stray,
           records' = records, \A o \in Sessions : page'[o].verifying => page[o].verifying
    PROVE  FenceInv'
<1>1. \A o \in Sessions : Calmer(o)
      BY DEF Calmer
<1>. QED
  BY <1>1, StraysStay, FenceKept

\* A runtime that loses its entry.
LEMMA StrayedFacts ==
    ASSUME BrokerInv, FenceInv, NEW s \in Sessions, NEW how \in {"failed", "lost", "misled"}
    PROVE  strays \subseteq Strayed(s, how) /\ Strayed(s, how) \subseteq Stray
<1>1. CASE rt[s].gen = 0
      BY <1>1 DEF Strayed, FenceInv
<1>2. CASE rt[s].gen # 0
  <2>1. rt[s] \in Runtime /\ RuntimeFine(rt[s], records[s]) /\ 0 \in 0..MaxGen /\ rt[s].gen > 0
        BY <1>2, RuntimeFacts, SessionsAssumption DEF Runtime
  <2>2. [host |-> rt[s].host, s |-> s, how |-> how,
         gen |-> IF rt[s].suspended THEN 0 ELSE rt[s].gen] \in Stray
        BY <2>1 DEF Stray, Runtime, RuntimeFine
  <2>. QED
    BY <1>2, <2>2 DEF Strayed, FenceInv
<1>. QED
  BY <1>1, <1>2

\* Steps of the runtime, which asks the session manager for nothing.
LEMMA FenceRuntime ==
    ASSUME BrokerInv, FenceInv,
           \/ \E t \in Tasks :
               \/ CredentialRevoked(t) \/ CredentialFails(t) \/ HostStopped(t) \/ RevokeSettled(t)
               \/ PrepareGoesOn(t) \/ Prepared(t) \/ Answered(t) \/ StartFails(t) \/ ResumeFails(t)
               \/ SuspendGoesOn(t) \/ LoopEnds(t)
           \/ \E s \in Sessions : PeerConnects(s) \/ SuspendedHostExits(s) \/ PreparedExpires(s)
           \/ \E h \in Hosts : HostGone(h) \/ NativeHostExits(h)
    PROVE  FenceInv'
<1>1. CASE \E t \in Tasks : StartFails(t)
  <2>1. PICK t \in Tasks : StartFails(t)
        BY <1>1
  <2>2. task[t].s \in Sessions
        BY <2>1, TaskFacts DEF StartFails, TaskFine
  <2>3. records' = records /\ page' = page /\ \E how \in {"failed", "lost"} : strays' = Strayed(task[t].s, how)
        BY <2>1 DEF StartFails, sessionVars
  <2>. QED
    BY <2>2, <2>3, StrayedFacts, FenceSame
<1>2. CASE ~\E t \in Tasks : StartFails(t)
  <2>1. records' = records /\ page' = page /\ strays' = strays
        BY <1>2 DEF CredentialRevoked, CredentialFails, HostStopped, RevokeSettled, PrepareGoesOn,
           Prepared, Answered, ResumeFails, SuspendGoesOn, LoopEnds, PeerConnects,
           SuspendedHostExits, PreparedExpires, HostGone, NativeHostExits, sessionVars
  <2>. QED
    BY <2>1, FenceSame DEF FenceInv
<1>. QED
  BY <1>1, <1>2

\* Requests and timers that release or end a client, and maps that are cleaned up.
LEMMA FenceReleases ==
    ASSUME BrokerInv, FenceInv,
           NEW t, NEW s,
           \/ /\ t \in Tasks
              /\ \/ PrepareFails(t) \/ FailedRequest(t)
                 \/ s \in Sessions /\ (Connect(t, s) \/ Suspend(t, s) \/ Complete(t, s) \/ Done(t, s))
           \/ s \in Sessions /\ (MediaOver(s) \/ DoneOver(s) \/ RuntimeExpires(s))
    PROVE  FenceInv'
<1>0. /\ records \in [Sessions -> TakeoverRecord] /\ page \in [Sessions -> Page]
      /\ \A o \in Sessions : /\ records[o] \in TakeoverRecord /\ WellFormed(records[o])
                             /\ Later(records[o], records[o]) /\ Quiet(records[o], records[o])
      BY SessionFacts DEF BrokerInv, BrokerTypeOK
<1>1. strays' = strays
      BY DEF PrepareFails, FailedRequest, Connect, Suspend, Complete, Done, MediaOver, DoneOver,
             RuntimeExpires
<1>2. \A o \in Sessions : page'[o].verifying => page[o].verifying
  <2>1. CASE Done(t, s)
    <3>1. page' = [page EXCEPT ![s].route = FALSE, ![s].policy = FALSE]
          BY <2>1 DEF Done
    <3>. QED
      BY <1>0, <3>1 DEF Page
  <2>2. CASE ~Done(t, s)
    <3>1. page' = page
          BY <2>2 DEF PrepareFails, FailedRequest, Connect, Suspend, Complete, MediaOver, DoneOver,
             RuntimeExpires, EndWithNotice
    <3>. QED
      BY <3>1
  <2>. QED
    BY <2>1, <2>2
<1>3. CASE t \in Tasks /\ (PrepareFails(t) \/ FailedRequest(t))
  <2>1. task[t].s \in Sessions
        BY <1>3, TaskFacts DEF PrepareFails, FailedRequest, TaskFine
  <2>2. records' = [records EXCEPT ![task[t].s] = Released(records[task[t].s], task[t].gen)]
        BY <1>3 DEF PrepareFails, FailedRequest, Failed
  <2>. QED
    BY <1>0, <1>1, <1>2, <2>1, <2>2, LaterEnds, FenceEnds
<1>4. CASE s \in Sessions /\ Connect(t, s)
  <2>1. records' = records \/ records' = [records EXCEPT ![s] = Released(records[s], records[s].gen)]
    <3>1. Failed(t, "connect-failed", s, records[s], records[s].gen) \/ TakePrepared(t, s, records[s].gen)
          BY <1>4, Zenon DEF Connect
    <3>2. Failed(t, "connect-failed", s, records[s], records[s].gen) \/ records' = records
          BY <3>1, Zenon DEF TakePrepared
    <3>. QED
      BY <3>2 DEF Failed
  <2>2. CASE records' = records
        BY <1>1, <1>2, <2>2, FenceSame DEF FenceInv
  <2>. QED
    BY <1>0, <1>1, <1>2, <1>4, <2>1, <2>2, LaterEnds, FenceEnds
<1>5. CASE s \in Sessions /\ (Suspend(t, s) \/ RuntimeExpires(s))
  <2>1. PICK g : records' = [records EXCEPT ![s] = Released(records[s], g)]
        BY <1>5 DEF Suspend, RuntimeExpires, EndWithNotice
  <2>. QED
    BY <1>0, <1>1, <1>2, <1>5, <2>1, LaterEnds, FenceEnds
<1>6. CASE s \in Sessions /\ Done(t, s)
      BY <1>0, <1>1, <1>2, <1>6, LaterEnds, FenceEnds DEF Done
<1>7. CASE s \in Sessions /\ Complete(t, s)
  <2>1. records[s].epoch # 0 /\ records' = [records EXCEPT ![s] = Completed(records[s])]
        BY <1>7 DEF Complete, PageFetched
  <2>2. records[s] \in TakeoverRecord /\ WellFormed(records[s])
        BY <1>0, <1>7
  <2>3. Later(records[s], Completed(records[s])) /\ Quiet(records[s], Completed(records[s]))
        BY <2>1, <2>2, LaterMoves
  <2>. QED
    BY <1>1, <1>2, <1>7, <2>1, <2>3, FenceEnds
<1>8. CASE s \in Sessions /\ MediaOver(s)
  <2>1. records[s].epoch # 0 /\ records' = [records EXCEPT ![s] = [records[s] EXCEPT !.mediaOver = TRUE]]
        BY <1>0, <1>8 DEF MediaOver, MediaLeaseEnds
  <2>2. records[s] \in TakeoverRecord /\ WellFormed(records[s])
        BY <1>0, <1>8
  <2>3. Later(records[s], [records[s] EXCEPT !.mediaOver = TRUE]) /\ Quiet(records[s], [records[s] EXCEPT !.mediaOver = TRUE])
        BY <2>1, <2>2, LaterMoves
  <2>. QED
    BY <1>1, <1>2, <1>8, <2>1, <2>3, FenceEnds
<1>9. CASE s \in Sessions /\ DoneOver(s)
  <2>1. /\ records[s].epoch # 0 /\ (records[s].mediaOver \/ records[s].extended)
        /\ records' = [records EXCEPT ![s] = [records[s] EXCEPT !.doneOver = TRUE]]
        BY <1>0, <1>9 DEF DoneOver, CompletionWindowEnds
  <2>2. records[s] \in TakeoverRecord /\ WellFormed(records[s])
        BY <1>0, <1>9
  <2>3. Later(records[s], [records[s] EXCEPT !.doneOver = TRUE]) /\ Quiet(records[s], [records[s] EXCEPT !.doneOver = TRUE])
        BY <2>1, <2>2, LaterMoves
  <2>. QED
    BY <1>1, <1>2, <1>9, <2>1, <2>3, FenceEnds
<1>. QED
  BY <1>3, <1>4, <1>5, <1>6, <1>7, <1>8, <1>9

\* The maps are cleaned up, by a timer, a loop or a finalization.
LEMMA FenceCleanups ==
    ASSUME BrokerInv, FenceInv, NEW t, NEW s,
           \/ /\ t \in Tasks
              /\ FinalizeCompletion(t) \/ CompletedHook(t) \/ NextSession(t)
           \/ /\ s \in Sessions
              /\ MediaCleanup(s) \/ CompletionCleanup(s) \/ NativeLinkExpires(s)
    PROVE  FenceInv'
<1>1. page \in [Sessions -> Page] /\ ~NoPage.verifying
      BY DEF BrokerInv, BrokerTypeOK, NoPage
<1>2. records' = records /\ strays' = strays
  <2>1. CASE FinalizeCompletion(t) \/ CompletedHook(t) \/ MediaCleanup(s) \/ CompletionCleanup(s)
             \/ NativeLinkExpires(s)
        BY <2>1 DEF FinalizeCompletion, CompletedHook, MediaCleanup, CompletionCleanup,
           NativeLinkExpires, sessionVars
  <2>2. CASE NextSession(t)
        BY <2>2, Zenon DEF NextSession, sessionVars
  <2>. QED
    BY <2>1, <2>2
<1>3. \A o \in Sessions : page'[o].verifying => page[o].verifying
  <2>1. CASE t \in Tasks /\ FinalizeCompletion(t)
    <3>1. page' = [page EXCEPT ![task[t].s] = [@ EXCEPT !.route = FALSE, !.policy = FALSE,
                                                 !.ends = FALSE, !.verifying = FALSE]]
          BY <2>1 DEF FinalizeCompletion
    <3>. QED
      BY <1>1, <3>1 DEF Page
  <2>2. CASE t \in Tasks /\ CompletedHook(t)
    <3>1. page' = page \/ page' = [page EXCEPT ![task[t].s].done = TRUE]
          BY <2>2 DEF CompletedHook
    <3>. QED
      BY <1>1, <3>1 DEF Page
  <2>3. CASE t \in Tasks /\ NextSession(t)
    <3>1. PICK o \in task[t].rest :
              page' = page \/ page' = [page EXCEPT ![o].verifying = FALSE, ![o].verified = TRUE,
                                                           ![o].policy = FALSE]
          BY <2>3, Zenon DEF NextSession
    <3>2. o \in Sessions
          BY <2>3, TaskFacts DEF TaskRecord
    <3>3. CASE page' = page
          BY <3>3
    <3>4. CASE page' = [page EXCEPT ![o].verifying = FALSE, ![o].verified = TRUE,
                                    ![o].policy = FALSE]
          BY <1>1, <3>2, <3>4 DEF Page
    <3>. QED
      BY <3>1, <3>3, <3>4
  <2>4. CASE s \in Sessions /\ MediaCleanup(s)
    <3>1. page' = [page EXCEPT ![s].policy = FALSE]
          BY <2>4 DEF MediaCleanup
    <3>. QED
      BY <1>1, <3>1 DEF Page
  <2>5. CASE s \in Sessions /\ CompletionCleanup(s)
        BY <1>1, <2>5 DEF CompletionCleanup
  <2>6. CASE s \in Sessions /\ NativeLinkExpires(s)
    <3>1. page' = [page EXCEPT ![s].route = FALSE]
          BY <2>6 DEF NativeLinkExpires
    <3>. QED
      BY <1>1, <3>1 DEF Page
  <2>. QED
    BY <2>1, <2>2, <2>3, <2>4, <2>5, <2>6
<1>. QED
  BY <1>2, <1>3, FenceSame DEF FenceInv

\* All sessions of an intervention end, or of an epoch.
LEMMA FenceAllEnd ==
    ASSUME BrokerInv, FenceInv, NEW t \in Tasks,
           RevokeForIntervention(t) \/ \E e \in Epochs : CompleteAfterVerification(t, e)
    PROVE  FenceInv'
<1>1. strays' = strays
      BY DEF RevokeForIntervention, CompleteAfterVerification
<1>2. \A s \in Sessions :
          ~page'[s].verifying \/ (page' = page /\ Calmer(s))
  <2>1. CASE RevokeForIntervention(t)
    <3>1. page' = [s \in Sessions |-> [NoPage EXCEPT !.done = page[s].done /\ ~page[s].route]]
          BY <2>1 DEF RevokeForIntervention
    <3>2. \A s \in Sessions : ~page'[s].verifying
          BY <3>1 DEF NoPage
    <3>. QED
      BY <3>2
  <2>2. ASSUME NEW e \in Epochs, CompleteAfterVerification(t, e)
        PROVE  \A s \in Sessions : page' = page /\ Calmer(s)
        BY <2>2, VerifiedLater DEF CompleteAfterVerification, BrokerInv, Calmer, Later, Quiet
  <2>. QED
    BY <2>1, <2>2
<1>. QED
  BY <1>1, <1>2, StraysStay, FenceKept DEF FenceInv

\* A link reuses the live session of its epoch as it is, or makes one of which nothing is
\* known.
LEMMA FenceLinks ==
    ASSUME BrokerInv, FenceInv, NEW e \in Epochs, NEW s \in Sessions,
           CreateLink(e, s) \/ CreateWebRtcLink(e, s) \/ CreateNativeLink(e, s)
    PROVE  FenceInv'
<1>1. Ensure(e, s) /\ strays' = strays
      BY DEF CreateLink, CreateWebRtcLink, CreateNativeLink
<1>2. /\ page \in [Sessions -> Page]
      /\ \A o \in Sessions : o # s => ~Live(records'[o])
      /\ (records'[s] = records[s]) \/ (s > issued)
      /\ s > issued => page[s] = NoPage
      BY <1>1, EnsureFacts, SessionFacts DEF BrokerInv, BrokerTypeOK
<1>3. page'[s].verifying => page[s].verifying
  <2>1. CASE CreateLink(e, s)
        BY <2>1 DEF CreateLink
  <2>2. CASE CreateWebRtcLink(e, s)
    <3>1. page'[s] = IF page[s].verifying THEN page[s]
                     ELSE [page[s] EXCEPT !.route = TRUE, !.known = TRUE, !.policy = TRUE,
                                          !.ends = deployment.ends]
          BY <2>2 DEF CreateWebRtcLink
    <3>2. page[s] \in Page
          BY <1>2
    <3>3. CASE page[s].verifying
          BY <3>3
    <3>4. CASE ~page[s].verifying
      <4>1. page'[s] = [page[s] EXCEPT !.route = TRUE, !.known = TRUE, !.policy = TRUE,
                                          !.ends = deployment.ends]
            BY <3>1, <3>4
      <4>2. page'[s].verifying = page[s].verifying
            BY <3>2, <4>1 DEF Page
      <4>. QED
        BY <4>2
    <3>. QED
      BY <3>3, <3>4
  <2>3. CASE CreateNativeLink(e, s)
    <3>1. page'[s] = [page[s] EXCEPT !.route = s = s]
          BY <2>3 DEF CreateNativeLink
    <3>2. page[s] \in Page /\ page'[s].verifying = page[s].verifying
          BY <1>2, <3>1 DEF Page
    <3>. QED
      BY <3>2
  <2>. QED
    BY <2>1, <2>2, <2>3
<1>4. ~NoPage.verifying
      BY DEF NoPage
<1>5. ASSUME NEW o \in Sessions, page'[o].verifying
      PROVE  (page[o].verifying /\ Calmer(o)) \/ ~Live(records'[o])
  <2>1. CASE o # s
        BY <1>2, <2>1
  <2>2. CASE o = s
        BY <1>2, <1>3, <1>4, <1>5, <2>2 DEF Calmer
  <2>. QED
    BY <2>1, <2>2
<1>. QED
  BY <1>1, <1>5, StraysStay, FenceKept DEF FenceInv

\* Sessions of deployments in which no one is verified.
LEMMA FenceOthers ==
    ASSUME BrokerInv, FenceInv, NEW t, NEW s,
           \/ s \in Sessions /\ (Bootstrap(s) \/ BeginUse(t, s) \/ ClaimNative(t, s))
           \/ t \in Tasks /\ (NativeBegun(t) \/ NativeRevokeFails(t))
    PROVE  FenceInv'
<1>1. /\ page \in [Sessions -> Page] /\ \A o \in Sessions : page[o].verifying => WebRtc
      /\ strays \subseteq Stray
      BY SessionFacts DEF BrokerInv, BrokerTypeOK, PageFine, FenceInv
<1>2. ~WebRtc
      BY TaskFacts DEF Bootstrap, BeginUse, ClaimNative, NativeBegun, NativeRevokeFails, TaskFine, WebRtc
<1>3. ASSUME NEW o \in Sessions, NEW g, Spawn(o, g)
      PROVE  strays \subseteq strays' /\ strays' \subseteq Stray
  <2>1. strays' = Strayed(o, "lost")
        BY <1>3 DEF Spawn
  <2>. QED
    BY <2>1, StrayedFacts
<1>4. ASSUME NEW o \in Sessions, NEW r, BeginFails(t, o, r)
      PROVE  strays' = strays /\ page' = [page EXCEPT ![o].route = FALSE]
      BY <1>4 DEF BeginFails
<1>5. CASE s \in Sessions /\ (Bootstrap(s) \/ BeginUse(t, s))
  <2>1. page' = page /\ strays' = strays
        BY <1>5 DEF Bootstrap, BeginUse
  <2>. QED
    BY <1>1, <1>2, <2>1, StraysStay, FenceKept
<1>6. CASE \/ s \in Sessions /\ ClaimNative(t, s)
           \/ t \in Tasks /\ (NativeBegun(t) \/ NativeRevokeFails(t))
  <2>1. \E o \in Sessions : \E g, r :
            \/ page' = page /\ (strays' = strays \/ Spawn(o, g))
            \/ BeginFails(t, o, r)
    <3>1. CASE s \in Sessions /\ ClaimNative(t, s)
      <4>1. PICK r : BeginNative(t, s, r)
            BY <3>1 DEF ClaimNative
      <4>2. \/ page' = page /\ (strays' = strays \/ Spawn(s, r.gen))
            \/ BeginFails(t, s, r)
            BY <4>1, Zenon DEF BeginNative
      <4>. QED
        BY <3>1, <4>2, Zenon
    <3>2. CASE t \in Tasks /\ (NativeBegun(t) \/ NativeRevokeFails(t))
      <4>1. task[t].s \in Sessions
            BY <3>2, TaskFacts DEF NativeBegun, NativeRevokeFails
      <4>. QED
        BY <3>2, <4>1 DEF NativeBegun, NativeRevokeFails
    <3>. QED
      BY <1>6, <3>1, <3>2
  <2>2. PICK o \in Sessions : \E g, r :
            \/ page' = page /\ (strays' = strays \/ Spawn(o, g))
            \/ BeginFails(t, o, r)
        BY <2>1
  <2>3. /\ strays \subseteq strays' /\ strays' \subseteq Stray
        /\ page' = page \/ page' = [page EXCEPT ![o].route = FALSE]
        BY <1>1, <1>3, <1>4, <2>2
  <2>4. \A v \in Sessions : page'[v].verifying => page[v].verifying
        BY <1>1, <2>3 DEF Page
  <2>. QED
    BY <1>1, <1>2, <2>3, <2>4, StraysStay, FenceKept
<1>. QED
  BY <1>5, <1>6

\* A client is given a session by prepare, which the page refuses while it is verified.
LEMMA FenceClaims ==
    ASSUME BrokerInv, FenceInv, NEW t \in Tasks, NEW s,
           (s \in Sessions /\ Prepare(t, s)) \/ EndUse(t)
    PROVE  FenceInv'
<1>1. page' = page /\ strays' = strays
      BY DEF Prepare, EndUse
<1>2. CASE s \in Sessions /\ Prepare(t, s)
  <2>1. ~page[s].verifying
        BY <1>2 DEF Prepare, Shows
  <2>2. \E r2 : records' = [records EXCEPT ![s] = r2]
        BY <1>2 DEF Prepare, PrepareRuntime, Failed
  <2>3. \A o \in Sessions : o # s => Calmer(o)
        BY <2>2 DEF BrokerInv, BrokerTypeOK, Calmer
  <2>. QED
    BY <1>1, <2>1, <2>3, StraysStay, FenceKept DEF FenceInv
<1>3. CASE EndUse(t)
  <2>1. task[t].s \in Sessions
        BY <1>3, TaskFacts DEF EndUse
  <2>2. records' = [records EXCEPT ![task[t].s] = UseEnded(@, task[t].gen)]
        BY <1>3 DEF EndUse
  <2>3. \A o \in Sessions : Calmer(o)
    <3>1. ASSUME NEW o \in Sessions PROVE Calmer(o)
      <4>1. records[o] \in TakeoverRecord /\ records \in [Sessions -> TakeoverRecord]
            BY DEF BrokerInv, BrokerTypeOK
      <4>2. records'[o] = IF o = task[t].s THEN UseEnded(records[o], task[t].gen) ELSE records[o]
            BY <2>2, <4>1
      <4>3. LET r == UseEnded(records[o], task[t].gen) IN
            r.revoked = records[o].revoked /\ r.mediaOver = records[o].mediaOver
            /\ r.released = records[o].released
            BY <4>1 DEF UseEnded, TakeoverRecord
      <4>. QED
        BY <4>2, <4>3 DEF Calmer, Live
    <3>. QED
      BY <3>1
  <2>. QED
    BY <1>1, <2>3, StraysStay, FenceKept DEF FenceInv
<1>. QED
  BY <1>2, <1>3

\* end() with notice of the session's entry: its own client is released first; of a suspended
\* one the session may have another client, and then a stray was at fault.
LEMMA FenceNotice ==
    ASSUME BrokerInv, FenceInv, NEW s \in Sessions, NEW terminal \in BOOLEAN,
           EndWithNotice(s, terminal), WebRtc, rt[s].gen > 0,
           strays' \subseteq Stray, MisledStays,
           rt[s].suspended /\ page' # page => Misled(s)'
    PROVE  FenceInv'
<1> DEFINE r2 == Released(records[s], rt[s].gen)
<1>1. /\ records[s] \in TakeoverRecord /\ WellFormed(records[s]) /\ RuntimeFine(rt[s], records[s])
      /\ page \in [Sessions -> Page] /\ records \in [Sessions -> TakeoverRecord]
      BY SessionFacts DEF BrokerInv, BrokerTypeOK
<1>2. /\ Later(records[s], r2) /\ Quiet(records[s], r2) /\ r2.gen = records[s].gen
      /\ Live(r2) /\ rt[s].gen = records[s].gen => r2.released
      BY <1>1, LaterEnds
<1>3. records' = [records EXCEPT ![s] = r2]
      BY DEF EndWithNotice
<1> HIDE DEF r2
<1>4. \A o \in Sessions : records'[o] = IF o = s THEN r2 ELSE records[o]
      BY <1>1, <1>3
<1>5. \A o \in Sessions : Calmer(o)
      BY <1>2, <1>4 DEF Calmer, Later, Quiet
<1>6. \A o \in Sessions : o # s /\ page'[o].verifying => page[o].verifying
  <2>1. page' = page \/ page' = [page EXCEPT ![s].verifying = TRUE, ![s].policy = FALSE]
        BY DEF EndWithNotice
  <2>. QED
    BY <1>1, <2>1
<1>7. page' # page => ~Live(r2) \/ r2.released \/ Misled(s)'
  <2>1. Live(r2) => Live(records[s])
        BY <1>2 DEF Later
  <2>. QED
    BY <1>1, <1>2, <2>1 DEF RuntimeFine
<1>. QED
  BY <1>4, <1>5, <1>6, <1>7, FenceKept

\* A runtime is lost, or a stray fails.
LEMMA FenceLost ==
    ASSUME BrokerInv, FenceInv,
           (\E s \in Sessions : RuntimeLost(s)) \/ \E o \in strays : StrayFails(o)
    PROVE  FenceInv'
<1>1. ASSUME NEW s \in Sessions, RuntimeLost(s) PROVE FenceInv'
  <2>1. /\ \E terminal \in BOOLEAN : EndWithNotice(s, terminal)
        /\ WebRtc /\ rt[s].gen > 0 /\ ~rt[s].suspended /\ strays' = strays
        BY <1>1 DEF RuntimeLost, WebRtc
  <2>2. strays' \subseteq Stray /\ MisledStays
        BY <2>1, StraysStay DEF FenceInv
  <2>. QED
    BY <2>1, <2>2, FenceNotice
<1>2. ASSUME NEW o \in strays, StrayFails(o) PROVE FenceInv'
  <2> DEFINE m == [o EXCEPT !.how = "misled"]
  <2>1. /\ o \in Stray /\ o.s \in Sessions /\ m \in Stray /\ m.s = o.s /\ m.how = "misled"
        BY DEF FenceInv, Stray
  <2>2. /\ \E terminal \in BOOLEAN : EndWithNotice(o.s, terminal)
        /\ WebRtc /\ rt[o.s].gen > 0
        /\ strays' = IF rt[o.s].suspended /\ page' # page
                     THEN (strays \ {o}) \union {m} ELSE strays
        BY <1>2 DEF StrayFails, StrayOf, WebRtc
  <2> HIDE DEF m
  <2>3. strays' \subseteq Stray
        BY <2>1, <2>2 DEF FenceInv
  <2>4. MisledStays
    <3>1. ASSUME NEW s \in Sessions, Misled(s) PROVE Misled(s)'
      <4>1. PICK x \in strays : x.s = s /\ x.how = "misled"
            BY <3>1 DEF Misled
      <4>2. x \in strays' \/ (x = o /\ m \in strays')
            BY <2>2, <4>1
      <4>. QED
        BY <2>1, <4>1, <4>2 DEF Misled
    <3>. QED
      BY <3>1 DEF MisledStays
  <2>5. rt[o.s].suspended /\ page' # page => Misled(o.s)'
    <3>1. ASSUME rt[o.s].suspended, page' # page PROVE Misled(o.s)'
      <4>1. m \in strays' /\ m.s = o.s /\ m.how = "misled"
            BY <2>1, <2>2, <3>1
      <4>. QED
        BY <4>1 DEF Misled
    <3>. QED
      BY <3>1
  <2>. QED
    BY <2>1, <2>2, <2>3, <2>4, <2>5, FenceNotice
<1>. QED
  BY <1>1, <1>2

\* Every action of the broker keeps it.
LEMMA FenceStep == BrokerInv /\ FenceInv /\ HandoffNext => FenceInv'
<1>1. SUFFICES ASSUME BrokerInv, FenceInv, HandoffNext PROVE FenceInv'
      OBVIOUS
<1>2. ASSUME NEW s \in Sessions, RouteForgotten(s) PROVE FenceInv'
  <2>1. records' = records /\ page' = page /\ strays' = strays
        BY <1>2 DEF RouteForgotten, vars, sessionVars
  <2>. QED
    BY <1>1, <2>1, FenceSame DEF FenceInv
<1>3. ASSUME NEW s \in Sessions, NEW e \in Epochs, Start(e, s) PROVE FenceInv'
      BY <1>1, <1>3, FenceLinks DEF Start
<1>4. ASSUME NEW s \in Sessions, NEW t \in Tasks, Requests(t, s) PROVE FenceInv'
      BY <1>1, <1>4, FenceClaims, FenceReleases, FenceOthers DEF Requests
<1>5. ASSUME NEW t \in Tasks, Revoke(t) PROVE FenceInv'
      BY <1>1, <1>5, FenceAllEnd DEF Revoke
<1>6. ASSUME NEW t \in Tasks, Continues(t) PROVE FenceInv'
  <2>1. CASE EndUse(t) \/ PrepareFails(t) \/ FailedRequest(t) \/ FinalizeCompletion(t)
             \/ CompletedHook(t) \/ NextSession(t)
        BY <1>1, <2>1, FenceClaims, FenceReleases, FenceCleanups
  <2>2. CASE ~(EndUse(t) \/ PrepareFails(t) \/ FailedRequest(t) \/ FinalizeCompletion(t)
               \/ CompletedHook(t) \/ NextSession(t))
        BY <1>1, <1>6, <2>2, FenceRuntime DEF Continues
  <2>. QED
    BY <2>1, <2>2
<1>7. ASSUME NEW s \in Sessions, Happens(s) PROVE FenceInv'
      BY <1>1, <1>7, FenceRuntime, FenceLost, FenceReleases, FenceCleanups, FenceOthers DEF Happens
<1>8. ASSUME Works PROVE FenceInv'
      BY <1>1, <1>6, <1>7, <1>8, FenceAllEnd, FenceLinks, FenceRuntime, FenceLost DEF Works
<1>9. ASSUME NativeWorks PROVE FenceInv'
      BY <1>1, <1>9, FenceOthers, FenceCleanups, FenceLinks, FenceRuntime DEF NativeWorks
<1>. QED
  BY <1>1, <1>2, <1>3, <1>4, <1>5, <1>8, <1>9 DEF HandoffNext

\* The adapter and core only watch, and in the beginning nothing is verified.
LEMMA FenceInit == HandoffInit => FenceInv
<1>1. SUFFICES ASSUME HandoffInit PROVE FenceInv
      OBVIOUS
<1>2. strays = {} /\ \A s \in Sessions : ~page[s].verifying
      BY <1>1 DEF HandoffInit, Init, NoPage
<1>. QED
  BY <1>2 DEF FenceInv, AskedInv

\* The records, uses, runtimes, maps and requests of the broker stay consistent, whatever
\* requests, timers, losses and revocations come in between (broker.ts, session.ts,
\* webrtc-runtime.ts), and a session that is being verified has no client in control.
THEOREM BrokerInvariant == HandoffSpec => [](BrokerInv /\ FenceInv)
<1>1. BrokerInv /\ FenceInv /\ [HandoffNext]_handoffVars => (BrokerInv /\ FenceInv)'
  <2>1. SUFFICES ASSUME BrokerInv, FenceInv, [HandoffNext]_handoffVars
                 PROVE  BrokerInv' /\ FenceInv'
        OBVIOUS
  <2>2. CASE HandoffNext
        BY <2>1, <2>2, BrokerStep, FenceStep DEF FenceInv
  <2>3. CASE UNCHANGED handoffVars
    <3>1. UNCHANGED vars /\ records' = records /\ page' = page /\ strays' = strays
          BY <2>3 DEF handoffVars, vars, sessionVars
    <3>. QED
      BY <2>1, <3>1, BrokerStutter, FenceSame DEF FenceInv
  <2>. QED
    BY <2>1, <2>2, <2>3
<1>. QED
  BY BrokerInit, FenceInit, <1>1, PTL DEF HandoffSpec

\* claimClient(), reconnectClient() and ensure() leave one session with one client in use:
\* a use in flight belongs to the client its session has.
THEOREM OneClient == HandoffSpec => []OneClientInUse
<1>1. BrokerInv => OneClientInUse
  <2>1. SUFFICES ASSUME BrokerInv PROVE OneClientInUse
        OBVIOUS
  <2> DEFINE L == {s \in Sessions : Live(records[s])}
  <2>2. L = {} \/ \E s : L = {s}
        BY <2>1 DEF BrokerInv, RecordInv
  <2>3. Cardinality(L) \in {0, 1}
        BY <2>2, FS_EmptySet, FS_Singleton
  <2>4. OneLiveSession
        BY <2>3 DEF OneLiveSession
  <2>. QED
    BY <2>1, <2>4 DEF OneClientInUse, BrokerInv, UseInv, UsesOf
<1>. QED
  BY <1>1, BrokerInvariant, PTL

\* handleChannelMessage() never carries out an input of a session that is verified or
\* completed; and of one that lost its policy or is being verified, only after the end of a
\* stray was taken for that of its runtime.
THEOREM InputFence == HandoffSpec => []InputIsFenced
<1>1. BrokerInv /\ FenceInv => InputIsFenced
  <2>1. SUFFICES ASSUME BrokerInv, FenceInv, NEW s \in Sessions, InputAdmitted(s)
                 PROVE  /\ ~page[s].verified /\ ~records[s].completed
                        /\ (page[s].policy /\ ~page[s].verifying) \/ Misled(s)
        BY DEF InputIsFenced
  <2>2. PICK g \in 1..MaxGen : ChannelTakes(s, g) /\ MayUse(records[s], g)
        BY <2>1 DEF InputAdmitted
  <2>3. Live(records[s]) /\ ~records[s].released
        BY <2>2 DEF MayUse
  <2>4. PageFine(page[s], records[s], delivered[s]) /\ WellFormed(records[s])
        /\ RuntimeFine(rt[s], records[s])
        BY <2>1, SessionFacts
  <2>5. WebRtc
        BY <2>2, <2>4 DEF ChannelTakes, StrayOf, RuntimeFine, WebRtc
  <2>6. ~page[s].verified /\ ~records[s].completed /\ (page[s].policy \/ page[s].verifying)
        BY <2>3, <2>4, <2>5 DEF PageFine, WellFormed, Live
  <2>7. page[s].verifying => Misled(s)
        BY <2>1, <2>3 DEF FenceInv, AskedInv
  <2>. QED
    BY <2>6, <2>7
<1>. QED
  BY <1>1, BrokerInvariant, PTL

\* finalizeCompletion() calls hooks.completed of a session once within its window, and
\* only for one that was completed.
THEOREM CompletionOnce == HandoffSpec => []CompletionIsDeliveredOnce
<1>1. BrokerInv => CompletionIsDeliveredOnce
  <2>1. SUFFICES ASSUME BrokerInv, NEW s \in Sessions
                 PROVE  /\ delivered[s] > 1 => records[s].doneOver \/ records[s].epoch = 0
                        /\ delivered[s] = 1 => records[s].completed \/ records[s].epoch = 0
        BY DEF CompletionIsDeliveredOnce
  <2>2. PageFine(page[s], records[s], delivered[s]) /\ delivered[s] \in Nat
        BY <2>1, SessionFacts
  <2>3. delivered[s] > 1 => records[s].doneOver \/ records[s].epoch = 0
        BY <2>2 DEF PageFine
  <2>4. delivered[s] = 1 => records[s].completed \/ records[s].epoch = 0
        BY <2>2 DEF PageFine, Over
  <2>. QED
    BY <2>3, <2>4
<1>. QED
  BY <1>1, BrokerInvariant, PTL
-----------------------------------------------------------------------------
(* The helper processes.                                                    *)

\* A host that runs ran before or got an entry, and whoever tracks a host goes on to do
\* so: its entry, unless the host is told to stop, or a stray.
HostsFollow ==
    /\ \A h \in Hosts : hosts'[h] = "up" =>
          hosts[h] = "up" \/ \E s \in Sessions : rt'[s].gen > 0 /\ rt'[s].host = h
    /\ \A s \in Sessions : rt[s].gen > 0 =>
          \/ rt'[s].gen > 0 /\ rt'[s].host = rt[s].host
          \/ ~(rt[s].host \in Hosts /\ hosts'[rt[s].host] = "up")
          \/ \E o \in strays' : o.host = rt[s].host /\ o.how # "failed"
    /\ \A o \in strays : o.how # "failed" =>
          \E x \in strays' : x.host = o.host /\ x.how # "failed"

\* Such a step loses no host.
LEMMA FollowInv ==
    ASSUME HostsAreTracked, HostsFollow
    PROVE  HostsAreTracked'
  BY DEF HostsAreTracked, HostsFollow

\* A step that leaves the hosts alone, and the entries but for who is their client.
LEMMA HostsRest ==
    ASSUME BrokerInv, hosts' = hosts, strays' = strays,
           \/ rt' = rt
           \/ \E s \in Sessions : \E y :
                 /\ rt' = [rt EXCEPT ![s] = y] /\ y.host = rt[s].host
                 /\ (y.gen > 0 <=> rt[s].gen > 0)
    PROVE  HostsFollow
<1>1. rt \in [Sessions -> Runtime]
      BY RuntimeFacts
<1>. QED
  BY <1>1 DEF HostsFollow

\* end() takes an entry away whose host is told to stop.
LEMMA HostsEnd ==
    ASSUME BrokerInv, NEW s \in Sessions, rt' = [rt EXCEPT ![s] = Ended(s)],
           \A h \in Hosts : hosts'[h] = "up" => Stopping(s)[h] = "up",
           \A o \in strays : o.how # "failed" =>
               \E x \in strays' : x.host = o.host /\ x.how # "failed"
    PROVE  HostsFollow
<1>1. /\ rt \in [Sessions -> Runtime]
      /\ \A h \in Hosts : Stopping(s)[h] = "up" => hosts[h] = "up" /\ ~(rt[s].gen > 0 /\ rt[s].host = h)
      BY RuntimeFacts, StoppingTyped DEF BrokerInv
<1>2. \A o \in Sessions : o # s => rt'[o] = rt[o]
      BY <1>1
<1>. QED
  BY <1>1, <1>2 DEF HostsFollow

\* revoke() of the runtime, whoever awaits it.
LEMMA HostsRevoked ==
    ASSUME BrokerInv, NEW t \in Tasks, NEW r \in TaskRecord, r.s \in Sessions, RevokeStep(t, r),
           strays' = strays
    PROVE  HostsFollow
<1>1. PICK x, y : Revoking(t, r, x, y)
      BY RevokeEffect DEF BrokerInv
<1>2. rt \in [Sessions -> Runtime] /\ rt[r.s] \in Runtime
      BY RuntimeFacts
<1>3. rt' = [rt EXCEPT ![r.s] = y] /\ (y.gen = rt[r.s].gen => y.host = rt[r.s].host)
  <2>1. /\ [rt[r.s] EXCEPT !.prepared = 0].host = rt[r.s].host
        /\ rt[r.s].gen = 0 => rt[r.s].host = 0
        BY <1>2 DEF Runtime, BrokerInv, RuntimeInv, RuntimeFine
  <2>2. rt' = [rt EXCEPT ![r.s] = y] /\ (y = NoRuntime \/ y = [rt[r.s] EXCEPT !.prepared = 0])
        BY <1>1 DEF Revoking
  <2>3. NoRuntime.gen = 0 /\ NoRuntime.host = 0
        BY DEF NoRuntime
  <2>. QED
    BY <2>1, <2>2, <2>3
<1>4. \A h \in Hosts : hosts'[h] = "up" =>
          hosts[h] = "up" /\ (rt[r.s].gen > 0 /\ rt[r.s].host = h => y.gen = rt[r.s].gen)
      BY <1>1 DEF Revoking
<1>5. \A o \in Sessions : rt'[o] = IF o = r.s THEN y ELSE rt[o]
      BY <1>2, <1>3
<1>6. ASSUME NEW o \in Sessions, rt[o].gen > 0
      PROVE  \/ rt'[o].gen > 0 /\ rt'[o].host = rt[o].host
             \/ ~(rt[o].host \in Hosts /\ hosts'[rt[o].host] = "up")
      BY <1>3, <1>4, <1>5, <1>6
<1>. QED
  BY <1>4, <1>6 DEF HostsFollow

\* revoke() for a request that begins with it.
LEMMA RevokesFollow ==
    ASSUME BrokerInv, HostsAreTracked, NEW t \in Tasks, NEW kind \in TaskKinds,
           NEW s \in Sessions, NEW g \in 0..MaxGen, RevokeStep(t, Running(kind, "begin", s, g)),
           strays' = strays
    PROVE  HostsAreTracked'
<1> DEFINE r == Running(kind, "begin", s, g)
<1>1. "begin" \in TaskPcs /\ s \in 0..MaxSessions
      BY SessionFacts DEF TaskPcs
<1>2. r \in TaskRecord /\ r.s = s
      BY <1>1, RunningFacts
<1> HIDE DEF r
<1>3. HostsFollow
      BY <1>2, HostsRevoked DEF r
<1>. QED
  BY <1>3, FollowInv

\* The catch of prepare and connect.
LEMMA FailedFollows ==
    ASSUME BrokerInv, HostsAreTracked, NEW t \in Tasks,
           NEW kind \in {"prepare-failed", "connect-failed"},
           NEW s \in Sessions, NEW r, NEW g \in 0..MaxGen, Failed(t, kind, s, r, g),
           strays' = strays
    PROVE  HostsAreTracked'
<1>1. kind \in TaskKinds
      BY DEF TaskKinds
<1>. QED
  BY <1>1, RevokesFollow DEF Failed

\* An entry that is deleted or overwritten leaves a stray in its place.
LEMMA StrayTracks ==
    ASSUME BrokerInv, NEW s \in Sessions
    PROVE  /\ rt[s].gen = 0 => Strayed(s, "lost") = strays
           /\ \A how \in {"failed", "lost"} : strays \subseteq Strayed(s, how)
           /\ rt[s].gen > 0 =>
                  \E o \in Strayed(s, "lost") : o.host = rt[s].host /\ o.how # "failed"
<1>1. rt[s].gen = 0 => Strayed(s, "lost") = strays
      BY DEF Strayed
<1>2. \A how \in {"failed", "lost"} : strays \subseteq Strayed(s, how)
      BY DEF Strayed
<1>3. ASSUME rt[s].gen > 0
      PROVE  \E o \in Strayed(s, "lost") : o.host = rt[s].host /\ o.how # "failed"
  <2> DEFINE o == [host |-> rt[s].host, s |-> s, how |-> "lost",
                   gen |-> IF rt[s].suspended THEN 0 ELSE rt[s].gen]
  <2>1. o.host = rt[s].host /\ o.how = "lost"
        OBVIOUS
  <2>2. o \in Strayed(s, "lost")
        BY <1>3 DEF Strayed
  <2> HIDE DEF o
  <2>. QED
    BY <2>1, <2>2
<1>. QED
  BY <1>1, <1>2, <1>3

\* A fresh host gets the entry of the session, and the host that had it a stray.
LEMMA SpawnHosts ==
    ASSUME BrokerInv, NEW s \in Sessions, NEW g \in 1..MaxGen, NEW h \in Hosts,
           hosts' = [hosts EXCEPT ![h] = "up"],
           rt' = [rt EXCEPT ![s] = [NoRuntime EXCEPT !.gen = g, !.host = h]],
           strays' = Strayed(s, "lost")
    PROVE  HostsFollow
<1>1. /\ rt \in [Sessions -> Runtime]
      /\ hosts \in [Hosts -> {"none", "up", "ending", "gone"}]
      BY RuntimeFacts
<1>2. LET y == [NoRuntime EXCEPT !.gen = g, !.host = h] IN y.gen > 0 /\ y.host = h
      BY SessionsAssumption DEF NoRuntime
<1>3. /\ rt'[s].gen > 0 /\ rt'[s].host = h /\ \A o \in Sessions : o # s => rt'[o] = rt[o]
      /\ \A j \in Hosts : j # h => hosts'[j] = hosts[j]
      BY <1>1, <1>2
<1>4. \A j \in Hosts : hosts'[j] = "up" =>
          hosts[j] = "up" \/ \E o \in Sessions : rt'[o].gen > 0 /\ rt'[o].host = j
      BY <1>3
<1>5. /\ strays \subseteq strays'
      /\ rt[s].gen > 0 => \E o \in strays' : o.host = rt[s].host /\ o.how # "failed"
      BY StrayTracks
<1>6. \A o \in Sessions : rt[o].gen > 0 =>
          \/ rt'[o].gen > 0 /\ rt'[o].host = rt[o].host
          \/ \E x \in strays' : x.host = rt[o].host /\ x.how # "failed"
      BY <1>3, <1>5
<1>. QED
  BY <1>4, <1>5, <1>6 DEF HostsFollow

\* Requests but connect: a prepare ends what is replaced, the others revoke.
LEMMA RequestHosts ==
    ASSUME BrokerInv, HostsAreTracked, NEW t \in Tasks, NEW s \in Sessions,
           Prepare(t, s) \/ Suspend(t, s) \/ Complete(t, s) \/ Done(t, s) \/ BeginUse(t, s)
    PROVE  HostsAreTracked'
<1>1. /\ records[s].gen \in 0..MaxGen /\ 0 \in 0..MaxGen
      /\ rt[s] \in Runtime
      BY SessionFacts, RuntimeFacts, SessionsAssumption
<1>2. strays' = strays
      BY DEF Prepare, Suspend, Complete, Done, BeginUse
<1>3. CASE Prepare(t, s)
  <2>1. PICK c : Claims(s, c) /\ PrepareRuntime(t, s, c)
        BY <1>3 DEF Prepare, Claims
  <2>2. c.gen \in 0..MaxGen
        BY <2>1, ClaimFacts, SessionsAssumption
  <2>3. CASE Failed(t, "prepare-failed", s, c, c.gen)
        BY <1>2, <2>2, <2>3, FailedFollows
  <2>4. CASE ~Refuses(s, c.gen) /\ rt[s].suspended
    <3>1. rt' = [rt EXCEPT ![s] = rt[s]] /\ hosts' = hosts
          BY <2>1, <2>4 DEF PrepareRuntime
    <3>2. HostsFollow
          BY <1>2, <3>1, HostsRest
    <3>. QED
      BY <3>2, FollowInv
  <2>5. CASE ~Refuses(s, c.gen) /\ ~rt[s].suspended
    <3>1. rt' = [rt EXCEPT ![s] = Ended(s)] /\ hosts' = Stopping(s)
          BY <2>1, <2>5 DEF PrepareRuntime
    <3>. QED
      BY <1>2, <3>1, HostsEnd, FollowInv
  <2>. QED
    BY <2>1, <2>3, <2>4, <2>5 DEF PrepareRuntime
<1>4. CASE Suspend(t, s)
  <2>0. "suspend" \in TaskKinds
        BY DEF TaskKinds
  <2>1. CASE RevokeStep(t, Running("suspend", "begin", s, records[s].gen))
        BY <1>1, <1>2, <2>0, <2>1, RevokesFollow
  <2>2. CASE rt' = [rt EXCEPT ![s].prepared = 0] /\ UNCHANGED hosts
    <3> DEFINE y == [rt[s] EXCEPT !.prepared = 0]
    <3>1. rt' = [rt EXCEPT ![s] = y] /\ y.host = rt[s].host /\ y.gen = rt[s].gen
          BY <1>1, <2>2, RuntimeFacts DEF Runtime
    <3> HIDE DEF y
    <3>. QED
      BY <1>2, <2>2, <3>1, HostsRest, FollowInv
  <2>3. CASE rt' = [rt EXCEPT ![s] = Suspended(s)] /\ UNCHANGED hosts
    <3>1. Suspended(s).host = rt[s].host /\ Suspended(s).gen = rt[s].gen
          BY <1>1 DEF Suspended, Runtime
    <3>. QED
      BY <1>2, <2>3, <3>1, HostsRest, FollowInv
  <2>. QED
    BY <1>4, <2>1, <2>2, <2>3 DEF Suspend
<1>5. CASE Complete(t, s)
  <2>0. "complete" \in TaskKinds
        BY DEF TaskKinds
  <2>1. CASE RevokeStep(t, Running("complete", "begin", s, 0))
        BY <1>1, <1>2, <2>0, <2>1, RevokesFollow
  <2>2. CASE UNCHANGED <<rt, hosts>>
        BY <1>2, <2>2, HostsRest, FollowInv
  <2>. QED
    BY <1>5, <2>1, <2>2 DEF Complete
<1>6. CASE Done(t, s)
  <2>0. "done" \in TaskKinds
        BY DEF TaskKinds
  <2>. QED
    BY <1>1, <1>2, <1>6, <2>0, RevokesFollow DEF Done
<1>7. CASE BeginUse(t, s)
      BY <1>2, <1>7, HostsRest, FollowInv DEF BeginUse
<1>. QED
  BY <1>3, <1>4, <1>5, <1>6, <1>7

\* start() spawns a host only for a session that has no entry.
LEMMA ConnectHosts ==
    ASSUME BrokerInv, HostsAreTracked, NEW t \in Tasks, NEW s \in Sessions, Connect(t, s)
    PROVE  HostsAreTracked'
<1> DEFINE g == records[s].gen
<1>1. /\ g \in 0..MaxGen /\ g \in 1..MaxGen /\ strays' = strays
      /\ rt \in [Sessions -> Runtime] /\ rt[s] \in Runtime /\ RuntimeFine(rt[s], records[s])
  <2>1. g \in 0..MaxGen /\ g > 0 /\ strays' = strays
        BY SessionFacts DEF Connect, MayUse, Names
  <2>. QED
    BY <2>1, SessionFacts, RuntimeFacts, SessionsAssumption
<1>2. CASE Failed(t, "connect-failed", s, records[s], g)
      BY <1>1, <1>2, FailedFollows
<1>3. CASE /\ rt[s].suspended /\ UNCHANGED hosts
           /\ rt' = [rt EXCEPT ![s] = [NoRuntime EXCEPT !.gen = g, !.host = rt[s].host,
                                                        !.connected = rt[s].connected]]
  <2> DEFINE y == [NoRuntime EXCEPT !.gen = g, !.host = rt[s].host, !.connected = rt[s].connected]
  <2>1. y.gen = g /\ y.host = rt[s].host
        BY DEF NoRuntime
  <2>2. rt[s].gen > 0 /\ g > 0
        BY <1>1, <1>3, SessionsAssumption DEF RuntimeFine, Runtime
  <2>3. rt' = [rt EXCEPT ![s] = y]
        BY <1>3
  <2> HIDE DEF y
  <2>. QED
    BY <1>1, <1>3, <2>1, <2>2, <2>3, HostsRest, FollowInv
<1>4. CASE rt[s].gen = 0 /\ \E h \in Hosts :
              /\ hosts' = [hosts EXCEPT ![h] = "up"]
              /\ rt' = [rt EXCEPT ![s] = [NoRuntime EXCEPT !.gen = g, !.host = h]]
  <2>1. strays' = Strayed(s, "lost")
        BY <1>1, <1>4, StrayTracks
  <2>. QED
    BY <1>1, <1>4, <2>1, SpawnHosts, FollowInv
<1>5. CASE TakePrepared(t, s, g) /\ (rt[s].gen = 0 \/ rt[s].suspended)
  <2>1. CASE Failed(t, "connect-failed", s, records[s], g)
        BY <1>2, <2>1
  <2>2. CASE rt[s].suspended /\ ~Failed(t, "connect-failed", s, records[s], g)
        BY <1>3, <1>5, <2>2 DEF TakePrepared
  <2>3. CASE ~rt[s].suspended /\ ~Failed(t, "connect-failed", s, records[s], g)
        BY <1>4, <1>5, <2>3 DEF TakePrepared
  <2>. QED
    BY <2>1, <2>2, <2>3
<1>. QED
  BY <1>2, <1>5 DEF Connect

\* A request that goes on after an await.
LEMMA ContinueHosts ==
    ASSUME BrokerInv, HostsAreTracked, NEW t \in Tasks, Continues(t)
    PROVE  HostsAreTracked'
<1> DEFINE s == task[t].s
<1>1. /\ task[t] \in TaskRecord /\ TaskFine(task[t], records, page, issued)
      /\ task[t].gen \in 0..MaxGen /\ rt \in [Sessions -> Runtime]
      /\ hosts \in [Hosts -> {"none", "up", "ending", "gone"}]
      BY TaskFacts, RuntimeFacts DEF TaskRecord
<1>2. task[t].kind \notin {"idle", "verified", "revoke-all"} => s \in Sessions /\ rt[s] \in Runtime
      BY <1>1, TaskFacts
<1>3. ASSUME UNCHANGED <<rt, hosts, strays>> PROVE HostsAreTracked'
      BY <1>3, HostsRest, FollowInv
<1>4. ASSUME s \in Sessions, rt' = [rt EXCEPT ![s] = Ended(s)], hosts' = Stopping(s),
             UNCHANGED strays
      PROVE  HostsAreTracked'
      BY <1>4, HostsEnd, FollowInv
<1>5. CASE CredentialRevoked(t)
  <2>1. s \in Sessions
        BY <1>1, <1>5, TaskFacts DEF CredentialRevoked
  <2>. QED
    BY <1>4, <1>5, <2>1 DEF CredentialRevoked
<1>6. CASE \/ CredentialFails(t) \/ HostStopped(t) \/ RevokeSettled(t) \/ Answered(t)
           \/ CompletedHook(t) \/ LoopEnds(t) \/ EndUse(t) \/ FinalizeCompletion(t)
      BY <1>3, <1>6 DEF CredentialFails, HostStopped, RevokeSettled, Answered, CompletedHook,
                        LoopEnds, EndUse, FinalizeCompletion
<1>7. CASE PrepareGoesOn(t) \/ Prepared(t) \/ SuspendGoesOn(t)
  <2>1. s \in Sessions /\ rt[s] \in Runtime
        BY <1>2, <1>7 DEF PrepareGoesOn, Prepared, SuspendGoesOn
  <2>2. /\ hosts' = hosts /\ strays' = strays
        /\ \/ rt' = rt
           \/ rt' = [rt EXCEPT ![s] = Suspended(s)]
           \/ \E g : rt' = [rt EXCEPT ![s] = [rt[s] EXCEPT !.prepared = g]]
        BY <1>1, <1>7, <2>1 DEF PrepareGoesOn, Prepared, SuspendGoesOn
  <2>3. /\ Suspended(s).host = rt[s].host /\ Suspended(s).gen = rt[s].gen
        /\ \A g : /\ [rt[s] EXCEPT !.prepared = g].host = rt[s].host
                  /\ [rt[s] EXCEPT !.prepared = g].gen = rt[s].gen
        BY <2>1 DEF Suspended, Runtime
  <2>4. HostsFollow
    <3> HIDE DEF s
    <3>1. CASE rt' = rt
          BY <2>2, <3>1, HostsRest
    <3>2. CASE rt' = [rt EXCEPT ![s] = Suspended(s)]
          BY <2>1, <2>2, <2>3, <3>2, HostsRest
    <3>3. CASE \E g : rt' = [rt EXCEPT ![s] = [rt[s] EXCEPT !.prepared = g]]
      <4>1. PICK g : rt' = [rt EXCEPT ![s] = [rt[s] EXCEPT !.prepared = g]]
            BY <3>3
      <4>2. /\ [rt[s] EXCEPT !.prepared = g].host = rt[s].host
            /\ [rt[s] EXCEPT !.prepared = g].gen = rt[s].gen
            BY <2>3
      <4> DEFINE y == [rt[s] EXCEPT !.prepared = g]
      <4>3. rt' = [rt EXCEPT ![s] = y] /\ y.host = rt[s].host /\ y.gen = rt[s].gen
            BY <4>1, <4>2
      <4> HIDE DEF y
      <4>. QED
        BY <2>1, <2>2, <4>3, HostsRest
    <3>. QED
      BY <2>2, <3>1, <3>2, <3>3
  <2>. QED
    BY <2>4, FollowInv
<1>8. CASE PrepareFails(t) \/ FailedRequest(t)
      BY <1>1, <1>2, <1>8, FailedFollows DEF PrepareFails, FailedRequest
<1>9. CASE ResumeFails(t)
  <2>1. s \in Sessions
        BY <1>1, <1>2, <1>9 DEF ResumeFails, TaskFine
  <2>. QED
    BY <1>4, <1>9, <2>1 DEF ResumeFails
<1>10. CASE StartFails(t)
  <2>1. s \in Sessions /\ task[t].host \in Hosts
        BY <1>1, <1>2, <1>10 DEF StartFails, TaskFine
  <2>2. /\ rt' = [rt EXCEPT ![s] = Ended(s)]
        /\ hosts' = [hosts EXCEPT ![task[t].host] = IF @ = "up" THEN "ending" ELSE @]
        /\ strays' = Strayed(s, IF rt[s].host = task[t].host THEN "failed" ELSE "lost")
        BY <1>10 DEF StartFails
  <2>3. \A o \in Sessions : o # s => rt'[o] = rt[o]
        BY <1>1, <2>2
  <2>4. \A h \in Hosts : hosts'[h] = "up" => hosts[h] = "up" /\ h # task[t].host
        BY <1>1, <2>1, <2>2
  <2>5. strays \subseteq strays'
        BY <2>1, <2>2, StrayTracks
  \* The host of this start was told to stop; that of another one is left with a stray.
  <2>6. rt[s].gen > 0 =>
            \/ ~(rt[s].host \in Hosts /\ hosts'[rt[s].host] = "up")
            \/ \E o \in strays' : o.host = rt[s].host /\ o.how # "failed"
    <3>1. CASE rt[s].host = task[t].host
          BY <2>4, <3>1
    <3>2. CASE rt[s].host # task[t].host
          BY <2>1, <2>2, <3>2, StrayTracks
    <3>. QED
      BY <3>1, <3>2
  <2>7. HostsFollow
        BY <2>3, <2>4, <2>5, <2>6 DEF HostsFollow
  <2>. QED
    BY <2>7, FollowInv
<1>11. CASE NextSession(t)
  <2>1. /\ strays' = strays
        /\ \E o \in task[t].rest :
              LET r == [task[t] EXCEPT !.rest = @ \ {o}, !.s = o, !.host = 0] IN
              UNCHANGED <<rt, hosts>> \/ RevokeStep(t, r)
        BY <1>11 DEF NextSession
  <2>2. PICK o \in task[t].rest :
            LET r == [task[t] EXCEPT !.rest = @ \ {o}, !.s = o, !.host = 0] IN
            UNCHANGED <<rt, hosts>> \/ RevokeStep(t, r)
        BY <2>1
  <2> DEFINE r == [task[t] EXCEPT !.rest = @ \ {o}, !.s = o, !.host = 0]
  <2>3. /\ o \in Sessions /\ o \in 0..MaxSessions /\ task[t].rest \ {o} \in SUBSET Sessions
        /\ 0 \in 0..MaxHosts
    <3>1. o \in Sessions /\ task[t].rest \ {o} \in SUBSET Sessions
          BY <1>1 DEF TaskRecord
    <3>. QED
      BY <3>1, SessionFacts, BrokerAssumption
  <2>4. r \in TaskRecord /\ r.s = o
        BY <1>1, <2>3 DEF TaskRecord
  <2>5. CASE UNCHANGED <<rt, hosts>>
        BY <1>3, <2>1, <2>5
  <2>6. CASE RevokeStep(t, r)
    <3> HIDE DEF r
    <3>. QED
      BY <2>1, <2>3, <2>4, <2>6, HostsRevoked, FollowInv
  <2>. QED
    BY <2>2, <2>5, <2>6
<1>. QED
  BY <1>5, <1>6, <1>7, <1>8, <1>9, <1>10, <1>11 DEF Continues

\* Both calls of the consumer that go through all sessions: the loop is yet to come.
LEMMA LoopHosts ==
    ASSUME BrokerInv, HostsAreTracked, NEW t \in Tasks,
           RevokeForIntervention(t) \/ \E e \in Epochs : CompleteAfterVerification(t, e)
    PROVE  HostsAreTracked'
<1>1. UNCHANGED <<rt, hosts, strays>>
      BY DEF RevokeForIntervention, CompleteAfterVerification
<1>. QED
  BY <1>1, HostsRest, FollowInv

\* What happens by itself to a session, a runtime, a stray and a host, and links.
LEMMA HappensHosts ==
    ASSUME BrokerInv, HostsAreTracked, strays \subseteq Stray,
           \/ \E s \in Sessions : Happens(s) \/ NativeLinkExpires(s)
           \/ \E s \in Sessions, e \in Epochs :
                 CreateLink(e, s) \/ CreateWebRtcLink(e, s) \/ CreateNativeLink(e, s)
           \/ \E h \in Hosts : HostGone(h) \/ NativeHostExits(h)
           \/ \E o \in strays : StrayFails(o)
    PROVE  HostsAreTracked'
<1>1. /\ rt \in [Sessions -> Runtime] /\ hosts \in [Hosts -> {"none", "up", "ending", "gone"}]
      BY RuntimeFacts
<1>2. HostsFollow
  <2>1. ASSUME NEW s \in Sessions,
               \/ MediaOver(s) \/ DoneOver(s) \/ MediaCleanup(s) \/ CompletionCleanup(s)
               \/ Bootstrap(s) \/ NativeLinkExpires(s)
               \/ \E e \in Epochs :
                     CreateLink(e, s) \/ CreateWebRtcLink(e, s) \/ CreateNativeLink(e, s)
        PROVE  HostsFollow
    <3>1. UNCHANGED <<rt, hosts, strays>>
          BY <2>1 DEF MediaOver, DoneOver, MediaCleanup, CompletionCleanup, Bootstrap,
                      NativeLinkExpires, CreateLink, CreateWebRtcLink, CreateNativeLink
    <3>. QED
      BY <3>1, HostsRest
  <2>2. ASSUME NEW s \in Sessions, RuntimeLost(s) \/ RuntimeExpires(s) PROVE HostsFollow
    <3>1. rt' = [rt EXCEPT ![s] = Ended(s)] /\ hosts' = Stopping(s) /\ strays' = strays
          BY <2>2 DEF RuntimeLost, RuntimeExpires, EndWithNotice
    <3>. QED
      BY <3>1, HostsEnd
  <2>3. ASSUME NEW s \in Sessions, PeerConnects(s) \/ PreparedExpires(s) PROVE HostsFollow
    <3>1. \E y : /\ rt' = [rt EXCEPT ![s] = y] /\ y.host = rt[s].host /\ y.gen = rt[s].gen
      <4>1. /\ [rt[s] EXCEPT !.connected = TRUE].host = rt[s].host
            /\ [rt[s] EXCEPT !.connected = TRUE].gen = rt[s].gen
            /\ [rt[s] EXCEPT !.prepared = 0].host = rt[s].host
            /\ [rt[s] EXCEPT !.prepared = 0].gen = rt[s].gen
            BY <1>1 DEF Runtime
      <4>2. \/ rt' = [rt EXCEPT ![s] = [rt[s] EXCEPT !.connected = TRUE]]
            \/ rt' = [rt EXCEPT ![s] = [rt[s] EXCEPT !.prepared = 0]]
            BY <1>1, <2>3 DEF PeerConnects, PreparedExpires
      <4>. QED
        BY <4>1, <4>2
    <3>2. hosts' = hosts /\ strays' = strays
          BY <2>3 DEF PeerConnects, PreparedExpires
    <3>. QED
      BY <3>1, <3>2, HostsRest
  <2>4. ASSUME NEW s \in Sessions, SuspendedHostExits(s) PROVE HostsFollow
    <3>1. /\ [rt[s] EXCEPT !.resumeFailed = TRUE].host = rt[s].host
          /\ [rt[s] EXCEPT !.resumeFailed = TRUE].gen = rt[s].gen
          BY <1>1 DEF Runtime
    <3>2. /\ rt' = [rt EXCEPT ![s] = [rt[s] EXCEPT !.resumeFailed = TRUE]] /\ strays' = strays
          /\ \A h \in Hosts : hosts'[h] = "up" => hosts[h] = "up"
          BY <1>1, <2>4 DEF SuspendedHostExits
    <3>3. \A o \in Sessions : rt'[o].host = rt[o].host /\ rt'[o].gen = rt[o].gen
          BY <1>1, <3>1, <3>2
    <3>. QED
      BY <3>2, <3>3 DEF HostsFollow
  <2>5. ASSUME NEW h \in Hosts, HostGone(h) PROVE HostsFollow
    <3>1. /\ rt' = rt /\ strays' = strays
          /\ \A j \in Hosts : hosts'[j] = "up" => hosts[j] = "up"
          BY <1>1, <2>5 DEF HostGone
    <3>. QED
      BY <3>1 DEF HostsFollow
  <2>6. ASSUME NEW h \in Hosts, NativeHostExits(h) PROVE HostsFollow
    <3>1. /\ \A j \in Hosts : hosts'[j] = "up" => hosts[j] = "up" /\ j # h
          /\ \A o \in Sessions : rt'[o] = IF rt[o].host = h THEN NoRuntime ELSE rt[o]
          /\ strays' = strays
          BY <1>1, <2>6 DEF NativeHostExits
    <3>. QED
      BY <3>1 DEF HostsFollow
  <2>7. ASSUME NEW o \in strays, StrayFails(o) PROVE HostsFollow
    <3> DEFINE x == [o EXCEPT !.how = "misled"]
    <3>1. o.s \in Sessions /\ x.host = o.host /\ x.how = "misled"
          BY <2>7 DEF Stray
    <3>2. /\ rt' = [rt EXCEPT ![o.s] = Ended(o.s)]
          /\ hosts' \in {Stopping(o.s), [Stopping(o.s) EXCEPT ![o.host] = "gone"]}
          /\ strays' = strays \/ strays' = (strays \ {o}) \union {x}
          BY <2>7 DEF StrayFails, EndWithNotice
    <3>3. \A h \in Hosts : hosts'[h] = "up" => Stopping(o.s)[h] = "up"
      <4>1. Stopping(o.s) \in [Hosts -> {"none", "up", "ending", "gone"}]
            BY <3>1, StoppingTyped DEF BrokerInv
      <4>. QED
        BY <3>2, <4>1
    <3> HIDE DEF x
    <3>4. \A p \in strays : p.how # "failed" =>
              \E q \in strays' : q.host = p.host /\ q.how # "failed"
          BY <3>1, <3>2
    <3>. QED
      BY <3>1, <3>2, <3>3, <3>4, HostsEnd
  <2>. QED
    BY <2>1, <2>2, <2>3, <2>4, <2>5, <2>6, <2>7 DEF Happens
<1>. QED
  BY <1>2, FollowInv

\* The claim of a native client: the host of an earlier one is revoked first, and the entry
\* that another claim has made since is left with a stray.
LEMMA NativeHosts ==
    ASSUME BrokerInv, HostsAreTracked, NEW t \in Tasks,
           \/ NativeBegun(t) \/ NativeRevokeFails(t)
           \/ \E s \in Sessions : ClaimNative(t, s)
    PROVE  HostsAreTracked'
<1>1. ASSUME NEW s \in Sessions, NEW r, BeginFails(t, s, r) PROVE HostsAreTracked'
  <2>1. "native-failed" \in TaskKinds /\ 0 \in 0..MaxGen
        BY SessionsAssumption DEF TaskKinds
  <2>. QED
    BY <1>1, <2>1, RevokesFollow DEF BeginFails
<1>2. ASSUME NEW s \in Sessions, NEW g \in 1..MaxGen, Spawn(s, g) PROVE HostsAreTracked'
      BY <1>2, SpawnHosts, FollowInv DEF Spawn
<1>3. ASSUME NEW s \in Sessions, ClaimNative(t, s) PROVE HostsAreTracked'
  <2>1. PICK c : Claims(s, c) /\ BeginNative(t, s, c)
        BY <1>3 DEF ClaimNative, Claims
  <2>2. c.gen \in 1..MaxGen /\ c.gen \in 0..MaxGen /\ "native" \in TaskKinds
        BY <2>1, ClaimFacts, SessionsAssumption DEF TaskKinds
  <2>3. CASE BeginFails(t, s, c)
        BY <1>1, <2>3
  <2>4. CASE UNCHANGED <<rt, hosts, strays>>
        BY <2>4, HostsRest, FollowInv
  <2>5. CASE Spawn(s, c.gen)
        BY <1>2, <2>2, <2>5
  <2>6. CASE RevokeStep(t, Running("native", "begin", s, c.gen)) /\ UNCHANGED strays
        BY <2>2, <2>6, RevokesFollow
  <2>. QED
    BY <2>1, <2>3, <2>4, <2>5, <2>6 DEF BeginNative
<1>4. CASE NativeBegun(t) \/ NativeRevokeFails(t)
  <2>1. task[t].s \in Sessions /\ task[t].gen \in 1..MaxGen
    <3>1. task[t].kind = "native"
          BY <1>4 DEF NativeBegun, NativeRevokeFails
    <3>2. task[t].s \in Sessions /\ task[t].gen \in 0..MaxGen /\ task[t].gen > 0
          BY <3>1, TaskFacts DEF TaskFine, TaskRecord
    <3>. QED
      BY <3>2, SessionsAssumption
  <2>. QED
    BY <1>1, <1>2, <1>4, <2>1 DEF NativeBegun, NativeRevokeFails
<1>. QED
  BY <1>3, <1>4

\* Every action keeps each host with the entry, or the stray, that it had.
LEMMA HostsStep ==
    ASSUME BrokerInv, HostsAreTracked, strays \subseteq Stray, HandoffNext
    PROVE  HostsAreTracked'
<1>1. ASSUME NEW s \in Sessions, RouteForgotten(s) PROVE HostsAreTracked'
  <2>1. UNCHANGED <<rt, hosts, strays>>
        BY <1>1 DEF RouteForgotten, vars
  <2>. QED
    BY <2>1, HostsRest, FollowInv
<1>2. ASSUME NEW s \in Sessions, NEW e \in Epochs, Start(e, s) PROVE HostsAreTracked'
      BY <1>2, HappensHosts DEF Start
<1>3. ASSUME NEW s \in Sessions, NEW t \in Tasks, Requests(t, s) PROVE HostsAreTracked'
      BY <1>3, RequestHosts, ConnectHosts DEF Requests
<1>4. ASSUME NEW t \in Tasks, Revoke(t) PROVE HostsAreTracked'
      BY <1>4, LoopHosts DEF Revoke
<1>5. CASE Works
      BY <1>5, ContinueHosts, LoopHosts, HappensHosts DEF Works
<1>6. CASE NativeWorks
      BY <1>6, NativeHosts, HappensHosts DEF NativeWorks
<1>. QED
  BY <1>1, <1>2, <1>3, <1>4, <1>5, <1>6 DEF HandoffNext

\* The runtimes lose a helper process in two ways only.  The host of a failed start is
\* stopped, one that is replaced revoked, and whoever ends an entry tells its host to
\* stop: a process that runs without an entry lost it to the failure of a start of another
\* generation (webrtc-runtime.ts:482) or to the spawn of another claim
\* (native-runtime.ts:242), and is a stray from then on.
THEOREM HostsTracked == HandoffSpec => []HostsAreTracked
<1> DEFINE Inv == BrokerInv /\ FenceInv
<1>1. HandoffInit => HostsAreTracked
      BY DEF HandoffInit, Init, HostsAreTracked
<1>2. Inv /\ HostsAreTracked /\ [HandoffNext]_handoffVars => HostsAreTracked'
  <2>1. CASE HandoffNext
        BY <2>1, HostsStep DEF FenceInv
  <2>2. CASE UNCHANGED handoffVars
    <3>1. UNCHANGED <<rt, hosts, strays>>
          BY <2>2 DEF handoffVars, vars
    <3>. QED
      BY <3>1, HostsRest, FollowInv
  <2>. QED
    BY <2>1, <2>2
<1>3. HandoffSpec => []Inv
      BY BrokerInvariant
<1>. QED
  BY <1>1, <1>2, <1>3, PTL DEF HandoffSpec
================================================================================
