----------------------------- MODULE TransportProofs -----------------------------
(***************************************************************************)
(* Machine-checked theorems on TransportCoordinator and ManagedTransport,  *)
(* for every length of the plan and every number of calls.                 *)
(*                                                                         *)
(* Of the coordinator: the type invariant, the exclusion of Human input    *)
(* and the guarantees of the leases whatever drivers do, and the           *)
(* refinement of ExclusiveTransport for drivers that give a real locator.  *)
(*                                                                         *)
(* Of the managed runtime: the coordinator's invariants carry over,        *)
(* because every handler moves it by the coordinator's own steps, but for  *)
(* revokeUnclaimed(), which fences and enqueues at once.  On top of them   *)
(* SessionInv says how session.lease keeps up with the lease the           *)
(* coordinator granted last, and ViewerInv the same of the desktop viewer. *)
(***************************************************************************)
EXTENDS ManagedTransport, TLAPS
--------------------------------------------------------------------------------
(* The coordinator.                                                        *)

\* Where the running operation stands, and what that says of the lease.
Control ==
    /\ ~started => active = 0 /\ attempt = 0 /\ pc = "idle"
    /\ active # 0 => attempt = active
    /\ pc \in {"starting", "up"} => active = 0 /\ attempt \in Plan
    /\ pc = "revoking" => active # 0
    /\ pc # "idle" => queue # <<>>

\* A transport that takes Human input is the last one tried, and it is leased
\* or about to be.
LiveIsLast ==
    \A i \in Plan : driver[i] = "live" => i = attempt /\ (active = i \/ pc = "up")

\* The same for every transport that is not completely closed.
OpenIsLast ==
    \A i \in Plan : driver[i] # "off" => i = attempt /\ (active = i \/ pc = "up")

Inv == CoordinatorTypeOK /\ Control /\ LiveIsLast

CallRecord == [kind: Kinds, lease: Nat,
               state: Settled \union {"unused", "queued"}, grant: Nat]

\* Nothing has been started: every transport is off.
LEMMA InitInv == CoordinatorInit => Inv /\ OpenIsLast
<1> SUFFICES ASSUME CoordinatorInit PROVE Inv /\ OpenIsLast
    OBVIOUS
<1> Transports \in Nat \ {0}
      BY CoordinatorAssumption
<1>1. CoordinatorTypeOK
  <2>1. NoCall \in CallRecord
        BY DEF NoCall, CallRecord, Kinds
  <2>2. calls \in [Calls -> CallRecord]
        BY <2>1 DEF CoordinatorInit
  <2>3. driver \in [Plan -> {"off", "live", "fenced"}]
        BY DEF CoordinatorInit
  <2>4. queue \in Seq(Calls)
        BY DEF CoordinatorInit
  <2>5. generation \in Nat /\ active \in 0..Transports /\ attempt \in 0..Transports
        BY DEF CoordinatorInit
  <2>6. pc \in {"idle", "revoking", "starting", "up"} /\ started \in BOOLEAN
        BY Zenon DEF CoordinatorInit
  <2> QED BY <2>2, <2>3, <2>4, <2>5, <2>6 DEF CoordinatorTypeOK, CallRecord
<1>2. Control
      BY DEF CoordinatorInit, Control
<1>3. LiveIsLast /\ OpenIsLast
      BY DEF CoordinatorInit, LiveIsLast, OpenIsLast
<1> QED BY <1>1, <1>2, <1>3 DEF Inv

\* The operation that settles is the first of the chain, and the chain and the
\* record of the calls keep their types.
LEMMA SettleType ==
    ASSUME Inv, queue # <<>>, NEW state \in Settled, NEW grant \in Nat, Settle(state, grant)
    PROVE  /\ queue' \in Seq(Calls) /\ pc' = "idle"
           /\ calls' \in [Calls -> CallRecord]
<1>1. queue \in Seq(Calls) /\ calls \in [Calls -> CallRecord]
      BY DEF Inv, CoordinatorTypeOK, CallRecord
<1>2. Head(queue) \in Calls /\ Tail(queue) \in Seq(Calls)
      BY <1>1
<1>3. PICK r \in CallRecord : r = calls[Head(queue)]
      BY <1>1, <1>2
<1>4. calls' = [calls EXCEPT ![Head(queue)] = [r EXCEPT !.state = state, !.grant = grant]]
      BY <1>1, <1>2, <1>3 DEF Settle
<1>5. [r EXCEPT !.state = state, !.grant = grant] \in CallRecord
      BY DEF CallRecord
<1>6. calls' \in [Calls -> CallRecord]
      BY <1>1, <1>2, <1>4, <1>5
<1> QED BY <1>2, <1>6 DEF Settle

\* Every step of the coordinator and of its drivers keeps the control in step
\* with the lease, and Human input with the last attempt.
LEMMA ControlStep ==
    ASSUME Inv, CoordinatorNext
    PROVE  Control' /\ LiveIsLast'
<1>1. /\ active \in 0..Transports /\ attempt \in 0..Transports /\ generation \in Nat
      /\ Transports \in Nat \ {0} /\ queue \in Seq(Calls)
      /\ driver \in [Plan -> {"off", "live", "fenced"}]
      BY CoordinatorAssumption DEF Inv, CoordinatorTypeOK
<1>2. Control /\ LiveIsLast
      BY DEF Inv
<1>3. CASE Return
      BY <1>1, <1>2, <1>3 DEF Return, Ready, Settle, Control, LiveIsLast
<1>4. CASE BeginStart
      BY <1>1, <1>2, <1>4 DEF BeginStart, Ready, Control, LiveIsLast, Plan
<1>5. CASE BeginRevoke
      BY <1>1, <1>2, <1>5 DEF BeginRevoke, Ready, Control, LiveIsLast, Plan
<1>6. CASE Revoked
      BY <1>1, <1>2, <1>6 DEF Revoked, Leaves, Settle, Control, LiveIsLast, Plan
<1>7. CASE Exhausted
      BY <1>1, <1>2, <1>7 DEF Exhausted, Leaves, Settle, Control, LiveIsLast, Plan
<1>8. CASE BeginNext
      BY <1>1, <1>2, <1>8 DEF BeginNext, Leaves, Control, LiveIsLast, Plan
<1>9. CASE RevokeRejected
      BY <1>1, <1>2, <1>9 DEF RevokeRejected, Settle, Control, LiveIsLast
<1>10. CASE DriverComesUp
      BY <1>1, <1>2, <1>10 DEF DriverComesUp, Control, LiveIsLast
<1>11. CASE Activate
      BY <1>1, <1>2, <1>11 DEF Activate, Settle, Control, LiveIsLast
<1>12. CASE StartRejected
      BY <1>1, <1>2, <1>12 DEF StartRejected, AttemptFailed, Settle, Control, LiveIsLast, Plan
<1>13. CASE BlankLocator
      BY <1>1, <1>2, <1>13 DEF BlankLocator, AttemptFailed, Settle, Control, LiveIsLast, Plan
<1>14. CASE StartSync
      BY <1>1, <1>2, <1>14 DEF StartSync, Control, LiveIsLast, Plan
<1>15. CASE StartSyncFails
      BY <1>1, <1>2, <1>15 DEF StartSyncFails, Control, LiveIsLast, Plan
<1>16. ASSUME NEW i \in Plan, DriverCloses(i) \/ DriverEnds(i)
       PROVE  Control' /\ LiveIsLast'
      BY <1>1, <1>2, <1>16 DEF DriverCloses, DriverEnds, Control, LiveIsLast
<1>17. ASSUME NEW c \in Calls, Issue(c)
       PROVE  Control' /\ LiveIsLast'
  <2>1. queue' = Append(queue, c) /\ UNCHANGED <<started, active, driver, attempt, pc>>
        BY <1>17 DEF Issue, Enqueue
  <2>2. queue' # <<>>
        BY <1>1, <2>1
  <2> QED BY <1>2, <2>1, <2>2 DEF Control, LiveIsLast
<1> QED BY <1>3, <1>4, <1>5, <1>6, <1>7, <1>8, <1>9, <1>10, <1>11, <1>12, <1>13,
           <1>14, <1>15, <1>16, <1>17 DEF CoordinatorNext, Serve

\* A call joins the chain with a lease that was granted, whatever becomes of the
\* drivers at the same time.
Joins(c) ==
    /\ \E kind \in Kinds, l \in 0..generation : Enqueue(c, kind, l)
    /\ UNCHANGED <<started, active, generation, attempt, pc>>

\* A public call joins the chain.
LEMMA IssueJoins ==
    ASSUME Inv, NEW c \in Calls, Issue(c)
    PROVE  Joins(c)
<1>1. generation \in Nat
      BY DEF Inv, CoordinatorTypeOK
<1> QED BY <1>1 DEF Issue, Joins, Kinds

\* A call that joins does not disturb a call already in the chain.
LEMMA IssueType ==
    ASSUME Inv, NEW c \in Calls, Joins(c)
    PROVE  queue' \in Seq(Calls) /\ calls' \in [Calls -> CallRecord]
<1>1. /\ queue \in Seq(Calls) /\ calls \in [Calls -> CallRecord] /\ generation \in Nat
      BY DEF Inv, CoordinatorTypeOK, CallRecord
<1>2. PICK kind \in Kinds, l \in Nat : Enqueue(c, kind, l)
      BY <1>1 DEF Joins
<1>3. [kind |-> kind, lease |-> l, state |-> "queued", grant |-> 0] \in CallRecord
      BY DEF CallRecord
<1> QED BY <1>1, <1>2, <1>3 DEF Enqueue

\* What #assertActive answers is one of the ways a call settles.
LEMMA RefusalType == \A op : Refusal(op) \in Settled
  BY DEF Refusal, Settled

\* A step leaves the chain alone, settles its first call, or adds a call.
LEMMA ChainStep ==
    ASSUME Inv, CoordinatorNext
    PROVE  \/ UNCHANGED <<queue, calls>> /\ pc' \in {"idle", "revoking", "starting", "up"}
           \/ \E state \in Settled, grant \in Nat : queue # <<>> /\ Settle(state, grant)
           \/ \E c \in Calls : Issue(c)
<1>1. /\ generation \in Nat /\ pc \in {"idle", "revoking", "starting", "up"} /\ Control
      BY DEF Inv, CoordinatorTypeOK
<1>2. CASE Return
      BY <1>1, <1>2, RefusalType DEF Return, Ready
<1>3. CASE Revoked \/ Exhausted \/ RevokeRejected
      BY <1>1, <1>3 DEF Revoked, Exhausted, RevokeRejected, Leaves, Control, Settled
<1>4. CASE Activate
      BY <1>1, <1>4 DEF Activate, Control, Settled
<1>5. CASE StartRejected \/ BlankLocator
      BY <1>1, <1>5 DEF StartRejected, BlankLocator, AttemptFailed, Control, Settled
<1>6. CASE BeginStart \/ BeginRevoke \/ BeginNext \/ DriverComesUp
      BY <1>6 DEF BeginStart, BeginRevoke, BeginNext, DriverComesUp
<1>7. CASE StartSync \/ StartSyncFails \/ \E i \in Plan : DriverCloses(i) \/ DriverEnds(i)
      BY <1>1, <1>7 DEF StartSync, StartSyncFails, DriverCloses, DriverEnds
<1> QED BY <1>2, <1>3, <1>4, <1>5, <1>6, <1>7 DEF CoordinatorNext, Serve

\* Every step keeps the type of every variable.
LEMMA TypeStep ==
    ASSUME Inv, CoordinatorNext
    PROVE  CoordinatorTypeOK'
<1>1. /\ active \in 0..Transports /\ attempt \in 0..Transports /\ generation \in Nat
      /\ Transports \in Nat \ {0} /\ queue \in Seq(Calls)
      /\ calls \in [Calls -> CallRecord]
      /\ driver \in [Plan -> {"off", "live", "fenced"}]
      /\ pc \in {"idle", "revoking", "starting", "up"}
      BY CoordinatorAssumption DEF Inv, CoordinatorTypeOK, CallRecord
<1>2. started \in BOOLEAN /\ Control
      BY Zenon DEF Inv, CoordinatorTypeOK
<1>3. started' \in BOOLEAN
  <2>1. started' = started \/ started' = TRUE
        BY DEF CoordinatorNext, Serve, Return, BeginStart, BeginRevoke, Revoked, Exhausted,
               BeginNext, Leaves, RevokeRejected, DriverComesUp, Activate, StartRejected,
               BlankLocator, StartSync, StartSyncFails, DriverCloses, DriverEnds, Issue
  <2> QED BY Zenon, <1>2, <2>1
<1>4. active' \in 0..Transports /\ attempt' \in 0..Transports /\ generation' \in Nat
      BY <1>1, <1>2
      DEF CoordinatorNext, Serve, Return, BeginStart, BeginRevoke, Revoked, Exhausted,
          BeginNext, Leaves, RevokeRejected, DriverComesUp, Activate, StartRejected,
          BlankLocator, AttemptFailed, StartSync, StartSyncFails, DriverCloses,
          DriverEnds, Issue, Control, Plan
<1>5. driver' \in [Plan -> {"off", "live", "fenced"}]
      BY <1>1, <1>2
      DEF CoordinatorNext, Serve, Return, BeginStart, BeginRevoke, Revoked, Exhausted,
          BeginNext, Leaves, RevokeRejected, DriverComesUp, Activate, StartRejected,
          BlankLocator, StartSync, StartSyncFails, DriverCloses, DriverEnds, Issue,
          Control, Plan
<1>6. ASSUME NEW state \in Settled, NEW grant \in Nat, queue # <<>>, Settle(state, grant)
      PROVE  /\ queue' \in Seq(Calls) /\ calls' \in [Calls -> CallRecord]
             /\ pc' \in {"idle", "revoking", "starting", "up"}
      BY <1>6, SettleType
<1>7. /\ queue' \in Seq(Calls) /\ calls' \in [Calls -> CallRecord]
      /\ pc' \in {"idle", "revoking", "starting", "up"}
  <2>1. CASE UNCHANGED <<queue, calls>> /\ pc' \in {"idle", "revoking", "starting", "up"}
        BY <1>1, <2>1
  <2>2. CASE \E c \in Calls : Issue(c)
        BY <1>1, <2>2, IssueType, IssueJoins DEF Issue
  <2> QED BY <1>6, <2>1, <2>2, ChainStep
<1> QED BY <1>3, <1>4, <1>5, <1>7 DEF CoordinatorTypeOK, CallRecord

\* Every step of the coordinator keeps its invariant.
LEMMA InvStep == Inv /\ CoordinatorNext => Inv'
  BY TypeStep, ControlStep DEF Inv

\* The invariant of the coordinator, for drivers of every kind.
THEOREM Invariance == CoordinatorSpec => []Inv
<1>1. CoordinatorInit => Inv
      BY InitInv
<1>2. Inv /\ [CoordinatorNext]_coordinatorVars => Inv'
  <2> SUFFICES ASSUME Inv, [CoordinatorNext]_coordinatorVars PROVE Inv'
      OBVIOUS
  <2>1. CASE CoordinatorNext
        BY <2>1, InvStep
  <2>2. CASE UNCHANGED coordinatorVars
        BY <2>2 DEF coordinatorVars, Inv, CoordinatorTypeOK, Control, LiveIsLast
  <2> QED BY <2>1, <2>2
<1> QED BY <1>1, <1>2, PTL DEF CoordinatorSpec

\* The coordinator's state keeps its type, whatever drivers and callers do.
THEOREM TypeCorrect == CoordinatorSpec => []CoordinatorTypeOK
<1>1. Inv => CoordinatorTypeOK
      BY DEF Inv
<1> QED BY <1>1, Invariance, PTL

\* Human input reaches at most one transport of the plan: #startDriver is only
\* called when no transport is active, and #activate fences what it refuses.
THEOREM SingleHumanPath == CoordinatorSpec => []AtMostOneLive
<1>1. Inv => AtMostOneLive
      BY DEF Inv, LiveIsLast, AtMostOneLive
<1> QED BY <1>1, Invariance, PTL
--------------------------------------------------------------------------------
\* The steps of drivers that give a real locator.
FaultlessNext ==
    \/ Return \/ BeginStart \/ BeginRevoke
    \/ Revoked \/ Exhausted \/ BeginNext \/ RevokeRejected
    \/ DriverComesUp \/ Activate \/ StartRejected
    \/ StartSync \/ StartSyncFails
    \/ \E i \in Plan : DriverCloses(i) \/ DriverEnds(i)
    \/ \E c \in Calls : Issue(c)

\* With drivers that give a real locator, what a step may do.
LEMMA FaultlessSteps ==
    /\ FaultlessNext => CoordinatorNext
    /\ DriverFaults = {} /\ CoordinatorNext => FaultlessNext
  BY DEF FaultlessNext, CoordinatorNext, Serve, BlankLocator

\* With them a transport is closed before the next one opens.
LEMMA OpenStep ==
    ASSUME Inv, OpenIsLast, FaultlessNext
    PROVE  OpenIsLast'
<1>1. /\ active \in 0..Transports /\ attempt \in 0..Transports
      /\ Transports \in Nat \ {0}
      /\ driver \in [Plan -> {"off", "live", "fenced"}]
      BY CoordinatorAssumption DEF Inv, CoordinatorTypeOK
<1>2. Control
      BY DEF Inv
<1>3. CASE Return \/ RevokeRejected
      BY <1>2, <1>3 DEF Return, Ready, RevokeRejected, Settle, OpenIsLast, Control
<1>4. CASE BeginStart \/ BeginRevoke
      BY <1>1, <1>2, <1>4 DEF BeginStart, BeginRevoke, Ready, OpenIsLast, Control, Plan
<1>5. CASE Revoked \/ Exhausted \/ BeginNext
      BY <1>1, <1>2, <1>5
      DEF Revoked, Exhausted, BeginNext, Leaves, Settle, OpenIsLast, Control, Plan
<1>6. CASE DriverComesUp \/ Activate
      BY <1>1, <1>2, <1>6 DEF DriverComesUp, Activate, Settle, OpenIsLast, Control, Plan
<1>7. CASE StartRejected
      BY <1>1, <1>2, <1>7 DEF StartRejected, AttemptFailed, Settle, OpenIsLast, Control, Plan
<1>8. CASE StartSync \/ StartSyncFails
      BY <1>1, <1>2, <1>8 DEF StartSync, StartSyncFails, OpenIsLast, Control, Plan
<1>9. ASSUME NEW i \in Plan, DriverCloses(i) \/ DriverEnds(i)
       PROVE  OpenIsLast'
      BY <1>1, <1>9 DEF DriverCloses, DriverEnds, OpenIsLast
<1>10. ASSUME NEW c \in Calls, Issue(c)
       PROVE  OpenIsLast'
      BY <1>10 DEF Issue, OpenIsLast
<1> QED BY <1>3, <1>4, <1>5, <1>6, <1>7, <1>8, <1>9, <1>10 DEF FaultlessNext

\* Each step of the coordinator opens, fences, closes or skips one transport of
\* ExclusiveTransport, or leaves it as it is.
LEMMA StepSimulation ==
    ASSUME Inv, OpenIsLast, FaultlessNext
    PROVE  [Exclusion!Next]_(Exclusion!vars)
<1> DEFINE tried == IF pc = "starting" THEN attempt - 1 ELSE attempt
<1>1. /\ active \in 0..Transports /\ attempt \in 0..Transports
      /\ Transports \in Nat \ {0}
      /\ driver \in [Plan -> {"off", "live", "fenced"}]
      BY CoordinatorAssumption DEF Inv, CoordinatorTypeOK
<1>2. Control
      BY DEF Inv
<1> USE DEF Exclusion!vars, Exclusion!Plan
<1>3. CASE Return \/ RevokeRejected
      BY <1>2, <1>3 DEF Return, Ready, RevokeRejected, Settle, Control
<1>4. CASE BeginStart
      BY <1>1, <1>2, <1>4 DEF BeginStart, Ready, Control
<1>5. CASE BeginRevoke
  <2>1. active \in Plan
        BY <1>1, <1>5 DEF BeginRevoke, Plan
  <2>2. /\ tried' = tried
        /\ \/ driver[active] = "live" /\ driver' = [driver EXCEPT ![active] = "fenced"]
           \/ driver' = driver
        BY <1>1, <1>5, <2>1 DEF BeginRevoke, Ready
  <2> QED BY <2>1, <2>2 DEF Exclusion!Next, Exclusion!Fence, Plan
<1>6. CASE Revoked \/ Exhausted \/ BeginNext
      BY <1>1, <1>2, <1>6 DEF Revoked, Exhausted, BeginNext, Leaves, Settle, Control
<1>7. CASE DriverComesUp
  <2>1. attempt \in Plan /\ tried = attempt - 1 /\ tried' = attempt
        BY <1>2, <1>7 DEF DriverComesUp, Control
  <2>2. \A u \in Plan : driver[u] = "off"
        BY <1>1, <1>2, <1>7 DEF DriverComesUp, Control, OpenIsLast, Plan
  <2>3. Exclusion!Open(attempt)
        BY <1>1, <1>7, <2>1, <2>2 DEF DriverComesUp, Exclusion!Open, Plan
  <2> QED BY <2>1, <2>3 DEF Exclusion!Next, Plan
<1>8. CASE Activate
      BY <1>8 DEF Activate, Settle
<1>9. CASE StartRejected
  <2>1. attempt \in Plan /\ driver' = driver /\ tried = attempt - 1 /\ tried' = attempt
        BY <1>1, <1>2, <1>9 DEF StartRejected, AttemptFailed, Settle, Control
  <2> QED BY <1>1, <2>1 DEF Exclusion!Next, Exclusion!Skip, Plan
<1>10. CASE StartSync
  <2>1. tried = 0 /\ tried' = 1 /\ \A u \in Plan : driver[u] = "off"
        BY <1>1, <1>2, <1>10 DEF StartSync, Control, OpenIsLast, Plan
  <2>2. Exclusion!Open(1)
        BY <1>1, <1>10, <2>1 DEF StartSync, Exclusion!Open, Plan
  <2> QED BY <1>1, <2>2 DEF Exclusion!Next
<1>11. CASE StartSyncFails
  <2>1. tried = 0 /\ tried' = 1 /\ driver' = driver
        BY <1>1, <1>2, <1>11 DEF StartSyncFails, Control
  <2> QED BY <1>1, <2>1 DEF Exclusion!Next, Exclusion!Skip
<1>12. ASSUME NEW i \in Plan, DriverCloses(i)
       PROVE  Exclusion!Next
      BY <1>12 DEF DriverCloses, Exclusion!Next, Exclusion!Close, Plan
<1>13. ASSUME NEW i \in Plan, DriverEnds(i)
       PROVE  Exclusion!Next
      BY <1>13 DEF DriverEnds, Exclusion!Next, Exclusion!Fence, Plan
<1>14. ASSUME NEW c \in Calls, Issue(c)
       PROVE  UNCHANGED Exclusion!vars
      BY <1>14 DEF Issue
<1> QED BY <1>3, <1>4, <1>5, <1>6, <1>7, <1>8, <1>9, <1>10, <1>11, <1>12,
           <1>13, <1>14 DEF FaultlessNext

\* The coordinator opens a transport only when all others are closed and walks
\* the plan forward only, for every plan, as long as drivers give a locator.
THEOREM Refinement ==
    ASSUME DriverFaults = {}
    PROVE  CoordinatorSpec => ImplementsExclusiveTransport
<1>1. CoordinatorInit => Exclusion!Init /\ Inv /\ OpenIsLast
      BY InitInv DEF CoordinatorInit, Exclusion!Init, Exclusion!Plan, Plan
<1>2. CoordinatorNext => FaultlessNext
      BY FaultlessSteps
<1>3. Inv /\ OpenIsLast /\ [CoordinatorNext]_coordinatorVars => OpenIsLast'
      BY <1>2, OpenStep DEF coordinatorVars, OpenIsLast
<1>4. Inv /\ OpenIsLast /\ [CoordinatorNext]_coordinatorVars
        => [Exclusion!Next]_(Exclusion!vars)
      BY <1>2, StepSimulation DEF coordinatorVars, Exclusion!vars
<1> QED BY <1>1, <1>3, <1>4, Invariance, PTL
        DEF CoordinatorSpec, ImplementsExclusiveTransport, Exclusion!Spec
--------------------------------------------------------------------------------
\* The chain holds each queued call once.
ChainOrder ==
    /\ \A k \in 1..Len(queue) : calls[queue[k]].state = "queued"
    /\ \A k, l \in 1..Len(queue) : queue[k] = queue[l] => k = l

\* A call that left the transport of its lease.
Moved(c) ==
    /\ calls[c].kind \in {"advance", "fallback"} /\ calls[c].lease # 0
    /\ calls[c].state \in {"ok", "none"}

\* Leases are spent in the order they were granted: the running transition is
\* of a later lease than every one that happened, and the generation is past it.
LeaseOrder ==
    /\ generation # 0 => started
    /\ \A c \in Calls : calls[c].lease <= generation
    /\ \A c \in Calls : Moved(c) => calls[c].lease < generation
    /\ pc # "idle" /\ Running.kind \in {"advance", "fallback"} /\ Running.lease # 0
        => \A c \in Calls : Moved(c) => calls[c].lease < Running.lease
    /\ pc \in {"starting", "up"} => Running.kind # "revoke"

\* What a revoke() that resolved leaves behind.
RevokedForGood ==
    (\E c \in Calls : calls[c].kind = "revoke" /\ calls[c].state = "ok" /\ calls[c].lease # 0)
        => started /\ active = 0 /\ pc = "idle"

LeaseInv == ChainOrder /\ LeaseOrder /\ OneTransitionPerLease /\ RevokedForGood

\* Settling touches the first call of the chain only, and only how it settled.
LEMMA SettleEffect ==
    ASSUME Inv, queue # <<>>, NEW state, NEW grant, Settle(state, grant)
    PROVE  /\ Head(queue) \in Calls /\ Head(queue) = queue[1]
           /\ calls'[Head(queue)].state = state
           /\ \A c \in Calls : /\ calls'[c].kind = calls[c].kind
                               /\ calls'[c].lease = calls[c].lease
                               /\ c # Head(queue) => calls'[c].state = calls[c].state
<1>1. queue \in Seq(Calls) /\ calls \in [Calls -> CallRecord]
      BY DEF Inv, CoordinatorTypeOK, CallRecord
<1>2. Head(queue) \in Calls /\ Head(queue) = queue[1]
      BY <1>1
<1>3. \A c \in Calls : calls[c] \in CallRecord
      BY <1>1
<1> QED BY <1>1, <1>2, <1>3 DEF Settle, CallRecord

\* Settling takes the first call off the chain and leaves the rest in order.
LEMMA SettleChain ==
    ASSUME Inv, ChainOrder, queue # <<>>, NEW state, NEW grant, Settle(state, grant)
    PROVE  ChainOrder'
<1>1. queue \in Seq(Calls) /\ queue' = Tail(queue)
      BY DEF Inv, CoordinatorTypeOK, Settle
<1>2. /\ Len(queue') = Len(queue) - 1
      /\ \A k \in 1..Len(queue') : queue'[k] = queue[k + 1] /\ k + 1 \in 1..Len(queue)
      BY <1>1
<1>3. \A k \in 1..Len(queue') : queue'[k] \in Calls /\ queue'[k] # Head(queue)
  <2> SUFFICES ASSUME NEW k \in 1..Len(queue') PROVE queue'[k] \in Calls /\ queue'[k] # Head(queue)
      OBVIOUS
  <2>1. 1 \in 1..Len(queue) /\ k + 1 \in 1..Len(queue) /\ k + 1 # 1
        BY <1>1, <1>2
  <2> QED BY <1>1, <1>2, <2>1, SettleEffect DEF ChainOrder
<1>4. \A k \in 1..Len(queue') : calls'[queue'[k]].state = "queued"
      BY <1>2, <1>3, SettleEffect DEF ChainOrder
<1>5. \A k, l \in 1..Len(queue') : queue'[k] = queue'[l] => k = l
      BY <1>1, <1>2 DEF ChainOrder
<1> QED BY <1>4, <1>5 DEF ChainOrder

\* A new call goes to the end of the chain and disturbs no other.
LEMMA IssueEffect ==
    ASSUME Inv, ChainOrder, NEW c \in Calls, Joins(c)
    PROVE  /\ ChainOrder'
           /\ calls'[c].state = "queued" /\ calls'[c].lease \in 0..generation
           /\ \A d \in Calls \ {c} : calls'[d] = calls[d]
           /\ queue # <<>> => Head(queue') = Head(queue) /\ Head(queue) \in Calls \ {c}
<1>1. /\ queue \in Seq(Calls) /\ calls \in [Calls -> CallRecord] /\ generation \in Nat
      BY DEF Inv, CoordinatorTypeOK, CallRecord
<1>2. PICK kind \in Kinds, g \in 0..generation : Enqueue(c, kind, g)
      BY DEF Joins
<1>3. /\ queue' = Append(queue, c) /\ calls[c].state = "unused"
      /\ calls' = [calls EXCEPT ![c] = [kind |-> kind, lease |-> g, state |-> "queued",
                                        grant |-> 0]]
      BY <1>2 DEF Enqueue
<1>4. /\ Len(queue') = Len(queue) + 1 /\ queue'[Len(queue) + 1] = c
      /\ \A k \in 1..Len(queue) : queue'[k] = queue[k] /\ queue[k] \in Calls
      BY <1>1, <1>3
<1>5. \A k \in 1..Len(queue) : queue[k] # c
      BY <1>3 DEF ChainOrder
<1>6. /\ calls'[c].state = "queued" /\ calls'[c].lease \in 0..generation
      /\ \A d \in Calls \ {c} : calls'[d] = calls[d]
      BY <1>1, <1>3
<1>7. \A k \in 1..Len(queue') : calls'[queue'[k]].state = "queued"
  <2> SUFFICES ASSUME NEW k \in 1..Len(queue') PROVE calls'[queue'[k]].state = "queued"
      OBVIOUS
  <2>1. CASE k \in 1..Len(queue)
        BY <2>1, <1>4, <1>5, <1>6 DEF ChainOrder
  <2>2. CASE k = Len(queue) + 1
        BY <2>2, <1>4, <1>6
  <2> QED BY <1>1, <1>4, <2>1, <2>2
<1>8. \A k, l \in 1..Len(queue') : queue'[k] = queue'[l] => k = l
      BY <1>1, <1>4, <1>5 DEF ChainOrder
<1>9. queue # <<>> => Head(queue') = Head(queue) /\ Head(queue) \in Calls \ {c}
  <2> SUFFICES ASSUME queue # <<>>
               PROVE  Head(queue') = Head(queue) /\ Head(queue) \in Calls \ {c}
      OBVIOUS
  <2>1. 1 \in 1..Len(queue) /\ Head(queue) = queue[1] /\ queue' # <<>> /\ Head(queue') = queue'[1]
        BY <1>1, <1>3
  <2> QED BY <2>1, <1>4, <1>5
<1> QED BY <1>6, <1>7, <1>8, <1>9 DEF ChainOrder

\* The steps that leave the chain and the calls as they are.
LEMMA SteadyLease ==
    ASSUME Inv, LeaseInv, CoordinatorNext, UNCHANGED <<queue, calls>>
    PROVE  LeaseInv'
<1>1. /\ active \in 0..Transports /\ attempt \in 0..Transports /\ generation \in Nat
      /\ queue \in Seq(Calls) /\ calls \in [Calls -> CallRecord]
      BY DEF Inv, CoordinatorTypeOK, CallRecord
<1>2. Control /\ LeaseOrder /\ RevokedForGood
      BY DEF Inv, LeaseInv
<1>3. /\ ~Return /\ ~Revoked /\ ~Exhausted /\ ~RevokeRejected /\ ~Activate
      /\ \A c \in Calls : ~Issue(c)
  <2>1. ASSUME queue # <<>> PROVE queue # Tail(queue)
    <3>1. Len(Tail(queue)) = Len(queue) - 1 /\ Len(queue) \in Nat
          BY <1>1, <2>1
    <3> QED BY <3>1
  <2>2. \A c \in Calls : queue # Append(queue, c)
    <3>1. \A c \in Calls : Len(Append(queue, c)) = Len(queue) + 1 /\ Len(queue) \in Nat
          BY <1>1
    <3> QED BY <3>1
  <2>3. \A c \in Calls : ~Issue(c)
        BY <2>2 DEF Issue, Enqueue
  <2> QED BY <1>2, <2>1, <2>3
          DEF Return, Ready, Revoked, Exhausted, RevokeRejected, Activate, Leaves, Settle, Control
<1>4. generation' \in Nat /\ generation <= generation' /\ (generation' # 0 => started')
      BY <1>1, <1>2, <1>3
      DEF CoordinatorNext, Serve, BeginStart, BeginRevoke, BeginNext, Leaves, DriverComesUp,
          StartRejected, BlankLocator, AttemptFailed, StartSync, StartSyncFails, DriverCloses,
          DriverEnds, LeaseOrder, Control
<1>5. /\ pc' # "idle" => pc # "idle" \/ Running.kind \in {"start", "revoke"}
                         \/ Running.lease = generation
      /\ pc' \in {"starting", "up"} => Running.kind # "revoke"
      BY <1>2, <1>3
      DEF CoordinatorNext, Serve, BeginStart, BeginRevoke, BeginNext, Leaves, DriverComesUp,
          StartRejected, BlankLocator, AttemptFailed, Settle, StartSync, StartSyncFails,
          DriverCloses, DriverEnds, LeaseOrder, Control, Refusal
<1>6. started /\ active = 0 /\ pc = "idle" => started' /\ active' = 0 /\ pc' = "idle"
      BY <1>3
      DEF CoordinatorNext, Serve, BeginStart, BeginRevoke, BeginNext, Leaves, DriverComesUp,
          StartRejected, BlankLocator, StartSync, StartSyncFails, DriverCloses, DriverEnds
<1>7. ChainOrder' /\ OneTransitionPerLease' /\ RevokedForGood'
      BY <1>2, <1>6 DEF LeaseInv, ChainOrder, OneTransitionPerLease, RevokedForGood
<1>8. \A c \in Calls : calls[c].lease \in Nat
      BY <1>1 DEF CallRecord
<1>9. LeaseOrder'
      BY <1>1, <1>2, <1>4, <1>5, <1>8 DEF LeaseOrder, Moved, Running
<1> QED BY <1>7, <1>9 DEF LeaseInv

\* The steps by which the running operation settles: a transition spends the
\* lease it was asked for, and a revoke leaves nothing to go on from.
LEMMA SettledLease ==
    ASSUME Inv, LeaseInv, CoordinatorNext, queue # <<>>,
           NEW state, NEW grant, Settle(state, grant)
    PROVE  LeaseInv'
<1> DEFINE h == Head(queue)
<1>1. /\ active \in 0..Transports /\ attempt \in 0..Transports /\ generation \in Nat
      /\ queue \in Seq(Calls) /\ calls \in [Calls -> CallRecord]
      BY DEF Inv, CoordinatorTypeOK, CallRecord
<1>2. Control /\ LeaseOrder /\ RevokedForGood /\ OneTransitionPerLease
      BY DEF Inv, LeaseInv
<1>3. /\ h \in Calls /\ calls'[h].state = state /\ pc' = "idle" /\ Running = calls[h]
      /\ \A c \in Calls : /\ calls'[c].kind = calls[c].kind
                          /\ calls'[c].lease = calls[c].lease
                          /\ c # h => calls'[c].state = calls[c].state
      BY SettleEffect DEF Settle, Running
<1>4. Len(queue') = Len(queue) - 1 /\ Len(queue) \in Nat
      BY <1>1 DEF Settle
<1>5. /\ queue' # queue
      /\ \A c \in Calls : queue' # Append(queue, c)
  <2>1. ASSUME NEW c \in Calls PROVE queue' # Append(queue, c)
    <3>1. Len(Append(queue, c)) = Len(queue) + 1
          BY <1>1
    <3>2. Len(queue') # Len(Append(queue, c))
          BY <1>4, <3>1
    <3> QED BY <3>2
  <2>2. Len(queue') # Len(queue)
        BY <1>4
  <2> QED BY <2>1, <2>2
<1>6. \/ Return \/ Revoked \/ Exhausted \/ RevokeRejected \/ Activate
      \/ StartRejected \/ BlankLocator
      BY <1>5 DEF CoordinatorNext, Serve, BeginStart, BeginRevoke, BeginNext, DriverComesUp,
                  StartSync, StartSyncFails, DriverCloses, DriverEnds, Issue, Enqueue
<1>7. generation' \in Nat /\ generation <= generation' /\ (generation' # 0 => started')
      BY <1>1, <1>2, <1>6
      DEF Return, Revoked, Exhausted, Leaves, RevokeRejected, Activate, StartRejected,
          BlankLocator, AttemptFailed, LeaseOrder, Control
<1>8. calls[h].state = "queued"
      BY <1>1, SettleEffect DEF LeaseInv, ChainOrder
<1> DEFINE Spends == calls[h].kind \in {"advance", "fallback"} /\ state \in {"ok", "none"}
           Ends == calls[h].kind = "revoke" /\ state = "ok" /\ calls[h].lease # 0
<1>9. /\ Spends => pc # "idle" /\ generation' = generation + 1
      /\ Ends => active' = 0
      /\ started /\ active = 0 /\ pc = "idle" => started' /\ active' = 0
  <2>1. CASE Return
    <3>1. state = Refusal(Running)
          BY <1>3, <2>1, SettleEffect DEF Return
    <3> QED BY <1>3, <2>1, <3>1 DEF Return, Refusal
  <2>2. CASE Revoked \/ Exhausted
        BY <1>2, <1>3, <2>2 DEF Revoked, Exhausted, Leaves, Control
  <2>3. CASE RevokeRejected
    <3>1. state = "failed"
          BY <1>3, <2>3, SettleEffect DEF RevokeRejected
    <3> QED BY <2>3, <3>1 DEF RevokeRejected
  <2>4. CASE Activate \/ StartRejected \/ BlankLocator
    <3>1. pc \in {"starting", "up"} /\ generation' = generation + 1
          BY <2>4 DEF Activate, StartRejected, BlankLocator, AttemptFailed
    <3> QED BY <1>2, <1>3, <3>1 DEF LeaseOrder
  <2> QED BY <1>6, <2>1, <2>2, <2>3, <2>4
<1>10. \A c \in Calls : /\ c # h => (Moved(c)' <=> Moved(c))
                       /\ Moved(c)' /\ c = h => Spends /\ calls[h].lease # 0
       BY <1>3 DEF Moved
<1>11. \A c \in Calls : calls[c].lease \in Nat
       BY <1>1 DEF CallRecord
<1>12. ASSUME Spends, calls[h].lease # 0, NEW c \in Calls, c # h, Moved(c)
       PROVE  calls[c].lease < calls[h].lease
       BY <1>2, <1>3, <1>9, <1>12 DEF LeaseOrder
<1>13. LeaseOrder'
  <2>1. ASSUME NEW c \in Calls, Moved(c)' PROVE calls'[c].lease < generation'
    <3>1. CASE c = h
          BY <1>1, <1>2, <1>3, <1>9, <1>10, <1>11, <2>1, <3>1 DEF LeaseOrder
    <3>2. CASE c # h
          BY <1>1, <1>2, <1>3, <1>7, <1>11, <2>1, <3>2 DEF LeaseOrder, Moved
    <3> QED BY <3>1, <3>2
  <2>2. \A c \in Calls : calls'[c].lease <= generation'
        BY <1>1, <1>2, <1>3, <1>7, <1>11 DEF LeaseOrder
  <2> QED BY <1>3, <1>7, <2>1, <2>2 DEF LeaseOrder
<1>14. OneTransitionPerLease'
  <2>1. ASSUME NEW c \in Calls, NEW d \in Calls, Moved(c)', Moved(d)',
               calls'[c].lease = calls'[d].lease
        PROVE  c = d
    <3>1. calls[c].lease = calls[d].lease /\ calls[c].lease \in Nat
          BY <1>3, <1>11, <2>1
    <3>2. CASE c = h /\ d # h
      <4>1. Moved(d) /\ Spends /\ calls[h].lease # 0
            BY <1>3, <2>1, <3>2 DEF Moved
      <4>2. calls[d].lease < calls[h].lease
            BY <1>12, <3>2, <4>1
      <4> QED BY <3>1, <3>2, <4>2
    <3>3. CASE d = h /\ c # h
      <4>1. Moved(c) /\ Spends /\ calls[h].lease # 0
            BY <1>3, <2>1, <3>3 DEF Moved
      <4>2. calls[c].lease < calls[h].lease
            BY <1>12, <3>3, <4>1
      <4> QED BY <3>1, <3>3, <4>2
    <3>4. CASE c # h /\ d # h
          BY <1>2, <1>3, <1>10, <2>1, <3>4 DEF OneTransitionPerLease, Moved
    <3> QED BY <3>2, <3>3, <3>4
  <2> QED BY <2>1 DEF OneTransitionPerLease, Moved
<1>15. RevokedForGood'
  <2> SUFFICES ASSUME NEW c \in Calls, calls'[c].kind = "revoke", calls'[c].state = "ok",
                      calls'[c].lease # 0
               PROVE  started' /\ active' = 0 /\ pc' = "idle"
      BY DEF RevokedForGood
  <2>1. CASE c # h
        BY <1>2, <1>3, <1>9, <2>1 DEF RevokedForGood
  <2>2. CASE c = h
    <3>1. generation' # 0
          BY <1>1, <1>2, <1>3, <1>7, <1>11, <2>2 DEF LeaseOrder
    <3> QED BY <1>3, <1>7, <1>9, <2>2, <3>1
  <2> QED BY <2>1, <2>2
<1>16. ChainOrder'
       BY SettleChain DEF LeaseInv
<1> QED BY <1>13, <1>14, <1>15, <1>16 DEF LeaseInv

\* A new call carries a lease already granted and has not moved anything yet.
LEMMA IssueLease ==
    ASSUME Inv, LeaseInv, NEW e \in Calls, Joins(e)
    PROVE  LeaseInv'
<1>1. /\ generation \in Nat /\ queue \in Seq(Calls) /\ calls \in [Calls -> CallRecord]
      BY DEF Inv, CoordinatorTypeOK, CallRecord
<1>2. Control /\ ChainOrder /\ LeaseOrder /\ RevokedForGood /\ OneTransitionPerLease
      BY DEF Inv, LeaseInv
<1>3. UNCHANGED <<started, active, generation, pc>>
      BY DEF Joins
<1>4. /\ ChainOrder'
      /\ calls'[e].state = "queued" /\ calls'[e].lease \in 0..generation
      /\ \A d \in Calls \ {e} : calls'[d] = calls[d]
      BY <1>2, IssueEffect
<1>5. pc # "idle" => Running' = Running
  <2> SUFFICES ASSUME pc # "idle" PROVE Running' = Running
      OBVIOUS
  <2>1. Head(queue') = Head(queue) /\ Head(queue) \in Calls \ {e}
        BY <1>2, IssueEffect DEF Control
  <2> QED BY <1>4, <2>1 DEF Running
<1>6. \A c \in Calls : calls[c].lease \in Nat
      BY <1>1 DEF CallRecord
<1>7. LeaseOrder'
  <2>1. \A c \in Calls : calls'[c].lease <= generation'
        BY <1>1, <1>2, <1>3, <1>4, <1>6 DEF LeaseOrder
  <2>2. ASSUME NEW c \in Calls, Moved(c)' PROVE Moved(c) /\ calls'[c] = calls[c]
        BY <1>4, <2>2 DEF Moved
  <2>3. \A c \in Calls : Moved(c)' => calls'[c].lease < generation'
        BY <1>2, <1>3, <2>2 DEF LeaseOrder
  <2>4. pc # "idle" /\ Running.kind \in {"advance", "fallback"} /\ Running.lease # 0
            => \A c \in Calls : Moved(c)' => calls'[c].lease < Running.lease
        BY <1>2, <2>2 DEF LeaseOrder
  <2>5. pc \in {"starting", "up"} => Running.kind # "revoke"
        BY <1>2 DEF LeaseOrder
  <2>6. generation # 0 => started
        BY <1>2 DEF LeaseOrder
  <2> QED BY <1>3, <1>5, <2>1, <2>3, <2>4, <2>5, <2>6 DEF LeaseOrder
<1>8. OneTransitionPerLease'
      BY <1>2, <1>4 DEF OneTransitionPerLease
<1>9. RevokedForGood'
      BY <1>2, <1>3, <1>4 DEF RevokedForGood
<1> QED BY <1>4, <1>7, <1>8, <1>9 DEF LeaseInv

\* No lease has been granted and no call made.
LEMMA InitLease == CoordinatorInit => LeaseInv
<1> SUFFICES ASSUME CoordinatorInit PROVE LeaseInv
    OBVIOUS
<1>1. /\ queue = <<>> /\ generation = 0 /\ pc = "idle"
      /\ \A c \in Calls : calls[c] = NoCall
      BY DEF CoordinatorInit
<1>2. ChainOrder
      BY <1>1 DEF ChainOrder
<1>3. LeaseOrder
      BY <1>1 DEF LeaseOrder, Moved, NoCall
<1>4. OneTransitionPerLease /\ RevokedForGood
      BY <1>1 DEF OneTransitionPerLease, RevokedForGood, NoCall
<1> QED BY <1>2, <1>3, <1>4 DEF LeaseInv

\* Every step of the coordinator keeps the guarantees of the leases.
LEMMA LeaseStep ==
    ASSUME Inv, LeaseInv, CoordinatorNext
    PROVE  LeaseInv'
<1>1. CASE UNCHANGED <<queue, calls>>
      BY <1>1, SteadyLease
<1>2. CASE \E state \in Settled, grant \in Nat : queue # <<>> /\ Settle(state, grant)
      BY <1>2, SettledLease
<1>3. CASE \E c \in Calls : Issue(c)
      BY <1>3, IssueLease, IssueJoins
<1> QED BY <1>1, <1>2, <1>3, ChainStep

\* The invariant of the leases, for drivers of every kind.
THEOREM LeaseInvariance == CoordinatorSpec => []LeaseInv
<1>1. CoordinatorInit => LeaseInv
      BY InitLease
<1>2. Inv /\ LeaseInv /\ [CoordinatorNext]_coordinatorVars => LeaseInv'
  <2> SUFFICES ASSUME Inv, LeaseInv, [CoordinatorNext]_coordinatorVars PROVE LeaseInv'
      OBVIOUS
  <2>1. CASE UNCHANGED coordinatorVars
        BY <2>1 DEF coordinatorVars, LeaseInv, ChainOrder, LeaseOrder, Moved, Running,
                    OneTransitionPerLease, RevokedForGood
  <2>2. CASE CoordinatorNext
        BY <2>2, LeaseStep
  <2> QED BY <2>1, <2>2
<1> QED BY <1>1, <1>2, Invariance, PTL DEF CoordinatorSpec

\* Of the calls that carry the same lease, one at most leaves its transport:
\* a second fallback() of the same page is refused however the calls queue.
THEOREM OneTransition == CoordinatorSpec => []OneTransitionPerLease
<1>1. LeaseInv => OneTransitionPerLease
      BY DEF LeaseInv
<1> QED BY <1>1, LeaseInvariance, PTL

\* Once a revoke() of a lease has resolved, no transport takes Human input.
THEOREM RevokeFinality == CoordinatorSpec => []RevokeIsFinal
<1>1. Inv /\ LeaseInv => RevokeIsFinal
  <2> SUFFICES ASSUME Inv, LeaseInv,
                      \E c \in Calls : /\ calls[c].kind = "revoke" /\ calls[c].state = "ok"
                                       /\ calls[c].lease # 0
               PROVE  \A i \in Plan : driver[i] # "live"
      BY DEF RevokeIsFinal
  <2>1. active = 0 /\ pc = "idle"
        BY DEF LeaseInv, RevokedForGood
  <2> QED BY <2>1 DEF Inv, LiveIsLast, Plan
<1> QED BY <1>1, Invariance, LeaseInvariance, PTL

--------------------------------------------------------------------------------
(* The managed runtime over the coordinator.                               *)

Request == [of: {"none", "fallback", "revoke", "unclaimed"}, route: Nat, capability: Nat,
            handled: BOOLEAN]

\* The fallback c succeeded and its handler has not gone on.
Ahead(c) == request[c].of = "fallback" /\ ~request[c].handled /\ calls[c].state = "ok"

SessionTypeOK ==
    /\ lease \in 0..generation /\ activeRoute \in {0, lease}
    /\ routes \subseteq 0..generation /\ ended \subseteq 0..generation
    /\ registered \/ routes # {} => lease # 0
    /\ capability \in Nat /\ current \in 0..Transports
    /\ request \in [Calls -> Request]
    /\ \A c \in Calls : request[c].route \in 0..generation

\* What a call asks of the coordinator: nothing but fallbacks and revokes, with a lease
\* the session had.  An exhausted plan is the end of all of them.
CallsAsk == \A c \in Calls :
    IF calls[c].state = "unused" THEN request[c] = NoRequest
    ELSE /\ calls[c].kind = IF request[c].of = "fallback" THEN "fallback" ELSE "revoke"
         /\ request[c].of # "none" /\ calls[c].lease \in 1..lease
         /\ calls[c].state = "queued" => ~request[c].handled
         /\ calls[c].state = "none" => active = 0 /\ pc = "idle"

\* The session's lease is that of the active transport, or the coordinator stands
\* still until the one handler that has the next lease goes on.
LeaseFollows ==
    /\ \A c \in Calls : Ahead(c) =>
          calls[c].grant = generation /\ active # 0 /\ pc = "idle" /\ lease < generation
    /\ \A c, d \in Calls : Ahead(c) /\ Ahead(d) => c = d
    /\ active # 0 /\ (\A c \in Calls : ~Ahead(c)) => lease = generation

\* The page of the active transport says that it ended only if that transport takes
\* no input any more or a revoke of its lease is queued.
EndedIsRevoked ==
    active # 0 /\ generation \in ended =>
        \/ driver[active] # "live"
        \/ \E c \in Calls : /\ calls[c].kind = "revoke" /\ calls[c].state = "queued"
                            /\ calls[c].lease = generation

SessionInv == SessionTypeOK /\ CallsAsk /\ LeaseFollows /\ EndedIsRevoked

\* No viewer is of a generation to come, and none is attached while a driver starts.
ViewerInv ==
    /\ viewed \in 0..(IF pc = "up" THEN generation + 1 ELSE generation)
    /\ pc = "starting" => viewer = 0
    /\ ViewersFollowTransports

CoordinatorInv == Inv /\ OpenIsLast /\ LeaseInv

\* The coordinator has a transport, or is bringing one up.
Occupied == active # 0 \/ pc \in {"starting", "up"}

\* c is a revoke of the session that has not put an end to its transport.
Unserved(c) == /\ request[c].of \in {"revoke", "unclaimed"}
               /\ calls[c].state \in {"queued", "stale", "failed"}

\* A session is forgotten with its transport up only by a revoke that waits or was lost.
ForgottenIsRevoked == Occupied => registered \/ \E c \in Calls : Unserved(c)

ManagedInv == CoordinatorInv /\ SessionInv /\ ViewerInv /\ ForgottenIsRevoked
--------------------------------------------------------------------------------
\* The handlers and the coordinator.

\* What the handlers do to the coordinator: one of its own steps, with a real locator,
\* nothing, or revokeUnclaimed().
LEMMA HandlersKeepToTheCoordinator ==
    ASSUME CoordinatorInv, SessionInv, [Next]_vars
    PROVE  \/ FaultlessNext \/ UNCHANGED coordinatorVars
           \/ \E c \in Calls : RevokeUnclaimed(c)
<1>1. /\ lease \in 0..generation /\ generation \in Nat
      /\ registered \/ routes # {} => lease # 0
      /\ driver \in [Plan -> {"off", "live", "fenced"}]
      BY DEF CoordinatorInv, Inv, CoordinatorTypeOK, SessionInv, SessionTypeOK
<1>2. ASSUME NEW c \in Calls, FallbackRequested(c) \/ RevokeRequested(c)
      PROVE  Issue(c)
  <2>1. lease \in 1..generation
        BY <1>1, <1>2 DEF FallbackRequested, RevokeRequested
  <2> QED BY <1>2, <2>1 DEF FallbackRequested, RevokeRequested, Issue, NextCall,
                            UnchangedCoordinatorButQueue
<1>3. ASSUME NEW c \in Calls, Call(c)
      PROVE  Issue(c) \/ UNCHANGED coordinatorVars \/ RevokeUnclaimed(c)
      BY <1>2, <1>3 DEF Call, FallbackRefused, FallbackExhausted, FallbackTakes, RevokeReturns
<1>4. ASSUME NEW i \in Plan, NEW by, CompleteChild(i, by)
      PROVE  DriverEnds(i) \/ UNCHANGED coordinatorVars
  <2>1. CASE driver[i] = "live"
        BY <1>4, <2>1 DEF CompleteChild, DriverEnds
  <2>2. CASE driver[i] # "live"
    <3>1. driver' = driver
          BY <1>1, <1>4, <2>2 DEF CompleteChild
    <3> QED BY <1>4, <3>1 DEF CompleteChild, coordinatorVars
  <2> QED BY <2>1, <2>2
<1>5. current # 0 => current \in Plan
      BY CoordinatorAssumption DEF SessionInv, SessionTypeOK, Plan
<1>6. CASE Done \/ VerificationRequested
      BY <1>4, <1>5, <1>6 DEF Done, VerificationRequested, FaultlessNext
<1>7. CASE Start \/ StartFails
      BY <1>7 DEF Start, StartFails, FaultlessNext
<1>8. CASE AuthorityReleased \/ Completed \/ Verified
      BY <1>8 DEF AuthorityReleased, Completed, Verified
<1>9. CASE TransportComesUp \/ TransportStartFails \/ TransportRevoked \/ CoordinatorRuns
      BY <1>9 DEF TransportComesUp, TransportStartFails, TransportRevoked, CoordinatorRuns,
                  FaultlessNext
<1>10. CASE \E i \in Plan : TransportEnds(i)
       BY <1>10 DEF TransportEnds, FaultlessNext
<1>11. CASE \E c \in Calls : Call(c)
       BY <1>3, <1>11 DEF FaultlessNext
<1>12. CASE UNCHANGED vars
       BY <1>12 DEF vars
<1> QED BY <1>6, <1>7, <1>8, <1>9, <1>10, <1>11, <1>12 DEF Next

\* What revokeUnclaimed() does to the coordinator: the transport of state.current, if it
\* is live, is fenced, and a revoke joins the chain.
LEMMA UnclaimedFacts ==
    ASSUME CoordinatorInv, SessionInv, NEW c \in Calls, RevokeUnclaimed(c)
    PROVE  /\ Joins(c)
           /\ driver' \in [Plan -> {"off", "live", "fenced"}]
           /\ \A i \in Plan : driver'[i] # driver[i] =>
                 i = current /\ driver[i] = "live" /\ driver'[i] = "fenced"
<1>1. /\ lease \in 0..generation /\ driver \in [Plan -> {"off", "live", "fenced"}]
      BY DEF CoordinatorInv, Inv, CoordinatorTypeOK, SessionInv, SessionTypeOK
<1>2. Joins(c)
      BY <1>1 DEF RevokeUnclaimed, Joins, Kinds
<1>3. driver' = [i \in Plan |-> IF i = current /\ driver[i] = "live" THEN "fenced"
                                ELSE driver[i]]
      BY DEF RevokeUnclaimed
<1> QED BY <1>1, <1>2, <1>3

\* The coordinator's invariants hold under the handlers.
LEMMA CoordinatorInvKept ==
    ASSUME CoordinatorInv, SessionInv, [Next]_vars
    PROVE  CoordinatorInv'
<1>1. CASE FaultlessNext
  <2>1. CoordinatorNext
        BY <1>1, FaultlessSteps
  <2> QED BY <1>1, <2>1, InvStep, OpenStep, LeaseStep DEF CoordinatorInv
<1>2. CASE UNCHANGED coordinatorVars
      BY <1>2 DEF coordinatorVars, CoordinatorInv, Inv, CoordinatorTypeOK, Control, LiveIsLast,
                  OpenIsLast, LeaseInv, ChainOrder, LeaseOrder, Moved, Running,
                  OneTransitionPerLease, RevokedForGood
<1>3. ASSUME NEW c \in Calls, RevokeUnclaimed(c)
      PROVE  CoordinatorInv'
  <2>1. /\ Joins(c) /\ UNCHANGED <<started, active, generation, attempt, pc>>
        /\ driver' \in [Plan -> {"off", "live", "fenced"}]
        /\ \A i \in Plan : driver'[i] # driver[i] => driver[i] = "live" /\ driver'[i] = "fenced"
        BY <1>3, UnclaimedFacts DEF Joins
  <2>2. queue' \in Seq(Calls) /\ calls' \in [Calls -> CallRecord]
        BY <2>1, IssueType DEF CoordinatorInv
  <2>3. queue' # <<>>
    <3>1. queue \in Seq(Calls) /\ queue' = Append(queue, c)
          BY <2>1 DEF CoordinatorInv, Inv, CoordinatorTypeOK, Joins, Enqueue
    <3> QED BY <3>1
  <2>4. CoordinatorTypeOK'
        BY <2>1, <2>2 DEF CoordinatorInv, Inv, CoordinatorTypeOK, CallRecord
  <2>5. Control' /\ LiveIsLast' /\ OpenIsLast'
        BY <2>1, <2>3 DEF CoordinatorInv, Inv, Control, LiveIsLast, OpenIsLast
  <2>6. LeaseInv'
        BY <2>1, IssueLease DEF CoordinatorInv
  <2> QED BY <2>4, <2>5, <2>6 DEF CoordinatorInv, Inv
<1> QED BY <1>1, <1>2, <1>3, HandlersKeepToTheCoordinator

\* Each step of a handler is one of ExclusiveTransport, or none.
LEMMA HandlersSimulate ==
    ASSUME CoordinatorInv, SessionInv, [Next]_vars
    PROVE  [Exclusion!Next]_(Exclusion!vars)
<1>1. CASE FaultlessNext
      BY <1>1, StepSimulation DEF CoordinatorInv
<1>2. CASE UNCHANGED coordinatorVars
      BY <1>2 DEF coordinatorVars, Exclusion!vars
<1>3. ASSUME NEW c \in Calls, RevokeUnclaimed(c)
      PROVE  [Exclusion!Next]_(Exclusion!vars)
  <2>1. driver \in [Plan -> {"off", "live", "fenced"}] /\ UNCHANGED <<attempt, pc>>
        BY <1>3 DEF CoordinatorInv, Inv, CoordinatorTypeOK, RevokeUnclaimed
  <2>2. CASE current \in Plan /\ driver[current] = "live"
    <3>1. driver' = [driver EXCEPT ![current] = "fenced"]
          BY <1>3, <2>1, <2>2 DEF RevokeUnclaimed
    <3> QED BY <2>1, <2>2, <3>1
            DEF Exclusion!Next, Exclusion!Fence, Exclusion!Plan, Plan
  <2>3. CASE ~(current \in Plan /\ driver[current] = "live")
    <3>1. driver' = driver
          BY <1>3, <2>1, <2>3 DEF RevokeUnclaimed
    <3> QED BY <2>1, <3>1 DEF Exclusion!vars
  <2> QED BY <2>2, <2>3
<1> QED BY <1>1, <1>2, <1>3, HandlersKeepToTheCoordinator
--------------------------------------------------------------------------------
\* The lease of the session.

\* What the coordinator's invariant says of types here.
LEMMA CoordinatorTypes ==
    ASSUME CoordinatorInv
    PROVE  /\ generation \in Nat /\ active \in 0..Transports /\ attempt \in 0..Transports
           /\ Transports \in Nat \ {0} /\ queue \in Seq(Calls)
           /\ calls \in [Calls -> CallRecord]
           /\ driver \in [Plan -> {"off", "live", "fenced"}]
           /\ Control /\ LiveIsLast /\ ChainOrder /\ LeaseOrder
  BY CoordinatorAssumption DEF CoordinatorInv, Inv, CoordinatorTypeOK, LeaseInv, CallRecord

\* The running operation is a queued call, of a page or of a revoke.
LEMMA RunningFacts ==
    ASSUME CoordinatorInv, SessionInv, queue # <<>>
    PROVE  /\ Head(queue) \in Calls /\ Running = calls[Head(queue)]
           /\ Running.state = "queued" /\ ~request[Head(queue)].handled
           /\ Running.kind = IF request[Head(queue)].of = "fallback" THEN "fallback" ELSE "revoke"
           /\ Running.lease \in 1..lease
<1>1. queue \in Seq(Calls) /\ ChainOrder
      BY CoordinatorTypes
<1>2. Head(queue) \in Calls /\ Head(queue) = queue[1] /\ 1 \in 1..Len(queue)
      BY <1>1
<1>3. calls[Head(queue)].state = "queued"
      BY <1>1, <1>2 DEF ChainOrder
<1> QED BY <1>2, <1>3 DEF SessionInv, CallsAsk, Running

\* Settling answers the running operation and no other.
LEMMA SettleFacts ==
    ASSUME CoordinatorInv, queue # <<>>, NEW state, NEW grant, Settle(state, grant)
    PROVE  /\ pc' = "idle"
           /\ calls'[Head(queue)].state = state /\ calls'[Head(queue)].grant = grant
           /\ calls'[Head(queue)].kind = calls[Head(queue)].kind
           /\ calls'[Head(queue)].lease = calls[Head(queue)].lease
           /\ \A c \in Calls : c # Head(queue) => calls'[c] = calls[c]
<1>1. queue \in Seq(Calls) /\ calls \in [Calls -> CallRecord]
      BY CoordinatorTypes
<1>2. Head(queue) \in Calls /\ calls[Head(queue)] \in CallRecord
      BY <1>1
<1> QED BY <1>1, <1>2 DEF Settle, CallRecord

\* The coordinator moves, the session does not: its types hold on.
LEMMA SessionTypesRest ==
    ASSUME SessionTypeOK, generation \in Nat, generation' \in Nat, generation <= generation',
           UNCHANGED <<sessionVars, request>>, current' \in 0..Transports
    PROVE  SessionTypeOK'
<1>1. \A n \in 0..generation : n \in 0..generation'
      OBVIOUS
<1> QED BY <1>1 DEF SessionTypeOK, sessionVars

\* No call is settled and the lease stays: steps of the drivers, and a revoke() called.
LEMMA QuietStep ==
    ASSUME CoordinatorInv, SessionInv, UNCHANGED <<sessionVars, request>>,
           current' \in 0..Transports, UNCHANGED <<active, generation, calls>>,
           \A i \in Plan : driver'[i] = "live" => driver[i] = "live",
           pc' = pc \/ (active # 0 /\ \A c \in Calls : ~Ahead(c))
    PROVE  SessionInv'
<1>1. SessionTypeOK'
      BY CoordinatorTypes, SessionTypesRest DEF SessionInv
<1>2. CallsAsk'
      BY DEF SessionInv, CallsAsk, sessionVars
<1>3. LeaseFollows'
      BY DEF SessionInv, LeaseFollows, Ahead, sessionVars
<1>4. active # 0 => active \in Plan
      BY CoordinatorTypes DEF Plan
<1>5. EndedIsRevoked'
      BY <1>4 DEF SessionInv, EndedIsRevoked, sessionVars
<1> QED BY <1>1, <1>2, <1>3, <1>5 DEF SessionInv

\* A transport is left, or an attempt fails, and the operation goes on.
LEMMA GoesOnStep ==
    ASSUME CoordinatorInv, SessionInv, UNCHANGED <<sessionVars, request, calls>>,
           current' \in 0..Transports, pc # "idle", active' = 0,
           generation' \in Nat, generation <= generation'
    PROVE  SessionInv'
<1>1. SessionTypeOK'
      BY CoordinatorTypes, SessionTypesRest DEF SessionInv
<1>2. CallsAsk'
      BY DEF SessionInv, CallsAsk, sessionVars
<1>3. LeaseFollows'
      BY DEF SessionInv, LeaseFollows, Ahead, sessionVars
<1>4. EndedIsRevoked'
      BY DEF EndedIsRevoked
<1> QED BY <1>1, <1>2, <1>3, <1>4 DEF SessionInv

\* The running operation settles and leaves no transport active.
LEMMA SettlesInactive ==
    ASSUME CoordinatorInv, SessionInv, UNCHANGED <<sessionVars, request>>,
           current' \in 0..Transports, queue # <<>>, NEW state \in Settled, NEW grant,
           Settle(state, grant), active = 0 \/ pc # "idle", active' = 0,
           state = "ok" => Running.kind = "revoke",
           generation' \in Nat, generation <= generation'
    PROVE  SessionInv'
<1>1. SessionTypeOK'
      BY CoordinatorTypes, SessionTypesRest DEF SessionInv
<1>2. state # "queued" /\ state # "unused"
      BY DEF Settled
<1>3. CallsAsk'
      BY <1>2, SettleFacts, RunningFacts DEF SessionInv, CallsAsk, sessionVars, Running
<1>4. \A c \in Calls : ~Ahead(c)
      BY DEF SessionInv, LeaseFollows
<1>5. \A c \in Calls : ~Ahead(c)'
      BY <1>4, SettleFacts, RunningFacts DEF Ahead, Running
<1>6. LeaseFollows' /\ EndedIsRevoked'
      BY <1>5 DEF LeaseFollows, EndedIsRevoked
<1> QED BY <1>1, <1>3, <1>6 DEF SessionInv

\* The running operation is refused, or its teardown fails: the lease stays.
LEMMA SettlesActive ==
    ASSUME CoordinatorInv, SessionInv, UNCHANGED <<sessionVars, request>>,
           current' \in 0..Transports, queue # <<>>, NEW state \in Settled, NEW grant,
           Settle(state, grant), UNCHANGED <<active, generation, driver>>, active # 0,
           state \notin {"ok", "none"},
           Running.lease = generation => driver[active] # "live"
    PROVE  SessionInv'
<1>1. SessionTypeOK'
      BY CoordinatorTypes, SessionTypesRest DEF SessionInv
<1>2. state # "queued" /\ state # "unused"
      BY DEF Settled
<1>3. CallsAsk'
      BY <1>2, SettleFacts, RunningFacts DEF SessionInv, CallsAsk, sessionVars, Running
<1>4. \A c \in Calls : Ahead(c)' <=> Ahead(c)
      BY SettleFacts, RunningFacts DEF Ahead, Running
<1>5. \A c \in Calls : Ahead(c) => calls'[c] = calls[c]
      BY SettleFacts, RunningFacts DEF Ahead, Running
<1>6. LeaseFollows'
      BY <1>4, <1>5, SettleFacts DEF SessionInv, LeaseFollows, sessionVars
<1>7. EndedIsRevoked'
      BY SettleFacts, RunningFacts DEF SessionInv, EndedIsRevoked, sessionVars, Running
<1> QED BY <1>1, <1>3, <1>6, <1>7 DEF SessionInv

\* A fallback activates the next transport: it is the one handler that is ahead.
LEMMA ActivateStep ==
    ASSUME CoordinatorInv, SessionInv, UNCHANGED <<sessionVars, request, current>>, Activate
    PROVE  SessionInv'
<1>1. /\ queue # <<>> /\ active = 0 /\ attempt \in Plan /\ active' = attempt
      /\ generation' = generation + 1 /\ Settle("ok", generation + 1) /\ pc = "up"
      /\ Running.kind # "revoke" /\ generation \in Nat
      BY CoordinatorTypes DEF Activate, Control, LeaseOrder
<1>2. PICK h \in Calls : h = Head(queue)
      BY <1>1, RunningFacts
<1>3. /\ Running = calls[h] /\ request[h].of = "fallback" /\ ~request[h].handled
      /\ Running.kind = "fallback" /\ Running.lease \in 1..lease
      BY <1>1, <1>2, RunningFacts
<1>4. SessionTypeOK'
      BY <1>1, SessionTypesRest DEF SessionInv, SessionTypeOK
<1>5. CallsAsk'
      BY <1>1, <1>2, <1>3, SettleFacts DEF SessionInv, CallsAsk, sessionVars, Running
<1>6. \A c \in Calls : ~Ahead(c)
      BY <1>1 DEF SessionInv, LeaseFollows
<1>7. /\ Ahead(h)' /\ calls'[h].grant = generation' /\ pc' = "idle"
      /\ \A c \in Calls : Ahead(c)' => c = h
      BY <1>1, <1>2, <1>3, <1>6, SettleFacts DEF Ahead
<1>8. lease' < generation' /\ active' # 0
      BY <1>1 DEF SessionInv, SessionTypeOK, sessionVars, Plan
<1>9. LeaseFollows'
      BY <1>7, <1>8 DEF LeaseFollows
<1>10. generation' \notin ended'
      BY <1>1 DEF SessionInv, SessionTypeOK, sessionVars
<1> QED BY <1>4, <1>5, <1>9, <1>10 DEF SessionInv, EndedIsRevoked

\* The operations of the coordinator's chain.
LEMMA ChainStepsKeep ==
    ASSUME CoordinatorInv, SessionInv, UNCHANGED <<sessionVars, request>>,
           current' \in 0..Transports,
           \/ Return \/ BeginRevoke \/ Revoked \/ Exhausted \/ BeginNext \/ RevokeRejected
           \/ DriverComesUp \/ StartRejected
    PROVE  SessionInv'
<1>1. /\ generation \in Nat /\ active \in 0..Transports /\ Control
      /\ driver \in [Plan -> {"off", "live", "fenced"}] /\ Transports \in Nat \ {0}
      /\ LiveIsLast /\ LeaseOrder
      BY CoordinatorTypes
<1>2. CASE Return
  <2>1. /\ queue # <<>> /\ Refusal(Running) \in Settled /\ 0 \in Nat
        /\ Settle(Refusal(Running), 0) /\ UNCHANGED <<active, generation, driver>>
        BY <1>2, RefusalType DEF Return, Ready
  <2>2. /\ Running.kind \in {"fallback", "revoke"} /\ Running.lease # 0
        BY <2>1, RunningFacts
  <2>3. CASE active = 0
    <3>1. Refusal(Running) = "ok" => Running.kind = "revoke"
          BY <2>2, <2>3 DEF Refusal
    <3> QED BY <1>1, <2>1, <2>3, <3>1, SettlesInactive
  <2>4. CASE active # 0
    <3>1. Refusal(Running) = "stale" /\ Running.lease # generation
          BY <1>2, <2>2, <2>4 DEF Return, Refusal
    <3> QED BY <2>1, <2>4, <3>1, SettlesActive
  <2> QED BY <2>3, <2>4
<1>3. CASE BeginRevoke
  <2>1. /\ queue # <<>> /\ active # 0 /\ Refusal(Running) = "ok" /\ active \in Plan
        /\ driver' = [driver EXCEPT ![active] = IF @ = "live" THEN "fenced" ELSE @]
        /\ UNCHANGED <<active, generation, calls>>
        BY <1>1, <1>3 DEF BeginRevoke, Ready, Plan
  <2>2. Running.kind \in {"fallback", "revoke"} /\ Running.lease \in 1..lease
        BY <2>1, RunningFacts
  <2>3. Running.lease = generation
        BY <2>1, <2>2 DEF Refusal
  <2>4. \A c \in Calls : ~Ahead(c)
        BY <1>1, <2>2, <2>3 DEF SessionInv, SessionTypeOK, LeaseFollows
  <2>5. \A i \in Plan : driver'[i] = "live" => driver[i] = "live"
        BY <1>1, <2>1
  <2> QED BY <2>1, <2>4, <2>5, QuietStep
<1>4. CASE Revoked \/ Exhausted
  <2>1. /\ queue # <<>> /\ pc # "idle" /\ active' = 0
        /\ generation' \in Nat /\ generation <= generation'
        /\ \E state \in {"ok", "none"} :
              Settle(state, 0) /\ (state = "ok" => Running.kind = "revoke")
        BY <1>1, <1>4 DEF Revoked, Exhausted, Leaves, Control
  <2>2. {"ok", "none"} \subseteq Settled
        BY DEF Settled
  <2> QED BY <2>1, <2>2, SettlesInactive
<1>5. CASE BeginNext
  <2>1. pc # "idle" /\ active' = 0 /\ UNCHANGED <<generation, calls>>
        BY <1>5 DEF BeginNext, Leaves
  <2> QED BY <1>1, <2>1, GoesOnStep
<1>6. CASE RevokeRejected
  <2>1. /\ queue # <<>> /\ active # 0 /\ driver[active] # "live" /\ "failed" \in Settled
        /\ Settle("failed", 0) /\ UNCHANGED <<active, generation, driver>>
        BY <1>1, <1>6 DEF RevokeRejected, Control, Settled
  <2> QED BY <2>1, SettlesActive
<1>7. CASE DriverComesUp
  <2>1. pc # "idle" /\ active' = 0 /\ UNCHANGED <<generation, calls>>
        BY <1>1, <1>7 DEF DriverComesUp, Control
  <2> QED BY <1>1, <2>1, GoesOnStep
<1>8. CASE StartRejected
  <2>1. /\ pc = "starting" /\ active' = 0 /\ active = 0 /\ queue # <<>>
        /\ generation' \in Nat /\ generation <= generation'
        BY <1>1, <1>8 DEF StartRejected, AttemptFailed, Control
  <2>2. CASE UNCHANGED calls
        BY <2>1, <2>2, GoesOnStep
  <2>3. CASE \E state \in {"none", "failed"} : Settle(state, 0)
    <3>1. {"none", "failed"} \subseteq Settled
          BY DEF Settled
    <3> QED BY <2>1, <2>3, <3>1, SettlesInactive
  <2> QED BY <1>8, <2>2, <2>3 DEF StartRejected, AttemptFailed
<1> QED BY <1>2, <1>3, <1>4, <1>5, <1>6, <1>7, <1>8

\* The steps of Next in which the session only looks on.
LEMMA OnlookerSteps ==
    ASSUME CoordinatorInv, SessionInv,
           \/ Done \/ AuthorityReleased \/ Completed \/ VerificationRequested \/ Verified
           \/ TransportComesUp \/ TransportStartFails \/ TransportRevoked
           \/ \E i \in Plan : TransportEnds(i)
           \/ CoordinatorRuns \/ UNCHANGED vars
    PROVE  SessionInv'
<1>1. /\ attempt \in 0..Transports /\ current \in 0..Transports /\ 0 \in 0..Transports
      /\ driver \in [Plan -> {"off", "live", "fenced"}]
      BY CoordinatorTypes DEF SessionInv, SessionTypeOK
<1>2. ASSUME NEW i, NEW by, CompleteChild(i, by)
      PROVE  SessionInv'
  <2>1. /\ UNCHANGED <<active, generation, pc, calls, sessionVars, request, current>>
        /\ driver' = [driver EXCEPT ![i] = IF @ = "live" THEN "fenced" ELSE @]
        BY <1>2 DEF CompleteChild
  <2>2. \A j \in Plan : driver'[j] = "live" => driver[j] = "live"
        BY <1>1, <2>1
  <2> QED BY <1>1, <2>1, <2>2, QuietStep
<1>3. CASE Done \/ VerificationRequested
      BY <1>2, <1>3 DEF Done, VerificationRequested
<1>4. CASE AuthorityReleased \/ Completed \/ Verified \/ UNCHANGED vars
  <2>1. UNCHANGED <<active, generation, pc, calls, driver, sessionVars, request, current>>
        BY <1>4 DEF AuthorityReleased, Completed, Verified, coordinatorVars, vars, runtimeVars
  <2> QED BY <1>1, <2>1, QuietStep
<1>5. CASE TransportComesUp \/ TransportStartFails \/ TransportRevoked
      BY <1>1, <1>5, ChainStepsKeep DEF TransportComesUp, TransportStartFails, TransportRevoked
<1>6. ASSUME NEW i \in Plan, DriverEnds(i) \/ DriverCloses(i),
             UNCHANGED <<sessionVars, request, current>>
      PROVE  SessionInv'
  <2>1. \A j \in Plan : driver'[j] = "live" => driver[j] = "live"
        BY <1>1, <1>6 DEF DriverEnds, DriverCloses
  <2> QED BY <1>1, <1>6, <2>1, QuietStep DEF DriverEnds, DriverCloses
<1>7. CASE \E i \in Plan : TransportEnds(i)
      BY <1>6, <1>7 DEF TransportEnds
<1>8. CASE CoordinatorRuns
      BY <1>1, <1>6, <1>8, ChainStepsKeep, ActivateStep DEF CoordinatorRuns, runtimeVars
<1> QED BY <1>3, <1>4, <1>5, <1>7, <1>8

\* start(): no call has been made, and no lease granted.
LEMMA StartSteps ==
    ASSUME CoordinatorInv, SessionInv, Start \/ StartFails
    PROVE  SessionInv'
<1>1. /\ generation \in Nat /\ Control /\ LeaseOrder /\ calls \in [Calls -> CallRecord]
      /\ Transports \in Nat \ {0}
      BY CoordinatorTypes
<1>2. /\ ~started /\ generation = 0 /\ active = 0 /\ generation' = 1
      /\ UNCHANGED <<pc, calls, request, ended>>
      BY <1>1 DEF Start, StartFails, StartSync, StartSyncFails, Control, LeaseOrder, runtimeVars,
                  sessionVars
<1>3. lease = 0 /\ ended \subseteq 0..0 /\ routes \subseteq 0..0
      BY <1>2 DEF SessionInv, SessionTypeOK
<1>4. \A c \in Calls : calls[c].state = "unused" /\ request[c] = NoRequest
      BY <1>3 DEF SessionInv, CallsAsk
<1>5. \A c \in Calls : ~Ahead(c)'
      BY <1>2, <1>4 DEF Ahead
<1>6. CallsAsk'
      BY <1>2, <1>4 DEF CallsAsk
<1>7. \A c \in Calls : request'[c].route \in 0..generation'
      BY <1>2, <1>4 DEF NoRequest
<1>8. 1 \notin ended'
      BY <1>2, <1>3
<1>9. request' \in [Calls -> Request]
      BY <1>2 DEF SessionInv, SessionTypeOK
<1>10. CASE Start
  <2>1. /\ lease' = 1 /\ activeRoute' = 1 /\ routes' = {1} /\ capability' = 1 /\ current' = 1
        BY <1>10 DEF Start
  <2>2. SessionTypeOK'
        BY <1>1, <1>2, <1>3, <1>7, <1>9, <2>1 DEF SessionTypeOK
  <2> QED BY <1>2, <1>5, <1>6, <1>8, <2>1, <2>2 DEF SessionInv, LeaseFollows, EndedIsRevoked
<1>11. CASE StartFails
  <2>1. active' = 0 /\ UNCHANGED runtimeVars
        BY <1>2, <1>11 DEF StartFails, StartSyncFails
  <2>2. SessionTypeOK'
        BY <1>1, <1>2, <2>1, SessionTypesRest DEF SessionInv, SessionTypeOK, runtimeVars
  <2> QED BY <1>5, <1>6, <2>1, <2>2 DEF SessionInv, LeaseFollows, EndedIsRevoked
<1> QED BY <1>10, <1>11

\* A handler that was answered is marked and nothing else of the requests changes.
LEMMA AnsweredFacts ==
    ASSUME SessionInv, NEW c \in Calls, NEW of, Answered(c, of)
    PROVE  /\ request[c].of = of /\ ~request[c].handled /\ calls[c].state \in Settled
           /\ request' \in [Calls -> Request]
           /\ request'[c].of = request[c].of /\ request'[c].route = request[c].route
           /\ request'[c].handled = TRUE
           /\ \A d \in Calls : d # c => request'[d] = request[d]
<1>1. /\ request \in [Calls -> Request]
      /\ request' = [request EXCEPT ![c].handled = TRUE]
      BY DEF SessionInv, SessionTypeOK, Answered
<1> QED BY <1>1 DEF Request, Answered

\* The handlers that were refused, or told that the plan is exhausted or the session
\* revoked, leave the lease.
LEMMA AnswersKeep ==
    ASSUME CoordinatorInv, SessionInv, NEW c \in Calls,
           FallbackRefused(c) \/ FallbackExhausted(c) \/ RevokeReturns(c)
    PROVE  SessionInv'
<1>1. /\ generation \in Nat /\ UNCHANGED <<started, active, generation, driver, pc, queue, calls>>
      /\ UNCHANGED <<registered, lease, current>> /\ calls \in [Calls -> CallRecord]
      BY CoordinatorTypes DEF FallbackRefused, FallbackExhausted, RevokeReturns, coordinatorVars,
                              sessionVars
<1>2. PICK of \in {"fallback", "revoke"} :
          Answered(c, of) /\ (of = "fallback" => calls[c].state # "ok")
      BY DEF FallbackRefused, FallbackExhausted, RevokeReturns
<1>3. /\ request[c].of = of /\ ~request[c].handled /\ calls[c].state \in Settled
      /\ request' \in [Calls -> Request]
      /\ request'[c].of = request[c].of /\ request'[c].route = request[c].route
      /\ request'[c].handled = TRUE
      /\ \A d \in Calls : d # c => request'[d] = request[d]
      BY <1>2, AnsweredFacts
<1>4. \A d \in Calls : Ahead(d)' <=> Ahead(d)
      BY <1>1, <1>2, <1>3 DEF Ahead
<1>5. LeaseFollows'
      BY <1>1, <1>4 DEF SessionInv, LeaseFollows
<1>6. CallsAsk'
      BY <1>1, <1>3 DEF SessionInv, CallsAsk, Settled
<1>7. /\ \A d \in Calls : request'[d].route \in 0..generation'
      /\ request[c].route \in 0..generation
      BY <1>1, <1>3 DEF SessionInv, SessionTypeOK
<1>8. CASE FallbackExhausted(c)
  <2>1. /\ routes' \subseteq routes /\ ended' \subseteq ended \union {request[c].route}
        /\ activeRoute' = 0 /\ capability' = capability + 1 /\ calls[c].state = "none"
        BY <1>8 DEF FallbackExhausted, RememberEnded
  <2>2. SessionTypeOK'
    <3>1. routes' \subseteq 0..generation' /\ ended' \subseteq 0..generation'
          BY <1>1, <1>7, <2>1 DEF SessionInv, SessionTypeOK
    <3>2. registered' \/ routes' # {} => lease' # 0
          BY <1>1, <2>1 DEF SessionInv, SessionTypeOK
    <3>3. /\ lease' \in 0..generation' /\ activeRoute' \in {0, lease'} /\ capability' \in Nat
          /\ current' \in 0..Transports
          BY <1>1, <2>1 DEF SessionInv, SessionTypeOK
    <3> QED BY <1>3, <1>7, <3>1, <3>2, <3>3 DEF SessionTypeOK
  <2>3. active' = 0
        BY <1>1, <2>1 DEF SessionInv, CallsAsk
  <2> QED BY <1>5, <1>6, <2>2, <2>3 DEF SessionInv, EndedIsRevoked
<1>9. CASE FallbackRefused(c) \/ RevokeReturns(c)
  <2>1. UNCHANGED sessionVars
        BY <1>9 DEF FallbackRefused, RevokeReturns
  <2>2. SessionTypeOK'
        BY <1>1, <1>3, <1>7, <2>1 DEF SessionInv, SessionTypeOK, sessionVars
  <2>3. EndedIsRevoked'
        BY <1>1, <2>1 DEF SessionInv, EndedIsRevoked, sessionVars
  <2> QED BY <1>5, <1>6, <2>2, <2>3 DEF SessionInv
<1> QED BY <1>8, <1>9

\* The handler that is ahead catches up with the coordinator.
LEMMA TakesKeeps ==
    ASSUME CoordinatorInv, SessionInv, NEW c \in Calls, FallbackTakes(c)
    PROVE  SessionInv'
<1>1. /\ generation \in Nat /\ UNCHANGED <<started, active, generation, driver, pc, queue, calls>>
      /\ UNCHANGED <<registered, ended, current>> /\ calls \in [Calls -> CallRecord]
      BY CoordinatorTypes DEF FallbackTakes, coordinatorVars
<1>2. Answered(c, "fallback") /\ calls[c].state = "ok"
      BY DEF FallbackTakes
<1>3. /\ request[c].of = "fallback" /\ ~request[c].handled
      /\ request' \in [Calls -> Request]
      /\ request'[c].of = request[c].of /\ request'[c].route = request[c].route
      /\ request'[c].handled = TRUE
      /\ \A d \in Calls : d # c => request'[d] = request[d]
      BY <1>2, AnsweredFacts
<1>4. Ahead(c)
      BY <1>2, <1>3 DEF Ahead
<1>5. /\ calls[c].grant = generation /\ active # 0 /\ lease < generation
      /\ \A d \in Calls : Ahead(d) => d = c
      BY <1>4 DEF SessionInv, LeaseFollows
<1>6. /\ routes' = (routes \ {request[c].route}) \union {generation}
      /\ capability' = capability + 1 /\ lease' = generation /\ activeRoute' = generation
      BY <1>5 DEF FallbackTakes
<1>7. \A d \in Calls : ~Ahead(d)'
      BY <1>1, <1>3, <1>5 DEF Ahead
<1>8. LeaseFollows'
      BY <1>1, <1>6, <1>7 DEF LeaseFollows
<1>9. lease \in Nat
      BY DEF SessionInv, SessionTypeOK
<1>10. CallsAsk'
       BY <1>1, <1>2, <1>3, <1>5, <1>6, <1>9 DEF SessionInv, CallsAsk
<1>11. \A d \in Calls : request'[d].route \in 0..generation'
       BY <1>1, <1>3 DEF SessionInv, SessionTypeOK
<1>12. SessionTypeOK'
  <2>1. routes' \subseteq 0..generation' /\ ended' \subseteq 0..generation'
    <3>1. generation \in 0..generation /\ routes \subseteq 0..generation
          /\ ended \subseteq 0..generation
          BY <1>1 DEF SessionInv, SessionTypeOK
    <3>2. routes' \subseteq 0..generation
          BY <1>6, <3>1
    <3> QED BY <1>1, <3>1, <3>2
  <2>2. /\ lease' # 0 /\ lease' \in 0..generation' /\ activeRoute' \in {0, lease'}
        /\ capability' \in Nat /\ current' \in 0..Transports
        BY <1>1, <1>5, <1>6, <1>9 DEF SessionInv, SessionTypeOK
  <2> QED BY <1>3, <1>11, <2>1, <2>2 DEF SessionTypeOK
<1>13. EndedIsRevoked'
       BY <1>1 DEF SessionInv, EndedIsRevoked
<1> QED BY <1>8, <1>10, <1>12, <1>13 DEF SessionInv

\* A page or the consumer calls: the call is queued with session.lease.
LEMMA CallJoins ==
    ASSUME CoordinatorInv, SessionInv, NEW c \in Calls,
           NEW kind \in {"fallback", "revoke"}, Enqueue(c, kind, lease),
           NEW of \in {"fallback", "revoke", "unclaimed"}, kind = "fallback" <=> of = "fallback",
           NEW route \in 0..generation, Asks(c, of, route)
    PROVE  /\ calls[c].state = "unused"
           /\ calls'[c].kind = kind /\ calls'[c].lease = lease /\ calls'[c].state = "queued"
           /\ request'[c].of = of /\ ~request'[c].handled
           /\ request' \in [Calls -> Request]
           /\ \A d \in Calls : request'[d].route \in 0..generation
           /\ \A d \in Calls : d # c => calls'[d] = calls[d] /\ request'[d] = request[d]
           /\ \A d \in Calls : Ahead(d)' <=> Ahead(d)
<1>1. /\ calls \in [Calls -> CallRecord] /\ request \in [Calls -> Request]
      /\ capability \in Nat /\ generation \in Nat
      /\ \A d \in Calls : request[d].route \in 0..generation
      BY CoordinatorTypes DEF SessionInv, SessionTypeOK
<1>2. /\ calls[c].state = "unused"
      /\ calls' = [calls EXCEPT ![c] = [kind |-> kind, lease |-> lease, state |-> "queued",
                                        grant |-> 0]]
      BY DEF Enqueue
<1>3. request' = [request EXCEPT ![c] = [of |-> of, route |-> route, capability |-> capability,
                                         handled |-> FALSE]]
      BY DEF Asks
<1>4. [of |-> of, route |-> route, capability |-> capability, handled |-> FALSE] \in Request
      BY <1>1 DEF Request
<1>5. /\ calls'[c].kind = kind /\ calls'[c].lease = lease /\ calls'[c].state = "queued"
      /\ request'[c].of = of /\ ~request'[c].handled /\ request'[c].route = route
      /\ \A d \in Calls : d # c => calls'[d] = calls[d] /\ request'[d] = request[d]
      BY <1>1, <1>2, <1>3
<1>6. request' \in [Calls -> Request]
      BY <1>1, <1>3, <1>4
<1>7. \A d \in Calls : request'[d].route \in 0..generation
      BY <1>1, <1>5
<1>8. \A d \in Calls : Ahead(d)' <=> Ahead(d)
      BY <1>2, <1>5 DEF Ahead
<1> QED BY <1>2, <1>5, <1>6, <1>7, <1>8

\* #handleFallback, revoke() and revokeUnclaimed() up to their awaits.
LEMMA RequestsKeep ==
    ASSUME CoordinatorInv, SessionInv, NEW c \in Calls,
           FallbackRequested(c) \/ RevokeRequested(c) \/ RevokeUnclaimed(c)
    PROVE  SessionInv'
<1>1. /\ generation \in Nat /\ UNCHANGED <<active, generation, pc>>
      /\ UNCHANGED <<lease, activeRoute, capability, current>>
      /\ driver \in [Plan -> {"off", "live", "fenced"}] /\ active \in 0..Transports
      BY CoordinatorTypes
      DEF FallbackRequested, RevokeRequested, RevokeUnclaimed, UnchangedCoordinatorButQueue,
          ForgetSession, sessionVars
<1>2. PICK kind \in {"fallback", "revoke"}, of \in {"fallback", "revoke", "unclaimed"},
           route \in 0..generation :
          /\ Enqueue(c, kind, lease) /\ Asks(c, of, route)
          /\ kind = "fallback" <=> of = "fallback"
          /\ kind = "fallback" <=> FallbackRequested(c)
  <2>1. CASE FallbackRequested(c)
        BY <2>1 DEF FallbackRequested, SessionInv, SessionTypeOK
  <2>2. CASE ~FallbackRequested(c)
        BY <1>1, <2>2 DEF RevokeRequested, RevokeUnclaimed
  <2> QED BY <2>1, <2>2
<1>3. /\ calls[c].state = "unused"
      /\ calls'[c].kind = kind /\ calls'[c].lease = lease /\ calls'[c].state = "queued"
      /\ request'[c].of = of /\ ~request'[c].handled
      /\ request' \in [Calls -> Request]
      /\ \A d \in Calls : request'[d].route \in 0..generation
      /\ \A d \in Calls : d # c => calls'[d] = calls[d] /\ request'[d] = request[d]
      /\ \A d \in Calls : Ahead(d)' <=> Ahead(d)
      BY <1>2, CallJoins
<1>4. lease \in 1..generation
      BY <1>1 DEF SessionInv, SessionTypeOK, FallbackRequested, RevokeRequested, RevokeUnclaimed
<1>5. CallsAsk'
  <2>1. \A d \in Calls : d # c =>
            IF calls'[d].state = "unused" THEN request'[d] = NoRequest
            ELSE /\ calls'[d].kind = IF request'[d].of = "fallback" THEN "fallback" ELSE "revoke"
                 /\ request'[d].of # "none" /\ calls'[d].lease \in 1..lease'
                 /\ calls'[d].state = "queued" => ~request'[d].handled
                 /\ calls'[d].state = "none" => active' = 0 /\ pc' = "idle"
        BY <1>1, <1>3 DEF SessionInv, CallsAsk
  <2>2. /\ calls'[c].kind = IF request'[c].of = "fallback" THEN "fallback" ELSE "revoke"
        /\ request'[c].of # "none" /\ calls'[c].lease \in 1..lease'
        BY <1>1, <1>2, <1>3, <1>4
  <2> QED BY <1>3, <2>1, <2>2 DEF CallsAsk
<1>6. LeaseFollows'
  <2>1. \A d \in Calls : Ahead(d) => calls'[d] = calls[d]
        BY <1>3 DEF Ahead
  <2> QED BY <1>1, <1>3, <2>1 DEF SessionInv, LeaseFollows
<1>7. /\ routes' \subseteq routes /\ ended' \subseteq ended \union {activeRoute}
      /\ registered' => registered
      /\ kind = "fallback" => ended' = ended
      /\ 0 \in ended' => 0 \in ended
      BY <1>2 DEF FallbackRequested, RevokeRequested, RevokeUnclaimed, ForgetSession,
                  RememberEnded, sessionVars
<1>8. SessionTypeOK'
      BY <1>1, <1>3, <1>4, <1>7 DEF SessionInv, SessionTypeOK
<1>9. \A i \in Plan : driver'[i] = "live" => driver[i] = "live"
  <2>1. CASE RevokeUnclaimed(c)
        BY <2>1, UnclaimedFacts
  <2>2. CASE ~RevokeUnclaimed(c)
        BY <2>2 DEF FallbackRequested, RevokeRequested, UnchangedCoordinatorButQueue
  <2> QED BY <2>1, <2>2
<1>10. EndedIsRevoked'
  <2> SUFFICES ASSUME active # 0, generation \in ended', driver'[active] = "live"
               PROVE  \E d \in Calls : /\ calls'[d].kind = "revoke" /\ calls'[d].state = "queued"
                                       /\ calls'[d].lease = generation
      BY <1>1 DEF EndedIsRevoked
  <2>1. CASE generation \in ended
    <3>1. PICK d \in Calls : /\ calls[d].kind = "revoke" /\ calls[d].state = "queued"
                             /\ calls[d].lease = generation
          BY <1>1, <1>9, <2>1 DEF SessionInv, EndedIsRevoked, Plan
    <3> QED BY <1>3, <3>1
  <2>2. CASE generation \notin ended
    <3>1. generation = activeRoute /\ kind = "revoke"
          BY <1>2, <1>7, <2>2
    <3>2. lease = generation
          BY <1>4, <3>1 DEF SessionInv, SessionTypeOK
    <3> QED BY <1>3, <3>1, <3>2
  <2> QED BY <2>1, <2>2
<1> QED BY <1>5, <1>6, <1>8, <1>10 DEF SessionInv

\* Every step keeps the session's lease in step with the coordinator.
LEMMA SessionInvKept ==
    ASSUME CoordinatorInv, SessionInv, [Next]_vars
    PROVE  SessionInv'
  BY OnlookerSteps, StartSteps, AnswersKeep, TakesKeeps, RequestsKeep DEF Next, Call
--------------------------------------------------------------------------------
\* The session and its revoke.

\* The session is not forgotten, and no revoke puts an end to its transport.
LEMMA ForgottenRests ==
    ASSUME ForgottenIsRevoked, UNCHANGED registered, Occupied' => Occupied,
           Occupied' => \A c \in Calls : Unserved(c) => Unserved(c)'
    PROVE  ForgottenIsRevoked'
  BY DEF ForgottenIsRevoked

\* The coordinator's steps: only a revoke that succeeds leaves Unserved, with nothing up.
LEMMA ForgottenFollowsCoordinator ==
    ASSUME CoordinatorInv, SessionInv, ForgottenIsRevoked,
           \/ TransportComesUp \/ TransportStartFails \/ TransportRevoked
           \/ \E i \in Plan : TransportEnds(i)
           \/ CoordinatorRuns
    PROVE  ForgottenIsRevoked'
<1>1. UNCHANGED <<registered, request>>
      BY DEF TransportComesUp, TransportStartFails, TransportRevoked, TransportEnds,
             CoordinatorRuns, runtimeVars, sessionVars
<1>2. /\ active \in 0..Transports /\ Control /\ queue \in Seq(Calls)
      BY CoordinatorTypes
<1>3. ASSUME UNCHANGED calls, Occupied' => Occupied
      PROVE  ForgottenIsRevoked'
  <2>1. \A c \in Calls : Unserved(c) => Unserved(c)'
        BY <1>1, <1>3 DEF Unserved
  <2> QED BY <1>1, <1>3, <2>1, ForgottenRests
<1>4. ASSUME NEW state, queue # <<>>, Settle(state, 0),
             \/ state \in {"stale", "failed"} /\ (Occupied' => Occupied)
             \/ active' = 0
      PROVE  ForgottenIsRevoked'
  <2>1. pc' = "idle" /\ \A c \in Calls : c # Head(queue) => calls'[c] = calls[c]
        BY <1>4, SettleFacts
  <2>2. calls'[Head(queue)].state = state
        BY <1>4, SettleFacts
  <2>3. CASE active' = 0
        BY <2>1, <2>3 DEF ForgottenIsRevoked, Occupied
  <2>4. CASE state \in {"stale", "failed"} /\ (Occupied' => Occupied)
    <3>1. \A c \in Calls : Unserved(c) => Unserved(c)'
          BY <1>1, <2>1, <2>2, <2>4 DEF Unserved
    <3> QED BY <1>1, <2>4, <3>1, ForgottenRests
  <2> QED BY <1>4, <2>3, <2>4
<1>5. CASE TransportComesUp
  <2>1. UNCHANGED calls /\ Occupied
        BY <1>5 DEF TransportComesUp, DriverComesUp, Occupied
  <2> QED BY <1>3, <2>1
<1>6. CASE TransportStartFails
  <2>1. /\ Occupied /\ active' = active /\ active = 0 /\ queue # <<>>
        BY <1>2, <1>6 DEF TransportStartFails, StartRejected, Occupied, Control
  <2>2. CASE UNCHANGED calls
        BY <1>3, <2>1, <2>2
  <2>3. CASE \E state \in {"none", "failed"} : Settle(state, 0)
        BY <1>4, <2>1, <2>3
  <2> QED BY <1>6, <2>2, <2>3 DEF TransportStartFails, StartRejected, AttemptFailed
<1>7. CASE TransportRevoked
  <2>1. CASE Revoked \/ Exhausted
    <3>1. /\ queue # <<>> /\ active' = 0 /\ \E state \in {"ok", "none"} : Settle(state, 0)
          BY <1>2, <2>1 DEF Revoked, Exhausted, Leaves, Control
    <3> QED BY <1>4, <3>1
  <2>2. CASE BeginNext
    <3>1. UNCHANGED calls /\ Occupied
          BY <1>2, <2>2 DEF BeginNext, Leaves, Occupied, Control
    <3> QED BY <1>3, <3>1
  <2>3. CASE RevokeRejected
    <3>1. queue # <<>> /\ Settle("failed", 0) /\ Occupied
          BY <1>2, <2>3 DEF RevokeRejected, Occupied, Control
    <3> QED BY <1>4, <3>1
  <2> QED BY <1>7, <2>1, <2>2, <2>3 DEF TransportRevoked
<1>8. CASE \E i \in Plan : TransportEnds(i) \/ DriverCloses(i)
  <2>1. UNCHANGED <<calls, active, pc>>
        BY <1>8 DEF TransportEnds, DriverEnds, DriverCloses
  <2> QED BY <1>3, <2>1 DEF Occupied
<1>9. CASE Return
  <2>1. /\ queue # <<>> /\ UNCHANGED active /\ pc = "idle" /\ Settle(Refusal(Running), 0)
        BY <1>9 DEF Return, Ready
  <2>2. pc' = "idle" /\ (Occupied' => Occupied)
        BY <2>1, SettleFacts DEF Occupied
  <2>3. Running.kind \in {"fallback", "revoke"} /\ Running.lease # 0
        BY <2>1, RunningFacts
  <2>4. active # 0 => Refusal(Running) = "stale"
        BY <1>9, <2>3 DEF Return, Refusal
  <2> QED BY <1>4, <2>1, <2>2, <2>4
<1>10. CASE BeginRevoke
  <2>1. UNCHANGED <<calls, active>> /\ active # 0
        BY <1>10 DEF BeginRevoke
  <2> QED BY <1>3, <2>1 DEF Occupied
<1>11. CASE Activate
  <2>1. Occupied /\ queue # <<>> /\ Running.kind # "revoke" /\ UNCHANGED registered
        BY <1>1, <1>2, <1>11, CoordinatorTypes DEF Activate, Occupied, Control, LeaseOrder
  <2>2. request[Head(queue)].of = "fallback" /\ Head(queue) \in Calls
        BY <2>1, RunningFacts
  <2>3. \A c \in Calls : c # Head(queue) => calls'[c] = calls[c]
        BY <1>11, <2>1, SettleFacts DEF Activate
  <2>4. \A c \in Calls : Unserved(c) => Unserved(c)'
        BY <1>1, <2>2, <2>3 DEF Unserved
  <2> QED BY <2>1, <2>4, ForgottenRests
<1> QED BY <1>5, <1>6, <1>7, <1>8, <1>9, <1>10, <1>11 DEF CoordinatorRuns

\* The handlers: start() registers the session, and what forgets it queues a revoke.
LEMMA ForgottenFollowsHandlers ==
    ASSUME CoordinatorInv, SessionInv, ForgottenIsRevoked,
           \/ Start \/ StartFails
           \/ \E c \in Calls : Call(c)
           \/ Done \/ AuthorityReleased \/ Completed \/ VerificationRequested \/ Verified
           \/ UNCHANGED vars
    PROVE  ForgottenIsRevoked'
<1>1. CASE Start
      BY <1>1 DEF Start, ForgottenIsRevoked
<1>2. ASSUME UNCHANGED <<registered, active, pc, calls>>,
             \A c \in Calls : request'[c].of = request[c].of
      PROVE  ForgottenIsRevoked'
      BY <1>2, ForgottenRests DEF Occupied, Unserved
<1>3. request \in [Calls -> Request]
      BY DEF SessionInv, SessionTypeOK
<1>4. CASE StartFails \/ Done \/ AuthorityReleased \/ Completed \/ VerificationRequested
           \/ Verified \/ UNCHANGED vars
  <2>1. UNCHANGED <<registered, active, pc, calls, request>>
        BY <1>4 DEF StartFails, StartSyncFails, Done, AuthorityReleased, Completed,
                    VerificationRequested, Verified, CompleteChild, vars, coordinatorVars,
                    runtimeVars, sessionVars, completionVars
  <2> QED BY <1>2, <2>1
<1>5. ASSUME NEW c \in Calls,
             FallbackRefused(c) \/ FallbackExhausted(c) \/ FallbackTakes(c) \/ RevokeReturns(c)
      PROVE  ForgottenIsRevoked'
  <2>1. /\ UNCHANGED <<registered, active, pc, calls>>
        /\ request' = [request EXCEPT ![c].handled = TRUE]
        BY <1>5 DEF FallbackRefused, FallbackExhausted, FallbackTakes, RevokeReturns, Answered,
                    coordinatorVars, sessionVars
  <2>2. \A d \in Calls : request'[d].of = request[d].of
        BY <1>3, <2>1 DEF Request
  <2> QED BY <1>2, <2>1, <2>2
<1>6. ASSUME NEW c \in Calls, FallbackRequested(c)
      PROVE  ForgottenIsRevoked'
  <2>1. UNCHANGED <<registered, active, pc>> /\ Enqueue(c, "fallback", lease)
        BY <1>6 DEF FallbackRequested, UnchangedCoordinatorButQueue, sessionVars
  <2>2. PICK r \in 0..generation : Asks(c, "fallback", r)
        BY <1>6 DEF FallbackRequested, SessionInv, SessionTypeOK
  <2>3. /\ calls[c].state = "unused"
        /\ \A d \in Calls : d # c => calls'[d] = calls[d] /\ request'[d] = request[d]
        BY <2>1, <2>2, CallJoins
  <2>4. \A d \in Calls : Unserved(d) => Unserved(d)'
        BY <2>3 DEF Unserved
  <2> QED BY <2>1, <2>4, ForgottenRests DEF Occupied
<1>7. ASSUME NEW c \in Calls, RevokeRequested(c) \/ RevokeUnclaimed(c)
      PROVE  ForgottenIsRevoked'
  <2>1. PICK of \in {"revoke", "unclaimed"} : Enqueue(c, "revoke", lease) /\ Asks(c, of, 0)
        BY <1>7 DEF RevokeRequested, RevokeUnclaimed
  <2>2. 0 \in 0..generation
        BY CoordinatorTypes
  <2>3. calls'[c].state = "queued" /\ request'[c].of = of
        BY <2>1, <2>2, CallJoins
  <2> QED BY <2>3 DEF ForgottenIsRevoked, Unserved
<1> QED BY <1>1, <1>4, <1>5, <1>6, <1>7 DEF Call
--------------------------------------------------------------------------------
\* The viewer of the desktop session.

\* No transport is live between two transports.
LEMMA NoneLive ==
    ASSUME CoordinatorInv
    PROVE  /\ pc # "up" /\ active = 0 => \A i \in Plan : driver[i] # "live"
           /\ pc \in {"starting", "up"} => active = 0
           /\ ~started => active = 0 /\ pc = "idle" /\ generation = 0
  BY CoordinatorTypes DEF Control, LiveIsLast, LeaseOrder, Plan

\* Steps that leave the coordinator's place and generation: the viewer stays, or is
\* detached for a reason.
LEMMA ViewerRests ==
    ASSUME ViewerInv, UNCHANGED <<generation, pc, viewed>>, viewer' \in {0, viewer},
           \/ desktopClosed' = TRUE
           \/ /\ desktopClosed' = desktopClosed
              /\ \/ completed' \/ finishing' # {}
                 \/ \A i \in Plan : driver'[i] # "live"
           \/ /\ UNCHANGED <<desktopClosed, viewer, completed, finishing>>
              /\ \A i \in Plan : driver'[i] = "live" => driver[i] = "live"
    PROVE  ViewerInv'
  BY DEF ViewerInv, ViewersFollowTransports, MayAttach

\* Steps after which no transport takes input: an attempt to come finds the desktop
\* session without a viewer.
LEMMA ViewerOfNone ==
    ASSUME ViewerInv, CoordinatorInv, pc' # "up", generation' \in Nat,
           viewed' \in 0..generation', pc' = "starting" => viewer' = 0,
           \A i \in Plan : driver'[i] # "live"
    PROVE  ViewerInv'
  BY DEF ViewerInv, ViewersFollowTransports, MayAttach

\* The steps of the coordinator and of its drivers.
LEMMA ViewerFollowsCoordinator ==
    ASSUME CoordinatorInv, ViewerInv,
           \/ TransportComesUp \/ TransportStartFails \/ TransportRevoked
           \/ \E i \in Plan : TransportEnds(i)
           \/ CoordinatorRuns
    PROVE  ViewerInv'
<1>1. /\ generation \in Nat /\ active \in 0..Transports /\ attempt \in 0..Transports
      /\ driver \in [Plan -> {"off", "live", "fenced"}] /\ Control /\ LiveIsLast
      BY CoordinatorTypes
<1>2. viewed \in 0..(IF pc = "up" THEN generation + 1 ELSE generation)
      BY DEF ViewerInv
<1>3. CASE TransportComesUp
  <2>1. /\ pc = "starting" /\ pc' = "up" /\ generation' = generation
        /\ AttachViewer(generation + 1) /\ viewed \in 0..generation
        BY <1>2, <1>3 DEF TransportComesUp, DriverComesUp
  <2>2. CASE PhysicalWindow
    <3>1. viewer' = generation + 1 /\ viewed' = generation + 1
          BY <2>1, <2>2 DEF AttachViewer
    <3> QED BY <1>1, <2>1, <3>1 DEF ViewerInv, ViewersFollowTransports
  <2>3. CASE ~PhysicalWindow
    <3>1. viewed' = viewed
          BY <2>1, <2>3 DEF AttachViewer, desktopVars
    <3> QED BY <1>1, <2>1, <2>3, <3>1 DEF ViewerInv, ViewersFollowTransports
  <2> QED BY <2>2, <2>3
<1>4. CASE TransportStartFails
  <2>1. /\ pc = "starting" /\ pc' \in {"starting", "idle"} /\ generation' = generation + 1
        /\ viewer' = 0 /\ driver' = driver
        BY <1>4 DEF TransportStartFails, StartRejected, AttemptFailed, Settle
  <2>2. viewed' \in {viewed, generation + 1}
        BY <1>4 DEF TransportStartFails
  <2>3. \A i \in Plan : driver'[i] # "live"
        BY <2>1, NoneLive
  <2>4. viewed' \in 0..generation'
        BY <1>1, <1>2, <2>1, <2>2
  <2> QED BY <1>1, <2>1, <2>3, <2>4, ViewerOfNone
<1>5. CASE TransportRevoked
  <2>1. /\ pc = "revoking" /\ driver[active] # "live" /\ driver' = driver
        /\ viewer' = 0 /\ viewed' = viewed
        BY <1>5 DEF TransportRevoked, Revoked, Exhausted, BeginNext, Leaves, RevokeRejected,
                    DetachCurrentViewer
  <2>2. /\ pc' \in {"idle", "starting"} /\ generation' \in Nat /\ generation <= generation'
        BY <1>1, <1>5 DEF TransportRevoked, Revoked, Exhausted, BeginNext, RevokeRejected, Settle
  <2>3. \A i \in Plan : driver'[i] # "live"
        BY <1>1, <2>1 DEF LiveIsLast
  <2>4. viewed' \in 0..generation'
        BY <1>1, <1>2, <2>1, <2>2
  <2> QED BY <2>1, <2>2, <2>3, <2>4, ViewerOfNone
<1>6. ASSUME NEW i \in Plan, TransportEnds(i)
      PROVE  ViewerInv'
  <2>1. /\ driver[i] = "live" /\ driver' = [driver EXCEPT ![i] = "fenced"]
        /\ UNCHANGED <<generation, pc, viewed, desktopClosed>> /\ viewer' \in {0, viewer}
        BY <1>6 DEF TransportEnds, DriverEnds, DetachCurrentViewer, desktopVars
  <2>2. \A j \in Plan : driver'[j] # "live"
        BY <1>1, <2>1 DEF LiveIsLast
  <2> QED BY <2>1, <2>2, ViewerRests
<1>7. CASE CoordinatorRuns
  <2>1. UNCHANGED <<viewed, viewer, desktopClosed, completed, finishing>>
        BY <1>7 DEF CoordinatorRuns, runtimeVars, desktopVars, completionVars
  <2>2. CASE Return
    <3>1. UNCHANGED <<generation, pc, driver>>
          BY <2>2 DEF Return, Ready, Settle
    <3> QED BY <2>1, <3>1, ViewerRests
  <2>3. CASE BeginRevoke
    <3>1. /\ pc = "idle" /\ pc' = "revoking" /\ generation' = generation
          /\ driver' = [driver EXCEPT ![active] = IF @ = "live" THEN "fenced" ELSE @]
          BY <2>3 DEF BeginRevoke, Ready
    <3>2. \A i \in Plan : driver'[i] # "live"
          BY <1>1, <3>1 DEF LiveIsLast
    <3> QED BY <1>1, <1>2, <2>1, <3>1, <3>2, ViewerOfNone
  <2>4. CASE Activate
    <3>1. pc = "up" /\ pc' = "idle" /\ generation' = generation + 1 /\ driver' = driver
          BY <2>4 DEF Activate, Settle
    <3> QED BY <1>1, <1>2, <2>1, <3>1 DEF ViewerInv, ViewersFollowTransports
  <2>5. CASE \E i \in Plan : DriverCloses(i)
    <3>1. /\ UNCHANGED <<generation, pc>>
          /\ \A j \in Plan : driver'[j] = "live" => driver[j] = "live"
          BY <1>1, <2>5 DEF DriverCloses
    <3> QED BY <2>1, <3>1, ViewerRests
  <2> QED BY <1>7, <2>2, <2>3, <2>4, <2>5 DEF CoordinatorRuns
<1> QED BY <1>3, <1>4, <1>5, <1>6, <1>7

\* start() attaches the first viewer, and the handlers detach or leave the one there is.
LEMMA ViewerFollowsHandlers ==
    ASSUME CoordinatorInv, SessionInv, ViewerInv,
           \/ Start \/ StartFails
           \/ \E c \in Calls : Call(c)
           \/ Done \/ AuthorityReleased \/ Completed \/ VerificationRequested \/ Verified
           \/ UNCHANGED vars
    PROVE  ViewerInv'
<1>1. generation \in Nat /\ driver \in [Plan -> {"off", "live", "fenced"}]
      BY CoordinatorTypes
<1>2. viewed \in 0..(IF pc = "up" THEN generation + 1 ELSE generation)
      BY DEF ViewerInv
<1>3. CASE Start
  <2>1. /\ pc' = "idle" /\ generation = 0 /\ generation' = 1 /\ AttachViewer(1)
        /\ viewed = 0
        BY <1>2, <1>3, NoneLive DEF Start, StartSync
  <2>2. CASE PhysicalWindow
    <3>1. viewer' = 1 /\ viewed' = 1
          BY <2>1, <2>2 DEF AttachViewer
    <3> QED BY <2>1, <3>1 DEF ViewerInv, ViewersFollowTransports
  <2>3. CASE ~PhysicalWindow
    <3>1. viewed' = 0
          BY <2>1, <2>3 DEF AttachViewer, desktopVars
    <3> QED BY <2>1, <2>3, <3>1 DEF ViewerInv, ViewersFollowTransports
  <2> QED BY <2>2, <2>3
<1>4. CASE StartFails
  <2>1. /\ ~started /\ generation' = generation + 1 /\ UNCHANGED <<driver, pc, viewed, viewer>>
        BY <1>4 DEF StartFails, StartSyncFails, runtimeVars, desktopVars
  <2>2. pc' = "idle" /\ \A i \in Plan : driver'[i] # "live"
        BY <2>1, NoneLive
  <2> QED BY <1>1, <1>2, <2>1, <2>2, ViewerOfNone
<1>5. ASSUME NEW c \in Calls,
             \/ FallbackRequested(c) \/ FallbackRefused(c) \/ FallbackExhausted(c)
             \/ FallbackTakes(c) \/ RevokeRequested(c)
      PROVE  ViewerInv'
  <2>1. UNCHANGED <<generation, pc, driver, viewed, viewer, desktopClosed, completed, finishing>>
        BY <1>5 DEF FallbackRequested, FallbackRefused, FallbackExhausted, FallbackTakes,
                    RevokeRequested, UnchangedCoordinatorButQueue, coordinatorVars, desktopVars,
                    completionVars
  <2> QED BY <2>1, ViewerRests
<1>6. ASSUME NEW c \in Calls, RevokeReturns(c) \/ RevokeUnclaimed(c)
      PROVE  ViewerInv'
  <2>1. UNCHANGED <<generation, pc>> /\ CloseDesktop
        BY <1>6 DEF RevokeReturns, RevokeUnclaimed, coordinatorVars
  <2> QED BY <2>1, ViewerRests DEF CloseDesktop
<1>7. CASE Verified
  <2>1. UNCHANGED <<generation, pc>> /\ CloseDesktop
        BY <1>7 DEF Verified, coordinatorVars
  <2> QED BY <2>1, ViewerRests DEF CloseDesktop
<1>8. CASE Done \/ VerificationRequested
  <2>1. /\ UNCHANGED <<generation, pc, viewed, viewer, desktopClosed>> /\ finishing' # {}
        BY <1>8 DEF Done, VerificationRequested, CompleteChild, desktopVars
  <2> QED BY <2>1, ViewerRests
<1>9. CASE AuthorityReleased \/ Completed
  <2>1. /\ UNCHANGED <<generation, pc, viewed, desktopClosed>> /\ viewer' \in {0, viewer}
        /\ completed' \/ finishing' # {}
        BY <1>9 DEF AuthorityReleased, Completed, DetachCurrentViewer, coordinatorVars, desktopVars
  <2> QED BY <2>1, ViewerRests
<1>10. CASE UNCHANGED vars
  <2>1. UNCHANGED <<generation, pc, driver, viewed, viewer, desktopClosed, completed, finishing>>
        BY <1>10 DEF vars, coordinatorVars, runtimeVars, desktopVars, completionVars
  <2> QED BY <2>1, ViewerRests
<1> QED BY <1>3, <1>4, <1>5, <1>6, <1>7, <1>8, <1>9, <1>10 DEF Call
--------------------------------------------------------------------------------
\* Before start() there is no session, no call and no viewer.
LEMMA ManagedInit == Init => ManagedInv
<1> SUFFICES ASSUME Init PROVE ManagedInv
    OBVIOUS
<1>1. CoordinatorInv
      BY InitInv, InitLease DEF Init, CoordinatorInv
<1>2. /\ generation = 0 /\ active = 0 /\ pc = "idle"
      /\ \A c \in Calls : calls[c] = NoCall /\ request[c] = NoRequest
      /\ \A i \in Plan : driver[i] = "off"
      BY DEF Init, CoordinatorInit
<1>3. request \in [Calls -> Request]
  <2>1. NoRequest \in Request
        BY DEF NoRequest, Request
  <2> QED BY <2>1 DEF Init
<1>4. SessionTypeOK
      BY <1>2, <1>3, CoordinatorAssumption DEF Init, SessionTypeOK, NoRequest
<1>5. CallsAsk /\ LeaseFollows /\ EndedIsRevoked
      BY <1>2 DEF CallsAsk, LeaseFollows, EndedIsRevoked, Ahead, NoCall, NoRequest
<1>6. ViewerInv
      BY <1>2 DEF Init, DesktopInit, ViewerInv, ViewersFollowTransports
<1>7. ForgottenIsRevoked
      BY <1>2 DEF ForgottenIsRevoked, Occupied
<1> QED BY <1>1, <1>4, <1>5, <1>6, <1>7 DEF ManagedInv, SessionInv

\* The inductive invariant: coordinator, session and desktop session stay in step however
\* the handlers interleave.
THEOREM ManagedInvariance == Spec => []ManagedInv
<1>1. Init => ManagedInv
      BY ManagedInit
<1>2. ManagedInv /\ [Next]_vars => ManagedInv'
  <2> SUFFICES ASSUME ManagedInv, [Next]_vars PROVE ManagedInv'
      OBVIOUS
  <2>1. CoordinatorInv' /\ SessionInv'
        BY CoordinatorInvKept, SessionInvKept DEF ManagedInv
  <2>2. ViewerInv'
        BY ViewerFollowsCoordinator, ViewerFollowsHandlers DEF ManagedInv, Next
  <2>3. ForgottenIsRevoked'
        BY ForgottenFollowsCoordinator, ForgottenFollowsHandlers DEF ManagedInv, Next
  <2> QED BY <2>1, <2>2, <2>3 DEF ManagedInv
<1> QED BY <1>1, <1>2, PTL DEF Spec

\* A transport that takes input while no fallback is in flight is the one session.lease
\* names, and the session is registered for revoke() to find, unless a revoke forgot it and
\* still waits or was rejected; its page says that it has ended only while that revoke waits.
THEOREM LiveIsLeased == Spec => []LiveTransportIsLeased
<1>1. ManagedInv => LiveTransportIsLeased
  <2> SUFFICES ASSUME ManagedInv,
                      \A c \in Calls : request[c].of = "fallback" => request[c].handled,
                      NEW i \in Plan, driver[i] = "live"
               PROVE  /\ active = i /\ lease = generation
                      /\ registered \/ RevokeWaits \/ RevokeLost
                      /\ Page(generation) = "ended" => RevokeWaits
      BY DEF LiveTransportIsLeased
  <2>1. CoordinatorInv /\ SessionInv
        BY DEF ManagedInv
  <2>2. pc # "up"
    <3> SUFFICES ASSUME pc = "up" PROVE FALSE
        OBVIOUS
    <3>1. queue # <<>> /\ Running.kind # "revoke"
          BY <2>1, CoordinatorTypes DEF Control, LeaseOrder
    <3> QED BY <2>1, <3>1, RunningFacts
  <2>3. active = i /\ active # 0
        BY <2>1, <2>2, CoordinatorTypes DEF LiveIsLast, Plan
  <2>4. lease = generation
        BY <2>1, <2>3 DEF SessionInv, LeaseFollows, Ahead
  <2>5. ASSUME Page(generation) = "ended" PROVE RevokeWaits
    <3>1. generation \in ended
          BY <2>5 DEF Page
    <3>2. PICK c \in Calls : calls[c].kind = "revoke" /\ calls[c].state = "queued"
          BY <2>1, <2>3, <3>1 DEF SessionInv, EndedIsRevoked
    <3>3. request[c].of \in {"revoke", "unclaimed"}
          BY <2>1, <3>2 DEF SessionInv, CallsAsk, SessionTypeOK, Request
    <3> QED BY <3>2, <3>3 DEF RevokeWaits
  <2>6. registered \/ RevokeWaits \/ RevokeLost
        BY <2>3 DEF ManagedInv, ForgottenIsRevoked, Occupied, Unserved, RevokeWaits, RevokeLost
  <2> QED BY <2>3, <2>4, <2>5, <2>6
<1> QED BY <1>1, ManagedInvariance, PTL

\* The desktop session never refuses the next transport for a viewer that is left over,
\* and a live transport has the viewer of its own generation.
THEOREM ViewersFollow == Spec => []ViewersFollowTransports
<1>1. ManagedInv => ViewersFollowTransports
      BY DEF ManagedInv, ViewerInv
<1> QED BY <1>1, ManagedInvariance, PTL

\* However the handlers of the runtime interleave, transports open in plan order and one
\* at a time.
THEOREM RuntimeRefinement == Spec => ImplementsExclusiveTransport
<1>1. Init => Exclusion!Init
      BY DEF Init, CoordinatorInit, Exclusion!Init, Exclusion!Plan, Plan
<1>2. ManagedInv /\ [Next]_vars => [Exclusion!Next]_(Exclusion!vars)
      BY HandlersSimulate DEF ManagedInv
<1> QED BY <1>1, <1>2, ManagedInvariance, PTL
        DEF Spec, ImplementsExclusiveTransport, Exclusion!Spec
================================================================================
