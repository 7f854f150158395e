# A TLA+ model of mcp-execution-handoff

`mcp-execution-handoff` is a TypeScript library (`src/src`, with a few helpers in
C) that lets an Agent hand the control of a browser, a window or a terminal to a
Human and take it back.  Almost all of it runs in JavaScript processes: a method
is atomic between two `await`s, and what the library gets right or wrong happens
at those points, at the boundary with a provider or a child process, between the
processes of a hosted deployment, or across a restart.  The modules here describe
the parts where this decides something.

Paths below are relative to `src/src` unless they start with `docs/` or `tests/`,
which are under `src/`.

## 1. Inventory

| Part (source) | State | Operations | Hard behaviour | What makes it correct |
|---|---|---|---|---|
| Execution lifecycle (`core/lifecycle.ts`) | resource epoch, the active intervention | begin, claimHuman, markHumanComplete, returnToHuman, markVerified, resumeAgent, cancel, advanceResourceEpoch | callers hold ids and epochs that are out of date | Agent and Human exclude each other; every Human period is fenced by the epoch; resume only after acceptance |
| Checkpoint and recovery (`core/checkpoint.ts`, `core/runtime.ts`, `core/hosted-recovery.ts`) | the checkpoint file | checkpoint, clearCheckpoint, recover | failing file operations, process crash, power loss between two of them | what was reported as stored survives; a failed checkpoint fences the Human; no half-written file |
| Credential-safe external surface (`core/human-surface.ts`) | idle / starting / active / cleanup_required, with promises shared by callers | begin, revoke, assertInactive | single-flight promises, provider failures, expiry, retries | no grant reaches another owner; the Agent never runs beside an open session |
| Transport coordinator (`browser-takeover/managed-transport-coordinator.ts`) | the plan, the active lease, a promise chain | start, startSync, advance, fallback, revoke | queued operations with stale leases; drivers that fail to start or stop | one transport at a time, plan order, one transition per lease, a final revoke |
| Managed runtime and desktop session (`browser-takeover/managed-handoff-runtime.ts`, `desktop-session/`) | session, routes, lease, capability, viewer | start, fallback over HTTP, completion, revoke, revokeUnclaimed, completeAfterVerification | handlers that go on after an await with what they read before it; late ends of old viewers | no live transport out of reach; viewers that follow transports |
| Hosted worker registry, channel, data plane (`core/hosted-*.ts`) | worker generations, routes, gates, inputs in flight | register, open, bind, revoke, end the Human period, dispatch an input, publish a frame | replaced connections, messages in flight, a propagation that fails half way | a route belongs to the Human period of the moment; registry and worker agree |
| Takeover sessions and broker (`browser-takeover/session.ts`, `broker.ts`) | records, routes, policies, completions | link, claim, reconnect, use, prepare, connect, suspend, complete, done, cancel, revoke | requests that overlap at every await, retried completions, timers | one client; fenced inputs; a completion told once |
| WebRTC and native runtimes (`webrtc-runtime.ts`, `native-runtime.ts`) | prepared and active entries, child processes, TURN credentials, one frame in flight | start, resume, suspend, end, revoke; the queue of frames | failures of starts and stops, exits, expiry | no child process out of reach; frames that decode |
| WebSocket takeover (`browser-takeover/websocket-*.ts`) | tickets, client generations, channels with their queues, page, window | bootstrap, upgrade, input, Done, frame, disconnect, revoke | a reconnect while the old channel still works; a failing send or input | uses are accounted; Done after every input; a dead client gives up its lease |
| Exact-window surfaces (`linux-websocket-window-surface.ts`, `macos-…`) | helper processes, a transition all uses share, an input chain, queries | capture, input, close | failing helpers, two windows, timers | one helper; no use of a window that was never valid; every use settles |
| Linux window host (`linux-webrtc-host-cli.ts`, `native/linux-xtest-helper.c`) | input chain, what is pressed, helpers, capture | inputs, stop, key frame requests | a window that changes between two steps, a helper that is slow or dies | a press outlives the helper only when its release failed; no mutation on an old check; a stop that ends unless a text injection hangs |
| Browser and window adapters (`browser-handoff-adapter.ts`, `window-takeover/`) | routes, desktop sessions | start, revoke, verified completion | ends of calls that overlap a new start | what `WindowHandoff` composes |
| Hosted latest-frame bridge (`core/hosted-latest-frame-bridge.ts`) | one frame in flight, one pending | publish, drain, close | a buffer that fills and empties while a send is awaited | the newest frame is never the one dropped; progress |
| Terminal handoff (`terminal-takeover/`, `experimental/terminal-*.ts`) | PTY authority, drains, the Human's events, the peer with its credential | begin, claim, prepare, connect, next event, confirm drain, verify, resume, acknowledge | writes admitted before a fence; a PTY that exits; preparations that come back late | no mixed writers; the Agent sees what the Human did; no peer behind a teardown |
| Owner, invocation and MCP mapping; audit and diagnostics; ICE configuration and geometry; acceptance servers; other C helpers, experiments, scripts, `dist` | none that anything reads back, or one look-up | | | not modelled (section 6) |

How they interact: a consumer owns an `ExecutionHandoffState` and calls the
adapters; an adapter asks a transport (through the coordinator when the transport
is managed) for a locator, which the consumer gives to the Human.  The Human's
page talks to the broker, which checks each request against the session records
and drives a runtime: a child process that captures and injects.  Done reaches
the consumer through a completion callback; the consumer moves the lifecycle to
`verifying`, verifies, and resumes, and may checkpoint after each transition.  A
hosted deployment puts a registry and a control channel between the lifecycle and
the worker that has the surface.  Every arrow is a call some party awaits.

## 2. Modules

| Module | Models | Builds on |
|---|---|---|
| `ExecutionAuthority` | abstract: exclusive control with a fencing generation | |
| `Lifecycle` | the methods of `ExecutionHandoffState`, one action each | |
| `HandoffLifecycle` (`HandoffProofs`) | the lifecycle under every sequence of calls | `Lifecycle`; implements `ExecutionAuthority` |
| `ExclusiveTransport` | abstract: a plan walked forward, one transport at a time | |
| `TransportCoordinator` (`TransportProofs`) | the promise chain and its operations | implements `ExclusiveTransport` |
| `ManagedTransport` (`TransportProofs`) | the runtime's handlers and the desktop session over the coordinator | `TransportCoordinator` |
| `HumanSurface` | begin() and revoke() of the external surface, await by await | |
| `CredentialSafeHandoff` (`HandoffProofs`) | that surface used inside a Human period | `HumanSurface`, `HandoffLifecycle` |
| `LatestFrameBridge` | publish, drain and the send loop | |
| `VideoPath` | the queue of encoded frames of a WebRTC runtime | with the bridge in `FramePathsProofs` |
| `CheckpointedHandoff` (`HandoffProofs`) | checkpoints over a failing file system, with restarts | `Lifecycle` |
| `TerminalHandoff` | the terminal adapter, its authority gate, its transport and the consumer's writes | `Lifecycle` |
| `TerminalTransport` (`TerminalTransportProofs`) | the same with the transport's requests, peer, timers and credential | `TerminalHandoff`, which every step respects |
| `HostedWorkers` (`HostedWorkersProofs`) | registry, channels, gates, operator binding, inputs and frames, the helper that ends a period | `Lifecycle` |
| `TakeoverSessions` | the session records | |
| `TakeoverBroker` | the broker's requests and timers over `SpawnedWebRtcRuntimeProvider` | `TakeoverSessions` |
| `NativeTakeover` | native links and clients over `InheritedFdNativeRuntimeProvider` | `TakeoverBroker` |
| `WindowHandoff` (`TakeoverProofs`) | `WindowHandoffAdapter` over `WindowHandoffCore` | `NativeTakeover` |
| `WebSocketTakeover` (`WebSocketTakeoverProofs`) | page, window handoff, binding, ingress and channels | `TakeoverSessions` |
| `WindowSurface` (`WindowProofs`) | captures and inputs over helper processes, Linux and macOS | |
| `WindowHost` (`WindowProofs`) | the Linux host's inputs, its XTEST helper, stop and capture | |
| `MC*` | values of the constants for TLC | |

Conventions.  A stretch of code between two awaits is one action.  A call that
throws before it changed anything is no step.  Ids and generations are numbers
handed out in order, so a stale one is a smaller one.  A request of another
principal or with a malformed message is refused before anything changes and is
not enumerated.  A definition marked "Variant" is a deliberately wrong form of
the one below it; no next-state relation uses it, it says which mistake a
property would catch.  Histories (variables that only properties read) are named
as such.

`Lifecycle`.  `epoch` and `active` are the fields of the class; `Authority` is
`getAuthority()`.  Actions take the id that the caller names.

`CheckpointedHandoff`.  `op` says which file operation of a synchronous store
call comes next; the lifecycle stands still meanwhile, a crash does not wait.
`visible` is the file, `mayRecover` the set of contents a power loss may leave:
a rename or an unlink adds to it, a directory flush reduces it to one.
`recovered` is what a new process was given.

`HumanSurface`.  `surface` is `this.state`; `task` holds each call with the
promise it waits for, so a continuation that runs after the surface was replaced
is a step like any other.  `CredentialSafeHandoff` adds the rule of
`docs/architecture.md:168-180` that assertInactive() is called in the stretch of
code that ends the Human period.

`TransportCoordinator`.  `queue` is the promise chain `#serial`; `pc` is the
await at which its first operation stands.  A driver is `live`, `fenced` (no
Human input, teardown running) or `off`.  `ManagedTransport` adds the runtime's
session record and splits each handler at the coordinator call it awaits;
`request` remembers what a handler read before.  `viewer` and `desktopClosed` are
the desktop session.

`LatestFrameBridge`, `VideoPath`.  A frame is a number (and whether it is a key
frame).  `inFlight`, or `sends`, is what is being sent, `pending`, or `queued`,
the single slot behind it.  `forgotten` is a history: how many times a resume found a
drain active and reset its flag.

`TerminalHandoff`.  `session` is the transport's `#session` with its peer;
`transportRef` is the adapter's own reference to it; `teardown` is a
`transport.revoke()` that is awaited.  The consumer is part of the model because
the promises are about it: it keeps to the order the repository's
`README.md:190-231` shows.  What it does not have to keep, whether a verdict may
be reported yet or the Agent may write, is the code's to refuse.
`TerminalTransport` takes each step of `TerminalHandoff` together with what it does to
`TerminalDataChannelRuntime`: one page per session asks for a preparation and a
connection, and the timers, answers and credentials of each are steps.

`HostedWorkers`.  A connection is a worker with its generation.  `wire` holds
the control messages that were not answered, in order; an input or a frame
travels beside them.  `task` is a call that awaits a send or a callback.  `rebound` is
a history: the consumer bound a route again while it still awaited its revocation.

`TakeoverSessions` is the state of `session.ts`; a client is its generation, and
time is two facts about a record (its media lease, its completion window).
`TakeoverBroker` adds `page`, what the broker's maps say of a session; `rt`, the
runtime's entries; `hosts`, the child processes; and `task`, a request at the
await it has reached.  `strays` is a history of the child processes whose entry was
replaced or deleted under them, and how; their exits, messages and failures are steps
like those of any other.  `deployment` fixes how one behaviour is configured, so
that one run covers several.  `WindowHandoff` adds the routes of the core and the
desktop session of the adapter.

`WebSocketTakeover`.  A channel has one operation at work (`busy`), a queue
behind it, its use for "ready" (`starting`) and its frame loop beside it
(`sending`, `pending`, `timer`).  `clientGen`, `tickets`, `known` and `active`
are the ingress; `routes` and `policies` the binding and the broker; `window`
the window handoff; `shown` the page in front of it.

`WindowSurface`.  `helper` is a surface object with its processes; `call` a
capture or an input with the wait it is in.  `WindowHost`.  An input is a program
of checks, commands and injections, and `job` says how far the first one has come;
`pressed` is what the X server holds down, `native.holds` what the helper knows of
it, `known` what the host believes.  The X server may refuse a release, and the helper
then forgets the press: the history `native.unreleased` says which.  `pointer.closing`
says why the host closed the helper, in the order of a shutdown or after a failure.

## 3. Runs

| Run | Question | Result |
|---|---|---|
| `credential_safe` | lifecycle and external surface, stale ids, two principals: fresh epochs, refinement of `ExecutionAuthority`, owned grants, revokes that reach every session, no session outside a Human period | holds |
| `coordinator` | queued operations with stale leases over faulty drivers, blank locators included; every call settles | holds |
| `managed` | the runtime's handlers interleaved at every await: what is live can be revoked or a revoke of it waits; refinement of `ExclusiveTransport`; viewers that follow | holds |
| `managed_revoke` | is revoke() the end of Human access | **violated** (5.1) |
| `frame_paths` | the newest frame is kept and leaves the bridge; what a video path begins to send can be decoded, one frame at a time unless a resume found a drain sending | holds |
| `checkpoint` | does a reported checkpoint survive, can a torn one appear, does a failed one fence the Human | holds |
| `terminal` | a terminal goes to the Human and back, twice, with exits, lost connections, expiry, faults and revocations anywhere | holds |
| `hosted` | routes, gates, inputs and frames against the Human period, with failing sends and callbacks, until a route is bound again during its own revocation | holds |
| `takeover` | two sessions, two requests at a time, six deployments: clients, inputs, child processes, completions | holds |
| `websocket` | reconnects, failures and Done over the channels of one window | holds |
| `surfaces` | captures and inputs of two windows with failing helpers, on both platforms | holds |
| `host` | inputs, stops and a changing window over an XTEST helper that may refuse, fail to release, hang or die | holds |

What the less obvious properties say:

- `EpochFencesHumanPeriods`: an epoch read outside a Human period and still
  current outside one has no Human period in between.
- `LiveTransportIsLeased`: while no fallback is in flight, a transport that takes Human
  input is the one the session's lease names, and the session is registered, so that
  revoke() reaches it; or a revoke has forgotten the session already, and then it
  waits its turn in the coordinator or was rejected there (5.1).  Only while one waits
  does the page say that remote input is disabled.
- `FramesDecode`: a dependent frame is sent only to a peer that has what it builds on,
  whichever drain sends it; and at most one frame is in flight besides those of resumes
  that found a drain still sending (5.4).
- `RoutedMeansHuman`, `GateAgreesWithRegistry`: an active route belongs to a connected
  worker and the Human period of the moment; whenever no message and no release is
  under way, a worker admits exactly what the registry routes to it.  Both, and
  `NothingAfterHumanPeriod`, speak of behaviours in which the consumer did not bind a
  route whose revocation it was still awaiting, which the code does not refuse (5.3); that
  such a route has a connected worker holds in every behaviour.
- `NothingAfterHumanPeriod`, `InputFollowsAuthority`, `InputIsFenced`: no input
  is carried out for a period that is over, in the hosted, terminal and WebRTC
  deployments; each relates the party that admits to the party that decides.
- `HostsAreTracked`: a running child process is the host of an entry whose expiry
  ends it, or was told to stop, or lost its entry in one of the two ways of 5.2:
  a start that failed late deleted the entry of a later one, or a native claim
  overwrote that of another.  A failed start, in particular, leaves no host of its own.
- `CompletionIsDeliveredOnce`: over shared finalisations, failing teardowns,
  retries and revocations, the consumer is told once, of a completed session.
- `UsesAreAccounted`: the count in a session record is the number of uses its
  client has in progress: a lost end keeps every later client out, a lost begin
  lets one in beside an input.
- `InputsSettleBeforeDone`: while the consumer is told of a Done, no connection
  of the session has an input at the surface and its page is not answered.
- `MutationsFollowAuthority`: a press, release or move is posted only if the
  window passed its checks at some moment since the mutation before.  The second
  axis of a scroll is sent after one check for both and is no mutation of this kind (5.7).
- `NothingStaysPressed`: what is still pressed when the native helper has ended is a press
  whose release it tried and could not confirm.  A helper that the host killed, because it was
  slow to leave, left something pressed only after a failure: when the shutdown
  runs in its order, everything was released before.
- `StopSettles`: a host that was asked to stop stops, unless from some moment on it does
  nothing but wait for the process that types a text.

Bounds.  `credential_safe`: two interventions (an id can be stale), four epochs,
three calls, two provider sessions, the least with which a call still waits for a
surface that was replaced.  `coordinator`, `managed*`: three transports, the
longest plan the policy accepts, and three calls, so that a revoke meets two
fallbacks of the same page.  `frame_paths`: four hosted frames (one in flight, one
pending, one that replaces it, one published after the buffer emptied); six video
frames over three peers.  `checkpoint`: two interventions, so that an older
checkpoint can come back for a newer one, and three epochs.  `terminal`: two
interventions, so that one follows the writes, teardown and late preparation of
another, a queue of two (an event in front of Done, and a full queue) and one
write in flight on each side.  `hosted`: one intervention with two Human rounds,
two channel objects of one worker (of one connection or of its successor), two
calls at a time; the constraint `MCBound` follows a behaviour with a bind during a
revocation on while there is one channel object.  `takeover`: two sessions over two epochs, two requests in
progress, four to seven in all, at most three child processes, three client
generations: with seven calls one start is suspended, another fails late and a third
client prepares.  `websocket`: two epochs, two connections, a queue limit of one;
five members of `Bounds` have in turn two sessions, more messages, trouble, or
frames.  `surfaces`: two windows, two or three uses, one failure, one change of
the window.  `host`: six members of `Bounds`, up to three inputs, two failures, two
changes, two key frame requests; a scroll and a tap among the inputs.  All bounds are constants and appear as guards
only; where a run has a set of them (`Bounds`, `SurfaceBounds`, `Deployments`), the behaviour keeps the
member it began with.  `CHECK_DEADLOCK FALSE` stands where a bounded number of calls is
used up, or a bridge, a host or a page is closed, and nothing is left to do.

Fairness.  `FairCoordinatorSpec`: what a driver returned settles, either way, and
a promise that settled gets its continuation from the event loop.
`LatestFrameBridge!Fairness`: a send settles, the buffer empties when nothing
refills it for ever, and drain() is called infinitely often if it is infinitely
often possible, as its comment asks of the caller.  `TransportSpec` of the terminal: a
teardown whose waits are over ends, the consumer pulls events, the PTY carries
out what it accepted, timers fire and requests are answered.  `SurfaceSpec` of `WindowSurface`: code
that waits for nothing runs, a timer fires, a killed process exits: every wait
there has a timer, and that is what `UsesSettle` tests; no fairness is asked of a
helper's answers.  `WindowHost!Spec`: the host's code and its helper run; the helper
may die instead.  Nothing is asked of the process that types a text, which has no timer.

One switch names an assumption: `DirectorySync` (`checkpoint`), the platform can flush a
directory; the code goes on where it cannot, and `ReportedCheckpointSurvives` says nothing
there.  Where the code itself breaks what a property says, the step is in the
model and a history states the exception: `strays` (`takeover`), `rebound` (`hosted`),
`forgotten` (`frame_paths`), `native.unreleased` (`host`).

## 4. What is proved

TLAPS checks the following for every value of the constants that satisfies their
named assumptions.

`HandoffProofs`, of `HandoffLifecycle`
- `TypeCorrect`, `EpochFreshness` (`EpochFencesHumanPeriods`),
  `AuthorityAgreement` (the authority recorded in the intervention is the one
  the gate computes).
- `Refinement`: `HandoffLifecycle` implements `ExecutionAuthority`.

Neither `EpochFencesHumanPeriods` nor `RecordedAuthorityAgrees` is inductive.
Together with the type invariant and `humanEpoch <= epoch` (the history of the
last epoch a Human held never runs ahead) they are: that is `LifecycleInv`.  The
refinement maps the holder to the computed authority, the generation to the
epoch and acceptance to the status `ready_to_resume`; with the invariant at hand
each method is one abstract step or a stutter.

`TransportProofs`, of `TransportCoordinator`
- `TypeCorrect` and `SingleHumanPath` (`AtMostOneLive`), for drivers of every
  kind.  `Inv` adds where the running operation stands (`Control`) and that a
  transport taking Human input is the last one tried (`LiveIsLast`).
- `OneTransition` (`OneTransitionPerLease`) and `RevokeFinality`
  (`RevokeIsFinal`).  Neither is inductive: a second `fallback()` with the same
  lease is refused because the generation has moved past it.  `LeaseInv` says
  so: leases are spent in the order they were granted (`LeaseOrder`), the chain
  holds every queued call once (`ChainOrder`), and a revoke that resolved leaves
  nothing active and nothing running (`RevokedForGood`).
- `Refinement`: with `DriverFaults = {}`, the assumption of the theorem, the
  coordinator implements `ExclusiveTransport`.  Section 5.1 says what a blank
  locator would break.

`TransportProofs`, of `ManagedTransport`
- `LiveIsLeased` (`LiveTransportIsLeased`) and `ViewersFollow`
  (`ViewersFollowTransports`), from `ManagedInvariance`.
- `RuntimeRefinement`: the runtime implements `ExclusiveTransport`, without an assumption on
  `DriverFaults`, because the runtime's own drivers give a real locator.

Each handler moves the coordinator by one of its own steps, except `revokeUnclaimed()`,
which fences and enqueues at once and gets a lemma of its own
(`HandlersKeepToTheCoordinator`); so the coordinator's invariants carry over.
`LiveTransportIsLeased` is not inductive, because a handler writes
`session.lease` after an await.  `LeaseFollows` says why that is soon enough: one handler at
most is ahead of the session, it holds the lease granted last, and until it goes on every
other call carries an older lease and is refused.  `EndedIsRevoked` does the same for
the page: between forgetSession() and the fence the revoke that will fence is queued with
the current lease, and it is not refused.  `ViewerInv` bounds the viewer generations by the
coordinator's.  What goes wrong across a Done or a revoke() (5.1) is outside
the two properties, and the run `managed_revoke` shows it.

`HandoffProofs`, of `CredentialSafeHandoff`
- `AgentIsExclusive` (`AgentExcludesExternalSession`), `GrantOwnership`
  (`GrantsAreOwned`) and `RevokeCompleteness` (`RevokeReachesEverySession`), from
  `SafeInvariance`: `SafeInv` is inductive.
- `SafeRefinement` and `SafeEpochFreshness`: no call of the surface reaches into the
  lifecycle, so what is proved of `HandoffLifecycle` holds of the composition.

None of the three properties is inductive, because each is about a call or a period
that ends long after the fact it depends on.  `SurfaceOwnsItsSession` says that the
provider has at most one session open, that of the surface, asked for by the surface's
owner; `WaitsForOwn` that a call sharing a start is of the same owner, so that it may
be given what the start brings; `GrantedOwn` and `ReachesTargets` what a call may rely on
at each await it stands at; `SurfaceInHumanPeriod` that assertInactive() before
each end of the period is enough.

`FramePathsProofs`
- `NewestKept` (`NewestFrameIsKept`): the invariant is inductive with the types.
- `PeersDecode` (`FramesDecode`), an action property.  Its invariant: the sends under way
  are at most one more than the resumes that found a drain active (`Drains`), and while the
  peer awaits no key frame what is queued builds on what it has (`Based`).

`HandoffProofs`, of `CheckpointedHandoff`
- `FailureFences` (`FailedCheckpointFencesHuman`), `Durability`
  (`ReportedCheckpointSurvives`) and `Atomicity` (`NoTornCheckpoint`), from
  `StoreInvariance`.

`StoreInv` adds that while write() runs its draft is the intervention as it
is (`DraftIsActive`: the store is synchronous, so no lifecycle call comes between) and
that the file, and all a power loss may make of it, is a whole checkpoint or none
(`WholeFiles`).  `Durability` is about platforms that can flush a directory, as the
property is; the other two are about every platform.

`TerminalTransportProofs`
- `ExclusiveWriters` (`WritersDoNotMix`), `NoPeerOutlives` (`NoPeerBehindTeardown`),
  `GateFollowsAuthority` (`InputFollowsAuthority`) and the action property `CurrentView`
  (`AgentActsOnCurrentView`), from `TransportInvariance`.

`TransportInv` is `HandoffInv`, over the adapter, and `ConnectionInv`, over the
connections.  The first says which writes may wait in which status (`WritesDrain`), why
an Agent without the current view is stopped in every status (`ViewInv`), and that
reference, session and authority name the same intervention and epoch while no
teardown runs (`RefInv`).  The second relates page, record and runtime of each session;
`TeardownInv` is the part that makes it inductive: while revoke() waits, its session has no
connection and none in preparation that could still come up.

`HostedWorkersProofs`
- `RoutingEndsFirst` (`RoutedMeansHuman`), `GateAgreement`
  (`GateAgreesWithRegistry`) and `NothingTooLate` (`NothingAfterHumanPeriod`), from
  `HostedInvariance`, which is that `rebound` or `HostedInv` holds; an active route has a
  connected worker in every behaviour (`ConnectedInv`).

The difficulty is in the messages under way.  `WireInv` says that no bind follows a
revocation of the same intervention on a wire: that is what a bind during the revocation
breaks, which opens a gate the registry will close (5.3).  `AgreeInv`
generalises agreement to any moment: what the messages under way will make of a gate is
what the registry has.  `GateInv` gives an open gate a Human period that goes on, unless its
connection was left behind, and `CallInv` ties each call in progress to the route it is
about.  The proof has one lemma per operation of the channel and one for all
lifecycle steps, which need only `RoutedMeansHuman`.

`TakeoverProofs`, of `TakeoverBroker` with `NativeTakeover` and `WindowHandoff`
- `BrokerInvariant`: the inductive invariant `BrokerInv`.
- `OneClient` (`OneClientInUse`), `InputFence` (`InputIsFenced`) and `CompletionOnce`
  (`CompletionIsDeliveredOnce`) from it.
- `HostsTracked` (`HostsAreTracked`), as a relation that every step keeps to.

A request of the broker reads a record, a map or an entry, awaits, and goes on with what
it read.  `BrokerInv` says for each of these pairs what is still true then:
`RecordInv`, one session is live and what is over stays so; `UseInv`, the count of a
live record is the number of uses in flight, all of its own client; `RuntimeInv`, a peer in
control belongs to that client; `PageInv`, a live session has its route, and its policy
unless it is being verified, and the completions told are those its window has room for;
`TaskInv`, a request stands where its await left it, and one finalisation at a time
runs for a session.  The records move one way only, and `Later` states which: that
relation is what every request needs of every other, so a step is checked once against
`Later`, and not against each step it may overlap.  `HostsFollow`, for `HostsTracked`, says
that a step brings up a child process only with an entry, and that one which loses its
entry is told to stop, or is a stray that did not fail its own start; `FollowInv`
is the rest.

`WebSocketTakeoverProofs`
- `ChannelInvariant`: the inductive invariant `ChannelInv`.
- `UsesAccounted` (`UsesAreAccounted`), `DoneIsTheLastWord` (`InputsSettleBeforeDone`) and
  `TheDeadRelease` (`DeadClientReleases`) from it.

The count in a session record and the channels know of each other only through the client
generation.  `Consistent` says what holds of a record and a channel of its session: one
with something in progress belongs to the generation let in last, a live
record counts exactly that channel's uses, and a channel that is ending or has
released has taken the lease of its generation with it.  `ConnInv` adds that no two
connections share a generation, and `SessionInv` that a session without a channel of its
generation has no use.  An operation of a channel consists of several changes in one
stretch of code; `Midway` is what holds in between.

`WindowProofs`
- `HostInvariant`: the inductive invariant `HostInv` of `WindowHost`.
- `HelperReleasesItsPresses` (`NothingStaysPressed`) and `MutationsAreAuthorised`
  (`MutationsFollowAuthority`) from it.
- `OrderlyShutdown`: `OrderlyInv`, which the first of them needs for a helper that is killed.

What the host believes to be pressed is of no use to a helper that ends by itself:
`HelperOwnsPresses` says that the helper knows of everything that is down, but for a press
whose release failed.  It does say something of one that an orderly shutdown closes:
`OrderlyInv` has, while nothing failed, every press known to the host or awaited by it, the
answers of the helper those to the command awaited, and the shutdown's cancels in their
order; so the helper has nothing left to release when it is told to leave.  For the other property,
`ChecksWitnessed` ties the position in an input's program to what was seen of the window since
the last mutation, and `MutationsAreChecked` is the fact about the programs themselves: a
check of the window and one of its focus stand between each mutation and the one before.

- `SurfaceInvariant`: the inductive invariant `SurfaceInv` of `WindowSurface`.
- `OneSurfaceHelper` (`OneHelper`) and `SurfaceUsesAreValidated` (`ValidatedUse`) from it.

Most of `SurfaceInv` is about the helpers and the uses together, the `World` the model's
operators work on.  `Fine` says what they know of each other: a use is in the queue of
one helper, of its own window and once; who waits for an acknowledgement is the one the
helper remembers; and unless a query timed out, the authority helper has at most one
answer under way, which belongs to the use that asked first, and an "ok" means that this
use has seen its window valid.  That is why a use goes on by an answer to its own
question, and without it `ValidatedUse` is not inductive.  `Akin` and `Grows` say what no
operator does: bring up a process, rename a helper's window, or touch a use that is at
no helper.  The rest of the invariant is `OnlyActive`, every running helper that nobody
has told to stop is `#active`, which gives `OneHelper`; `TransitionFine`, a replacement
has an owner that waits for it, and nothing is active until the new helper is up;
`ClosingFine` and `ActiveFine`.  Each operator is proved to keep `Fine` once, whichever
actions use it: `Forgetting` then clears the helpers nobody refers to, and `StepKeeps` adds
`#active` and the transition.

Assumed of the constants: the named assumptions of the modules (bounds are natural
numbers, a session has at least one client generation, switches are Booleans, the null owner is no owner), which TLC evaluates on the
instances.  Assumed of the code: what a theorem itself names, `DriverFaults = {}` for the
coordinator's refinement and `DirectorySync` within the property that `Durability` is about.

Only model-checked:
- The liveness properties (`EveryCallSettles`, `PendingFrameDrains`, `DoneEndsHumanPeriod`,
  `CredentialsSettle`, `UsesSettle`, `StopSettles`): fairness and ENABLED are out of the
  prover's reach.

## 5. What the code does that its documents do not say

One disagreement has a run; the others are observations made while modelling.
Where a property would fail, the model contains the step and the property says
less.

5.1 Managed transport.
- `managed-handoff-runtime.ts:552` (run `managed_revoke`): revoke() while a
  fallback is in flight carries the lease the fallback is about to replace, the
  coordinator refuses it as stale, the refusal is swallowed and the session
  forgotten; the fallback's continuation then routes the new transport.
- `:810`: the same window for Done: a fallback that passed the `completed` check
  opens the next transport after it (`docs/component-support-matrix.md:97`), and the late
  authority hook detaches the new transport's viewer.
- During a pending revoke the "ended" page may be shown while the transport is
  still live; once the desktop session is closed no transport comes up, because
  attachViewer() refuses (`desktop-session.ts:125`).
- `managed-transport-coordinator.ts:244`: a driver with a blank locator is revoked
  without awaiting, and the next one starts during that teardown, against the class
  comment.  The managed drivers never give a blank locator; a caller's own may.

5.2 Broker and runtimes.
- `webrtc-runtime.ts:481-483`: a start that fails after its entry was replaced may
  leave a child process that only its own expiry ends.  The failing start deletes the
  entry the session has by then, with its timer (`HostsAreTracked` excepts it as a
  stray).  When the process of such a stray exits, end() of its runtime finds the session's new
  runtime suspended and opens the Agent's verification (`:715-738`), while the client of the stray
  is still admitted (`InputIsFenced` excepts that as `Misled`).
- A failing prepare or connect revokes by session id, whichever generation holds
  the entry by then.  A prepare that awaits its ICE credential while a completion or a
  revocation runs leaves the credential to its timer.
- `webrtc-runtime.ts:532-535`: revoke() stops before end() when the credential's
  revocation fails; revokeForIntervention() (`:541`) stops at the first failure.
- `broker.ts:1243`: without a policy everything is allowed; `InputIsFenced` shows
  that no admitted session is without one, but for the stray above.
- The completion hook may fire after revokeForIntervention(); done and cancel of a
  native client never fire it; a finalisation that straddles the end of its
  window may deliver twice.  `broker.ts:1116`: the WSS completion is not
  single-flight.
- `native-runtime.ts:190`: begin() awaits the revocation of the old host and then
  spawns, also for a session that was revoked meanwhile; two of them overwrite
  each other's entry, and the first child process is left to its own expiry
  (`HostsAreTracked` excepts it).
- `desktop-session.ts:160`: detachCurrentViewer() names no generation.
  `window-handoff-adapter.ts:143-172`: the end of revoke(), or of a verified
  completion, closes the desktop session of a start made meanwhile; nothing else
  reads that session.

5.3 Hosted workers.
- `hosted-worker-channel.ts:115`: a bind is admitted while a revocation of the same route
  awaits its message or callback; the lifecycle then advances over an active route (class
  comment, `hosted-lifecycle-route.ts:27-28`), and the gate may stay open for a period that is
  over.  The model has the step, and what it breaks is said of behaviours without it.
- `hosted-worker-channel.ts:87`: two open() calls over one authenticated channel
  share a registration; one of them failing takes the routes of the other without
  routesInvalidated.
- After a failed revocation the helper cannot succeed until the route is bound anew.

5.4 Frames.
- `hosted-latest-frame-bridge.ts:171`: a publish() after the buffer emptied, and
  before the caller's drain(), sends its own frame and then the older pending one
  (comment at `:100-102`).  Nothing is lost, the order is wrong.
- `webrtc-runtime.ts:768-773`: a dependent frame behind a pending key frame is
  dropped without awaiting a key frame (comment at `:774-775`), and so are frames
  between the kept key frame and the connect.  The host's LatestFrameWriter
  (`linux-webrtc-host-cli.ts:262-294`) drops frames, key frames too, unknown to the
  runtime, and keeps `latestFrame` when a control record drains, which can invert
  two frames.  The request for a key frame is throttled and may be lost; the
  Linux encoder makes key frames by itself.
- A send that outlives a suspend and a resume gives two drains at a time
  (`webrtc-runtime.ts:582`, comment at `:759`): one more for each such resume, as
  `FramesDecode` says, and still each to a peer that can decode it.

5.5 WebSocket.
- `websocket-window-handoff.ts:393`: a late failing input of an earlier epoch
  revokes by intervention, and so the successor session
  (`docs/component-support-matrix.md:113`).
- After Done the authority's record is forgotten, so a failing completion
  callback cannot be retried over WSS (`docs/architecture.md:200`).
- An upgrade the WebSocket library answers itself after accept() leaves the
  claimed generation until it is idle; start() of the same epoch after the media
  expiry returns a dead locator; a verified completion without Done leaves the
  window state, the policy and the interval timer; the page entry stays after an
  authority loss, where the GET is refused.

5.6 Surfaces.
- `linux-websocket-window-surface.ts:718`: after a query timed out its late answer
  is taken for the next one (comment at `:222`); `ValidatedUse` excepts it.
- One failed input rejects every later one of its helper (`docs/architecture.md:214`).
  When the authority helper dies, queries reject as recoverable for ever and the
  surface is never replaced.
- macOS: a timeout of an acknowledgement does not fail the helper, so a late
  `input_stage=applied` acknowledges the next input; `#authorityBoundary` stays
  "lost" for the life of the surface.
- close() sets no flag: the retry of a capture starts a helper for a closed
  surface.

5.7 Linux window host (`linux-webrtc-host-cli.ts`, `linux-xtest-helper.c`).
- Inputs admitted behind a failed one still run before the shutdown, with Button1 held
  when the check before a release failed (`:896-897` throw outside the catch that cancels
  it, `:1011-1018`), and lines after "stop" in the same chunk are admitted behind it.
- The capture child's "error" listener is not fenced by its generation; ffmpeg
  ending with 0 stops the frames silently; typeText waits for xdotool without a
  timeout, and the stop with it (`StopSettles` excepts it); scroll posts its second axis
  without a check (comment at `:863-867`).
- `linux-xtest-helper.c:177-187,215-226`: the cleanup forgets a press whose release
  it could not verify (comment at `:197-201`), and then nobody releases it: `NothingStaysPressed`
  excepts just these presses.  SIGTERM after 750 ms leaves what a helper that hangs has pressed.
- A stopped host stays until its stdin ends.

5.8 Terminal.
- Overlapping prepares overwrite each other's ICE credential; a prepare in flight
  during revoke() leaves it to the lease timer.  A second connect of the same
  generation revokes the active peer without a hook.  One page that asks once
  cannot do either, and the model has one such page per session.
- A disconnect hook throws when the session is gone; without an ICE provider
  start() prepares anew, so that a connect between the microtasks of revoke() can
  leave a live peer.  The modelled deployment has a provider.
- `terminal-handoff-adapter.ts:373`: revokeTransport() before the claim leaves an
  intervention that can neither be claimed nor cancelled; after the claim, a Human
  period no Done can end.  A fault, or a lease that expires
  (`terminal-webrtc.ts:139`), ends the same way: only the exit of the PTY leaves
  that state.  `terminal-handoff-adapter.ts:225`: a claim is granted with the peer gone.

5.9 Checkpoint and surface.
- `core/checkpoint.ts:199`: clear() flushes the directory only if its own unlink
  removed the file; a retry finds no file and returns, and a power loss still
  undoes the deletion (`tests/checkpoint-runtime.test.ts:102`).
- `core/human-surface.ts:172`: `docs/architecture.md:176` says an expired cache is
  cleared and revoked as best effort; the code stays in `cleanup_required` when
  that fails.  The code is the stricter side, and `AgentExcludesExternalSession`
  depends on it.

## 6. Not modelled

- Owner, invocation and MCP mapping: a digest, a shape conversion, and one
  look-up in a map its caller owns, with no await and no deletion.
- Audit and diagnostics, counters and snapshots everywhere: nothing reads them
  back.  ICE configuration, view geometry, record and frame parsers: pure.
- The scripts of the pages (they run in a browser), HTML, acceptance servers.
- In the modelled parts: the packets of a frame and the throttle of key frame
  requests; editable regions pushed over WSS; the resolution of a target window and of
  its successors, and the retries of the editable-text helper, which are one
  attempt; a second start() of the managed runtime after a revoke, which builds a
  fresh coordinator; output to the Human of a terminal; detachViewer() and
  requestDisplayResize(), which nothing calls.
- The helpers in C other than the XTEST helper answer one question per line and
  keep no state the host's model does not; the host programs of macOS and Windows
  are outside `src/src`.

## 7. Plan

Done, in this order: the lifecycle and its proofs; the coordinator, its proofs
and the managed runtime; the external surface; the frame bridge; the checkpoints;
the terminal; the terminal's transport; the hosted workers; sessions, broker and
runtimes; the WebSocket transport; the surfaces; the Linux host; the adapters.

Proved (section 4): every safety invariant and action property that a passing run checks,
and both refinements.
