------------------------------- MODULE WindowHost -------------------------------
(***************************************************************************)
(* The host process that captures one X11 window and posts Human input to  *)
(* it (linux-webrtc-host-cli.ts), with its native helper that owns the     *)
(* injected presses (native/linux-xtest-helper.c).                         *)
(*                                                                         *)
(* Inputs are worked off one after the other on the input chain.  An input *)
(* is a program of checks, commands to the helper and injections; the      *)
(* window may change between any two steps, and the helper may be slow,    *)
(* fail or die.  A stop is the last job of the chain.                      *)
(***************************************************************************)
EXTENDS Integers, Sequences

CONSTANTS
    Kinds,          \* kinds of input the parent sends: a subset of InputKinds
    MaxInputs,      \* bound on the inputs
    MaxRefreshes,   \* bound on the requests for a new key frame
    Bounds          \* what a behaviour has: how many inputs, key frame requests, failures
                    \* of processes, and changes of the window

InputKinds == {"tap", "down", "up", "key", "scroll", "text"}

ASSUME HostAssumption ==
    /\ Kinds \subseteq InputKinds /\ MaxInputs \in Nat /\ MaxRefreshes \in Nat
    /\ \A b \in Bounds : /\ b.inputs \in 0..MaxInputs /\ b.refreshes \in 0..MaxRefreshes
                        /\ b.faults \in Nat /\ b.changes \in Nat

VARIABLES
    left,           \* what is left of the member of Bounds that this behaviour explores
    window,         \* the exact window: still the target's, with its focus, its geometry
    pressed,        \* what the X server holds down for the helper: Button1, a special key
    native,         \* the helper process: what it holds, and what it could not release
    pointer,        \* its client: pending command, closing and why
    chain,          \* inputChain: the jobs, the first at work
    job,            \* the state of the first job
    known,          \* primaryPressed, pressedKey
    stop,           \* stopPromise
    capture,        \* LinuxCapture
    editable,       \* the AT-SPI helper and the snapshots asked of it
    since           \* history: which checks the window would have passed at some moment
                    \* since the host heard of its last mutation

vars == <<left, window, pressed, native, pointer, chain, job, known, stop, capture, editable, since>>

Nothing == [button |-> FALSE, key |-> FALSE]
NewJob == [at |-> 1, place |-> 0, sent |-> FALSE, undo |-> FALSE]

Init ==
    /\ left \in Bounds
    /\ window = [owned |-> TRUE, focused |-> TRUE, place |-> 0]
    /\ pressed = Nothing /\ known = Nothing
    /\ native = [state |-> "up", command |-> "none", reply |-> "none", holds |-> Nothing,
                 unreleased |-> Nothing]
    /\ pointer = [pending |-> "none", closing |-> "no"]
    /\ chain = <<>> /\ job = NewJob /\ stop = "no"
    /\ capture = [child |-> "up", old |-> "none", restarts |-> 0, stopping |-> FALSE]
    /\ editable = [state |-> "up", asks |-> {}]
    /\ since = [owned |-> TRUE, focused |-> TRUE]

-----------------------------------------------------------------------------
(* The chain.                                                              *)

\* Variant: the press is not followed by a check of its authority.
ProgramUnchecked ==
    [tap   |-> <<"own", "focus", "move", "down", "same", "hold", "up", "publish">>,
     down  |-> <<"own", "focus", "move", "down", "same", "hold">>,
     up    |-> <<"own", "hold", "up", "publish">>,
     key   |-> <<"own", "focus", "keydown", "same", "hold", "keyup">>,
     scroll |-> <<"own", "focus", "axis", "axis">>,
     text  |-> <<"own", "focus", "inject">>,
     shutdown |-> <<"cancelkey", "cancel", "close">>]

\* What apply(), postPrimaryButton() and pressSpecialKey() await, in order: "own" and
\* "same" are currentOwnedGeometry(), the second for an unchanged geometry; "focus"
\* activates the window if it has to, "hold" only looks.  A scroll posts its two axes
\* with no check between them.
Program ==
    [tap   |-> <<"own", "focus", "move", "same", "hold", "down", "same", "hold", "up", "publish">>,
     down  |-> <<"own", "focus", "move", "same", "hold", "down", "same", "hold">>,
     up    |-> <<"own", "hold", "up", "publish">>,
     key   |-> <<"own", "focus", "keydown", "same", "hold", "keyup">>,
     scroll |-> <<"own", "focus", "axis", "axis">>,
     text  |-> <<"own", "focus", "inject">>,
     shutdown |-> <<"cancelkey", "cancel", "close">>]

Gone == {"ended", "killed", "dead"}
Commands == {"move", "down", "up", "keydown", "keyup", "cancel", "cancelkey"}
Cancels == {"cancel", "cancelkey"}
Kind == Head(chain)
Busy == chain # <<>>
Step ==
    IF job.undo THEN (IF Kind = "key" THEN "cancelkey" ELSE "cancel")
    ELSE IF job.at > Len(Program[Kind]) THEN "end" ELSE Program[Kind][job.at]

\* What the host takes for held after a command.
Knows(k, command) ==
    CASE command = "down"                -> [k EXCEPT !.button = TRUE]
      [] command \in {"up", "cancel"}    -> [k EXCEPT !.button = FALSE]
      [] command = "keydown"             -> [k EXCEPT !.key = TRUE]
      [] command \in {"keyup", "cancelkey"} -> [k EXCEPT !.key = FALSE]
      [] OTHER -> k

\* stopHost(): the shutdown is serialised after what was admitted.
Stops(jobs) == IF stop # "no" THEN jobs ELSE Append(jobs, "shutdown")
Stopping == IF stop = "no" THEN "chain" ELSE stop
HostStops(jobs) == chain' = Stops(jobs) /\ stop' = Stopping

\* The job has ended; the end of the shutdown lets the capture stop.
Leaves ==
    /\ job' = NewJob
    /\ IF Kind = "shutdown"
       THEN /\ chain' = Tail(chain) /\ stop' = "capture"
            /\ capture' = [capture EXCEPT !.stopping = TRUE]
       ELSE UNCHANGED capture /\ chain' = Tail(chain) /\ UNCHANGED stop
Advances(place) ==
    /\ job' = [job EXCEPT !.at = @ + 1, !.place = place, !.sent = FALSE]
    /\ UNCHANGED <<chain, stop, capture>>

\* A step throws.  What the job itself pressed is cancelled first; a cancellation that
\* fails counts as done; the chain goes on to its next job and then to the shutdown.  The
\* checks of a release stand outside that catch: its button stays down until then.
Throws ==
    IF Step \in Cancels
    THEN /\ known' = Knows(known, Step)
         /\ IF job.undo THEN job' = NewJob /\ HostStops(Tail(chain)) /\ UNCHANGED capture
            ELSE Advances(job.place)
    ELSE IF \/ Kind \in {"tap", "down"} /\ Step \in {"same", "hold"} /\ known.button
            \/ Kind = "key" /\ known.key
    THEN /\ job' = [job EXCEPT !.undo = TRUE, !.sent = FALSE]
         /\ UNCHANGED <<chain, stop, capture, known>>
    ELSE job' = NewJob /\ HostStops(Tail(chain)) /\ UNCHANGED <<capture, known>>

\* What the window would answer to the checks of the first job.
Owned(w, place) == w.owned /\ w.place = place
Sees(w) == [owned |-> Owned(w, job.place), focused |-> w.focused]
Witness(w) == [owned |-> since.owned \/ Sees(w).owned, focused |-> since.focused \/ Sees(w).focused]

CheckOwned ==
    /\ Busy /\ Step \in {"own", "same"}
    /\ IF /\ window.owned /\ (Step = "same" => window.place = job.place)
          /\ Kind = "up" => known.button
       THEN /\ Advances(window.place) /\ UNCHANGED known
            /\ since' = [since EXCEPT !.owned = TRUE]
       ELSE Throws /\ UNCHANGED since
    /\ UNCHANGED <<left, window, pressed, native, pointer, editable>>

CheckFocus ==
    /\ Busy /\ Step \in {"focus", "hold"}
    /\ \/ /\ window.focused
          /\ Advances(job.place) /\ UNCHANGED <<window, known, since>>
       \/ /\ ~window.focused /\ window.owned /\ Step = "focus"
          /\ window' = [window EXCEPT !.focused = TRUE]
          /\ Advances(job.place) /\ since' = Witness(window') /\ UNCHANGED known
       \/ /\ ~window.focused
          /\ Throws /\ UNCHANGED <<window, since>>
    /\ UNCHANGED <<left, pressed, native, pointer, editable>>

\* command(): refused when the helper is gone or closing; so is a second press.
Send ==
    /\ Busy /\ Step \in Commands /\ ~job.sent
    /\ (Kind = "shutdown" => IF Step = "cancel" THEN known.button ELSE known.key)
    /\ IF native.state = "up" /\ pointer.closing = "no" /\ (Step = "move" => ~known.button)
       THEN /\ job' = [job EXCEPT !.sent = TRUE]
            /\ pointer' = [pointer EXCEPT !.pending = Step]
            /\ native' = [native EXCEPT !.command = Step]
            /\ UNCHANGED <<chain, known, stop, capture>>
       ELSE Throws /\ UNCHANGED <<pointer, native>>
    /\ UNCHANGED <<left, window, pressed, editable, since>>

\* The release point is too far from the press.
ReleaseElsewhere ==
    /\ Busy /\ Kind = "up" /\ Step = "up" /\ ~job.sent
    /\ Throws
    /\ UNCHANGED <<left, window, pressed, native, pointer, editable, since>>

\* close() is called once, by the shutdown or by a failure before it.
Closes(why) == IF pointer.closing = "no" THEN why ELSE pointer.closing

\* releaseAll() with nothing to release; close() and what it waits for; the end of a job.
NothingToCancel ==
    /\ Busy /\ Kind = "shutdown" /\ Step \in Cancels /\ ~job.sent
    /\ ~(IF Step = "cancel" THEN known.button ELSE known.key)
    /\ Advances(0) /\ UNCHANGED <<left, window, pressed, native, pointer, known, editable, since>>
CloseHelper ==
    /\ Busy /\ Step = "close"
    /\ IF native.state \in Gone
       THEN Advances(0) /\ UNCHANGED pointer
       ELSE /\ pointer.closing = "no" /\ pointer' = [pointer EXCEPT !.closing = "stop"]
            /\ UNCHANGED <<job, chain, stop, capture>>
    /\ UNCHANGED <<left, window, pressed, native, known, editable, since>>
JobEnds ==
    /\ Busy /\ Step = "end" /\ Leaves
    /\ UNCHANGED <<left, window, pressed, native, pointer, known, editable, since>>

\* Another process injects, or fails to: scrollAxis() within its time, typeText() with none.
Injects(step) ==
    /\ Busy /\ Step = step
    /\ \/ Advances(job.place) /\ UNCHANGED <<left, known>> /\ since' = Sees(window)
       \/ /\ left.faults > 0 /\ left' = [left EXCEPT !.faults = @ - 1]
          /\ Throws /\ UNCHANGED since
    /\ UNCHANGED <<window, pressed, native, pointer, editable>>
ScrollAxis == Injects("axis")
TypeText == Injects("inject")

-----------------------------------------------------------------------------
(* The helper and its client.                                              *)

Presses == {"down", "keydown"}
KeyOf(command) == IF command \in {"down", "up", "cancel"} THEN "button" ELSE "key"

\* What a command that fails leaves: it may have had its effect (done) or not.  A press is
\* owned from the request on, and one that is not confirmed is released at once; but that
\* release, or the one that a cancellation is, may fail as well, and the cleanup forgets
\* the press in either case.
Unconfirmed(command, done, released) ==
    IF ~released /\ (command \in Cancels \/ (done /\ command \in Presses))
    THEN [pressed |-> IF command \in Presses THEN Knows(pressed, command) ELSE pressed,
          unreleased |-> [native.unreleased EXCEPT ![KeyOf(command)] = TRUE]]
    ELSE [pressed |-> IF command \in Cancels \/ (done /\ command \notin Presses)
                      THEN Knows(pressed, command) ELSE pressed,
          unreleased |-> native.unreleased]

\* run_protocol(): a command is executed and confirmed, or refused; then the helper leaves.
Execute ==
    /\ native.state = "up" /\ native.command # "none"
    /\ \/ /\ pressed' = Knows(pressed, native.command) /\ UNCHANGED left
          /\ native' = [native EXCEPT !.command = "none", !.reply = "ok",
                                      !.holds = Knows(@, native.command)]
       \/ /\ left.faults > 0 /\ left' = [left EXCEPT !.faults = @ - 1]
          /\ \E done, released \in BOOLEAN :
                LET after == Unconfirmed(native.command, done, released) IN
                /\ pressed' = after.pressed
                /\ native' = [native EXCEPT
                      !.command = "none", !.reply = "err", !.state = "leaving",
                      !.unreleased = after.unreleased,
                      !.holds = IF native.command \in Cancels THEN Knows(@, native.command) ELSE @]
    /\ UNCHANGED <<window, pointer, chain, job, known, stop, capture, editable, since>>

\* End of input, or after a refusal: cleanup_all() releases what the helper holds, or
\* fails to, and the helper ends.
Leave ==
    /\ \/ native.state = "leaving"
       \/ native.state = "up" /\ native.command = "none" /\ pointer.closing # "no"
    /\ \E stays \in SUBSET {k \in DOMAIN Nothing : native.holds[k]} :
        /\ IF stays = {} THEN UNCHANGED left
           ELSE left.faults > 0 /\ left' = [left EXCEPT !.faults = @ - 1]
        /\ pressed' = [k \in DOMAIN Nothing |-> pressed[k] /\ (native.holds[k] => k \in stays)]
        /\ native' = [native EXCEPT
              !.state = "ended", !.holds = Nothing,
              !.unreleased = [k \in DOMAIN Nothing |-> @[k] \/ k \in stays]]
    /\ UNCHANGED <<window, pointer, chain, job, known, stop, capture, editable, since>>

\* consume(): the answer to the pending command; an answer nobody waits for closes.
Consume ==
    /\ native.reply # "none"
    /\ native' = [native EXCEPT !.reply = "none"]
    /\ IF pointer.pending = "none"
       THEN /\ pointer' = [pointer EXCEPT !.closing = Closes("failure")]
            /\ UNCHANGED <<chain, job, known, stop, capture, since>>
       ELSE /\ pointer' = [pending |-> "none",
                           closing |-> IF native.reply = "err" THEN Closes("failure") ELSE pointer.closing]
            /\ IF native.reply = "err" THEN Throws /\ UNCHANGED since
               ELSE /\ known' = Knows(known, pointer.pending) /\ since' = Sees(window)
                    /\ IF job.undo THEN job' = NewJob /\ HostStops(Tail(chain)) /\ UNCHANGED capture
                       ELSE Advances(job.place)
    /\ UNCHANGED <<left, window, pressed, editable>>

\* The command's timer.
AckTimeout ==
    /\ pointer.pending # "none" /\ native.reply = "none" /\ left.faults > 0
    /\ left' = [left EXCEPT !.faults = @ - 1]
    /\ pointer' = [pending |-> "none", closing |-> Closes("failure")]
    /\ Throws
    /\ UNCHANGED <<window, pressed, native, editable, since>>

\* Variant: the pending command is dropped, not rejected.
HelperGoneUnseen ==
    /\ pointer.pending # "none" /\ native.reply = "none" /\ native.state \in Gone
    /\ pointer' = [pointer EXCEPT !.pending = "none"]
    /\ UNCHANGED <<left, window, pressed, native, chain, job, known, stop, capture, editable, since>>

\* The end of the helper seen by its client: fail().
HelperGone ==
    /\ pointer.pending # "none" /\ native.reply = "none" /\ native.state \in Gone
    /\ pointer' = [pointer EXCEPT !.pending = "none"]
    /\ Throws
    /\ UNCHANGED <<left, window, pressed, native, editable, since>>

\* The helper dies, or close() loses patience with it and kills it.
HelperDies ==
    /\ native.state \in {"up", "leaving"} /\ left.faults > 0
    /\ left' = [left EXCEPT !.faults = @ - 1]
    /\ \E how \in IF pointer.closing = "no" THEN {"dead"} ELSE {"dead", "killed"} :
        native' = [native EXCEPT !.state = how, !.command = "none", !.holds = Nothing]
    /\ UNCHANGED <<window, pressed, pointer, chain, job, known, stop, capture, editable, since>>

-----------------------------------------------------------------------------
(* The parent, the capture, the AT-SPI helper, the window.                 *)

Admit ==
    /\ stop = "no" /\ left.inputs > 0
    /\ \E k \in Kinds : chain' = Append(chain, k)
    /\ left' = [left EXCEPT !.inputs = @ - 1]
    /\ UNCHANGED <<window, pressed, native, pointer, job, known, stop, capture, editable, since>>

\* Variant: the helper is closed at once, not behind the inputs already admitted.
StopAskedOutsideChain ==
    /\ stop = "no" /\ HostStops(chain)
    /\ pointer' = [pointer EXCEPT !.closing = Closes("stop")]
    /\ UNCHANGED <<left, window, pressed, native, job, known, capture, editable, since>>

\* A stop, the end of stdin, a signal, the expiry.
StopAsked ==
    /\ stop = "no" /\ HostStops(chain)
    /\ UNCHANGED <<left, window, pressed, native, pointer, job, known, capture, editable, since>>

\* requestIDR() replaces the encoder: the old one is fenced and ended first.
RequestIDR ==
    /\ stop = "no" /\ left.refreshes > 0 /\ ~capture.stopping
    /\ left' = [left EXCEPT !.refreshes = @ - 1]
    /\ capture' = [capture EXCEPT !.restarts = @ + 1]
    /\ UNCHANGED <<window, pressed, native, pointer, chain, job, known, stop, editable, since>>

Spawns(c) ==
    [c EXCEPT !.restarts = @ - 1, !.old = "none", !.child = IF c.stopping THEN @ ELSE "up"]

RestartBegins ==
    /\ capture.restarts > 0 /\ capture.old = "none"
    /\ capture' = IF capture.child = "up" THEN [capture EXCEPT !.child = "ended", !.old = "up"]
                  ELSE Spawns(capture)
    /\ UNCHANGED <<left, window, pressed, native, pointer, chain, job, known, stop, editable, since>>
RestartEnds ==
    /\ capture.old = "up" /\ capture' = Spawns(capture)
    /\ UNCHANGED <<left, window, pressed, native, pointer, chain, job, known, stop, editable, since>>

\* The encoder ends by itself; with a failure, and unless it is stopping, the host stops.
EncoderEnds ==
    /\ capture.child = "up" /\ left.faults > 0
    /\ left' = [left EXCEPT !.faults = @ - 1]
    /\ capture' = [capture EXCEPT !.child = "ended"]
    /\ \/ ~capture.stopping /\ HostStops(chain)
       \/ UNCHANGED <<chain, stop>>
    /\ UNCHANGED <<window, pressed, native, pointer, job, known, editable, since>>

\* capture.stop() behind the restarts, and the AT-SPI helper with it.
CaptureStops ==
    /\ stop = "capture" /\ capture.restarts = 0 /\ editable.state # "closing"
    /\ IF capture.child = "up" \/ editable.state = "up"
       THEN /\ capture' = [capture EXCEPT !.child = "ended"]
            /\ editable' = [editable EXCEPT !.state = IF @ = "up" THEN "closing" ELSE @]
            /\ UNCHANGED stop
       ELSE stop' = "done" /\ UNCHANGED <<capture, editable>>
    /\ UNCHANGED <<left, window, pressed, native, pointer, chain, job, known, since>>

\* Snapshots are asked one after the other, by a poll and after a click; the first
\* failure gives the helper up.
Asks(who) == editable' = [editable EXCEPT !.asks = @ \union {who}]
Poll ==
    /\ stop = "no" /\ editable.state = "up" /\ editable.asks = {}
    /\ Asks("poll")
    /\ UNCHANGED <<left, window, pressed, native, pointer, chain, job, known, stop, capture, since>>
Publish ==
    /\ Busy /\ Step = "publish"
    /\ IF editable.state = "up" /\ ~job.sent
       THEN Asks("input") /\ job' = [job EXCEPT !.sent = TRUE] /\ UNCHANGED <<chain, stop, capture>>
       ELSE "input" \notin editable.asks /\ Advances(job.place) /\ UNCHANGED editable
    /\ UNCHANGED <<left, window, pressed, native, pointer, known, since>>
First(a) == a \in editable.asks /\ (a = "input" => "poll" \notin editable.asks)
SnapshotAnswered ==
    /\ editable.state = "up"
    /\ \E a \in editable.asks : First(a) /\ editable' = [editable EXCEPT !.asks = @ \ {a}]
    /\ UNCHANGED <<left, window, pressed, native, pointer, chain, job, known, stop, capture, since>>
SnapshotFails ==
    /\ IF editable.state = "up" THEN left.faults > 0 /\ left' = [left EXCEPT !.faults = @ - 1]
       ELSE UNCHANGED left
    /\ \E a \in editable.asks :
        /\ First(a)
        /\ editable' = [state |-> IF editable.state = "up" THEN "closing" ELSE editable.state,
                        asks |-> editable.asks \ {a}]
    /\ UNCHANGED <<window, pressed, native, pointer, chain, job, known, stop, capture, since>>
EditableCloses ==
    /\ editable.state = "closing" /\ editable' = [editable EXCEPT !.state = "closed"]
    /\ UNCHANGED <<left, window, pressed, native, pointer, chain, job, known, stop, capture, since>>

\* The window loses its focus, moves, changes its owner, or is the target's again.
WindowChanges ==
    /\ left.changes > 0 /\ left' = [left EXCEPT !.changes = @ - 1]
    /\ \/ window' = [window EXCEPT !.focused = ~@]
       \/ window' = [window EXCEPT !.owned = ~@]
       \/ window' = [window EXCEPT !.place = 1 - @]
    /\ since' = Witness(window')
    /\ UNCHANGED <<pressed, native, pointer, chain, job, known, stop, capture, editable>>

Host ==
    \/ CheckOwned \/ CheckFocus \/ Send \/ NothingToCancel \/ CloseHelper \/ JobEnds
    \/ ScrollAxis \/ Consume \/ HelperGone
    \/ RestartBegins \/ RestartEnds \/ CaptureStops \/ Publish \/ SnapshotAnswered
    \/ SnapshotFails \/ EditableCloses
Helper == Execute \/ Leave
Environment ==
    \/ TypeText \/ ReleaseElsewhere \/ AckTimeout \/ HelperDies \/ Admit \/ StopAsked \/ RequestIDR
    \/ EncoderEnds \/ Poll \/ WindowChanges
Next == Host \/ Helper \/ Environment

\* The host's steps and timers run, and the helper answers or is killed; the process that
\* types a text has no timer and may never end.
Spec == Init /\ [][Next]_vars /\ WF_vars(Host \/ Helper)

-----------------------------------------------------------------------------
(* Properties.                                                             *)

\* A press outlives the helper only if its release failed.  A helper that ended by itself,
\* after a stop, a refusal, an error or a timeout in the middle of a press, left down only
\* what it tried to release and the X server did not confirm; and a helper that an orderly
\* shutdown closed had nothing down by then, so that killing it for being slow to leave
\* leaves nothing: stopHost()'s comment has a shutdown wait for the inputs before it, lest
\* it "leave a Button1 or special key pressed after helper exit".  A helper that dies, or
\* is killed when it was closed for a failure, promises nothing.
NothingStaysPressed ==
    \A k \in DOMAIN Nothing : pressed[k] =>
        /\ native.state = "ended" => native.unreleased[k]
        /\ native.state = "killed" => pointer.closing = "failure"

\* A press, a release or a move is asked for only if the window was the target's, where
\* the input believes it to be, and had the focus at some moment since the host heard of
\* the mutation before: nothing is posted on the strength of a check made before it.
MutationsFollowAuthority ==
    pointer.pending \notin Cancels \union {"none"} => since.owned /\ since.focused

\* A host that was asked to stop does, whatever is admitted, in flight or failing, unless
\* the process that types a text never ends: the chain, and the stop, wait for it.
Typing == Busy /\ Step = "inject"
StopSettles == <>[]Typing \/ (stop # "no" ~> stop = "done")
=============================================================================
