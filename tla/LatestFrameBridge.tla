-------------------------- MODULE LatestFrameBridge --------------------------
(***************************************************************************)
(* HostedLatestFrameBridge (src/src/core/hosted-latest-frame-bridge.ts):   *)
(* frames of a hosted surface pass to one peer, at most one in flight and  *)
(* one pending.  A frame is the number of its publish() call; the counters *)
(* of sent and dropped frames are left out.                                *)
(*                                                                         *)
(* publish() and drain() run to their first await in one step; the only    *)
(* await is sendFrame(), so a step either starts a send or settles the one *)
(* in flight and goes once round the loop.  The peer's buffer and the      *)
(* operator / worker binding are external: a binding that went stale stays *)
(* stale, because generations only grow.                                   *)
(***************************************************************************)
EXTENDS Naturals, SequencesExt

CONSTANT MaxFrames  \* bound on the number of published frames

ASSUME MaxFramesAssumption == MaxFrames \in Nat

VARIABLES
    closed,     \* #closed
    inFlight,   \* the frame sendFrame() was called with, 0 while not #sending
    pending,    \* #pending, 0 when undefined
    sent,       \* the frames the peer accepted, in order
    published,  \* frames that passed publish()'s checks
    peer,       \* what bufferedAmount() reports: ready, full, or broken
    stale       \* the operator or worker generation has moved on

vars == <<closed, inFlight, pending, sent, published, peer, stale>>

None == 0
Frame == 1..MaxFrames

\* #isBackpressured(), which fails the transport when the peer does not answer.
Backpressured == peer = "full"
Unreadable == peer = "broken"

\* assertHostedOperatorBindingCurrent() does not throw.
Current == ~stale

Init ==
    /\ closed = FALSE /\ stale = FALSE /\ peer = "ready"
    /\ inFlight = None /\ pending = None
    /\ published = 0 /\ sent = <<>>

--------------------------------------------------------------------------------
\* #failTransport(), and the `finally` of a send loop it was raised in.
FailTransport ==
    /\ closed' = TRUE
    /\ pending' = None
    /\ inFlight' = None

\* Variant: a second pending frame is not kept.
KeepOlderPending(frame) == pending' = IF pending = None THEN frame ELSE pending

\* #replacePending()
ReplacePending(frame) == pending' = frame

\* The head of the send loop: the binding, then the buffer, then sendFrame().
\* `left` is what the loop has left in #pending.  A stale binding throws out of
\* the loop and the frame it had taken is gone.
SendOrStop(frame, left) ==
    \/ /\ Current /\ ~Backpressured /\ ~Unreadable
       /\ inFlight' = frame /\ pending' = left
       /\ UNCHANGED closed
    \/ /\ ~Current
       /\ inFlight' = None /\ pending' = left
       /\ UNCHANGED closed
    \/ /\ Current /\ Backpressured
       /\ inFlight' = None /\ pending' = frame
       /\ UNCHANGED closed
    \/ /\ Current /\ Unreadable
       /\ FailTransport

\* publish(frame).  bufferedAmount() is asked only when nothing is in flight.
Publish ==
    /\ ~closed /\ Current
    /\ published < MaxFrames
    /\ published' = published + 1
    /\ \/ /\ inFlight # None \/ Backpressured
          /\ ReplacePending(published + 1)
          /\ UNCHANGED <<closed, inFlight>>
       \/ /\ inFlight = None /\ ~Backpressured
          /\ SendOrStop(published + 1, pending)
    /\ UNCHANGED <<sent, peer, stale>>

\* Variant: drain() with its #sending check the wrong way round.
DrainWhileSending ==
    /\ ~closed /\ Current
    /\ inFlight # None /\ pending # None /\ ~Backpressured
    /\ SendOrStop(pending, None)
    /\ UNCHANGED <<sent, published, peer, stale>>

\* drain(), when it has something to do.
Drain ==
    /\ ~closed /\ Current
    /\ inFlight = None /\ pending # None /\ ~Backpressured
    /\ SendOrStop(pending, None)
    /\ UNCHANGED <<sent, published, peer, stale>>

\* close(); a send in flight goes on.
Close ==
    /\ ~closed
    /\ closed' = TRUE
    /\ pending' = None
    /\ UNCHANGED <<inFlight, sent, published, peer, stale>>

\* sendFrame() resolves: the loop takes the pending frame, if there is one.
SendResolved ==
    /\ inFlight # None
    /\ sent' = Append(sent, inFlight)
    /\ \/ /\ pending = None
          /\ inFlight' = None
          /\ UNCHANGED <<closed, pending>>
       \/ /\ pending # None
          /\ SendOrStop(pending, None)
    /\ UNCHANGED <<published, peer, stale>>

SendRejected ==
    /\ inFlight # None
    /\ FailTransport
    /\ UNCHANGED <<sent, published, peer, stale>>

\* External: the transport's buffer fills, empties or becomes unreadable.
PeerDrains == peer = "full" /\ peer' = "ready"
PeerFills == peer = "ready" /\ peer' = "full"
PeerBreaks == peer # "broken" /\ peer' = "broken"

PeerChanges ==
    /\ PeerDrains \/ PeerFills \/ PeerBreaks
    /\ UNCHANGED <<closed, inFlight, pending, sent, published, stale>>

\* External: the viewer or the worker reconnected, or the session expired.
BindingGoesStale ==
    /\ ~stale
    /\ stale' = TRUE
    /\ UNCHANGED <<closed, inFlight, pending, sent, published, peer>>

Next ==
    \/ Publish \/ Drain \/ Close
    \/ SendResolved \/ SendRejected
    \/ PeerChanges \/ BindingGoesStale

Spec == Init /\ [][Next]_vars

\* A send settles, and the caller calls drain() when the transport reports that
\* it is writable, as drain()'s comment asks.  The transport may be writable
\* only now and then, hence the strong fairness.
Fairness ==
    /\ WF_vars(SendResolved \/ SendRejected)
    /\ SF_vars(Drain)
    /\ WF_vars(PeerChanges /\ PeerDrains)

FairSpec == Spec /\ Fairness

--------------------------------------------------------------------------------
\* Latest-only delivery: whatever is it is never the newest frame.
NewestFrameIsKept ==
    ~closed /\ Current /\ published > 0 =>
        published \in ToSet(sent) \union {inFlight, pending}

\* A pending frame does not wait for ever behind a flag nobody resets.
PendingFrameDrains ==
    pending # None ~> (pending = None \/ closed \/ stale)

================================================================================
