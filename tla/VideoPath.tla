------------------------------- MODULE VideoPath -------------------------------
(***************************************************************************)
(* The encoded video of one WebRTC runtime (src/src/browser-takeover/      *)
(* webrtc-runtime.ts, writeFrame to sendFrame): frames of the host go to   *)
(* the sender of the current peer, at most one in flight and one pending.    *)
(* A dependent frame that was queued and is dropped leaves a gap that only *)
(* a key frame closes.  A suspended runtime keeps its host and gets a new  *)
(* peer when it is resumed.                                                *)
(*                                                                         *)
(* A frame is its number and whether it is a key frame.  A send stands for *)
(* the packets of a frame, whose sequence numbers are left out, and so is  *)
(* the request for a key frame: one may come at any time, as the encoder   *)
(* also makes them by itself.                                              *)
(***************************************************************************)
EXTENDS Naturals, FiniteSets

CONSTANTS
    MaxVideo,   \* bound on the frames of the host
    MaxPeers    \* bound on the peers of the runtime

ASSUME VideoAssumption == MaxVideo \in Nat /\ MaxPeers \in Nat

VARIABLES
    state,      \* of the current peer, or suspended, or closing
    peerNo,     \* the current peer
    queued,     \* pendingFrame
    preconnect, \* preconnectKeyframe
    awaiting,   \* awaitingVideoKeyframe
    draining,   \* videoDrainActive
    sends,      \* the sendFrame() calls of all drains that have not settled
    encoded,    \* frames the host has written
    based,      \* history: peers that have what a dependent frame builds on
    forgotten   \* history: how many times a resume found a drain active

queueVars == <<queued, preconnect, awaiting, draining, sends, based, forgotten>>
videoVars == <<state, peerNo, encoded, queueVars>>

Peers == 1..MaxPeers
NoVideo == [n |-> 0, key |-> FALSE]
Over == "closing"

\* A runtime that is over, or not started.
VideoClosed ==
    /\ state = Over /\ peerNo = 1 /\ encoded = 0
    /\ queued = NoVideo /\ preconnect = NoVideo
    /\ awaiting = FALSE /\ draining = FALSE /\ sends = {}
    /\ based = {} /\ forgotten = 0

\* The runtime as start() makes it: a key frame is not awaited before there is a peer.
VideoInit ==
    /\ state = "connecting" /\ peerNo = 1 /\ encoded = 0
    /\ queued = NoVideo /\ preconnect = NoVideo
    /\ awaiting = FALSE /\ draining = FALSE /\ sends = {}
    /\ based = {} /\ forgotten = 0

--------------------------------------------------------------------------------
\* The head of drainLatestFrames(): frame f is taken and its first packet sent.
Taken(f) == [peer |-> peerNo, frame |-> f]
BasedBy(f, known) == IF f.key THEN known \union {peerNo} ELSE known

\* Frame f is queued, with `known` the peers that stay based, and a drain started if
\* none is active.
Queue(f, known) ==
    IF draining
    THEN queued' = f /\ based' = known /\ UNCHANGED <<draining, sends>>
    ELSE /\ queued' = NoVideo /\ draining' = TRUE
         /\ sends' = sends \union {Taken(f)}
         /\ based' = BasedBy(f, known)

\* enqueueConnectedFrame(): a pending key frame gives way to a key frame only; a pending
\* dependent frame that is superseded leaves a gap, and a key frame is awaited.
Enqueue(f) ==
    LET supersedes == queued # NoVideo /\ ~queued.key
        known == IF supersedes THEN based \ {peerNo} ELSE based IN
    \/ /\ f.key
       /\ awaiting' = FALSE /\ Queue(f, known)
    \/ /\ ~f.key /\ ~awaiting /\ queued = NoVideo
       /\ Queue(f, known) /\ UNCHANGED awaiting
    \/ /\ ~f.key /\ ~awaiting /\ supersedes
       /\ awaiting' = TRUE /\ queued' = NoVideo /\ based' = known
       /\ UNCHANGED <<draining, sends>>
    \/ /\ ~f.key /\ (awaiting \/ queued.key)
       /\ UNCHANGED <<awaiting, queued, draining, sends, based>>

\* writeFrame(): before a peer is connected one key frame is kept.
HostFrame(key) ==
    /\ encoded < MaxVideo /\ encoded' = encoded + 1
    /\ LET f == [n |-> encoded + 1, key |-> key] IN
        \/ /\ state = "connected"
           /\ Enqueue(f) /\ UNCHANGED preconnect
        \/ /\ state \in {"connecting", "suspended"}
           /\ preconnect' = IF key THEN f ELSE preconnect
           /\ UNCHANGED <<queued, awaiting, draining, sends, based>>
    /\ UNCHANGED <<state, peerNo, forgotten>>

\* Variant: without a key frame at hand the connected peer is given what comes next.
ConnectedNotAwaiting ==
    /\ state = "connecting" /\ state' = "connected"
    /\ preconnect' = NoVideo
    /\ \/ preconnect # NoVideo /\ Enqueue(preconnect)
       \/ /\ preconnect = NoVideo
          /\ UNCHANGED <<queued, awaiting, draining, sends, based>>
    /\ UNCHANGED <<peerNo, encoded, forgotten>>

\* connectionStateChange to connected: the kept key frame first, or one is awaited.
Connected ==
    /\ state = "connecting" /\ state' = "connected"
    /\ preconnect' = NoVideo
    /\ \/ preconnect # NoVideo /\ Enqueue(preconnect)
       \/ /\ preconnect = NoVideo /\ awaiting' = TRUE
          /\ UNCHANGED <<queued, draining, sends, based>>
    /\ UNCHANGED <<peerNo, encoded, forgotten>>

\* sendFrame() returned, early if the peer is not connected: once round the loop of the
\* drain, which goes on with the current peer whichever it started with.
SendSettles(d) ==
    /\ sends' = (sends \ {d}) \union
           (IF state = "connected" /\ queued # NoVideo THEN {Taken(queued)} ELSE {})
    /\ IF state = "connected" /\ queued # NoVideo
       THEN /\ queued' = NoVideo /\ based' = BasedBy(queued, based) /\ UNCHANGED draining
       ELSE draining' = FALSE /\ UNCHANGED <<queued, based>>
    /\ UNCHANGED <<state, peerNo, preconnect, awaiting, encoded, forgotten>>

\* It threw: what was pending gets a drain of its own, and the runtime is ended.
SendFails(d) ==
    /\ state' = Over
    /\ IF state = "connected" /\ queued # NoVideo
       THEN /\ sends' = (sends \ {d}) \union {Taken(queued)}
            /\ queued' = NoVideo /\ based' = BasedBy(queued, based) /\ draining' = TRUE
       ELSE /\ sends' = sends \ {d} /\ draining' = FALSE
            /\ UNCHANGED <<queued, based>>
    /\ UNCHANGED <<peerNo, preconnect, awaiting, encoded, forgotten>>

\* suspend() of a runtime whose host is kept.
Suspends ==
    /\ state \in {"connecting", "connected"} /\ state' = "suspended"
    /\ queued' = NoVideo /\ preconnect' = NoVideo /\ awaiting' = TRUE
    /\ based' = based \ {peerNo}
    /\ UNCHANGED <<peerNo, draining, sends, encoded, forgotten>>

\* resumeSuspended(): a new peer.  The flag of a drain that is still sending is reset,
\* and the drain itself goes on.
Resumes ==
    /\ state = "suspended" /\ state' = "connecting"
    /\ peerNo < MaxPeers /\ peerNo' = peerNo + 1
    /\ queued' = NoVideo /\ preconnect' = NoVideo
    /\ awaiting' = TRUE /\ draining' = FALSE
    /\ forgotten' = IF draining THEN forgotten + 1 ELSE forgotten
    /\ UNCHANGED <<sends, encoded, based>>

\* end(), for whatever cause.
Ends ==
    /\ state # Over /\ state' = Over
    /\ UNCHANGED <<peerNo, encoded, queueVars>>

VideoNext ==
    \/ \E key \in BOOLEAN : HostFrame(key)
    \/ Connected \/ Suspends \/ Resumes \/ Ends
    \/ \E d \in sends : SendSettles(d) \/ SendFails(d)

VideoSpec == VideoInit /\ [][VideoNext]_videoVars

--------------------------------------------------------------------------------
\* What a peer is sent can be decoded, over drops, errors, suspends and resumes.  A
\* dependent frame begins only on a peer that was sent a key frame, after which no queued
\* dependent frame was dropped: "do not resume media until that keyframe arrives"
\* (webrtc-runtime.ts:775), also when a drain of an earlier peer sends it.  And of the
\* frames in flight, which share the sequence numbers, all but one are owed to a resume
\* that found a drain active: "at most one frame in flight" (:759) is true of a runtime in
\* which no resume did, and of no other.  Of frames that are dropped before they are queued
\* (a peer that is not connected, a pending key frame) it says nothing.
FramesDecode ==
    [][\A d \in sends' \ sends :
        /\ d.frame.key \/ d.peer \in based
        /\ Cardinality(sends') <= 1 + forgotten]_videoVars
================================================================================
