--------------------------- MODULE FramePathsProofs ---------------------------
(***************************************************************************)
(* Machine-checked theorems on the two frame paths, for every number of    *)
(* frames and peers: the hosted bridge never loses the newest frame, and   *)
(* what a WebRTC peer is sent can be decoded.                              *)
(***************************************************************************)
EXTENDS LatestFrameBridge, VideoPath, FiniteSetTheorems, TLAPS

--------------------------------------------------------------------------------
\* HostedLatestFrameBridge.

BridgeInv ==
    /\ sent \in Seq(Nat)
    /\ published \in Nat /\ inFlight \in Nat /\ pending \in Nat
    /\ NewestFrameIsKept

\* What the peer has accepted grows by the frame whose send resolved.
LEMMA ToSetAppend ==
    ASSUME NEW s \in Seq(Nat), NEW e \in Nat
    PROVE  Append(s, e) \in Seq(Nat) /\ ToSet(Append(s, e)) = ToSet(s) \union {e}
<1>1. /\ Append(s, e) \in Seq(Nat) /\ Len(Append(s, e)) = Len(s) + 1 /\ Len(s) \in Nat
      /\ \A i \in 1..Len(s) : Append(s, e)[i] = s[i]
      /\ Append(s, e)[Len(s) + 1] = e
      OBVIOUS
<1>2. DOMAIN s = 1..Len(s) /\ DOMAIN Append(s, e) = 1..(Len(s) + 1)
      BY <1>1
<1>3. 1..(Len(s) + 1) = (1..Len(s)) \union {Len(s) + 1}
      BY <1>1
<1> QED BY <1>1, <1>2, <1>3 DEF ToSet

\* The head of the send loop loses a frame only with the transport or the binding.
LEMMA SendOrStopKeeps ==
    ASSUME NEW frame, NEW left, SendOrStop(frame, left)
    PROVE  closed' \/ ~Current \/ frame \in {inFlight', pending'}
  BY DEF SendOrStop, FailTransport

\* Every step of the bridge keeps its newest frame.
LEMMA BridgeStep == BridgeInv /\ [Next]_vars => BridgeInv'
<1> SUFFICES ASSUME BridgeInv, [Next]_vars PROVE BridgeInv'
    OBVIOUS
<1>1. /\ sent \in Seq(Nat) /\ published \in Nat /\ inFlight \in Nat /\ pending \in Nat
      /\ ~closed /\ Current /\ published > 0 =>
             published \in ToSet(sent) \/ published = inFlight \/ published = pending
      BY DEF BridgeInv, NewestFrameIsKept
<1>2. CASE Publish
  <2>1. /\ ~closed /\ Current /\ published' = published + 1 /\ UNCHANGED <<sent, peer, stale>>
        /\ inFlight' \in Nat /\ pending' \in Nat
        /\ closed' \/ published' \in {inFlight', pending'}
        BY <1>1, <1>2, SendOrStopKeeps
        DEF Publish, ReplacePending, SendOrStop, FailTransport, None
  <2> QED BY <1>1, <2>1 DEF BridgeInv, NewestFrameIsKept, Current
<1>3. CASE Drain
  <2>1. /\ inFlight = 0 /\ UNCHANGED <<sent, published, stale>>
        /\ inFlight' \in Nat /\ pending' \in Nat
        /\ closed' \/ ~Current \/ pending \in {inFlight', pending'}
        /\ ~closed
        BY <1>1, <1>3, SendOrStopKeeps DEF Drain, SendOrStop, FailTransport, None
  <2> QED BY <1>1, <2>1 DEF BridgeInv, NewestFrameIsKept, Current
<1>4. CASE SendResolved
  <2>1. /\ sent' = Append(sent, inFlight) /\ UNCHANGED <<published, stale>>
        /\ inFlight' \in Nat /\ pending' \in Nat
        /\ closed' \/ ~Current \/ pending = 0 \/ pending \in {inFlight', pending'}
        /\ closed => closed'
        BY <1>1, <1>4, SendOrStopKeeps DEF SendResolved, SendOrStop, FailTransport, None
  <2>2. sent' \in Seq(Nat) /\ ToSet(sent') = ToSet(sent) \union {inFlight}
        BY <1>1, <2>1, ToSetAppend
  <2> QED BY <1>1, <2>1, <2>2 DEF BridgeInv, NewestFrameIsKept, Current
<1>5. CASE Close \/ SendRejected
      BY <1>1, <1>5 DEF Close, SendRejected, FailTransport, None, BridgeInv, NewestFrameIsKept
<1>6. CASE PeerChanges \/ BindingGoesStale
      BY <1>1, <1>6 DEF PeerChanges, BindingGoesStale, BridgeInv, NewestFrameIsKept, Current
<1>7. CASE UNCHANGED vars
      BY <1>1, <1>7 DEF vars, BridgeInv, NewestFrameIsKept, Current
<1> QED BY <1>2, <1>3, <1>4, <1>5, <1>6, <1>7 DEF Next

\* Latest-only delivery: whatever the buffer of the peer does and whenever the
\* caller publishes or drains, the newest frame is sent, in flight or pending,
\* until the bridge is closed or its binding is stale.
THEOREM NewestKept == Spec => []NewestFrameIsKept
<1>1. Init => BridgeInv
      BY DEF Init, None, BridgeInv, NewestFrameIsKept
<1>2. BridgeInv => NewestFrameIsKept
      BY DEF BridgeInv
<1> QED BY <1>1, <1>2, BridgeStep, PTL DEF Spec
--------------------------------------------------------------------------------
\* The video of a WebRTC runtime.

Video == [n: Nat, key: BOOLEAN]

VideoTypeOK ==
    /\ state \in {"connecting", "connected", "suspended", Over}
    /\ peerNo \in Nat /\ encoded \in Nat
    /\ queued \in Video /\ preconnect \in Video
    /\ awaiting \in BOOLEAN /\ draining \in BOOLEAN

\* The drain the flag stands for has one frame on its way at most, and so has each drain
\* that a resume forgot.
Drains ==
    /\ forgotten \in Nat /\ IsFiniteSet(sends)
    /\ Cardinality(sends) <= forgotten + (IF draining THEN 1 ELSE 0)

\* What is queued, or may be sent next, builds on what the current peer has.
Based ==
    /\ preconnect # NoVideo => preconnect.key
    /\ queued # NoVideo => queued.key \/ peerNo \in based
    /\ state = "connected" /\ ~awaiting => queued.key \/ peerNo \in based

VideoInv == VideoTypeOK /\ Drains /\ Based

\* A frame that begins to be sent: its peer can decode it, and the others that are on
\* their way are those of forgotten drains.
Decodable ==
    \A d \in sends' \ sends :
        /\ d.frame.key \/ d.peer \in based
        /\ Cardinality(sends') <= 1 + forgotten

\* A drain starts, with a frame of its own.
LEMMA DrainStarts ==
    ASSUME Drains, ~draining, draining' = TRUE, UNCHANGED forgotten,
           NEW d, sends' = sends \union {d}
    PROVE  Drains' /\ Cardinality(sends') <= 1 + forgotten
<1>1. IsFiniteSet(sends) /\ Cardinality(sends) \in Nat
      BY FS_CardinalityType DEF Drains
<1>2. /\ IsFiniteSet(sends \union {d})
      /\ Cardinality(sends \union {d}) \in {Cardinality(sends), Cardinality(sends) + 1}
      BY <1>1, FS_AddElement
<1>3. IsFiniteSet(sends') /\ Cardinality(sends') <= Cardinality(sends) + 1
      BY <1>1, <1>2
<1>4. Cardinality(sends) <= forgotten /\ forgotten \in Nat
      BY DEF Drains
<1>5. Cardinality(sends') \in Nat
      BY <1>3, FS_CardinalityType
<1> QED BY <1>1, <1>3, <1>4, <1>5 DEF Drains

\* A drain goes on with another frame, whether the flag still stands for it or not.
LEMMA DrainGoesOn ==
    ASSUME Drains, draining => draining', draining' \in BOOLEAN, UNCHANGED forgotten,
           NEW d \in sends, NEW e, sends' = (sends \ {d}) \union {e}
    PROVE  Drains' /\ Cardinality(sends') <= 1 + forgotten
<1> DEFINE rest == sends \ {d}
<1>1. /\ IsFiniteSet(rest) /\ Cardinality(rest) = Cardinality(sends) - 1
      /\ Cardinality(sends) \in Nat
      BY FS_RemoveElement, FS_CardinalityType DEF Drains
<1> HIDE DEF rest
<1>2. /\ IsFiniteSet(rest \union {e}) /\ Cardinality(rest) \in Nat
      /\ Cardinality(rest \union {e}) \in {Cardinality(rest), Cardinality(rest) + 1}
      BY <1>1, FS_AddElement, FS_CardinalityType
<1>3. sends' = rest \union {e}
      BY DEF rest
<1>4. /\ IsFiniteSet(sends') /\ Cardinality(sends') \in Nat
      /\ Cardinality(sends') <= Cardinality(sends)
  <2>1. /\ IsFiniteSet(sends')
        /\ Cardinality(sends') \in {Cardinality(rest), Cardinality(rest) + 1}
        BY <1>2, <1>3
  <2>2. Cardinality(sends') \in Nat
        BY <2>1, FS_CardinalityType
  <2> QED BY <1>1, <1>2, <2>1, <2>2
<1>5. /\ forgotten \in Nat
      /\ Cardinality(sends) <= forgotten + (IF draining THEN 1 ELSE 0)
      BY DEF Drains
<1> QED BY <1>1, <1>4, <1>5 DEF Drains

\* A drain ends and resets the flag, even if that stands for another one by now.
LEMMA DrainEnds ==
    ASSUME Drains, draining' = FALSE, UNCHANGED forgotten,
           NEW d \in sends, sends' = sends \ {d}
    PROVE  Drains'
<1>1. /\ IsFiniteSet(sends') /\ Cardinality(sends') = Cardinality(sends) - 1
      /\ Cardinality(sends) \in Nat
      BY FS_RemoveElement, FS_CardinalityType DEF Drains
<1>2. /\ forgotten \in Nat
      /\ Cardinality(sends) <= forgotten + (IF draining THEN 1 ELSE 0)
      BY DEF Drains
<1> QED BY <1>1, <1>2 DEF Drains

\* A frame goes to the queue of a connected peer, of which something is known.
LEMMA EnqueueInv ==
    ASSUME VideoInv, NEW f \in Video, Enqueue(f),
           f.key \/ state = "connected", state' = "connected", UNCHANGED <<peerNo, forgotten>>
    PROVE  /\ queued' \in Video /\ awaiting' \in BOOLEAN /\ draining' \in BOOLEAN
           /\ Drains' /\ Decodable
           /\ queued' # NoVideo => queued'.key \/ peerNo \in based'
           /\ ~awaiting' => queued'.key \/ peerNo \in based'
<1> DEFINE supersedes == queued # NoVideo /\ ~queued.key
           known == IF supersedes THEN based \ {peerNo} ELSE based
<1>1. VideoTypeOK /\ Drains /\ Based /\ NoVideo \in Video /\ ~NoVideo.key
      BY DEF VideoInv, NoVideo, Video
<1>2. ASSUME UNCHANGED <<draining, sends>> PROVE Drains' /\ Decodable
      BY <1>1, <1>2 DEF Drains, Decodable
<1>3. ASSUME ~draining, sends' = sends \union {Taken(f)}, draining' = TRUE,
             f.key \/ peerNo \in based
      PROVE  Drains' /\ Decodable
  <2>1. Drains' /\ Cardinality(sends') <= 1 + forgotten
        BY <1>1, <1>3, DrainStarts
  <2>2. \A d \in sends' \ sends : d.frame = f /\ d.peer = peerNo
        BY <1>3 DEF Taken
  <2> QED BY <1>3, <2>1, <2>2 DEF Decodable
<1>4. CASE f.key /\ awaiting' = FALSE /\ Queue(f, known)
  <2>1. CASE draining
    <3>1. queued' = f /\ UNCHANGED <<draining, sends>>
          BY <1>4, <2>1 DEF Queue
    <3> QED BY <1>1, <1>2, <1>4, <3>1 DEF VideoTypeOK
  <2>2. CASE ~draining
    <3>1. /\ sends' = sends \union {Taken(f)} /\ queued' = NoVideo /\ draining' = TRUE
          /\ peerNo \in based'
          BY <1>4, <2>2 DEF Queue, BasedBy
    <3> QED BY <1>1, <1>3, <1>4, <2>2, <3>1
  <2> QED BY <2>1, <2>2
<1>5. CASE ~f.key /\ ~awaiting /\ queued = NoVideo /\ Queue(f, known) /\ UNCHANGED awaiting
  <2>1. peerNo \in based /\ known = based
        BY <1>1, <1>5 DEF Based
  <2>2. CASE draining
    <3>1. queued' = f /\ based' = based /\ UNCHANGED <<draining, sends>>
          BY <1>5, <2>1, <2>2 DEF Queue
    <3> QED BY <1>1, <1>2, <1>5, <2>1, <3>1 DEF VideoTypeOK
  <2>3. CASE ~draining
    <3>1. /\ sends' = sends \union {Taken(f)} /\ queued' = NoVideo /\ draining' = TRUE
          /\ based' = based
          BY <1>5, <2>1, <2>3 DEF Queue, BasedBy
    <3> QED BY <1>1, <1>3, <1>5, <2>1, <2>3, <3>1 DEF VideoTypeOK
  <2> QED BY <2>2, <2>3
<1>6. CASE ~f.key /\ awaiting' = TRUE /\ queued' = NoVideo /\ UNCHANGED <<draining, sends>>
      BY <1>1, <1>2, <1>6 DEF VideoTypeOK
<1>7. CASE ~f.key /\ UNCHANGED <<awaiting, queued, draining, sends, based>>
      BY <1>1, <1>2, <1>7 DEF Based, VideoTypeOK
<1> QED BY <1>4, <1>5, <1>6, <1>7 DEF Enqueue

\* The loop of a drain goes once round: what is queued is sent in its turn, to the current
\* peer, whichever the drain started with.
LEMMA DrainInv ==
    ASSUME VideoInv, NEW d \in sends, SendSettles(d) \/ SendFails(d)
    PROVE  VideoInv' /\ Decodable
<1> DEFINE goesOn == state = "connected" /\ queued # NoVideo
<1>1. /\ VideoTypeOK /\ Drains /\ Based /\ NoVideo \in Video
      BY DEF VideoInv, NoVideo, Video
<1>2. /\ UNCHANGED <<peerNo, preconnect, awaiting, encoded, forgotten>>
      /\ state' \in {state, Over}
      BY DEF SendSettles, SendFails
<1>3. CASE goesOn
  <2>1. /\ sends' = (sends \ {d}) \union {Taken(queued)} /\ queued' = NoVideo
        /\ draining' \in BOOLEAN /\ (draining => draining')
        /\ based \subseteq based' /\ (queued.key => peerNo \in based')
        /\ queued.key \/ peerNo \in based
        BY <1>1, <1>3 DEF SendSettles, SendFails, BasedBy, Based, VideoTypeOK
  <2>2. Drains' /\ Cardinality(sends') <= 1 + forgotten
        BY <1>1, <1>2, <2>1, DrainGoesOn
  <2>3. \A e \in sends' \ sends : e.frame = queued /\ e.peer = peerNo
        BY <2>1 DEF Taken
  <2>4. Decodable
        BY <2>1, <2>2, <2>3 DEF Decodable
  <2>5. peerNo' \in based'
        BY <1>2, <2>1
  <2> QED BY <1>1, <1>2, <2>1, <2>2, <2>4, <2>5 DEF VideoInv, VideoTypeOK, Based
<1>4. CASE ~goesOn
  <2>1. sends' = sends \ {d} /\ draining' = FALSE /\ UNCHANGED <<queued, based>>
        BY <1>1, <1>4 DEF SendSettles, SendFails
  <2>2. Drains' /\ Decodable
        BY <1>1, <1>2, <2>1, DrainEnds DEF Decodable
  <2> QED BY <1>1, <1>2, <2>1, <2>2 DEF VideoInv, VideoTypeOK, Based, Over
<1> QED BY <1>3, <1>4

\* Every step of the runtime keeps the invariant, and begins only sends that can
\* be decoded.
LEMMA VideoStep ==
    ASSUME VideoInv, [VideoNext]_videoVars
    PROVE  VideoInv' /\ Decodable
<1>1. VideoTypeOK /\ Drains /\ Based /\ NoVideo \in Video /\ ~NoVideo.key
      BY DEF VideoInv, NoVideo, Video
<1>2. ASSUME NEW key \in BOOLEAN, HostFrame(key)  PROVE VideoInv' /\ Decodable
  <2> DEFINE f == [n |-> encoded + 1, key |-> key]
  <2>1. f \in Video /\ f.key = key /\ encoded' \in Nat /\ UNCHANGED <<state, peerNo, forgotten>>
        BY <1>1, <1>2 DEF Video, HostFrame, VideoTypeOK
  <2>2. CASE state = "connected" /\ Enqueue(f) /\ UNCHANGED preconnect
    <3> HIDE DEF f
    <3>1. /\ queued' \in Video /\ awaiting' \in BOOLEAN /\ draining' \in BOOLEAN
          /\ Drains' /\ Decodable
          /\ queued' # NoVideo => queued'.key \/ peerNo \in based'
          /\ ~awaiting' => queued'.key \/ peerNo \in based'
          BY <2>1, <2>2, EnqueueInv
    <3> QED BY <1>1, <2>1, <2>2, <3>1 DEF VideoInv, VideoTypeOK, Based
  <2>3. CASE /\ preconnect' = IF key THEN f ELSE preconnect
             /\ UNCHANGED <<queued, awaiting, draining, sends, based>>
        BY <1>1, <2>1, <2>3 DEF VideoInv, VideoTypeOK, Drains, Based, Decodable
  <2> QED BY <1>2, <2>2, <2>3 DEF HostFrame
<1>3. CASE Connected
  <2>1. /\ state = "connecting" /\ state' = "connected" /\ preconnect' = NoVideo
        /\ UNCHANGED <<peerNo, encoded, forgotten>>
        BY <1>3 DEF Connected
  <2>2. CASE preconnect # NoVideo /\ Enqueue(preconnect)
    <3>1. preconnect \in Video /\ preconnect.key
          BY <1>1, <2>2 DEF VideoTypeOK, Based
    <3>2. /\ queued' \in Video /\ awaiting' \in BOOLEAN /\ draining' \in BOOLEAN
          /\ Drains' /\ Decodable
          /\ queued' # NoVideo => queued'.key \/ peerNo \in based'
          /\ ~awaiting' => queued'.key \/ peerNo \in based'
          BY <2>1, <2>2, <3>1, EnqueueInv
    <3> QED BY <1>1, <2>1, <3>2 DEF VideoInv, VideoTypeOK, Based
  <2>3. CASE awaiting' = TRUE /\ UNCHANGED <<queued, draining, sends, based>>
        BY <1>1, <2>1, <2>3 DEF VideoInv, VideoTypeOK, Drains, Based, Decodable
  <2> QED BY <1>3, <2>2, <2>3 DEF Connected
<1>4. CASE Suspends
      BY <1>1, <1>4 DEF Suspends, VideoInv, VideoTypeOK, Drains, Based, Decodable
<1>5. CASE Resumes
  <2>1. /\ state' = "connecting" /\ peerNo' = peerNo + 1 /\ UNCHANGED <<sends, encoded>>
        /\ queued' = NoVideo /\ preconnect' = NoVideo /\ awaiting' = TRUE /\ draining' = FALSE
        /\ forgotten' = IF draining THEN forgotten + 1 ELSE forgotten
        BY <1>5 DEF Resumes
  <2>2. VideoTypeOK'
    <3>1. peerNo' \in Nat /\ encoded' \in Nat /\ queued' \in Video /\ preconnect' \in Video
          BY <1>1, <2>1 DEF VideoTypeOK
    <3>2. awaiting' \in BOOLEAN /\ draining' \in BOOLEAN
          BY <2>1
    <3> QED BY <2>1, <3>1, <3>2 DEF VideoTypeOK
  <2>3. Drains'
        BY <1>1, <2>1 DEF Drains
  <2>4. Based' /\ Decodable
        BY <2>1 DEF Based, Decodable
  <2> QED BY <2>2, <2>3, <2>4 DEF VideoInv
<1>6. CASE Ends
      BY <1>1, <1>6 DEF Ends, queueVars, VideoInv, VideoTypeOK, Drains, Based, Decodable, Over
<1>7. CASE UNCHANGED videoVars
      BY <1>1, <1>7 DEF videoVars, queueVars, VideoInv, VideoTypeOK, Drains, Based, Decodable
<1> QED BY <1>2, <1>3, <1>4, <1>5, <1>6, <1>7, DrainInv DEF VideoNext

\* What a peer is sent can be decoded: no dependent frame without the key frame it builds
\* on, and one frame at a time but for the drains that resumes forgot, over drops, failed
\* sends and changes of peer.
THEOREM PeersDecode == VideoSpec => FramesDecode
<1>1. VideoInit => VideoInv
  <2> SUFFICES ASSUME VideoInit PROVE VideoInv
      OBVIOUS
  <2>1. /\ state = "connecting" /\ queued = NoVideo /\ preconnect = NoVideo
        /\ sends = {} /\ draining = FALSE /\ forgotten = 0 /\ NoVideo \in Video
        BY DEF VideoInit, NoVideo, Video
  <2>2. VideoTypeOK
        BY <2>1 DEF VideoInit, VideoTypeOK
  <2>3. Drains
        BY <2>1, FS_EmptySet DEF Drains
  <2> QED BY <2>1, <2>2, <2>3 DEF VideoInv, Based
<1>2. VideoInv /\ [VideoNext]_videoVars => VideoInv'
      BY VideoStep
<1>3. VideoInv /\ [VideoNext]_videoVars =>
          [\A d \in sends' \ sends : /\ d.frame.key \/ d.peer \in based
                                     /\ Cardinality(sends') <= 1 + forgotten]_videoVars
      BY VideoStep DEF Decodable
<1> QED BY <1>1, <1>2, <1>3, PTL DEF VideoSpec, FramesDecode
================================================================================
