----------------------------- MODULE MCFramePaths -----------------------------
(***************************************************************************)
(* The two frame paths of the system, the bridge of a hosted surface and   *)
(* the video of a WebRTC runtime: one of them in use, the other closed.    *)
(* Four hosted frames: one in flight, one pending, one that replaces it    *)
(* and one published after the buffer emptied.  Six frames of video over   *)
(* the peers before and after a suspend.                                   *)
(***************************************************************************)
EXTENDS LatestFrameBridge, VideoPath
MCMaxFrames == 4
MCMaxVideo == 6
MCMaxPeers == 3
PathsInit ==
    \/ Init /\ VideoClosed
    \/ VideoInit /\ closed = TRUE /\ stale = FALSE /\ peer = "ready" /\ inFlight = None /\ pending = None
       /\ published = 0 /\ sent = <<>>
PathsNext ==
    \/ Next /\ UNCHANGED videoVars
    \/ VideoNext /\ UNCHANGED vars
PathsSpec == PathsInit /\ [][PathsNext]_<<vars, videoVars>> /\ Fairness
================================================================================
