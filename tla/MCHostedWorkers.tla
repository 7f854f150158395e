---------------------------- MODULE MCHostedWorkers ----------------------------
(***************************************************************************)
(* One intervention with two Human rounds, two channel objects of one      *)
(* connection and its successor, two calls at a time.  What follows a bind *)
(* that overtook a revocation is explored with one channel object.         *)
(***************************************************************************)
EXTENDS HostedWorkers
MCMaxEpoch == 3
MCMaxIssued == 1
MCMaxChannels == 2
MCMaxViewers == 2
MCBound == rebound => Len(channels) = 1
MCSymmetry == Permutations(Tasks)
================================================================================
