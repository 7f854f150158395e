--------------------------- MODULE MCTakeoverBroker ---------------------------
(***************************************************************************)
(* Two sessions of an intervention over two epochs, six deployments.  With *)
(* seven calls a start fails, another is suspended, and a third client     *)
(* prepares; six let two native claims spawn over each other.              *)
(***************************************************************************)
EXTENDS WindowHandoff
MCEpochs == 1..2
MCMaxSessions == 2
MCMaxGen == 3
MCMaxHosts == 3
MCDeployments ==
    {[kind |-> "legacy", preserve |-> FALSE, turn |-> FALSE, ends |-> FALSE,
      sessions |-> 2, hosts |-> 2, calls |-> 5],
     [kind |-> "webrtc", preserve |-> FALSE, turn |-> FALSE, ends |-> TRUE,
      sessions |-> 2, hosts |-> 2, calls |-> 4],
     [kind |-> "webrtc", preserve |-> FALSE, turn |-> FALSE, ends |-> TRUE,
      sessions |-> 1, hosts |-> 2, calls |-> 5],
     [kind |-> "webrtc", preserve |-> TRUE, turn |-> FALSE, ends |-> TRUE,
      sessions |-> 1, hosts |-> 2, calls |-> 7],
     [kind |-> "webrtc", preserve |-> TRUE, turn |-> TRUE, ends |-> TRUE,
      sessions |-> 2, hosts |-> 2, calls |-> 4],
     [kind |-> "native", preserve |-> FALSE, turn |-> FALSE, ends |-> FALSE,
      sessions |-> 2, hosts |-> 3, calls |-> 6]}
MCSymmetry == Permutations(Tasks)
================================================================================
