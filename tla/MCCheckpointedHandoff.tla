------------------------ MODULE MCCheckpointedHandoff ------------------------
(***************************************************************************)
(* Two interventions, so that an older checkpoint can come back in the     *)
(* place of a newer one, and epochs enough for a Human round and a cancel. *)
(***************************************************************************)
EXTENDS CheckpointedHandoff
MCMaxIssued == 2
MCMaxEpoch == 3
================================================================================
