------------------------ MODULE MCCredentialSafeHandoff ------------------------
(* Instance of CredentialSafeHandoff for TLC: two interventions, so that an  *)
(* id can be stale, epochs for a Human round after verification, two         *)
(* principals, and three calls of the surface, one of which can wait for a   *)
(* surface already gone.                                                     *)
EXTENDS CredentialSafeHandoff

MCMaxEpoch == 4
MCMaxIssued == 2
MCMaxTasks == 3
MCMaxSessions == 2
MCOwners == [id: 1..MCMaxIssued, epoch: 1..MCMaxEpoch, principal: {1, 2}]
================================================================================
