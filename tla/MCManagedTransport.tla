--------------------------- MODULE MCManagedTransport --------------------------
(* Instance of ManagedTransport for TLC: a plan of three transports, and    *)
(* three calls, so that a revoke can meet two fallbacks at any point.       *)
EXTENDS ManagedTransport

MCTransports == 3
MCMaxCalls == 3
NoFaults == {}
================================================================================
