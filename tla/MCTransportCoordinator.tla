------------------------- MODULE MCTransportCoordinator ------------------------
(* Instance of TransportCoordinator for TLC: the longest plan the policy    *)
(* allows, and enough calls for two fallbacks of one page and a revoke       *)
(* to be queued together.                                                   *)
EXTENDS TransportCoordinator

MCTransports == 3
MCMaxCalls == 3
NoFaults == {}
BlankLocators == {"blank_locator"}
================================================================================
