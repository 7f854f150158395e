-------------------------- MODULE MCTerminalTransport --------------------------
(* Instance of TerminalTransport for TLC: two interventions, so that one    *)
(* follows the writes, the teardown and the late preparation of another,   *)
(* and a queue of two.                                                     *)
EXTENDS TerminalTransport

MCMaxEpoch == 5
MCMaxIssued == 2
MCMaxQueue == 2
MCMaxWrites == 1
================================================================================
