-------------------------- MODULE MCWebSocketTakeover --------------------------
(* Two epochs; what is large in one behaviour is small in another. *)
EXTENDS WebSocketTakeover

MCEpochs == {1, 2}
B(s, c, m, f, t) == [sessions |-> s, conns |-> c, messages |-> m, frames |-> f, trouble |-> t]
MCBounds ==
    {B(2, 2, 1, FALSE, FALSE), B(1, 2, 2, FALSE, FALSE), B(1, 2, 1, FALSE, TRUE),
     B(1, 2, 1, TRUE, FALSE), B(1, 1, 1, TRUE, TRUE)}
================================================================================
