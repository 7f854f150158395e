------------------------------ MODULE MCWindowHost ------------------------------
(* What is large in one behaviour is small in another. *)
EXTENDS WindowHost

B(i, r, f, c) == [inputs |-> i, refreshes |-> r, faults |-> f, changes |-> c]
MCKinds == InputKinds
MCBounds == {B(3, 0, 0, 0), B(2, 0, 1, 1), B(1, 0, 2, 1), B(1, 0, 0, 2), B(0, 2, 2, 0), B(1, 1, 1, 0)}
================================================================================
