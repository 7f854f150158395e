---------------------------- MODULE MCWindowSurface ----------------------------
(* Two windows share a surface; what is large in one behaviour is small in another. *)
EXTENDS WindowSurface

CONSTANTS w1, w2
MCTargets == {w1, w2}
B(p, n, ts, f, c) == [platform |-> p, calls |-> n, targets |-> ts, faults |-> f, changes |-> c]
MCBounds ==
    {B("linux", 2, {w1}, 1, 1), B("linux", 2, {w1, w2}, 0, 0),
     B("macos", 3, {w1}, 0, 1), B("macos", 2, {w1, w2}, 1, 0),
     B("successor", 2, {w1}, 1, 1)}
================================================================================
