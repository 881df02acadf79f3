---------------------------- MODULE MCEventLoop ----------------------------
(* EventLoop for TLC. *)
EXTENDS EventLoop

CONSTANTS w1, w2, f1, f2, p1
=============================================================================
