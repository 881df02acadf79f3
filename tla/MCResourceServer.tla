-------------------------- MODULE MCResourceServer --------------------------
(***************************************************************************)
(* ResourceServer for TLC: a machine with three units of one type and one  *)
(* of the other, two peers and two job numbers.                            *)
(***************************************************************************)
EXTENDS ResourceServer

CONSTANTS cpu, gpu, a, b, j1, j2

MCTotal == [t \in resource_t |-> IF t = cpu THEN 3 ELSE 1]
=============================================================================
