---------------------------- MODULE MCTablaHash ----------------------------
EXTENDS TablaHash, TLC

CONSTANTS k1, k2, k3, k4, k5

(* Four keys start in the last slot of the first table; two pairs of them  *)
(* collide after it has grown, and none after it has grown twice.  The     *)
(* clusters wrap around the end of the array.                              *)
MCHash == k1 :> 2 @@ k2 :> 5 @@ k3 :> 8 @@ k4 :> 3 @@ k5 :> 11
=============================================================================
