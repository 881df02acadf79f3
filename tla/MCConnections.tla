--------------------------- MODULE MCConnections ---------------------------
EXTENDS Connections, TLC

CONSTANTS n1, j1, j2

MCTarget == j1 :> n1 @@ j2 :> n1
=============================================================================
