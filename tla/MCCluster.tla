----------------------------- MODULE MCCluster -----------------------------
EXTENDS Cluster, TLC

CONSTANTS n1, n2, cpu, gpu, j1, j2, j3, j4, j5

MCTotal == cpu :> 2 @@ gpu :> 1
MCNodeOrder == n1 :> 1 @@ n2 :> 2
MCResourceOrder == cpu :> 1 @@ gpu :> 3

Uses(c1, g1, c2, g2) == n1 :> (cpu :> c1 @@ gpu :> g1) @@
                        n2 :> (cpu :> c2 @@ gpu :> g2)

(* The example of the report (the cpu of one node and the gpu of the       *)
(* other), jobs that need two types of one machine, a job that takes a     *)
(* whole machine's cpu, small ones that overtake it in the queue, and one  *)
(* that found nothing to ask for.                                          *)
MCNeed == j1 :> Uses(2, 0, 0, 1) @@ j2 :> Uses(1, 1, 0, 1)
          @@ j3 :> Uses(1, 0, 1, 1) @@ j4 :> Uses(0, 1, 2, 0)
          @@ j5 :> Uses(0, 0, 0, 0)
MCHome == j1 :> n1 @@ j2 :> n2 @@ j3 :> n1 @@ j4 :> n2 @@ j5 :> n1
=============================================================================
