-------------------------- MODULE MCJobCoordinator --------------------------
(***************************************************************************)
(* JobCoordinator for TLC: two nodes, a job that needs both, and a job     *)
(* that needs one of them for two types and has one petition too many.     *)
(***************************************************************************)
EXTENDS JobCoordinator

CONSTANT erl

CONSTANTS j1, j2, n1, n2, cpu, mem

P(n, t) == [node |-> n, type |-> t]

MCPetitionsOf ==
    [j \in JobId |->
        CASE j = j1 -> <<P(n1, cpu), P(n2, cpu)>>
          [] j = j2 -> <<P(n2, cpu), P(n2, mem), P(n1, mem)>>]
=============================================================================
