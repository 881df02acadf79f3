----------------------------- MODULE Allocator -----------------------------
(***************************************************************************)
(* What the cluster promises the schedulers: a job that starts has all it  *)
(* asked for to itself until it finishes, each job runs once, and the jobs *)
(* that run together never need more than the machines have.               *)
(***************************************************************************)
EXTENDS Integers, FiniteSets

CONSTANTS
    JobId,
    Node,
    resource_t,
    Total,      \* units of each type at every node
    Need        \* Need[j][n][t]: the units of type t at n that job j uses

VARIABLES
    running,    \* jobs that have been told they may run
    finished    \* jobs that have given everything back

(* The units of type t at node n that the jobs of S use, each as a pair of *)
(* its job and an ordinal.                                                 *)
UnitsUsed(S, n, t) == {u \in S \X (1 .. Total[t]) : u[2] <= Need[u[1]][n][t]}

FitTogether(S) ==
    \A n \in Node, t \in resource_t :
        Cardinality(UnitsUsed(S, n, t)) <= Total[t]

Init == running = {} /\ finished = {}

Start(j) ==
    /\ j \in JobId \ (running \cup finished)
    /\ FitTogether(running \cup {j})
    /\ running' = running \cup {j}
    /\ UNCHANGED finished

Finish(j) ==
    /\ j \in running
    /\ running' = running \ {j}
    /\ finished' = finished \cup {j}

Next == \E j \in JobId : Start(j) \/ Finish(j)

Spec == Init /\ [][Next]_<<running, finished>>
=============================================================================
