---------------------------- MODULE MCScheduler ----------------------------
EXTENDS Scheduler

(* Numbers are decimal, and a cut takes the last digit off. *)
MCPrefix == [j \in JobId |-> {p \in JobId : p = j \div 10}]
=============================================================================
