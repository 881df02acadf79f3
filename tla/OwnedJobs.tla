----------------------------- MODULE OwnedJobs -----------------------------
(***************************************************************************)
(* The table of jobs an agent coordinates for its Erlang scheduler:        *)
(* owned_jobs.c.  The table T is a function whose domain is the set of     *)
(* jobs it holds.  The flag is_granted of petition i is 1 exactly when i   *)
(* is in the job's set `granted`; petitions are numbered from 1, so        *)
(* next_reserve_idx is the number of the petition dispatched last.         *)
(***************************************************************************)
EXTENDS Integers, FiniteSets, Sequences

CONSTANTS
    JobId,              \* identifiers made by the local scheduler
    Node,               \* agents of the cluster, each an ip:port
    resource_t,         \* hardware types
    Client,             \* sockets of Erlang schedulers
    MAX_JOB_RESOURCES   \* petitions a job can hold (50)

ASSUME OwnedJobsAssumption == MAX_JOB_RESOURCES \in Nat \ {0}

Petition == [node : Node, type : resource_t]

OwnedJob == [owner_socket     : Client,
             grant_notified   : BOOLEAN,
             petitions        : Seq(Petition),
             next_reserve_idx : Nat,
             granted          : SUBSET Nat]

(* Mutation: petition_count > MAX_JOB_RESOURCES, one past the array. *)
Recorded_OffByOne(list) ==
    IF Len(list) <= MAX_JOB_RESOURCES + 1 THEN list
    ELSE SubSeq(list, 1, MAX_JOB_RESOURCES + 1)

(* append_petition_to_job, for each petition of the request in turn: those *)
(* past the end of the array are not recorded.                             *)
Recorded(list) ==
    IF Len(list) <= MAX_JOB_RESOURCES THEN list
    ELSE SubSeq(list, 1, MAX_JOB_RESOURCES)

(* add_new_owned_job followed by the petitions of the request; an entry    *)
(* with the same job_id is overwritten.                                    *)
add_new_owned_job(T, j, c, list) ==
    [k \in DOMAIN T \cup {j} |->
        IF k = j THEN [owner_socket     |-> c,
                       grant_notified   |-> FALSE,
                       petitions        |-> Recorded(list),
                       next_reserve_idx |-> 0,
                       granted          |-> {}]
        ELSE T[k]]

(* remove_owned_job, for each job of X. *)
remove_owned_job(T, X) == [k \in DOMAIN T \ X |-> T[k]]

----------------------------------------------------------------------------
(* get_next_reserve: whether there is a petition to dispatch, and the      *)
(* table afterwards.                                                       *)
HasNext(job) == job.next_reserve_idx < Len(job.petitions)

get_next_reserve(T, j) == [T EXCEPT ![j].next_reserve_idx = @ + 1]

(* mark_petition_as_granted does not return -1: the answer comes from the  *)
(* node of the petition dispatched last, and that petition is not granted. *)
Expected(T, j, n) ==
    /\ j \in DOMAIN T
    /\ T[j].next_reserve_idx # 0
    /\ T[j].petitions[T[j].next_reserve_idx].node = n
    /\ T[j].next_reserve_idx \notin T[j].granted

(* Mutation: the loop over the petitions stops one short. *)
AllGranted_OffByOne(job, granted) ==
    1 .. (Len(job.petitions) - 1) \subseteq granted

AllGranted(job, granted) == 1 .. Len(job.petitions) \subseteq granted

(* The granted flag, and grant_notified when it was the last one missing.  *)
mark_petition_as_granted(T, j) ==
    LET job == T[j]
        g   == job.granted \cup {job.next_reserve_idx}
    IN  [T EXCEPT ![j] = [job EXCEPT
            !.granted = g,
            !.grant_notified = @ \/ AllGranted(job, g)]]

(* Mutation: the petition dispatched last is taken for unanswered. *)
get_granted_resources_OffByOne(job) ==
    {i \in 1 .. (job.next_reserve_idx - 1) : i \in job.granted}

(* get_granted_resources: the petitions a rollback gives back. *)
get_granted_resources(job) ==
    {i \in 1 .. job.next_reserve_idx : i \in job.granted}

----------------------------------------------------------------------------
(* The visitors over the table.  Each fills an array of max entries in the *)
(* order of the hash table.                                                *)
Collected(S, max) ==
    {X \in SUBSET S :
        Cardinality(X) = IF Cardinality(S) <= max THEN Cardinality(S) ELSE max}

(* Mutation: only the petition that waits for an answer is looked at. *)
AffectedBy_WaitingOnly(T, n) ==
    {j \in DOMAIN T :
        \E i \in 1 .. Len(T[j].petitions) :
            T[j].petitions[i].node = n /\ i \notin T[j].granted}

(* check_job_for_dead_node *)
AffectedBy(T, n) ==
    {j \in DOMAIN T :
        \E i \in 1 .. Len(T[j].petitions) : T[j].petitions[i].node = n}

(* Mutation: a fully granted job times out too. *)
MayTimeOut_Granted(T) == DOMAIN T

(* Mutation: only a job with a RESERVE outstanding times out. *)
MayTimeOut_Dispatched(T) ==
    {j \in DOMAIN T : ~T[j].grant_notified /\ T[j].next_reserve_idx > 0}

(* check_timeout_job: a fully granted job cannot time out.  The age of a   *)
(* job is not kept: any job may have waited longer than JOB_TIMEOUT.       *)
MayTimeOut(T) == {j \in DOMAIN T : ~T[j].grant_notified}

(* check_orphaned_jobs *)
OrphansOf(T, c) == {j \in DOMAIN T : T[j].owner_socket = c}
=============================================================================
