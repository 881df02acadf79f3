------------------------------ MODULE Cluster ------------------------------
(***************************************************************************)
(* The agents of a cluster together: each is the client of the jobs its    *)
(* scheduler gives it (the table of OwnedJobs) and the server of its own   *)
(* machine (the inventory of LocalResource), and they talk to each other   *)
(* and to themselves over one connection for each direction.  The          *)
(* schedulers are reduced to the order in which they put the petitions of  *)
(* a job and to the JOB_RELEASE they send when it has run.                 *)
(*                                                                         *)
(* Nothing fails here and no job times out: the question is whether the    *)
(* agents, left alone, share the machines without overlapping and without  *)
(* waiting for each other for ever.  Messages may overtake each other (see *)
(* JobCoordinator), so those in flight are a set.                          *)
(***************************************************************************)
EXTENDS Integers, FiniteSets, SequencesExt

CONSTANTS
    Node,               \* agents
    JobId,              \* jobs of all the schedulers
    Home,               \* the agent whose scheduler made each job
    resource_t,         \* hardware types
    Total,              \* units of each type at every node
    Need,               \* Need[j][n][t]: what job j asks for
    NodeOrder,          \* the position of each {Ip, Port} in Erlang's order
    resource_order,     \* resource_order/1 of job_scheduler.erl
    MAX_JOB_RESOURCES,  \* petitions a job can hold (50)
    MaxSweep            \* entries one sweep of a socket takes (100)

ASSUME ClusterAssumption ==
    /\ IsFiniteSet(Node) /\ IsFiniteSet(resource_t)
    /\ Home \in [JobId -> Node]
    /\ Total \in [resource_t -> Nat]
    /\ Need \in [JobId -> [Node -> [resource_t -> Nat]]]
    /\ \A j \in JobId, n \in Node, t \in resource_t : Need[j][n][t] <= Total[t]
    /\ MAX_JOB_RESOURCES \in Nat \ {0}
    /\ Cardinality(Node) * Cardinality(resource_t) <= MAX_JOB_RESOURCES
    /\ MaxSweep \in Nat \ {0}
    /\ NodeOrder \in [Node -> Nat]
    /\ resource_order \in [resource_t -> Nat]
    /\ \A m, n \in Node : NodeOrder[m] = NodeOrder[n] => m = n
    /\ \A s, t \in resource_t : resource_order[s] = resource_order[t] => s = t

VARIABLES
    owned,      \* owned[a]: the table of jobs agent a coordinates
    res,        \* res[n]: the inventory of agent n
    waking,     \* agents in the loop of handle_release, lock_local held
    net,        \* messages between agents
    running,    \* jobs whose scheduler has received JOB_GRANTED
    finished    \* jobs whose scheduler has sent JOB_RELEASE

vars == <<owned, res, waking, net, running, finished>>

Srv == INSTANCE LocalResource WITH Socket <- Node
Own == INSTANCE OwnedJobs WITH Client <- Node

(* A message of job j between its home, the client, and the server n. *)
Message == [kind : {"RESERVE", "GRANTED", "RELEASE"}, job : JobId,
            node : Node, type : resource_t]

Msg(kind, j, p) == [kind |-> kind, job |-> j, node |-> p.node, type |-> p.type]

----------------------------------------------------------------------------
(* generate_job_request: what the job asks for, in the order of            *)
(* (Ip, Port, resource_order).                                             *)

Petitions(j) ==
    {p \in [node : Node, type : resource_t] : Need[j][p.node][p.type] > 0}

(* Mutation: ENV=TEST, the petitions are left in the order they were made. *)
Sorted_Test(list) == TRUE

Earlier(p, q) ==
    \/ NodeOrder[p.node] < NodeOrder[q.node]
    \/ /\ p.node = q.node
       /\ resource_order[p.type] < resource_order[q.type]

Sorted(list) ==
    \A i, k \in DOMAIN list : i < k => Earlier(list[i], list[k])

JobRequests(j) == {list \in SetToSeqs(Petitions(j)) : Sorted(list)}

----------------------------------------------------------------------------
Init ==
    /\ owned = [a \in Node |-> << >>]
    /\ res = [n \in Node |-> Srv!create_local_resource]
    /\ waking = {}
    /\ net = {} /\ running = {} /\ finished = {}

Asked(j) == j \in DOMAIN owned[Home[j]] \/ j \in finished

(* handle_job_request with the RESERVE of its first petition. *)
handle_job_request(j) ==
    LET a == Home[j]
    IN  /\ ~Asked(j)
        /\ \E list \in JobRequests(j) :
              LET T == Own!add_new_owned_job(owned[a], j, a, list)
              IN  /\ Own!HasNext(T[j])
                  /\ owned' = [owned EXCEPT ![a] = Own!get_next_reserve(T, j)]
                  /\ net' = net \cup {Msg("RESERVE", j, list[1])}
        /\ UNCHANGED <<res, waking, running, finished>>

(* handle_job_request of a job whose nodes had nothing to offer: it is     *)
(* recorded and get_next_reserve finds no petition.  Nothing is sent for   *)
(* it, and only its timeout, which is left out here, would end it.         *)
handle_empty_job_request(j) ==
    LET a == Home[j]
    IN  /\ ~Asked(j)
        /\ \E list \in JobRequests(j) :
              LET T == Own!add_new_owned_job(owned[a], j, a, list)
              IN  /\ ~Own!HasNext(T[j])
                  /\ owned' = [owned EXCEPT ![a] = T]
        /\ UNCHANGED <<res, waking, net, running, finished>>

Request(m) ==
    [job_id |-> m.job, socket |-> Home[m.job], resource_type |-> m.type,
     resource_quantity |-> Need[m.job][m.node][m.type]]

(* Mutation: the request is granted whatever is free. *)
Admits_Always(r, e) == TRUE

(* new_job_request: a request no larger than what is free is granted. *)
Admits(r, e) == Srv!Fits(r, e)

(* handle_reserve: granted at once, or queued. *)
handle_reserve(m) ==
    LET n == m.node
        e == Request(m)
    IN  /\ m.kind = "RESERVE"
        /\ n \notin waking
        /\ \/ /\ Admits(res[n], e)
              /\ res' = [res EXCEPT ![n] = Srv!Grant(@, e)]
              /\ net' = (net \ {m}) \cup {Msg("GRANTED", m.job, m)}
           \/ /\ ~Admits(res[n], e)
              /\ res' = [res EXCEPT ![n] = Srv!Enqueue(@, e)]
              /\ net' = net \ {m}
        /\ UNCHANGED <<owned, waking, running, finished>>

(* Mutation: the RESERVE of the petition after next is sent along. *)
NextReserves_Two(job) ==
    {i \in DOMAIN job.petitions :
        i \in (job.next_reserve_idx + 1) .. (job.next_reserve_idx + 2)}

(* The petitions a GRANTED makes handle_granted send a RESERVE for. *)
NextReserves(job) ==
    {i \in DOMAIN job.petitions : i = job.next_reserve_idx + 1}

(* handle_granted: JOB_GRANTED, or the RESERVE of the next petition.  That *)
(* an answer is never one nobody waits for is AnswersExpected.             *)
handle_granted(m) ==
    LET j == m.job
        a == Home[j]
        T == Own!mark_petition_as_granted(owned[a], j)
    IN  /\ m.kind = "GRANTED"
        /\ Own!Expected(owned[a], j, m.node)
        /\ \/ /\ T[j].grant_notified
              /\ owned' = [owned EXCEPT ![a] = T]
              /\ running' = running \cup {j}
              /\ net' = net \ {m}
           \/ /\ ~T[j].grant_notified
              /\ Own!HasNext(T[j])
              /\ owned' = [owned EXCEPT ![a] = Own!get_next_reserve(T, j)]
              /\ net' = (net \ {m}) \cup
                    {Msg("RESERVE", j, T[j].petitions[i]) :
                        i \in NextReserves(T[j])}
              /\ UNCHANGED running
        /\ UNCHANGED <<res, waking, finished>>

(* handle_job_release: a RELEASE for each petition, each to its node. *)
handle_job_release(j) ==
    LET a   == Home[j]
        job == owned[a][j]
    IN  /\ j \in running
        /\ net' = net \cup {Msg("RELEASE", j, job.petitions[i]) :
                               i \in Own!get_granted_resources(job)}
        /\ owned' = [owned EXCEPT ![a] = Own!remove_owned_job(@, {j})]
        /\ running' = running \ {j}
        /\ finished' = finished \cup {j}
        /\ UNCHANGED <<res, waking>>

(* handle_release up to its loop: everything the job holds here returns. *)
handle_release(m) ==
    LET n == m.node
    IN  /\ m.kind = "RELEASE"
        /\ n \notin waking
        /\ res' = [res EXCEPT ![n] = Srv!del_active_job(@, m.job, Home[m.job])]
        /\ waking' = waking \cup {n}
        /\ net' = net \ {m}
        /\ UNCHANGED <<owned, running, finished>>

(* One turn of the loop: a waiting request that fits now is granted. *)
serve_queued(n, t) ==
    LET q == res[n].request_queue[t]
    IN  /\ n \in waking
        /\ \E i \in DOMAIN q, d \in DOMAIN q :
              /\ Srv!IsFirstFit(res[n], t, i)
              /\ Srv!IsFirstMatch(q, q[i], d)
              /\ res' = [res EXCEPT ![n] = Srv!chk_job_request(@, t, i, d)]
              /\ net' = net \cup
                    {Msg("GRANTED", q[i].job_id, [node |-> n, type |-> t])}
        /\ UNCHANGED <<owned, waking, running, finished>>

(* Mutation: the loop of handle_release is left out. *)
LoopEnds_AtOnce(r) == TRUE

(* chk_job_request has returned -1. *)
LoopEnds(r) == Srv!NothingFits(r)

release_done(n) ==
    /\ n \in waking
    /\ LoopEnds(res[n])
    /\ waking' = waking \ {n}
    /\ UNCHANGED <<owned, res, net, running, finished>>

Next ==
    \/ \E j \in JobId : \/ handle_job_request(j)
                         \/ handle_empty_job_request(j)
                         \/ handle_job_release(j)
    \/ \E m \in net :
          handle_reserve(m) \/ handle_granted(m) \/ handle_release(m)
    \/ \E n \in Node :
          \/ \E t \in resource_t : serve_queued(n, t)
          \/ release_done(n)

Spec == Init /\ [][Next]_vars

(* Fairness: a message in flight is received and its handler runs, a       *)
(* handler that holds lock_local goes on, and a job that runs ends         *)
(* (simulate_load sleeps for a bounded time).                              *)
LiveSpec ==
    /\ Spec
    /\ \A j \in JobId : WF_vars(handle_job_release(j))
    /\ \A m \in Message :
          WF_vars(m \in net /\ (handle_reserve(m) \/ handle_granted(m)
                                \/ handle_release(m)))
    /\ \A n \in Node :
          WF_vars((\E t \in resource_t : serve_queued(n, t)) \/ release_done(n))

----------------------------------------------------------------------------
(* Type correctness: the inventories hold servable requests only, and the  *)
(* jobs of an agent's table are its scheduler's.                           *)
TypeOK ==
    /\ \A a \in Node : \A j \in DOMAIN owned[a] :
          Home[j] = a /\ owned[a][j] \in Own!OwnedJob
    /\ res \in [Node -> Srv!Inventory]
    /\ waking \subseteq Node
    /\ net \subseteq Message
    /\ running \subseteq JobId /\ finished \subseteq JobId

(* Job j waits at node n for units of type t that job k holds there. *)
WaitsFor(j, k) ==
    \E n \in Node, t \in resource_t :
        /\ \E i \in DOMAIN res[n].request_queue[t] :
              res[n].request_queue[t][i].job_id = j
        /\ \E e \in res[n].active : e.job_id = k /\ e.resource_type = t

(* No circular wait: in every set of jobs there is one that waits for none *)
(* of the others.  Every agent and every server takes part; the only thing *)
(* that prevents a cycle is that generate_job_request sorts the petitions  *)
(* and the client reserves one at a time.                                  *)
NoCircularWait ==
    \A S \in (SUBSET JobId) \ {{}} :
        \E j \in S : \A k \in S : ~WaitsFor(j, k)

(* Nothing held is forgotten: what a server holds for a job is a petition  *)
(* the job's home has dispatched and still counts on, or a RELEASE of that *)
(* job is on its way to that server.                                       *)
HeldIsAccountedFor ==
    \A n \in Node : \A e \in res[n].active :
        LET j == e.job_id
            T == owned[Home[j]]
        IN  \/ /\ j \in DOMAIN T
               /\ \E i \in 1 .. T[j].next_reserve_idx :
                     T[j].petitions[i] = [node |-> n, type |-> e.resource_type]
            \/ \E m \in net :
                  m.kind = "RELEASE" /\ m.job = j /\ m.node = n

(* A GRANTED on its way is the answer its client waits for: it comes from  *)
(* the node of the petition dispatched last, which is not granted yet.     *)
(* GRANTED names no resource, so an unexpected one would be ignored and    *)
(* what it stands for held for nobody, or be taken for another's.          *)
AnswersExpected ==
    \A m \in net :
        m.kind = "GRANTED" => Own!Expected(owned[Home[m.job]], m.job, m.node)

Alloc == INSTANCE Allocator

(* The agents together implement the allocator: JOB_GRANTED is given to a  *)
(* job only when everything it asked for fits beside all the jobs that run *)
(* in the cluster, and each job runs once.                                 *)
ImplementsAllocator == Alloc!Spec

(* Every job that asks for something is granted and finishes: no deadlock, *)
(* no lost wake-up, no request left behind in a queue.                     *)
EveryJobFinishes ==
    \A j \in {k \in JobId : Petitions(k) # {}} : Asked(j) ~> j \in finished
=============================================================================
