--------------------------- MODULE JobCoordinator ---------------------------
(***************************************************************************)
(* One agent in its role of client: the handlers of resource_adapter.c     *)
(* that take lock_owned, over the table of OwnedJobs, with the servers and *)
(* the network it talks to.                                                *)
(*                                                                         *)
(* Each handler is one step, for it holds lock_owned throughout, except    *)
(* handle_job_request, which gives the lock back before it looks the job   *)
(* up again; its three parts are three steps.  A handler's outbox is sent  *)
(* after the lock is released, by a worker that may be delayed for as long *)
(* as the others run, so messages of different handlers overtake each      *)
(* other and the network is a set of messages in flight.                   *)
(*                                                                         *)
(* The servers are reduced to what their answers can be: a RESERVE is      *)
(* granted, queued (and perhaps granted later) or denied, a RELEASE frees  *)
(* what the job holds there, and a broken connection is swept.  A          *)
(* connection to node n has a number; the next one has the next number.    *)
(***************************************************************************)
EXTENDS OwnedJobs

CONSTANTS
    PetitionsOf,    \* the petitions of each job's JOB_REQUEST, in order
    MAX_OUTBOX,     \* capacity of one handler's outbox (128)
    MAX_AFFECTED,   \* jobs one dead node, or one timeout pass, rolls back (20)
    MAX_ORPHANS,    \* jobs rolled back for one dead scheduler (50)
    MaxConn,        \* bound: connections opened to one node
    Faults          \* the failures that may happen

ASSUME JobCoordinatorAssumption ==
    /\ PetitionsOf \in [JobId -> Seq(Petition)]
    /\ MAX_OUTBOX \in Nat /\ MAX_AFFECTED \in Nat /\ MAX_ORPHANS \in Nat
    /\ MaxConn \in Nat
    /\ Faults \subseteq {"timeout", "scheduler", "link", "silence", "race"}

VARIABLES
    owned,      \* NODE->owned_jobs
    asked,      \* jobs whose JOB_REQUEST has been sent
    alive,      \* schedulers that are connected
    registered, \* jobs whose handle_job_request has released lock_owned
    copying,    \* ... and holds a pointer into the job's first petition
    answers,    \* per job, how often each answer was put in an outbox
    finished,   \* jobs whose scheduler has sent JOB_RELEASE
    net,        \* messages in flight between this agent and the servers
    waiting,    \* our requests in the queues of the servers
    held,       \* our reservations in the active tables of the servers
    acked,      \* history: reservations whose GRANTED we have recorded
    epoch,      \* number of the connection to each node
    lost,       \* connections that are broken
    zombie      \* nodes whose closed connection is still in the table

jobVars  == <<owned, answers>>
srvVars  == <<waiting, held>>
linkVars == <<epoch, lost, zombie>>
reqVars  == <<registered, copying>>
erlVars  == <<asked, alive, finished>>
vars     == <<jobVars, srvVars, linkVars, reqVars, erlVars, net, acked>>

Reservation == [job : JobId, node : Node, type : resource_t, conn : Nat]
Message ==
    [kind : {"RESERVE", "RELEASE", "GRANTED", "DENIED"},
     job : JobId, node : Node, type : resource_t, conn : Nat]

Live(n, c) == <<n, c>> \notin lost

(* send_outbox: find_fd_by_ip_port picks the connection; what is written   *)
(* to a broken one is lost.                                                *)
Msg(kind, j, p) ==
    [kind |-> kind, job |-> j, node |-> p.node, type |-> p.type,
     conn |-> epoch[p.node]]

Deliverable(M, broken) == {m \in M : <<m.node, m.conn>> \notin broken}

(* The RELEASE messages of a rollback of job j. *)
Releases(j) ==
    {Msg("RELEASE", j, owned[j].petitions[i]) :
        i \in get_granted_resources(owned[j])}

(***************************************************************************)
(* The answer a goes to the scheduler of each job of X that is alive.  An  *)
(* outbox is sent after lock_owned is released, and two workers may send   *)
(* theirs in either order: the answers to a job are counted, not ordered.  *)
(***************************************************************************)
AnswerTag == {"JOB_GRANTED", "JOB_DENIED", "JOB_TIMEOUT"}

Unanswered == [a \in AnswerTag |-> 0]

Answered(X, a) ==
    [j \in JobId |->
        IF j \in X \cap DOMAIN owned /\ owned[j].owner_socket \in alive
        THEN [answers[j] EXCEPT ![a] = @ + 1] ELSE answers[j]]

(***************************************************************************)
(* The outbox of a handler that rolls back the jobs of X one after the     *)
(* other: for each, RELEASE messages out of `releases`, then an answer if  *)
(* the handler gives one.  add_to_outbox drops what comes after the first  *)
(* MAX_OUTBOX entries: at most one job is cut short, its answer first.     *)
(***************************************************************************)
AnswerEntry(j) == [kind |-> "ANSWER", job |-> j]

Outboxes(X, releases, answering) ==
    LET W     == releases \cup (IF answering THEN {AnswerEntry(j) : j \in X}
                                ELSE {})
        of(M) == {m.job : m \in M}
    IN  {K \in SUBSET W :
            /\ Cardinality(K) = IF Cardinality(W) <= MAX_OUTBOX
                                THEN Cardinality(W) ELSE MAX_OUTBOX
            /\ Cardinality(of(W \ K) \cap of(K)) <= 1
            /\ \A j \in of(W \ K) : AnswerEntry(j) \notin K}

MessagesIn(K) == {m \in K : m.kind # "ANSWER"}
AnswersIn(K)  == {m.job : m \in K \ MessagesIn(K)}

----------------------------------------------------------------------------
Init ==
    /\ owned = << >>
    /\ asked = {} /\ alive = Client /\ finished = {}
    /\ registered = {} /\ copying = {}
    /\ answers = [j \in JobId |-> Unanswered]
    /\ net = {} /\ waiting = {} /\ held = {} /\ acked = {}
    /\ epoch = [n \in Node |-> 1]
    /\ lost = {} /\ zombie = {}

(* handle_job_request, under lock_owned: the job and its petitions. *)
handle_job_request(j, c) ==
    /\ j \notin asked
    /\ c \in alive
    /\ asked' = asked \cup {j}
    /\ owned' = add_new_owned_job(owned, j, c, PetitionsOf[j])
    /\ registered' = registered \cup {j}
    /\ UNCHANGED <<answers, srvVars, linkVars, copying, alive, finished,
                   net, acked>>

(* handle_job_request, after the unlock: get_next_reserve.  The lookup     *)
(* runs beside handlers that do hold the lock; when one of them grows the  *)
(* hash table under it, it may miss the job.                               *)
first_reserve(j) ==
    /\ j \in registered
    /\ registered' = registered \ {j}
    /\ \/ /\ j \in DOMAIN owned
          /\ HasNext(owned[j])
          /\ owned' = get_next_reserve(owned, j)
          /\ copying' = copying \cup {j}
       \/ /\ (j \in DOMAIN owned /\ HasNext(owned[j])) => "race" \in Faults
          /\ UNCHANGED <<owned, copying>>
    /\ UNCHANGED <<answers, srvVars, linkVars, erlVars, net, acked>>

(* ... and add_to_outbox with the pointer get_next_reserve returned.  If   *)
(* the job was removed meanwhile the pointer dangles, and the address may  *)
(* be the old one, another node's, or none.                                *)
first_send(j) ==
    /\ j \in copying
    /\ copying' = copying \ {j}
    /\ LET p == PetitionsOf[j][1]
       IN  \/ net' = net \cup Deliverable({Msg("RESERVE", j, p)}, lost)
           \/ /\ j \notin DOMAIN owned
              /\ \E n \in Node :
                    net' = net \cup Deliverable(
                        {Msg("RESERVE", j, [p EXCEPT !.node = n])}, lost)
           \/ /\ j \notin DOMAIN owned
              /\ UNCHANGED net
    /\ UNCHANGED <<jobVars, srvVars, linkVars, registered, erlVars, acked>>

(* handle_granted: the last petition completes the job, another one        *)
(* dispatches its successor, an answer nobody waits for is ignored.        *)
handle_granted(m) ==
    LET j    == m.job
        T    == mark_petition_as_granted(owned, j)
        here == m.node \notin zombie /\ m.conn = epoch[m.node]
        i    == owned[j].next_reserve_idx
    IN  /\ m.kind = "GRANTED" /\ here
        /\ \/ /\ ~Expected(owned, j, m.node)
              /\ net' = net \ {m}
              /\ UNCHANGED <<jobVars, acked>>
           \/ /\ Expected(owned, j, m.node)
              /\ acked' = acked \cup
                    {[job |-> j, node |-> m.node, conn |-> m.conn,
                      type |-> owned[j].petitions[i].type]}
              /\ \/ /\ T[j].grant_notified
                    /\ owned' = T
                    /\ answers' = Answered({j}, "JOB_GRANTED")
                    /\ net' = net \ {m}
                 \/ /\ ~T[j].grant_notified
                    /\ HasNext(T[j])
                    /\ owned' = get_next_reserve(T, j)
                    /\ net' = (net \ {m}) \cup Deliverable(
                          {Msg("RESERVE", j, owned[j].petitions[i + 1])}, lost)
                    /\ UNCHANGED answers
        /\ UNCHANGED <<srvVars, linkVars, reqVars, erlVars>>

(* handle_denied: everything granted so far is given back.  For a job that *)
(* is gone, the JOB_DENIED goes to descriptor 0, which is no scheduler's.  *)
handle_denied(m) ==
    LET j == m.job
        R == IF j \in DOMAIN owned THEN Releases(j) ELSE {}
    IN  /\ m.kind = "DENIED"
        /\ m.node \notin zombie /\ m.conn = epoch[m.node]
        /\ \E K \in Outboxes({j}, R, TRUE) :
              /\ net' = (net \ {m}) \cup Deliverable(MessagesIn(K), lost)
              /\ answers' = Answered(AnswersIn(K), "JOB_DENIED")
        /\ owned' = remove_owned_job(owned, {j})
        /\ UNCHANGED <<srvVars, linkVars, reqVars, erlVars, acked>>

(* handle_job_release.  The scheduler sends it once its job has run, also  *)
(* when the job was taken from it in the meantime.                         *)
handle_job_release(j) ==
    LET R == IF j \in DOMAIN owned THEN Releases(j) ELSE {}
    IN  /\ j \in asked \ finished
        /\ answers[j]["JOB_GRANTED"] > 0
        /\ alive # {}
        /\ finished' = finished \cup {j}
        /\ \E K \in Outboxes({j}, R, FALSE) :
              net' = net \cup Deliverable(MessagesIn(K), lost)
        /\ owned' = remove_owned_job(owned, {j})
        /\ UNCHANGED <<answers, srvVars, linkVars, reqVars, asked, alive,
                       acked>>

(* handle_check_deadnodes, timeouts: the jobs X that one pass rolls back.  *)
(* The pass collects MAX_AFFECTED of them and stops before the outbox      *)
(* would overflow, so it never cuts a job short.                           *)
check_timeouts(X) ==
    /\ "timeout" \in Faults
    /\ X # {}
    /\ X \subseteq MayTimeOut(owned)
    /\ Cardinality(X) <= MAX_AFFECTED
    /\ LET R == UNION {Releases(j) : j \in X}
       IN  /\ Cardinality(R) + Cardinality(X) <= MAX_OUTBOX
           /\ net' = net \cup Deliverable(R, lost)
    /\ answers' = Answered(X, "JOB_TIMEOUT")
    /\ owned' = remove_owned_job(owned, X)
    /\ UNCHANGED <<srvVars, linkVars, reqVars, erlVars, acked>>

----------------------------------------------------------------------------
(* ACTION_DISCONNECTED on the socket of a scheduler: its jobs are dropped. *)
handle_scheduler_disconnected(c) ==
    /\ "scheduler" \in Faults
    /\ c \in alive
    /\ \E X \in Collected(OrphansOf(owned, c), MAX_ORPHANS) :
          /\ owned' = remove_owned_job(owned, X)
          /\ \E K \in Outboxes(X, UNION {Releases(j) : j \in X}, FALSE) :
                net' = net \cup Deliverable(MessagesIn(K), lost)
    /\ alive' = alive \ {c}
    /\ UNCHANGED <<answers, srvVars, linkVars, reqVars, asked, finished,
                   acked>>

(* The connection to n breaks; each end finds out on its own. *)
link_lost(n) ==
    /\ "link" \in Faults
    /\ Live(n, epoch[n])
    /\ epoch[n] < MaxConn
    /\ lost' = lost \cup {<<n, epoch[n]>>}
    /\ UNCHANGED <<jobVars, srvVars, epoch, zombie, reqVars, erlVars, net,
                   acked>>

(* ACTION_DISCONNECTED on the connection to n: the jobs with a petition    *)
(* there are denied, and what they hold elsewhere is given back.  Until    *)
(* the worker wipes its entry of active_connections, what others send to n *)
(* still goes to the broken connection.                                    *)
handle_node_disconnected(n) ==
    /\ ~Live(n, epoch[n])
    /\ n \notin zombie
    /\ \E X \in Collected(AffectedBy(owned, n), MAX_AFFECTED) :
          /\ owned' = remove_owned_job(owned, X)
          /\ \E K \in Outboxes(X, {m \in UNION {Releases(j) : j \in X} :
                                      m.node # n}, TRUE) :
                /\ net' = {m \in net : ~(/\ m.kind \in {"GRANTED", "DENIED"}
                                         /\ m.node = n
                                         /\ m.conn = epoch[n])}
                              \cup Deliverable(MessagesIn(K), lost)
                /\ answers' = Answered(AnswersIn(K), "JOB_DENIED")
    /\ zombie' = zombie \cup {n}
    /\ UNCHANGED <<srvVars, epoch, lost, reqVars, erlVars, acked>>

(* The entry of the closed connection is wiped, or overwritten by the next *)
(* user of its descriptor: the next message to n opens a new connection.   *)
forget_connection(n) ==
    /\ n \in zombie
    /\ epoch[n] < MaxConn
    /\ zombie' = zombie \ {n}
    /\ epoch' = [epoch EXCEPT ![n] = @ + 1]
    /\ UNCHANGED <<jobVars, srvVars, lost, reqVars, erlVars, net, acked>>

(* handle_check_deadnodes, dead node n: its ANNOUNCEs have stopped.  The   *)
(* connection is closed and its entry is not wiped, so what is sent to n   *)
(* from here on is lost, the RELEASEs of this rollback included.           *)
(* Nothing is closed when find_fd_by_ip_port knows of no connection.       *)
Unused(n) ==
    /\ Live(n, epoch[n])
    /\ \A r \in net \cup waiting \cup held :
          ~(r.node = n /\ r.conn = epoch[n])

check_deadnodes(n) ==
    /\ "silence" \in Faults
    /\ n \notin zombie
    /\ \/ /\ lost' = lost \cup {<<n, epoch[n]>>}
          /\ zombie' = zombie \cup {n}
       \/ /\ Unused(n)
          /\ UNCHANGED <<lost, zombie>>
    /\ \E X \in Collected(AffectedBy(owned, n), MAX_AFFECTED) :
          /\ owned' = remove_owned_job(owned, X)
          /\ \E K \in Outboxes(X, UNION {Releases(j) : j \in X}, TRUE) :
                /\ net' = net \cup Deliverable(MessagesIn(K), lost')
                /\ answers' = Answered(AnswersIn(K), "JOB_DENIED")
    /\ UNCHANGED <<srvVars, epoch, reqVars, erlVars, acked>>

----------------------------------------------------------------------------
(* The servers.  A message is read only while its receiver's end of the    *)
(* connection has not been swept; sweeping drops what was not read.        *)

ReservationOf(m) ==
    [job |-> m.job, node |-> m.node, type |-> m.type, conn |-> m.conn]

Reply(kind, r) ==
    [kind |-> kind, job |-> r.job, node |-> r.node, type |-> r.type,
     conn |-> r.conn]

server_grants(m) ==
    /\ m.kind = "RESERVE"
    /\ held' = held \cup {ReservationOf(m)}
    /\ net' = (net \ {m}) \cup Deliverable({Reply("GRANTED", m)}, lost)
    /\ UNCHANGED <<jobVars, waiting, linkVars, reqVars, erlVars, acked>>

server_queues(m) ==
    /\ m.kind = "RESERVE"
    /\ waiting' = waiting \cup {ReservationOf(m)}
    /\ net' = net \ {m}
    /\ UNCHANGED <<jobVars, held, linkVars, reqVars, erlVars, acked>>

server_denies(m) ==
    /\ m.kind = "RESERVE"
    /\ net' = (net \ {m}) \cup Deliverable({Reply("DENIED", m)}, lost)
    /\ UNCHANGED <<jobVars, srvVars, linkVars, reqVars, erlVars, acked>>

server_serves_queued(r) ==
    /\ waiting' = waiting \ {r}
    /\ held' = held \cup {r}
    /\ net' = net \cup Deliverable({Reply("GRANTED", r)}, lost)
    /\ UNCHANGED <<jobVars, linkVars, reqVars, erlVars, acked>>

(* handle_release frees every type the job holds on that connection and    *)
(* leaves its waiting requests alone.                                      *)
server_releases(m) ==
    /\ m.kind = "RELEASE"
    /\ held' = {r \in held : ~(/\ r.job = m.job /\ r.node = m.node
                               /\ r.conn = m.conn)}
    /\ net' = net \ {m}
    /\ UNCHANGED <<jobVars, waiting, linkVars, reqVars, erlVars, acked>>

server_sweeps(n, c) ==
    LET on(S) == {r \in S : r.node = n /\ r.conn = c}
    IN  /\ <<n, c>> \in lost
        /\ on(net \cup waiting \cup held) # {}
        /\ waiting' = waiting \ on(waiting)
        /\ held' = held \ on(held)
        /\ net' = {m \in net : ~(/\ m.kind \in {"RESERVE", "RELEASE"}
                                 /\ m \in on(net))}
        /\ UNCHANGED <<jobVars, linkVars, reqVars, erlVars, acked>>

Next ==
    \/ \E j \in JobId :
          \/ \E c \in Client : handle_job_request(j, c)
          \/ first_reserve(j)
          \/ first_send(j)
          \/ handle_job_release(j)
    \/ \E X \in SUBSET JobId : check_timeouts(X)
    \/ \E m \in net :
          \/ handle_granted(m)
          \/ handle_denied(m)
          \/ server_grants(m)
          \/ server_queues(m)
          \/ server_denies(m)
          \/ server_releases(m)
    \/ \E r \in waiting : server_serves_queued(r)
    \/ \E c \in Client : handle_scheduler_disconnected(c)
    \/ \E n \in Node :
          \/ link_lost(n)
          \/ handle_node_disconnected(n)
          \/ forget_connection(n)
          \/ check_deadnodes(n)
          \/ \E c \in 1 .. MaxConn : server_sweeps(n, c)

Spec == Init /\ [][Next]_vars

(* Fairness: the garbage collector's timer keeps firing until a job that   *)
(* is old enough is collected, and the worker of a JOB_REQUEST runs on.    *)
(* Nothing is assumed of servers or network.                               *)
LiveSpec ==
    /\ Spec
    /\ \A j \in JobId :
          /\ WF_vars(\E X \in SUBSET JobId : j \in X /\ check_timeouts(X))
          /\ WF_vars(first_reserve(j))

----------------------------------------------------------------------------
(* Type correctness.  The array of petitions of a job never grows past its *)
(* MAX_JOB_RESOURCES entries.                                              *)
TypeOK ==
    /\ DOMAIN owned \subseteq JobId
    /\ \A j \in DOMAIN owned :
          /\ owned[j] \in OwnedJob
          /\ Len(owned[j].petitions) <= MAX_JOB_RESOURCES
    /\ asked \subseteq JobId /\ finished \subseteq JobId
    /\ alive \subseteq Client
    /\ registered \subseteq JobId /\ copying \subseteq JobId
    /\ answers \in [JobId -> [AnswerTag -> Nat]]
    /\ net \subseteq Message
    /\ waiting \subseteq Reservation /\ held \subseteq Reservation
    /\ acked \subseteq Reservation
    /\ epoch \in [Node -> Nat]
    /\ lost \subseteq Node \X Nat
    /\ zombie \subseteq Node

InOrder(job) ==
    /\ job.next_reserve_idx <= Len(job.petitions)
    /\ \/ job.granted = 1 .. job.next_reserve_idx
       \/ job.granted = 1 .. (job.next_reserve_idx - 1)
    /\ job.grant_notified <=> /\ Len(job.petitions) > 0
                              /\ job.granted = 1 .. Len(job.petitions)

(* One reservation at a time, in the order of the request: the petitions   *)
(* granted so far are exactly those dispatched before the last one, and    *)
(* perhaps the last one; grant_notified says that none is missing.  The    *)
(* whole prevention of deadlock rests on it: a job that waits for petition *)
(* i holds nothing that comes after i.                                     *)
ReservedInOrder == \A j \in DOMAIN owned : InOrder(owned[j])

(* What the coordinator believes granted is really held: while the         *)
(* connection to its node stands, a granted petition of an owned job has   *)
(* an entry in that server's active table.  A JOB_GRANTED job therefore    *)
(* runs on resources that nobody else was given.                           *)
GrantedIsHeld ==
    \A j \in DOMAIN owned : \A i \in owned[j].granted :
        LET p == owned[j].petitions[i]
        IN  Live(p.node, epoch[p.node]) =>
                [job |-> j, node |-> p.node, type |-> p.type,
                 conn |-> epoch[p.node]] \in held

Releasing(r) ==
    \E m \in net : /\ m.kind = "RELEASE"
                   /\ m.job = r.job /\ m.node = r.node /\ m.conn = r.conn

(* A rollback forgets nothing it knew of: whatever removes a job (denial,  *)
(* completion, timeout, dead node, dead scheduler), a reservation whose    *)
(* GRANTED was recorded still belongs to an owned job, or its RELEASE is   *)
(* on the way, or its connection is broken and the server will sweep it.   *)
RollbackIsComplete ==
    \A r \in held \cap acked :
        Live(r.node, r.conn) => r.job \in DOMAIN owned \/ Releasing(r)

(* No reservation is abandoned: a server that holds something on a working *)
(* connection holds it for a job that still exists, or is about to be told *)
(* to release it.                                                          *)
NoReservationAbandoned ==
    \A r \in held :
        Live(r.node, r.conn) => r.job \in DOMAIN owned \/ Releasing(r)

(* The answers to a job contradict each other in one way only: a dead node *)
(* may revoke a grant, and then the scheduler gets both JOB_GRANTED and    *)
(* JOB_DENIED, in whichever order their workers send them.  Whatever       *)
(* handlers compete for a job, none of its answers is given twice, and a   *)
(* JOB_TIMEOUT is the only answer its job gets.                            *)
AnswerDiscipline ==
    \A j \in JobId :
        /\ \A a \in AnswerTag : answers[j][a] <= 1
        /\ answers[j]["JOB_TIMEOUT"] = 1 =>
              /\ answers[j]["JOB_GRANTED"] = 0
              /\ answers[j]["JOB_DENIED"] = 0

(* Every JOB_REQUEST is answered, whatever servers and network do, unless  *)
(* its scheduler is gone.                                                  *)
EveryRequestAnswered ==
    \A j \in JobId :
        j \in asked ~> (answers[j] # Unanswered \/ alive # Client)
=============================================================================
