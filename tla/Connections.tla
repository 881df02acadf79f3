---------------------------- MODULE Connections ----------------------------
(***************************************************************************)
(* How one agent finds the others and talks to them: the directory of      *)
(* KnownNodes fed by ANNOUNCE datagrams and cleaned by the collector, and  *)
(* the connections send_outbox opens, registers and uses.                  *)
(*                                                                         *)
(* send_outbox is not one step.  Looking the connection up, connecting,    *)
(* registering the descriptor and sending each take connections_lock on    *)
(* their own or not at all, and other workers run in between.  Main sends  *)
(* the pending message when the connection is up; until then a worker that *)
(* has found the descriptor spins in send_tcp_message.                     *)
(*                                                                         *)
(* The handlers are reduced to the message they send: a job has one        *)
(* petition; RESERVE is sent for a node of the last NODES message, RELEASE *)
(* once GRANTED has arrived, whether the job has run or is rolled back.    *)
(* The peers are servers that file what they grant under the descriptor    *)
(* the RESERVE came on.  What they reserve here is in ResourceServer.      *)
(* The finer races on one descriptor are in EventLoop.                     *)
(***************************************************************************)
EXTENDS KnownNodes, SequencesExt

CONSTANTS
    Worker,     \* threads of the pool
    JobId,      \* jobs, with one petition each
    Target,     \* the node each job's petition is for
    Fd,         \* descriptors the kernel hands out to connect, a set of Nat
    MaxLost,    \* bound: ANNOUNCEs of one node lost in a row
    Faults      \* how a node may go away

ASSUME ConnectionsAssumption ==
    /\ Target \in [JobId -> Node]
    /\ Fd \subseteq Nat
    /\ MaxLost \in Nat
    /\ Faults \subseteq {"killed", "gone"}

VARIABLES
    known,      \* NODE->known_nodes
    offered,    \* the nodes of the last NODES message
    announced,  \* nodes whose ANNOUNCE of this interval has been sent
    missed,     \* ANNOUNCEs of each node lost in a row
    collected,  \* the collector has run in this interval
    status,     \* "up", "killed" (its sockets are closed) or "gone" (silent)
    table,      \* active_connections: the outgoing entries
    kernel,     \* state of each descriptor
    peer,       \* the node each descriptor is connected to
    writable,   \* descriptors in epoll with EPOLLOUT
    chan,       \* what has been written to each connection and not read
    task,       \* what each worker does
    submitted,  \* messages handed to send_outbox
    handled,    \* messages a peer's handler has received
    held,       \* reservations of our jobs at the peers, by connection
    granted     \* jobs whose GRANTED has arrived

dirVars  == <<known, offered, announced, missed, collected>>
connVars == <<table, kernel, peer, writable, chan>>
jobVars  == <<submitted, handled, held, granted>>
vars     == <<dirVars, status, connVars, task, jobVars>>

Message == [kind : {"RESERVE", "RELEASE"}, job : JobId]

Idle == [step |-> "idle"]

Free(w) == task[w] = Idle

(* find_fd_by_ip_port: the active entries for n; the lowest is used. *)
FdsOf(n) == {f \in DOMAIN table : table[f].node = n}

Unregister(f) == [g \in DOMAIN table \ {f} |-> table[g]]

----------------------------------------------------------------------------
Init ==
    /\ known = << >> /\ offered = {} /\ announced = {}
    /\ missed = [n \in Node |-> 0] /\ collected = FALSE
    /\ status = [n \in Node |-> "up"]
    /\ table = << >>
    /\ kernel = [f \in Fd |-> "closed"]
    /\ peer = << >>
    /\ writable = {}
    /\ chan = [f \in Fd |-> << >>]
    /\ task = [w \in Worker |-> Idle]
    /\ submitted = {} /\ handled = {} /\ held = {} /\ granted = {}

(* The timers: an interval ends when every node has announced itself and   *)
(* the collector has run.                                                  *)
tick ==
    /\ \A n \in Node : status[n] = "up" => n \in announced
    /\ collected
    /\ known' = Older(known)
    /\ announced' = {}
    /\ collected' = FALSE
    /\ UNCHANGED <<offered, missed, status, connVars, task, jobVars>>

(* handle_incoming_discovery, handle_node_announced *)
handle_node_announced(n) ==
    /\ status[n] = "up" /\ n \notin announced
    /\ \E w \in Worker : Free(w)
    /\ known' = update_known_node(known, n)
    /\ announced' = announced \cup {n}
    /\ missed' = [missed EXCEPT ![n] = 0]
    /\ UNCHANGED <<offered, collected, status, connVars, task, jobVars>>

(* The datagram is lost, or so late that the next one overtakes it. *)
announce_lost(n) ==
    /\ status[n] = "up" /\ n \notin announced
    /\ missed[n] < MaxLost
    /\ announced' = announced \cup {n}
    /\ missed' = [missed EXCEPT ![n] = @ + 1]
    /\ UNCHANGED <<known, offered, collected, status, connVars, task,
                   jobVars>>

(* handle_get_nodes_response *)
handle_get_nodes(X) ==
    /\ \E w \in Worker : Free(w)
    /\ X \in get_known_nodes_payload(known)
    /\ offered' = X
    /\ UNCHANGED <<known, announced, missed, collected, status,
                   connVars, task, jobVars>>

(* handle_check_deadnodes, a node n it has removed: the close of the       *)
(* descriptor found for it.  The entry is not wiped.  The sweep of what    *)
(* is filed here under that descriptor is left out with the server role.   *)
Zombies(X) == {Min(FdsOf(n)) : n \in {x \in X : FdsOf(x) # {}}}

(* close, which takes the descriptor out of epoll as well. *)
CloseAll(Z) ==
    /\ kernel' = [f \in Fd |-> IF f \in Z THEN "closed" ELSE kernel[f]]
    /\ writable' = writable \ Z
    /\ chan' = [f \in Fd |-> IF f \in Z THEN << >> ELSE chan[f]]

handle_check_deadnodes(X) ==
    /\ ~collected
    /\ \E w \in Worker : Free(w)
    /\ X \in Removed(known)
    /\ known' = remove_inactive_nodes(known, X)
    /\ CloseAll(Zombies(X))
    /\ collected' = TRUE
    /\ UNCHANGED <<offered, announced, missed, status, table, peer, task,
                   jobVars>>

----------------------------------------------------------------------------
(* The handlers, up to send_outbox. *)
Start(w, m) ==
    /\ Free(w)
    /\ m \notin submitted
    /\ submitted' = submitted \cup {m}
    /\ task' = [task EXCEPT ![w] = [step |-> "find", msg |-> m]]
    /\ UNCHANGED <<dirVars, status, connVars, handled, held, granted>>

(* handle_job_request *)
send_reserve(w, j) ==
    /\ Target[j] \in offered
    /\ Start(w, [kind |-> "RESERVE", job |-> j])

(* handle_job_release, or a rollback *)
send_release(w, j) ==
    /\ j \in granted
    /\ Start(w, [kind |-> "RELEASE", job |-> j])

(* send_outbox: the lookup. *)
find_fd_by_ip_port(w) ==
    LET m == task[w].msg
        F == FdsOf(Target[m.job])
    IN  /\ task[w].step = "find"
        /\ \/ /\ F # {}
              /\ task' = [task EXCEPT ![w] =
                    [step |-> "send", msg |-> m, fd |-> Min(F)]]
           \/ /\ F = {}
              /\ task' = [task EXCEPT ![w] = [step |-> "connect", msg |-> m]]
        /\ UNCHANGED <<dirVars, status, connVars, jobVars>>

(* connect_to_tcp_node: the lowest free descriptor, connecting. *)
connect_to_tcp_node(w) ==
    LET m == task[w].msg
        F == {f \in Fd : kernel[f] = "closed"}
    IN  /\ task[w].step = "connect"
        /\ F # {}
        /\ LET f == Min(F)
           IN  /\ kernel' = [kernel EXCEPT ![f] = "connecting"]
               /\ peer' = [g \in DOMAIN peer \cup {f} |->
                              IF g = f THEN Target[m.job] ELSE peer[g]]
               /\ task' = [task EXCEPT ![w] =
                     [step |-> "register", msg |-> m, fd |-> f]]
        /\ UNCHANGED <<dirVars, status, table, writable, chan, jobVars>>

(* The entry with its pending message, and the interest in EPOLLOUT, which *)
(* epoll refuses if the collector has closed the descriptor by now.        *)
register(w) ==
    LET f == task[w].fd
        m == task[w].msg
    IN  /\ task[w].step = "register"
        /\ table' = [g \in DOMAIN table \cup {f} |->
                        IF g = f THEN [node |-> Target[m.job], pending |-> {m}]
                        ELSE table[g]]
        /\ writable' = writable \cup {g \in {f} : kernel[g] # "closed"}
        /\ task' = [task EXCEPT ![w] = Idle]
        /\ UNCHANGED <<dirVars, status, kernel, peer, chan, jobVars>>

(* Mutation: an error of send is taken for success. *)
Accepts_Error(f) == kernel[f] # "connecting"

(* send returns a positive number. *)
Accepts(f) == kernel[f] = "connected"

(* send_tcp_message: it spins while the socket is connecting, and gives up *)
(* on a socket that is closed.                                             *)
send_tcp_message(w) ==
    LET f == task[w].fd
    IN  /\ task[w].step = "send"
        /\ kernel[f] # "connecting"
        /\ \/ /\ Accepts(f)
              /\ chan' = [chan EXCEPT ![f] = Append(@, task[w].msg)]
           \/ /\ ~Accepts(f)
              /\ UNCHANGED chan
        /\ task' = [task EXCEPT ![w] = Idle]
        /\ UNCHANGED <<dirVars, status, table, kernel, peer, writable,
                       jobVars>>

----------------------------------------------------------------------------
(* The kernel ends the handshake. *)
handshake(f) ==
    /\ kernel[f] = "connecting"
    /\ kernel' = [kernel EXCEPT ![f] =
                     IF status[peer[f]] = "up" THEN "connected" ELSE "failed"]
    /\ UNCHANGED <<dirVars, status, table, peer, writable, chan, task,
                   jobVars>>

(* Mutation: the pending message is not sent. *)
Pending_Forgotten(f) == << >>

(* Mutation: the pending message is sent twice. *)
Pending_Twice(f) ==
    LET P == IF f \in DOMAIN table THEN SetToSeq(table[f].pending) ELSE << >>
    IN  P \o P

(* What handle_connection_success sends: nothing when the entry has been   *)
(* wiped in the meantime.                                                  *)
Pending(f) ==
    IF f \in DOMAIN table THEN SetToSeq(table[f].pending) ELSE << >>

(* handle_connection_success: main, on EPOLLOUT. *)
handle_connection_success(f) ==
    /\ f \in writable
    /\ \/ /\ kernel[f] = "connected"
          /\ chan' = [chan EXCEPT ![f] = @ \o Pending(f)]
          /\ table' = [g \in DOMAIN table |->
                         IF g = f THEN [table[g] EXCEPT !.pending = {}]
                         ELSE table[g]]
          /\ UNCHANGED kernel
       \/ /\ kernel[f] = "failed"
          /\ table' = Unregister(f)
          /\ kernel' = [kernel EXCEPT ![f] = "closed"]
          /\ UNCHANGED chan
    /\ writable' = writable \ {f}
    /\ UNCHANGED <<dirVars, status, peer, task, jobVars>>

(* A descriptor that send_outbox has not put in epoll yet. *)
Unregistered(f) ==
    \E w \in Worker : task[w].step = "register" /\ task[w].fd = f

(* handle_client_message, the peer of f has closed: close, and later the   *)
(* entry is wiped, which by then may be that of a new connection.          *)
handle_disconnected(w, f) ==
    /\ Free(w)
    /\ kernel[f] = "connected" /\ f \notin writable /\ ~Unregistered(f)
    /\ status[peer[f]] = "killed"
    /\ kernel' = [kernel EXCEPT ![f] = "closed"]
    /\ chan' = [chan EXCEPT ![f] = << >>]
    /\ task' = [task EXCEPT ![w] = [step |-> "wipe", fd |-> f]]
    /\ UNCHANGED <<dirVars, status, table, peer, writable, jobVars>>

wipe(w) ==
    /\ task[w].step = "wipe"
    /\ table' = Unregister(task[w].fd)
    /\ task' = [task EXCEPT ![w] = Idle]
    /\ UNCHANGED <<dirVars, status, kernel, peer, writable, chan,
                   jobVars>>

----------------------------------------------------------------------------
(* The peers. *)

(* A peer's handle_reserve and handle_release; GRANTED comes back at once. *)
peer_handles(f) ==
    LET m == Head(chan[f])
        r == [job |-> m.job, fd |-> f]
    IN  /\ chan[f] # << >>
        /\ status[peer[f]] = "up"
        /\ chan' = [chan EXCEPT ![f] = Tail(@)]
        /\ handled' = handled \cup {m}
        /\ \/ /\ m.kind = "RESERVE"
              /\ held' = held \cup {r}
              /\ granted' = granted \cup {m.job}
           \/ /\ m.kind = "RELEASE"
              /\ held' = held \ {r}
              /\ UNCHANGED granted
        /\ UNCHANGED <<dirVars, status, table, kernel, peer, writable,
                       task, submitted>>

(* A node goes away, with what it held for others. *)
node_dies(n, how) ==
    /\ how \in Faults
    /\ status[n] = "up"
    /\ status' = [status EXCEPT ![n] = how]
    /\ held' = {r \in held : peer[r.fd] # n}
    /\ UNCHANGED <<dirVars, connVars, task, submitted, handled, granted>>

Next ==
    \/ tick
    \/ \E n \in Node :
          \/ handle_node_announced(n) \/ announce_lost(n)
          \/ \E how \in Faults : node_dies(n, how)
    \/ \E X \in SUBSET Node : handle_get_nodes(X) \/ handle_check_deadnodes(X)
    \/ \E w \in Worker :
          \/ \E j \in JobId : send_reserve(w, j) \/ send_release(w, j)
          \/ find_fd_by_ip_port(w) \/ connect_to_tcp_node(w) \/ register(w)
          \/ send_tcp_message(w) \/ wipe(w)
          \/ \E f \in Fd : handle_disconnected(w, f)
    \/ \E f \in Fd :
          \/ handshake(f) \/ handle_connection_success(f) \/ peer_handles(f)

Spec == Init /\ [][Next]_vars

(* Fairness: the timers fire and their tasks run, a worker goes on with    *)
(* what it has begun, main serves its events, the kernel ends a handshake, *)
(* and a peer that is up reads its connections.                            *)
LiveSpec ==
    /\ Spec
    /\ WF_vars(tick)
    /\ WF_vars(\E X \in SUBSET Node : handle_check_deadnodes(X))
    /\ \A n \in Node : WF_vars(handle_node_announced(n) \/ announce_lost(n))
    /\ \A w \in Worker :
          WF_vars(find_fd_by_ip_port(w) \/ connect_to_tcp_node(w)
                  \/ register(w) \/ send_tcp_message(w) \/ wipe(w))
    /\ \A f \in Fd :
          /\ WF_vars(handshake(f))
          /\ WF_vars(handle_connection_success(f))
          /\ WF_vars(peer_handles(f))

----------------------------------------------------------------------------
(* Type correctness: an entry is for a descriptor that connect has handed  *)
(* out, main waits for EPOLLOUT on no descriptor that is closed, and bytes *)
(* are in flight on established connections only.                          *)
TypeOK ==
    /\ DOMAIN known \subseteq Node
    /\ \A n \in DOMAIN known : known[n] \in 0 .. OldestAge
    /\ offered \subseteq Node /\ announced \subseteq Node
    /\ missed \in [Node -> 0 .. MaxLost]
    /\ collected \in BOOLEAN
    /\ status \in [Node -> {"up", "killed", "gone"}]
    /\ \A f \in writable : kernel[f] # "closed"
    /\ DOMAIN table \subseteq DOMAIN peer /\ DOMAIN peer \subseteq Fd
    /\ kernel \in [Fd -> {"closed", "connecting", "connected", "failed"}]
    /\ chan \in [Fd -> Seq(Message)]
    /\ \A f \in Fd : chan[f] # << >> => kernel[f] = "connected"
    /\ submitted \subseteq Message /\ handled \subseteq submitted
    /\ held \subseteq [job : JobId, fd : Fd] /\ granted \subseteq JobId

(* A node that is up is not declared dead, as long as its ANNOUNCEs are    *)
(* not lost so often that one of them being late makes up the 15 s: with   *)
(* three intervals, no two in a row.  The collector, the announcements and *)
(* the ends of intervals come in any order and it only ever removes a node *)
(* that has gone.                                                          *)
NoFalseDeath ==
    [][\A n \in DOMAIN known \ DOMAIN known' : status[n] # "up"]_vars

(* A node that has gone is forgotten: the scheduler is not offered it for  *)
(* ever.                                                                   *)
DeadForgotten ==
    \A n \in Node : status[n] # "up" ~> n \notin DOMAIN known

Copies(m) ==
    UNION {{f} \X {i \in DOMAIN chan[f] : chan[f][i] = m} : f \in Fd}

(* A message is delivered at most once, whichever of main and the workers  *)
(* sends it: a pending message is not sent again by the worker that made   *)
(* it, or when the connection becomes writable again.                      *)
NoDuplicate ==
    \A m \in Message :
        Cardinality(Copies(m)) + (IF m \in handled THEN 1 ELSE 0) <= 1

(* Every message handed to send_outbox arrives, whatever the order of the  *)
(* lookups, handshakes and registrations of the other workers, unless a    *)
(* node has gone away.                                                     *)
EveryMessageArrives ==
    \A m \in Message :
        m \in submitted ~> m \in handled \/ \E n \in Node : status[n] # "up"

(* A RELEASE that its server has handled leaves nothing of its job behind. *)
ReleaseFrees ==
    \A r \in held : [kind |-> "RELEASE", job |-> r.job] \notin handled
=============================================================================
