----------------------------- MODULE EventLoop -----------------------------
(***************************************************************************)
(* How an agent turns traffic into handler calls: the epoll loop of        *)
(* main.c, the ring of tasks and the workers of thread_pool.c, and the     *)
(* life of a descriptor in event_handler.c (accept or connect, arm, read,  *)
(* close, reuse).                                                          *)
(*                                                                         *)
(* What messages say does not matter here: a socket has bytes to read or   *)
(* not, and a handler may have to open a connection to send its outbox.    *)
(* Steps are cut where another thread can see the difference: between the  *)
(* batch epoll_wait returned and its processing, before each use of the    *)
(* descriptor by recv, close, the table and epoll_ctl, and between the     *)
(* lookup of a connection and its use.  EPOLL_CTL_DEL goes with the close  *)
(* that follows it, and creating a socket with filing and registering it.  *)
(***************************************************************************)
EXTENDS Integers, FiniteSets, Sequences

CONSTANTS
    Worker,     \* threads of the pool
    Fd,         \* numbers the kernel gives to TCP sockets
    udp_fd,     \* the discovery socket
    Peer,       \* agents this one connects to, each an ip:port
    None,
    MAX_QUEUE,  \* capacity of the ring of tasks (1024)
    MaxTicks,   \* bound: timer tasks in the ring and in progress
    MaxSockets  \* bound: sockets opened during a run

ASSUME EventLoopAssumption ==
    /\ IsFiniteSet(Worker)
    /\ udp_fd \notin Fd
    /\ None \notin Fd \cup {udp_fd} \cup Peer
    /\ Peer \cap {"free", "client"} = {}
    /\ MAX_QUEUE \in Nat /\ MaxTicks \in Nat /\ MaxSockets \in Nat

VARIABLES
    listening,  \* the TCP listeners are in the interest list
    opened,     \* sockets opened so far
    sock,       \* state of the socket behind each TCP descriptor
    spoken,     \* sockets whose other end may send: it connected to us, or
                \* we have sent it something to answer
    data,       \* whether a descriptor has bytes or a datagram to read
    interest,   \* how epoll watches a descriptor
    table,      \* active_connections: "free", "client" (accepted) or a peer
    batch,      \* events epoll_wait returned and main has not processed
    main,       \* what the main thread does, for which descriptor, and the
                \* peer it found no connection to
    tasks,      \* TaskQueue, oldest first
    pc,         \* what each worker does
    on,         \* the descriptor of its task
    to          \* the peer it found no connection to

kernelVars == <<opened, sock, spoken, data, interest>>
poolVars   == <<tasks, pc>>
ownVars    == <<on, to>>
vars == <<listening, kernelVars, table, batch, main, poolVars, ownVars>>

Desc == Fd \cup {udp_fd}

TimerTask == {"TASK_UDP_ANNOUNCE", "TASK_GARBAGE_COLLECTOR"}
WorkerTask ==
    [type : {"TASK_TCP_CLIENT_MSG"}, fd : Fd]
        \cup [type : {"TASK_UDP_DISCOVERY"}, fd : {udp_fd}]
        \cup [type : TimerTask, fd : {None}]

Event == [fd : Desc, in : BOOLEAN, out : BOOLEAN]

Asleep == {w \in Worker : pc[w] = "asleep"}
Idle   == {w \in Worker : pc[w] = "idle"}

Looping == [pc |-> "loop", fd |-> None, to |-> None]

(* handle_connection_success in progress. *)
Connecting ==
    [pc : {"out", "send", "wipe", "close"}, fd : Fd, to : {None}]
        \cup [pc : {"connect"}, fd : Fd, to : Peer]

----------------------------------------------------------------------------
(* thread_pool_push_task: a full ring swallows the task. *)
Pushed(t) == IF Len(tasks) < MAX_QUEUE THEN Append(tasks, t) ELSE tasks

(* Mutation: the condition is signalled only when the ring was empty. *)
Signalled_IfEmpty(ignored) ==
    IF tasks = << >> /\ Asleep # {}
    THEN {[pc EXCEPT ![w] = "idle"] : w \in Asleep} ELSE {pc}

(* pthread_cond_signal wakes one of the workers that wait, if the task was *)
(* accepted and one does.                                                  *)
Signalled(accepted) ==
    IF accepted /\ Asleep # {}
    THEN {[pc EXCEPT ![w] = "idle"] : w \in Asleep} ELSE {pc}

thread_pool_push_task(type, f) ==
    /\ tasks' = Pushed([type |-> type, fd |-> f])
    /\ pc' \in Signalled(Len(tasks) < MAX_QUEUE)

(* What remains of a descriptor after close: nothing, and epoll drops it.  *)
close(f) ==
    /\ sock' = [sock EXCEPT ![f] = "closed"]
    /\ spoken' = spoken \ {f}
    /\ data' = [data EXCEPT ![f] = FALSE]
    /\ interest' = [interest EXCEPT ![f] = "none"]
    /\ UNCHANGED opened

(* A new socket takes a number that is free; it is filed and registered.   *)
NewSocket(f, state, owner, watch) ==
    /\ sock[f] = "closed"
    /\ opened < MaxSockets
    /\ opened' = opened + 1
    /\ sock' = [sock EXCEPT ![f] = state]
    /\ spoken' = IF owner = "client" THEN spoken \cup {f} ELSE spoken
    /\ table' = [table EXCEPT ![f] = owner]
    /\ interest' = [interest EXCEPT ![f] = watch]
    /\ UNCHANGED data

(* send_outbox: what goes out on connections find_fd_by_ip_port knows, ... *)
Connected == {f \in Fd : table[f] \in Peer /\ sock[f] = "up"}

Sent == \E T \in SUBSET Connected : spoken' = spoken \cup T

(* ... a peer it finds none for, ... *)
NotConnected(p) == \A f \in Fd : table[f] # p

(* ... and connect_to_tcp_node, or no descriptor is left.                  *)
Opened(p) ==
    \/ \E f \in Fd : NewSocket(f, "connecting", p, "level")
    \/ /\ opened = MaxSockets \/ \A f \in Fd : sock[f] # "closed"
       /\ UNCHANGED <<kernelVars, table>>

----------------------------------------------------------------------------
Init ==
    /\ listening = FALSE
    /\ opened = 0
    /\ spoken = {}
    /\ sock = [f \in Fd |-> "closed"]
    /\ data = [f \in Desc |-> FALSE]
    /\ interest = [f \in Desc |-> IF f = udp_fd THEN "armed" ELSE "none"]
    /\ table = [f \in Fd |-> "free"]
    /\ batch = {}
    /\ main = Looping
    /\ tasks = << >>
    /\ pc = [w \in Worker |-> "idle"]
    /\ on = [w \in Worker |-> None]
    /\ to = [w \in Worker |-> None]

(* The other ends.  An agent only answers on a connection it accepted.     *)
peer_sends(f) ==
    /\ f \in Fd => sock[f] = "up" /\ f \in spoken
    /\ data' = [data EXCEPT ![f] = TRUE]
    /\ UNCHANGED <<listening, opened, spoken, sock, interest, table, batch,
                   main, poolVars, ownVars>>

peer_closes(f) ==
    /\ sock[f] = "up"
    /\ sock' = [sock EXCEPT ![f] = "dead"]
    /\ UNCHANGED <<listening, opened, spoken, data, interest, table, batch,
                   main, poolVars, ownVars>>

connect_ends(f) ==
    /\ sock[f] = "connecting"
    /\ \E result \in {"up", "failed"} :
          sock' = [sock EXCEPT ![f] = result]
    /\ UNCHANGED <<listening, opened, spoken, data, interest, table, batch,
                   main, poolVars, ownVars>>

----------------------------------------------------------------------------
(* The main thread.                                                        *)

Readable(f) == data[f] \/ (f \in Fd /\ sock[f] \in {"dead", "failed"})

(* The events epoll would report.  An armed descriptor is watched for      *)
(* input, a connecting one for input and output; an error sets both.       *)
ReadyEvents ==
    {[fd |-> f, in |-> TRUE, out |-> FALSE] :
        f \in {d \in Desc : interest[d] = "armed" /\ Readable(d)}}
    \cup
    {[fd |-> f, in |-> Readable(f), out |-> TRUE] :
        f \in {d \in Fd : interest[d] = "level"
                            /\ sock[d] \in {"up", "dead", "failed"}}}

(* epoll_wait; EPOLLONESHOT disarms what it reports. *)
epoll_wait ==
    /\ main = Looping
    /\ batch = {}
    /\ ReadyEvents # {}
    /\ batch' = ReadyEvents
    /\ interest' = [f \in Desc |->
          IF interest[f] = "armed" /\ Readable(f) THEN "off" ELSE interest[f]]
    /\ UNCHANGED <<listening, opened, spoken, sock, data, table, main,
                   poolVars, ownVars>>

(* The branches of the loop body for the UDP socket and for connections.   *)
dispatch(e) ==
    /\ main = Looping
    /\ batch' = batch \ {e}
    /\ main' = IF e.out THEN [Looping EXCEPT !.pc = "out", !.fd = e.fd]
               ELSE Looping
    /\ \/ /\ e.in
          /\ thread_pool_push_task(IF e.fd = udp_fd THEN "TASK_UDP_DISCOVERY"
                                   ELSE "TASK_TCP_CLIENT_MSG", e.fd)
       \/ /\ ~e.in
          /\ UNCHANGED poolVars
    /\ UNCHANGED <<listening, kernelVars, table, ownVars>>

(* handle_tcp_timer_expiration: two seconds after the start. *)
handle_tcp_timer_expiration ==
    /\ main = Looping
    /\ ~listening
    /\ listening' = TRUE
    /\ UNCHANGED <<kernelVars, table, batch, main, poolVars, ownVars>>

(* The branches for the periodic timers. *)
TimerTasksPending ==
    Cardinality({i \in DOMAIN tasks : tasks[i].type \in TimerTask})
    + Cardinality({w \in Worker :
          pc[w] \in {"announce", "collect", "sweep", "notify", "done"}})

timer_expires(type) ==
    /\ main = Looping
    /\ TimerTasksPending < MaxTicks
    /\ thread_pool_push_task(type, None)
    /\ UNCHANGED <<listening, kernelVars, table, batch, main, ownVars>>

handle_new_tcp_connection(f) ==
    /\ main = Looping
    /\ listening
    /\ NewSocket(f, "up", "client", "armed")
    /\ UNCHANGED <<listening, batch, main, poolVars, ownVars>>

(* handle_connection_success: SO_ERROR is clear.  The pending message is   *)
(* sent and the descriptor is watched for input from now on.               *)
connection_established ==
    LET f == main.fd
    IN  /\ main.pc = "out"
        /\ sock[f] \notin {"closed", "failed"}
        /\ interest' = [interest EXCEPT ![f] =
                           IF @ = "none" THEN "none" ELSE "armed"]
        /\ spoken' = spoken \cup {f}
        /\ main' = Looping
        /\ UNCHANGED <<listening, opened, sock, data, table, batch, poolVars,
                       ownVars>>

(* ... or getsockopt reports an error (and clears it): ACTION_DISCONNECTED *)
(* puts the consequences in an outbox, ...                                 *)
connection_failed ==
    LET f == main.fd
    IN  /\ main.pc = "out"
        /\ sock[f] \in {"closed", "failed"}
        /\ sock' = [sock EXCEPT ![f] = IF @ = "failed" THEN "dead" ELSE @]
        /\ main' = [main EXCEPT !.pc = "send"]
        /\ UNCHANGED <<listening, opened, spoken, data, interest, table, batch,
                       poolVars, ownVars>>

(* ... which main sends as any handler does, ... *)
send_failure ==
    /\ main.pc = "send"
    /\ \/ /\ Sent
          /\ main' = [main EXCEPT !.pc = "wipe"]
       \/ /\ \E p \in Peer : /\ NotConnected(p)
                             /\ main' = [main EXCEPT !.pc = "connect", !.to = p]
          /\ UNCHANGED spoken
    /\ UNCHANGED <<listening, opened, sock, data, interest, table, batch,
                   poolVars, ownVars>>

connect_failure ==
    /\ main.pc = "connect"
    /\ Opened(main.to)
    /\ main' = [main EXCEPT !.pc = "wipe", !.to = None]
    /\ UNCHANGED <<listening, batch, poolVars, ownVars>>

(* ... the entry of the table goes, and then the descriptor, whichever     *)
(* socket that is by now: it may be the one main has just opened.          *)
wipe_failed ==
    /\ main.pc = "wipe"
    /\ table' = [table EXCEPT ![main.fd] = "free"]
    /\ main' = [main EXCEPT !.pc = "close"]
    /\ UNCHANGED <<listening, kernelVars, batch, poolVars, ownVars>>

close_failed ==
    /\ main.pc = "close"
    /\ close(main.fd)
    /\ main' = Looping
    /\ UNCHANGED <<listening, table, batch, poolVars, ownVars>>

----------------------------------------------------------------------------
(* worker_thread.                                                          *)

wait_for_task(w) ==
    /\ pc[w] = "idle"
    /\ tasks = << >>
    /\ pc' = [pc EXCEPT ![w] = "asleep"]
    /\ UNCHANGED <<listening, kernelVars, table, batch, main, tasks,
                   ownVars>>

(* pthread_cond_wait may return without a signal. *)
spurious_wakeup(w) ==
    /\ pc[w] = "asleep"
    /\ pc' = [pc EXCEPT ![w] = "idle"]
    /\ UNCHANGED <<listening, kernelVars, table, batch, main, tasks,
                   ownVars>>

(* The switch over the type of a task. *)
FirstStep(type) ==
    CASE type = "TASK_TCP_CLIENT_MSG"    -> "read"
      [] type = "TASK_UDP_DISCOVERY"     -> "datagram"
      [] type = "TASK_UDP_ANNOUNCE"      -> "announce"
      [] type = "TASK_GARBAGE_COLLECTOR" -> "collect"

take_task(w) ==
    /\ pc[w] = "idle"
    /\ tasks # << >>
    /\ tasks' = Tail(tasks)
    /\ pc' = [pc EXCEPT ![w] = FirstStep(Head(tasks).type)]
    /\ on' = [on EXCEPT ![w] = Head(tasks).fd]
    /\ UNCHANGED <<listening, kernelVars, table, batch, main, to>>

(* handle_client_message: what recv finds decides the branch.  A pending   *)
(* error is reported once.                                                 *)
handle_client_message(w) ==
    LET f == on[w]
    IN  /\ pc[w] = "read"
        /\ \/ /\ data[f]
              /\ pc' = [pc EXCEPT ![w] = "answer"]
              /\ UNCHANGED sock
           \/ /\ ~data[f] /\ sock[f] \in {"up", "connecting"}
              /\ pc' = [pc EXCEPT ![w] = "rearm"]
              /\ UNCHANGED sock
           \/ /\ ~data[f] /\ sock[f] \in {"dead", "failed", "closed"}
              /\ pc' = [pc EXCEPT ![w] = "drop"]
              /\ sock' = [sock EXCEPT ![f] =
                             IF @ = "failed" THEN "dead" ELSE @]
        /\ data' = [data EXCEPT ![f] = FALSE]
        /\ UNCHANGED <<listening, opened, spoken, interest, table, batch,
                       main, tasks, ownVars>>

(* Mutation: an answered message is not followed by rearm_epoll_fd. *)
AfterOutbox_NoRearm(step) ==
    CASE step = "answer" -> "done"
      [] step = "drop"   -> "close"
      [] step = "notify" -> "done"

(* What a worker does after its outbox is sent: an answered message ends   *)
(* in rearm_epoll_fd, a lost connection in close, a collection in nothing. *)
AfterOutbox(step) ==
    CASE step = "answer" -> "rearm"
      [] step = "drop"   -> "close"
      [] step = "notify" -> "done"

(* send_outbox: the messages go out, or there is no connection for peer p. *)
(* At most one new connection for each outbox.                             *)
send_outbox(w) ==
    /\ pc[w] \in {"answer", "drop", "notify"}
    /\ to[w] = None
    /\ \/ /\ Sent
          /\ pc' = [pc EXCEPT ![w] = AfterOutbox(pc[w])]
          /\ UNCHANGED to
       \/ /\ \E p \in Peer : /\ NotConnected(p)
                             /\ to' = [to EXCEPT ![w] = p]
          /\ UNCHANGED <<spoken, pc>>
    /\ UNCHANGED <<listening, opened, sock, data, interest, table, batch,
                   main, tasks, on>>

open_connection(w) ==
    /\ to[w] # None
    /\ Opened(to[w])
    /\ to' = [to EXCEPT ![w] = None]
    /\ pc' = [pc EXCEPT ![w] = AfterOutbox(pc[w])]
    /\ UNCHANGED <<listening, batch, main, tasks, on>>

(* The end of a lost connection: remove_from_epoll_interest_list, close... *)
close_client(w) ==
    /\ pc[w] = "close"
    /\ close(on[w])
    /\ pc' = [pc EXCEPT ![w] = "wipe"]
    /\ UNCHANGED <<listening, table, batch, main, tasks, ownVars>>

(* ... and only then the entry of active_connections. *)
wipe_connection(w) ==
    /\ pc[w] = "wipe"
    /\ table' = [table EXCEPT ![on[w]] = "free"]
    /\ pc' = [pc EXCEPT ![w] = "rearm"]
    /\ UNCHANGED <<listening, kernelVars, batch, main, tasks, ownVars>>

(* Mutation: a descriptor that is no longer registered is added again. *)
rearm_epoll_fd_Adds(w) ==
    /\ pc[w] = "rearm"
    /\ interest' = [interest EXCEPT ![on[w]] = "armed"]
    /\ pc' = [pc EXCEPT ![w] = "idle"]
    /\ on' = [on EXCEPT ![w] = None]
    /\ UNCHANGED <<listening, opened, spoken, sock, data, table, batch, main,
                   tasks, to>>

(* rearm_epoll_fd fails when the descriptor was closed and is not          *)
(* registered; every other one it arms, whichever socket that is by now.   *)
rearm_epoll_fd(w) ==
    /\ pc[w] = "rearm"
    /\ interest' = [interest EXCEPT ![on[w]] =
                       IF @ = "none" THEN "none" ELSE "armed"]
    /\ pc' = [pc EXCEPT ![w] = "idle"]
    /\ on' = [on EXCEPT ![w] = None]
    /\ UNCHANGED <<listening, opened, spoken, sock, data, table, batch, main,
                   tasks, to>>

(* Mutation: the discovery socket is left disarmed after its datagram. *)
handle_incoming_discovery_NoRearm(w) ==
    /\ pc[w] = "datagram"
    /\ data' = [data EXCEPT ![udp_fd] = FALSE]
    /\ pc' = [pc EXCEPT ![w] = "done"]
    /\ UNCHANGED <<listening, opened, spoken, sock, interest, table, batch,
                   main, tasks, ownVars>>

handle_incoming_discovery(w) ==
    /\ pc[w] = "datagram"
    /\ data' = [data EXCEPT ![udp_fd] = FALSE]
    /\ pc' = [pc EXCEPT ![w] = "rearm"]
    /\ UNCHANGED <<listening, opened, spoken, sock, interest, table, batch,
                   main, tasks, ownVars>>

(* handle_check_deadnodes: find_fd_by_ip_port for a node that fell silent, *)
(* or no such node.  Several dead nodes of a pass are several passes here. *)
find_zombie(w) ==
    /\ pc[w] = "collect"
    /\ \/ \E f \in Fd :
             /\ table[f] \in Peer
             /\ on' = [on EXCEPT ![w] = f]
             /\ pc' = [pc EXCEPT ![w] = "sweep"]
       \/ /\ pc' = [pc EXCEPT ![w] = "notify"]
          /\ UNCHANGED on
    /\ UNCHANGED <<listening, kernelVars, table, batch, main, tasks, to>>

(* ... closes the descriptor and leaves its entry in the table. *)
close_zombie(w) ==
    /\ pc[w] = "sweep"
    /\ close(on[w])
    /\ pc' = [pc EXCEPT ![w] = "notify"]
    /\ on' = [on EXCEPT ![w] = None]
    /\ UNCHANGED <<listening, table, batch, main, tasks, to>>

(* A task that rearms nothing ends. *)
task_done(w) ==
    /\ pc[w] \in {"announce", "done"}
    /\ pc' = [pc EXCEPT ![w] = "idle"]
    /\ on' = [on EXCEPT ![w] = None]
    /\ UNCHANGED <<listening, kernelVars, table, batch, main, tasks, to>>

----------------------------------------------------------------------------
main_step ==
    \/ epoll_wait
    \/ \E e \in batch : dispatch(e)
    \/ connection_established
    \/ connection_failed
    \/ send_failure
    \/ connect_failure
    \/ wipe_failed
    \/ close_failed

worker_step(w) ==
    \/ wait_for_task(w)
    \/ take_task(w)
    \/ handle_client_message(w)
    \/ send_outbox(w)
    \/ open_connection(w)
    \/ close_client(w)
    \/ wipe_connection(w)
    \/ rearm_epoll_fd(w)
    \/ handle_incoming_discovery(w)
    \/ find_zombie(w)
    \/ close_zombie(w)
    \/ task_done(w)

Next ==
    \/ main_step
    \/ handle_tcp_timer_expiration
    \/ \E type \in TimerTask : timer_expires(type)
    \/ \E w \in Worker : worker_step(w) \/ spurious_wakeup(w)
    \/ peer_sends(udp_fd)
    \/ \E f \in Fd :
          \/ handle_new_tcp_connection(f)
          \/ peer_sends(f)
          \/ peer_closes(f)
          \/ connect_ends(f)

Spec == Init /\ [][Next]_vars

(* Fairness: the main thread and every worker run on. *)
LiveSpec ==
    /\ Spec
    /\ WF_vars(main_step)
    /\ \A w \in Worker : WF_vars(worker_step(w))

----------------------------------------------------------------------------
(* Type correctness; a closed descriptor is watched by nobody, and only    *)
(* the thread that looked a peer up remembers it.                          *)
TypeOK ==
    /\ listening \in BOOLEAN
    /\ opened \in 0 .. MaxSockets
    /\ sock \in [Fd -> {"closed", "connecting", "failed", "up", "dead"}]
    /\ spoken \subseteq Fd
    /\ data \in [Desc -> BOOLEAN]
    /\ interest \in [Desc -> {"none", "level", "armed", "off"}]
    /\ \A f \in Fd : sock[f] = "closed" <=> interest[f] = "none"
    /\ table \in [Fd -> Peer \cup {"free", "client"}]
    /\ batch \subseteq Event
    /\ main \in Connecting \cup {Looping}
    /\ tasks \in Seq(WorkerTask)
    /\ Len(tasks) <= MAX_QUEUE
    /\ pc \in [Worker -> {"idle", "asleep", "read", "answer", "drop", "close",
                          "wipe", "rearm", "datagram", "announce", "collect",
                          "sweep", "notify", "done"}]
    /\ on \in [Worker -> Desc \cup {None}]
    /\ to \in [Worker -> Peer \cup {None}]
    /\ \A w \in Worker : to[w] # None => pc[w] \in {"answer", "drop", "notify"}

(* No lost wake-up: while a worker sleeps in pthread_cond_wait, every task *)
(* in the ring has a worker that is awake and free to take it.  A task     *)
(* never waits for a busy worker while another one sleeps.                 *)
WakeupsSuffice == Asleep # {} => Len(tasks) <= Cardinality(Idle)

InCharge(f) ==
    \/ \E e \in batch : e.fd = f
    \/ \E i \in DOMAIN tasks : tasks[i].fd = f
    \/ main.fd = f
    \/ \E w \in Worker : on[w] = f

(* A descriptor that EPOLLONESHOT has disarmed is in somebody's hands: an  *)
(* event main has still to process, a task in the ring, or the handler     *)
(* that will rearm or close it.  One that is not stays deaf for ever.      *)
NoDeafDescriptor == \A f \in Desc : interest[f] = "off" => InCharge(f)

(* No message is left behind: bytes that arrive are read (or go with their *)
(* connection), whatever is reported, queued, closed or reused meanwhile.  *)
MessagesAreRead == \A f \in Desc : data[f] ~> ~data[f]
=============================================================================
