# TLA+ models of the HPC resource manager

Each machine of the cluster runs a C agent (`src/c_agent`), which manages the
machine's CPU, memory and GPU units, and an Erlang scheduler (`src/erlang`),
which makes up jobs that need resources of several machines. The scheduler gives
a `JOB_REQUEST` to its local agent; the agent reserves the petitions of the job
one after the other at the agents that own the resources, reports
`JOB_GRANTED`, `JOB_DENIED` or `JOB_TIMEOUT`, and gives everything back on
`JOB_RELEASE`. An agent is therefore a *server* of its own resources and a
*client*, or coordinator, for its scheduler's jobs. Both roles run on a pool of
worker threads that share three mutex-protected tables.

## Inventory

| Part | State | Operations | Talks to | What is hard |
|---|---|---|---|---|
| local inventory: `local_resource.c`, `queues.c` | `avail`, `request_queue` per type, `active_jobs` | `new_job_request`, `chk_job_request`, `del_active_job`, `free_all_resources_from_socket` | called under `lock_local` | many paths change two counters; deletion by key; limits |
| server role: `resource_adapter.c` | the above, an outbox per handler | `handle_reserve`, `handle_release`, `ACTION_DISCONNECTED` | RESERVE, RELEASE in; GRANTED, DENIED out | waking waiters, descriptors that are reused, outbox limit |
| owned jobs: `owned_jobs.c` | job -> petitions, flags, owner | add, mark granted, next reserve, granted list, remove; visitors for dead node, timeout, orphan | called under `lock_owned`, once without it | one petition at a time, fixed arrays |
| client role: `resource_adapter.c` | the above | `handle_job_request`, `handle_granted`, `handle_denied`, `handle_job_release`, `handle_check_deadnodes`, `ACTION_DISCONNECTED` | scheduler, all other agents | answers in any order, five ways to roll a job back, timeouts against late grants |
| connections: `event_handler.c`, `sys_socket.c`, `sys_epoll.c` | `active_connections`, epoll interest | accept, read, send or connect, close | every worker | descriptor reuse, two workers opening two connections, messages that overtake a pending one, lines cut by `recv` |
| thread pool: `thread_pool.c`, `main.c` | ring of 1024 tasks | push, take | epoll loop, handlers | dropped task with a one-shot descriptor |
| directory: `known_nodes.c` | node -> units, time stamp | update, payload, remove inactive | ANNOUNCE broadcasts | stale availability, limit of 10 per pass |
| hash table: `tablahash.c` | slots, tombstones | insert, search, delete, visit, resize | the three tables | probing through tombstones, resizing |
| Erlang: `job_scheduler.erl`, `erlang_c_bridge.erl` | job -> status | request, granted, denied, timeout, release | local agent | late answers, order of petitions (`ENV=DEV` sorts, `TEST` does not) |

What makes each part correct: the inventory never promises a unit twice nor
loses one, serves whoever it can, and leaves nothing behind for a dead peer; the
coordinator holds nothing that comes after what it waits for (this is what
prevents deadlock), believes only grants that are real, gives back everything
it knows of, and answers every request exactly as its protocol says; agents
together never wait in a circle and never let two jobs overlap; the directory
declares nobody dead who lives; a message is sent once and over the connection
its answer depends on; the hash table is a dictionary; the scheduler and its agent
agree on which jobs exist, whichever of them dies.

## Modules

| Module | Models | Kind |
|---|---|---|
| `LocalResource` | `local_resource.c`, `queues.c`, contract of the hash table | operators on an inventory record |
| `LocalResourceProofs` | | lemmas on the inventory, used by two proof modules |
| `ResourceServer` | the handlers under `lock_local` | state machine over `LocalResource` |
| `MCResourceServer` | | instances for TLC |
| `ResourceServerProofs` | | lemmas and theorems |
| `EventLoop` | the epoll loop of `main.c`, `thread_pool.c`, the life of a descriptor in `event_handler.c` | state machine |
| `MCEventLoop` | | instances for TLC |
| `EventLoopProofs` | | lemmas and theorems |
| `OwnedJobs` | `owned_jobs.c` | operators on the table of jobs |
| `JobCoordinator` | the handlers under `lock_owned`, abstract servers and network | state machine over `OwnedJobs` |
| `MCJobCoordinator` | | instances for TLC |
| `JobCoordinatorProofs` | | lemmas and theorems |
| `Cluster` | several agents, each client and server, and the sort of `generate_job_request` | state machine over `OwnedJobs` and `LocalResource` |
| `Allocator` | what the cluster promises the schedulers | abstract specification, implemented by `Cluster` |
| `MCCluster` | | instance for TLC |
| `ClusterProofs` | | lemmas and theorems |
| `TablaHash` | `tablahash.c` | state machine |
| `Dictionary` | the contract of `tablahash.h` | abstract specification, implemented by `TablaHash` |
| `MCTablaHash` | | instance for TLC |
| `TablaHashProofs` | | lemmas and theorems |
| `KnownNodes` | `known_nodes.c` | operators on the directory |
| `Connections` | discovery, the collector, `send_outbox` and `handle_connection_success` | state machine over `KnownNodes` |
| `MCConnections` | | instances for TLC |
| `ConnectionsProofs` | | lemmas and theorems |
| `Scheduler` | `job_scheduler.erl`, `erlang_c_bridge.erl`, the stream to the agent and how the agent cuts it into lines | state machine |
| `MCScheduler` | | instances for TLC |
| `SchedulerProofs` | | lemmas and theorems |

The modules overlap on purpose, each at the grain its question needs:
`LocalResource` and `OwnedJobs` are shared by the models of one agent and by
`Cluster`; `JobCoordinator` replaces the servers by what `ResourceServer` lets a
client see, `Scheduler` replaces the agent by what `JobCoordinator` lets a scheduler
see, and `Connections` replaces the handlers by the messages they send.

### ResourceServer

`res` is `NODE->resources` with `NODE->active_jobs`. A handler holds
`lock_local` from beginning to end; `handle_reserve` is one step, and the two
handlers with loops are split at each iteration while `lock` (and `sweeping`)
say who holds the mutex, so nothing else runs in between. This keeps each step
simple enough to prove about and adds no behaviour. `chk_job_request` starts at
a random type: every type may be the one served. `outbox` is the array the
handler passes to `send_outbox`, with its capacity.

The active table is the set of its elements, and `tablahash_insertar` overwrites
by key as the C function does. Quantities are natural numbers: `NoOvercommit`
and `TypeOK` show that the unsigned subtractions never wrap.

`Admissible` is what the peers may ask for. Identifiers come from
`erlang:unique_integer`, so a key is not repeated while it is in use; with
`RepeatIds` (a restarted scheduler numbers its jobs from the start again) it may
be.

### JobCoordinator

Every handler is one step, for it holds `lock_owned`, except
`handle_job_request`: it releases the lock before it looks the job up again, and
is three steps (`handle_job_request`, `first_reserve`, `first_send`). If the job
is freed in between, what `first_send` sends is undefined: to the old address,
to another, or nowhere. If the table is resized under the unlocked lookup, the
job may be missed.

An outbox is sent after the lock is released by a worker that may be slow, so
messages overtake each other: `net` is a set. A RELEASE, for instance, may
arrive before the RESERVE of another petition. The servers are reduced to what
`ResourceServer` lets a client see: a RESERVE is granted, queued and perhaps
granted later, or denied; a RELEASE frees all types of the job on that
connection and leaves its queued requests alone; a broken connection is swept.
Connections to a node are numbered, because a server files reservations under
the descriptor they came on. `zombie` holds the nodes whose connection is closed
while `active_connections` still lists it: the worker wipes it a little after
the rollback, the garbage collector never does and leaves it to the next user of
the descriptor. `acked` is a history variable. So is `answers`, which counts the
answers to each job by kind: two workers send their outboxes in either order, so a
scheduler may read JOB_DENIED before the JOB_GRANTED it revokes, and no order is claimed.

`Faults` switches the failures: `timeout`, `scheduler` (its socket closes),
`link` (a connection breaks), `silence` (ANNOUNCEs stop), `race` (the missed
lookup). The age of a job is not kept: any job that is not fully granted may be
found too old.

### EventLoop

The main thread, the workers and the kernel. A descriptor has a socket (`sock`),
perhaps bytes to read (`data`), an entry in epoll's interest list (`interest`:
armed with EPOLLONESHOT, disarmed by an event, or level-triggered while it
connects) and one in `active_connections` (`table`). `batch` is what one
`epoll_wait` returned, so main works on events that other threads may have
overtaken. Workers are cut before each use of the descriptor they were given:
`recv`, sending, `close`, wiping the table, `rearm_epoll_fd`. Three threads
close descriptors (the worker that reads the end of a connection, main after a
failed connect, the garbage collector), and every closed number is given out
again. After a failed connect main sends the outbox of ACTION_DISCONNECTED before it
wipes the entry and closes the descriptor, and may open a connection for it
(`send_failure`, `connect_failure`). `spoken` keeps peers from talking before they are asked: an agent only
answers on a connection it accepted.

A failed connect is reported as readable and writable, and its error is
delivered once, to whichever of `recv` and `getsockopt` comes first; both follow
Linux. The ring is a bounded sequence; `pthread_cond_signal` wakes any one
sleeper, and a wait may end without a signal. A handler that sends opens at most
one new connection. Sending on a full or connecting socket, which the code does
in a loop of `usleep`, is taken to end.

### Cluster and Allocator

`owned[a]` is the table of agent `a`, `res[n]` the inventory of agent `n`, with the
operators of `OwnedJobs` and `LocalResource` unchanged; a peer is known by its
node, since there is one connection for each direction. `Need` says what each job
asks for; `JobRequests` is the order `generate_job_request` puts it in.
`handle_job_request` sends its first RESERVE in the same step here (its race is in
`JobCoordinator`). A job whose nodes announced nothing free sends a JOB_REQUEST without
resources (`job_scheduler.erl:306`): the agent records it and dispatches nothing
(`handle_empty_job_request`), and only its timeout would end it, so
`EveryJobFinishes` is about the jobs that ask for something. Nothing fails and no job times out in this module: the timeout
would break a deadlock after 20 s and hide it. The refinement mapping is the
identity on `running` (jobs whose JOB_GRANTED has been sent) and `finished`; what
`Allocator!Start` demands, that everything fits beside all running jobs at once,
is nowhere a test in the code and follows from the reservations one by one.

### TablaHash and Dictionary

The three loops that walk a cluster are one operator, the distance to the first
slot where they stop (`Salto`). `tablahash_insertar` is one step up to the
allocation of the larger array; the copy is one step for each old slot, during
which no operation runs (the tables are used under their mutex). The refinement
mapping takes the elements of the new array and those of the old one that are not
copied yet. `op` and `ret` make calls and results visible to `Dictionary`.

### KnownNodes and Connections

Ages are counted in announcement intervals of 5 s: `tick` ends an interval once
every live node has announced itself, or lost its datagram, and the collector has
run, in any order. Both timers have the same period (`server_init.c:33`,`39`); what delays a
datagram, a timer or a worker is taken to leave them in their interval. An age of `a`
intervals is thus anything between `a - 1` and `a + 1` of them, and the code compares whole
seconds (`known_nodes.c:69`,`201`,`222`): 15.01 s may count as 16. `Inactive` therefore lets
the collector find a node inactive, or not, from an age of `ANNOUNCE_TIMEOUT` on, and only
two intervals later must it. A live node is safe while no two of its announcements in a
row are lost; with two lost and the third a little late it may be removed.
`send_outbox` is cut at each of its calls: lookup,
`connect`, registration, sending. `handle_connection_success` belongs to main.
`send_tcp_message` waits while the socket is connecting, as the loop over EAGAIN
does. A worker that closes a descriptor wipes the entry later, by which time it may
be another's. The collector may close a descriptor between `connect` and its
registration; `epoll_ctl` then refuses it (EBADF) and main never hears of it. Incoming connections, and with them the
sweep of the reservations filed under the outgoing descriptor, are left out (see Remarks).
A `connect` that fails at once, and a number beyond `MAX_FDS`, drop the message; the
loss of messages is in `JobCoordinator`, not here.

### Scheduler

A state holds the map of `job_scheduler` without the pids, its mailbox, the sender's
mailbox, the sleeping `simulate_load` processes, and the connection: text in pieces
towards the agent (a command, its number, one piece per resource, an end), whole lines
back, because the socket is opened with `{packet, line}`. `handle_line` is one turn
of the loop over `strtok_r`. `Faults` switches what may happen: `fragment` (a
`recv` ends anywhere: `Prefix` says which numbers a cut may leave of a number, and a cut
inside a command or a resource is like one before or after it, for what is left of it is
no command and no resource, and amounts are not kept), `race` (an ANNOUNCE parsed at the same time ends the list of
`strtok` early), `crash` (the virtual machine dies), `agent` (the agent dies and is
started again). `wanted` is a history variable.

The sender's acknowledgements match no clause of the `receive`: their clauses stand
inside the `case` over `handle_packet`, which never returns them. They are therefore left out; jobs go
from `dispatched` to `granted`, which is the reason for the second status in the
guard at `job_scheduler.erl:59`. `dump_state` only prints. `client_disconnected` drops
every job of a scheduler that is gone; the code takes 50 at most, which with one job per NODES
message (`header.hrl:11`) is out of reach here. The limit is `MAX_ORPHANS` of `JobCoordinator`.

## Runs

Passing runs:

| Run | Shows |
|---|---|
| `server` | `TypeOK`, `NoOvercommit`, `Conservation`, `WaitingIsNotHeld`, `DeadSocketClean`, `GrantIsAnswered` with connections that break |
| `server_uniform` | `WorkConserving` while connections stand, `EventuallyServed` when requests of a type are of equal size |
| `event_loop` | `TypeOK`, `WakeupsSuffice`, `NoDeafDescriptor`, `MessagesAreRead` while descriptors are closed and reused |
| `coordinator` | `TypeOK`, `ReservedInOrder`, `GrantedIsHeld`, `RollbackIsComplete`, `AnswerDiscipline`, `EveryRequestAnswered` under all failures together |
| `cluster` | `TypeOK`, `NoCircularWait`, `HeldIsAccountedFor`, `AnswersExpected`; `ImplementsAllocator` (the refinement); `EveryJobFinishes` |
| `tablahash` | `TypeOK`, `CuentaExacta`, `CargaAcotada`, `TodoAlcanzable`; `EsDiccionario` (the refinement) |
| `connections` | `TypeOK`, `NoDuplicate`, `NoFalseDeath`, `DeadForgotten`, `EveryMessageArrives` with a node that may be killed or fall silent |
| `scheduler` | `TypeOK`, `AgentJobHasOwner`, `RunningIsHeld`, `EveryJobLeaves`, `EveryJobReleased` with deaths and restarts on both sides |

Runs that find a disagreement between the code and its comments or report:

| Run | The code | The claim |
|---|---|---|
| `server_disconnect_wakes` | a disconnection wakes nobody | comment over `chk_job_request`: call it after `ACTION_DISCONNECTED` |
| `coordinator_abandons` | a request queued at a server outlives its timed-out job and is granted to nobody | `informe.tex:356`: held resources are always freed; comment over `del_pending_job_requests` |
| `connections_two_workers` | two workers open two connections to one node; a RELEASE on the other one frees nothing | `informe.tex:268`: the outgoing descriptor is reused; `informe.tex:356` |
| `framing` | a JOB_REQUEST cut by `recv` is granted in part | `informe.tex:872`: no command is interpreted in part |

### Remarks

Seen while modelling, each a change of one constant or a short argument away
from a run above:

* First fit lets small requests hold a large one back for ever: with
  `Quantities = {1, 2}` in `server_uniform`, `EventuallyServed` fails
  (`informe.tex:574` says every request progresses).
* With `MaxSweep = 1` in `server`, `DeadSocketClean` fails: the 101st entry of a dead
  socket stays (`informe.tex:356`). With `MAX_AFFECTED = 1` in `coordinator`,
  `GrantedIsHeld` fails: the 21st job of a dead node keeps its grant
  (`informe.tex:360`).
* A connecting socket is registered without EPOLLONESHOT, and after a rearm two
  workers may read it at once (`informe.tex:247` says one thread at a time).
  `MessagesAreRead` holds all the same.
* `handle_job_request` calls `get_next_reserve` after it has released `lock_owned`
  (`informe.tex:336`). `coordinator` takes the undefined outcomes into account.
* The collector sweeps the outgoing descriptor of a silent node, under which nothing is
  filed: what that node held here stays until its connection breaks
  (`informe.tex:361`). No property is about it: for a silent node nothing is freed, and what
  a killed one held is swept by the end of its own connection (`DeadSocketClean`). It also
  closes the descriptor without wiping the entry, so later messages to the node go to
  whoever gets the number next.
* `strtok` keeps its place in a variable of the process and is used by
  `handle_job_request` and `handle_node_announced` under different locks. In
  `scheduler` the list of petitions may therefore end early, and
  `GrantCoversRequest` fails there too.
* With `fragment` in `scheduler`, `RunningIsHeld` fails: a `JOB_RELEASE 12` cut inside its
  number releases job 1, which runs (`informe.tex:872`).
* The clauses for acknowledgements in `job_scheduler.erl:86-121` are unreachable, and
  with them the retry of a JOB_RELEASE.
* `send_tcp_message` retries EAGAIN in a loop, from `handle_connection_success` under
  the write lock; `informe.tex:352` speaks of an outbox that avoids blocking.

### Bounds

* Server: two sockets, two jobs, types with 3 and 1 units, amounts 1, 2 and 4.
  This gives requests that fit, wait and are refused, two waiting requests of
  which only the second fits, one release that wakes two, a job that holds both
  types, the same job number from two peers, and a descriptor that is reused.
  The number of waiting requests is bounded by the keys, for no run lets a peer
  repeat one; `RepeatIds = TRUE` is what the theorem `NeverOvercommitted` covers.
* Event loop: two workers, one TCP number that is used by two sockets one after
  the other (`MaxSockets`), the discovery socket, one peer, one timer task at a
  time (`MaxTicks`), a ring with room for all tasks of this instance. This
  reaches a task and a handler that outlive their socket, a rearm that hits the
  next socket, a collection of a descriptor in use, and two tasks for one
  descriptor. More numbers, so that main opens a connection while it closes another, are
  covered by the theorems. With a ring that can fill up, `NoDeafDescriptor` fails: a dropped task
  leaves its descriptor disarmed.
* Coordinator: two nodes; a job that needs both, one that needs two types of
  one node and has a petition more than `MAX_JOB_RESOURCES`; at most `MaxConn` connections to a
  node, so each connection is lost and replaced once. A bounded set of jobs is
  eventually used up, so these runs do not check for deadlock.
* `MAX_OUTBOX`, `MaxSweep`, `MAX_AFFECTED`, `MAX_ORPHANS` are above what the
  instance can reach, as 128, 100, 20 and 50 usually are. The outbox limit is in the models
  (`add_to_outbox`, `Outboxes`): with `MAX_OUTBOX = 1`, `GrantIsAnswered` and
  `RollbackIsComplete` fail.

* Cluster: two agents with 2 CPUs and 1 GPU each; four jobs, two of each
  scheduler, with two or three petitions over both nodes, and one without any. The four do not fit together, so
  requests wait at both nodes at once, in chains of up to four, and a small request
  overtakes a large one in a queue. With the petitions unsorted (`ENV=TEST`) the same
  instance has a circular wait. All jobs are used up, so there is no check for
  deadlock; `EveryJobFinishes` says that it is not one.
* Hash table: capacity 3 instead of 11, five keys of which four start in the last slot
  and collide in pairs after the first resize: clusters that wrap around, tombstones in
  their middle, reuse, overwriting behind a tombstone, and two resizes.
* Connections: one node, two workers, two descriptors, two jobs, so up to four messages
  in any order of lookups and handshakes; each descriptor is used again after a death.
  `ANNOUNCE_TIMEOUT` is three intervals, as in the code, and `MaxLost` one datagram in a row,
  the most for which `NoFalseDeath` holds. Two nodes add nothing to
  these questions, since nodes share only the set of descriptors.
* Scheduler: two identifiers, 1 and 12, so that one is what a cut may leave of the other, used
  again once nothing mentions them, two resources at most,
  two attempts to connect, one GET_NODES on its way at a time. A read returns all there
  is (`Buffer` = 20 pieces) unless `fragment` is on. A scheduler starts again only after
  the agent has seen its connection close and has written its answers; before that it
  could meet its predecessor's identifiers, which `unique_integer` counts from 1 again.

### Fairness

* `ResourceServer!LiveSpec`: a handler inside `lock_local` runs to its end (its
  loops make no blocking call), and the RELEASE of a job that holds something is
  eventually handled. The latter, strong fairness because the worker that read the message
  is one of several waiting for the mutex, is an assumption on the peers which not all of
  them keep: a reservation granted after its job timed out is released by nobody
  (`coordinator_abandons`), and a RELEASE on another connection frees nothing
  (`connections_two_workers`). `EventuallyServed` is conditional: *if* what is granted is
  given back, the server's own handling leaves no request behind. Nothing forces peers to
  ask, or not to ask.
* `EventLoop!LiveSpec`: main and every worker run on (threads, preemptively
  scheduled). Nothing is assumed of peers and timers.
* `JobCoordinator!LiveSpec`: the periodic timer of the garbage collector fires
  until a job that is too old is collected, and the worker of a JOB_REQUEST
  runs on. No fairness for servers or network: the timeout is what answers.

* `Cluster!LiveSpec`: each message in flight is handled, a handler inside `lock_local`
  goes on, a running job ends (`simulate_load` sleeps at most 5 s). Weak fairness for
  each message suffices; requests are finite in number, so first fit starves nobody here.
* `Connections!LiveSpec`: the two periodic timers, workers and main run on, the kernel
  ends each handshake one way or the other, a peer that is up reads its connections.
  Nothing is assumed of the scheduler's requests, of deaths or of lost datagrams.
* `Scheduler!LiveSpec`: the Erlang processes run, a load wakes up, the agent reads,
  handles and answers every job it has not granted (`EveryRequestAnswered` of the
  coordinator), and a side that died is started again. Crashes are never forced; that a
  granted job is revoked is not either.

## Proofs

Checked by TLAPS for all values of the constants, under the named assumptions of
the modules. Every invariant, action property and refinement of a passing run has a
theorem; liveness stays with TLC.

| Module | Theorem | Property | Hypothesis beside the module's assumption |
|---|---|---|---|
| `ResourceServerProofs` | `TypeCorrect` | `TypeOK` | |
| | `NeverOvercommitted` | `NoOvercommit` | |
| | `NoUnitIsLost` | `Conservation` | `~RepeatIds` |
| | `WaitingExcludesHeld` | `WaitingIsNotHeld` | `~RepeatIds` |
| | `ClosedSocketsAreClean` | `DeadSocketClean` | `[]SweepSuffices` |
| | `GrantsAreAnswered` | `GrantIsAnswered` | `[]OutboxSuffices` |
| | `QueueNeverIdles` | `WorkConserving` | no connection breaks (`Mortal = {}`) |
| `EventLoopProofs` | `TypeCorrect` | `TypeOK` | |
| | `NoLostWakeup` | `WakeupsSuffice` | |
| | `NobodyGoesDeaf` | `NoDeafDescriptor` | `[]RoomForEvents` |
| `JobCoordinatorProofs` | `TypeCorrect` | `TypeOK` | |
| | `ReservesInOrder` | `ReservedInOrder` | |
| | `AnswersAreFinal` | `AnswerDiscipline` | |
| | `GrantsAreHeld` | `GrantedIsHeld` | `[]AffectedFit` |
| | `RollbacksAreComplete` | `RollbackIsComplete` | `DistinctPetitions`, `[]RollbacksFit` |
| `ClusterProofs` | `TypeCorrect` | `TypeOK` | |
| | `AnswersAreExpected` | `AnswersExpected` | |
| | `HeldIsNeverForgotten` | `HeldIsAccountedFor` | |
| | `NoDeadlock` | `NoCircularWait` | |
| | `Refinement` | `ImplementsAllocator` | |
| `TablaHashProofs` | `TypeCorrect` | `TypeOK` | |
| | `CountIsExact` | `CuentaExacta` | |
| | `LoadIsBounded` | `CargaAcotada` | |
| | `EveryElementIsReachable` | `TodoAlcanzable` | |
| | `Refinement` | `EsDiccionario` | |
| `ConnectionsProofs` | `TypeCorrect` | `TypeOK` | |
| | `DeliveredAtMostOnce` | `NoDuplicate` | |
| | `NoLiveNodeIsRemoved` | `NoFalseDeath` | `MaxLost + 1 < ANNOUNCE_TIMEOUT` |
| `SchedulerProofs` | `TypeCorrect` | `TypeOK` | |
| | `NothingRunsUnheld` | `RunningIsHeld` | no `fragment`, `[]TextFits` |
| | `NoJobIsOrphaned` | `AgentJobHasOwner` | no `fragment`, `[]TextFits` |

### Hypotheses

Each hypothesis is a limit of the code beyond which the property may fail; the theorem
says that nothing else makes it fail. All of them hold in every state of the passing run
that checks the property.

* `~RepeatIds`: no peer uses a key again while it is in use. A restarted scheduler
  counts from 1 again and may (`tablahash_insertar` then overwrites, and units are lost).
* `SweepSuffices`: no socket holds more entries than one sweep takes (100).
* `OutboxSuffices`: no handler of the server starts a message with a full outbox (128).
* `RoomForEvents`: the ring (1024) has room while main has an event of input to queue;
  `thread_pool_push_task` drops the task otherwise, and nobody rearms its descriptor.
* `AffectedFit`: no node serves more jobs of one agent than a rollback collects (20).
* `DistinctPetitions`: no request lists the same node and type twice.
  `generate_job_request` never does; another client of the agent could.
* `RollbacksFit`: the RELEASEs and answers of one rollback, of at most 20 or 50 jobs, fit
  in one outbox (128).
* `MaxLost + 1 < ANNOUNCE_TIMEOUT`: the announcements that may be lost in a row, and one more
  that is late, stay below the time-out: with 3 intervals, no two in a row are lost.
* `TextFits` and no `fragment`: each `recv` returns whole lines, and all there is on the way
  fits in its buffer. The run `framing` shows what a cut line does. `TypeCorrect` needs neither.

`ClusterAssumption` says of the jobs that nobody asks for more than a machine has
(`pick_resources` takes at most what a node announced as free), that a request has a petition at
most for each node and type and fits in `MAX_JOB_RESOURCES`, and that the two orders that
sort petitions are total. A job may ask for nothing.

### Arguments

`ResourceServerProofs`
: `IInv` is the types, the finiteness of the active table, and `NoOvercommit` itself.
  Finiteness is needed because `Held` counts units as the elements of a set: the
  lemmas of `LocalResourceProofs` (a union splits into disjoint parts, a singleton counts
  its quantity) are where the arithmetic is. `KInv` adds that keys are unique over the
  table and the queues together and that each type adds up to the hardware; with
  unique keys, deletion by key removes one request, and overwriting never happens.
  `DInv` adds to `DeadSocketClean` what holds between the two phases of a sweep.
  `QueueNeverIdles` rests on two facts: a grant only reduces what fits, and a new
  request waits only when it does not fit.

`EventLoopProofs`
: `TypeOK` is not inductive: a step may use a descriptor only because the worker got
  one of the right kind with its task, which `HandsOK` adds. `WakeupsSuffice` is
  inductive over these types: an accepted push while somebody sleeps adds one task and
  one idle worker, a task leaves together with the worker that takes it, and a worker
  falls asleep only when the ring is empty. `NoDeafDescriptor` needs that a worker
  whose task has no descriptor holds none, for taking a task or finding a zombie
  overwrites what it held (`FreeHands`), and that an event reports input or output.

`JobCoordinatorProofs`
: Layers. `IInv`: the unlocked `first_reserve` would dispatch a second petition if the
  job had already dispatched one; `Fresh` says it has not, and `handle_granted` keeps it
  because `mark_petition_as_granted` refuses a job with `next_reserve_idx = 0`. `TInv`:
  a petition that waits for an answer is in one place - its RESERVE being copied or on its way,
  in a queue, or answered. `AInv` relates the answers given to a job, counted by kind, to the state of
  the job. `LInv` says which connections are broken, and which of those the table still
  lists. `HInv` and `RInv` add what is held: a GRANTED on its way is for something
  held or for a broken connection, and a recorded reservation is not being asked for
  again. Most actions only take away, and are covered by lemmas on such steps.

`ClusterProofs`
: `IInv` says of each job, node and type where its petition is (`TokenOK`): its RESERVE on the
  way, queued, held with its GRANTED on the way, held and marked, or held with
  a RELEASE on the way; and of each job that the petitions before `next_reserve_idx`
  are granted. A job that asks for nothing has dispatched nothing (`Quiet`), so no answer is
  taken for it. `NoDeadlock` takes, of a circle of waiting jobs, the one whose pending petition comes last
  in the order: whoever it waits for holds that petition and waits for a
  later one. `Refinement`: a job that runs has all its petitions held, and what a
  machine holds fits (`NoOvercommit` for each machine).

`TablaHashProofs`
: `IInv` is reachability of every element, the exact count, the load limit, and during
  a copy the same of the old array, with the keys still to be copied absent from the new one.
  A probe is a least distance (`Salto`): that a slot to stop at exists follows from the
  load limit by counting, and that filling or deleting a slot keeps the others reachable
  from the least distance of each being unchanged.

`ConnectionsProofs`
: `AgesOK`: the age of a live node is at most the announcements it missed in a row, and one
  more until its turn in this interval; below `ANNOUNCE_TIMEOUT` the collector cannot find it
  inactive. `PInv`: a message is in one place - with the worker, pending in the
  table, on the wire, or with the peer. The proof met a case the model had wrong: a descriptor that
  the collector closes between `connect` and its registration.

`SchedulerProofs`
: `TInv` describes the text on its way as pieces of commands, each with a head. `LInv` is the life of
  an identifier while the connection is up, as relations between eleven sets (jobs of the scheduler,
  dispatched ones, loads, requests, releases and ends on their way, jobs of the agent,
  granted ones, grants, denials and time-outs on their way): for instance that a job with a
  request on its way is nowhere else, and that a granted or running job is held or denied. Each step
  moves an identifier from one set to another, by one lemma each. It includes that lines are whole and
  that each has the number it was written with. `OInv` adds that a job of the agent has an owner.

The library's induction theorems cannot be instantiated by the provers. Where an
argument needs a least or last element (`LeastNumber`, `NoDeadlock`), it is taken from the
well-foundedness of strict inclusion on finite subsets.

### Model-checked only

The liveness properties (fairness and ENABLED are out of the provers' reach):
`EventuallyServed`, `MessagesAreRead`, `EveryRequestAnswered`, `EveryJobFinishes`,
`DeadForgotten`, `EveryMessageArrives`, `EveryJobLeaves`,
`EveryJobReleased`. And the four properties of the runs that end in a violation.

Every property of a passing run is also checked against a mutation of the code's
model (the definitions whose comment begins with "Mutation"), which violates it.

## Not modelled

* The event logger, `dump_state`, printing and the wording of messages; parsing of numbers
  and names beyond what decides whether a line is taken (amounts that do not parse,
  addresses).
* Start-up: creating sockets and timers, the arguments; shutting down, for
  `main` does not return and the destructors are called by nobody. Allocation failures.
* The width of job identifiers and of the times in `time_t`.
* A second scheduler on one agent, or one that comes back before its predecessor's
  connection is seen closed.
* A peer that stops reading while its connection stands, and so blocks
  `send_tcp_message` for ever.
* Incoming connections next to outgoing ones in one table of descriptors: the collector's sweep
  under an outgoing number that an incoming connection may have by now.
* The amounts nodes announce: `handle_reserve` decides on its own inventory.

## Plan

Every component is modelled as far as the list above, and every safety property of a
passing run is proved. What is left:

1. Bounds on the constants in place of hypotheses on behaviours: `RoomForEvents` from the
   number of sockets and a capacity, `AffectedFit` and `RollbacksFit` from the number of jobs.
2. Facts about `KnownNodes` and `OwnedJobs` as lemmas of their own, shared by
   `JobCoordinatorProofs` and `ClusterProofs`.
