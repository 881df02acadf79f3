-------------------------- MODULE EventLoopProofs --------------------------
(***************************************************************************)
(* Proofs about EventLoop, for any number of workers, descriptors and      *)
(* peers and any capacity of the ring.                                     *)
(***************************************************************************)
EXTENDS EventLoop, FiniteSetTheorems, SequenceTheorems, TLAPS

----------------------------------------------------------------------------
(* The parts of the type invariant.                                        *)

KernelOK ==
    /\ opened \in 0 .. MaxSockets
    /\ sock \in [Fd -> {"closed", "connecting", "failed", "up", "dead"}]
    /\ spoken \subseteq Fd
    /\ data \in [Desc -> BOOLEAN]
    /\ interest \in [Desc -> {"none", "level", "armed", "off"}]
    /\ \A f \in Fd : sock[f] = "closed" <=> interest[f] = "none"

LoopOK ==
    /\ listening \in BOOLEAN
    /\ table \in [Fd -> Peer \cup {"free", "client"}]
    /\ batch \subseteq Event
    /\ \A e \in batch : e.out => e.fd \in Fd
    /\ main \in Connecting \cup {Looping}

Step == {"idle", "asleep", "read", "answer", "drop", "close", "wipe", "rearm",
         "datagram", "announce", "collect", "sweep", "notify", "done"}

PoolOK ==
    /\ tasks \in Seq(WorkerTask)
    /\ Len(tasks) <= MAX_QUEUE
    /\ pc \in [Worker -> Step]

(* What TypeOK lacks to be inductive: a worker has a descriptor at every   *)
(* step that uses one, and a TCP descriptor where only those occur.        *)
HandsOK ==
    /\ on \in [Worker -> Desc \cup {None}]
    /\ to \in [Worker -> Peer \cup {None}]
    /\ \A w \in Worker : to[w] # None => pc[w] \in {"answer", "drop", "notify"}
    /\ \A w \in Worker :
          pc[w] \in {"read", "answer", "drop", "close", "wipe", "sweep"}
              => on[w] \in Fd
    /\ \A w \in Worker : pc[w] = "rearm" \/ pc[w] = "datagram" => on[w] \in Desc

IInv == KernelOK /\ LoopOK /\ PoolOK /\ HandsOK

(* The initial state satisfies the invariant. *)
LEMMA InitIInv == Init => IInv
<1> SUFFICES ASSUME Init PROVE IInv
  OBVIOUS
<1> USE EventLoopAssumption
<1>1. KernelOK
  BY DEF Init, KernelOK, Desc
<1>2. LoopOK
  BY DEF Init, LoopOK, Looping
<1>3. PoolOK
  BY DEF Init, PoolOK, Step
<1>4. HandsOK
  BY DEF Init, HandsOK
<1> QED
  BY <1>1, <1>2, <1>3, <1>4 DEF IInv

----------------------------------------------------------------------------
(* The pieces the actions are made of.                                     *)

(* close leaves the kernel's tables consistent. *)
LEMMA CloseKernel ==
    ASSUME KernelOK, NEW f \in Fd, close(f) PROVE KernelOK'
<1> USE DEF KernelOK, close, Desc
<1>1. /\ opened' \in 0 .. MaxSockets
      /\ spoken' \subseteq Fd
      /\ data' \in [Desc -> BOOLEAN]
  OBVIOUS
<1>2. /\ sock' \in [Fd -> {"closed", "connecting", "failed", "up", "dead"}]
      /\ interest' \in [Desc -> {"none", "level", "armed", "off"}]
  OBVIOUS
<1>3. ASSUME NEW g \in Fd PROVE sock'[g] = "closed" <=> interest'[g] = "none"
  OBVIOUS
<1> QED
  BY <1>1, <1>2, <1>3

(* NewSocket does too, and files the socket. *)
LEMMA NewSocketKernel ==
    ASSUME KernelOK, NEW f \in Fd, NEW s \in {"up", "connecting"}, NEW o,
           NEW i \in {"armed", "level"}, NewSocket(f, s, o, i)
    PROVE  KernelOK'
<1> USE DEF KernelOK, NewSocket, Desc
<1>1. /\ spoken' \subseteq Fd
      /\ data' \in [Desc -> BOOLEAN]
  OBVIOUS
<1>2. opened' \in 0 .. MaxSockets
  BY EventLoopAssumption
<1>3. /\ sock' \in [Fd -> {"closed", "connecting", "failed", "up", "dead"}]
      /\ interest' \in [Desc -> {"none", "level", "armed", "off"}]
  OBVIOUS
<1>4. ASSUME NEW g \in Fd PROVE sock'[g] = "closed" <=> interest'[g] = "none"
  OBVIOUS
<1> QED
  BY <1>1, <1>2, <1>3, <1>4

(* thread_pool_push_task keeps the ring within its capacity and wakes at   *)
(* most one sleeping worker.                                               *)
LEMMA PushPool ==
    ASSUME PoolOK, NEW type, NEW f, [type |-> type, fd |-> f] \in WorkerTask,
           thread_pool_push_task(type, f)
    PROVE  /\ PoolOK'
           /\ \A w \in Worker : pc'[w] = pc[w]
                                  \/ (pc[w] = "asleep" /\ pc'[w] = "idle")
<1> DEFINE t == [type |-> type, fd |-> f]
<1>1. /\ tasks' \in Seq(WorkerTask)
      /\ Len(tasks') <= MAX_QUEUE
  <2>1. CASE Len(tasks) < MAX_QUEUE
    <3>1. tasks' = Append(tasks, t)
      BY <2>1 DEF thread_pool_push_task, Pushed
    <3> QED
      BY <2>1, <3>1, AppendProperties, LenProperties, EventLoopAssumption
         DEF PoolOK
  <2>2. CASE ~(Len(tasks) < MAX_QUEUE)
    BY <2>2 DEF thread_pool_push_task, Pushed, PoolOK
  <2> QED
    BY <2>1, <2>2
<1>2. pc' = pc \/ \E w \in Asleep : pc' = [pc EXCEPT ![w] = "idle"]
  BY DEF thread_pool_push_task, Signalled
<1>3. /\ pc' \in [Worker -> Step]
      /\ \A w \in Worker : pc'[w] = pc[w]
                             \/ (pc[w] = "asleep" /\ pc'[w] = "idle")
  BY <1>2 DEF PoolOK, Asleep, Step
<1> QED
  BY <1>1, <1>3 DEF PoolOK

----------------------------------------------------------------------------
(* A step of the network preserves the invariant. *)
LEMMA NetworkStep ==
    ASSUME IInv,
           \/ peer_sends(udp_fd)
           \/ \E f \in Fd : peer_sends(f) \/ peer_closes(f) \/ connect_ends(f)
    PROVE  IInv'
<1> USE DEF IInv
<1>1. /\ LoopOK' /\ PoolOK' /\ HandsOK'
  <2>1. UNCHANGED <<listening, table, batch, main, tasks, pc, on, to>>
    BY DEF peer_sends, peer_closes, connect_ends, poolVars, ownVars
  <2> QED
    BY <2>1 DEF LoopOK, PoolOK, HandsOK
<1>2. ASSUME NEW f \in Desc, peer_sends(f) PROVE KernelOK'
  BY <1>2 DEF peer_sends, KernelOK
<1>3. ASSUME NEW f \in Fd, peer_closes(f) PROVE KernelOK'
  BY <1>3 DEF peer_closes, KernelOK
<1>4. ASSUME NEW f \in Fd, connect_ends(f) PROVE KernelOK'
  BY <1>4 DEF connect_ends, KernelOK
<1> QED
  BY <1>1, <1>2, <1>3, <1>4 DEF Desc

(* HandsOK survives a change of pc that only wakes sleepers. *)
LEMMA WakingHands ==
    ASSUME HandsOK, UNCHANGED ownVars,
           \A w \in Worker : pc'[w] = pc[w]
                               \/ (pc[w] = "asleep" /\ pc'[w] = "idle")
    PROVE  HandsOK'
  BY DEF HandsOK, ownVars

(* Main in the middle of handle_connection_success. *)
LEMMA MainBusy ==
    ASSUME LoopOK, main.pc # "loop"
    PROVE  /\ main \in Connecting /\ main.fd \in Fd
           /\ main.pc = "connect" => main.to \in Peer
           /\ main.pc # "connect" =>
                 main \in [pc : {"out", "send", "wipe", "close"}, fd : Fd, to : {None}]
BY DEF LoopOK, Looping, Connecting

(* Main goes on with it. *)
LEMMA MainGoesOn ==
    ASSUME main \in [pc : {"out", "send", "wipe", "close"}, fd : Fd, to : {None}],
           NEW s \in {"send", "wipe", "close"}, main' = [main EXCEPT !.pc = s]
    PROVE  main' \in Connecting /\ main'.fd = main.fd
BY DEF Connecting

(* A connection that is opened, or not, for want of a descriptor. *)
LEMMA OpenedKernel ==
    ASSUME KernelOK, NEW p \in Peer, Opened(p),
           table \in [Fd -> Peer \cup {"free", "client"}]
    PROVE  /\ KernelOK'
           /\ table' \in [Fd -> Peer \cup {"free", "client"}]
           /\ \A f \in Desc : interest'[f] = "off" => interest[f] = "off"
<1>1. ASSUME NEW f \in Fd, NewSocket(f, "connecting", p, "level")
      PROVE  /\ KernelOK'
             /\ table' \in [Fd -> Peer \cup {"free", "client"}]
             /\ \A g \in Desc : interest'[g] = "off" => interest[g] = "off"
  <2>1. KernelOK'
    BY <1>1, NewSocketKernel
  <2>2. interest' = [interest EXCEPT ![f] = "level"]
    BY <1>1 DEF NewSocket
  <2>3. table' \in [Fd -> Peer \cup {"free", "client"}]
    BY <1>1 DEF NewSocket
  <2>4. \A g \in Desc : interest'[g] = "off" => interest[g] = "off"
    BY <2>2 DEF KernelOK
  <2> QED
    BY <2>1, <2>3, <2>4
<1>2. ASSUME UNCHANGED <<kernelVars, table>>
      PROVE  /\ KernelOK'
             /\ table' \in [Fd -> Peer \cup {"free", "client"}]
             /\ \A g \in Desc : interest'[g] = "off" => interest[g] = "off"
  BY <1>2 DEF kernelVars, KernelOK
<1> QED
  BY <1>1, <1>2 DEF Opened

(* A step of the main thread preserves the invariant. *)
LEMMA MainStep ==
    ASSUME IInv,
           \/ main_step
           \/ handle_tcp_timer_expiration
           \/ \E type \in TimerTask : timer_expires(type)
           \/ \E f \in Fd : handle_new_tcp_connection(f)
    PROVE  IInv'
<1> USE DEF IInv
<1>1. CASE epoll_wait
  <2>1. PoolOK' /\ HandsOK'
    BY <1>1 DEF epoll_wait, PoolOK, HandsOK, poolVars, ownVars
  <2>2. ReadyEvents \subseteq Event /\ \A e \in ReadyEvents : e.out => e.fd \in Fd
    <3>1. \A f \in Desc : Readable(f) \in BOOLEAN
      BY DEF Readable, KernelOK
    <3>2. ASSUME NEW e \in ReadyEvents
          PROVE  e \in Event /\ (e.out => e.fd \in Fd)
      <4>1. CASE \E f \in Desc : e = [fd |-> f, in |-> TRUE, out |-> FALSE]
        BY <4>1 DEF Event
      <4>2. CASE \E f \in Fd : e = [fd |-> f, in |-> Readable(f), out |-> TRUE]
        BY <3>1, <4>2 DEF Event, Desc
      <4> QED
        BY <4>1, <4>2 DEF ReadyEvents
    <3> QED
      BY <3>2
  <2>3. LoopOK'
    BY <1>1, <2>2 DEF epoll_wait, LoopOK
  <2>4. KernelOK'
    BY <1>1 DEF epoll_wait, KernelOK, Desc
  <2> QED
    BY <2>1, <2>3, <2>4
<1>2. ASSUME NEW e \in batch, dispatch(e) PROVE IInv'
  <2>1. KernelOK'
    BY <1>2 DEF dispatch, KernelOK, kernelVars
  <2>2. e \in Event /\ (e.out => e.fd \in Fd)
    BY DEF LoopOK
  <2>3. main' \in Connecting \cup {Looping}
    <3>1. CASE ~e.out
      BY <1>2, <3>1 DEF dispatch
    <3>2. CASE e.out
      <4>1. main' = [pc |-> "out", fd |-> e.fd, to |-> None]
        BY <1>2, <3>2 DEF dispatch, Looping
      <4> QED
        BY <2>2, <3>2, <4>1 DEF Connecting
    <3> QED
      BY <3>1, <3>2
  <2>4. LoopOK'
    BY <1>2, <2>3 DEF dispatch, LoopOK
  <2>5. PoolOK' /\ HandsOK'
    <3>1. CASE e.in
      <4> DEFINE type == IF e.fd = udp_fd THEN "TASK_UDP_DISCOVERY"
                         ELSE "TASK_TCP_CLIENT_MSG"
      <4>1. thread_pool_push_task(type, e.fd)
        BY <1>2, <3>1 DEF dispatch
      <4>2. [type |-> type, fd |-> e.fd] \in WorkerTask
        <5>1. e.fd \in Desc
          BY <2>2 DEF Event
        <5>2. CASE e.fd = udp_fd
          BY <5>2 DEF WorkerTask
        <5>3. CASE e.fd \in Fd
          BY <5>3, EventLoopAssumption DEF WorkerTask
        <5> QED
          BY <5>1, <5>2, <5>3 DEF Desc
      <4>3. UNCHANGED ownVars
        BY <1>2 DEF dispatch
      <4> HIDE DEF type
      <4> QED
        BY <4>1, <4>2, <4>3, PushPool, WakingHands
    <3>2. CASE ~e.in
      <4>1. UNCHANGED <<tasks, pc, on, to>>
        BY <1>2, <3>2 DEF dispatch, poolVars, ownVars
      <4> QED
        BY <4>1 DEF PoolOK, HandsOK
    <3> QED
      BY <3>1, <3>2
  <2> QED
    BY <2>1, <2>4, <2>5
<1>3. CASE connection_established
  <2>1. PoolOK' /\ HandsOK'
    BY <1>3 DEF connection_established, PoolOK, HandsOK, poolVars, ownVars
  <2>2. main.fd \in Fd
    BY <1>3, MainBusy DEF connection_established
  <2>3. LoopOK'
    BY <1>3 DEF connection_established, LoopOK
  <2>4. KernelOK'
    BY <1>3, <2>2 DEF connection_established, KernelOK, Desc
  <2> QED
    BY <2>1, <2>3, <2>4
<1>4. CASE connection_failed
  <2>1. PoolOK' /\ HandsOK'
    BY <1>4 DEF connection_failed, PoolOK, HandsOK, poolVars, ownVars
  <2>2. /\ main' = [main EXCEPT !.pc = "send"] /\ main.pc = "out"
        /\ UNCHANGED <<listening, table, batch>>
    BY <1>4 DEF connection_failed
  <2>3. main' \in Connecting /\ main.fd \in Fd
    BY <2>2, MainBusy, MainGoesOn
  <2>4. LoopOK'
    BY <2>2, <2>3 DEF LoopOK
  <2>5. KernelOK'
    BY <1>4, <2>3 DEF connection_failed, KernelOK, Desc
  <2> QED
    BY <2>1, <2>4, <2>5
<1>a. CASE send_failure
  <2>1. PoolOK' /\ HandsOK'
    BY <1>a DEF send_failure, PoolOK, HandsOK, poolVars, ownVars
  <2>2. KernelOK'
    BY <1>a DEF send_failure, Sent, KernelOK, Connected
  <2>3. main.pc = "send" /\ UNCHANGED <<listening, table, batch>>
    BY <1>a DEF send_failure
  <2>4. main \in [pc : {"out", "send", "wipe", "close"}, fd : Fd, to : {None}]
    BY <2>3, MainBusy
  <2>5. main' \in Connecting
    <3>1. CASE main' = [main EXCEPT !.pc = "wipe"]
      BY <2>4, <3>1, MainGoesOn
    <3>2. ASSUME NEW p \in Peer,
                 main' = [main EXCEPT !.pc = "connect", !.to = p]
          PROVE  main' \in Connecting
      BY <2>4, <3>2 DEF Connecting
    <3> QED
      BY <1>a, <3>1, <3>2 DEF send_failure
  <2>6. LoopOK'
    BY <2>3, <2>5 DEF LoopOK
  <2> QED
    BY <2>1, <2>2, <2>6
<1>b. CASE connect_failure
  <2>1. PoolOK' /\ HandsOK'
    BY <1>b DEF connect_failure, PoolOK, HandsOK, poolVars, ownVars
  <2>2. /\ main.pc = "connect" /\ Opened(main.to)
        /\ main' = [main EXCEPT !.pc = "wipe", !.to = None]
        /\ UNCHANGED <<listening, batch>>
    BY <1>b DEF connect_failure
  <2>3. main \in Connecting /\ main.to \in Peer
    BY <2>2, MainBusy
  <2>4. main' \in Connecting
    BY <2>2, <2>3 DEF Connecting
  <2>5. KernelOK' /\ table' \in [Fd -> Peer \cup {"free", "client"}]
    BY <2>2, <2>3, OpenedKernel DEF LoopOK
  <2>6. LoopOK'
    BY <2>2, <2>4, <2>5 DEF LoopOK
  <2> QED
    BY <2>1, <2>5, <2>6
<1>c. CASE wipe_failed
  <2>1. PoolOK' /\ HandsOK' /\ KernelOK'
    BY <1>c DEF wipe_failed, PoolOK, HandsOK, KernelOK, kernelVars, poolVars,
                ownVars
  <2>2. /\ main' = [main EXCEPT !.pc = "close"] /\ main.pc = "wipe"
        /\ table' = [table EXCEPT ![main.fd] = "free"]
        /\ UNCHANGED <<listening, batch>>
    BY <1>c DEF wipe_failed
  <2>3. main' \in Connecting
    BY <2>2, MainBusy, MainGoesOn
  <2>4. LoopOK'
    BY <2>2, <2>3 DEF LoopOK
  <2> QED
    BY <2>1, <2>4
<1>5. CASE close_failed
  <2>1. PoolOK' /\ HandsOK'
    BY <1>5 DEF close_failed, PoolOK, HandsOK, poolVars, ownVars
  <2>2. main.fd \in Fd
    BY <1>5, MainBusy DEF close_failed
  <2>3. LoopOK'
    BY <1>5 DEF close_failed, LoopOK
  <2>4. KernelOK'
    BY <1>5, <2>2, CloseKernel DEF close_failed
  <2> QED
    BY <2>1, <2>3, <2>4
<1>6. CASE handle_tcp_timer_expiration
  BY <1>6 DEF handle_tcp_timer_expiration, KernelOK, LoopOK, PoolOK, HandsOK,
              kernelVars, poolVars, ownVars
<1>7. ASSUME NEW type \in TimerTask, timer_expires(type) PROVE IInv'
  <2>1. KernelOK' /\ LoopOK'
    BY <1>7 DEF timer_expires, KernelOK, LoopOK, kernelVars
  <2>2. [type |-> type, fd |-> None] \in WorkerTask
    BY DEF WorkerTask
  <2>3. PoolOK' /\ HandsOK'
    BY <1>7, <2>2, PushPool, WakingHands DEF timer_expires
  <2> QED
    BY <2>1, <2>3
<1>8. ASSUME NEW f \in Fd, handle_new_tcp_connection(f) PROVE IInv'
  <2>1. NewSocket(f, "up", "client", "armed")
    BY <1>8 DEF handle_new_tcp_connection
  <2>2. KernelOK'
    BY <2>1, NewSocketKernel
  <2>3. LoopOK'
    BY <1>8, <2>1 DEF handle_new_tcp_connection, NewSocket, LoopOK
  <2>4. PoolOK' /\ HandsOK'
    BY <1>8 DEF handle_new_tcp_connection, PoolOK, HandsOK, poolVars, ownVars
  <2> QED
    BY <2>2, <2>3, <2>4
<1> QED
  BY <1>1, <1>2, <1>3, <1>4, <1>a, <1>b, <1>c, <1>5, <1>6, <1>7, <1>8 DEF main_step

(* A step of a worker preserves the invariant. *)
LEMMA WorkerStep ==
    ASSUME IInv, NEW w \in Worker, worker_step(w) \/ spurious_wakeup(w)
    PROVE  IInv'
<1> USE DEF IInv
<1>1. CASE wait_for_task(w) \/ spurious_wakeup(w)
  <2>1. KernelOK' /\ LoopOK'
    BY <1>1 DEF wait_for_task, spurious_wakeup, KernelOK, LoopOK, kernelVars
  <2>2. PoolOK'
    BY <1>1 DEF wait_for_task, spurious_wakeup, PoolOK, Step
  <2>3. HandsOK'
    BY <1>1 DEF wait_for_task, spurious_wakeup, PoolOK, HandsOK, ownVars
  <2> QED
    BY <2>1, <2>2, <2>3
<1>2. CASE take_task(w)
  <2>1. KernelOK' /\ LoopOK'
    BY <1>2 DEF take_task, KernelOK, LoopOK, kernelVars
  <2>2. tasks \in Seq(WorkerTask) /\ tasks # << >>
    BY <1>2 DEF take_task, PoolOK
  <2>3. /\ Head(tasks) \in WorkerTask
        /\ Tail(tasks) \in Seq(WorkerTask)
        /\ Len(Tail(tasks)) = Len(tasks) - 1
        /\ Len(tasks) \in Nat
    BY <2>2, HeadTailProperties, LenProperties
  <2> DEFINE k == Head(tasks)
             s == FirstStep(k.type)
  <2>4. /\ s \in Step
        /\ s \in {"read", "datagram", "announce", "collect"}
        /\ k.fd \in Desc \cup {None}
        /\ s = "read" => k.fd \in Fd
        /\ s = "datagram" => k.fd \in Desc
    <3>1. CASE k \in [type : {"TASK_TCP_CLIENT_MSG"}, fd : Fd]
      BY <3>1 DEF FirstStep, Step, Desc
    <3>2. CASE k \in [type : {"TASK_UDP_DISCOVERY"}, fd : {udp_fd}]
      BY <3>2 DEF FirstStep, Step, Desc
    <3>3. CASE k \in [type : TimerTask, fd : {None}]
      BY <3>3 DEF FirstStep, Step, TimerTask
    <3> QED
      BY <2>3, <3>1, <3>2, <3>3 DEF WorkerTask
  <2>5. /\ tasks' = Tail(tasks)
        /\ pc' = [pc EXCEPT ![w] = s]
        /\ on' = [on EXCEPT ![w] = k.fd]
        /\ to' = to
    BY <1>2 DEF take_task
  <2>6. pc[w] = "idle"
    BY <1>2 DEF take_task
  <2> HIDE DEF k, s
  <2>7. PoolOK'
    BY <2>3, <2>4, <2>5, EventLoopAssumption DEF PoolOK
  <2>8. HandsOK'
    BY <2>4, <2>5, <2>6 DEF PoolOK, HandsOK
  <2> QED
    BY <2>1, <2>7, <2>8
<1>3. CASE handle_client_message(w)
  <2>1. on[w] \in Fd
    BY <1>3 DEF handle_client_message, HandsOK
  <2>2. LoopOK'
    BY <1>3 DEF handle_client_message, LoopOK
  <2>3. KernelOK'
    BY <1>3, <2>1 DEF handle_client_message, KernelOK, Desc
  <2>4. PoolOK'
    BY <1>3 DEF handle_client_message, PoolOK, Step
  <2>5. HandsOK'
    BY <1>3, <2>1 DEF handle_client_message, PoolOK, HandsOK, ownVars, Desc
  <2> QED
    BY <2>2, <2>3, <2>4, <2>5
<1>4. CASE send_outbox(w)
  <2>1. LoopOK'
    BY <1>4 DEF send_outbox, LoopOK
  <2>2. KernelOK'
    BY <1>4 DEF send_outbox, Sent, KernelOK, Connected
  <2>3. AfterOutbox(pc[w]) \in {"rearm", "close", "done"} /\
            (pc[w] = "notify" <=> AfterOutbox(pc[w]) = "done")
    BY <1>4 DEF send_outbox, AfterOutbox
  <2>4. PoolOK'
    BY <1>4, <2>3 DEF send_outbox, PoolOK, Step
  <2>5. HandsOK'
    <3>1. CASE pc' = [pc EXCEPT ![w] = AfterOutbox(pc[w])] /\ to' = to
      BY <1>4, <2>3, <3>1 DEF send_outbox, PoolOK, HandsOK, Desc
    <3>2. CASE pc' = pc /\ \E p \in Peer : to' = [to EXCEPT ![w] = p]
      BY <1>4, <3>2 DEF send_outbox, PoolOK, HandsOK
    <3> QED
      BY <1>4, <3>1, <3>2 DEF send_outbox
  <2> QED
    BY <2>1, <2>2, <2>4, <2>5
<1>5. CASE open_connection(w)
  <2>1. to[w] \in Peer /\ pc[w] \in {"answer", "drop", "notify"}
    BY <1>5 DEF open_connection, HandsOK
  <2>2. KernelOK' /\ LoopOK'
    <3>1. Opened(to[w]) /\ UNCHANGED <<listening, batch, main>>
      BY <1>5 DEF open_connection
    <3>2. KernelOK' /\ table' \in [Fd -> Peer \cup {"free", "client"}]
      BY <2>1, <3>1, OpenedKernel DEF LoopOK
    <3> QED
      BY <3>1, <3>2 DEF LoopOK
  <2>3. AfterOutbox(pc[w]) \in {"rearm", "close", "done"} /\
            (pc[w] = "notify" <=> AfterOutbox(pc[w]) = "done")
    BY <2>1 DEF AfterOutbox
  <2>4. PoolOK'
    BY <1>5, <2>3 DEF open_connection, PoolOK, Step
  <2>5. HandsOK'
    BY <1>5, <2>1, <2>3 DEF open_connection, PoolOK, HandsOK, Desc
  <2> QED
    BY <2>2, <2>4, <2>5
<1>6. CASE close_client(w)
  <2>1. on[w] \in Fd
    BY <1>6 DEF close_client, HandsOK
  <2>2. KernelOK'
    BY <1>6, <2>1, CloseKernel DEF close_client
  <2>3. LoopOK'
    BY <1>6 DEF close_client, LoopOK
  <2>4. PoolOK'
    BY <1>6 DEF close_client, PoolOK, Step
  <2>5. HandsOK'
    BY <1>6, <2>1 DEF close_client, PoolOK, HandsOK, ownVars
  <2> QED
    BY <2>2, <2>3, <2>4, <2>5
<1>7. CASE wipe_connection(w)
  <2>1. KernelOK'
    BY <1>7 DEF wipe_connection, KernelOK, kernelVars
  <2>2. LoopOK'
    BY <1>7 DEF wipe_connection, LoopOK
  <2>3. PoolOK'
    BY <1>7 DEF wipe_connection, PoolOK, Step
  <2>4. HandsOK'
    BY <1>7 DEF wipe_connection, PoolOK, HandsOK, ownVars, Desc
  <2> QED
    BY <2>1, <2>2, <2>3, <2>4
<1>8. CASE rearm_epoll_fd(w)
  <2>1. on[w] \in Desc
    BY <1>8 DEF rearm_epoll_fd, HandsOK
  <2>2. KernelOK'
    BY <1>8, <2>1 DEF rearm_epoll_fd, KernelOK, Desc
  <2>3. LoopOK'
    BY <1>8 DEF rearm_epoll_fd, LoopOK
  <2>4. PoolOK'
    BY <1>8 DEF rearm_epoll_fd, PoolOK, Step
  <2>5. HandsOK'
    BY <1>8 DEF rearm_epoll_fd, PoolOK, HandsOK
  <2> QED
    BY <2>2, <2>3, <2>4, <2>5
<1>9. CASE handle_incoming_discovery(w)
  <2>1. KernelOK'
    BY <1>9 DEF handle_incoming_discovery, KernelOK
  <2>2. LoopOK'
    BY <1>9 DEF handle_incoming_discovery, LoopOK
  <2>3. PoolOK'
    BY <1>9 DEF handle_incoming_discovery, PoolOK, Step
  <2>4. HandsOK'
    BY <1>9 DEF handle_incoming_discovery, PoolOK, HandsOK, ownVars
  <2> QED
    BY <2>1, <2>2, <2>3, <2>4
<1>10. CASE find_zombie(w)
  <2>1. KernelOK' /\ LoopOK'
    BY <1>10 DEF find_zombie, KernelOK, LoopOK, kernelVars
  <2>2. PoolOK'
    BY <1>10 DEF find_zombie, PoolOK, Step
  <2>3. HandsOK'
    BY <1>10 DEF find_zombie, PoolOK, HandsOK, Desc
  <2> QED
    BY <2>1, <2>2, <2>3
<1>11. CASE close_zombie(w)
  <2>1. on[w] \in Fd
    BY <1>11 DEF close_zombie, HandsOK
  <2>2. KernelOK'
    BY <1>11, <2>1, CloseKernel DEF close_zombie
  <2>3. LoopOK'
    BY <1>11 DEF close_zombie, LoopOK
  <2>4. PoolOK'
    BY <1>11 DEF close_zombie, PoolOK, Step
  <2>5. HandsOK'
    BY <1>11 DEF close_zombie, PoolOK, HandsOK
  <2> QED
    BY <2>2, <2>3, <2>4, <2>5
<1>12. CASE task_done(w)
  <2>1. KernelOK' /\ LoopOK'
    BY <1>12 DEF task_done, KernelOK, LoopOK, kernelVars
  <2>2. PoolOK'
    BY <1>12 DEF task_done, PoolOK, Step
  <2>3. HandsOK'
    BY <1>12 DEF task_done, PoolOK, HandsOK
  <2> QED
    BY <2>1, <2>2, <2>3
<1> QED
  BY <1>1, <1>2, <1>3, <1>4, <1>5, <1>6, <1>7, <1>8, <1>9, <1>10, <1>11,
     <1>12 DEF worker_step

(* Every step, or none, preserves the invariant. *)
LEMMA NextIInv == IInv /\ [Next]_vars => IInv'
<1> SUFFICES ASSUME IInv, [Next]_vars PROVE IInv'
  OBVIOUS
<1>1. CASE UNCHANGED vars
  BY <1>1 DEF IInv, KernelOK, LoopOK, PoolOK, HandsOK, vars, kernelVars,
              poolVars, ownVars
<1>2. CASE Next
  BY <1>2, NetworkStep, MainStep, WorkerStep DEF Next
<1> QED
  BY <1>1, <1>2

(* The tables of the event loop are well formed for ever: the ring never   *)
(* outgrows its array, a closed descriptor is watched by nobody, and every *)
(* handler works on a descriptor of the kind it expects.                   *)
THEOREM TypeCorrect == Spec => []TypeOK
<1>1. IInv => TypeOK
  BY DEF IInv, KernelOK, LoopOK, PoolOK, HandsOK, Step, TypeOK
<1> QED
  BY <1>1, InitIInv, NextIInv, PTL DEF Spec

----------------------------------------------------------------------------
(* No wake-up is lost.                                                     *)

(* The idle workers can be counted. *)
LEMMA IdleFinite == IsFiniteSet(Idle) /\ Cardinality(Idle) \in Nat
<1>1. Idle \in SUBSET Worker
  BY DEF Idle
<1> QED
  BY <1>1, EventLoopAssumption, FS_Subset, FS_CardinalityType

(* ... also after a step. *)
LEMMA IdleFinitePrime == IsFiniteSet(Idle') /\ Cardinality(Idle') \in Nat
<1>1. Idle' \in SUBSET Worker
  BY DEF Idle
<1> QED
  BY <1>1, EventLoopAssumption, FS_Subset, FS_CardinalityType

(* A worker that was not idle changes step, and does not fall asleep: the  *)
(* others can still take every task.                                       *)
LEMMA BusyWakeups ==
    ASSUME PoolOK, WakeupsSuffice, NEW w \in Worker, NEW s, s # "asleep",
           pc[w] # "idle", pc' = [pc EXCEPT ![w] = s], tasks' = tasks
    PROVE  WakeupsSuffice'
<1>1. Idle \in SUBSET Idle' /\ Asleep' \in SUBSET Asleep
  BY DEF PoolOK, Idle, Asleep
<1>2. Cardinality(Idle) <= Cardinality(Idle')
  BY <1>1, IdleFinitePrime, FS_Subset
<1>3. Len(tasks) \in Nat
  BY LenProperties DEF PoolOK
<1> QED
  BY <1>1, <1>2, <1>3, IdleFinite, IdleFinitePrime DEF WakeupsSuffice

(* A push that is accepted while somebody sleeps adds one task and one     *)
(* idle worker.                                                            *)
LEMMA PushWakeups ==
    ASSUME PoolOK, WakeupsSuffice, NEW type, NEW f,
           [type |-> type, fd |-> f] \in WorkerTask,
           thread_pool_push_task(type, f)
    PROVE  WakeupsSuffice'
<1> DEFINE t == [type |-> type, fd |-> f]
<1>1. CASE Len(tasks) < MAX_QUEUE /\ Asleep # {}
  <2>1. PICK w \in Asleep : pc' = [pc EXCEPT ![w] = "idle"]
    BY <1>1 DEF thread_pool_push_task, Signalled
  <2>2. Len(tasks') = Len(tasks) + 1
    <3>1. tasks' = Append(tasks, t)
      BY <1>1 DEF thread_pool_push_task, Pushed
    <3> QED
      BY <3>1, AppendProperties DEF PoolOK
  <2>3. Idle' = Idle \cup {w} /\ w \notin Idle
    BY <2>1 DEF PoolOK, Idle, Asleep
  <2>4. Cardinality(Idle') = Cardinality(Idle) + 1
    BY <2>3, IdleFinite, FS_AddElement
  <2>5. Len(tasks) <= Cardinality(Idle) /\ Len(tasks) \in Nat
    BY <1>1, LenProperties DEF PoolOK, WakeupsSuffice
  <2> QED
    BY <2>2, <2>4, <2>5, IdleFinite DEF WakeupsSuffice
<1>2. CASE Asleep = {}
  <2>1. pc' = pc
    BY <1>2 DEF thread_pool_push_task, Signalled
  <2>2. Asleep' = {}
    BY <1>2, <2>1 DEF Asleep
  <2> QED
    BY <2>2 DEF WakeupsSuffice
<1>3. CASE ~(Len(tasks) < MAX_QUEUE)
  <2>1. pc' = pc /\ tasks' = tasks
    BY <1>3 DEF thread_pool_push_task, Signalled, Pushed
  <2> QED
    BY <2>1 DEF WakeupsSuffice, Asleep, Idle
<1> QED
  BY <1>1, <1>2, <1>3

(* A task and the idle worker that takes it go together. *)
LEMMA TakeWakeups ==
    ASSUME PoolOK, WakeupsSuffice, NEW w \in Worker, take_task(w)
    PROVE  WakeupsSuffice'
<1>1. /\ tasks \in Seq(WorkerTask) /\ tasks # << >>
      /\ tasks' = Tail(tasks)
      /\ pc[w] = "idle"
      /\ pc' = [pc EXCEPT ![w] = FirstStep(Head(tasks).type)]
  BY DEF take_task, PoolOK
<1>2. Len(tasks') = Len(tasks) - 1 /\ Len(tasks) \in Nat
  BY <1>1, HeadTailProperties, LenProperties
<1>3. FirstStep(Head(tasks).type) \in {"read", "datagram", "announce", "collect"}
  <2>1. Head(tasks) \in WorkerTask
    BY <1>1, HeadTailProperties
  <2> QED
    BY <2>1 DEF WorkerTask, TimerTask, FirstStep
<1>4. Idle' = Idle \ {w} /\ w \in Idle /\ Asleep' = Asleep
  BY <1>1, <1>3 DEF PoolOK, Idle, Asleep
<1>5. Cardinality(Idle') = Cardinality(Idle) - 1
  BY <1>4, IdleFinite, FS_RemoveElement
<1> QED
  BY <1>2, <1>4, <1>5, IdleFinite DEF WakeupsSuffice

(* Every step, or none, preserves WakeupsSuffice. *)
LEMMA NextWakeups == IInv /\ WakeupsSuffice /\ [Next]_vars => WakeupsSuffice'
<1> SUFFICES ASSUME IInv, WakeupsSuffice, [Next]_vars PROVE WakeupsSuffice'
  OBVIOUS
<1>0. PoolOK /\ LoopOK
  BY DEF IInv
<1>1. ASSUME UNCHANGED <<tasks, pc>> PROVE WakeupsSuffice'
  BY <1>1 DEF WakeupsSuffice, Asleep, Idle
<1>2. ASSUME NEW e \in batch, dispatch(e) PROVE WakeupsSuffice'
  <2>1. CASE e.in
    <3> DEFINE type == IF e.fd = udp_fd THEN "TASK_UDP_DISCOVERY"
                       ELSE "TASK_TCP_CLIENT_MSG"
    <3>1. thread_pool_push_task(type, e.fd)
      BY <1>2, <2>1 DEF dispatch
    <3>2. e.fd \in Fd \cup {udp_fd}
      BY <1>0 DEF LoopOK, Event, Desc
    <3>3. [type |-> type, fd |-> e.fd] \in WorkerTask
      BY <3>2 DEF WorkerTask
    <3> HIDE DEF type
    <3> QED
      BY <1>0, <3>1, <3>3, PushWakeups
  <2>2. CASE ~e.in
    BY <1>1, <1>2, <2>2 DEF dispatch, poolVars
  <2> QED
    BY <2>1, <2>2
<1>3. ASSUME NEW type \in TimerTask, timer_expires(type) PROVE WakeupsSuffice'
  <2>1. [type |-> type, fd |-> None] \in WorkerTask
    BY DEF WorkerTask
  <2> QED
    BY <1>0, <1>3, <2>1, PushWakeups DEF timer_expires
<1>4. ASSUME NEW w \in Worker, wait_for_task(w) PROVE WakeupsSuffice'
  <2>1. Len(tasks') = 0
    BY <1>4 DEF wait_for_task
  <2> QED
    BY <2>1, IdleFinitePrime DEF WakeupsSuffice
<1>5. ASSUME NEW w \in Worker, take_task(w) PROVE WakeupsSuffice'
  BY <1>0, <1>5, TakeWakeups
<1>6. ASSUME NEW w \in Worker,
             \/ spurious_wakeup(w) \/ handle_client_message(w)
             \/ close_client(w) \/ wipe_connection(w) \/ rearm_epoll_fd(w)
             \/ handle_incoming_discovery(w) \/ find_zombie(w)
             \/ close_zombie(w) \/ task_done(w)
      PROVE  WakeupsSuffice'
  <2>1. PICK s : /\ s # "asleep"
                 /\ pc[w] # "idle"
                 /\ pc' = [pc EXCEPT ![w] = s]
                 /\ tasks' = tasks
    BY <1>6 DEF spurious_wakeup, handle_client_message, close_client,
                wipe_connection, rearm_epoll_fd, handle_incoming_discovery,
                find_zombie, close_zombie, task_done
  <2> QED
    BY <1>0, <2>1, BusyWakeups
<1>7. ASSUME NEW w \in Worker, send_outbox(w) \/ open_connection(w)
      PROVE  WakeupsSuffice'
  <2>1. pc[w] \in {"answer", "drop", "notify"} /\ tasks' = tasks
    BY <1>7 DEF send_outbox, open_connection, IInv, HandsOK
  <2>2. AfterOutbox(pc[w]) # "asleep"
    BY <2>1 DEF AfterOutbox
  <2>3. CASE pc' = pc
    BY <1>1, <2>1, <2>3
  <2>4. CASE pc' = [pc EXCEPT ![w] = AfterOutbox(pc[w])]
    BY <1>0, <2>1, <2>2, <2>4, BusyWakeups
  <2> QED
    BY <1>7, <2>3, <2>4 DEF send_outbox, open_connection
<1>8. CASE UNCHANGED vars
  BY <1>1, <1>8 DEF vars, poolVars
<1>9. CASE \/ epoll_wait \/ connection_established \/ connection_failed
           \/ send_failure \/ connect_failure \/ wipe_failed \/ close_failed
           \/ handle_tcp_timer_expiration
           \/ peer_sends(udp_fd)
           \/ \E f \in Fd : \/ handle_new_tcp_connection(f) \/ peer_sends(f)
                            \/ peer_closes(f) \/ connect_ends(f)
  <2>1. UNCHANGED poolVars
    BY <1>9 DEF epoll_wait, connection_established, connection_failed,
                send_failure, connect_failure, wipe_failed, close_failed,
                handle_tcp_timer_expiration, peer_sends,
                handle_new_tcp_connection, peer_closes, connect_ends
  <2> QED
    BY <1>1, <2>1 DEF poolVars
<1> QED
  BY <1>2, <1>3, <1>4, <1>5, <1>6, <1>7, <1>8, <1>9
     DEF Next, main_step, worker_step

(* thread_pool_push_task signals enough: for any number of workers and any *)
(* capacity, no task waits in the ring for a busy worker while another     *)
(* worker sleeps on the condition variable.                                *)
THEOREM NoLostWakeup == Spec => []WakeupsSuffice
<1>1. Init => WakeupsSuffice
  BY DEF Init, WakeupsSuffice, Asleep
<1>2. Spec => []IInv
  BY InitIInv, NextIInv, PTL DEF Spec
<1> QED
  BY <1>1, <1>2, NextWakeups, PTL DEF Spec

----------------------------------------------------------------------------
(* Descriptors that EPOLLONESHOT has disarmed.                             *)

(* A worker whose task has no descriptor holds none. *)
FreeHands ==
    \A w \in Worker :
        pc[w] \in {"idle", "asleep", "announce", "collect", "notify", "done"}
            => on[w] = None

(* An event reports input or output. *)
EventsReport == \A e \in batch : e.in \/ e.out

(* While an event of input waits to be processed, the ring takes its task. *)
RoomForEvents == (\E e \in batch : e.in) => Len(tasks) < MAX_QUEUE

DInv == FreeHands /\ EventsReport /\ NoDeafDescriptor

(* Workers drop their descriptor when the task ends. *)
LEMMA NextFreeHands ==
    ASSUME IInv, FreeHands, [Next]_vars PROVE FreeHands'
<1>0. PoolOK /\ HandsOK
  BY DEF IInv
<1> USE DEF FreeHands
<1>1. ASSUME UNCHANGED <<pc, on>> PROVE FreeHands'
  BY <1>1
<1>2. ASSUME NEW type, NEW f, [type |-> type, fd |-> f] \in WorkerTask,
             thread_pool_push_task(type, f), on' = on
      PROVE  FreeHands'
  <2>1. \A w \in Worker : pc'[w] = pc[w]
                              \/ (pc[w] = "asleep" /\ pc'[w] = "idle")
    BY <1>0, <1>2, PushPool
  <2> QED
    BY <1>2, <2>1
<1>3. ASSUME NEW e \in batch, dispatch(e) PROVE FreeHands'
  <2>1. CASE e.in
    <3> DEFINE type == IF e.fd = udp_fd THEN "TASK_UDP_DISCOVERY"
                       ELSE "TASK_TCP_CLIENT_MSG"
    <3>1. thread_pool_push_task(type, e.fd) /\ on' = on
      BY <1>3, <2>1 DEF dispatch, ownVars
    <3>2. e.fd \in Fd \cup {udp_fd}
      BY DEF IInv, LoopOK, Event, Desc
    <3>3. [type |-> type, fd |-> e.fd] \in WorkerTask
      BY <3>2 DEF WorkerTask
    <3> HIDE DEF type
    <3> QED
      BY <1>2, <3>1, <3>3
  <2>2. CASE ~e.in
    BY <1>1, <1>3, <2>2 DEF dispatch, poolVars, ownVars
  <2> QED
    BY <2>1, <2>2
<1>4. ASSUME NEW type \in TimerTask, timer_expires(type) PROVE FreeHands'
  <2>1. [type |-> type, fd |-> None] \in WorkerTask
    BY DEF WorkerTask
  <2> QED
    BY <1>2, <1>4, <2>1 DEF timer_expires, ownVars
<1>5. ASSUME NEW w \in Worker, take_task(w) PROVE FreeHands'
  <2>1. Head(tasks) \in WorkerTask
    BY <1>0, <1>5, HeadTailProperties DEF take_task, PoolOK
  <2> DEFINE k == Head(tasks)
             s == FirstStep(k.type)
  <2>2. s \in {"announce", "collect"} => k.fd = None
    <3>1. CASE k \in [type : TimerTask, fd : {None}]
      BY <3>1
    <3>2. CASE k.type = "TASK_TCP_CLIENT_MSG" \/ k.type = "TASK_UDP_DISCOVERY"
      BY <3>2 DEF FirstStep
    <3> QED
      BY <2>1, <3>1, <3>2 DEF WorkerTask
  <2>3. s \in {"read", "datagram", "announce", "collect"}
    BY <2>1 DEF WorkerTask, TimerTask, FirstStep
  <2>4. pc' = [pc EXCEPT ![w] = s] /\ on' = [on EXCEPT ![w] = k.fd]
    BY <1>5 DEF take_task
  <2> HIDE DEF k, s
  <2> QED
    BY <1>0, <2>2, <2>3, <2>4 DEF PoolOK, HandsOK
<1>6. ASSUME NEW w \in Worker,
             \/ wait_for_task(w) \/ spurious_wakeup(w)
             \/ handle_client_message(w) \/ close_client(w)
             \/ wipe_connection(w) \/ handle_incoming_discovery(w)
      PROVE  FreeHands'
  BY <1>0, <1>6
     DEF wait_for_task, spurious_wakeup, handle_client_message, close_client,
         wipe_connection, handle_incoming_discovery, ownVars, PoolOK, HandsOK
<1>7. ASSUME NEW w \in Worker,
             \/ rearm_epoll_fd(w) \/ find_zombie(w) \/ close_zombie(w)
             \/ task_done(w)
      PROVE  FreeHands'
  BY <1>0, <1>7 DEF rearm_epoll_fd, find_zombie, close_zombie, task_done,
                    ownVars, PoolOK, HandsOK
<1>8. ASSUME NEW w \in Worker, send_outbox(w) \/ open_connection(w)
      PROVE  FreeHands'
  <2>1. pc[w] \in {"answer", "drop", "notify"} /\ on' = on
    BY <1>0, <1>8 DEF send_outbox, open_connection, HandsOK
  <2>2. AfterOutbox(pc[w]) = "done" => pc[w] = "notify"
    BY <2>1 DEF AfterOutbox
  <2>3. AfterOutbox(pc[w]) \in {"rearm", "close", "done"}
    BY <2>1 DEF AfterOutbox
  <2>4. CASE pc' = pc
    BY <1>1, <2>1, <2>4
  <2>5. CASE pc' = [pc EXCEPT ![w] = AfterOutbox(pc[w])]
    BY <1>0, <2>1, <2>2, <2>3, <2>5 DEF PoolOK
  <2> QED
    BY <1>8, <2>4, <2>5 DEF send_outbox, open_connection
<1>9. CASE \/ UNCHANGED vars
           \/ epoll_wait \/ connection_established \/ connection_failed
           \/ send_failure \/ connect_failure \/ wipe_failed \/ close_failed
           \/ handle_tcp_timer_expiration
           \/ peer_sends(udp_fd)
           \/ \E f \in Fd : \/ handle_new_tcp_connection(f) \/ peer_sends(f)
                            \/ peer_closes(f) \/ connect_ends(f)
  <2>1. UNCHANGED <<poolVars, ownVars>>
    BY <1>9 DEF epoll_wait, connection_established, connection_failed,
                send_failure, connect_failure, wipe_failed, close_failed,
                handle_tcp_timer_expiration, peer_sends,
                handle_new_tcp_connection, peer_closes, connect_ends, vars
  <2> QED
    BY <1>1, <2>1 DEF poolVars, ownVars
<1> QED
  BY <1>3, <1>4, <1>5, <1>6, <1>7, <1>8, <1>9
     DEF Next, main_step, worker_step

(* What epoll_wait returns reports something, and main only removes events. *)
LEMMA NextEventsReport ==
    ASSUME EventsReport, [Next]_vars PROVE EventsReport'
<1>1. ASSUME epoll_wait PROVE EventsReport'
  <2>1. \A e \in ReadyEvents : e.in \/ e.out
    BY DEF ReadyEvents
  <2> QED
    BY <1>1, <2>1 DEF epoll_wait, EventsReport
<1>2. ASSUME batch' \subseteq batch PROVE EventsReport'
  BY <1>2 DEF EventsReport
<1>3. ASSUME NEW e \in batch, dispatch(e) PROVE EventsReport'
  BY <1>2, <1>3 DEF dispatch
<1>4. ASSUME NEW w \in Worker, worker_step(w) \/ spurious_wakeup(w)
      PROVE  EventsReport'
  BY <1>2, <1>4
     DEF worker_step, wait_for_task, spurious_wakeup, take_task,
         handle_client_message, send_outbox, open_connection, close_client,
         wipe_connection, rearm_epoll_fd, handle_incoming_discovery,
         find_zombie, close_zombie, task_done
<1>5. CASE \/ UNCHANGED vars
           \/ connection_established \/ connection_failed
           \/ send_failure \/ connect_failure \/ wipe_failed \/ close_failed
           \/ handle_tcp_timer_expiration
           \/ \E type \in TimerTask : timer_expires(type)
           \/ peer_sends(udp_fd)
           \/ \E f \in Fd : \/ handle_new_tcp_connection(f) \/ peer_sends(f)
                            \/ peer_closes(f) \/ connect_ends(f)
  BY <1>2, <1>5
     DEF connection_established, connection_failed, send_failure,
         connect_failure, wipe_failed, close_failed,
         handle_tcp_timer_expiration, timer_expires, peer_sends,
         handle_new_tcp_connection, peer_closes, connect_ends, vars
<1> QED
  BY <1>1, <1>3, <1>4, <1>5 DEF Next, main_step

----------------------------------------------------------------------------
(* Whoever has a disarmed descriptor passes it on, rearms it or closes it. *)

(* A descriptor that was disarmed already keeps somebody in charge when    *)
(* no charge of it ends.                                                   *)
LEMMA SameCharge ==
    ASSUME NoDeafDescriptor, UNCHANGED <<batch, main, tasks, on>>,
           \A f \in Desc : interest'[f] = "off" => interest[f] = "off"
    PROVE  NoDeafDescriptor'
  BY DEF NoDeafDescriptor, InCharge

(* A task that is accepted joins the others in the ring. *)
LEMMA PushKeepsTasks ==
    ASSUME PoolOK, NEW type, NEW f, [type |-> type, fd |-> f] \in WorkerTask,
           thread_pool_push_task(type, f)
    PROVE  /\ \A i \in DOMAIN tasks : \E j \in DOMAIN tasks' :
                 tasks'[j].fd = tasks[i].fd
           /\ Len(tasks) < MAX_QUEUE =>
                 \E j \in DOMAIN tasks' : tasks'[j].fd = f
<1> DEFINE t == [type |-> type, fd |-> f]
<1>1. tasks \in Seq(WorkerTask) /\ t \in WorkerTask
  BY DEF PoolOK
<1>2. CASE Len(tasks) < MAX_QUEUE
  <2>1. tasks' = Append(tasks, t)
    BY <1>2 DEF thread_pool_push_task, Pushed
  <2>2. t.fd = f
    OBVIOUS
  <2> HIDE DEF t
  <2>3. /\ Len(tasks) \in Nat
        /\ DOMAIN tasks = 1 .. Len(tasks)
        /\ DOMAIN tasks' = 1 .. Len(tasks) + 1
        /\ \A i \in DOMAIN tasks : tasks'[i] = tasks[i]
        /\ tasks'[Len(tasks) + 1] = t
    BY <1>1, <2>1
  <2> QED
    BY <2>2, <2>3
<1>3. CASE ~(Len(tasks) < MAX_QUEUE)
  BY <1>3 DEF thread_pool_push_task, Pushed
<1> QED
  BY <1>2, <1>3

(* The main thread turns an event into a task or keeps the descriptor. *)
LEMMA DispatchKeepsCharge ==
    ASSUME IInv, EventsReport, RoomForEvents, NoDeafDescriptor,
           NEW e \in batch, dispatch(e)
    PROVE  NoDeafDescriptor'
<1> SUFFICES ASSUME NEW f \in Desc, interest'[f] = "off"
             PROVE  InCharge(f)'
  BY DEF NoDeafDescriptor
<1>1. interest' = interest /\ on' = on /\ main = Looping
  BY DEF dispatch, kernelVars, ownVars
<1>2. InCharge(f)
  BY <1>1 DEF NoDeafDescriptor
<1>3. main.fd # f
  BY <1>1, EventLoopAssumption DEF Looping, Desc
<1>4. batch' = batch \ {e}
  BY DEF dispatch
<1>5. CASE e.in
  <2> DEFINE type == IF e.fd = udp_fd THEN "TASK_UDP_DISCOVERY"
                     ELSE "TASK_TCP_CLIENT_MSG"
  <2>1. thread_pool_push_task(type, e.fd)
    BY <1>5 DEF dispatch
  <2>2. e.fd \in Fd \cup {udp_fd}
    BY DEF IInv, LoopOK, Event, Desc
  <2>3. [type |-> type, fd |-> e.fd] \in WorkerTask
    BY <2>2 DEF WorkerTask
  <2> HIDE DEF type
  <2>4. /\ \A i \in DOMAIN tasks : \E j \in DOMAIN tasks' :
              tasks'[j].fd = tasks[i].fd
        /\ \E j \in DOMAIN tasks' : tasks'[j].fd = e.fd
    BY <1>5, <2>1, <2>3, PushKeepsTasks DEF IInv, RoomForEvents
  <2> QED
    BY <1>1, <1>2, <1>3, <1>4, <2>4 DEF InCharge
<1>6. CASE ~e.in
  <2>1. tasks' = tasks
    BY <1>6 DEF dispatch, poolVars
  <2>2. main' = [pc |-> "out", fd |-> e.fd, to |-> None]
    BY <1>6 DEF dispatch, EventsReport, Looping
  <2>3. main'.fd = e.fd
    BY <2>2
  <2> QED
    BY <1>1, <1>2, <1>3, <1>4, <2>1, <2>3 DEF InCharge
<1> QED
  BY <1>5, <1>6

(* A worker that takes a task takes charge of its descriptor. *)
LEMMA TakeKeepsCharge ==
    ASSUME IInv, FreeHands, NoDeafDescriptor, NEW w \in Worker, take_task(w)
    PROVE  NoDeafDescriptor'
<1> SUFFICES ASSUME NEW f \in Desc, interest'[f] = "off"
             PROVE  InCharge(f)'
  BY DEF NoDeafDescriptor
<1>1. interest' = interest /\ batch' = batch /\ main' = main
  BY DEF take_task, kernelVars
<1>2. InCharge(f)
  BY <1>1 DEF NoDeafDescriptor
<1>3. on[w] # f
  BY EventLoopAssumption DEF take_task, FreeHands, Desc
<1>4. on \in [Worker -> Desc \cup {None}] /\ on' = [on EXCEPT ![w] = Head(tasks).fd]
  BY DEF take_task, IInv, HandsOK
<1>5. ASSUME NEW i \in DOMAIN tasks, tasks[i].fd = f PROVE InCharge(f)'
  <2>1. tasks \in Seq(WorkerTask) /\ tasks # << >> /\ tasks' = Tail(tasks)
    BY DEF take_task, IInv, PoolOK
  <2>2. CASE i = 1
    <3>1. Head(tasks).fd = f
      BY <1>5, <2>1, <2>2
    <3>2. on'[w] = f
      BY <1>4, <3>1
    <3> QED
      BY <3>2 DEF InCharge
  <2>3. CASE i # 1
    <3>1. i - 1 \in DOMAIN tasks' /\ tasks'[i - 1] = tasks[i]
      BY <2>1, <2>3
    <3> QED
      BY <1>5, <3>1 DEF InCharge
  <2> QED
    BY <2>2, <2>3
<1>6. ASSUME NEW v \in Worker, on[v] = f PROVE InCharge(f)'
  <2>1. v # w /\ on'[v] = f
    BY <1>3, <1>4, <1>6
  <2> QED
    BY <2>1 DEF InCharge
<1> QED
  BY <1>1, <1>2, <1>5, <1>6 DEF InCharge

(* Only the worker w lets a descriptor go, and it is not disarmed then. *)
LEMMA LetGoKeepsCharge ==
    ASSUME IInv, NoDeafDescriptor, NEW w \in Worker, NEW d,
           on' = [on EXCEPT ![w] = d],
           UNCHANGED <<batch, main, tasks>>,
           \A f \in Desc : interest'[f] = "off"
                              => interest[f] = "off" /\ on[w] # f
    PROVE  NoDeafDescriptor'
<1> SUFFICES ASSUME NEW f \in Desc, interest'[f] = "off"
             PROVE  InCharge(f)'
  BY DEF NoDeafDescriptor
<1>1. InCharge(f) /\ on[w] # f
  BY DEF NoDeafDescriptor
<1>2. ASSUME NEW v \in Worker, on[v] = f PROVE on'[v] = f
  BY <1>1, <1>2 DEF IInv, HandsOK
<1> QED
  BY <1>1, <1>2 DEF InCharge

(* The main thread lets a descriptor go that it has armed or closed. *)
LEMMA MainLetsGo ==
    ASSUME NoDeafDescriptor, UNCHANGED <<batch, tasks, on>>,
           \A f \in Desc : interest'[f] = "off"
                              => interest[f] = "off" /\ main.fd # f
    PROVE  NoDeafDescriptor'
  BY DEF NoDeafDescriptor, InCharge

(* Every step, or none, leaves somebody in charge. *)
LEMMA NextDeaf ==
    ASSUME IInv, DInv, RoomForEvents, [Next]_vars PROVE NoDeafDescriptor'
<1>0. /\ FreeHands /\ EventsReport /\ NoDeafDescriptor
      /\ KernelOK /\ LoopOK /\ PoolOK /\ HandsOK
  BY DEF IInv, DInv
<1>a. interest \in [Desc -> {"none", "level", "armed", "off"}]
  BY <1>0 DEF KernelOK
<1>1. ASSUME epoll_wait PROVE NoDeafDescriptor'
  <2> SUFFICES ASSUME NEW f \in Desc, interest'[f] = "off"
               PROVE  InCharge(f)'
    BY DEF NoDeafDescriptor
  <2>1. UNCHANGED <<main, tasks, on>> /\ batch = {} /\ batch' = ReadyEvents
    BY <1>1 DEF epoll_wait, poolVars, ownVars
  <2>2. CASE interest[f] = "armed" /\ Readable(f)
    <3>1. [fd |-> f, in |-> TRUE, out |-> FALSE] \in batch'
      BY <2>1, <2>2 DEF ReadyEvents
    <3> QED
      BY <3>1 DEF InCharge
  <2>3. CASE ~(interest[f] = "armed" /\ Readable(f))
    <3>1. interest[f] = "off"
      BY <1>1, <2>3 DEF epoll_wait
    <3> QED
      BY <1>0, <2>1, <3>1 DEF NoDeafDescriptor, InCharge
  <2> QED
    BY <2>2, <2>3
<1>2. ASSUME NEW e \in batch, dispatch(e) PROVE NoDeafDescriptor'
  BY <1>0, <1>2, DispatchKeepsCharge
<1>3. ASSUME connection_established PROVE NoDeafDescriptor'
  <2>1. UNCHANGED <<batch, tasks, on>>
    BY <1>3 DEF connection_established, poolVars, ownVars
  <2>2. \A f \in Desc : interest'[f] = "off"
                          => interest[f] = "off" /\ main.fd # f
    BY <1>3, <1>a DEF connection_established
  <2> QED
    BY <1>0, <2>1, <2>2, MainLetsGo
<1>4. ASSUME connection_failed \/ send_failure \/ connect_failure \/ wipe_failed
      PROVE  NoDeafDescriptor'
  <2>1. main.pc # "loop" /\ UNCHANGED <<batch, tasks, on>>
    BY <1>4 DEF connection_failed, send_failure, connect_failure, wipe_failed,
                poolVars, ownVars
  <2>2. main \in Connecting
    BY <1>0, <2>1, MainBusy
  <2>3. main'.fd = main.fd
    BY <1>4, <2>2 DEF connection_failed, send_failure, connect_failure,
                      wipe_failed, Connecting
  <2>4. \A f \in Desc : interest'[f] = "off" => interest[f] = "off"
    <3>1. CASE interest' = interest
      BY <3>1
    <3>2. CASE connect_failure
      <4>1. Opened(main.to) /\ main.pc = "connect"
        BY <3>2 DEF connect_failure
      <4>2. main.to \in Peer
        BY <1>0, <4>1, MainBusy
      <4> QED
        BY <1>0, <4>1, <4>2, OpenedKernel DEF LoopOK
    <3> QED
      BY <1>4, <3>1, <3>2 DEF connection_failed, send_failure, wipe_failed,
                              kernelVars
  <2> QED
    BY <1>0, <2>1, <2>3, <2>4 DEF NoDeafDescriptor, InCharge
<1>5. ASSUME close_failed PROVE NoDeafDescriptor'
  <2>1. UNCHANGED <<batch, tasks, on>>
    BY <1>5 DEF close_failed, poolVars, ownVars
  <2>2. \A f \in Desc : interest'[f] = "off"
                          => interest[f] = "off" /\ main.fd # f
    BY <1>5, <1>a DEF close_failed, close
  <2> QED
    BY <1>0, <2>1, <2>2, MainLetsGo
<1>6. ASSUME NEW type \in TimerTask, timer_expires(type)
      PROVE  NoDeafDescriptor'
  <2>1. [type |-> type, fd |-> None] \in WorkerTask
    BY DEF WorkerTask
  <2>2. \A i \in DOMAIN tasks : \E j \in DOMAIN tasks' :
            tasks'[j].fd = tasks[i].fd
    BY <1>0, <1>6, <2>1, PushKeepsTasks DEF timer_expires
  <2>3. UNCHANGED <<batch, main, on, interest>>
    BY <1>6 DEF timer_expires, kernelVars, ownVars
  <2> QED
    BY <1>0, <2>2, <2>3 DEF NoDeafDescriptor, InCharge
<1>7. ASSUME NEW f \in Fd, handle_new_tcp_connection(f)
      PROVE  NoDeafDescriptor'
  <2>1. UNCHANGED <<batch, main, tasks, on>>
    BY <1>7 DEF handle_new_tcp_connection, poolVars, ownVars
  <2>2. interest' = [interest EXCEPT ![f] = "armed"]
    BY <1>7 DEF handle_new_tcp_connection, NewSocket
  <2> QED
    BY <1>0, <1>a, <2>1, <2>2, SameCharge
<1>8. ASSUME NEW w \in Worker, take_task(w) PROVE NoDeafDescriptor'
  BY <1>0, <1>8, TakeKeepsCharge
<1>9. ASSUME NEW w \in Worker, open_connection(w) PROVE NoDeafDescriptor'
  <2>1. UNCHANGED <<batch, main, tasks, on>>
    BY <1>9 DEF open_connection
  <2>2. Opened(to[w]) /\ to[w] \in Peer
    BY <1>0, <1>9 DEF open_connection, HandsOK
  <2>3. \A f \in Desc : interest'[f] = "off" => interest[f] = "off"
    BY <1>0, <2>2, OpenedKernel DEF LoopOK
  <2> QED
    BY <1>0, <2>1, <2>3, SameCharge
<1>10. ASSUME NEW w \in Worker, close_client(w) PROVE NoDeafDescriptor'
  <2>1. UNCHANGED <<batch, main, tasks, on>>
    BY <1>10 DEF close_client, ownVars
  <2>2. \A f \in Desc : interest'[f] = "off" => interest[f] = "off"
    BY <1>10, <1>a DEF close_client, close
  <2> QED
    BY <1>0, <2>1, <2>2, SameCharge
<1>11. ASSUME NEW w \in Worker, rearm_epoll_fd(w) PROVE NoDeafDescriptor'
  <2>1. UNCHANGED <<batch, main, tasks>> /\ on' = [on EXCEPT ![w] = None]
    BY <1>11 DEF rearm_epoll_fd
  <2>2. \A f \in Desc : interest'[f] = "off"
                          => interest[f] = "off" /\ on[w] # f
    BY <1>11, <1>a DEF rearm_epoll_fd
  <2> QED
    BY <1>0, <2>1, <2>2, LetGoKeepsCharge
<1>12. ASSUME NEW w \in Worker, find_zombie(w) PROVE NoDeafDescriptor'
  <2>1. UNCHANGED <<batch, main, tasks, interest>>
    BY <1>12 DEF find_zombie, kernelVars
  <2>2. on[w] = None
    BY <1>0, <1>12 DEF find_zombie, FreeHands
  <2>3. \A f \in Desc : on[w] # f
    BY <2>2, EventLoopAssumption DEF Desc
  <2>4. \/ on' = on
        \/ \E f \in Fd : on' = [on EXCEPT ![w] = f]
    BY <1>12 DEF find_zombie
  <2> QED
    BY <1>0, <2>1, <2>3, <2>4, LetGoKeepsCharge, SameCharge
<1>13. ASSUME NEW w \in Worker, close_zombie(w) PROVE NoDeafDescriptor'
  <2>1. UNCHANGED <<batch, main, tasks>> /\ on' = [on EXCEPT ![w] = None]
    BY <1>13 DEF close_zombie
  <2>2. \A f \in Desc : interest'[f] = "off"
                          => interest[f] = "off" /\ on[w] # f
    BY <1>13, <1>a DEF close_zombie, close
  <2> QED
    BY <1>0, <2>1, <2>2, LetGoKeepsCharge
<1>14. ASSUME NEW w \in Worker, task_done(w) PROVE NoDeafDescriptor'
  <2>1. /\ UNCHANGED <<batch, main, tasks, interest>>
        /\ on' = [on EXCEPT ![w] = None]
    BY <1>14 DEF task_done, kernelVars
  <2>2. on[w] = None
    BY <1>0, <1>14 DEF task_done, FreeHands
  <2>3. \A f \in Desc : on[w] # f
    BY <2>2, EventLoopAssumption DEF Desc
  <2> QED
    BY <1>0, <2>1, <2>3, LetGoKeepsCharge
<1>15. ASSUME NEW w \in Worker,
              \/ wait_for_task(w) \/ spurious_wakeup(w)
              \/ handle_client_message(w) \/ send_outbox(w)
              \/ wipe_connection(w) \/ handle_incoming_discovery(w)
       PROVE  NoDeafDescriptor'
  <2>1. UNCHANGED <<batch, main, tasks, on, interest>>
    BY <1>15 DEF wait_for_task, spurious_wakeup, handle_client_message,
                 send_outbox, wipe_connection, handle_incoming_discovery,
                 kernelVars, ownVars
  <2> QED
    BY <1>0, <2>1, SameCharge
<1>16. CASE \/ UNCHANGED vars \/ handle_tcp_timer_expiration
            \/ peer_sends(udp_fd)
            \/ \E f \in Fd : peer_sends(f) \/ peer_closes(f) \/ connect_ends(f)
  <2>1. UNCHANGED <<batch, main, tasks, on, interest>>
    BY <1>16 DEF vars, handle_tcp_timer_expiration, peer_sends, peer_closes,
                 connect_ends, kernelVars, poolVars, ownVars
  <2> QED
    BY <1>0, <2>1, SameCharge
<1> QED
  BY <1>1, <1>2, <1>3, <1>4, <1>5, <1>6, <1>7, <1>8, <1>9, <1>10, <1>11,
     <1>12, <1>13, <1>14, <1>15, <1>16 DEF Next, main_step, worker_step

(* EPOLLONESHOT loses no descriptor: as long as the ring has room whenever *)
(* main has an event of input to queue (it holds 1024 tasks, and           *)
(* thread_pool_push_task drops what comes beyond), every descriptor that   *)
(* is disarmed is in an event, a task or the hands of a handler that will  *)
(* rearm or close it, whoever closes and reuses its number meanwhile.      *)
THEOREM NobodyGoesDeaf == Spec /\ []RoomForEvents => []NoDeafDescriptor
<1>1. Init => DInv
  BY EventLoopAssumption
     DEF Init, DInv, FreeHands, EventsReport, NoDeafDescriptor
<1>2. Spec => []IInv
  BY InitIInv, NextIInv, PTL DEF Spec
<1>3. IInv /\ DInv /\ RoomForEvents /\ [Next]_vars => DInv'
  <2>1. ASSUME IInv, DInv, RoomForEvents, [Next]_vars PROVE DInv'
    BY <2>1, NextFreeHands, NextEventsReport, NextDeaf DEF DInv
  <2> QED
    BY <2>1
<1>4. DInv => NoDeafDescriptor
  BY DEF DInv
<1> QED
  BY <1>1, <1>2, <1>3, <1>4, PTL DEF Spec
=============================================================================
