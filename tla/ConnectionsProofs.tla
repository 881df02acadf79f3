------------------------- MODULE ConnectionsProofs -------------------------
(***************************************************************************)
(* Proofs about Connections, for any nodes, workers, jobs and descriptors, *)
(* and any limits.                                                         *)
(***************************************************************************)
EXTENDS Connections, FiniteSetTheorems, WellFoundedInduction, TLAPS

----------------------------------------------------------------------------
(* The invariants. *)

DirectoryOK ==
    /\ DOMAIN known \subseteq Node
    /\ \A n \in DOMAIN known : known[n] \in 0 .. OldestAge
    /\ offered \subseteq Node /\ announced \subseteq Node
    /\ missed \in [Node -> 0 .. MaxLost]
    /\ collected \in BOOLEAN
    /\ status \in [Node -> {"up", "killed", "gone"}]

(* What TypeOK lacks here: an entry keeps one message at most. *)
TableOK ==
    /\ DOMAIN table \subseteq DOMAIN peer
    /\ DOMAIN peer \subseteq Fd
    /\ table \in [DOMAIN table -> [node : Node, pending : SUBSET Message]]
    /\ \A f \in DOMAIN table :
          \A p, q \in table[f].pending : p = q

SocketsOK ==
    /\ kernel \in [Fd -> {"closed", "connecting", "connected", "failed"}]
    /\ writable \subseteq Fd
    /\ \A f \in writable : kernel[f] # "closed"
    /\ chan \in [Fd -> Seq(Message)]
    /\ \A f \in Fd : chan[f] # << >> => kernel[f] = "connected"

JobsOK ==
    /\ submitted \subseteq Message /\ handled \subseteq Message
    /\ held \subseteq [job : JobId, fd : Fd] /\ granted \subseteq JobId

(* A worker has a message, and a descriptor that connect has handed out,   *)
(* at the steps that use them.                                             *)
Carrying == {"find", "connect", "register", "send"}

HandsOK ==
    /\ DOMAIN task = Worker
    /\ \A w \in Worker :
          /\ task[w].step \in Carrying => task[w].msg \in Message
          /\ task[w].step \in {"register", "send"} => task[w].fd \in DOMAIN peer

TInv == DirectoryOK /\ TableOK /\ SocketsOK /\ JobsOK /\ HandsOK

(* The age of a node that is up counts the intervals since its last        *)
(* ANNOUNCE that came through.                                             *)
AgesOK ==
    \A n \in DOMAIN known :
        status[n] = "up" =>
            known[n] <= missed[n] + (IF n \in announced THEN 0 ELSE 1)

(* The places a message can be in: with a worker, with an entry, on the    *)
(* wire.  Each place has it once.                                          *)
Hand(T) == {T[w].msg : w \in {v \in Worker : T[v].step \in Carrying}}

HandOnce(T) ==
    \A v, w \in Worker :
        /\ T[v].step \in Carrying /\ T[w].step \in Carrying
        /\ T[v].msg = T[w].msg
        => v = w

Parked(B) == UNION {B[f].pending : f \in DOMAIN B}

ParkedOnce(B) ==
    \A f, g \in DOMAIN B : B[f].pending \cap B[g].pending # {} => f = g

Wire(C) == UNION {Range(C[f]) : f \in Fd}

WireOnce(C) ==
    \A f, g \in Fd :
        \A i \in DOMAIN C[f], k \in DOMAIN C[g] :
            C[f][i] = C[g][k] => f = g /\ i = k

OnePlace(T, B, C, H, S) ==
    /\ HandOnce(T) /\ ParkedOnce(B) /\ WireOnce(C)
    /\ Hand(T) \cap Parked(B) = {}
    /\ Hand(T) \cap Wire(C) = {}
    /\ Hand(T) \cap H = {}
    /\ Parked(B) \cap Wire(C) = {}
    /\ Parked(B) \cap H = {}
    /\ Wire(C) \cap H = {}
    /\ Hand(T) \cup Parked(B) \cup Wire(C) \cup H \subseteq S

PInv == TInv /\ OnePlace(task, table, chan, handled, submitted)

----------------------------------------------------------------------------
(* The operators of the library the model uses. *)

(* A set of numbers that is not empty has a least one.  The numbers below  *)
(* x are a finite set that grows with x.                                   *)
LEMMA LeastNumber ==
    ASSUME NEW T \in SUBSET Nat, T # {}
    PROVE  \E x \in T : \A y \in T : x <= y
<1> DEFINE Below(x) == 0 .. (x - 1)
           R == StrictSubsetOrdering(Nat)
           F == FiniteSubsetsOf(Nat)
           B == {Below(x) : x \in T}
<1>1. IsWellFoundedOn(R, F)
  BY FS_StrictSubsetOrderingWellFounded
<1>2. \A x \in Nat : IsFiniteSet(Below(x)) /\ Below(x) \in SUBSET Nat
  BY FS_Interval
<1>3. B \subseteq F /\ B # {}
  BY <1>2 DEF FiniteSubsetsOf
<1>4. ASSUME NEW x \in Nat, NEW y \in Nat, y < x
      PROVE  <<Below(y), Below(x)>> \in R
  <2>1. Below(y) \subseteq Below(x)
    BY <1>4
  <2>2. y \in Below(x) /\ y \notin Below(y)
    BY <1>4
  <2> QED
    BY <1>2, <2>1, <2>2 DEF StrictSubsetOrdering
<1>5. PICK b \in B : \A c \in B : ~(<<c, b>> \in R)
  <2> HIDE DEF B, R, F
  <2> QED
    BY <1>1, <1>3, WFMin
<1>6. PICK x \in T : b = Below(x)
  OBVIOUS
<1>7. ASSUME NEW y \in T
      PROVE  x <= y
  <2>1. ~(<<Below(y), Below(x)>> \in R)
    BY <1>5, <1>6
  <2>2. ~(y < x)
    BY <1>4, <2>1
  <2> QED
    BY <2>2
<1> QED
  BY <1>7

(* The lowest descriptor of a set is one of the set. *)
LEMMA MinIsMember ==
    ASSUME NEW F \in SUBSET Fd, F # {}
    PROVE  Min(F) \in F
BY LeastNumber, ConnectionsAssumption DEF Min

(* The pending messages of an entry as a sequence: none or one. *)
LEMMA SetToSeqSmall ==
    /\ SetToSeq({}) = << >>
    /\ \A m : SetToSeq({m}) = <<m>>
<1>1. SetToSeq({}) = << >>
  <2>1. Cardinality({}) = 0
    BY FS_EmptySet
  <2>2. << >> \in [1 .. 0 -> {}] /\ IsInjective(<< >>)
    BY DEF IsInjective
  <2>3. \A f \in [1 .. 0 -> {}] : f = << >>
    OBVIOUS
  <2> QED
    BY <2>1, <2>2, <2>3 DEF SetToSeq
<1>2. ASSUME NEW m PROVE SetToSeq({m}) = <<m>>
  <2>1. Cardinality({m}) = 1
    BY FS_Singleton
  <2>2. <<m>> \in [1 .. 1 -> {m}] /\ IsInjective(<<m>>)
    BY DEF IsInjective
  <2>3. \A f \in [1 .. 1 -> {m}] : f = <<m>>
    OBVIOUS
  <2> QED
    BY <2>1, <2>2, <2>3 DEF SetToSeq
<1> QED
  BY <1>1, <1>2

(* What main sends on a connection that is up. *)
LEMMA PendingSmall ==
    ASSUME TableOK, NEW f
    PROVE  \/ Pending(f) = << >>
           \/ /\ f \in DOMAIN table
              /\ \E m \in Message : m \in table[f].pending /\ Pending(f) = <<m>>
<1>1. CASE f \notin DOMAIN table
  BY <1>1 DEF Pending
<1>2. CASE f \in DOMAIN table /\ table[f].pending = {}
  BY <1>2, SetToSeqSmall DEF Pending
<1>3. CASE f \in DOMAIN table /\ table[f].pending # {}
  <2>1. PICK m \in table[f].pending : TRUE
    BY <1>3
  <2>2. table[f].pending = {m} /\ m \in Message
    BY <1>3, <2>1 DEF TableOK
  <2>3. Pending(f) = <<m>>
    BY <1>3, <2>2, SetToSeqSmall DEF Pending
  <2> QED
    BY <1>3, <2>1, <2>2, <2>3
<1> QED
  BY <1>1, <1>2, <1>3

----------------------------------------------------------------------------
(* Types. *)

LEMMA InitTInv == Init => TInv
<1> SUFFICES ASSUME Init PROVE TInv
  OBVIOUS
<1> USE ConnectionsAssumption, KnownNodesAssumption DEF Init, OldestAge
<1>1. DirectoryOK
  <2>1. DOMAIN known = {}
    OBVIOUS
  <2>2. collected \in BOOLEAN
    BY Zenon
  <2> QED
    BY <2>1, <2>2 DEF DirectoryOK
<1>2. TableOK
  BY DEF TableOK
<1>3. SocketsOK
  BY DEF SocketsOK
<1>4. JobsOK
  BY DEF JobsOK
<1>5. HandsOK
  BY DEF HandsOK, Idle, Carrying
<1> QED
  BY <1>1, <1>2, <1>3, <1>4, <1>5 DEF TInv

(* The parts that a step leaves alone stay as they are. *)
LEMMA Untouched ==
    ASSUME TInv
    PROVE  /\ UNCHANGED <<dirVars, status>> => DirectoryOK'
           /\ UNCHANGED <<table, peer>> => TableOK'
           /\ UNCHANGED <<kernel, writable, chan>> => SocketsOK'
           /\ UNCHANGED jobVars => JobsOK'
           /\ UNCHANGED <<task, peer>> => HandsOK'
BY DEF TInv, DirectoryOK, TableOK, SocketsOK, JobsOK, HandsOK, dirVars, jobVars

(* A worker that goes on. *)
LEMMA HandsStep ==
    ASSUME TInv, NEW w \in Worker, NEW t,
           task' = [task EXCEPT ![w] = t],
           DOMAIN peer \subseteq DOMAIN peer',
           t.step \in Carrying => t.msg \in Message,
           t.step \in {"register", "send"} => t.fd \in DOMAIN peer'
    PROVE  HandsOK'
BY DEF TInv, HandsOK

(* A descriptor that is closed. *)
LEMMA SocketsClosed ==
    ASSUME TInv, NEW Z, CloseAll(Z)
    PROVE  SocketsOK'
<1>1. << >> \in Seq(Message)
  OBVIOUS
<1> QED
  BY <1>1 DEF TInv, SocketsOK, CloseAll

LEMMA NextTInv == TInv /\ [Next]_vars => TInv'
<1> SUFFICES ASSUME TInv, [Next]_vars PROVE TInv'
  OBVIOUS
<1> USE ConnectionsAssumption, KnownNodesAssumption DEF OldestAge
<1> DEFINE G == TInv'
<1>0. DirectoryOK' /\ TableOK' /\ SocketsOK' /\ JobsOK' /\ HandsOK' => G
  BY DEF TInv
<1>1. CASE tick
  <2>1. DirectoryOK'
    <3>1. /\ DOMAIN known' = DOMAIN known
          /\ \A n \in DOMAIN known : known'[n] \in 0 .. OldestAge
      BY <1>1 DEF TInv, DirectoryOK, tick, Older
    <3>2. collected' \in BOOLEAN
      BY <1>1, Zenon DEF tick
    <3>3. UNCHANGED <<offered, missed, status>> /\ announced' = {}
      BY <1>1, Zenon DEF tick
    <3> QED
      BY <3>1, <3>2, <3>3 DEF TInv, DirectoryOK
  <2> QED
    BY <1>0, <1>1, <2>1, Untouched DEF tick, connVars
<1>2. ASSUME NEW n \in Node, handle_node_announced(n) PROVE G
  <2>1. DirectoryOK'
    BY <1>2 DEF TInv, DirectoryOK, handle_node_announced, update_known_node
  <2> QED
    BY <1>0, <1>2, <2>1, Untouched DEF handle_node_announced, connVars
<1>3. ASSUME NEW n \in Node, announce_lost(n) PROVE G
  <2>1. DirectoryOK'
    BY <1>3 DEF TInv, DirectoryOK, announce_lost
  <2> QED
    BY <1>0, <1>3, <2>1, Untouched DEF announce_lost, connVars
<1>4. ASSUME NEW n \in Node, NEW how \in Faults, node_dies(n, how) PROVE G
  <2>1. DirectoryOK'
    BY <1>4 DEF TInv, DirectoryOK, node_dies, dirVars
  <2>2. JobsOK'
    BY <1>4 DEF TInv, JobsOK, node_dies
  <2> QED
    BY <1>0, <1>4, <2>1, <2>2, Untouched DEF node_dies, connVars
<1>5. ASSUME NEW X \in SUBSET Node, handle_get_nodes(X) PROVE G
  <2>1. DirectoryOK'
    BY <1>5 DEF TInv, DirectoryOK, handle_get_nodes, dirVars
  <2> QED
    BY <1>0, <1>5, <2>1, Untouched DEF handle_get_nodes, connVars
<1>6. ASSUME NEW X \in SUBSET Node, handle_check_deadnodes(X) PROVE G
  <2>1. DirectoryOK'
    BY <1>6 DEF TInv, DirectoryOK, handle_check_deadnodes,
                remove_inactive_nodes
  <2>2. SocketsOK'
    BY <1>6, SocketsClosed DEF handle_check_deadnodes
  <2> QED
    BY <1>0, <1>6, <2>1, <2>2, Untouched DEF handle_check_deadnodes
<1>7. ASSUME NEW w \in Worker, NEW m \in Message, Start(w, m) PROVE G
  <2>1. HandsOK'
    <3> DEFINE t == [step |-> "find", msg |-> m]
    <3>1. t.step = "find" /\ t.msg = m
      OBVIOUS
    <3>2. task' = [task EXCEPT ![w] = t] /\ peer' = peer
      BY <1>7 DEF Start, connVars
    <3> HIDE DEF t
    <3> QED
      BY <3>1, <3>2, HandsStep DEF Carrying
  <2>2. JobsOK'
    BY <1>7 DEF TInv, JobsOK, Start
  <2> QED
    BY <1>0, <1>7, <2>1, <2>2, Untouched DEF Start, connVars
<1>8. ASSUME NEW w \in Worker, find_fd_by_ip_port(w) PROVE G
  <2> DEFINE m == task[w].msg
             F == FdsOf(Target[m.job])
             t == IF F # {} THEN [step |-> "send", msg |-> m, fd |-> Min(F)]
                  ELSE [step |-> "connect", msg |-> m]
  <2>1. m \in Message
    BY <1>8 DEF TInv, HandsOK, Carrying, find_fd_by_ip_port
  <2>2. F \subseteq DOMAIN peer /\ F \in SUBSET Fd
    BY DEF FdsOf, TInv, TableOK
  <2>3. F # {} => Min(F) \in DOMAIN peer
    <3> HIDE DEF F
    <3> QED
      BY <2>2, MinIsMember
  <2>4. /\ t.msg = m
        /\ t.step = IF F # {} THEN "send" ELSE "connect"
        /\ F # {} => t.fd = Min(F)
    OBVIOUS
  <2>5. task' = [task EXCEPT ![w] = t] /\ peer' = peer
    BY <1>8 DEF find_fd_by_ip_port, connVars
  <2>6. HandsOK'
    <3> HIDE DEF t, F, m
    <3> QED
      BY <2>1, <2>3, <2>4, <2>5, HandsStep DEF Carrying
  <2> QED
    BY <1>0, <1>8, <2>6, Untouched DEF find_fd_by_ip_port, connVars
<1>9. ASSUME NEW w \in Worker, connect_to_tcp_node(w) PROVE G
  <2> DEFINE m == task[w].msg
             F == {f \in Fd : kernel[f] = "closed"}
             f == Min(F)
             t == [step |-> "register", msg |-> m, fd |-> f]
  <2>1. m \in Message
    BY <1>9 DEF TInv, HandsOK, Carrying, connect_to_tcp_node
  <2>2. f \in Fd /\ kernel[f] = "closed"
    <3>1. F # {} /\ F \in SUBSET Fd
      BY <1>9 DEF connect_to_tcp_node
    <3>2. Min(F) \in F
      <4> HIDE DEF F
      <4> QED
        BY <3>1, MinIsMember
    <3> QED
      BY <3>2
  <2>3. t.step = "register" /\ t.msg = m /\ t.fd = f
    OBVIOUS
  <2>4. /\ kernel' = [kernel EXCEPT ![f] = "connecting"]
        /\ DOMAIN peer' = DOMAIN peer \cup {f}
        /\ task' = [task EXCEPT ![w] = t]
        /\ UNCHANGED <<table, writable, chan>>
    BY <1>9 DEF connect_to_tcp_node
  <2> HIDE DEF t, f, F, m
  <2>5. HandsOK'
    BY <2>1, <2>3, <2>4, HandsStep DEF Carrying
  <2>6. SocketsOK'
    BY <2>2, <2>4 DEF TInv, SocketsOK
  <2>7. TableOK'
    BY <2>2, <2>4 DEF TInv, TableOK
  <2> QED
    BY <1>0, <1>9, <2>5, <2>6, <2>7, Untouched DEF connect_to_tcp_node
<1>10. ASSUME NEW w \in Worker, register(w) PROVE G
  <2> DEFINE m == task[w].msg
             f == task[w].fd
             b == [node |-> Target[m.job], pending |-> {m}]
  <2>1. m \in Message /\ f \in DOMAIN peer
    BY <1>10 DEF TInv, HandsOK, Carrying, register
  <2>2. Target[m.job] \in Node
    BY <2>1 DEF Message
  <2>3. b \in [node : Node, pending : SUBSET Message] /\ b.pending = {m}
    BY <2>1, <2>2
  <2>4. /\ table' = [g \in DOMAIN table \cup {f} |-> IF g = f THEN b ELSE table[g]]
        /\ writable' = writable \cup {g \in {f} : kernel[g] # "closed"}
        /\ task' = [task EXCEPT ![w] = Idle]
        /\ UNCHANGED <<kernel, peer, chan>>
    BY <1>10 DEF register
  <2> HIDE DEF b, f, m
  <2>5. TableOK'
    BY <2>1, <2>3, <2>4 DEF TInv, TableOK
  <2>6. SocketsOK'
    BY <2>1, <2>4 DEF TInv, TableOK, SocketsOK
  <2>7. HandsOK'
    BY <2>4, HandsStep DEF Idle, Carrying
  <2> QED
    BY <1>0, <1>10, <2>5, <2>6, <2>7, Untouched DEF register
<1>11. ASSUME NEW w \in Worker, send_tcp_message(w) PROVE G
  <2> DEFINE m == task[w].msg
             f == task[w].fd
  <2>1. m \in Message /\ f \in Fd
    BY <1>11 DEF TInv, HandsOK, TableOK, Carrying, send_tcp_message
  <2>2. HandsOK'
    BY <1>11, HandsStep DEF Idle, Carrying, send_tcp_message
  <2>3. SocketsOK'
    <3>1. CASE Accepts(f) /\ chan' = [chan EXCEPT ![f] = Append(@, m)]
      <4> HIDE DEF m, f
      <4>0. chan[f] \in Seq(Message)
        BY <2>1 DEF TInv, SocketsOK
      <4>1. Append(chan[f], m) \in Seq(Message)
        BY <2>1, <4>0
      <4> QED
        BY <1>11, <2>1, <3>1, <4>1
           DEF TInv, SocketsOK, Accepts, send_tcp_message
    <3>2. CASE UNCHANGED chan
      BY <1>11, <3>2, Untouched DEF send_tcp_message
    <3> QED
      BY <1>11, <3>1, <3>2 DEF send_tcp_message
  <2> QED
    BY <1>0, <1>11, <2>2, <2>3, Untouched DEF send_tcp_message
<1>12. ASSUME NEW w \in Worker, wipe(w) PROVE G
  <2>1. TableOK'
    BY <1>12 DEF TInv, TableOK, wipe, Unregister
  <2>2. HandsOK'
    BY <1>12, HandsStep DEF Idle, Carrying, wipe
  <2> QED
    BY <1>0, <1>12, <2>1, <2>2, Untouched DEF wipe
<1>13. ASSUME NEW w \in Worker, NEW f \in Fd, handle_disconnected(w, f) PROVE G
  <2> DEFINE t == [step |-> "wipe", fd |-> f]
  <2>1. t.step = "wipe"
    OBVIOUS
  <2>2. task' = [task EXCEPT ![w] = t] /\ peer' = peer
    BY <1>13 DEF handle_disconnected
  <2>3. HandsOK'
    <3> HIDE DEF t
    <3> QED
      BY <2>1, <2>2, HandsStep DEF Carrying
  <2>4. SocketsOK'
    <3>1. << >> \in Seq(Message)
      OBVIOUS
    <3> QED
      BY <1>13, <3>1 DEF TInv, SocketsOK, handle_disconnected
  <2> QED
    BY <1>0, <1>13, <2>3, <2>4, Untouched DEF handle_disconnected
<1>14. ASSUME NEW f \in Fd, handshake(f) PROVE G
  <2>1. SocketsOK'
    BY <1>14 DEF TInv, SocketsOK, handshake
  <2> QED
    BY <1>0, <1>14, <2>1, Untouched DEF handshake
<1>15. ASSUME NEW f \in Fd, handle_connection_success(f) PROVE G
  <2>1. CASE kernel[f] = "connected"
    <3>1. /\ chan' = [chan EXCEPT ![f] = @ \o Pending(f)]
          /\ table' = [g \in DOMAIN table |->
                         IF g = f THEN [table[g] EXCEPT !.pending = {}]
                         ELSE table[g]]
          /\ kernel' = kernel
          /\ writable' = writable \ {f}
          /\ peer' = peer
      BY <1>15, <2>1 DEF handle_connection_success
    <3>2. chan[f] \o Pending(f) \in Seq(Message)
      <4>1. Pending(f) \in Seq(Message)
        <5>1. << >> \in Seq(Message) /\ \A m \in Message : <<m>> \in Seq(Message)
          OBVIOUS
        <5> QED
          BY <5>1, PendingSmall DEF TInv
      <4> QED
        BY <4>1 DEF TInv, SocketsOK
    <3>3. SocketsOK'
      BY <2>1, <3>1, <3>2 DEF TInv, SocketsOK
    <3>4. TableOK'
      BY <3>1 DEF TInv, TableOK
    <3> QED
      BY <1>0, <1>15, <3>3, <3>4, Untouched DEF handle_connection_success
  <2>2. CASE kernel[f] = "failed"
    <3>1. /\ table' = Unregister(f)
          /\ kernel' = [kernel EXCEPT ![f] = "closed"]
          /\ writable' = writable \ {f}
          /\ UNCHANGED <<chan, peer>>
      BY <1>15, <2>2 DEF handle_connection_success
    <3>2. SocketsOK'
      BY <2>2, <3>1 DEF TInv, SocketsOK
    <3>3. TableOK'
      BY <3>1 DEF TInv, TableOK, Unregister
    <3> QED
      BY <1>0, <1>15, <3>2, <3>3, Untouched DEF handle_connection_success
  <2> QED
    BY <1>15, <2>1, <2>2 DEF handle_connection_success
<1>16. ASSUME NEW f \in Fd, peer_handles(f) PROVE G
  <2>1. chan[f] \in Seq(Message) /\ chan[f] # << >>
    BY <1>16 DEF TInv, SocketsOK, peer_handles
  <2>2. Head(chan[f]) \in Message /\ Tail(chan[f]) \in Seq(Message)
    BY <2>1
  <2>3. chan' = [chan EXCEPT ![f] = Tail(@)]
    BY <1>16 DEF peer_handles
  <2>4. SocketsOK'
    BY <1>16, <2>1, <2>2, <2>3 DEF TInv, SocketsOK, peer_handles
  <2>5. JobsOK'
    BY <1>16, <2>2 DEF TInv, JobsOK, peer_handles, Message
  <2> QED
    BY <1>0, <1>16, <2>4, <2>5, Untouched DEF peer_handles
<1>17. CASE UNCHANGED vars
  BY <1>0, <1>17, Untouched DEF vars, connVars
<1> QED
  BY <1>1, <1>2, <1>3, <1>4, <1>5, <1>6, <1>7, <1>8, <1>9, <1>10,
     <1>11, <1>12, <1>13, <1>14, <1>15, <1>16, <1>17
     DEF Next, send_reserve, send_release, Message

LEMMA AlwaysTInv == Spec => []TInv
BY InitTInv, NextTInv, PTL DEF Spec

----------------------------------------------------------------------------
(* The directory. *)

LEMMA InitAges == Init => AgesOK
<1> SUFFICES ASSUME Init PROVE DOMAIN known = {}
  BY DEF AgesOK
<1> QED
  BY DEF Init

(* A step that touches neither ages nor announcements; a node that dies    *)
(* leaves fewer of them to care for.                                       *)
LEMMA AgesUntouched ==
    ASSUME AgesOK, UNCHANGED <<known, missed, announced>>,
           \A n \in DOMAIN known : status'[n] = "up" => status[n] = "up"
    PROVE  AgesOK'
BY DEF AgesOK

LEMMA NextAges == TInv /\ AgesOK /\ [Next]_vars => AgesOK'
<1> SUFFICES ASSUME TInv, AgesOK, [Next]_vars PROVE AgesOK'
  OBVIOUS
<1> USE ConnectionsAssumption, KnownNodesAssumption DEF OldestAge
<1>0. /\ DOMAIN known \subseteq Node
      /\ \A n \in DOMAIN known : known[n] \in Nat
      /\ \A n \in Node : missed[n] \in Nat
      /\ missed \in [Node -> Nat] /\ status \in [Node -> {"up", "killed", "gone"}]
  BY DEF TInv, DirectoryOK
<1>1. CASE tick
  <2>1. /\ \A n \in Node : status[n] = "up" => n \in announced
        /\ announced' = {} /\ missed' = missed /\ status' = status
        /\ known' = Older(known)
    BY <1>1, Zenon DEF tick
  <2> QED
    BY <1>0, <2>1 DEF AgesOK, Older
<1>2. ASSUME NEW n \in Node, handle_node_announced(n) PROVE AgesOK'
  BY <1>0, <1>2 DEF AgesOK, handle_node_announced, update_known_node
<1>3. ASSUME NEW n \in Node, announce_lost(n) PROVE AgesOK'
  BY <1>0, <1>3 DEF AgesOK, announce_lost
<1>4. ASSUME NEW X \in SUBSET Node, handle_check_deadnodes(X) PROVE AgesOK'
  BY <1>0, <1>4 DEF AgesOK, handle_check_deadnodes, remove_inactive_nodes
<1>5. ASSUME NEW n \in Node, NEW how \in Faults, node_dies(n, how) PROVE AgesOK'
  BY <1>0, <1>5, AgesUntouched DEF node_dies, dirVars
<1>6. CASE UNCHANGED <<known, missed, announced, status>>
  BY <1>6, AgesUntouched
<1>7. ASSUME NEW X \in SUBSET Node, handle_get_nodes(X) PROVE AgesOK'
  BY <1>6, <1>7 DEF handle_get_nodes
<1>8. ASSUME NEW w \in Worker, NEW j \in JobId,
             send_reserve(w, j) \/ send_release(w, j)
      PROVE  AgesOK'
  BY <1>6, <1>8 DEF send_reserve, send_release, Start, dirVars
<1>9. ASSUME NEW w \in Worker,
              \/ find_fd_by_ip_port(w) \/ connect_to_tcp_node(w) \/ register(w)
              \/ send_tcp_message(w) \/ wipe(w)
       PROVE  AgesOK'
  BY <1>6, <1>9 DEF find_fd_by_ip_port, connect_to_tcp_node, register,
                     send_tcp_message, wipe, dirVars
<1>10. ASSUME NEW w \in Worker, NEW f \in Fd, handle_disconnected(w, f)
       PROVE  AgesOK'
  BY <1>6, <1>10 DEF handle_disconnected, dirVars
<1>11. ASSUME NEW f \in Fd,
              handshake(f) \/ handle_connection_success(f) \/ peer_handles(f)
       PROVE  AgesOK'
  BY <1>6, <1>11 DEF handshake, handle_connection_success, peer_handles, dirVars
<1>12. CASE UNCHANGED vars
  BY <1>6, <1>12 DEF vars, dirVars
<1> QED
  BY <1>1, <1>2, <1>3, <1>4, <1>5, <1>7, <1>8, <1>9, <1>10, <1>11, <1>12
     DEF Next

(* Only the collector removes nodes. *)
LEMMA WhoRemoves ==
    ASSUME [Next]_vars, NEW n \in DOMAIN known, n \notin DOMAIN known'
    PROVE  /\ \E X \in SUBSET Node : handle_check_deadnodes(X)
           /\ known[n] >= ANNOUNCE_TIMEOUT
<1>0. SUFFICES ASSUME ~ \E X \in SUBSET Node : handle_check_deadnodes(X)
               PROVE  FALSE
  <2>1. ASSUME NEW X \in SUBSET Node, handle_check_deadnodes(X)
        PROVE  known[n] >= ANNOUNCE_TIMEOUT
    <3>1. n \in X /\ X \in Removed(known)
      BY <2>1 DEF handle_check_deadnodes, remove_inactive_nodes
    <3> QED
      BY <3>1 DEF Removed, Inactive, Aged
  <2> QED
    BY <2>1
<1>1. ASSUME tick PROVE FALSE
  BY <1>1 DEF tick, Older
<1>2. ASSUME NEW m \in Node, handle_node_announced(m) PROVE FALSE
  BY <1>2 DEF handle_node_announced, update_known_node
<1>3. CASE UNCHANGED known
  BY <1>3
<1>4. ASSUME NEW m \in Node, announce_lost(m) PROVE FALSE
  BY <1>3, <1>4 DEF announce_lost
<1>5. ASSUME NEW m \in Node, NEW how \in Faults, node_dies(m, how) PROVE FALSE
  BY <1>3, <1>5 DEF node_dies, dirVars
<1>6. ASSUME NEW X \in SUBSET Node, handle_get_nodes(X) PROVE FALSE
  BY <1>3, <1>6 DEF handle_get_nodes
<1>7. ASSUME NEW w \in Worker, NEW j \in JobId,
             send_reserve(w, j) \/ send_release(w, j)
      PROVE  FALSE
  BY <1>3, <1>7 DEF send_reserve, send_release, Start, dirVars
<1>8. ASSUME NEW w \in Worker,
             \/ find_fd_by_ip_port(w) \/ connect_to_tcp_node(w) \/ register(w)
             \/ send_tcp_message(w) \/ wipe(w)
      PROVE  FALSE
  BY <1>3, <1>8 DEF find_fd_by_ip_port, connect_to_tcp_node, register,
                    send_tcp_message, wipe, dirVars
<1>9. ASSUME NEW w \in Worker, NEW f \in Fd, handle_disconnected(w, f)
      PROVE  FALSE
  BY <1>3, <1>9 DEF handle_disconnected, dirVars
<1>10. ASSUME NEW f \in Fd,
              handshake(f) \/ handle_connection_success(f) \/ peer_handles(f)
       PROVE  FALSE
  BY <1>3, <1>10 DEF handshake, handle_connection_success, peer_handles, dirVars
<1>11. CASE UNCHANGED vars
  BY <1>3, <1>11 DEF vars, dirVars
<1> QED
  BY <1>0, <1>1, <1>2, <1>4, <1>5, <1>6, <1>7, <1>8, <1>9, <1>10, <1>11 DEF Next

(* The collector declares no node dead that is up, if it takes one         *)
(* ANNOUNCE more than may be lost in a row to reach ANNOUNCE_TIMEOUT, for  *)
(* any order of timers, datagrams and collections and however time() cuts  *)
(* off what is between two time stamps: with the 3 intervals of the code,  *)
(* if no two ANNOUNCEs in a row are lost.                                  *)
THEOREM NoLiveNodeIsRemoved ==
    ASSUME MaxLost + 1 < ANNOUNCE_TIMEOUT
    PROVE  Spec => NoFalseDeath
<1> DEFINE Kept == \A n \in DOMAIN known \ DOMAIN known' : status[n] # "up"
<1>1. TInv /\ AgesOK /\ [Next]_vars => [Kept]_vars
  <2> SUFFICES ASSUME TInv, AgesOK, [Next]_vars,
                      NEW n \in DOMAIN known, n \notin DOMAIN known',
                      status[n] = "up"
               PROVE  FALSE
    OBVIOUS
  <2>1. known[n] >= ANNOUNCE_TIMEOUT
    BY WhoRemoves
  <2>2. /\ missed[n] \in 0 .. MaxLost
        /\ known[n] \in 0 .. OldestAge
    BY DEF TInv, DirectoryOK
  <2>3. known[n] <= missed[n] + 1
    BY <2>2, ConnectionsAssumption, KnownNodesAssumption DEF AgesOK, OldestAge
  <2> QED
    BY <2>1, <2>2, <2>3, ConnectionsAssumption, KnownNodesAssumption
       DEF OldestAge
<1> QED
  BY <1>1, InitAges, NextAges, AlwaysTInv, PTL DEF Spec, NoFalseDeath

----------------------------------------------------------------------------
(* The places of a message. *)

(* A worker puts a message down, or does something without one. *)
LEMMA HandDrops ==
    ASSUME NEW T, DOMAIN T = Worker, NEW w \in Worker, NEW t,
           t.step \notin Carrying, HandOnce(T)
    PROVE  LET U == [T EXCEPT ![w] = t]
           IN  /\ HandOnce(U)
               /\ Hand(U) \subseteq Hand(T)
               /\ T[w].step \in Carrying =>
                     T[w].msg \in Hand(T) /\ T[w].msg \notin Hand(U)
BY DEF HandOnce, Hand

(* A worker goes on with its message. *)
LEMMA HandKeeps ==
    ASSUME NEW T, DOMAIN T = Worker, NEW w \in Worker, NEW t,
           T[w].step \in Carrying, t.step \in Carrying, t.msg = T[w].msg,
           HandOnce(T)
    PROVE  LET U == [T EXCEPT ![w] = t]
           IN  HandOnce(U) /\ Hand(U) \subseteq Hand(T)
BY DEF HandOnce, Hand

(* A worker takes up a message that nobody else has. *)
LEMMA HandTakes ==
    ASSUME NEW T, DOMAIN T = Worker, NEW w \in Worker, NEW t,
           t.step \in Carrying, t.msg \notin Hand(T), HandOnce(T)
    PROVE  LET U == [T EXCEPT ![w] = t]
           IN  HandOnce(U) /\ Hand(U) \subseteq Hand(T) \cup {t.msg}
BY DEF HandOnce, Hand

(* Entries are wiped, or emptied. *)
LEMMA ParkedDrops ==
    ASSUME NEW B, NEW E, DOMAIN E \subseteq DOMAIN B,
           \A g \in DOMAIN E : E[g].pending \subseteq B[g].pending,
           ParkedOnce(B)
    PROVE  ParkedOnce(E) /\ Parked(E) \subseteq Parked(B)
<1>1. ParkedOnce(E)
  BY DEF ParkedOnce
<1>2. Parked(E) \subseteq Parked(B)
  <2> SUFFICES ASSUME NEW g \in DOMAIN E, NEW m \in E[g].pending
               PROVE  m \in Parked(B)
    BY DEF Parked
  <2> QED
    BY DEF Parked
<1> QED
  BY <1>1, <1>2

(* An entry is made, or overwritten, with a message no entry has. *)
LEMMA ParkedTakes ==
    ASSUME NEW B, NEW f, NEW m, NEW E,
           DOMAIN E = DOMAIN B \cup {f}, E[f].pending = {m},
           \A g \in DOMAIN B : g # f => E[g].pending = B[g].pending,
           m \notin Parked(B), ParkedOnce(B)
    PROVE  ParkedOnce(E) /\ Parked(E) \subseteq Parked(B) \cup {m}
<1>2. \A g \in DOMAIN B : m \notin B[g].pending
  BY DEF Parked
<1>3. ParkedOnce(E)
  BY <1>2 DEF ParkedOnce
<1>4. Parked(E) \subseteq Parked(B) \cup {m}
  <2> SUFFICES ASSUME NEW g \in DOMAIN E, NEW x \in E[g].pending
               PROVE  x \in Parked(B) \cup {m}
    BY DEF Parked
  <2> QED
    BY DEF Parked
<1> QED
  BY <1>3, <1>4

(* Bytes that are lost with their connection. *)
LEMMA WireDrops ==
    ASSUME NEW C, NEW D,
           \A f \in Fd : D[f] = C[f] \/ D[f] = << >>,
           WireOnce(C)
    PROVE  WireOnce(D) /\ Wire(D) \subseteq Wire(C)
<1>1. WireOnce(D)
  <2> SUFFICES ASSUME NEW f \in Fd, NEW g \in Fd,
                      NEW i \in DOMAIN D[f], NEW k \in DOMAIN D[g],
                      D[f][i] = D[g][k]
               PROVE  f = g /\ i = k
    BY DEF WireOnce
  <2>1. D[f] = C[f] /\ D[g] = C[g]
    OBVIOUS
  <2> QED
    BY <2>1 DEF WireOnce
<1>2. Wire(D) \subseteq Wire(C)
  <2> SUFFICES ASSUME NEW f \in Fd, NEW i \in DOMAIN D[f]
               PROVE  D[f][i] \in Wire(C)
    BY DEF Wire, Range
  <2>1. D[f] = C[f]
    OBVIOUS
  <2> QED
    BY <2>1 DEF Wire, Range
<1> QED
  BY <1>1, <1>2

(* A message is written that is not on the wire yet. *)
LEMMA WireTakes ==
    ASSUME NEW C \in [Fd -> Seq(Message)], NEW f \in Fd, NEW m \in Message,
           m \notin Wire(C), WireOnce(C)
    PROVE  LET D == [C EXCEPT ![f] = Append(@, m)]
           IN  WireOnce(D) /\ Wire(D) \subseteq Wire(C) \cup {m}
<1> DEFINE D == [C EXCEPT ![f] = Append(@, m)]
           n == Len(C[f])
<1>0. n \in Nat /\ DOMAIN C[f] = 1 .. n
  OBVIOUS
<1>1. /\ D[f] = Append(C[f], m)
      /\ DOMAIN D[f] = 1 .. (n + 1)
      /\ D[f][n + 1] = m
      /\ \A i \in 1 .. n : D[f][i] = C[f][i]
      /\ \A g \in Fd : g # f => D[g] = C[g]
  BY <1>0
<1>2. \A g \in Fd : \A i \in DOMAIN C[g] : C[g][i] # m /\ C[g][i] \in Wire(C)
  BY DEF Wire, Range
<1> HIDE DEF D, n
<1>3. ASSUME NEW g \in Fd, NEW i \in DOMAIN D[g]
      PROVE  \/ i \in DOMAIN C[g] /\ D[g][i] = C[g][i]
             \/ g = f /\ i = n + 1 /\ D[g][i] = m
  BY <1>0, <1>1
<1>4. WireOnce(D)
  <2> SUFFICES ASSUME NEW g \in Fd, NEW h \in Fd,
                      NEW i \in DOMAIN D[g], NEW k \in DOMAIN D[h],
                      D[g][i] = D[h][k]
               PROVE  g = h /\ i = k
    BY DEF WireOnce
  <2> QED
    BY <1>2, <1>3 DEF WireOnce
<1>5. Wire(D) \subseteq Wire(C) \cup {m}
  <2> SUFFICES ASSUME NEW g \in Fd, NEW i \in DOMAIN D[g]
               PROVE  D[g][i] \in Wire(C) \cup {m}
    BY DEF Wire, Range
  <2> QED
    BY <1>2, <1>3
<1> QED
  BY <1>4, <1>5 DEF D

(* The first message of a connection is read, and it is gone from the wire. *)
LEMMA WireGives ==
    ASSUME NEW C \in [Fd -> Seq(Message)], NEW f \in Fd, C[f] # << >>,
           WireOnce(C)
    PROVE  LET D == [C EXCEPT ![f] = Tail(@)]
           IN  /\ WireOnce(D) /\ Wire(D) \subseteq Wire(C)
               /\ Head(C[f]) \in Wire(C) /\ Head(C[f]) \notin Wire(D)
<1> DEFINE D == [C EXCEPT ![f] = Tail(@)]
           n == Len(C[f])
           m == Head(C[f])
<1>0. n \in Nat /\ n # 0 /\ DOMAIN C[f] = 1 .. n /\ m = C[f][1]
  OBVIOUS
<1>1. /\ DOMAIN D[f] = 1 .. (n - 1)
      /\ \A i \in 1 .. (n - 1) : D[f][i] = C[f][i + 1]
      /\ \A g \in Fd : g # f => D[g] = C[g]
  <2>1. D[f] = Tail(C[f])
    OBVIOUS
  <2>2. Len(Tail(C[f])) = n - 1 /\ Tail(C[f]) \in Seq(Message)
    BY <1>0
  <2>3. \A i \in 1 .. (n - 1) : Tail(C[f])[i] = C[f][i + 1]
    BY <1>0
  <2>4. DOMAIN Tail(C[f]) = 1 .. (n - 1)
    BY <2>2
  <2>5. \A g \in Fd : g # f => D[g] = C[g]
    OBVIOUS
  <2> QED
    BY <2>1, <2>3, <2>4, <2>5
<1> DEFINE Was(g, i) == IF g = f THEN i + 1 ELSE i
<1> HIDE DEF D, n, m
<1>3. ASSUME NEW g \in Fd, NEW i \in DOMAIN D[g]
      PROVE  /\ Was(g, i) \in DOMAIN C[g] /\ D[g][i] = C[g][Was(g, i)]
             /\ g = f => Was(g, i) # 1
             /\ g = f => i \in Int
  BY <1>0, <1>1
<1>4. WireOnce(D)
  <2> SUFFICES ASSUME NEW g \in Fd, NEW h \in Fd,
                      NEW i \in DOMAIN D[g], NEW k \in DOMAIN D[h],
                      D[g][i] = D[h][k]
               PROVE  g = h /\ i = k
    BY DEF WireOnce
  <2>1. C[g][Was(g, i)] = C[h][Was(h, k)]
    BY <1>3
  <2>2. g = h /\ Was(g, i) = Was(h, k)
    <3> HIDE DEF Was
    <3> QED
      BY <1>3, <2>1 DEF WireOnce
  <2> QED
    BY <1>3, <2>2
<1>5. ASSUME NEW g \in Fd, NEW i \in DOMAIN D[g]
      PROVE  D[g][i] \in Wire(C) /\ D[g][i] # m
  <2>1. D[g][i] \in Wire(C)
    <3> HIDE DEF Was
    <3> QED
      BY <1>3 DEF Wire, Range
  <2>2. ASSUME D[g][i] = m PROVE FALSE
    <3>1. C[g][Was(g, i)] = C[f][1] /\ 1 \in DOMAIN C[f]
      BY <1>0, <1>3, <2>2
    <3>2. g = f /\ Was(g, i) = 1
      <4> HIDE DEF Was
      <4> QED
        BY <1>3, <3>1 DEF WireOnce
    <3> QED
      BY <1>3, <3>2
  <2> QED
    BY <2>1, <2>2
<1>6. Wire(D) \subseteq Wire(C) /\ m \notin Wire(D)
  BY <1>5 DEF Wire, Range
<1>7. m \in Wire(C)
  BY <1>0 DEF Wire, Range
<1> QED
  BY <1>4, <1>6, <1>7 DEF D, m

LEMMA InitPInv == Init => PInv
<1> SUFFICES ASSUME Init PROVE OnePlace(task, table, chan, handled, submitted)
  BY InitTInv DEF PInv
<1>1. Hand(task) = {} /\ HandOnce(task)
  BY DEF Init, Idle, Hand, HandOnce, Carrying
<1>2. Parked(table) = {} /\ ParkedOnce(table)
  <2>1. DOMAIN table = {}
    BY DEF Init
  <2> QED
    BY <2>1 DEF Parked, ParkedOnce
<1>3. Wire(chan) = {} /\ WireOnce(chan)
  <2>1. \A f \in Fd : DOMAIN chan[f] = {}
    BY DEF Init
  <2> QED
    BY <2>1 DEF Wire, WireOnce, Range
<1>4. handled = {}
  BY DEF Init
<1> QED
  BY <1>1, <1>2, <1>3, <1>4 DEF OnePlace

(* The places only lose messages. *)
LEMMA PlacesDrop ==
    ASSUME NEW T, NEW B, NEW C, NEW H, NEW S, OnePlace(T, B, C, H, S),
           NEW U, NEW E, NEW D,
           HandOnce(U) /\ Hand(U) \subseteq Hand(T),
           ParkedOnce(E) /\ Parked(E) \subseteq Parked(B),
           WireOnce(D) /\ Wire(D) \subseteq Wire(C)
    PROVE  OnePlace(U, E, D, H, S)
BY DEF OnePlace

LEMMA NextPInv == PInv /\ [Next]_vars => PInv'
<1> SUFFICES ASSUME PInv, [Next]_vars
             PROVE  OnePlace(task', table', chan', handled', submitted')
  BY NextTInv DEF PInv
<1> DEFINE G == OnePlace(task', table', chan', handled', submitted')
<1>a. OnePlace(task, table, chan, handled, submitted) /\ TInv
  BY DEF PInv
<1>b. /\ HandOnce(task) /\ ParkedOnce(table) /\ WireOnce(chan)
      /\ DOMAIN task = Worker
      /\ chan \in [Fd -> Seq(Message)]
  BY <1>a DEF OnePlace, TInv, HandsOK, SocketsOK
<1>0. CASE UNCHANGED <<task, table, chan, handled, submitted>>
  BY <1>0, <1>a
<1>1. CASE tick
  BY <1>0, <1>1 DEF tick, connVars, jobVars
<1>2. ASSUME NEW n \in Node,
             handle_node_announced(n) \/ announce_lost(n)
      PROVE  G
  BY <1>0, <1>2 DEF handle_node_announced, announce_lost, connVars, jobVars
<1>3. ASSUME NEW n \in Node, NEW how \in Faults, node_dies(n, how) PROVE G
  BY <1>0, <1>3 DEF node_dies, connVars
<1>4. ASSUME NEW X \in SUBSET Node, handle_get_nodes(X) PROVE G
  BY <1>0, <1>4 DEF handle_get_nodes, connVars, jobVars
<1>5. ASSUME NEW X \in SUBSET Node, handle_check_deadnodes(X) PROVE G
  <2>1. /\ \A f \in Fd : chan'[f] = chan[f] \/ chan'[f] = << >>
        /\ UNCHANGED <<task, table, handled, submitted>>
    BY <1>5 DEF handle_check_deadnodes, CloseAll, jobVars
  <2>2. WireOnce(chan') /\ Wire(chan') \subseteq Wire(chan)
    BY <1>b, <2>1, WireDrops
  <2> QED
    BY <1>a, <1>b, <2>1, <2>2, PlacesDrop
<1>6. ASSUME NEW w \in Worker, NEW m \in Message, Start(w, m) PROVE G
  <2> DEFINE t == [step |-> "find", msg |-> m]
  <2>1. t.step \in Carrying /\ t.msg = m
    BY DEF Carrying
  <2>2. /\ task' = [task EXCEPT ![w] = t]
        /\ m \notin submitted /\ submitted' = submitted \cup {m}
        /\ UNCHANGED <<table, chan, handled>>
    BY <1>6 DEF Start, connVars
  <2> HIDE DEF t
  <2>3. m \notin Hand(task)
    BY <1>a, <2>2 DEF OnePlace
  <2>4. HandOnce(task') /\ Hand(task') \subseteq Hand(task) \cup {m}
    BY <1>b, <2>1, <2>2, <2>3, HandTakes
  <2> QED
    BY <1>a, <2>2, <2>4 DEF OnePlace
<1>7. ASSUME NEW w \in Worker, find_fd_by_ip_port(w) PROVE G
  <2> DEFINE m == task[w].msg
             F == FdsOf(Target[m.job])
             t == IF F # {} THEN [step |-> "send", msg |-> m, fd |-> Min(F)]
                  ELSE [step |-> "connect", msg |-> m]
  <2>1. t.msg = task[w].msg /\ t.step \in Carrying
    BY DEF Carrying
  <2>2. /\ task' = [task EXCEPT ![w] = t] /\ task[w].step \in Carrying
        /\ UNCHANGED <<table, chan, handled, submitted>>
    BY <1>7 DEF find_fd_by_ip_port, connVars, jobVars, Carrying
  <2> HIDE DEF t
  <2>3. HandOnce(task') /\ Hand(task') \subseteq Hand(task)
    BY <1>b, <2>1, <2>2, HandKeeps
  <2> QED
    BY <1>a, <1>b, <2>2, <2>3, PlacesDrop
<1>8. ASSUME NEW w \in Worker, connect_to_tcp_node(w) PROVE G
  <2> DEFINE m == task[w].msg
             f == Min({g \in Fd : kernel[g] = "closed"})
             t == [step |-> "register", msg |-> m, fd |-> f]
  <2>1. t.msg = task[w].msg /\ t.step \in Carrying
    BY DEF Carrying
  <2>2. /\ task' = [task EXCEPT ![w] = t] /\ task[w].step \in Carrying
        /\ UNCHANGED <<table, chan, handled, submitted>>
    BY <1>8 DEF connect_to_tcp_node, jobVars, Carrying
  <2> HIDE DEF t
  <2>3. HandOnce(task') /\ Hand(task') \subseteq Hand(task)
    BY <1>b, <2>1, <2>2, HandKeeps
  <2> QED
    BY <1>a, <1>b, <2>2, <2>3, PlacesDrop
<1>9. ASSUME NEW w \in Worker, register(w) PROVE G
  <2> DEFINE m == task[w].msg
             f == task[w].fd
             b == [node |-> Target[m.job], pending |-> {m}]
  <2>1. b.pending = {m} /\ Idle.step \notin Carrying
    BY DEF Idle, Carrying
  <2>2. /\ task' = [task EXCEPT ![w] = Idle] /\ task[w].step \in Carrying
        /\ table' = [g \in DOMAIN table \cup {f} |-> IF g = f THEN b ELSE table[g]]
        /\ UNCHANGED <<chan, handled, submitted>>
    BY <1>9 DEF register, jobVars, Carrying
  <2>3. /\ HandOnce(task') /\ Hand(task') \subseteq Hand(task)
        /\ m \in Hand(task) /\ m \notin Hand(task')
    BY <1>b, <2>1, <2>2, HandDrops
  <2> HIDE DEF b, m, f
  <2>4. m \notin Parked(table)
    BY <1>a, <2>3 DEF OnePlace
  <2>a. /\ DOMAIN table' = DOMAIN table \cup {f} /\ table'[f].pending = {m}
        /\ \A g \in DOMAIN table : g # f => table'[g].pending = table[g].pending
    BY <2>1, <2>2
  <2>5. ParkedOnce(table') /\ Parked(table') \subseteq Parked(table) \cup {m}
    BY <1>b, <2>a, <2>4, ParkedTakes
  <2> QED
    BY <1>a, <2>2, <2>3, <2>5 DEF OnePlace
<1>10. ASSUME NEW w \in Worker, send_tcp_message(w) PROVE G
  <2> DEFINE m == task[w].msg
             f == task[w].fd
  <2>1. m \in Message /\ f \in Fd
    BY <1>10, <1>a DEF TInv, HandsOK, TableOK, Carrying, send_tcp_message
  <2>2. /\ task' = [task EXCEPT ![w] = Idle] /\ task[w].step \in Carrying
        /\ UNCHANGED <<table, handled, submitted>>
        /\ Idle.step \notin Carrying
    BY <1>10 DEF send_tcp_message, jobVars, Carrying, Idle
  <2>3. /\ HandOnce(task') /\ Hand(task') \subseteq Hand(task)
        /\ m \in Hand(task) /\ m \notin Hand(task')
    BY <1>b, <2>2, HandDrops
  <2>4. chan' = [chan EXCEPT ![f] = Append(@, m)] \/ chan' = chan
    BY <1>10 DEF send_tcp_message
  <2> HIDE DEF m, f
  <2>5. m \notin Wire(chan)
    BY <1>a, <2>3 DEF OnePlace
  <2>6. WireOnce(chan') /\ Wire(chan') \subseteq Wire(chan) \cup {m}
    <3>1. CASE chan' = chan
      BY <1>b, <3>1
    <3>2. CASE chan' = [chan EXCEPT ![f] = Append(@, m)]
      BY <1>b, <2>1, <2>5, <3>2, WireTakes
    <3> QED
      BY <2>4, <3>1, <3>2
  <2> QED
    BY <1>a, <2>2, <2>3, <2>6 DEF OnePlace
<1>11. ASSUME NEW w \in Worker, wipe(w) PROVE G
  <2>1. /\ task' = [task EXCEPT ![w] = Idle]
        /\ table' = Unregister(task[w].fd)
        /\ UNCHANGED <<chan, handled, submitted>>
        /\ Idle.step \notin Carrying
    BY <1>11 DEF wipe, jobVars, Carrying, Idle
  <2>2. HandOnce(task') /\ Hand(task') \subseteq Hand(task)
    BY <1>b, <2>1, HandDrops
  <2>3. ParkedOnce(table') /\ Parked(table') \subseteq Parked(table)
    BY <1>b, <2>1, ParkedDrops DEF Unregister
  <2> QED
    BY <1>a, <1>b, <2>1, <2>2, <2>3, PlacesDrop
<1>12. ASSUME NEW w \in Worker, NEW f \in Fd, handle_disconnected(w, f) PROVE G
  <2> DEFINE t == [step |-> "wipe", fd |-> f]
  <2>1. t.step \notin Carrying
    BY DEF Carrying
  <2>2. /\ task' = [task EXCEPT ![w] = t]
        /\ chan' = [chan EXCEPT ![f] = << >>]
        /\ UNCHANGED <<table, handled, submitted>>
    BY <1>12 DEF handle_disconnected, jobVars
  <2> HIDE DEF t
  <2>3. HandOnce(task') /\ Hand(task') \subseteq Hand(task)
    BY <1>b, <2>1, <2>2, HandDrops
  <2>4. \A g \in Fd : chan'[g] = chan[g] \/ chan'[g] = << >>
    BY <1>b, <2>2
  <2>5. WireOnce(chan') /\ Wire(chan') \subseteq Wire(chan)
    BY <1>b, <2>4, WireDrops
  <2> QED
    BY <1>a, <1>b, <2>2, <2>3, <2>5, PlacesDrop
<1>13. ASSUME NEW f \in Fd, handshake(f) PROVE G
  BY <1>0, <1>13 DEF handshake, jobVars
<1>14. ASSUME NEW f \in Fd, handle_connection_success(f) PROVE G
  <2>0. UNCHANGED <<task, handled, submitted>>
    BY <1>14 DEF handle_connection_success, jobVars
  <2>1. CASE table' = Unregister(f) /\ UNCHANGED chan
    <3>1. ParkedOnce(table') /\ Parked(table') \subseteq Parked(table)
      BY <1>b, <2>1, ParkedDrops DEF Unregister
    <3> QED
      BY <1>a, <1>b, <2>0, <2>1, <3>1, PlacesDrop
  <2>2. CASE /\ chan' = [chan EXCEPT ![f] = @ \o Pending(f)]
             /\ table' = [g \in DOMAIN table |->
                           IF g = f THEN [table[g] EXCEPT !.pending = {}]
                           ELSE table[g]]
    <3>0. TableOK
      BY <1>a DEF TInv
    <3>1. /\ DOMAIN table' = DOMAIN table
          /\ \A g \in DOMAIN table :
                table'[g].pending = IF g = f THEN {} ELSE table[g].pending
      BY <2>2, <3>0 DEF TableOK
    <3>2. ParkedOnce(table') /\ Parked(table') \subseteq Parked(table)
      BY <1>b, <3>1, ParkedDrops
    <3>3. CASE Pending(f) = << >>
      <4>1. chan[f] \in Seq(Message)
        BY <1>b
      <4>2. chan[f] \o << >> = chan[f]
        BY <4>1
      <4>3. chan' = chan
        BY <1>b, <2>2, <3>3, <4>2
      <4> QED
        BY <1>a, <1>b, <2>0, <3>2, <4>3, PlacesDrop
    <3>4. CASE /\ f \in DOMAIN table
               /\ \E m \in Message : m \in table[f].pending /\ Pending(f) = <<m>>
      <4>1. PICK m \in Message : m \in table[f].pending /\ Pending(f) = <<m>>
        BY <3>4
      <4>2. chan[f] \in Seq(Message)
        BY <1>b
      <4>3. chan[f] \o <<m>> = Append(chan[f], m)
        BY <4>2
      <4>4. chan' = [chan EXCEPT ![f] = Append(@, m)]
        BY <1>b, <2>2, <4>1, <4>3
      <4>5. m \in Parked(table)
        BY <3>4, <4>1 DEF Parked
      <4>6. m \notin Wire(chan)
        BY <1>a, <4>5 DEF OnePlace
      <4>7. WireOnce(chan') /\ Wire(chan') \subseteq Wire(chan) \cup {m}
        BY <1>b, <4>4, <4>6, WireTakes
      <4>8. m \notin Parked(table')
        <5>1. \A g \in DOMAIN table : g # f => m \notin table[g].pending
          BY <1>b, <3>4, <4>1 DEF ParkedOnce
        <5> QED
          BY <3>1, <5>1 DEF Parked
      <4> QED
        BY <1>a, <2>0, <3>2, <4>5, <4>7, <4>8 DEF OnePlace
    <3> QED
      BY <3>0, <3>3, <3>4, PendingSmall
  <2> QED
    BY <1>14, <2>1, <2>2 DEF handle_connection_success
<1>15. ASSUME NEW f \in Fd, peer_handles(f) PROVE G
  <2> DEFINE m == Head(chan[f])
  <2>1. /\ chan' = [chan EXCEPT ![f] = Tail(@)] /\ chan[f] # << >>
        /\ handled' = handled \cup {m}
        /\ UNCHANGED <<task, table, submitted>>
    BY <1>15 DEF peer_handles
  <2>2. /\ WireOnce(chan') /\ Wire(chan') \subseteq Wire(chan)
        /\ m \in Wire(chan) /\ m \notin Wire(chan')
    BY <1>b, <2>1, WireGives
  <2> HIDE DEF m
  <2> QED
    BY <1>a, <2>1, <2>2 DEF OnePlace
<1>16. CASE UNCHANGED vars
  BY <1>0, <1>16 DEF vars, connVars, jobVars
<1> QED
  BY <1>1, <1>2, <1>3, <1>4, <1>5, <1>6, <1>7, <1>8, <1>9, <1>10, <1>11, <1>12,
     <1>13, <1>14, <1>15, <1>16
     DEF Next, send_reserve, send_release, Message

LEMMA AlwaysPInv == Spec => []PInv
BY InitPInv, NextPInv, PTL DEF Spec

(* The tables of connections and nodes and the messages stay well formed,  *)
(* whoever opens, closes and reuses descriptors: main waits for EPOLLOUT   *)
(* on no closed descriptor, bytes are in flight on established connections *)
(* only, and no peer handles what send_outbox was not given.               *)
THEOREM TypeCorrect == Spec => []TypeOK
<1>1. PInv => TypeOK
  BY DEF PInv, TInv, DirectoryOK, TableOK, SocketsOK, JobsOK, OnePlace, TypeOK
<1> QED
  BY <1>1, AlwaysPInv, PTL

(* No message is delivered twice, for any number of workers that look up,  *)
(* open, register and reuse connections at the same time: a message is     *)
(* with the worker, with the entry that has it pending, on the wire or     *)
(* with the peer, and each step moves it on or loses it.                   *)
THEOREM DeliveredAtMostOnce == Spec => []NoDuplicate
<1>1. PInv => NoDuplicate
  <2> SUFFICES ASSUME PInv, NEW m \in Message
               PROVE  Cardinality(Copies(m)) + (IF m \in handled THEN 1 ELSE 0) <= 1
    BY DEF NoDuplicate
  <2>1. WireOnce(chan) /\ Wire(chan) \cap handled = {}
    BY DEF PInv, OnePlace
  <2>2. \A x \in Copies(m) : \E f \in Fd : \E i \in DOMAIN chan[f] :
           x = <<f, i>> /\ chan[f][i] = m
    BY DEF Copies
  <2>3. ASSUME NEW x \in Copies(m) PROVE m \in Wire(chan)
    BY <2>2 DEF Wire, Range
  <2>4. ASSUME NEW x \in Copies(m), NEW y \in Copies(m) PROVE x = y
    <3>1. PICK f \in Fd : \E i \in DOMAIN chan[f] : x = <<f, i>> /\ chan[f][i] = m
      BY <2>2
    <3>2. PICK g \in Fd : \E k \in DOMAIN chan[g] : y = <<g, k>> /\ chan[g][k] = m
      BY <2>2
    <3>3. PICK i \in DOMAIN chan[f] : x = <<f, i>> /\ chan[f][i] = m
      BY <3>1
    <3>4. PICK k \in DOMAIN chan[g] : y = <<g, k>> /\ chan[g][k] = m
      BY <3>2
    <3>5. f = g /\ i = k
      BY <2>1, <3>3, <3>4 DEF WireOnce
    <3> QED
      BY <3>3, <3>4, <3>5
  <2>5. CASE Copies(m) = {}
    BY <2>5, FS_EmptySet
  <2>6. CASE Copies(m) # {}
    <3>1. PICK x \in Copies(m) : TRUE
      BY <2>6
    <3>2. Copies(m) = {x}
      BY <2>4, <3>1
    <3>3. Cardinality(Copies(m)) = 1
      BY <3>2, FS_Singleton
    <3>4. m \notin handled
      BY <2>1, <2>3, <3>1
    <3> QED
      BY <3>3, <3>4
  <2> QED
    BY <2>5, <2>6
<1> QED
  BY <1>1, AlwaysPInv, PTL
=============================================================================
