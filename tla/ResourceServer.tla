--------------------------- MODULE ResourceServer ---------------------------
(***************************************************************************)
(* One agent in its role of resource server: the handlers of               *)
(* resource_adapter.c that take lock_local (handle_reserve, handle_release *)
(* and the first part of ACTION_DISCONNECTED) over the inventory of        *)
(* LocalResource.                                                          *)
(*                                                                         *)
(* lock_local is held from the first to the last step of a handler.        *)
(* handle_reserve is one step.  handle_release and                         *)
(* free_all_resources_from_socket loop; each iteration is a step, and      *)
(* `lock` names the function that holds the lock between two of them, so   *)
(* no other handler runs in between.  `outbox` is what the handler that    *)
(* ran last, or runs now, gives to send_outbox.                            *)
(***************************************************************************)
EXTENDS LocalResource

CONSTANTS
    Quantities,     \* amounts a RESERVE may ask for
    MAX_OUTBOX,     \* capacity of one handler's outbox (128)
    Mortal,         \* the sockets whose connection may break
    RepeatIds       \* TRUE: a peer may send RESERVE for a (job, type) it
                    \* has already reserved or asked for on the same socket

ASSUME ResourceServerAssumption ==
    /\ Quantities \subseteq Nat
    /\ MAX_OUTBOX \in Nat
    /\ Mortal \subseteq Socket
    /\ RepeatIds \in BOOLEAN

VARIABLES
    res,        \* NODE->resources and NODE->active_jobs
    lock,       \* "free", or the function that holds lock_local
    sweeping,   \* the socket free_all_resources_from_socket works on, or {}
    open,       \* sockets accepted and not yet closed
    outbox      \* answers of the last handler, oldest first

vars == <<res, lock, sweeping, open, outbox>>

Answer == [msg : {"GRANTED", "DENIED"}, job_id : JobId, to : Socket]

(* add_to_outbox: a full outbox swallows the message. *)
add_to_outbox(box, m) == IF Len(box) >= MAX_OUTBOX THEN box ELSE Append(box, m)

Reply(m, j, s) == [msg |-> m, job_id |-> j, to |-> s]

(* What the peers may ask for: a scheduler's identifiers are not repeated  *)
(* while a request with the same key is held or waits.                     *)
Admissible(e) ==
    ~RepeatIds =>
        /\ \A x \in res.active : ~SameKey(x, e)
        /\ \A i \in DOMAIN res.request_queue[e.resource_type] :
               ~SameKey(res.request_queue[e.resource_type][i], e)

----------------------------------------------------------------------------
Init ==
    /\ res = create_local_resource
    /\ lock = "free"
    /\ sweeping = {}
    /\ open = {}
    /\ outbox = << >>

(* handle_new_tcp_connection: a closed descriptor may be handed out again. *)
handle_new_tcp_connection(s) ==
    /\ lock = "free"
    /\ s \notin open
    /\ open' = open \cup {s}
    /\ UNCHANGED <<res, lock, sweeping, outbox>>

(* handle_reserve for a type the agent knows. *)
handle_reserve(s, j, t, q) ==
    LET e == [job_id |-> j, socket |-> s,
              resource_type |-> t, resource_quantity |-> q]
    IN  /\ lock = "free"
        /\ s \in open
        /\ Admissible(e)
        /\ \/ /\ ExceedsCapacity(e)
              /\ outbox' = add_to_outbox(<< >>, Reply("DENIED", j, s))
              /\ UNCHANGED res
           \/ /\ ~ExceedsCapacity(e)
              /\ ~Fits(res, e)
              /\ res' = Enqueue(res, e)
              /\ outbox' = << >>
           \/ /\ ~ExceedsCapacity(e)
              /\ Fits(res, e)
              /\ res' = Grant(res, e)
              /\ outbox' = add_to_outbox(<< >>, Reply("GRANTED", j, s))
        /\ UNCHANGED <<lock, sweeping, open>>

(* handle_reserve for a resource name that is not cpu, mem or gpu. *)
handle_reserve_invalid(s, j) ==
    /\ lock = "free"
    /\ s \in open
    /\ outbox' = add_to_outbox(<< >>, Reply("DENIED", j, s))
    /\ UNCHANGED <<res, lock, sweeping, open>>

(* handle_release up to the loop: the job's units return to the pool. *)
handle_release(s, j) ==
    /\ lock = "free"
    /\ s \in open
    /\ res' = del_active_job(res, j, s)
    /\ outbox' = << >>
    /\ lock' = "handle_release"
    /\ UNCHANGED <<sweeping, open>>

(* Mutation: GRANTED is sent for a first wake-up only. *)
serve_queued_AnswersOnce(t) ==
    LET q == res.request_queue[t]
    IN  /\ lock = "handle_release"
        /\ \E i \in DOMAIN q, d \in DOMAIN q :
              /\ IsFirstFit(res, t, i)
              /\ IsFirstMatch(q, q[i], d)
              /\ res' = chk_job_request(res, t, i, d)
              /\ outbox' = IF outbox # << >> THEN outbox
                           ELSE <<Reply("GRANTED", q[i].job_id, q[i].socket)>>
        /\ UNCHANGED <<lock, sweeping, open>>

(* One iteration of the loop of handle_release: chk_job_request serves a   *)
(* waiting request of type t and its GRANTED goes to the outbox.           *)
serve_queued(t) ==
    LET q == res.request_queue[t]
    IN  /\ lock = "handle_release"
        /\ \E i \in DOMAIN q, d \in DOMAIN q :
              /\ IsFirstFit(res, t, i)
              /\ IsFirstMatch(q, q[i], d)
              /\ res' = chk_job_request(res, t, i, d)
              /\ outbox' = add_to_outbox(outbox,
                               Reply("GRANTED", q[i].job_id, q[i].socket))
        /\ UNCHANGED <<lock, sweeping, open>>

(* Mutation: `if` instead of `while`, one wake-up for each RELEASE. *)
release_done_AfterOne ==
    /\ lock = "handle_release"
    /\ NothingFits(res) \/ outbox # << >>
    /\ lock' = "free"
    /\ UNCHANGED <<res, sweeping, open, outbox>>

(* chk_job_request returns -1: the loop of handle_release ends. *)
release_done ==
    /\ lock = "handle_release"
    /\ NothingFits(res)
    /\ lock' = "free"
    /\ UNCHANGED <<res, sweeping, open, outbox>>

(* ACTION_DISCONNECTED, phase A of free_all_resources_from_socket. *)
handle_disconnected(s) ==
    /\ lock = "free"
    /\ s \in open \cap Mortal
    /\ \E D \in Swept(res, s) : res' = Reclaim(res, D)
    /\ lock' = "free_all_resources_from_socket"
    /\ sweeping' = {s}
    /\ outbox' = << >>
    /\ UNCHANGED open

(* One iteration of phase B: the first waiting request of the socket goes. *)
purge_pending(s, t) ==
    LET q == res.request_queue[t]
    IN  /\ s \in sweeping
        /\ \E i \in DOMAIN q : /\ IsFirstOfSocket(q, s, i)
                               /\ res' = DropPending(res, t, i)
        /\ UNCHANGED <<lock, sweeping, open, outbox>>

(* Phase B ends, the lock is released and the descriptor is closed; no     *)
(* message of the socket is handled in between, for epoll holds it         *)
(* disarmed (EPOLLONESHOT).                                                *)
disconnect_done(s) ==
    /\ s \in sweeping
    /\ NonePending(res, s)
    /\ lock' = "free"
    /\ sweeping' = {}
    /\ open' = open \ {s}
    /\ UNCHANGED <<res, outbox>>

Next ==
    \/ \E s \in Socket :
          \/ handle_new_tcp_connection(s)
          \/ handle_disconnected(s)
          \/ disconnect_done(s)
          \/ \E j \in JobId :
                \/ handle_release(s, j)
                \/ handle_reserve_invalid(s, j)
                \/ \E t \in resource_t, q \in Quantities :
                      handle_reserve(s, j, t, q)
    \/ \E t \in resource_t :
          \/ serve_queued(t)
          \/ \E s \in Socket : purge_pending(s, t)
    \/ release_done

Spec == Init /\ [][Next]_vars

(* A peer gives back what it holds on s for job j. *)
release_held(s, j) == EntriesOf(res, j, s) # {} /\ handle_release(s, j)

(* Fairness: a handler that holds lock_local runs on to its end.  That     *)
(* what is held is eventually given back (SF) is no fact about this agent  *)
(* but what is asked of its peers: that the owner sends a RELEASE on the   *)
(* connection of its RESERVE.  Not every peer does.  A reservation granted *)
(* after its job has timed out is released by nobody (JobCoordinator,      *)
(* NoReservationAbandoned), and a RELEASE on another connection frees      *)
(* nothing (Connections, ReleaseFrees).                                    *)
LiveSpec ==
    /\ Spec
    /\ WF_vars(release_done)
    /\ \A t \in resource_t : WF_vars(serve_queued(t))
    /\ \A s \in Socket :
          /\ WF_vars(disconnect_done(s))
          /\ \A t \in resource_t : WF_vars(purge_pending(s, t))
          /\ \A j \in JobId : SF_vars(release_held(s, j))

----------------------------------------------------------------------------
(* Type correctness: no counter leaves its range, nothing larger than the  *)
(* machine waits or is held, and lock_local has the owner the state says.  *)
TypeOK ==
    /\ res \in Inventory
    /\ lock \in {"free", "handle_release", "free_all_resources_from_socket"}
    /\ sweeping \in SUBSET Socket
    /\ (sweeping # {}) <=> (lock = "free_all_resources_from_socket")
    /\ open \in SUBSET Socket
    /\ outbox \in Seq(Answer)

(* new_job_request, chk_job_request, del_active_job and the sweep of a     *)
(* dead socket never promise a unit twice: what is free and what the       *)
(* active table holds never exceed the hardware.  `avail` is unsigned in   *)
(* C, so this is also what keeps its subtractions from wrapping.           *)
NoOvercommit ==
    \A t \in resource_t : res.avail[t] + Held(res.active, t) <= Total[t]

(* No unit is lost either: as long as no peer repeats a key, every unit is *)
(* free or is accounted to an entry of the active table, through any       *)
(* sequence of grants, releases, wake-ups and sweeps.                      *)
Conservation ==
    \A t \in resource_t : res.avail[t] + Held(res.active, t) = Total[t]

(* The waiting requests of one type that fit are served before lock_local  *)
(* is given back: whenever the lock is free, every waiting request asks    *)
(* for more than is free.  The comment over chk_job_request asks for this  *)
(* after a release and after a disconnection.                              *)
WorkConserving == lock = "free" => NothingFits(res)

(* A request that waits is not also held: chk_job_request deletes from the *)
(* queue by key, and removes exactly the request it granted.               *)
WaitingIsNotHeld ==
    \A t \in resource_t : \A i \in DOMAIN res.request_queue[t] :
        \A e \in res.active : ~SameKey(e, res.request_queue[t][i])

(* free_all_resources_from_socket leaves nothing behind: a descriptor that *)
(* is closed, and will be given to another peer, holds nothing and waits   *)
(* for nothing.                                                            *)
DeadSocketClean ==
    \A s \in Socket \ open :
        /\ NonePending(res, s)
        /\ \A e \in res.active : e.socket # s

(* Every reservation that enters the active table is told to its owner:    *)
(* the handler that made it also put a GRANTED for it in its outbox.  An   *)
(* owner that is not told never releases.                                  *)
GrantIsAnswered ==
    [][\A e \in res'.active \ res.active :
          \E n \in DOMAIN outbox' :
              outbox'[n] = Reply("GRANTED", e.job_id, e.socket)]_vars

Waits(s, j, t) ==
    \E i \in DOMAIN res.request_queue[t] :
        /\ res.request_queue[t][i].socket = s
        /\ res.request_queue[t][i].job_id = j

(* Every request that new_job_request put in a queue leaves it: it is      *)
(* granted, or its connection breaks.                                      *)
EventuallyServed ==
    \A s \in Socket, j \in JobId, t \in resource_t :
        Waits(s, j, t) ~> ~Waits(s, j, t)
=============================================================================
