--------------------------- MODULE LocalResource ---------------------------
(***************************************************************************)
(* The inventory of one agent: local_resource.c with the list operations   *)
(* of queues.c it calls and the active_jobs hash table.                    *)
(*                                                                         *)
(* An inventory r is a record                                              *)
(*   avail         the units of each type that are free,                   *)
(*   request_queue the requests of each type that wait, oldest first,      *)
(*   active        the table of granted requests.                          *)
(* The hash table is the set of its elements; comp_active_job decides      *)
(* which elements are "the same one".  Each operator below is what one C   *)
(* function leaves behind; the caller holds lock_local.                    *)
(***************************************************************************)
EXTENDS Integers, FiniteSets, SequencesExt

CONSTANTS
    resource_t,     \* hardware types (CPU, GPU, RAM)
    JobId,          \* identifiers made by the Erlang schedulers
    Socket,         \* descriptors of the connections requests arrive on
    Total,          \* local_resources_t.total
    MaxSweep        \* sweep_context_t.max (100)

ASSUME LocalResourceAssumption ==
    /\ Total \in [resource_t -> Nat]
    /\ MaxSweep \in Nat \ {0}

\* elem_active_job_t and elem_job_request_t have the same fields.
Request == [job_id : JobId, socket : Socket,
            resource_type : resource_t, resource_quantity : Nat]

\* The requests the machine could serve at all (new_job_request rejects
\* the others).
Servable == {e \in Request : e.resource_quantity <= Total[e.resource_type]}

\* Two elements are the same to comp_active_job and to comp_job_request.
SameKey(a, b) ==
    /\ a.job_id = b.job_id
    /\ a.socket = b.socket
    /\ a.resource_type = b.resource_type

(* tablahash_insertar: an element with the same key is overwritten. *)
tablahash_insertar(table, e) == {x \in table : ~SameKey(x, e)} \cup {e}

(***************************************************************************)
(* The units of type t held by the elements of S, each unit as a pair of   *)
(* its element and an ordinal, and how many there are.                     *)
(***************************************************************************)
Units(S, t) == {u \in S \X (1 .. Total[t]) :
                    u[1].resource_type = t /\ u[2] <= u[1].resource_quantity}

Held(S, t) == Cardinality(Units(S, t))

Inventory == [avail : [resource_t -> Nat],
              request_queue : [resource_t -> Seq(Servable)],
              active : SUBSET Servable]

create_local_resource ==
    [avail         |-> Total,
     request_queue |-> [t \in resource_t |-> << >>],
     active        |-> {}]

----------------------------------------------------------------------------
(* new_job_request: its three outcomes. *)

(* Mutation: the comparison with the capacity is off by one. *)
ExceedsCapacity_OffByOne(e) ==
    e.resource_quantity > Total[e.resource_type] + 1

ExceedsCapacity(e) == e.resource_quantity > Total[e.resource_type]

Fits(r, e) == e.resource_quantity <= r.avail[e.resource_type]

Enqueue(r, e) ==
    [r EXCEPT !.request_queue[e.resource_type] = Append(@, e)]

Grant(r, e) ==
    [r EXCEPT !.avail[e.resource_type] = @ - e.resource_quantity,
              !.active = tablahash_insertar(@, e)]

----------------------------------------------------------------------------
(* chk_job_request.  The scan starts at a random type, so every type with  *)
(* a request that fits may be the one served; in that type's queue the     *)
(* first request that fits wins, and those before it are skipped.          *)

(* Mutation: the scan of the queue keeps the last request that fits. *)
IsFirstFit_KeepsLast(r, t, i) ==
    /\ Fits(r, r.request_queue[t][i])
    /\ \A k \in (i + 1) .. Len(r.request_queue[t]) :
          ~Fits(r, r.request_queue[t][k])

IsFirstFit(r, t, i) ==
    /\ Fits(r, r.request_queue[t][i])
    /\ \A k \in 1 .. (i - 1) : ~Fits(r, r.request_queue[t][k])

NothingFits(r) ==
    \A t \in resource_t : \A i \in DOMAIN r.request_queue[t] :
        ~Fits(r, r.request_queue[t][i])

(* queue_delete with comp_job_request: position d holds the first element  *)
(* with the key of e.                                                      *)
IsFirstMatch(q, e, d) ==
    /\ SameKey(q[d], e)
    /\ \A k \in 1 .. (d - 1) : ~SameKey(q[k], e)

(* Mutation: queue_remove takes the head instead of the request granted. *)
chk_job_request_PopsHead(r, t, i, d) ==
    [Grant(r, r.request_queue[t][i])
        EXCEPT !.request_queue[t] = Tail(@)]

chk_job_request(r, t, i, d) ==
    [Grant(r, r.request_queue[t][i])
        EXCEPT !.request_queue[t] = RemoveAt(@, d)]

----------------------------------------------------------------------------
(* del_active_job: the entries of (job_id, socket) of every type.          *)

EntriesOf(r, j, s) == {e \in r.active : e.job_id = j /\ e.socket = s}

(* Mutation: the entries are deleted before their quantity is read. *)
Reclaim_LosesUnits(r, D) == [r EXCEPT !.active = @ \ D]

(* Mutation: the units are returned and the entries stay in the table. *)
Reclaim_KeepsEntries(r, D) ==
    [r EXCEPT !.avail = [t \in resource_t |-> r.avail[t] + Held(D, t)]]

(* The elements D leave the table and their units return to the pool.      *)
Reclaim(r, D) ==
    [r EXCEPT !.avail  = [t \in resource_t |-> r.avail[t] + Held(D, t)],
              !.active = @ \ D]

del_active_job(r, j, s) == Reclaim(r, EntriesOf(r, j, s))

(* del_pending_job_requests: written for RELEASE, called by nobody.        *)

----------------------------------------------------------------------------
(* free_all_resources_from_socket, phase A: check_dead_socket collects at  *)
(* most MaxSweep entries of the socket, in the order of the hash table.    *)

Swept(r, s) ==
    LET mine == {e \in r.active : e.socket = s}
        n    == Cardinality(mine)
    IN  {D \in SUBSET mine :
            Cardinality(D) = IF n <= MaxSweep THEN n ELSE MaxSweep}

(* Phase B: queue_delete with comp_job_request_by_socket, until none is    *)
(* left; position i holds the first request of the socket.                 *)
IsFirstOfSocket(q, s, i) ==
    /\ q[i].socket = s
    /\ \A k \in 1 .. (i - 1) : q[k].socket # s

DropPending(r, t, i) == [r EXCEPT !.request_queue[t] = RemoveAt(@, i)]

(* Mutation: the purge looks at the head of each queue only. *)
NonePending_HeadOnly(r, s) ==
    \A t \in resource_t :
        r.request_queue[t] # << >> => r.request_queue[t][1].socket # s

NonePending(r, s) ==
    \A t \in resource_t : \A i \in DOMAIN r.request_queue[t] :
        r.request_queue[t][i].socket # s
=============================================================================
