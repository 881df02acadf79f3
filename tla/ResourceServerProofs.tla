------------------------ MODULE ResourceServerProofs ------------------------
(***************************************************************************)
(* Proofs about ResourceServer, for every set of types, jobs and sockets   *)
(* and every size of the machine.                                          *)
(***************************************************************************)
EXTENDS ResourceServer, LocalResourceProofs

----------------------------------------------------------------------------
(* The inductive invariant: the types, a finite table (without which Held  *)
(* says nothing) and the bound.                                            *)
IInv == TypeOK /\ IsFiniteSet(res.active) /\ NoOvercommit

(* add_to_outbox keeps an outbox an outbox. *)
LEMMA OutboxType ==
    ASSUME NEW box \in Seq(Answer), NEW m \in {"GRANTED", "DENIED"},
           NEW j \in JobId, NEW s \in Socket
    PROVE  /\ add_to_outbox(box, Reply(m, j, s)) \in Seq(Answer)
           /\ << >> \in Seq(Answer)
<1>1. Reply(m, j, s) \in Answer
  BY DEF Reply, Answer
<1>2. Append(box, Reply(m, j, s)) \in Seq(Answer)
  BY <1>1
<1> QED
  BY <1>2, EmptySeq DEF add_to_outbox

(* The initial state: an empty table, everything free. *)
LEMMA InitIInv == Init => IInv
<1> SUFFICES ASSUME Init PROVE IInv
  OBVIOUS
<1>1. /\ create_local_resource \in Inventory
      /\ create_local_resource.active = {}
      /\ create_local_resource.avail = Total
  BY LocalResourceAssumption DEF create_local_resource, Inventory
<1>2. TypeOK
  BY <1>1 DEF Init, TypeOK
<1>3. IsFiniteSet(res.active)
  BY <1>1, FS_EmptySet DEF Init
<1>4. ASSUME NEW t \in resource_t
      PROVE  res.avail[t] + Held(res.active, t) <= Total[t]
  <2>1. Units({}, t) = {}
    BY DEF Units
  <2>2. Held({}, t) = 0
    BY <2>1, FS_EmptySet DEF Held
  <2>3. Total[t] \in Nat
    BY LocalResourceAssumption
  <2> QED
    BY <1>1, <2>2, <2>3 DEF Init
<1> QED
  BY <1>2, <1>3, <1>4 DEF IInv, NoOvercommit

(* A handler's step preserves the invariant when the inventory it leaves   *)
(* is well formed and within bounds.                                       *)
LEMMA NextIInv == IInv /\ [Next]_vars => IInv'
<1> SUFFICES ASSUME IInv, [Next]_vars PROVE IInv'
  OBVIOUS
<1> USE DEF IInv
<1>i. /\ res \in Inventory /\ IsFiniteSet(res.active)
      /\ \A t \in resource_t : res.avail[t] + Held(res.active, t) <= Total[t]
  BY DEF TypeOK, NoOvercommit
<1>1. ASSUME NEW s \in Socket, handle_new_tcp_connection(s) PROVE IInv'
  BY <1>1 DEF handle_new_tcp_connection, TypeOK, NoOvercommit
<1>2. ASSUME NEW s \in Socket, handle_disconnected(s) PROVE IInv'
  <2>1. PICK D \in Swept(res, s) : res' = Reclaim(res, D)
    BY <1>2 DEF handle_disconnected
  <2>2. D \in SUBSET res.active
    BY DEF Swept
  <2>3. res' \in Inventory
    BY <1>i, <2>1, <2>2, ReclaimType
  <2>4. IsFiniteSet(res'.active) /\ NoOvercommit'
    BY <1>i, <2>1, <2>2, ReclaimBound DEF NoOvercommit
  <2>5. TypeOK'
    BY <1>2, <2>3, EmptySeq DEF handle_disconnected, TypeOK
  <2> QED
    BY <2>4, <2>5
<1>3. ASSUME NEW s \in Socket, disconnect_done(s) PROVE IInv'
  BY <1>3 DEF disconnect_done, TypeOK, NoOvercommit
<1>4. ASSUME NEW s \in Socket, NEW j \in JobId, handle_release(s, j)
      PROVE  IInv'
  <2>1. res' = Reclaim(res, EntriesOf(res, j, s))
    BY <1>4 DEF handle_release, del_active_job
  <2>2. EntriesOf(res, j, s) \in SUBSET res.active
    BY DEF EntriesOf
  <2>3. res' \in Inventory
    BY <1>i, <2>1, <2>2, ReclaimType
  <2>4. IsFiniteSet(res'.active) /\ NoOvercommit'
    BY <1>i, <2>1, <2>2, ReclaimBound DEF NoOvercommit
  <2>5. TypeOK'
    BY <1>4, <2>3, EmptySeq DEF handle_release, TypeOK
  <2> QED
    BY <2>4, <2>5
<1>5. ASSUME NEW s \in Socket, NEW j \in JobId, handle_reserve_invalid(s, j)
      PROVE  IInv'
  <2>1. outbox' \in Seq(Answer)
    BY <1>5, OutboxType, EmptySeq DEF handle_reserve_invalid
  <2> QED
    BY <1>5, <2>1 DEF handle_reserve_invalid, TypeOK, NoOvercommit
<1>6. ASSUME NEW s \in Socket, NEW j \in JobId, NEW t \in resource_t,
             NEW q \in Quantities, handle_reserve(s, j, t, q)
      PROVE  IInv'
  <2> DEFINE e == [job_id |-> j, socket |-> s,
                   resource_type |-> t, resource_quantity |-> q]
  <2>0. UNCHANGED <<lock, sweeping, open>>
    BY <1>6 DEF handle_reserve
  <2>1. e \in Request
    BY ResourceServerAssumption DEF Request
  <2>2. ~ExceedsCapacity(e) => e \in Servable
    BY <2>1, LocalResourceAssumption DEF ExceedsCapacity, Servable, Request
  <2>3. outbox' \in Seq(Answer)
    BY <1>6, OutboxType, EmptySeq DEF handle_reserve
  <2>4. CASE UNCHANGED res
    BY <2>0, <2>3, <2>4 DEF TypeOK, NoOvercommit
  <2>5. CASE ~ExceedsCapacity(e) /\ res' = Enqueue(res, e)
    <3>1. /\ res' \in Inventory
          /\ res'.active = res.active /\ res'.avail = res.avail
      BY <1>i, <2>2, <2>5, EnqueueType
    <3> QED
      BY <2>0, <2>3, <3>1 DEF TypeOK, NoOvercommit
  <2>6. CASE ~ExceedsCapacity(e) /\ Fits(res, e) /\ res' = Grant(res, e)
    <3>1. res' \in Inventory
      BY <1>i, <2>2, <2>6, GrantType
    <3>2. IsFiniteSet(res'.active) /\ NoOvercommit'
      BY <1>i, <2>2, <2>6, GrantBound DEF NoOvercommit
    <3> QED
      BY <2>0, <2>3, <3>1, <3>2 DEF TypeOK
  <2> QED
    BY <1>6, <2>4, <2>5, <2>6 DEF handle_reserve
<1>7. ASSUME NEW t \in resource_t, serve_queued(t) PROVE IInv'
  <2> DEFINE q == res.request_queue[t]
  <2>0. UNCHANGED <<lock, sweeping, open>>
    BY <1>7 DEF serve_queued
  <2>1. PICK i \in DOMAIN q, d \in DOMAIN q :
            /\ IsFirstFit(res, t, i)
            /\ res' = chk_job_request(res, t, i, d)
            /\ outbox' = add_to_outbox(outbox,
                            Reply("GRANTED", q[i].job_id, q[i].socket))
    BY <1>7 DEF serve_queued
  <2>2. Fits(res, q[i])
    BY <2>1 DEF IsFirstFit
  <2>3. /\ q[i] \in Servable
        /\ res' \in Inventory
        /\ res'.active = Grant(res, q[i]).active
        /\ res'.avail = Grant(res, q[i]).avail
    BY <1>i, <2>1, <2>2, ChkType
  <2>4. IsFiniteSet(res'.active) /\ NoOvercommit'
    BY <1>i, <2>2, <2>3, GrantBound DEF NoOvercommit
  <2>5. q[i].job_id \in JobId /\ q[i].socket \in Socket
    BY <2>3 DEF Servable, Request
  <2>6. outbox' \in Seq(Answer)
    BY <2>1, <2>5, OutboxType DEF TypeOK
  <2> QED
    BY <2>0, <2>3, <2>4, <2>6 DEF TypeOK
<1>8. ASSUME NEW s \in Socket, NEW t \in resource_t, purge_pending(s, t)
      PROVE  IInv'
  <2>0. UNCHANGED <<lock, sweeping, open, outbox>>
    BY <1>8 DEF purge_pending
  <2>1. PICK i \in DOMAIN res.request_queue[t] : res' = DropPending(res, t, i)
    BY <1>8 DEF purge_pending
  <2>2. /\ res' \in Inventory
        /\ res'.active = res.active /\ res'.avail = res.avail
    BY <1>i, <2>1, DropPendingType
  <2> QED
    BY <2>0, <2>2 DEF TypeOK, NoOvercommit
<1>9. CASE release_done
  BY <1>9 DEF release_done, TypeOK, NoOvercommit
<1>10. CASE UNCHANGED vars
  BY <1>10 DEF vars, TypeOK, NoOvercommit
<1> QED
  BY <1>1, <1>2, <1>3, <1>4, <1>5, <1>6, <1>7, <1>8, <1>9, <1>10 DEF Next

(* Type correctness of the resource server: no handler, in any order, lets *)
(* a counter go below zero or a queue or table hold a request the machine  *)
(* could not serve.                                                        *)
THEOREM TypeCorrect == Spec => []TypeOK
<1>1. IInv => TypeOK
  BY DEF IInv
<1> QED
  BY <1>1, InitIInv, NextIInv, PTL DEF Spec

(* The server never promises a unit twice, for any number of peers, jobs,  *)
(* resource types and units, whether or not peers repeat identifiers and   *)
(* however often connections break.                                        *)
THEOREM NeverOvercommitted == Spec => []NoOvercommit
<1>1. IInv => NoOvercommit
  BY DEF IInv
<1> QED
  BY <1>1, InitIInv, NextIInv, PTL DEF Spec

----------------------------------------------------------------------------
(* No disconnection, no idle queue. *)
WInv == IInv /\ sweeping = {} /\ WorkConserving

(* A queue that no request of fits stays so when less is free. *)
LEMMA LessFits ==
    ASSUME NEW r \in Inventory, NothingFits(r), NEW e \in Servable, Fits(r, e)
    PROVE  NothingFits(Grant(r, e))
<1> DEFINE g == Grant(r, e)
<1>1. /\ g \in Inventory /\ g.request_queue = r.request_queue
      /\ \A t \in resource_t : g.avail[t] =
            r.avail[t] - (IF t = e.resource_type
                          THEN e.resource_quantity ELSE 0)
  BY GrantType
<1> HIDE DEF g
<1> SUFFICES ASSUME NEW t \in resource_t, NEW i \in DOMAIN r.request_queue[t]
             PROVE  ~Fits(g, r.request_queue[t][i])
  BY <1>1 DEF NothingFits, g
<1> DEFINE x == r.request_queue[t][i]
<1>2. x \in Servable
  BY DEF Inventory
<1>3. /\ x.resource_type \in resource_t /\ x.resource_quantity \in Nat
      /\ e.resource_quantity \in Nat
  BY <1>2 DEF Servable, Request
<1>4. ~Fits(r, x)
  BY DEF NothingFits
<1>5. r.avail \in [resource_t -> Nat] /\ g.avail \in [resource_t -> Nat]
  BY <1>1 DEF Inventory
<1> HIDE DEF x
<1>6. g.avail[x.resource_type] <= r.avail[x.resource_type]
  <2> DEFINE k == x.resource_type
  <2>1. /\ k \in resource_t
        /\ g.avail[k] = r.avail[k] - (IF k = e.resource_type
                                      THEN e.resource_quantity ELSE 0)
    BY <1>1, <1>3
  <2>2. r.avail[k] \in Nat
    BY <1>5, <2>1
  <2> QED
    BY <1>3, <2>1, <2>2
<1>7. r.avail[x.resource_type] \in Nat /\ g.avail[x.resource_type] \in Nat
  BY <1>3, <1>5
<1>8. ~Fits(g, x)
  BY <1>3, <1>4, <1>6, <1>7 DEF Fits
<1> QED
  BY <1>8 DEF x

(* A request that joins because it does not fit leaves nothing that fits.  *)
LEMMA JoinFits ==
    ASSUME NEW r \in Inventory, NothingFits(r), NEW e \in Servable, ~Fits(r, e)
    PROVE  NothingFits(Enqueue(r, e))
<1> DEFINE g == Enqueue(r, e)
<1>1. /\ e.resource_type \in resource_t
      /\ r.request_queue \in [resource_t -> Seq(Servable)]
  BY DEF Servable, Request, Inventory
<1>2. /\ g.avail = r.avail
      /\ g.request_queue = [r.request_queue EXCEPT ![e.resource_type] =
                                Append(@, e)]
  BY <1>1, EnqueueType DEF Enqueue, Inventory
<1> HIDE DEF g
<1> SUFFICES ASSUME NEW t \in resource_t, NEW i \in DOMAIN g.request_queue[t]
             PROVE  ~Fits(g, g.request_queue[t][i])
  BY DEF NothingFits, g
<1>3. ASSUME NEW x PROVE Fits(g, x) <=> Fits(r, x)
  BY <1>2 DEF Fits
<1>4. CASE t # e.resource_type
  BY <1>1, <1>2, <1>3, <1>4 DEF NothingFits
<1>5. CASE t = e.resource_type
  <2>1. g.request_queue[t] = Append(r.request_queue[t], e)
    BY <1>1, <1>2, <1>5
  <2>2. \/ i \in DOMAIN r.request_queue[t]
            /\ g.request_queue[t][i] = r.request_queue[t][i]
        \/ g.request_queue[t][i] = e
    BY <1>1, <2>1
  <2> QED
    BY <1>3, <2>2 DEF NothingFits
<1> QED
  BY <1>4, <1>5

(* While no connection breaks, the server is work conserving: between two  *)
(* handlers, no request waits that what is free could serve.  The barging  *)
(* of new_job_request and the skipping scan of chk_job_request never leave *)
(* capacity idle; only a disconnection does.                               *)
THEOREM QueueNeverIdles ==
    ASSUME Mortal = {}
    PROVE  Spec => []WorkConserving
<1>1. Init => WInv
  <2> SUFFICES ASSUME Init PROVE WInv
    OBVIOUS
  <2>1. \A t \in resource_t : res.request_queue[t] = << >>
    BY DEF Init, create_local_resource
  <2>2. NothingFits(res)
    BY <2>1 DEF NothingFits
  <2> QED
    BY <2>2, InitIInv DEF Init, WInv, WorkConserving
<1>2. WInv /\ [Next]_vars => WInv'
  <2> SUFFICES ASSUME WInv, [Next]_vars PROVE WInv'
    OBVIOUS
  <2>0. IInv' /\ res \in Inventory
    BY NextIInv DEF WInv, IInv, TypeOK
  <2> USE DEF WInv, WorkConserving
  <2>1. ASSUME NEW s \in Socket, handle_new_tcp_connection(s) PROVE WInv'
    BY <2>0, <2>1 DEF handle_new_tcp_connection, NothingFits, Fits
  <2>2. ASSUME NEW s \in Socket, handle_disconnected(s) PROVE WInv'
    BY <2>2 DEF handle_disconnected
  <2>3. ASSUME NEW s \in Socket, disconnect_done(s) PROVE WInv'
    BY <2>3 DEF disconnect_done
  <2>4. ASSUME NEW s \in Socket, NEW j \in JobId, handle_release(s, j)
        PROVE  WInv'
    BY <2>0, <2>4 DEF handle_release
  <2>5. ASSUME NEW s \in Socket, NEW j \in JobId,
               handle_reserve_invalid(s, j)
        PROVE  WInv'
    BY <2>0, <2>5 DEF handle_reserve_invalid, NothingFits, Fits
  <2>6. ASSUME NEW s \in Socket, NEW j \in JobId, NEW t \in resource_t,
               NEW q \in Quantities, handle_reserve(s, j, t, q)
        PROVE  WInv'
    <3> DEFINE e == [job_id |-> j, socket |-> s,
                     resource_type |-> t, resource_quantity |-> q]
    <3>0. UNCHANGED <<lock, sweeping>> /\ NothingFits(res)
      BY <2>6 DEF handle_reserve
    <3>1. ~ExceedsCapacity(e) => e \in Servable
      BY ResourceServerAssumption, LocalResourceAssumption
      DEF ExceedsCapacity, Servable, Request
    <3>2. \/ UNCHANGED res
          \/ e \in Servable /\ ~Fits(res, e) /\ res' = Enqueue(res, e)
          \/ e \in Servable /\ Fits(res, e) /\ res' = Grant(res, e)
      BY <2>6, <3>1 DEF handle_reserve
    <3> HIDE DEF e
    <3>3. NothingFits(res')
      BY <2>0, <3>0, <3>2, JoinFits, LessFits
    <3> QED
      BY <2>0, <3>0, <3>3
  <2>7. ASSUME NEW t \in resource_t, serve_queued(t) PROVE WInv'
    BY <2>0, <2>7 DEF serve_queued
  <2>8. ASSUME NEW s \in Socket, NEW t \in resource_t, purge_pending(s, t)
        PROVE  WInv'
    BY <2>8 DEF purge_pending
  <2>9. CASE release_done
    BY <2>0, <2>9 DEF release_done, NothingFits, Fits
  <2>10. CASE UNCHANGED vars
    BY <2>0, <2>10 DEF vars, NothingFits, Fits
  <2> QED
    BY <2>1, <2>2, <2>3, <2>4, <2>5, <2>6, <2>7, <2>8, <2>9, <2>10 DEF Next
<1> QED
  BY <1>1, <1>2, PTL DEF Spec, WInv

----------------------------------------------------------------------------
(* Distinct keys.  Conservation is not inductive: chk_job_request deletes  *)
(* from the queue by key, so a second request with the key of the one it   *)
(* grants, or an entry with that key in the table, would lose units.  What *)
(* makes it inductive is that a key is in use once: in one queue, its      *)
(* type's, or in the table.                                                *)
KInv == IInv /\ KeysOK(res) /\ Balanced(res)

(* The first two disjuncts of handle_reserve need a key that is unused. *)
LEMMA AdmissibleIsUnused ==
    ASSUME ~RepeatIds, KeysOK(res), NEW e, Admissible(e)
    PROVE  Unused(res, e)
<1>1. ASSUME NEW t \in resource_t, NEW i \in DOMAIN res.request_queue[t]
      PROVE  ~SameKey(Waiting(res, t, i), e)
  <2>1. CASE t = e.resource_type
    BY <2>1 DEF Admissible, Waiting
  <2>2. CASE t # e.resource_type
    BY <2>2 DEF KeysOK, SameKey
  <2> QED
    BY <2>1, <2>2
<1> QED
  BY <1>1 DEF Admissible, Unused

LEMMA InitKInv == Init => KInv
<1> SUFFICES ASSUME Init PROVE KInv
  OBVIOUS
<1>1. /\ res.active = {} /\ res.avail = Total
      /\ \A t \in resource_t : res.request_queue[t] = << >>
  BY DEF Init, create_local_resource
<1>2. ASSUME NEW t \in resource_t
      PROVE  res.avail[t] + Held(res.active, t) = Total[t]
  <2>1. Units({}, t) = {}
    BY DEF Units
  <2>2. Held({}, t) = 0
    BY <2>1, FS_EmptySet DEF Held
  <2>3. Total[t] \in Nat
    BY LocalResourceAssumption
  <2> QED
    BY <1>1, <2>2, <2>3
<1> QED
  BY <1>1, <1>2, InitIInv DEF KInv, KeysOK, Balanced

(* One step per handler that changes the inventory. *)
LEMMA NextKInv ==
    ASSUME ~RepeatIds
    PROVE  KInv /\ [Next]_vars => KInv'
<1> SUFFICES ASSUME KInv, [Next]_vars PROVE KInv'
  OBVIOUS
<1>0. IInv'
  BY NextIInv DEF KInv
<1>i. /\ res \in Inventory /\ IsFiniteSet(res.active)
      /\ KeysOK(res) /\ Balanced(res)
  BY DEF KInv, IInv, TypeOK
<1>s. CASE UNCHANGED res
  BY <1>s, <1>0, <1>i DEF KInv, KeysOK, Waiting, Balanced
<1>2. ASSUME NEW s \in Socket, handle_disconnected(s) PROVE KInv'
  <2>1. PICK D \in Swept(res, s) : res' = Reclaim(res, D)
    BY <1>2 DEF handle_disconnected
  <2>2. D \in SUBSET res.active
    BY DEF Swept
  <2>3. KeysOK(res') /\ Balanced(res')
    BY <1>i, <2>1, <2>2, ReclaimKeys, ReclaimBalance
  <2> QED
    BY <1>0, <2>3 DEF KInv, KeysOK, Waiting, Balanced
<1>4. ASSUME NEW s \in Socket, NEW j \in JobId, handle_release(s, j)
      PROVE  KInv'
  <2>1. res' = Reclaim(res, EntriesOf(res, j, s))
    BY <1>4 DEF handle_release, del_active_job
  <2>2. EntriesOf(res, j, s) \in SUBSET res.active
    BY DEF EntriesOf
  <2>3. KeysOK(res') /\ Balanced(res')
    BY <1>i, <2>1, <2>2, ReclaimKeys, ReclaimBalance
  <2> QED
    BY <1>0, <2>3 DEF KInv, KeysOK, Waiting, Balanced
<1>6. ASSUME NEW s \in Socket, NEW j \in JobId, NEW t \in resource_t,
             NEW q \in Quantities, handle_reserve(s, j, t, q)
      PROVE  KInv'
  <2> DEFINE e == [job_id |-> j, socket |-> s,
                   resource_type |-> t, resource_quantity |-> q]
  <2>1. ~ExceedsCapacity(e) => e \in Servable
    BY ResourceServerAssumption, LocalResourceAssumption
    DEF ExceedsCapacity, Servable, Request
  <2>2. Admissible(e)
    BY <1>6 DEF handle_reserve
  <2>3. \/ UNCHANGED res
        \/ e \in Servable /\ res' = Enqueue(res, e)
        \/ e \in Servable /\ Fits(res, e) /\ res' = Grant(res, e)
    BY <1>6, <2>1 DEF handle_reserve
  <2> HIDE DEF e
  <2>4. Unused(res, e)
    BY <1>i, <2>2, AdmissibleIsUnused
  <2>5. CASE e \in Servable /\ res' = Enqueue(res, e)
    <3>1. KeysOK(res')
      BY <1>i, <2>4, <2>5, EnqueueKeys
    <3>2. res'.active = res.active /\ res'.avail = res.avail
      BY <1>i, <2>5, EnqueueType
    <3>3. Balanced(res')
      BY <1>i, <3>2 DEF Balanced
    <3> QED
      BY <1>0, <3>1, <3>3 DEF KInv, KeysOK, Waiting, Balanced
  <2>6. CASE e \in Servable /\ Fits(res, e) /\ res' = Grant(res, e)
    <3>1. KeysOK(res')
      BY <1>i, <2>4, <2>6, GrantKeys
    <3>2. Balanced(res')
      BY <1>i, <2>4, <2>6, GrantBalance DEF Unused
    <3> QED
      BY <1>0, <3>1, <3>2 DEF KInv, KeysOK, Waiting, Balanced
  <2> QED
    BY <1>s, <2>3, <2>5, <2>6
<1>7. ASSUME NEW t \in resource_t, serve_queued(t) PROVE KInv'
  <2> DEFINE q == res.request_queue[t]
  <2>1. PICK i \in DOMAIN q, d \in DOMAIN q :
            /\ IsFirstFit(res, t, i)
            /\ IsFirstMatch(q, q[i], d)
            /\ res' = chk_job_request(res, t, i, d)
    BY <1>7 DEF serve_queued
  <2>2. Fits(res, q[i]) /\ q[i] = Waiting(res, t, i)
    BY <2>1 DEF IsFirstFit, Waiting
  <2>3. /\ q[i] \in Servable
        /\ res'.active = Grant(res, q[i]).active
        /\ res'.avail = Grant(res, q[i]).avail
    BY <1>i, <2>1, <2>2, ChkType
  <2>4. KeysOK(res') /\ \A x \in res.active : ~SameKey(x, q[i])
    BY <1>i, <2>1, <2>2, ChkKeys
  <2>5. Balanced(Grant(res, q[i]))
    BY <1>i, <2>2, <2>3, <2>4, GrantBalance
  <2>6. Balanced(res')
    BY <2>3, <2>5 DEF Balanced
  <2> QED
    BY <1>0, <2>4, <2>6 DEF KInv, KeysOK, Waiting, Balanced
<1>8. ASSUME NEW s \in Socket, NEW t \in resource_t, purge_pending(s, t)
      PROVE  KInv'
  <2>1. PICK i \in DOMAIN res.request_queue[t] : res' = DropPending(res, t, i)
    BY <1>8 DEF purge_pending
  <2>2. /\ res'.active = res.active /\ res'.avail = res.avail
        /\ res'.request_queue = [res.request_queue EXCEPT ![t] =
                                     RemoveAt(@, i)]
    BY <1>i, <2>1, DropPendingType
  <2>3. KeysOK(res')
    BY <1>i, <2>2, DeleteKeys
  <2>4. Balanced(res')
    BY <1>i, <2>2 DEF Balanced
  <2> QED
    BY <1>0, <2>3, <2>4 DEF KInv, KeysOK, Waiting, Balanced
<1>9. \/ UNCHANGED res
      \/ \E s \in Socket : handle_disconnected(s)
      \/ \E s \in Socket, j \in JobId : handle_release(s, j)
      \/ \E s \in Socket, j \in JobId, t \in resource_t, q \in Quantities :
            handle_reserve(s, j, t, q)
      \/ \E t \in resource_t : serve_queued(t)
      \/ \E s \in Socket, t \in resource_t : purge_pending(s, t)
  BY DEF Next, vars, handle_new_tcp_connection, disconnect_done,
     handle_reserve_invalid, release_done
<1> QED
  BY <1>s, <1>2, <1>4, <1>6, <1>7, <1>8, <1>9

(* No unit is lost: while no peer repeats a key, what is free and what the *)
(* active table holds add up to the hardware after any sequence of grants, *)
(* releases, wake-ups and sweeps, on machines of any size.                 *)
THEOREM NoUnitIsLost ==
    ASSUME ~RepeatIds
    PROVE  Spec => []Conservation
<1>1. KInv => Conservation
  BY DEF KInv, Balanced, Conservation
<1> QED
  BY <1>1, InitKInv, NextKInv, PTL DEF Spec

(* A request that waits is not also held, while no peer repeats a key: the *)
(* deletion by key of chk_job_request removes the request it granted.      *)
THEOREM WaitingExcludesHeld ==
    ASSUME ~RepeatIds
    PROVE  Spec => []WaitingIsNotHeld
<1>1. KInv => WaitingIsNotHeld
  BY DEF KInv, KeysOK, Waiting, WaitingIsNotHeld
<1> QED
  BY <1>1, InitKInv, NextKInv, PTL DEF Spec

----------------------------------------------------------------------------
(* A closed descriptor.  The sweep collects at most MaxSweep entries and   *)
(* is not repeated, so what it leaves behind depends on how many a socket  *)
(* holds; the theorem says that this limit is the only way to leave any.   *)

(* No connection ever holds more entries than one sweep takes. *)
SweepSuffices ==
    \A s \in Socket :
        Cardinality({e \in res.active : e.socket = s}) <= MaxSweep

(* Between the two phases the socket is still open and already holds       *)
(* nothing; lock_local keeps it so.                                        *)
DInv ==
    /\ IInv
    /\ DeadSocketClean
    /\ \A s \in sweeping : \A e \in res.active : e.socket # s

(* Phase A takes everything the socket holds. *)
LEMMA SweepTakesAll ==
    ASSUME NEW r \in Inventory, IsFiniteSet(r.active), NEW s \in Socket,
           Cardinality({e \in r.active : e.socket = s}) <= MaxSweep,
           NEW D \in Swept(r, s)
    PROVE  D = {e \in r.active : e.socket = s}
<1> DEFINE mine == {e \in r.active : e.socket = s}
<1>1. IsFiniteSet(mine)
  BY FS_Subset
<1>2. D \in SUBSET mine /\ Cardinality(D) = Cardinality(mine)
  BY DEF Swept
<1> HIDE DEF mine
<1>3. D = mine
  BY <1>1, <1>2, FS_Subset
<1> QED
  BY <1>3 DEF mine

(* Every request of an inventory whose queue lost one was there before. *)
LEMMA DeletedPending ==
    ASSUME NEW r \in Inventory, NEW t \in resource_t,
           NEW d \in DOMAIN r.request_queue[t], NEW g,
           g.request_queue = [r.request_queue EXCEPT ![t] = RemoveAt(@, d)],
           NEW s \in Socket, NonePending(r, s)
    PROVE  NonePending(g, s)
<1>1. ShiftedFrom(r, g, t, d)
  BY DeletedQueue
<1>2. ASSUME NEW u \in resource_t, NEW i \in DOMAIN g.request_queue[u]
      PROVE  g.request_queue[u][i].socket # s
  BY <1>1 DEF ShiftedFrom, NonePending, Waiting
<1> QED
  BY <1>2 DEF NonePending

(* A request of another socket may join. *)
LEMMA EnqueuedPending ==
    ASSUME NEW r \in Inventory, NEW e \in Servable, NEW s \in Socket,
           e.socket # s, NonePending(r, s)
    PROVE  NonePending(Enqueue(r, e), s)
<1> DEFINE g == Enqueue(r, e)
<1>1. /\ e.resource_type \in resource_t
      /\ r.request_queue \in [resource_t -> Seq(Servable)]
  BY DEF Servable, Request, Inventory
<1>2. g.request_queue = [r.request_queue EXCEPT ![e.resource_type] =
                             Append(@, e)]
  BY EnqueueType
<1> HIDE DEF g
<1>3. ASSUME NEW t \in resource_t, NEW i \in DOMAIN g.request_queue[t]
      PROVE  g.request_queue[t][i].socket # s
  <2>1. CASE t # e.resource_type
    BY <1>1, <1>2, <2>1 DEF NonePending
  <2>2. CASE t = e.resource_type
    <3>1. g.request_queue[t] = Append(r.request_queue[t], e)
      BY <1>1, <1>2, <2>2
    <3>2. \/ i \in DOMAIN r.request_queue[t]
              /\ g.request_queue[t][i] = r.request_queue[t][i]
          \/ g.request_queue[t][i] = e
      BY <1>1, <3>1
    <3> QED
      BY <3>2 DEF NonePending
  <2> QED
    BY <2>1, <2>2
<1> QED
  BY <1>3 DEF NonePending, g

LEMMA NextDInv == DInv /\ SweepSuffices /\ [Next]_vars => DInv'
<1> SUFFICES ASSUME DInv, SweepSuffices, [Next]_vars PROVE DInv'
  OBVIOUS
<1>0. IInv'
  BY NextIInv DEF DInv
<1>i. /\ res \in Inventory /\ IsFiniteSet(res.active)
      /\ sweeping \subseteq Socket /\ open \subseteq Socket
      /\ sweeping # {} => lock = "free_all_resources_from_socket"
      /\ \A s \in sweeping : \A e \in res.active : e.socket # s
      /\ \A s \in Socket \ open : NonePending(res, s)
                               /\ \A e \in res.active : e.socket # s
  BY DEF DInv, IInv, TypeOK, DeadSocketClean
<1>g. ASSUME \A s \in Socket \ open' : NonePending(res', s)
                                  /\ \A e \in res'.active : e.socket # s,
             \A s \in sweeping' : \A e \in res'.active : e.socket # s
      PROVE  DInv'
  BY <1>0, <1>g DEF DInv, DeadSocketClean, NonePending
<1>1. ASSUME NEW s \in Socket, handle_new_tcp_connection(s) PROVE DInv'
  BY <1>1, <1>i, <1>g DEF handle_new_tcp_connection
<1>2. ASSUME NEW s \in Socket, handle_disconnected(s) PROVE DInv'
  <2>1. PICK D \in Swept(res, s) : res' = Reclaim(res, D)
    BY <1>2 DEF handle_disconnected
  <2>2. D = {e \in res.active : e.socket = s}
    BY <1>i, SweepTakesAll DEF SweepSuffices
  <2>3. /\ res'.active = res.active \ D
        /\ res'.request_queue = res.request_queue
    BY <1>i, <2>1, <2>2, ReclaimType
  <2>4. \A u \in Socket \ open : NonePending(res', u)
    BY <1>i, <2>3 DEF NonePending
  <2>5. sweeping' = {s} /\ open' = open
    BY <1>2 DEF handle_disconnected
  <2> QED
    BY <1>i, <1>g, <2>2, <2>3, <2>4, <2>5
<1>3. ASSUME NEW s \in Socket, disconnect_done(s) PROVE DInv'
  BY <1>3, <1>i, <1>g DEF disconnect_done
<1>4. ASSUME NEW s \in Socket, NEW j \in JobId, handle_release(s, j)
      PROVE  DInv'
  <2>1. res' = Reclaim(res, EntriesOf(res, j, s))
        /\ sweeping' = sweeping /\ open' = open
    BY <1>4 DEF handle_release, del_active_job
  <2>2. EntriesOf(res, j, s) \in SUBSET res.active
    BY DEF EntriesOf
  <2>3. /\ res'.active \subseteq res.active
        /\ res'.request_queue = res.request_queue
    BY <1>i, <2>1, <2>2, ReclaimType
  <2>4. \A u \in Socket \ open : NonePending(res', u)
    BY <1>i, <2>3 DEF NonePending
  <2> QED
    BY <1>i, <1>g, <2>1, <2>3, <2>4
<1>5. ASSUME NEW s \in Socket, NEW j \in JobId, handle_reserve_invalid(s, j)
      PROVE  DInv'
  BY <1>5, <1>i, <1>g DEF handle_reserve_invalid
<1>6. ASSUME NEW s \in Socket, NEW j \in JobId, NEW t \in resource_t,
             NEW q \in Quantities, handle_reserve(s, j, t, q)
      PROVE  DInv'
  <2> DEFINE e == [job_id |-> j, socket |-> s,
                   resource_type |-> t, resource_quantity |-> q]
  <2>1. ~ExceedsCapacity(e) => e \in Servable
    BY ResourceServerAssumption, LocalResourceAssumption
    DEF ExceedsCapacity, Servable, Request
  <2>2. /\ sweeping' = {} /\ open' = open /\ s \in open /\ e.socket = s
        /\ \/ UNCHANGED res
           \/ e \in Servable /\ res' = Enqueue(res, e)
           \/ e \in Servable /\ Fits(res, e) /\ res' = Grant(res, e)
    BY <1>6, <1>i, <2>1 DEF handle_reserve
  <2> HIDE DEF e
  <2>3. CASE UNCHANGED res
    BY <1>i, <1>g, <2>2, <2>3
  <2>4. CASE e \in Servable /\ res' = Enqueue(res, e)
    <3>1. res'.active = res.active
      BY <1>i, <2>4, EnqueueType
    <3>2. \A u \in Socket \ open : NonePending(res', u)
      BY <1>i, <2>2, <2>4, EnqueuedPending
    <3> QED
      BY <1>i, <1>g, <2>2, <3>1, <3>2
  <2>5. CASE e \in Servable /\ Fits(res, e) /\ res' = Grant(res, e)
    <3>1. /\ res'.active \subseteq res.active \cup {e}
          /\ res'.request_queue = res.request_queue
      BY <1>i, <2>5, GrantType DEF tablahash_insertar
    <3>2. \A u \in Socket \ open : NonePending(res', u)
      BY <1>i, <3>1 DEF NonePending
    <3> QED
      BY <1>i, <1>g, <2>2, <3>1, <3>2
  <2> QED
    BY <2>2, <2>3, <2>4, <2>5
<1>7. ASSUME NEW t \in resource_t, serve_queued(t) PROVE DInv'
  <2> DEFINE q == res.request_queue[t]
  <2>1. PICK i \in DOMAIN q, d \in DOMAIN q :
            /\ IsFirstFit(res, t, i)
            /\ res' = chk_job_request(res, t, i, d)
    BY <1>7 DEF serve_queued
  <2>2. Fits(res, q[i])
    BY <2>1 DEF IsFirstFit
  <2>3. q[i] \in Servable /\ res'.active = Grant(res, q[i]).active
    BY <1>i, <2>1, <2>2, ChkType
  <2>4. res'.request_queue = [res.request_queue EXCEPT ![t] = RemoveAt(@, d)]
    BY <1>i, <2>1, <2>2, ChkQueue
  <2>5. res'.active \subseteq res.active \cup {q[i]}
    BY <1>i, <2>2, <2>3, GrantType DEF tablahash_insertar
  <2>6. \A u \in Socket \ open : q[i].socket # u
    BY <1>i DEF NonePending
  <2>7. \A u \in Socket \ open : NonePending(res', u)
    BY <1>i, <2>4, DeletedPending
  <2>8. sweeping' = {} /\ open' = open
    BY <1>7, <1>i DEF serve_queued
  <2> QED
    BY <1>i, <1>g, <2>5, <2>6, <2>7, <2>8
<1>8. ASSUME NEW s \in Socket, NEW t \in resource_t, purge_pending(s, t)
      PROVE  DInv'
  <2>1. PICK i \in DOMAIN res.request_queue[t] : res' = DropPending(res, t, i)
    BY <1>8 DEF purge_pending
  <2>2. /\ res'.active = res.active
        /\ res'.request_queue = [res.request_queue EXCEPT ![t] =
                                     RemoveAt(@, i)]
    BY <1>i, <2>1, DropPendingType
  <2>3. \A u \in Socket \ open : NonePending(res', u)
    BY <1>i, <2>2, DeletedPending
  <2>4. sweeping' = sweeping /\ open' = open
    BY <1>8 DEF purge_pending
  <2> QED
    BY <1>i, <1>g, <2>2, <2>3, <2>4
<1>9. CASE release_done
  BY <1>9, <1>i, <1>g DEF release_done
<1>10. CASE UNCHANGED vars
  BY <1>10, <1>i, <1>g DEF vars
<1> QED
  BY <1>1, <1>2, <1>3, <1>4, <1>5, <1>6, <1>7, <1>8, <1>9, <1>10 DEF Next

(* A descriptor that is closed, and will be given to another peer, holds   *)
(* nothing and waits for nothing, in any interleaving of disconnections    *)
(* with the requests of the others, as long as no connection holds more    *)
(* entries than one sweep collects (100 in the code).                      *)
THEOREM ClosedSocketsAreClean ==
    Spec /\ []SweepSuffices => []DeadSocketClean
<1>1. Init => DInv
  BY InitIInv DEF Init, DInv, DeadSocketClean, NonePending,
     create_local_resource
<1>2. DInv => DeadSocketClean
  BY DEF DInv
<1> QED
  BY <1>1, <1>2, NextDInv, PTL DEF Spec

----------------------------------------------------------------------------
(* Every grant is answered. *)

(* No handler ever has a full outbox before it. *)
OutboxSuffices == Len(outbox) < MAX_OUTBOX

(* With room for it, add_to_outbox keeps the message. *)
LEMMA OutboxKeeps ==
    ASSUME NEW box \in Seq(Answer), NEW m \in Answer, Len(box) < MAX_OUTBOX
    PROVE  \E n \in DOMAIN add_to_outbox(box, m) : add_to_outbox(box, m)[n] = m
<1>1. add_to_outbox(box, m) = Append(box, m)
  BY ResourceServerAssumption DEF add_to_outbox
<1>2. /\ Len(box) + 1 \in DOMAIN Append(box, m)
      /\ Append(box, m)[Len(box) + 1] = m
  OBVIOUS
<1> QED
  BY <1>1, <1>2

(* Every reservation that enters the active table is told to its owner, on *)
(* whatever path it enters (at once, or woken by another's release), as    *)
(* long as no handler has more to say than its outbox takes (128 in the    *)
(* code).                                                                  *)
THEOREM GrantsAreAnswered ==
    Spec /\ []OutboxSuffices => GrantIsAnswered
<1> DEFINE Answered == \A e \in res'.active \ res.active :
                          \E n \in DOMAIN outbox' :
                              outbox'[n] = Reply("GRANTED", e.job_id, e.socket)
<1>1. IInv /\ OutboxSuffices /\ [Next]_vars => [Answered]_vars
  <2> SUFFICES ASSUME IInv, OutboxSuffices, Next PROVE Answered
    OBVIOUS
  <2>i. /\ res \in Inventory /\ IsFiniteSet(res.active)
        /\ outbox \in Seq(Answer)
    BY DEF IInv, TypeOK
  <2>s. CASE res'.active \subseteq res.active
    BY <2>s
  <2>2. ASSUME NEW s \in Socket, handle_disconnected(s) PROVE Answered
    <3>1. PICK D \in Swept(res, s) : res' = Reclaim(res, D)
      BY <2>2 DEF handle_disconnected
    <3>2. D \in SUBSET res.active
      BY DEF Swept
    <3>3. res'.active = res.active \ D
      BY <2>i, <3>1, <3>2, ReclaimType
    <3> QED
      BY <2>s, <3>3
  <2>4. ASSUME NEW s \in Socket, NEW j \in JobId, handle_release(s, j)
        PROVE  Answered
    <3>1. res' = Reclaim(res, EntriesOf(res, j, s))
      BY <2>4 DEF handle_release, del_active_job
    <3>2. EntriesOf(res, j, s) \in SUBSET res.active
      BY DEF EntriesOf
    <3>3. res'.active = res.active \ EntriesOf(res, j, s)
      BY <2>i, <3>1, <3>2, ReclaimType
    <3> QED
      BY <2>s, <3>3
  <2>6. ASSUME NEW s \in Socket, NEW j \in JobId, NEW t \in resource_t,
               NEW q \in Quantities, handle_reserve(s, j, t, q)
        PROVE  Answered
    <3> DEFINE e == [job_id |-> j, socket |-> s,
                     resource_type |-> t, resource_quantity |-> q]
               m == Reply("GRANTED", j, s)
    <3>1. ~ExceedsCapacity(e) => e \in Servable
      BY ResourceServerAssumption, LocalResourceAssumption
      DEF ExceedsCapacity, Servable, Request
    <3>2. /\ e.job_id = j /\ e.socket = s
          /\ \/ UNCHANGED res
             \/ e \in Servable /\ res' = Enqueue(res, e)
             \/ /\ e \in Servable /\ Fits(res, e) /\ res' = Grant(res, e)
                /\ outbox' = add_to_outbox(<< >>, m)
      BY <2>6, <3>1 DEF handle_reserve
    <3>3. m \in Answer
      BY DEF Answer, Reply
    <3> HIDE DEF e
    <3>4. CASE UNCHANGED res
      BY <2>s, <3>4
    <3>5. CASE e \in Servable /\ res' = Enqueue(res, e)
      <4>1. res'.active = res.active
        BY <2>i, <3>5, EnqueueType
      <4> QED
        BY <2>s, <4>1
    <3>6. CASE /\ e \in Servable /\ Fits(res, e) /\ res' = Grant(res, e)
               /\ outbox' = add_to_outbox(<< >>, m)
      <4>1. res'.active \ res.active \subseteq {e}
        BY <2>i, <3>6, GrantType DEF tablahash_insertar
      <4>2. << >> \in Seq(Answer) /\ Len(<< >>) < MAX_OUTBOX
        BY <2>i, ResourceServerAssumption DEF OutboxSuffices
      <4> HIDE DEF m
      <4>3. \E n \in DOMAIN outbox' : outbox'[n] = m
        BY <3>3, <3>6, <4>2, OutboxKeeps
      <4> QED
        BY <3>2, <4>1, <4>3 DEF m
    <3> QED
      BY <3>2, <3>4, <3>5, <3>6
  <2>7. ASSUME NEW t \in resource_t, serve_queued(t) PROVE Answered
    <3> DEFINE q == res.request_queue[t]
    <3>1. PICK i \in DOMAIN q, d \in DOMAIN q :
              /\ IsFirstFit(res, t, i)
              /\ res' = chk_job_request(res, t, i, d)
              /\ outbox' = add_to_outbox(outbox,
                              Reply("GRANTED", q[i].job_id, q[i].socket))
      BY <2>7 DEF serve_queued
    <3> DEFINE m == Reply("GRANTED", q[i].job_id, q[i].socket)
    <3>2. Fits(res, q[i])
      BY <3>1 DEF IsFirstFit
    <3>3. q[i] \in Servable /\ res'.active = Grant(res, q[i]).active
      BY <2>i, <3>1, <3>2, ChkType
    <3>4. res'.active \ res.active \subseteq {q[i]}
      BY <2>i, <3>2, <3>3, GrantType DEF tablahash_insertar
    <3>5. m \in Answer
      BY <3>3 DEF Answer, Reply, Servable, Request
    <3> HIDE DEF m
    <3>6. outbox' = add_to_outbox(outbox, m)
      BY <3>1 DEF m
    <3>7. \E n \in DOMAIN outbox' : outbox'[n] = m
      BY <2>i, <3>5, <3>6, OutboxKeeps DEF OutboxSuffices
    <3> QED
      BY <3>4, <3>7 DEF m
  <2>8. ASSUME NEW s \in Socket, NEW t \in resource_t, purge_pending(s, t)
        PROVE  Answered
    <3>1. PICK i \in DOMAIN res.request_queue[t] :
              res' = DropPending(res, t, i)
      BY <2>8 DEF purge_pending
    <3>2. res'.active = res.active
      BY <2>i, <3>1, DropPendingType
    <3> QED
      BY <2>s, <3>2
  <2>9. \/ UNCHANGED res
        \/ \E s \in Socket : handle_disconnected(s)
        \/ \E s \in Socket, j \in JobId : handle_release(s, j)
        \/ \E s \in Socket, j \in JobId, t \in resource_t, q \in Quantities :
              handle_reserve(s, j, t, q)
        \/ \E t \in resource_t : serve_queued(t)
        \/ \E s \in Socket, t \in resource_t : purge_pending(s, t)
    BY DEF Next, handle_new_tcp_connection, disconnect_done,
       handle_reserve_invalid, release_done
  <2>10. CASE UNCHANGED res
    BY <2>s, <2>10
  <2> QED
    BY <2>2, <2>4, <2>6, <2>7, <2>8, <2>9, <2>10
<1> QED
  BY <1>1, InitIInv, NextIInv, PTL DEF Spec, GrantIsAnswered
=============================================================================
