------------------------ MODULE LocalResourceProofs ------------------------
(***************************************************************************)
(* What the operations of local_resource.c do to an inventory, for every   *)
(* set of types, jobs and sockets and every size of the machine.  The      *)
(* proofs about one server and about the cluster rest on these lemmas.     *)
(***************************************************************************)
EXTENDS LocalResource, FiniteSetTheorems, SequenceTheorems, TLAPS

----------------------------------------------------------------------------
(* The arithmetic of Held: the cardinality of a set of units.              *)

(* The elements of a finite table hold finitely many units. *)
LEMMA UnitsFinite ==
    ASSUME NEW S, IsFiniteSet(S), NEW t \in resource_t
    PROVE  IsFiniteSet(Units(S, t)) /\ Held(S, t) \in Nat
<1>1. Total[t] \in Nat
  BY LocalResourceAssumption
<1>2. IsFiniteSet(1 .. Total[t])
  BY <1>1, FS_Interval
<1>3. IsFiniteSet(S \X (1 .. Total[t]))
  BY <1>2, FS_Product
<1>4. Units(S, t) \in SUBSET (S \X (1 .. Total[t]))
  BY DEF Units
<1>5. IsFiniteSet(Units(S, t))
  BY <1>3, <1>4, FS_Subset
<1> QED
  BY <1>5, FS_CardinalityType DEF Held

(* Taking D out of S splits the units: del_active_job gives back exactly   *)
(* what the entries it removes were holding.                               *)
LEMMA HeldSplit ==
    ASSUME NEW S, IsFiniteSet(S), NEW D \in SUBSET S, NEW t \in resource_t
    PROVE  Held(S, t) = Held(D, t) + Held(S \ D, t)
<1>1. IsFiniteSet(D) /\ IsFiniteSet(S \ D)
  BY FS_Subset, FS_Difference
<1>2. /\ IsFiniteSet(Units(D, t))
      /\ IsFiniteSet(Units(S \ D, t))
  BY <1>1, UnitsFinite
<1>3. Units(S, t) = Units(D, t) \cup Units(S \ D, t)
  BY DEF Units
<1>4. Units(D, t) \cap Units(S \ D, t) = {}
  BY DEF Units
<1>5. Cardinality(Units(D, t) \cap Units(S \ D, t)) = 0
  BY <1>4, FS_EmptySet
<1>6. Cardinality(Units(S, t)) = Cardinality(Units(D, t))
          + Cardinality(Units(S \ D, t))
          - Cardinality(Units(D, t) \cap Units(S \ D, t))
  BY <1>2, <1>3, FS_Union
<1>7. Held(D, t) \in Nat /\ Held(S \ D, t) \in Nat
  BY <1>1, UnitsFinite
<1> QED
  BY <1>5, <1>6, <1>7 DEF Held

(* One entry holds its quantity of its own type and nothing of another. *)
LEMMA HeldSingleton ==
    ASSUME NEW e \in Servable, NEW t \in resource_t
    PROVE  Held({e}, t) = IF t = e.resource_type
                          THEN e.resource_quantity ELSE 0
<1>0. Total \in [resource_t -> Nat]
  BY LocalResourceAssumption
<1>1. CASE t = e.resource_type
  <2>0. e.resource_quantity \in Nat /\ e.resource_quantity <= Total[t]
    BY <1>1 DEF Servable, Request
  <2>1. Units({e}, t) = {e} \X (1 .. e.resource_quantity)
    BY <1>0, <1>1, <2>0 DEF Units
  <2>2. /\ IsFiniteSet(1 .. e.resource_quantity)
        /\ Cardinality(1 .. e.resource_quantity) = e.resource_quantity
    BY <2>0, FS_Interval
  <2>3. IsFiniteSet({e}) /\ Cardinality({e}) = 1
    BY FS_Singleton
  <2>4. Cardinality({e} \X (1 .. e.resource_quantity))
            = Cardinality({e}) * Cardinality(1 .. e.resource_quantity)
    BY <2>2, <2>3, FS_Product
  <2>5. Held({e}, t) = 1 * e.resource_quantity
    BY <2>1, <2>2, <2>3, <2>4 DEF Held
  <2> QED
    BY <1>1, <2>0, <2>5
<1>2. CASE t # e.resource_type
  <2>1. Units({e}, t) = {}
    BY <1>2 DEF Units
  <2> QED
    BY <1>2, <2>1, FS_EmptySet DEF Held
<1> QED
  BY <1>1, <1>2

(* Inserting an entry adds at most its quantity (less, when it overwrites  *)
(* one with the same key).                                                 *)
LEMMA HeldInsert ==
    ASSUME NEW S, IsFiniteSet(S), NEW e \in Servable, NEW t \in resource_t
    PROVE  /\ IsFiniteSet(tablahash_insertar(S, e))
           /\ Held(tablahash_insertar(S, e), t)
                <= Held(S, t) + (IF t = e.resource_type
                                 THEN e.resource_quantity ELSE 0)
<1> DEFINE K == {x \in S : ~SameKey(x, e)}
           T == tablahash_insertar(S, e)
<1>0. e.resource_quantity \in Nat
  BY DEF Servable, Request
<1>1. K \in SUBSET S /\ IsFiniteSet(K) /\ IsFiniteSet(S \ K)
  BY FS_Subset, FS_Difference
<1>2. T = K \cup {e} /\ IsFiniteSet(T)
  BY <1>1, FS_AddElement DEF tablahash_insertar
<1>3. Held(S, t) = Held(K, t) + Held(S \ K, t)
  BY <1>1, HeldSplit
<1>4. Held(T, t) = Held({e}, t) + Held(T \ {e}, t)
  BY <1>2, HeldSplit
<1>5. T \ {e} \in SUBSET K
  BY <1>2
<1>6. Held(K, t) = Held(T \ {e}, t) + Held(K \ (T \ {e}), t)
  BY <1>1, <1>5, HeldSplit
<1>7. IsFiniteSet(T \ {e}) /\ IsFiniteSet(K \ (T \ {e}))
  BY <1>1, <1>2, FS_Difference
<1>8. /\ Held(K, t) \in Nat /\ Held(S \ K, t) \in Nat
      /\ Held(T \ {e}, t) \in Nat /\ Held(K \ (T \ {e}), t) \in Nat
  BY <1>1, <1>7, UnitsFinite
<1>9. Held({e}, t) = IF t = e.resource_type THEN e.resource_quantity ELSE 0
  BY HeldSingleton
<1> QED
  BY <1>0, <1>2, <1>3, <1>4, <1>6, <1>8, <1>9

(* Inserting an entry with a key the table does not have adds exactly its  *)
(* quantity.                                                               *)
LEMMA HeldInsertNew ==
    ASSUME NEW S, IsFiniteSet(S), NEW e \in Servable, NEW t \in resource_t,
           \A x \in S : ~SameKey(x, e)
    PROVE  Held(tablahash_insertar(S, e), t)
             = Held(S, t) + (IF t = e.resource_type
                             THEN e.resource_quantity ELSE 0)
<1> DEFINE T == tablahash_insertar(S, e)
<1>0. e.resource_quantity \in Nat
  BY DEF Servable, Request
<1>1. e \notin S
  BY DEF SameKey
<1>2. T = S \cup {e} /\ T \ {e} = S
  BY <1>1 DEF tablahash_insertar
<1>3. IsFiniteSet(T)
  BY <1>2, FS_AddElement
<1>4. Held(T, t) = Held({e}, t) + Held(T \ {e}, t)
  BY <1>2, <1>3, HeldSplit
<1>5. Held({e}, t) = IF t = e.resource_type THEN e.resource_quantity ELSE 0
  BY HeldSingleton
<1>6. Held(S, t) \in Nat /\ Held({e}, t) \in Nat
  BY <1>0, <1>5, UnitsFinite
<1>7. Held(T, t) = Held({e}, t) + Held(S, t)
  BY <1>2, <1>4
<1>8. Held(T, t) = Held(S, t) + Held({e}, t)
  BY <1>6, <1>7
<1> QED
  BY <1>5, <1>8

----------------------------------------------------------------------------
(* What the operations of LocalResource leave behind is an inventory.      *)

(* queue_delete shortens a queue and invents no request. *)
LEMMA RemoveAtType ==
    ASSUME NEW S, NEW q \in Seq(S), NEW i \in DOMAIN q
    PROVE  RemoveAt(q, i) \in Seq(S)
BY DEF RemoveAt

(* queue_delete leaves the others in their order: what is at position k    *)
(* afterwards was at k, or at k + 1 when it stood behind the one deleted.  *)
LEMMA RemoveAtElements ==
    ASSUME NEW S, NEW q \in Seq(S), NEW d \in DOMAIN q
    PROVE  /\ RemoveAt(q, d) \in Seq(S)
           /\ Len(RemoveAt(q, d)) = Len(q) - 1
           /\ \A k \in 1 .. (Len(q) - 1) :
                 RemoveAt(q, d)[k] = IF k < d THEN q[k] ELSE q[k + 1]
<1>1. Len(q) \in Nat /\ d \in 1 .. Len(q)
  OBVIOUS
<1> DEFINE a == SubSeq(q, 1, d - 1)
           b == SubSeq(q, d + 1, Len(q))
<1>2. /\ a \in Seq(S) /\ Len(a) = d - 1
      /\ \A k \in 1 .. (d - 1) : a[k] = q[k]
  BY <1>1
<1>3. /\ b \in Seq(S) /\ Len(b) = Len(q) - d
      /\ \A k \in 1 .. (Len(q) - d) : b[k] = q[d + k]
  BY <1>1
<1>4. RemoveAt(q, d) = a \o b
  BY DEF RemoveAt
<1> HIDE DEF a, b
<1>5. Len(a \o b) = Len(q) - 1 /\ (a \o b) \in Seq(S)
  BY <1>1, <1>2, <1>3
<1>6. ASSUME NEW k \in 1 .. (Len(q) - 1)
      PROVE  (a \o b)[k] = IF k < d THEN q[k] ELSE q[k + 1]
  <2>0. k \in 1 .. (Len(a) + Len(b))
    BY <1>1, <1>2, <1>3
  <2>1. CASE k < d
    BY <1>1, <1>2, <1>3, <2>0, <2>1
  <2>2. CASE ~(k < d)
    <3>0. ~(k <= Len(a))
      BY <1>1, <1>2, <2>2
    <3>1. (a \o b)[k] = b[k - Len(a)]
      BY <1>2, <1>3, <2>0, <3>0, ConcatProperties
    <3>2. /\ k - Len(a) \in 1 .. (Len(q) - d)
          /\ d + (k - Len(a)) = k + 1
      BY <1>1, <1>2, <2>2
    <3>3. b[k - Len(a)] = q[d + (k - Len(a))]
      BY <1>3, <3>2
    <3> QED
      BY <2>2, <3>1, <3>2, <3>3
  <2> QED
    BY <2>1, <2>2
<1> QED
  BY <1>4, <1>5, <1>6

(* new_job_request, outcome 0. *)
LEMMA EnqueueType ==
    ASSUME NEW r \in Inventory, NEW e \in Servable
    PROVE  /\ Enqueue(r, e) \in Inventory
           /\ Enqueue(r, e).active = r.active
           /\ Enqueue(r, e).avail = r.avail
           /\ Enqueue(r, e).request_queue =
                 [r.request_queue EXCEPT ![e.resource_type] = Append(@, e)]
<1>1. e.resource_type \in resource_t
  BY DEF Servable, Request
<1>2. Append(r.request_queue[e.resource_type], e) \in Seq(Servable)
  BY <1>1 DEF Inventory
<1> QED
  BY <1>1, <1>2 DEF Enqueue, Inventory

(* new_job_request, outcome 1, and the grant of chk_job_request: the guard *)
(* keeps the subtraction from going below zero.                            *)
LEMMA GrantType ==
    ASSUME NEW r \in Inventory, NEW e \in Servable, Fits(r, e)
    PROVE  /\ Grant(r, e) \in Inventory
           /\ Grant(r, e).active = tablahash_insertar(r.active, e)
           /\ Grant(r, e).request_queue = r.request_queue
           /\ \A t \in resource_t : Grant(r, e).avail[t] =
                 r.avail[t] - (IF t = e.resource_type
                               THEN e.resource_quantity ELSE 0)
<1>1. /\ e.resource_type \in resource_t /\ e.resource_quantity \in Nat
      /\ r.avail \in [resource_t -> Nat]
      /\ r.avail[e.resource_type] \in Nat
  BY DEF Servable, Request, Inventory
<1>2. r.avail[e.resource_type] - e.resource_quantity \in Nat
  BY <1>1 DEF Fits
<1>3. tablahash_insertar(r.active, e) \in SUBSET Servable
  BY DEF tablahash_insertar, Inventory
<1> DEFINE a == [r.avail EXCEPT ![e.resource_type] = @ - e.resource_quantity]
<1>4. /\ a \in [resource_t -> Nat]
      /\ \A t \in resource_t : a[t] =
            r.avail[t] - (IF t = e.resource_type
                          THEN e.resource_quantity ELSE 0)
  BY <1>1, <1>2
<1> DEFINE g == [r EXCEPT !.avail = a]
<1>5. g \in Inventory /\ g.avail = a /\ g.active = r.active
      /\ g.request_queue = r.request_queue
  <2> HIDE DEF a
  <2> QED  BY <1>4 DEF Inventory
<1>6. Grant(r, e) = [g EXCEPT !.active = tablahash_insertar(@, e)]
  BY DEF Grant, Inventory
<1> HIDE DEF a, g
<1>7. [g EXCEPT !.active = tablahash_insertar(@, e)] \in Inventory
  BY <1>3, <1>5 DEF Inventory
<1> QED
  BY <1>3, <1>4, <1>5, <1>6, <1>7 DEF Inventory

(* del_active_job and phase A of the sweep. *)
LEMMA ReclaimType ==
    ASSUME NEW r \in Inventory, IsFiniteSet(r.active),
           NEW D \in SUBSET r.active
    PROVE  /\ Reclaim(r, D) \in Inventory
           /\ Reclaim(r, D).active = r.active \ D
           /\ Reclaim(r, D).request_queue = r.request_queue
           /\ \A t \in resource_t :
                 Reclaim(r, D).avail[t] = r.avail[t] + Held(D, t)
<1>1. IsFiniteSet(D)
  BY FS_Subset
<1>2. \A t \in resource_t : Held(D, t) \in Nat
  BY <1>1, UnitsFinite
<1>3. [t \in resource_t |-> r.avail[t] + Held(D, t)] \in [resource_t -> Nat]
  BY <1>2 DEF Inventory
<1> QED
  BY <1>3 DEF Reclaim, Inventory

(* One iteration of phase B. *)
LEMMA DropPendingType ==
    ASSUME NEW r \in Inventory, NEW t \in resource_t,
           NEW i \in DOMAIN r.request_queue[t]
    PROVE  /\ DropPending(r, t, i) \in Inventory
           /\ DropPending(r, t, i).active = r.active
           /\ DropPending(r, t, i).avail = r.avail
           /\ DropPending(r, t, i).request_queue =
                 [r.request_queue EXCEPT ![t] = RemoveAt(@, i)]
<1>1. RemoveAt(r.request_queue[t], i) \in Seq(Servable)
  BY RemoveAtType DEF Inventory
<1> QED
  BY <1>1 DEF DropPending, Inventory

(* chk_job_request: the grant of the request at position i, with the queue *)
(* shortened at position d.                                                *)
LEMMA ChkType ==
    ASSUME NEW r \in Inventory, NEW t \in resource_t,
           NEW i \in DOMAIN r.request_queue[t],
           NEW d \in DOMAIN r.request_queue[t],
           Fits(r, r.request_queue[t][i])
    PROVE  LET e == r.request_queue[t][i]
               n == chk_job_request(r, t, i, d)
           IN  /\ e \in Servable
               /\ n \in Inventory
               /\ n.active = Grant(r, e).active
               /\ n.avail = Grant(r, e).avail
<1> DEFINE e == r.request_queue[t][i]
           g == Grant(r, e)
<1>1. r.request_queue[t] \in Seq(Servable) /\ e \in Servable
  BY DEF Inventory
<1>2. g \in Inventory /\ g.request_queue = r.request_queue
  BY <1>1, GrantType
<1>3. RemoveAt(r.request_queue[t], d) \in Seq(Servable)
  BY <1>1, RemoveAtType
<1>4. chk_job_request(r, t, i, d)
        = [g EXCEPT !.request_queue[t] = RemoveAt(r.request_queue[t], d)]
  BY <1>2 DEF chk_job_request, Inventory
<1> HIDE DEF g, e
<1>5. /\ [g EXCEPT !.request_queue[t] = RemoveAt(r.request_queue[t], d)]
            \in Inventory
      /\ [g EXCEPT !.request_queue[t] = RemoveAt(r.request_queue[t], d)].active
            = g.active
      /\ [g EXCEPT !.request_queue[t] = RemoveAt(r.request_queue[t], d)].avail
            = g.avail
  BY <1>2, <1>3 DEF Inventory
<1> QED
  BY <1>1, <1>4, <1>5 DEF g, e

(* The queues chk_job_request leaves. *)
LEMMA ChkQueue ==
    ASSUME NEW r \in Inventory, NEW t \in resource_t,
           NEW i \in DOMAIN r.request_queue[t],
           NEW d \in DOMAIN r.request_queue[t],
           Fits(r, r.request_queue[t][i])
    PROVE  chk_job_request(r, t, i, d).request_queue
             = [r.request_queue EXCEPT ![t] = RemoveAt(@, d)]
<1> DEFINE e == r.request_queue[t][i]
           g == Grant(r, e)
<1>1. e \in Servable
  BY DEF Inventory
<1>2. g \in Inventory /\ g.request_queue = r.request_queue
  BY <1>1, GrantType
<1>3. chk_job_request(r, t, i, d)
        = [g EXCEPT !.request_queue[t] = RemoveAt(r.request_queue[t], d)]
  BY <1>2 DEF chk_job_request, Inventory
<1> HIDE DEF g, e
<1> QED
  BY <1>2, <1>3 DEF Inventory

----------------------------------------------------------------------------
(* The bound: what is free and what is held never exceed the hardware.     *)

(* The bound survives a grant: avail falls by the quantity, the table      *)
(* gains at most as much.                                                  *)
LEMMA GrantBound ==
    ASSUME NEW r \in Inventory, IsFiniteSet(r.active),
           NEW e \in Servable, Fits(r, e),
           \A t \in resource_t : r.avail[t] + Held(r.active, t) <= Total[t]
    PROVE  /\ IsFiniteSet(Grant(r, e).active)
           /\ \A t \in resource_t :
                 Grant(r, e).avail[t] + Held(Grant(r, e).active, t) <= Total[t]
<1> DEFINE T == tablahash_insertar(r.active, e)
<1>1. e.resource_quantity \in Nat /\ r.avail \in [resource_t -> Nat]
  BY DEF Servable, Request, Inventory
<1>2. /\ Grant(r, e).active = T
      /\ \A t \in resource_t : Grant(r, e).avail[t] =
            r.avail[t] - (IF t = e.resource_type
                          THEN e.resource_quantity ELSE 0)
  BY GrantType
<1>3. IsFiniteSet(T)
  BY FS_Subset, FS_AddElement DEF tablahash_insertar
<1>4. ASSUME NEW t \in resource_t
      PROVE  Grant(r, e).avail[t] + Held(T, t) <= Total[t]
  <2>1. Held(T, t) <= Held(r.active, t)
            + (IF t = e.resource_type THEN e.resource_quantity ELSE 0)
    BY HeldInsert
  <2>2. Held(T, t) \in Nat /\ Held(r.active, t) \in Nat
    BY <1>3, UnitsFinite
  <2>3. Total[t] \in Nat /\ r.avail[t] \in Nat
    BY <1>1, LocalResourceAssumption
  <2> QED
    BY <1>1, <1>2, <2>1, <2>2, <2>3
<1> QED
  BY <1>2, <1>3, <1>4

(* The bound survives giving back: what leaves the table enters the pool.  *)
LEMMA ReclaimBound ==
    ASSUME NEW r \in Inventory, IsFiniteSet(r.active),
           NEW D \in SUBSET r.active,
           \A t \in resource_t : r.avail[t] + Held(r.active, t) <= Total[t]
    PROVE  /\ IsFiniteSet(Reclaim(r, D).active)
           /\ \A t \in resource_t :
                 Reclaim(r, D).avail[t] + Held(Reclaim(r, D).active, t)
                     <= Total[t]
<1>1. /\ Reclaim(r, D).active = r.active \ D
      /\ \A t \in resource_t :
            Reclaim(r, D).avail[t] = r.avail[t] + Held(D, t)
  BY ReclaimType
<1>2. IsFiniteSet(D) /\ IsFiniteSet(r.active \ D)
  BY FS_Subset, FS_Difference
<1>3. ASSUME NEW t \in resource_t
      PROVE  r.avail[t] + Held(D, t) + Held(r.active \ D, t) <= Total[t]
  <2>1. Held(r.active, t) = Held(D, t) + Held(r.active \ D, t)
    BY HeldSplit
  <2>2. Held(D, t) \in Nat /\ Held(r.active \ D, t) \in Nat
    BY <1>2, UnitsFinite
  <2>3. Total[t] \in Nat /\ r.avail[t] \in Nat
    BY LocalResourceAssumption DEF Inventory
  <2> QED
    BY <2>1, <2>2, <2>3
<1> QED
  BY <1>1, <1>2, <1>3

----------------------------------------------------------------------------
(* Keys: while no key is asked for twice, nothing waits twice, nothing     *)
(* that waits is held, and no unit is lost.                                *)

Waiting(r, t, i) == r.request_queue[t][i]

(* The key of e is neither held nor waiting. *)
Unused(r, e) ==
    /\ \A x \in r.active : ~SameKey(x, e)
    /\ \A t \in resource_t : \A i \in DOMAIN r.request_queue[t] :
          ~SameKey(Waiting(r, t, i), e)

(* A request waits in the queue of its type, once, and is not held. *)
KeysOK(r) ==
    /\ \A t \in resource_t : \A i \in DOMAIN r.request_queue[t] :
          Waiting(r, t, i).resource_type = t
    /\ \A t \in resource_t : \A i, k \in DOMAIN r.request_queue[t] :
          SameKey(Waiting(r, t, i), Waiting(r, t, k)) => i = k
    /\ \A t \in resource_t : \A i \in DOMAIN r.request_queue[t] :
          \A e \in r.active : ~SameKey(e, Waiting(r, t, i))

(* Every unit is free or held. *)
Balanced(r) == \A t \in resource_t : r.avail[t] + Held(r.active, t) = Total[t]

(* A new key may wait. *)
LEMMA EnqueueKeys ==
    ASSUME NEW r \in Inventory, KeysOK(r), NEW e \in Servable, Unused(r, e)
    PROVE  KeysOK(Enqueue(r, e))
<1> DEFINE g == Enqueue(r, e)
<1>1. /\ e.resource_type \in resource_t
      /\ r.request_queue \in [resource_t -> Seq(Servable)]
  BY DEF Servable, Request, Inventory
<1>2. /\ g.active = r.active
      /\ g.request_queue = [r.request_queue EXCEPT ![e.resource_type] =
                                Append(@, e)]
  BY EnqueueType
<1> HIDE DEF g
<1>3. ASSUME NEW t \in resource_t, t # e.resource_type
      PROVE  g.request_queue[t] = r.request_queue[t]
  BY <1>1, <1>2, <1>3
<1>4. ASSUME NEW t \in resource_t, NEW i \in DOMAIN g.request_queue[t]
      PROVE  \/ /\ i \in DOMAIN r.request_queue[t]
                /\ Waiting(g, t, i) = Waiting(r, t, i)
             \/ /\ t = e.resource_type
                /\ i = Len(r.request_queue[t]) + 1
                /\ Waiting(g, t, i) = e
  <2>1. CASE t # e.resource_type
    BY <1>3, <2>1 DEF Waiting
  <2>2. CASE t = e.resource_type
    <3>1. g.request_queue[t] = Append(r.request_queue[t], e)
      BY <1>1, <1>2, <2>2
    <3>2. r.request_queue[t] \in Seq(Servable)
      BY <1>1
    <3> QED
      BY <2>2, <3>1, <3>2 DEF Waiting
  <2> QED
    BY <2>1, <2>2
<1>5. \A t \in resource_t : \A i \in DOMAIN g.request_queue[t] :
          Waiting(g, t, i).resource_type = t
  BY <1>4 DEF KeysOK
<1>6. ASSUME NEW t \in resource_t, NEW i \in DOMAIN g.request_queue[t],
             NEW k \in DOMAIN g.request_queue[t],
             SameKey(Waiting(g, t, i), Waiting(g, t, k))
      PROVE  i = k
  <2>1. ASSUME NEW n \in DOMAIN r.request_queue[t]
        PROVE  /\ ~SameKey(Waiting(r, t, n), e)
               /\ ~SameKey(e, Waiting(r, t, n))
    BY DEF Unused, SameKey
  <2> QED
    BY <1>4, <1>6, <2>1 DEF KeysOK
<1>7. \A t \in resource_t : \A i \in DOMAIN g.request_queue[t] :
          \A x \in g.active : ~SameKey(x, Waiting(g, t, i))
  BY <1>2, <1>4 DEF KeysOK, Unused
<1> QED
  BY <1>5, <1>6, <1>7 DEF KeysOK, g

(* A new key may be granted at once. *)
LEMMA GrantKeys ==
    ASSUME NEW r \in Inventory, KeysOK(r), NEW e \in Servable, Fits(r, e),
           Unused(r, e)
    PROVE  KeysOK(Grant(r, e))
<1>1. /\ Grant(r, e).active = tablahash_insertar(r.active, e)
      /\ Grant(r, e).request_queue = r.request_queue
  BY GrantType
<1>2. \A t \in resource_t : \A i \in DOMAIN r.request_queue[t] :
         \A x \in Grant(r, e).active : ~SameKey(x, Waiting(r, t, i))
  BY <1>1 DEF KeysOK, Unused, SameKey, tablahash_insertar
<1> QED
  BY <1>1, <1>2 DEF KeysOK, Waiting

(* Entries may leave the table. *)
LEMMA ReclaimKeys ==
    ASSUME NEW r \in Inventory, KeysOK(r), IsFiniteSet(r.active),
           NEW D \in SUBSET r.active
    PROVE  KeysOK(Reclaim(r, D))
<1>1. /\ Reclaim(r, D).active \subseteq r.active
      /\ Reclaim(r, D).request_queue = r.request_queue
  BY ReclaimType
<1> QED
  BY <1>1 DEF KeysOK, Waiting

(* The queues of g are those of r without the request at d of type t. *)
ShiftedFrom(r, g, t, d) ==
    \A u \in resource_t : \A i \in DOMAIN g.request_queue[u] :
        \E k \in DOMAIN r.request_queue[u] :
            /\ Waiting(g, u, i) = Waiting(r, u, k)
            /\ u = t => k = (IF i < d THEN i ELSE i + 1) /\ k # d
            /\ u # t => k = i

(* What RemoveAt leaves in the queues. *)
LEMMA DeletedQueue ==
    ASSUME NEW r \in Inventory, NEW t \in resource_t,
           NEW d \in DOMAIN r.request_queue[t], NEW g,
           g.request_queue = [r.request_queue EXCEPT ![t] = RemoveAt(@, d)]
    PROVE  ShiftedFrom(r, g, t, d)
<1>1. r.request_queue \in [resource_t -> Seq(Servable)]
  BY DEF Inventory
<1> SUFFICES ASSUME NEW u \in resource_t, NEW i \in DOMAIN g.request_queue[u]
             PROVE  \E k \in DOMAIN r.request_queue[u] :
                       /\ Waiting(g, u, i) = Waiting(r, u, k)
                       /\ u = t => k = (IF i < d THEN i ELSE i + 1) /\ k # d
                       /\ u # t => k = i
  BY DEF ShiftedFrom
<1>2. CASE u # t
  BY <1>1, <1>2 DEF Waiting
<1>3. CASE u = t
  <2> DEFINE q == r.request_queue[t]
             k == IF i < d THEN i ELSE i + 1
  <2>1. q \in Seq(Servable) /\ g.request_queue[u] = RemoveAt(q, d)
    BY <1>1, <1>3
  <2>2. /\ Len(RemoveAt(q, d)) = Len(q) - 1 /\ RemoveAt(q, d) \in Seq(Servable)
        /\ \A n \in 1 .. (Len(q) - 1) :
              RemoveAt(q, d)[n] = IF n < d THEN q[n] ELSE q[n + 1]
    BY <2>1, RemoveAtElements
  <2>3. i \in 1 .. (Len(q) - 1) /\ d \in 1 .. Len(q) /\ Len(q) \in Nat
    BY <2>1, <2>2
  <2>4. k \in 1 .. Len(q) /\ k # d
    BY <2>3
  <2>5. RemoveAt(q, d)[i] = q[k]
    BY <2>2, <2>3
  <2>6. k \in DOMAIN q
    BY <2>1, <2>4
  <2> QED
    BY <1>3, <2>1, <2>4, <2>5, <2>6 DEF Waiting
<1> QED
  BY <1>2, <1>3

(* A request that leaves its queue leaves its key unused. *)
LEMMA DeleteKeys ==
    ASSUME NEW r \in Inventory, KeysOK(r), NEW t \in resource_t,
           NEW d \in DOMAIN r.request_queue[t], NEW g, g.active = r.active,
           g.request_queue = [r.request_queue EXCEPT ![t] = RemoveAt(@, d)]
    PROVE  KeysOK(g) /\ Unused(g, Waiting(r, t, d))
<1>0. ShiftedFrom(r, g, t, d)
  BY DeletedQueue
<1>1. ASSUME NEW u \in resource_t, NEW i \in DOMAIN g.request_queue[u]
      PROVE  \E k \in DOMAIN r.request_queue[u] :
                /\ Waiting(g, u, i) = Waiting(r, u, k)
                /\ u = t => k = (IF i < d THEN i ELSE i + 1) /\ k # d
                /\ u # t => k = i
  BY <1>0 DEF ShiftedFrom
<1>2. \A u \in resource_t : \A i \in DOMAIN g.request_queue[u] :
          Waiting(g, u, i).resource_type = u
  BY <1>1 DEF KeysOK
<1>3. ASSUME NEW u \in resource_t, NEW i \in DOMAIN g.request_queue[u],
             NEW k \in DOMAIN g.request_queue[u],
             SameKey(Waiting(g, u, i), Waiting(g, u, k))
      PROVE  i = k
  <2>1. DOMAIN g.request_queue[u] \subseteq Int /\ d \in Int
    BY RemoveAtType DEF Inventory
  <2>2. PICK m \in DOMAIN r.request_queue[u] :
            /\ Waiting(g, u, i) = Waiting(r, u, m)
            /\ u = t => m = (IF i < d THEN i ELSE i + 1) /\ m # d
            /\ u # t => m = i
    BY <1>1
  <2>3. PICK n \in DOMAIN r.request_queue[u] :
            /\ Waiting(g, u, k) = Waiting(r, u, n)
            /\ u = t => n = (IF k < d THEN k ELSE k + 1) /\ n # d
            /\ u # t => n = k
    BY <1>1
  <2>4. m = n
    BY <1>3, <2>2, <2>3 DEF KeysOK
  <2> QED
    BY <2>1, <2>2, <2>3, <2>4
<1>4. \A u \in resource_t : \A i \in DOMAIN g.request_queue[u] :
          \A x \in g.active : ~SameKey(x, Waiting(g, u, i))
  BY <1>1 DEF KeysOK
<1>5. ASSUME NEW u \in resource_t, NEW i \in DOMAIN g.request_queue[u]
      PROVE  ~SameKey(Waiting(g, u, i), Waiting(r, t, d))
  <2>1. PICK k \in DOMAIN r.request_queue[u] :
            /\ Waiting(g, u, i) = Waiting(r, u, k)
            /\ u = t => k # d
    BY <1>1
  <2>2. CASE u = t
    BY <2>1, <2>2 DEF KeysOK
  <2>3. CASE u # t
    BY <2>1, <2>3 DEF KeysOK, SameKey
  <2> QED
    BY <2>2, <2>3
<1> QED
  BY <1>2, <1>3, <1>4, <1>5 DEF KeysOK, Unused

(* chk_job_request: with the keys in order, queue_delete removes exactly   *)
(* the request that was granted.                                           *)
LEMMA ChkKeys ==
    ASSUME NEW r \in Inventory, KeysOK(r), NEW t \in resource_t,
           NEW i \in DOMAIN r.request_queue[t],
           NEW d \in DOMAIN r.request_queue[t],
           Fits(r, Waiting(r, t, i)),
           IsFirstMatch(r.request_queue[t], Waiting(r, t, i), d)
    PROVE  /\ d = i
           /\ \A x \in r.active : ~SameKey(x, Waiting(r, t, i))
           /\ KeysOK(chk_job_request(r, t, i, d))
<1> DEFINE e == Waiting(r, t, i)
           n == chk_job_request(r, t, i, d)
           g == DropPending(r, t, d)
<1>1. d = i
  BY DEF IsFirstMatch, KeysOK, Waiting
<1>2. /\ e \in Servable
      /\ n.active = Grant(r, e).active
      /\ n.request_queue = [r.request_queue EXCEPT ![t] = RemoveAt(@, d)]
  BY ChkType, ChkQueue DEF Waiting
<1>3. /\ g.active = r.active
      /\ g.request_queue = [r.request_queue EXCEPT ![t] = RemoveAt(@, d)]
  BY DropPendingType
<1>4. n.active = tablahash_insertar(r.active, e)
  BY <1>2, GrantType
<1> HIDE DEF n, g, e
<1>5. KeysOK(g) /\ Unused(g, Waiting(r, t, d))
  BY <1>3, DeleteKeys
<1>6. n.request_queue = g.request_queue /\ Unused(g, e)
  BY <1>1, <1>2, <1>3, <1>5 DEF e
<1>7. \A u \in resource_t : \A k \in DOMAIN n.request_queue[u] :
         \A x \in n.active : ~SameKey(x, Waiting(n, u, k))
  BY <1>3, <1>4, <1>5, <1>6 DEF KeysOK, Unused, SameKey, tablahash_insertar,
     Waiting
<1>8. KeysOK(n)
  BY <1>5, <1>6, <1>7 DEF KeysOK, Waiting
<1> QED
  BY <1>1, <1>8 DEF n, KeysOK

(* Granting a new key loses no unit. *)
LEMMA GrantBalance ==
    ASSUME NEW r \in Inventory, IsFiniteSet(r.active), Balanced(r),
           NEW e \in Servable, Fits(r, e),
           \A x \in r.active : ~SameKey(x, e)
    PROVE  Balanced(Grant(r, e))
<1> DEFINE T == tablahash_insertar(r.active, e)
<1>1. /\ e.resource_type \in resource_t /\ e.resource_quantity \in Nat
      /\ r.avail \in [resource_t -> Nat]
  BY DEF Servable, Request, Inventory
<1>2. /\ Grant(r, e).active = T
      /\ \A t \in resource_t : Grant(r, e).avail[t] =
            r.avail[t] - (IF t = e.resource_type
                          THEN e.resource_quantity ELSE 0)
  BY GrantType
<1>4. ASSUME NEW t \in resource_t
      PROVE  Grant(r, e).avail[t] + Held(T, t) = Total[t]
  <2>1. Held(T, t) = Held(r.active, t)
            + (IF t = e.resource_type THEN e.resource_quantity ELSE 0)
    BY HeldInsertNew
  <2>2. Held(r.active, t) \in Nat
    BY UnitsFinite
  <2>3. Total[t] \in Nat /\ r.avail[t] \in Nat
    BY <1>1, LocalResourceAssumption
  <2>4. r.avail[t] + Held(r.active, t) = Total[t]
    BY DEF Balanced
  <2> QED
    BY <1>1, <1>2, <2>1, <2>2, <2>3, <2>4
<1> QED
  BY <1>2, <1>4 DEF Balanced

(* Giving back loses no unit. *)
LEMMA ReclaimBalance ==
    ASSUME NEW r \in Inventory, IsFiniteSet(r.active), Balanced(r),
           NEW D \in SUBSET r.active
    PROVE  Balanced(Reclaim(r, D))
<1>1. /\ Reclaim(r, D).active = r.active \ D
      /\ \A t \in resource_t :
            Reclaim(r, D).avail[t] = r.avail[t] + Held(D, t)
  BY ReclaimType
<1>2. IsFiniteSet(D) /\ IsFiniteSet(r.active \ D)
  BY FS_Subset, FS_Difference
<1>3. ASSUME NEW t \in resource_t
      PROVE  r.avail[t] + Held(D, t) + Held(r.active \ D, t) = Total[t]
  <2>1. Held(r.active, t) = Held(D, t) + Held(r.active \ D, t)
    BY HeldSplit
  <2>2. Held(D, t) \in Nat /\ Held(r.active \ D, t) \in Nat
    BY <1>2, UnitsFinite
  <2>3. Total[t] \in Nat /\ r.avail[t] \in Nat
    BY LocalResourceAssumption DEF Inventory
  <2>4. r.avail[t] + Held(r.active, t) = Total[t]
    BY DEF Balanced
  <2> QED
    BY <2>1, <2>2, <2>3, <2>4
<1> QED
  BY <1>1, <1>3 DEF Balanced
=============================================================================
