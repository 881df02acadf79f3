---------------------------- MODULE ClusterProofs ----------------------------
(***************************************************************************)
(* Proofs about Cluster, for any finite number of agents and hardware      *)
(* types, any set of jobs and any size of the machines.                    *)
(***************************************************************************)
EXTENDS Cluster, FiniteSetTheorems, SequenceTheorems, WellFoundedInduction,
        TLAPS

SrvP == INSTANCE LocalResourceProofs WITH Socket <- Node

----------------------------------------------------------------------------
(* The inventory lemmas, for the inventories of the cluster.  An operator  *)
(* of the instance is the same as the one the lemmas are about.            *)

LEMMA SameOperators ==
    /\ Srv!Servable = SrvP!Servable
    /\ Srv!Inventory = SrvP!Inventory
    /\ \A r, e : Srv!Fits(r, e) = SrvP!Fits(r, e)
    /\ \A r, e : Srv!Enqueue(r, e) = SrvP!Enqueue(r, e)
    /\ \A r, e : Srv!Grant(r, e) = SrvP!Grant(r, e)
    /\ \A r, D : Srv!Reclaim(r, D) = SrvP!Reclaim(r, D)
    /\ \A r, t, i, d : Srv!chk_job_request(r, t, i, d)
                         = SrvP!chk_job_request(r, t, i, d)
    /\ \A S, t : Srv!Held(S, t) = SrvP!Held(S, t)
    /\ \A S : SrvP!IsFiniteSet(S) = IsFiniteSet(S)
<1> USE DEF Srv!Servable, SrvP!Servable, Srv!Request, SrvP!Request
<1>1. Srv!Servable = SrvP!Servable
  OBVIOUS
<1>2. Srv!Inventory = SrvP!Inventory
  BY DEF Srv!Inventory, SrvP!Inventory
<1>3. \A r, e : Srv!Fits(r, e) = SrvP!Fits(r, e)
  BY DEF Srv!Fits, SrvP!Fits
<1>4. \A r, e : Srv!Enqueue(r, e) = SrvP!Enqueue(r, e)
  BY DEF Srv!Enqueue, SrvP!Enqueue
<1>5. \A S, e : Srv!tablahash_insertar(S, e) = SrvP!tablahash_insertar(S, e)
  BY DEF Srv!tablahash_insertar, SrvP!tablahash_insertar, Srv!SameKey,
         SrvP!SameKey
<1>6. \A r, e : Srv!Grant(r, e) = SrvP!Grant(r, e)
  BY <1>5 DEF Srv!Grant, SrvP!Grant
<1>7. \A S : Srv!Cardinality(S) = SrvP!Cardinality(S)
  BY DEF Srv!Cardinality, SrvP!Cardinality
<1>8. \A S, t : Srv!Held(S, t) = SrvP!Held(S, t)
  BY <1>7 DEF Srv!Held, SrvP!Held, Srv!Units, SrvP!Units
<1>9. \A r, D : Srv!Reclaim(r, D) = SrvP!Reclaim(r, D)
  BY <1>8 DEF Srv!Reclaim, SrvP!Reclaim
<1>10. ASSUME NEW r, NEW t, NEW i, NEW d
       PROVE  Srv!chk_job_request(r, t, i, d) = SrvP!chk_job_request(r, t, i, d)
  <2> DEFINE g == SrvP!Grant(r, r.request_queue[t][i])
             q == SubSeq(g.request_queue[t], 1, d - 1)
                  \o SubSeq(g.request_queue[t], d + 1, Len(g.request_queue[t]))
  <2>1. SrvP!chk_job_request(r, t, i, d) = [g EXCEPT !.request_queue[t] = q]
    BY DEF SrvP!chk_job_request, SrvP!RemoveAt
  <2>2. g = Srv!Grant(r, r.request_queue[t][i])
    BY <1>6
  <2>3. Srv!chk_job_request(r, t, i, d) = [g EXCEPT !.request_queue[t] = q]
    BY <2>2 DEF Srv!chk_job_request, Srv!RemoveAt
  <2> QED
    BY <2>1, <2>3
<1>11. \A S : SrvP!IsFiniteSet(S) = IsFiniteSet(S)
  BY DEF SrvP!IsFiniteSet, IsFiniteSet
<1> QED
  BY <1>1, <1>2, <1>3, <1>4, <1>6, <1>8, <1>9, <1>10, <1>11

(* What is free and what is held stay within the machine. *)
Within(r) ==
    /\ IsFiniteSet(r.active)
    /\ \A t \in resource_t : r.avail[t] + Srv!Held(r.active, t) <= Total[t]

LEMMA LocalAssumption ==
    Total \in [resource_t -> Nat] /\ MaxSweep \in Nat \ {0}
BY ClusterAssumption

LEMMA EnqueueFacts ==
    ASSUME NEW r \in Srv!Inventory, Within(r), NEW e \in Srv!Servable
    PROVE  /\ Srv!Enqueue(r, e) \in Srv!Inventory
           /\ Within(Srv!Enqueue(r, e))
           /\ Srv!Enqueue(r, e).active = r.active
           /\ Srv!Enqueue(r, e).request_queue =
                 [r.request_queue EXCEPT ![e.resource_type] = Append(@, e)]
<1>1. r \in SrvP!Inventory /\ e \in SrvP!Servable
  BY SameOperators
<1>2. /\ SrvP!Enqueue(r, e) \in SrvP!Inventory
      /\ SrvP!Enqueue(r, e).active = r.active
      /\ SrvP!Enqueue(r, e).avail = r.avail
      /\ SrvP!Enqueue(r, e).request_queue =
            [r.request_queue EXCEPT ![e.resource_type] = Append(@, e)]
  BY <1>1, SrvP!EnqueueType, LocalAssumption
  DEF SrvP!EnqueueType, SrvP!LocalResourceAssumption
<1>3. /\ Srv!Enqueue(r, e) = SrvP!Enqueue(r, e)
      /\ Srv!Inventory = SrvP!Inventory
  BY SameOperators
<1> QED
  BY <1>2, <1>3 DEF Within

LEMMA GrantFacts ==
    ASSUME NEW r \in Srv!Inventory, Within(r), NEW e \in Srv!Servable,
           Srv!Fits(r, e)
    PROVE  /\ Srv!Grant(r, e) \in Srv!Inventory
           /\ Within(Srv!Grant(r, e))
           /\ Srv!Grant(r, e).active
                = {x \in r.active : ~Srv!SameKey(x, e)} \cup {e}
           /\ Srv!Grant(r, e).request_queue = r.request_queue
<1>1. /\ r \in SrvP!Inventory /\ e \in SrvP!Servable /\ SrvP!Fits(r, e)
      /\ SrvP!IsFiniteSet(r.active)
      /\ \A t \in resource_t : r.avail[t] + SrvP!Held(r.active, t) <= Total[t]
  BY SameOperators DEF Within
<1>2. /\ SrvP!Grant(r, e) \in SrvP!Inventory
      /\ SrvP!Grant(r, e).request_queue = r.request_queue
      /\ SrvP!Grant(r, e).active = SrvP!tablahash_insertar(r.active, e)
  BY <1>1, SrvP!GrantType, LocalAssumption
  DEF SrvP!GrantType, SrvP!LocalResourceAssumption
<1>3. /\ SrvP!IsFiniteSet(SrvP!Grant(r, e).active)
      /\ \A t \in resource_t : SrvP!Grant(r, e).avail[t]
            + SrvP!Held(SrvP!Grant(r, e).active, t) <= Total[t]
  BY <1>1, SrvP!GrantBound, LocalAssumption
  DEF SrvP!GrantBound, SrvP!LocalResourceAssumption
<1>4. /\ Srv!Grant(r, e) = SrvP!Grant(r, e)
      /\ Srv!Inventory = SrvP!Inventory
  BY SameOperators
<1>5. Within(Srv!Grant(r, e))
  BY <1>3, <1>4, SameOperators DEF Within
<1>6. SrvP!tablahash_insertar(r.active, e)
        = {x \in r.active : ~Srv!SameKey(x, e)} \cup {e}
  BY DEF SrvP!tablahash_insertar, SrvP!SameKey, Srv!SameKey
<1> QED
  BY <1>2, <1>4, <1>5, <1>6

LEMMA ReclaimFacts ==
    ASSUME NEW r \in Srv!Inventory, Within(r), NEW D \in SUBSET r.active
    PROVE  /\ Srv!Reclaim(r, D) \in Srv!Inventory
           /\ Within(Srv!Reclaim(r, D))
           /\ Srv!Reclaim(r, D).active = r.active \ D
           /\ Srv!Reclaim(r, D).request_queue = r.request_queue
<1>1. /\ r \in SrvP!Inventory /\ SrvP!IsFiniteSet(r.active)
      /\ \A t \in resource_t : r.avail[t] + SrvP!Held(r.active, t) <= Total[t]
  BY SameOperators DEF Within
<1>2. /\ SrvP!Reclaim(r, D) \in SrvP!Inventory
      /\ SrvP!Reclaim(r, D).active = r.active \ D
      /\ SrvP!Reclaim(r, D).request_queue = r.request_queue
  BY <1>1, SrvP!ReclaimType, LocalAssumption
  DEF SrvP!ReclaimType, SrvP!LocalResourceAssumption
<1>3. /\ SrvP!IsFiniteSet(SrvP!Reclaim(r, D).active)
      /\ \A t \in resource_t : SrvP!Reclaim(r, D).avail[t]
            + SrvP!Held(SrvP!Reclaim(r, D).active, t) <= Total[t]
  BY <1>1, SrvP!ReclaimBound, LocalAssumption
  DEF SrvP!ReclaimBound, SrvP!LocalResourceAssumption
<1>4. /\ Srv!Reclaim(r, D) = SrvP!Reclaim(r, D)
      /\ Srv!Inventory = SrvP!Inventory
  BY SameOperators
<1>5. Within(Srv!Reclaim(r, D))
  BY <1>3, <1>4, SameOperators DEF Within
<1> QED
  BY <1>2, <1>4, <1>5

(* The queue of chk_job_request is the old one without position d. *)
LEMMA ChkFacts ==
    ASSUME NEW r \in Srv!Inventory, Within(r), NEW t \in resource_t,
           NEW i \in DOMAIN r.request_queue[t],
           NEW d \in DOMAIN r.request_queue[t],
           Srv!Fits(r, r.request_queue[t][i])
    PROVE  LET e == r.request_queue[t][i]
               n == Srv!chk_job_request(r, t, i, d)
           IN  /\ n \in Srv!Inventory
               /\ Within(n)
               /\ n.active = {x \in r.active : ~Srv!SameKey(x, e)} \cup {e}
               /\ SrvP!ShiftedFrom(r, n, t, d)
<1> DEFINE e == r.request_queue[t][i]
           n == SrvP!chk_job_request(r, t, i, d)
<1>1. /\ r \in SrvP!Inventory /\ SrvP!Fits(r, e)
  BY SameOperators
<1>2. /\ e \in SrvP!Servable
      /\ n \in SrvP!Inventory
      /\ n.active = SrvP!Grant(r, e).active
      /\ n.avail = SrvP!Grant(r, e).avail
  BY <1>1, SrvP!ChkType, LocalAssumption
  DEF SrvP!ChkType, SrvP!LocalResourceAssumption
<1>3. n.request_queue = [r.request_queue EXCEPT ![t] = SrvP!RemoveAt(@, d)]
  BY <1>1, SrvP!ChkQueue, LocalAssumption
  DEF SrvP!ChkQueue, SrvP!LocalResourceAssumption
<1>4. e \in Srv!Servable /\ Srv!Grant(r, e) = SrvP!Grant(r, e)
  BY <1>2, SameOperators
<1> HIDE DEF n
<1>5. SrvP!ShiftedFrom(r, n, t, d)
  BY <1>1, <1>3, SrvP!DeletedQueue, LocalAssumption
  DEF SrvP!DeletedQueue, SrvP!LocalResourceAssumption
<1>6. /\ Within(Srv!Grant(r, e))
      /\ Srv!Grant(r, e).active
           = {x \in r.active : ~Srv!SameKey(x, e)} \cup {e}
  BY <1>4, GrantFacts
<1>7. /\ Within(n) /\ n \in Srv!Inventory
      /\ n.active = {x \in r.active : ~Srv!SameKey(x, e)} \cup {e}
  BY <1>2, <1>4, <1>6, SameOperators DEF Within
<1>8. n = Srv!chk_job_request(r, t, i, d)
  BY SameOperators DEF n
<1> QED
  BY <1>5, <1>7, <1>8

----------------------------------------------------------------------------
(* The request of a job: every petition once, in the order of Earlier.     *)

Petition == [node : Node, type : resource_t]

Place(n, t) == [node |-> n, type |-> t]

(* What a job asks for is finite and fits the array of owned_job_t. *)
LEMMA PetitionsFacts ==
    ASSUME NEW j \in JobId
    PROVE  /\ Petitions(j) \subseteq Petition
           /\ IsFiniteSet(Petitions(j))
           /\ Cardinality(Petitions(j)) \in 0 .. MAX_JOB_RESOURCES
<1>1. Petitions(j) \subseteq Petition
  BY DEF Petitions, Petition
<1>2. /\ IsFiniteSet(Node \X resource_t)
      /\ Cardinality(Node \X resource_t)
           = Cardinality(Node) * Cardinality(resource_t)
  BY ClusterAssumption, FS_Product
<1>3. IsFiniteSet(Petition) /\ Cardinality(Petition) = Cardinality(Node \X resource_t)
  <2> DEFINE f == [x \in Node \X resource_t |-> Place(x[1], x[2])]
  <2>1. f \in [Node \X resource_t -> Petition]
    BY DEF Place, Petition
  <2>2. ASSUME NEW x \in Node \X resource_t, NEW y \in Node \X resource_t,
               f[x] = f[y]
        PROVE  x = y
    BY <2>2 DEF Place
  <2>3. ASSUME NEW p \in Petition
        PROVE  \E x \in Node \X resource_t : f[x] = p
    <3>1. <<p.node, p.type>> \in Node \X resource_t
      BY DEF Petition
    <3>2. f[<<p.node, p.type>>] = p
      BY <3>1 DEF Place, Petition
    <3> QED
      BY <3>1, <3>2
  <2> HIDE DEF f
  <2>4. f \in Bijection(Node \X resource_t, Petition)
    BY <2>1, <2>2, <2>3 DEF Bijection, Injection, Surjection, IsInjective
  <2>5. ExistsBijection(Node \X resource_t, Petition)
    BY <2>4 DEF ExistsBijection
  <2> QED
    BY <1>2, <2>5, FS_Bijection
<1>4. IsFiniteSet(Petitions(j)) /\ Cardinality(Petitions(j)) <= Cardinality(Petition)
  BY <1>1, <1>3, FS_Subset
<1>6. Cardinality(Petitions(j)) \in Nat
  BY <1>4, FS_CardinalityType
<1>7. Cardinality(Petition) <= MAX_JOB_RESOURCES /\ Cardinality(Petition) \in Nat
  BY <1>2, <1>3, ClusterAssumption, FS_CardinalityType
<1>8. MAX_JOB_RESOURCES \in Nat
  BY ClusterAssumption
<1> QED
  BY <1>1, <1>4, <1>6, <1>7, <1>8

(* A request lists the petitions of its job. *)
LEMMA RequestFacts ==
    ASSUME NEW j \in JobId, NEW list \in JobRequests(j)
    PROVE  /\ list \in Seq(Petition)
           /\ Len(list) \in 0 .. MAX_JOB_RESOURCES
           /\ \A i \in 1 .. Len(list) : list[i] \in Petitions(j)
           /\ \A i, k \in 1 .. Len(list) : i < k => Earlier(list[i], list[k])
           /\ \A i, k \in 1 .. Len(list) : list[i] = list[k] => i = k
           /\ \A p \in Petitions(j) : \E i \in 1 .. Len(list) : list[i] = p
<1> DEFINE N == Cardinality(Petitions(j))
<1>1. /\ N \in 0 .. MAX_JOB_RESOURCES /\ N \in Nat
      /\ Petitions(j) \subseteq Petition /\ IsFiniteSet(Petitions(j))
  BY PetitionsFacts, ClusterAssumption
<1>2. /\ list \in [1 .. N -> Petitions(j)]
      /\ \A i, k \in 1 .. N : i # k => list[i] # list[k]
      /\ Sorted(list)
  BY DEF JobRequests, SetToSeqs
<1> HIDE DEF N
<1>3. list \in Seq(Petitions(j)) /\ Len(list) = N /\ DOMAIN list = 1 .. N
  BY <1>1, <1>2
<1>4. list \in Seq(Petition)
  BY <1>1, <1>2
<1>5. \A i, k \in 1 .. N : i < k => Earlier(list[i], list[k])
  BY <1>2, <1>3 DEF Sorted
<1>6. ASSUME NEW p \in Petitions(j)
      PROVE  \E i \in 1 .. N : list[i] = p
  <2>1. list \in Injection(1 .. N, Petitions(j))
    BY <1>2 DEF Injection, IsInjective
  <2>2. Cardinality(1 .. N) = Cardinality(Petitions(j))
    BY <1>1, FS_Interval DEF N
  <2>3. list \in Surjection(1 .. N, Petitions(j))
    BY <1>1, <2>1, <2>2, FS_Injection
  <2> QED
    BY <2>3 DEF Surjection
<1> QED
  BY <1>1, <1>2, <1>3, <1>4, <1>5, <1>6


----------------------------------------------------------------------------
(* The state of the cluster, seen from a job j and a place (n, t).  The    *)
(* operators take the state as arguments, so that what a step changes can  *)
(* be stated of both states.                                               *)

Table == UNION {[S -> Own!OwnedJob] : S \in SUBSET JobId}

Known(o, j) == j \in DOMAIN o[Home[j]]

(* The agent has j, and j asks for something. *)
Live(o, j) == Known(o, j) /\ Petitions(j) # {}

Job(o, j) == o[Home[j]][j]

Idx(o, j) == Job(o, j).next_reserve_idx

(* The RESERVE for (n, t) has been dispatched and is not answered. *)
PendingAt(o, j, n, t) ==
    /\ Live(o, j)
    /\ Idx(o, j) \notin Job(o, j).granted
    /\ Job(o, j).petitions[Idx(o, j)] = Place(n, t)

(* The petition for (n, t) is marked as granted. *)
GrantedAt(o, j, n, t) ==
    /\ Live(o, j)
    /\ \E i \in Job(o, j).granted : Job(o, j).petitions[i] = Place(n, t)

Sent(w, kind, j, n, t) == Msg(kind, j, Place(n, t)) \in w

(* What the server of n keeps for j while it waits or holds. *)
Entry(j, n, t) ==
    [job_id |-> j, socket |-> Home[j], resource_type |-> t,
     resource_quantity |-> Need[j][n][t]]

Queued(r, j, n, t) ==
    \E i \in DOMAIN r[n].request_queue[t] :
        r[n].request_queue[t][i] = Entry(j, n, t)

Holds(r, j, n, t) == Entry(j, n, t) \in r[n].active

(* A job that asks for nothing has dispatched nothing. *)
Quiet(T) ==
    \A j \in DOMAIN T : Petitions(j) = {} => T[j].next_reserve_idx = 0

(* The tables: each job at its home; and of a job that asks for something, *)
(* its request complete, the petitions granted one after the other, and    *)
(* JOB_GRANTED told when all are.                                          *)
TablesOK(o) ==
    /\ o \in [Node -> Table]
    /\ \A a \in Node : \A j \in DOMAIN o[a] : Home[j] = a
    /\ \A a \in Node : Quiet(o[a])

JobOK(o, run, fin, j) ==
    /\ Job(o, j).petitions \in JobRequests(j)
    /\ Idx(o, j) \in 1 .. Len(Job(o, j).petitions)
    /\ \/ Job(o, j).granted = 1 .. (Idx(o, j) - 1)
       \/ /\ Job(o, j).granted = 1 .. Idx(o, j)
          /\ Idx(o, j) = Len(Job(o, j).petitions)
    /\ Job(o, j).grant_notified <=> Idx(o, j) \in Job(o, j).granted
    /\ j \in run <=> Idx(o, j) \in Job(o, j).granted
    /\ j \notin fin

JobsOK(o, run, fin) ==
    /\ \A j \in JobId : Live(o, j) => JobOK(o, run, fin, j)
    /\ \A j \in run : Live(o, j)

(* The inventories: entries of the machine's own requests, each job at     *)
(* most once in a queue, nothing promised twice.                           *)
InventoryOK(r, n) ==
    /\ Within(r[n])
    /\ \A e \in r[n].active :
          \E j \in JobId, t \in resource_t : e = Entry(j, n, t)
    /\ \A t \in resource_t : \A i \in DOMAIN r[n].request_queue[t] :
          \E j \in JobId : r[n].request_queue[t][i] = Entry(j, n, t)
    /\ \A t \in resource_t : \A i, k \in DOMAIN r[n].request_queue[t] :
          r[n].request_queue[t][i] = r[n].request_queue[t][k] => i = k

InventoriesOK(r) ==
    /\ r \in [Node -> Srv!Inventory]
    /\ \A n \in Node : InventoryOK(r, n)

(* The petition of j at (n, t) is in one place at a time: its RESERVE on   *)
(* the way, in the queue, held with its GRANTED on the way, held and       *)
(* marked, or held with a RELEASE on the way.                              *)
TokenOK(o, r, w, fin, j, n, t) ==
    /\ Sent(w, "RESERVE", j, n, t) =>
          PendingAt(o, j, n, t) /\ ~Queued(r, j, n, t) /\ ~Holds(r, j, n, t)
    /\ Sent(w, "GRANTED", j, n, t) =>
          PendingAt(o, j, n, t) /\ ~Queued(r, j, n, t) /\ Holds(r, j, n, t)
    /\ Sent(w, "RELEASE", j, n, t) => j \in fin
    /\ Queued(r, j, n, t) => PendingAt(o, j, n, t) /\ ~Holds(r, j, n, t)
    /\ GrantedAt(o, j, n, t) => Holds(r, j, n, t)
    /\ Holds(r, j, n, t) =>
          \/ GrantedAt(o, j, n, t)
          \/ Sent(w, "GRANTED", j, n, t)
          \/ \E u \in resource_t : Sent(w, "RELEASE", j, n, u)

TokensOK(o, r, w, fin) ==
    \A j \in JobId, n \in Node, t \in resource_t :
        TokenOK(o, r, w, fin, j, n, t)

(* The inductive invariant. *)
IInv ==
    /\ TypeOK
    /\ TablesOK(owned)
    /\ JobsOK(owned, running, finished)
    /\ InventoriesOK(res)
    /\ TokensOK(owned, res, net, finished)

(* A table is a function from some jobs to their records. *)
LEMMA TableFacts ==
    ASSUME NEW T \in Table
    PROVE  /\ DOMAIN T \subseteq JobId
           /\ T \in [DOMAIN T -> Own!OwnedJob]
<1>1. PICK S \in SUBSET JobId : T \in [S -> Own!OwnedJob]
  BY DEF Table
<1> QED
  BY <1>1

LEMMA TableIntro ==
    ASSUME NEW S \in SUBSET JobId, NEW T \in [S -> Own!OwnedJob]
    PROVE  T \in Table
BY DEF Table

(* The types of the tables' entries. *)
LEMMA TableTypes ==
    ASSUME NEW o, TablesOK(o), NEW a \in Node, NEW j \in DOMAIN o[a]
    PROVE  Home[j] = a /\ o[a][j] \in Own!OwnedJob
<1>1. o[a] \in Table
  BY DEF TablesOK
<1>2. o[a] \in [DOMAIN o[a] -> Own!OwnedJob]
  BY <1>1, TableFacts
<1> QED
  BY <1>2 DEF TablesOK

(* The type invariant follows from the other parts and the messages. *)
LEMMA NextFromParts ==
    ASSUME TablesOK(owned'), JobsOK(owned', running', finished'),
           InventoriesOK(res'), TokensOK(owned', res', net', finished'),
           waking' \subseteq Node, net' \subseteq Message,
           running' \subseteq JobId, finished' \subseteq JobId
    PROVE  IInv'
<1>1. \A a \in Node : \A j \in DOMAIN owned'[a] :
          Home[j] = a /\ owned'[a][j] \in Own!OwnedJob
  BY TableTypes
<1>2. TypeOK'
  BY <1>1 DEF TypeOK, InventoriesOK
<1> QED
  BY <1>2 DEF IInv

(* The tables o2 are those of o with T for the table of a. *)
Replaces(o, o2, a, T) ==
    /\ TablesOK(o2)
    /\ \A k \in JobId : Home[k] = a =>
          (Known(o2, k) <=> k \in DOMAIN T) /\ Job(o2, k) = T[k]
    /\ \A k \in JobId : Home[k] # a =>
          (Known(o2, k) <=> Known(o, k)) /\ Job(o2, k) = Job(o, k)

LEMMA UpdateTable ==
    ASSUME NEW o, TablesOK(o), NEW a \in Node, NEW T \in Table,
           \A k \in DOMAIN T : Home[k] = a, Quiet(T)
    PROVE  Replaces(o, [o EXCEPT ![a] = T], a, T)
<1> DEFINE o2 == [o EXCEPT ![a] = T]
<1>1. o \in [Node -> Table] /\ Home \in [JobId -> Node]
  BY ClusterAssumption DEF TablesOK
<1>2. o2 \in [Node -> Table] /\ o2[a] = T
      /\ \A b \in Node : b # a => o2[b] = o[b]
  BY <1>1
<1> HIDE DEF o2
<1>3. TablesOK(o2)
  BY <1>2 DEF TablesOK
<1>4. Replaces(o, o2, a, T)
  BY <1>1, <1>2, <1>3 DEF Known, Job, Replaces
<1> QED
  BY <1>4 DEF o2

(* Messages are equal when their parts are. *)
LEMMA MsgEqual ==
    ASSUME NEW k1, NEW j1, NEW n1, NEW t1, NEW k2, NEW j2, NEW n2, NEW t2
    PROVE  Msg(k1, j1, Place(n1, t1)) = Msg(k2, j2, Place(n2, t2))
              <=> k1 = k2 /\ j1 = j2 /\ n1 = n2 /\ t1 = t2
BY DEF Msg, Place

(* A message in flight is the one of its parts. *)
LEMMA MsgParts ==
    ASSUME NEW m \in Message
    PROVE  /\ m.job \in JobId /\ m.node \in Node /\ m.type \in resource_t
           /\ m = Msg(m.kind, m.job, Place(m.node, m.type))
           /\ \A kind, j : Msg(kind, j, m) = Msg(kind, j, Place(m.node, m.type))
BY DEF Message, Msg, Place

----------------------------------------------------------------------------
(* What the steps of the clients do to the tables. *)

(* handle_job_request records the job with its first petition dispatched.  *)
LEMMA RequestEffect ==
    ASSUME TablesOK(owned), NEW j \in JobId, handle_job_request(j)
    PROVE  /\ ~Live(owned, j) /\ j \notin finished
           /\ TablesOK(owned')
           /\ \A k \in JobId : Live(owned', k) <=> Live(owned, k) \/ k = j
           /\ \A k \in JobId \ {j} :
                 Live(owned, k) => Job(owned', k) = Job(owned, k)
           /\ \E list \in JobRequests(j) :
                 /\ Len(list) # 0
                 /\ Job(owned', j).petitions = list
                 /\ Idx(owned', j) = 1
                 /\ Job(owned', j).granted = {}
                 /\ ~Job(owned', j).grant_notified
                 /\ net' = net \cup {Msg("RESERVE", j, list[1])}
<1> DEFINE a == Home[j]
<1>1. PICK list \in JobRequests(j) :
          /\ Own!HasNext(Own!add_new_owned_job(owned[a], j, a, list)[j])
          /\ owned' = [owned EXCEPT ![a] = Own!get_next_reserve(
                          Own!add_new_owned_job(owned[a], j, a, list), j)]
          /\ net' = net \cup {Msg("RESERVE", j, list[1])}
  BY DEF handle_job_request
<1>2. ~Live(owned, j) /\ j \notin finished
  BY DEF handle_job_request, Asked, Live, Known
<1>3. a \in Node /\ owned[a] \in Table
  BY ClusterAssumption DEF TablesOK
<1>4. /\ DOMAIN owned[a] \subseteq JobId
      /\ owned[a] \in [DOMAIN owned[a] -> Own!OwnedJob]
  BY <1>3, TableFacts
<1>5. /\ list \in Seq(Petition) /\ Len(list) \in 0 .. MAX_JOB_RESOURCES
      /\ \A i \in 1 .. Len(list) : list[i] \in Petitions(j)
  BY RequestFacts
<1>6. Own!Recorded(list) = list
  BY <1>5, ClusterAssumption DEF Own!Recorded
<1> DEFINE job == [owner_socket |-> a, grant_notified |-> FALSE,
                   petitions |-> list, next_reserve_idx |-> 0, granted |-> {}]
           job2 == [owner_socket |-> a, grant_notified |-> FALSE,
                    petitions |-> list, next_reserve_idx |-> 1, granted |-> {}]
           S == DOMAIN owned[a] \cup {j}
           T0 == Own!add_new_owned_job(owned[a], j, a, list)
           T == [k \in S |-> IF k = j THEN job2 ELSE owned[a][k]]
<1>7. T0 = [k \in S |-> IF k = j THEN job ELSE owned[a][k]]
  BY <1>6 DEF Own!add_new_owned_job
<1>7a. Len(list) # 0
  <2>1. T0[j] = job
    BY <1>7
  <2>2. job.next_reserve_idx = 0 /\ job.petitions = list
    OBVIOUS
  <2> HIDE DEF job, T0
  <2> QED
    BY <1>1, <2>1, <2>2 DEF Own!HasNext, T0
<1>7b. Petitions(j) # {}
  <2>1. 1 \in 1 .. Len(list)
    BY <1>5, <1>7a
  <2> QED
    BY <1>5, <2>1
<1>8. Own!get_next_reserve(T0, j) = T
  <2>1. T0[j] = job /\ DOMAIN T0 = S /\ j \in S
        /\ \A k \in S : k # j => T0[k] = owned[a][k]
    BY <1>7
  <2>2. [job EXCEPT !.next_reserve_idx = @ + 1] = job2
    <3> DEFINE y == [job EXCEPT !.next_reserve_idx = @ + 1]
    <3>1. job \in Own!OwnedJob /\ job2 \in Own!OwnedJob
      BY <1>3, <1>5 DEF Own!OwnedJob, Own!Petition, Petition
    <3>2. job.next_reserve_idx = 0 /\ job2.next_reserve_idx = 1
          /\ job.owner_socket = job2.owner_socket
          /\ job.petitions = job2.petitions
          /\ job.granted = job2.granted
      OBVIOUS
    <3>3. job.grant_notified = job2.grant_notified
      BY Zenon
    <3> HIDE DEF job, job2
    <3>4. /\ y \in Own!OwnedJob /\ y.next_reserve_idx = 1
          /\ y.owner_socket = job.owner_socket /\ y.petitions = job.petitions
          /\ y.granted = job.granted /\ y.grant_notified = job.grant_notified
      BY <3>1, <3>2 DEF Own!OwnedJob
    <3> QED
      BY <3>1, <3>2, <3>3, <3>4 DEF Own!OwnedJob
  <2> HIDE DEF T0, job, job2, S
  <2>3. [T0 EXCEPT ![j].next_reserve_idx = @ + 1]
          = [k \in S |-> IF k = j THEN [job EXCEPT !.next_reserve_idx = @ + 1]
                         ELSE owned[a][k]]
    BY <2>1
  <2> QED
    BY <2>2, <2>3 DEF Own!get_next_reserve
<1>9. job2 \in Own!OwnedJob
  BY <1>3, <1>5 DEF Own!OwnedJob, Own!Petition, Petition
<1>9a. job2.petitions = list /\ job2.next_reserve_idx = 1 /\ job2.granted = {}
  OBVIOUS
<1>9b. ~job2.grant_notified
  <2>1. job2.grant_notified = FALSE
    BY Zenon
  <2> QED
    BY <2>1
<1> HIDE DEF job, job2, T0
<1>10. S \in SUBSET JobId /\ T \in [S -> Own!OwnedJob] /\ DOMAIN T = S
  BY <1>4, <1>9
<1>11. T \in Table
  BY <1>10, TableIntro
<1>12. \A k \in DOMAIN T : Home[k] = a
  BY <1>3, <1>10 DEF TablesOK
<1>13. owned' = [owned EXCEPT ![a] = T]
  BY <1>1, <1>8 DEF T0
<1>14. T[j] = job2 /\ \A k \in S : k # j => T[k] = owned[a][k]
  BY <1>10
<1> HIDE DEF T
<1>14a. Quiet(T)
  BY <1>3, <1>7b, <1>10, <1>14 DEF TablesOK, Quiet
<1>15a. Replaces(owned, owned', a, T)
  BY <1>3, <1>11, <1>12, <1>13, <1>14a, UpdateTable
<1>15. /\ TablesOK(owned')
       /\ \A k \in JobId : Home[k] = a =>
             (Known(owned', k) <=> k \in DOMAIN T) /\ Job(owned', k) = T[k]
       /\ \A k \in JobId : Home[k] # a =>
             (Known(owned', k) <=> Known(owned, k)) /\ Job(owned', k) = Job(owned, k)
  BY <1>15a DEF Replaces
<1>16. \A k \in JobId : Live(owned', k) <=> Live(owned, k) \/ k = j
  BY <1>7b, <1>10, <1>15 DEF Live, Known
<1>17. \A k \in JobId \ {j} : Live(owned, k) => Job(owned', k) = Job(owned, k)
  BY <1>10, <1>14, <1>15 DEF Live, Known, Job
<1>18. Job(owned', j) = job2
  BY <1>14, <1>15
<1> QED
  BY <1>1, <1>2, <1>7a, <1>9a, <1>9b, <1>15, <1>16, <1>17, <1>18 DEF Idx

(* handle_granted marks the petition dispatched last, and dispatches the   *)
(* next one unless that was the last.                                      *)
LEMMA GrantedEffect ==
    ASSUME TablesOK(owned), JobsOK(owned, running, finished),
           NEW m \in Message, handle_granted(m)
    PROVE  LET j == m.job
               b == Job(owned, j)
               k == Idx(owned, j)
           IN  /\ Live(owned, j)
               /\ k \notin b.granted
               /\ b.petitions[k].node = m.node
               /\ TablesOK(owned')
               /\ \A x \in JobId : Live(owned', x) <=> Live(owned, x)
               /\ \A x \in JobId \ {j} :
                     Live(owned, x) => Job(owned', x) = Job(owned, x)
               /\ Job(owned', j).petitions = b.petitions
               /\ Job(owned', j).granted = b.granted \cup {k}
               /\ \/ /\ k = Len(b.petitions)
                     /\ Idx(owned', j) = k
                     /\ Job(owned', j).grant_notified
                     /\ running' = running \cup {j}
                     /\ net' = net \ {m}
                  \/ /\ k < Len(b.petitions)
                     /\ Idx(owned', j) = k + 1
                     /\ ~Job(owned', j).grant_notified
                     /\ running' = running
                     /\ net' = (net \ {m}) \cup
                           {Msg("RESERVE", j, b.petitions[k + 1])}
<1> DEFINE j == m.job
           a == Home[j]
           b == Job(owned, j)
           k == Idx(owned, j)
           T1 == Own!mark_petition_as_granted(owned[a], j)
<1>1. j \in JobId
  BY MsgParts
<1>2. a \in Node /\ owned[a] \in Table
  BY <1>1, ClusterAssumption DEF TablesOK
<1>3. /\ DOMAIN owned[a] \subseteq JobId
      /\ owned[a] \in [DOMAIN owned[a] -> Own!OwnedJob]
  BY <1>2, TableFacts
<1>4. /\ j \in DOMAIN owned[a] /\ k \notin b.granted
      /\ b.petitions[k].node = m.node
      /\ owned[a][j].next_reserve_idx # 0
  BY DEF handle_granted, Own!Expected, Job, Idx
<1>4a. Petitions(j) # {}
  BY <1>2, <1>4 DEF TablesOK, Quiet
<1>5. Live(owned, j) /\ b = owned[a][j] /\ b \in Own!OwnedJob
  BY <1>3, <1>4, <1>4a DEF Live, Known, Job
<1>6. JobOK(owned, running, finished, j)
  BY <1>1, <1>5 DEF JobsOK
<1>7. /\ k \in 1 .. Len(b.petitions) /\ k = b.next_reserve_idx
      /\ Len(b.petitions) \in Nat
      /\ b.granted = 1 .. (k - 1) /\ ~b.grant_notified
      /\ b.grant_notified = FALSE
  BY <1>4, <1>5, <1>6 DEF JobOK, Idx, Own!OwnedJob
<1>8. Own!AllGranted(b, b.granted \cup {k}) <=> k = Len(b.petitions)
  <2>1. b.granted \cup {k} = 1 .. k
    BY <1>7
  <2> DEFINE N == Len(b.petitions)
  <2>2. (1 .. N \subseteq 1 .. k) <=> k = N
    <3> HIDE DEF N, k
    <3>1. k \in 1 .. N /\ N \in Nat
      BY <1>7 DEF N
    <3>2. N \in 1 .. N
      BY <3>1
    <3> QED
      BY <3>1, <3>2
  <2> QED
    BY <2>1, <2>2 DEF Own!AllGranted
<1> DEFINE n1 == [b EXCEPT !.granted = b.granted \cup {k},
                           !.grant_notified = (k = Len(b.petitions))]
           n2 == [n1 EXCEPT !.next_reserve_idx = k + 1]
<1>9. /\ n1 \in Own!OwnedJob /\ n1.petitions = b.petitions
      /\ n1.granted = b.granted \cup {k} /\ n1.next_reserve_idx = k
      /\ n1.grant_notified = (k = Len(b.petitions))
  BY <1>5, <1>7 DEF Own!OwnedJob
<1>10. T1 = [owned[a] EXCEPT ![j] = n1]
  <2>1. b.grant_notified \/ Own!AllGranted(b, b.granted \cup {k})
            <=> k = Len(b.petitions)
    BY <1>7, <1>8
  <2>2. (b.grant_notified \/ Own!AllGranted(b, b.granted \cup {k}))
            = (k = Len(b.petitions))
    BY <2>1, <1>5 DEF Own!OwnedJob, Own!AllGranted
  <2>3. T1 = [owned[a] EXCEPT ![j] = [owned[a][j] EXCEPT
               !.granted = owned[a][j].granted
                             \cup {owned[a][j].next_reserve_idx},
               !.grant_notified = @ \/ Own!AllGranted(owned[a][j],
                   owned[a][j].granted \cup {owned[a][j].next_reserve_idx})]]
    BY DEF Own!mark_petition_as_granted
  <2>4. T1 = [owned[a] EXCEPT ![j] = [b EXCEPT !.granted = b.granted \cup {k},
               !.grant_notified = b.grant_notified
                   \/ Own!AllGranted(b, b.granted \cup {k})]]
    BY <1>5, <1>7, <2>3
  <2> QED
    BY <2>2, <2>4
<1>9b. n1.grant_notified <=> k = Len(b.petitions)
  BY <1>9, Zenon
<1> HIDE DEF n1, T1
<1>11. /\ n2 \in Own!OwnedJob /\ n2.petitions = b.petitions
       /\ n2.granted = b.granted \cup {k} /\ n2.next_reserve_idx = k + 1
       /\ n2.grant_notified = (k = Len(b.petitions))
  BY <1>7, <1>9 DEF Own!OwnedJob
<1>11b. n2.grant_notified <=> k = Len(b.petitions)
  BY <1>11, Zenon
<1>12. /\ T1[j] = n1 /\ DOMAIN T1 = DOMAIN owned[a]
       /\ T1 \in [DOMAIN owned[a] -> Own!OwnedJob]
       /\ \A x \in DOMAIN owned[a] : x # j => T1[x] = owned[a][x]
  BY <1>3, <1>4, <1>9, <1>10
<1>13. Own!get_next_reserve(T1, j) = [T1 EXCEPT ![j] = n2]
  BY <1>9, <1>12 DEF Own!get_next_reserve
<1> HIDE DEF n2
<1>14. ASSUME NEW N \in Own!OwnedJob, NEW T, T \in [DOMAIN owned[a] -> Own!OwnedJob],
              T[j] = N, \A x \in DOMAIN owned[a] : x # j => T[x] = owned[a][x],
              owned' = [owned EXCEPT ![a] = T]
       PROVE  /\ TablesOK(owned')
              /\ \A x \in JobId : Live(owned', x) <=> Live(owned, x)
              /\ \A x \in JobId \ {j} :
                    Live(owned, x) => Job(owned', x) = Job(owned, x)
              /\ Job(owned', j) = N
  <2>1. T \in Table /\ DOMAIN T = DOMAIN owned[a]
    BY <1>3, <1>14, TableIntro
  <2>2. \A x \in DOMAIN T : Home[x] = a
    BY <1>2, <2>1 DEF TablesOK
  <2>2a. Quiet(T)
    BY <1>2, <1>4a, <1>14, <2>1 DEF TablesOK, Quiet
  <2>3a. Replaces(owned, owned', a, T)
    BY <1>2, <1>14, <2>1, <2>2, <2>2a, UpdateTable
  <2>3. /\ TablesOK(owned')
        /\ \A x \in JobId : Home[x] = a =>
              (Known(owned', x) <=> x \in DOMAIN T) /\ Job(owned', x) = T[x]
        /\ \A x \in JobId : Home[x] # a =>
              /\ Known(owned', x) <=> Known(owned, x)
              /\ Job(owned', x) = Job(owned, x)
    BY <2>3a DEF Replaces
  <2>4. \A x \in JobId : Live(owned', x) <=> Live(owned, x)
    BY <2>1, <2>3 DEF Live, Known
  <2>5. \A x \in JobId \ {j} : Live(owned, x) => Job(owned', x) = Job(owned, x)
    BY <1>14, <2>1, <2>3 DEF Live, Known, Job
  <2> QED
    BY <1>1, <1>14, <2>3, <2>4, <2>5
<1>15. CASE T1[j].grant_notified
  <2>1. /\ owned' = [owned EXCEPT ![a] = T1]
        /\ running' = running \cup {j} /\ net' = net \ {m}
    BY <1>15 DEF handle_granted, T1
  <2>2. k = Len(b.petitions)
    BY <1>9b, <1>12, <1>15
  <2>3. /\ TablesOK(owned')
        /\ \A x \in JobId : Live(owned', x) <=> Live(owned, x)
        /\ \A x \in JobId \ {j} :
              Live(owned, x) => Job(owned', x) = Job(owned, x)
        /\ Job(owned', j) = n1
    BY <1>9, <1>12, <1>14, <2>1
  <2> QED
    BY <1>4, <1>5, <1>9, <1>12, <1>15, <2>1, <2>2, <2>3 DEF Idx
<1>16. CASE ~T1[j].grant_notified
  <2>1. /\ owned' = [owned EXCEPT ![a] = Own!get_next_reserve(T1, j)]
        /\ running' = running
        /\ net' = (net \ {m}) \cup
              {Msg("RESERVE", j, T1[j].petitions[i]) : i \in NextReserves(T1[j])}
    BY <1>16 DEF handle_granted, T1
  <2>2. k < Len(b.petitions)
    BY <1>7, <1>9b, <1>12, <1>16
  <2>3. DOMAIN b.petitions = 1 .. Len(b.petitions)
    BY <1>5 DEF Own!OwnedJob
  <2>4. NextReserves(T1[j]) = {k + 1}
    BY <1>7, <1>9, <1>12, <2>2, <2>3 DEF NextReserves
  <2>5. net' = (net \ {m}) \cup {Msg("RESERVE", j, b.petitions[k + 1])}
    BY <1>9, <1>12, <2>1, <2>4
  <2> DEFINE T2 == [T1 EXCEPT ![j] = n2]
  <2>6. /\ T2[j] = n2 /\ T2 \in [DOMAIN owned[a] -> Own!OwnedJob]
        /\ \A x \in DOMAIN owned[a] : x # j => T2[x] = owned[a][x]
        /\ owned' = [owned EXCEPT ![a] = T2]
    BY <1>4, <1>11, <1>12, <1>13, <2>1
  <2> HIDE DEF T2
  <2>7. /\ TablesOK(owned')
        /\ \A x \in JobId : Live(owned', x) <=> Live(owned, x)
        /\ \A x \in JobId \ {j} :
              Live(owned, x) => Job(owned', x) = Job(owned, x)
        /\ Job(owned', j) = n2
    BY <1>11, <1>14, <2>6
  <2>8. ~n2.grant_notified
    BY <1>7, <1>11b, <2>2
  <2> QED
    BY <1>4, <1>5, <1>11, <2>1, <2>2, <2>5, <2>7, <2>8 DEF Idx
<1> QED
  BY <1>15, <1>16

(* handle_job_release forgets the job and gives back all it was granted. *)
LEMMA ReleaseEffect ==
    ASSUME TablesOK(owned), JobsOK(owned, running, finished),
           NEW j \in JobId, handle_job_release(j)
    PROVE  /\ Live(owned, j) /\ j \in running
           /\ Job(owned, j).granted = 1 .. Len(Job(owned, j).petitions)
           /\ Idx(owned, j) \in Job(owned, j).granted
           /\ TablesOK(owned')
           /\ \A x \in JobId : Live(owned', x) <=> Live(owned, x) /\ x # j
           /\ \A x \in JobId \ {j} :
                 Live(owned, x) => Job(owned', x) = Job(owned, x)
           /\ net' = net \cup {Msg("RELEASE", j, Job(owned, j).petitions[i]) :
                                  i \in Job(owned, j).granted}
<1> DEFINE a == Home[j]
           b == Job(owned, j)
           T == Own!remove_owned_job(owned[a], {j})
<1>1. j \in running /\ Live(owned, j)
  BY DEF handle_job_release, JobsOK
<1>2. JobOK(owned, running, finished, j)
  BY <1>1 DEF JobsOK
<1>3. /\ Idx(owned, j) \in b.granted /\ Idx(owned, j) = Len(b.petitions)
      /\ b.granted = 1 .. Len(b.petitions)
  BY <1>1, <1>2 DEF JobOK
<1>4. Own!get_granted_resources(b) = b.granted
  BY <1>3 DEF Own!get_granted_resources, Idx
<1>5. /\ owned' = [owned EXCEPT ![a] = T]
      /\ net' = net \cup {Msg("RELEASE", j, b.petitions[i]) : i \in b.granted}
  BY <1>4 DEF handle_job_release, Job
<1>6. a \in Node /\ owned[a] \in Table
  BY ClusterAssumption DEF TablesOK
<1>7. /\ DOMAIN owned[a] \subseteq JobId
      /\ owned[a] \in [DOMAIN owned[a] -> Own!OwnedJob]
  BY <1>6, TableFacts
<1>8. /\ DOMAIN T = DOMAIN owned[a] \ {j}
      /\ T \in [DOMAIN owned[a] \ {j} -> Own!OwnedJob]
      /\ \A x \in DOMAIN owned[a] : x # j => T[x] = owned[a][x]
  BY <1>7 DEF Own!remove_owned_job
<1> HIDE DEF T
<1>9. T \in Table
  BY <1>7, <1>8, TableIntro
<1>10. \A x \in DOMAIN T : Home[x] = a
  BY <1>6, <1>8 DEF TablesOK
<1>10a. Quiet(T)
  BY <1>6, <1>8 DEF TablesOK, Quiet
<1>11a. Replaces(owned, owned', a, T)
  BY <1>5, <1>6, <1>9, <1>10, <1>10a, UpdateTable
<1>11. /\ TablesOK(owned')
       /\ \A x \in JobId : Home[x] = a =>
             (Known(owned', x) <=> x \in DOMAIN T) /\ Job(owned', x) = T[x]
       /\ \A x \in JobId : Home[x] # a =>
             /\ Known(owned', x) <=> Known(owned, x)
             /\ Job(owned', x) = Job(owned, x)
  BY <1>11a DEF Replaces
<1>12. \A x \in JobId : Live(owned', x) <=> Live(owned, x) /\ x # j
  BY <1>8, <1>11 DEF Live, Known
<1>13. \A x \in JobId \ {j} : Live(owned, x) => Job(owned', x) = Job(owned, x)
  BY <1>8, <1>11 DEF Live, Known, Job
<1> QED
  BY <1>1, <1>3, <1>5, <1>11, <1>12, <1>13

----------------------------------------------------------------------------
(* The steps of the clients preserve the invariant. *)

(* What a job waits for and has been granted depends on its record only. *)
LEMMA SameRecord ==
    ASSUME NEW o, NEW o2, NEW j, Live(o2, j) <=> Live(o, j),
           Live(o, j) => Job(o2, j) = Job(o, j)
    PROVE  /\ \A n, t : PendingAt(o2, j, n, t) <=> PendingAt(o, j, n, t)
           /\ \A n, t : GrantedAt(o2, j, n, t) <=> GrantedAt(o, j, n, t)
           /\ \A run, fin : Live(o, j) =>
                 (JobOK(o2, run, fin, j) <=> JobOK(o, run, fin, j))
<1>1. ASSUME NEW n, NEW t
      PROVE  /\ PendingAt(o2, j, n, t) <=> PendingAt(o, j, n, t)
             /\ GrantedAt(o2, j, n, t) <=> GrantedAt(o, j, n, t)
  BY DEF PendingAt, GrantedAt, Idx
<1>2. ASSUME NEW run, NEW fin, Live(o, j)
      PROVE  JobOK(o2, run, fin, j) <=> JobOK(o, run, fin, j)
  BY <1>2 DEF JobOK, Idx
<1> QED
  BY <1>1, <1>2

(* A petition is the place of its parts. *)
LEMMA PetitionPlace ==
    ASSUME NEW p \in Petition
    PROVE  /\ p.node \in Node /\ p.type \in resource_t
           /\ p = Place(p.node, p.type)
BY DEF Petition, Place

(* The messages of a set with one more, or one less. *)
LEMMA SentMore ==
    ASSUME NEW w, NEW kind, NEW j, NEW p \in Petition
    PROVE  \A k, x, n, t : Sent(w \cup {Msg(kind, j, p)}, k, x, n, t) <=>
              \/ Sent(w, k, x, n, t)
              \/ k = kind /\ x = j /\ p = Place(n, t)
<1>1. ASSUME NEW k, NEW x, NEW n, NEW t
      PROVE  Msg(k, x, Place(n, t)) = Msg(kind, j, p)
                <=> k = kind /\ x = j /\ p = Place(n, t)
  BY PetitionPlace, MsgEqual DEF Place
<1> QED
  BY <1>1 DEF Sent

LEMMA SentLess ==
    ASSUME NEW w, NEW m \in Message
    PROVE  \A k, x, n, t : Sent(w \ {m}, k, x, n, t) <=>
              /\ Sent(w, k, x, n, t)
              /\ ~(k = m.kind /\ x = m.job /\ n = m.node /\ t = m.type)
<1>1. ASSUME NEW k, NEW x, NEW n, NEW t
      PROVE  Msg(k, x, Place(n, t)) = m
                <=> k = m.kind /\ x = m.job /\ n = m.node /\ t = m.type
  BY MsgParts, MsgEqual
<1> QED
  BY <1>1 DEF Sent

(* handle_job_request *)
LEMMA RequestPreserves ==
    ASSUME IInv, NEW j \in JobId, handle_job_request(j)
    PROVE  IInv'
<1>0. /\ TablesOK(owned) /\ JobsOK(owned, running, finished)
      /\ InventoriesOK(res) /\ TokensOK(owned, res, net, finished)
      /\ waking \subseteq Node /\ net \subseteq Message
      /\ running \subseteq JobId /\ finished \subseteq JobId
  BY DEF IInv, TypeOK
<1>1. UNCHANGED <<res, waking, running, finished>>
  BY DEF handle_job_request
<1>2. /\ ~Live(owned, j) /\ j \notin finished
      /\ TablesOK(owned')
      /\ \A k \in JobId : Live(owned', k) <=> Live(owned, k) \/ k = j
      /\ \A k \in JobId \ {j} :
            Live(owned, k) => Job(owned', k) = Job(owned, k)
  BY <1>0, RequestEffect
<1>3. PICK list \in JobRequests(j) :
          /\ Len(list) # 0
          /\ Job(owned', j).petitions = list /\ Idx(owned', j) = 1
          /\ Job(owned', j).granted = {} /\ ~Job(owned', j).grant_notified
          /\ net' = net \cup {Msg("RESERVE", j, list[1])}
  BY <1>0, RequestEffect
<1>6. list \in Seq(Petition) /\ 1 \in 1 .. Len(list) /\ list[1] \in Petition
  BY <1>3, RequestFacts
<1>7. JobOK(owned', running', finished', j)
  BY <1>0, <1>1, <1>2, <1>3, <1>6 DEF JobOK, JobsOK
<1>8. ASSUME NEW x \in JobId \ {j}
      PROVE  /\ \A n, t : PendingAt(owned', x, n, t) <=> PendingAt(owned, x, n, t)
             /\ \A n, t : GrantedAt(owned', x, n, t) <=> GrantedAt(owned, x, n, t)
             /\ Live(owned, x) => JobOK(owned', running, finished, x)
  BY <1>0, <1>2, SameRecord DEF JobsOK
<1>9. JobsOK(owned', running', finished')
  BY <1>0, <1>1, <1>2, <1>7, <1>8 DEF JobsOK
<1>10. \A k, x, n, t : Sent(net', k, x, n, t) <=>
          Sent(net, k, x, n, t) \/ (k = "RESERVE" /\ x = j /\ list[1] = Place(n, t))
  BY <1>3, <1>6, SentMore
<1>11. \A n, t : /\ PendingAt(owned', j, n, t) <=> list[1] = Place(n, t)
                 /\ ~GrantedAt(owned', j, n, t)
                 /\ ~PendingAt(owned, j, n, t)
                 /\ ~GrantedAt(owned, j, n, t)
  BY <1>2, <1>3 DEF PendingAt, GrantedAt
<1>12. ASSUME NEW x \in JobId, NEW n \in Node, NEW t \in resource_t
       PROVE  TokenOK(owned', res, net', finished, x, n, t)
  <2>1. TokenOK(owned, res, net, finished, x, n, t)
    BY <1>0 DEF TokensOK
  <2>2. \A u \in resource_t : TokenOK(owned, res, net, finished, x, n, u)
    BY <1>0 DEF TokensOK
  <2>3. CASE x = j
    <3>1. \A u \in resource_t : ~Sent(net, "RELEASE", j, n, u)
      BY <1>2, <2>2, <2>3 DEF TokenOK
    <3>2. ~Queued(res, j, n, t) /\ ~Sent(net, "GRANTED", j, n, t)
      BY <1>11, <2>1, <2>3 DEF TokenOK
    <3>3. ~Holds(res, j, n, t)
      BY <1>11, <2>1, <2>3, <3>1, <3>2 DEF TokenOK
    <3>4. /\ Sent(net', "RESERVE", j, n, t) => PendingAt(owned', j, n, t)
          /\ ~Sent(net', "GRANTED", j, n, t)
          /\ ~Sent(net', "RELEASE", j, n, t)
      BY <1>10, <1>11, <2>1, <2>3, <3>1, <3>2 DEF TokenOK
    <3> QED
      BY <1>11, <2>3, <3>2, <3>3, <3>4 DEF TokenOK
  <2>4. CASE x # j
    <3>1. /\ PendingAt(owned', x, n, t) <=> PendingAt(owned, x, n, t)
          /\ GrantedAt(owned', x, n, t) <=> GrantedAt(owned, x, n, t)
      BY <1>8, <2>4
    <3>2. \A k, u : Sent(net', k, x, n, u) <=> Sent(net, k, x, n, u)
      BY <1>10, <2>4
    <3> QED
      BY <2>1, <3>1, <3>2 DEF TokenOK
  <2> QED
    BY <2>3, <2>4
<1>13. TokensOK(owned', res', net', finished')
  BY <1>1, <1>12 DEF TokensOK
<1>14. net' \subseteq Message
  <2>1. Msg("RESERVE", j, list[1]) \in Message
    BY <1>6 DEF Msg, Message, Petition
  <2> QED
    BY <1>0, <1>3, <2>1
<1> QED
  BY <1>0, <1>1, <1>2, <1>9, <1>13, <1>14, NextFromParts

(* handle_job_request of a job that asks for nothing: no job that asks for *)
(* something is touched.                                                   *)
LEMMA EmptyRequestPreserves ==
    ASSUME IInv, NEW j \in JobId, handle_empty_job_request(j)
    PROVE  IInv'
<1> DEFINE a == Home[j]
<1>0. /\ TablesOK(owned) /\ JobsOK(owned, running, finished)
      /\ InventoriesOK(res) /\ TokensOK(owned, res, net, finished)
      /\ waking \subseteq Node /\ net \subseteq Message
      /\ running \subseteq JobId /\ finished \subseteq JobId
  BY DEF IInv, TypeOK
<1>1. UNCHANGED <<res, waking, net, running, finished>>
  BY DEF handle_empty_job_request
<1>2. PICK list \in JobRequests(j) :
          /\ ~Own!HasNext(Own!add_new_owned_job(owned[a], j, a, list)[j])
          /\ owned' = [owned EXCEPT
                         ![a] = Own!add_new_owned_job(owned[a], j, a, list)]
  BY DEF handle_empty_job_request
<1>3. /\ a \in Node /\ owned[a] \in Table /\ Quiet(owned[a])
      /\ \A k \in DOMAIN owned[a] : Home[k] = a
  BY <1>0, ClusterAssumption DEF TablesOK
<1>4. /\ DOMAIN owned[a] \subseteq JobId
      /\ owned[a] \in [DOMAIN owned[a] -> Own!OwnedJob]
  BY <1>3, TableFacts
<1>5. /\ list \in Seq(Petition) /\ Len(list) \in 0 .. MAX_JOB_RESOURCES
      /\ \A p \in Petitions(j) : \E i \in 1 .. Len(list) : list[i] = p
  BY RequestFacts
<1>6. Own!Recorded(list) = list
  BY <1>5, ClusterAssumption DEF Own!Recorded
<1> DEFINE job == [owner_socket |-> a, grant_notified |-> FALSE,
                   petitions |-> list, next_reserve_idx |-> 0, granted |-> {}]
           S == DOMAIN owned[a] \cup {j}
           T == Own!add_new_owned_job(owned[a], j, a, list)
<1>7. T = [k \in S |-> IF k = j THEN job ELSE owned[a][k]]
  BY <1>6 DEF Own!add_new_owned_job
<1>8. job \in Own!OwnedJob
  BY <1>3, <1>5 DEF Own!OwnedJob, Own!Petition, Petition
<1>9. job.next_reserve_idx = 0 /\ job.petitions = list
  OBVIOUS
<1> HIDE DEF job, T
<1>10. /\ S \in SUBSET JobId /\ T \in [S -> Own!OwnedJob] /\ DOMAIN T = S
       /\ T[j] = job /\ \A k \in S : k # j => T[k] = owned[a][k]
  BY <1>4, <1>7, <1>8
<1>11. Petitions(j) = {}
  <2>1. ~(0 < Len(list))
    BY <1>2, <1>9, <1>10 DEF Own!HasNext, T
  <2>2. 1 .. Len(list) = {}
    BY <1>5, <2>1
  <2> QED
    BY <1>5, <2>2
<1>12. /\ T \in Table /\ \A k \in DOMAIN T : Home[k] = a
  BY <1>3, <1>10, TableIntro
<1>13. Quiet(T)
  BY <1>3, <1>9, <1>10 DEF Quiet
<1>14. Replaces(owned, owned', a, T)
  BY <1>0, <1>2, <1>3, <1>12, <1>13, UpdateTable DEF T
<1>15. TablesOK(owned')
  BY <1>14 DEF Replaces
<1>16. ASSUME NEW x \in JobId
       PROVE  /\ Live(owned', x) <=> Live(owned, x)
              /\ Live(owned, x) => Job(owned', x) = Job(owned, x)
  <2>1. CASE Home[x] = a
    <3>1. (Known(owned', x) <=> x \in DOMAIN T) /\ Job(owned', x) = T[x]
      BY <1>14, <2>1 DEF Replaces
    <3> QED
      BY <1>10, <1>11, <2>1, <3>1 DEF Live, Known, Job
  <2>2. CASE Home[x] # a
    BY <1>14, <2>2 DEF Replaces, Live
  <2> QED
    BY <2>1, <2>2
<1>17. ASSUME NEW x \in JobId
       PROVE  /\ \A n, t : PendingAt(owned', x, n, t) <=> PendingAt(owned, x, n, t)
              /\ \A n, t : GrantedAt(owned', x, n, t) <=> GrantedAt(owned, x, n, t)
              /\ Live(owned, x) => JobOK(owned', running, finished, x)
  BY <1>0, <1>16, SameRecord DEF JobsOK
<1>18. JobsOK(owned', running', finished')
  BY <1>0, <1>1, <1>16, <1>17 DEF JobsOK
<1>19. TokensOK(owned', res', net', finished')
  <2> SUFFICES ASSUME NEW x \in JobId, NEW n \in Node, NEW t \in resource_t
               PROVE  TokenOK(owned', res, net, finished, x, n, t)
    BY <1>1 DEF TokensOK
  <2>1. TokenOK(owned, res, net, finished, x, n, t)
    BY <1>0 DEF TokensOK
  <2> QED
    BY <1>17, <2>1 DEF TokenOK
<1> QED
  BY <1>0, <1>1, <1>15, <1>18, <1>19, NextFromParts

(* handle_granted *)
LEMMA GrantedPreserves ==
    ASSUME IInv, NEW m \in net, handle_granted(m)
    PROVE  IInv'
<1> DEFINE j == m.job
           b == Job(owned, j)
           k == Idx(owned, j)
           P == Place(m.node, m.type)
<1>0. /\ TablesOK(owned) /\ JobsOK(owned, running, finished)
      /\ InventoriesOK(res) /\ TokensOK(owned, res, net, finished)
      /\ waking \subseteq Node /\ net \subseteq Message
      /\ running \subseteq JobId /\ finished \subseteq JobId
  BY DEF IInv, TypeOK
<1>1. UNCHANGED <<res, waking, finished>> /\ m.kind = "GRANTED"
  BY DEF handle_granted
<1>2. /\ m \in Message /\ j \in JobId /\ m.node \in Node
      /\ m.type \in resource_t /\ Sent(net, "GRANTED", j, m.node, m.type)
  BY <1>0, <1>1, MsgParts DEF Sent
<1>3. /\ Live(owned, j) /\ k \notin b.granted
      /\ TablesOK(owned')
      /\ \A x \in JobId : Live(owned', x) <=> Live(owned, x)
      /\ \A x \in JobId \ {j} :
            Live(owned, x) => Job(owned', x) = Job(owned, x)
      /\ Job(owned', j).petitions = b.petitions
      /\ Job(owned', j).granted = b.granted \cup {k}
      /\ \/ /\ k = Len(b.petitions)
            /\ Idx(owned', j) = k
            /\ Job(owned', j).grant_notified
            /\ running' = running \cup {j}
            /\ net' = net \ {m}
         \/ /\ k < Len(b.petitions)
            /\ Idx(owned', j) = k + 1
            /\ ~Job(owned', j).grant_notified
            /\ running' = running
            /\ net' = (net \ {m}) \cup
                  {Msg("RESERVE", j, b.petitions[k + 1])}
  BY <1>0, <1>2, GrantedEffect
<1>4. JobOK(owned, running, finished, j)
  BY <1>0, <1>2, <1>3 DEF JobsOK
<1>5. /\ b.petitions \in JobRequests(j) /\ k \in 1 .. Len(b.petitions)
      /\ b.granted = 1 .. (k - 1) /\ j \notin running /\ j \notin finished
  BY <1>3, <1>4 DEF JobOK
<1>6. /\ b.petitions \in Seq(Petition) /\ Len(b.petitions) \in Nat
      /\ \A i, l \in 1 .. Len(b.petitions) :
            b.petitions[i] = b.petitions[l] => i = l
  BY <1>2, <1>5, RequestFacts
<1>7. TokenOK(owned, res, net, finished, j, m.node, m.type)
  BY <1>0, <1>2 DEF TokensOK
<1>8. /\ b.petitions[k] = P /\ ~Queued(res, j, m.node, m.type)
      /\ Holds(res, j, m.node, m.type)
      /\ ~Sent(net, "RESERVE", j, m.node, m.type)
  BY <1>2, <1>7 DEF TokenOK, PendingAt
<1> HIDE DEF b, k
<1>9. b.granted \cup {k} = 1 .. k
  BY <1>5
<1>10. JobOK(owned', running', finished', j)
  BY <1>1, <1>3, <1>5, <1>6, <1>9 DEF JobOK
<1>11. ASSUME NEW x \in JobId \ {j}
       PROVE  /\ \A n, t : PendingAt(owned', x, n, t) <=> PendingAt(owned, x, n, t)
              /\ \A n, t : GrantedAt(owned', x, n, t) <=> GrantedAt(owned, x, n, t)
              /\ Live(owned, x) => JobOK(owned', running', finished', x)
  <2>1. Live(owned, x) => JobOK(owned, running', finished', x)
    BY <1>0, <1>1, <1>3 DEF JobsOK, JobOK
  <2> QED
    BY <1>3, <2>1, SameRecord
<1>12. JobsOK(owned', running', finished')
  BY <1>0, <1>2, <1>3, <1>10, <1>11 DEF JobsOK
(* The places of j afterwards: the answered one is granted, the next one,  *)
(* if any, is pending.                                                     *)
<1> DEFINE Next1(n, t) == k < Len(b.petitions) /\ b.petitions[k + 1] = Place(n, t)
<1>13. \A n, t : PendingAt(owned', j, n, t) <=> Next1(n, t)
  <2>1. Live(owned', j) /\ Job(owned', j).granted = 1 .. k
        /\ Job(owned', j).petitions = b.petitions
    BY <1>2, <1>3, <1>9
  <2>2. CASE k = Len(b.petitions)
    <3>1. Idx(owned', j) = k /\ k \in 1 .. k /\ ~(k < Len(b.petitions))
      BY <1>3, <1>5, <1>6, <2>2
    <3> QED
      BY <2>1, <3>1 DEF PendingAt
  <2>3. CASE k < Len(b.petitions)
    <3>1. Idx(owned', j) = k + 1 /\ k + 1 \notin 1 .. k
      BY <1>3, <1>5, <1>6, <2>3
    <3> QED
      BY <2>1, <2>3, <3>1 DEF PendingAt
  <2> QED
    BY <1>3, <2>2, <2>3
<1>14. \A n, t : GrantedAt(owned', j, n, t) <=>
                    GrantedAt(owned, j, n, t) \/ P = Place(n, t)
  BY <1>2, <1>3, <1>8 DEF GrantedAt, b
<1>15. \A n, t : PendingAt(owned, j, n, t) <=> P = Place(n, t)
  BY <1>3, <1>8 DEF PendingAt, b, k
<1>16. \A n, t : Next1(n, t) => ~GrantedAt(owned, j, n, t) /\ P # Place(n, t)
  <2> SUFFICES ASSUME NEW n, NEW t, Next1(n, t)
               PROVE  ~GrantedAt(owned, j, n, t) /\ P # Place(n, t)
    OBVIOUS
  <2>1. k + 1 \in 1 .. Len(b.petitions) /\ k + 1 \notin 1 .. k
    BY <1>5, <1>6
  <2>2. \A i \in 1 .. k : i \in 1 .. Len(b.petitions) /\ b.petitions[i] # Place(n, t)
    BY <1>5, <1>6, <2>1
  <2>3. P # Place(n, t)
    BY <1>5, <1>8, <2>2
  <2>4. \A i \in b.granted : i \in 1 .. k
    BY <1>5
  <2> QED
    BY <2>2, <2>3, <2>4 DEF GrantedAt, b
<1>17. \A c, x, n, t : Sent(net', c, x, n, t) <=>
          \/ /\ Sent(net, c, x, n, t)
             /\ ~(c = "GRANTED" /\ x = j /\ n = m.node /\ t = m.type)
          \/ c = "RESERVE" /\ x = j /\ Next1(n, t)
  <2>1. \A c, x, n, t : Sent(net \ {m}, c, x, n, t) <=>
           /\ Sent(net, c, x, n, t)
           /\ ~(c = "GRANTED" /\ x = j /\ n = m.node /\ t = m.type)
    BY <1>1, <1>2, SentLess
  <2>2. CASE k = Len(b.petitions)
    <3>1. net' = net \ {m}
      BY <1>3, <1>5, <1>6, <2>2
    <3>2. \A n, t : ~Next1(n, t)
      BY <1>5, <1>6, <2>2
    <3> HIDE DEF Next1
    <3> QED
      BY <2>1, <3>1, <3>2
  <2>3. CASE k < Len(b.petitions)
    <3>1. net' = (net \ {m}) \cup {Msg("RESERVE", j, b.petitions[k + 1])}
      BY <1>3, <1>5, <1>6, <2>3
    <3>2. b.petitions[k + 1] \in Petition
      BY <1>5, <1>6, <2>3
    <3>3. \A c, x, n, t : Sent(net', c, x, n, t) <=>
             \/ Sent(net \ {m}, c, x, n, t)
             \/ c = "RESERVE" /\ x = j /\ b.petitions[k + 1] = Place(n, t)
      BY <3>1, <3>2, SentMore
    <3> QED
      BY <2>1, <2>3, <3>3
  <2> QED
    BY <1>5, <1>6, <2>2, <2>3
<1> HIDE DEF Next1
<1>18. ASSUME NEW x \in JobId, NEW n \in Node, NEW t \in resource_t
       PROVE  TokenOK(owned', res, net', finished, x, n, t)
  <2>1. \A u \in resource_t : TokenOK(owned, res, net, finished, x, n, u)
    BY <1>0 DEF TokensOK
  <2>2. TokenOK(owned, res, net, finished, x, n, t)
    BY <2>1
  <2>3. CASE x # j
    <3>1. /\ PendingAt(owned', x, n, t) <=> PendingAt(owned, x, n, t)
          /\ GrantedAt(owned', x, n, t) <=> GrantedAt(owned, x, n, t)
      BY <1>11, <2>3
    <3>2. \A c, u : Sent(net', c, x, n, u) <=> Sent(net, c, x, n, u)
      BY <1>17, <2>3
    <3> QED
      BY <2>2, <3>1, <3>2 DEF TokenOK
  <2>4. CASE x = j
    <3>1. \A u \in resource_t : ~Sent(net, "RELEASE", j, n, u)
      BY <1>5, <2>1, <2>4 DEF TokenOK
    <3>2. CASE n = m.node /\ t = m.type
      <4>1. /\ GrantedAt(owned', j, n, t) /\ ~Next1(n, t)
            /\ Holds(res, j, n, t) /\ ~Queued(res, j, n, t)
        BY <1>8, <1>14, <1>16, <3>2
      <4>2. /\ ~Sent(net', "RESERVE", j, n, t)
            /\ ~Sent(net', "GRANTED", j, n, t)
            /\ ~Sent(net', "RELEASE", j, n, t)
        BY <1>8, <1>17, <3>1, <3>2, <4>1
      <4> QED
        BY <2>4, <4>1, <4>2 DEF TokenOK
    <3>3. CASE ~(n = m.node /\ t = m.type)
      <4>1. P # Place(n, t)
        BY <3>3 DEF Place
      <4>2. /\ ~PendingAt(owned, j, n, t)
            /\ GrantedAt(owned', j, n, t) <=> GrantedAt(owned, j, n, t)
        BY <1>14, <1>15, <4>1
      <4>3. /\ ~Sent(net, "RESERVE", j, n, t) /\ ~Sent(net, "GRANTED", j, n, t)
            /\ ~Queued(res, j, n, t)
        BY <2>2, <2>4, <4>2 DEF TokenOK
      <4>4. Holds(res, j, n, t) <=> GrantedAt(owned, j, n, t)
        BY <2>2, <2>4, <3>1, <4>3 DEF TokenOK
      <4>5. /\ Sent(net', "RESERVE", j, n, t) => Next1(n, t)
            /\ ~Sent(net', "GRANTED", j, n, t)
            /\ ~Sent(net', "RELEASE", j, n, t)
        BY <1>17, <3>1, <4>3
      <4>6. Next1(n, t) => PendingAt(owned', j, n, t) /\ ~Holds(res, j, n, t)
        BY <1>13, <1>16, <4>4
      <4> QED
        BY <2>4, <4>2, <4>3, <4>4, <4>5, <4>6 DEF TokenOK
    <3> QED
      BY <3>2, <3>3
  <2> QED
    BY <2>3, <2>4
<1>19. TokensOK(owned', res', net', finished')
  BY <1>1, <1>18 DEF TokensOK
<1>20. net' \subseteq Message
  <2>1. k < Len(b.petitions) => Msg("RESERVE", j, b.petitions[k + 1]) \in Message
    <3> SUFFICES ASSUME k < Len(b.petitions)
                 PROVE  Msg("RESERVE", j, b.petitions[k + 1]) \in Message
      OBVIOUS
    <3>1. b.petitions[k + 1] \in Petition
      BY <1>5, <1>6
    <3> QED
      BY <1>2, <3>1 DEF Msg, Message, Petition
  <2> QED
    BY <1>0, <1>3, <2>1
<1>21. running' \subseteq JobId
  BY <1>0, <1>2, <1>3
<1> QED
  BY <1>0, <1>1, <1>3, <1>12, <1>19, <1>20, <1>21, NextFromParts

(* handle_job_release *)
LEMMA ReleasePreserves ==
    ASSUME IInv, NEW j \in JobId, handle_job_release(j)
    PROVE  IInv'
<1> DEFINE b == Job(owned, j)
<1>0. /\ TablesOK(owned) /\ JobsOK(owned, running, finished)
      /\ InventoriesOK(res) /\ TokensOK(owned, res, net, finished)
      /\ waking \subseteq Node /\ net \subseteq Message
      /\ running \subseteq JobId /\ finished \subseteq JobId
  BY DEF IInv, TypeOK
<1>1. /\ UNCHANGED <<res, waking>>
      /\ running' = running \ {j} /\ finished' = finished \cup {j}
  BY DEF handle_job_release
<1>2. /\ Live(owned, j) /\ j \in running
      /\ b.granted = 1 .. Len(b.petitions)
      /\ Idx(owned, j) \in b.granted
      /\ TablesOK(owned')
      /\ \A x \in JobId : Live(owned', x) <=> Live(owned, x) /\ x # j
      /\ \A x \in JobId \ {j} :
            Live(owned, x) => Job(owned', x) = Job(owned, x)
      /\ net' = net \cup {Msg("RELEASE", j, b.petitions[i]) : i \in b.granted}
  BY <1>0, ReleaseEffect
<1>3. b.petitions \in JobRequests(j)
  BY <1>0, <1>2 DEF JobsOK, JobOK
<1>4. b.petitions \in Seq(Petition) /\ \A i \in b.granted : b.petitions[i] \in Petition
  BY <1>2, <1>3, RequestFacts
<1> HIDE DEF b
<1>5. ASSUME NEW x \in JobId \ {j}
      PROVE  /\ \A n, t : PendingAt(owned', x, n, t) <=> PendingAt(owned, x, n, t)
             /\ \A n, t : GrantedAt(owned', x, n, t) <=> GrantedAt(owned, x, n, t)
             /\ Live(owned, x) => JobOK(owned', running', finished', x)
  <2>1. Live(owned, x) => JobOK(owned, running', finished', x)
    BY <1>0, <1>1 DEF JobsOK, JobOK
  <2> QED
    BY <1>2, <2>1, SameRecord
<1>6. JobsOK(owned', running', finished')
  BY <1>0, <1>1, <1>2, <1>5 DEF JobsOK
<1>7. \A c, x, n, t : Sent(net', c, x, n, t) <=>
         \/ Sent(net, c, x, n, t)
         \/ c = "RELEASE" /\ x = j /\ GrantedAt(owned, j, n, t)
  <2> SUFFICES ASSUME NEW c, NEW x, NEW n, NEW t
               PROVE  (\E i \in b.granted : Msg(c, x, Place(n, t))
                          = Msg("RELEASE", j, b.petitions[i])) <=>
                      c = "RELEASE" /\ x = j /\ GrantedAt(owned, j, n, t)
    BY <1>2 DEF Sent
  <2>1. ASSUME NEW i \in b.granted
        PROVE  Msg(c, x, Place(n, t)) = Msg("RELEASE", j, b.petitions[i])
                  <=> c = "RELEASE" /\ x = j /\ b.petitions[i] = Place(n, t)
    BY <1>4, PetitionPlace, MsgEqual DEF Place
  <2> QED
    BY <1>2, <2>1 DEF GrantedAt, b
<1>8. \A n, t : /\ ~PendingAt(owned', j, n, t) /\ ~GrantedAt(owned', j, n, t)
                /\ ~PendingAt(owned, j, n, t)
  BY <1>2 DEF PendingAt, GrantedAt, b
<1>9. ASSUME NEW x \in JobId, NEW n \in Node, NEW t \in resource_t
      PROVE  TokenOK(owned', res, net', finished', x, n, t)
  <2>1. TokenOK(owned, res, net, finished, x, n, t)
    BY <1>0 DEF TokensOK
  <2>2. CASE x # j
    <3>1. /\ PendingAt(owned', x, n, t) <=> PendingAt(owned, x, n, t)
          /\ GrantedAt(owned', x, n, t) <=> GrantedAt(owned, x, n, t)
      BY <1>5, <2>2
    <3>2. \A c, u : Sent(net', c, x, n, u) <=> Sent(net, c, x, n, u)
      BY <1>7, <2>2
    <3>3. x \in finished' <=> x \in finished
      BY <1>1, <2>2
    <3> QED
      BY <2>1, <3>1, <3>2, <3>3 DEF TokenOK
  <2>3. CASE x = j
    <3>1. /\ ~Sent(net, "RESERVE", j, n, t) /\ ~Sent(net, "GRANTED", j, n, t)
          /\ ~Queued(res, j, n, t)
      BY <1>8, <2>1, <2>3 DEF TokenOK
    <3>2. /\ ~Sent(net', "RESERVE", j, n, t) /\ ~Sent(net', "GRANTED", j, n, t)
      BY <1>7, <3>1
    <3>3. Holds(res, j, n, t) => \E u \in resource_t : Sent(net', "RELEASE", j, n, u)
      BY <1>7, <2>1, <2>3, <3>1 DEF TokenOK
    <3>4. j \in finished'
      BY <1>1
    <3> QED
      BY <1>8, <2>3, <3>1, <3>2, <3>3, <3>4 DEF TokenOK
  <2> QED
    BY <2>2, <2>3
<1>10. TokensOK(owned', res', net', finished')
  BY <1>1, <1>9 DEF TokensOK
<1>11. net' \subseteq Message
  <2>1. \A i \in b.granted : Msg("RELEASE", j, b.petitions[i]) \in Message
    BY <1>4 DEF Msg, Message, Petition
  <2> QED
    BY <1>0, <1>2, <2>1
<1> QED
  BY <1>0, <1>1, <1>2, <1>6, <1>10, <1>11, NextFromParts

----------------------------------------------------------------------------
(* The steps of the servers preserve the invariant. *)

(* The entry of a petition is a request the machine could serve, and jobs  *)
(* and types tell the entries of a server apart.                           *)
LEMMA EntryFacts ==
    ASSUME NEW j \in JobId, NEW n \in Node, NEW t \in resource_t
    PROVE  /\ Entry(j, n, t) \in Srv!Servable
           /\ Entry(j, n, t).resource_type = t
           /\ Entry(j, n, t).job_id = j
           /\ Entry(j, n, t).socket = Home[j]
           /\ Entry(j, n, t).resource_quantity = Need[j][n][t]
           /\ \A x \in JobId, u \in resource_t :
                 /\ Srv!SameKey(Entry(x, n, u), Entry(j, n, t)) <=> x = j /\ u = t
                 /\ Entry(x, n, u) = Entry(j, n, t) <=> x = j /\ u = t
<1>1. /\ Home[j] \in Node /\ Need[j][n][t] \in Nat /\ Need[j][n][t] <= Total[t]
  BY ClusterAssumption
<1>2. Entry(j, n, t) \in Srv!Servable
  BY <1>1 DEF Entry, Srv!Servable, Srv!Request
<1>3. ASSUME NEW x \in JobId, NEW u \in resource_t
      PROVE  /\ Srv!SameKey(Entry(x, n, u), Entry(j, n, t)) <=> x = j /\ u = t
             /\ Entry(x, n, u) = Entry(j, n, t) <=> x = j /\ u = t
  BY DEF Entry, Srv!SameKey
<1> QED
  BY <1>2, <1>3 DEF Entry

(* The inventories r2 are those of r with R for the inventory of n. *)
Swaps(r, r2, n, R) ==
    /\ r2 \in [Node -> Srv!Inventory]
    /\ r2[n] = R
    /\ \A x \in Node : x # n => r2[x] = r[x]

LEMMA UpdateInventory ==
    ASSUME NEW r, InventoriesOK(r), NEW n \in Node, NEW R \in Srv!Inventory
    PROVE  Swaps(r, [r EXCEPT ![n] = R], n, R)
BY DEF InventoriesOK, Swaps

(* The other servers do not notice. *)
LEMMA Elsewhere ==
    ASSUME NEW r, NEW r2, NEW n \in Node, NEW R, InventoriesOK(r),
           Swaps(r, r2, n, R), NEW x \in Node, x # n
    PROVE  /\ InventoryOK(r2, x)
           /\ \A j, t : Queued(r2, j, x, t) <=> Queued(r, j, x, t)
           /\ \A j, t : Holds(r2, j, x, t) <=> Holds(r, j, x, t)
<1>1. r2[x] = r[x]
  BY DEF Swaps
<1>2. InventoryOK(r2, x)
  BY <1>1 DEF InventoriesOK, InventoryOK
<1> QED
  BY <1>1, <1>2 DEF Queued, Holds

(* At server n, j has come to hold its petition of type t. *)
Gains(r, r2, n, j, t) ==
    /\ \A e \in r2[n].active :
          \E x \in JobId, u \in resource_t : e = Entry(x, n, u)
    /\ \A x \in JobId, u \in resource_t :
          Holds(r2, x, n, u) <=> Holds(r, x, n, u) \/ (x = j /\ u = t)

LEMMA InsertGains ==
    ASSUME NEW r, NEW r2, NEW n \in Node, NEW R, InventoriesOK(r),
           Swaps(r, r2, n, R), NEW j \in JobId, NEW t \in resource_t,
           R.active = Srv!tablahash_insertar(r[n].active, Entry(j, n, t))
    PROVE  Gains(r, r2, n, j, t)
<1>1. \A e \in r[n].active : \E x \in JobId, u \in resource_t : e = Entry(x, n, u)
  BY DEF InventoriesOK, InventoryOK
<1>2. \A x \in JobId, u \in resource_t :
         /\ Srv!SameKey(Entry(x, n, u), Entry(j, n, t)) <=> x = j /\ u = t
         /\ Entry(x, n, u) = Entry(j, n, t) <=> x = j /\ u = t
  BY EntryFacts
<1>3. R.active = {x \in r[n].active : ~Srv!SameKey(x, Entry(j, n, t))}
                   \cup {Entry(j, n, t)}
  BY DEF Srv!tablahash_insertar
<1>4. \A x \in JobId, u \in resource_t :
         Entry(x, n, u) \in R.active
            <=> Entry(x, n, u) \in r[n].active \/ (x = j /\ u = t)
  BY <1>2, <1>3
<1>5. \A e \in R.active : \E x \in JobId, u \in resource_t : e = Entry(x, n, u)
  BY <1>1, <1>3
<1>6. r2[n] = R
  BY DEF Swaps
<1> QED
  BY <1>4, <1>5, <1>6 DEF Holds, Gains

(* handle_reserve, granted *)
LEMMA ReserveGrantedPreserves ==
    ASSUME IInv, NEW m \in net, handle_reserve(m), Admits(res[m.node], Request(m))
    PROVE  IInv'
<1> DEFINE j == m.job
           n == m.node
           t == m.type
           e == Entry(j, n, t)
           R == Srv!Grant(res[n], e)
<1>0. /\ TablesOK(owned) /\ JobsOK(owned, running, finished)
      /\ InventoriesOK(res) /\ TokensOK(owned, res, net, finished)
      /\ waking \subseteq Node /\ net \subseteq Message
      /\ running \subseteq JobId /\ finished \subseteq JobId
  BY DEF IInv, TypeOK
<1>1. m \in Message /\ j \in JobId /\ n \in Node /\ t \in resource_t
  BY <1>0, MsgParts
<1>2. Request(m) = e
  BY DEF Request, Entry
<1>3. /\ UNCHANGED <<owned, waking, running, finished>> /\ m.kind = "RESERVE"
      /\ res' = [res EXCEPT ![n] = R]
      /\ net' = (net \ {m}) \cup {Msg("GRANTED", j, m)}
      /\ Srv!Fits(res[n], e)
  BY <1>2 DEF handle_reserve, Admits
<1>4. res[n] \in Srv!Inventory /\ Within(res[n]) /\ e \in Srv!Servable
  BY <1>0, <1>1, EntryFacts DEF InventoriesOK, InventoryOK
<1>5. /\ R \in Srv!Inventory /\ Within(R)
      /\ R.active = Srv!tablahash_insertar(res[n].active, e)
      /\ R.request_queue = res[n].request_queue
  BY <1>3, <1>4, GrantFacts DEF Srv!tablahash_insertar
<1> HIDE DEF R
<1>6. Swaps(res, res', n, R)
  BY <1>0, <1>1, <1>3, <1>5, UpdateInventory
<1>7. Gains(res, res', n, j, t)
  BY <1>0, <1>1, <1>5, <1>6, InsertGains
<1>8. \A x, u : Queued(res', x, n, u) <=> Queued(res, x, n, u)
  BY <1>5, <1>6 DEF Queued, Swaps
<1>9. InventoriesOK(res')
  <2>1. InventoryOK(res, n) /\ res'[n] = R
    BY <1>0, <1>1, <1>6 DEF InventoriesOK, Swaps
  <2>2. InventoryOK(res', n)
    BY <1>5, <1>7, <2>1 DEF InventoryOK, Gains
  <2>3. \A x \in Node : InventoryOK(res', x)
    BY <1>0, <1>1, <1>6, <2>2, Elsewhere
  <2> QED
    BY <1>6, <2>3 DEF InventoriesOK, Swaps
<1>10. \A c, x, y, u : Sent(net', c, x, y, u) <=>
          \/ /\ Sent(net, c, x, y, u)
             /\ ~(c = "RESERVE" /\ x = j /\ y = n /\ u = t)
          \/ c = "GRANTED" /\ x = j /\ y = n /\ u = t
  <2>1. \A c, x, y, u : Sent(net \ {m}, c, x, y, u) <=>
           /\ Sent(net, c, x, y, u)
           /\ ~(c = "RESERVE" /\ x = j /\ y = n /\ u = t)
    BY <1>1, <1>3, SentLess
  <2>2. net' = (net \ {m}) \cup {Msg("GRANTED", j, Place(n, t))}
    BY <1>1, <1>3, MsgParts
  <2>3. Place(n, t) \in Petition
    BY <1>1 DEF Place, Petition
  <2>4. \A c, x, y, u : Sent(net', c, x, y, u) <=>
           \/ Sent(net \ {m}, c, x, y, u)
           \/ c = "GRANTED" /\ x = j /\ Place(n, t) = Place(y, u)
    BY <2>2, <2>3, SentMore
  <2>5. \A y, u : Place(n, t) = Place(y, u) <=> y = n /\ u = t
    BY DEF Place
  <2> QED
    BY <2>1, <2>4, <2>5
<1>11. /\ PendingAt(owned, j, n, t) /\ ~Queued(res, j, n, t)
       /\ Sent(net, "RESERVE", j, n, t) /\ ~Sent(net, "GRANTED", j, n, t)
  <2>1. Sent(net, "RESERVE", j, n, t)
    BY <1>1, <1>3, MsgParts DEF Sent
  <2>2. TokenOK(owned, res, net, finished, j, n, t)
    BY <1>0, <1>1 DEF TokensOK
  <2> QED
    BY <2>1, <2>2 DEF TokenOK
<1>12. ASSUME NEW x \in JobId, NEW y \in Node, NEW u \in resource_t
       PROVE  TokenOK(owned, res', net', finished, x, y, u)
  <2>1. TokenOK(owned, res, net, finished, x, y, u)
    BY <1>0 DEF TokensOK
  <2>2. Queued(res', x, y, u) <=> Queued(res, x, y, u)
    BY <1>0, <1>1, <1>6, <1>8, Elsewhere
  <2>3. Holds(res', x, y, u) <=>
           Holds(res, x, y, u) \/ (x = j /\ y = n /\ u = t)
    <3>1. CASE y = n
      BY <1>7, <3>1 DEF Gains
    <3>2. CASE y # n
      BY <1>0, <1>1, <1>6, <3>2, Elsewhere
    <3> QED
      BY <3>1, <3>2
  <2>4. \A v : Sent(net', "RELEASE", x, y, v) <=> Sent(net, "RELEASE", x, y, v)
    BY <1>10
  <2>5. CASE x = j /\ y = n /\ u = t
    <3>1. ~Sent(net', "RESERVE", x, y, u) /\ Sent(net', "GRANTED", x, y, u)
      BY <1>10, <2>5
    <3> QED
      BY <1>11, <2>1, <2>2, <2>3, <2>4, <2>5, <3>1 DEF TokenOK
  <2>6. CASE ~(x = j /\ y = n /\ u = t)
    <3>1. \A c : Sent(net', c, x, y, u) <=> Sent(net, c, x, y, u)
      BY <1>10, <2>6
    <3> QED
      BY <2>1, <2>2, <2>3, <2>4, <2>6, <3>1 DEF TokenOK
  <2> QED
    BY <2>5, <2>6
<1>13. TokensOK(owned', res', net', finished')
  BY <1>3, <1>12 DEF TokensOK
<1>14. net' \subseteq Message
  <2>1. Msg("GRANTED", j, m) \in Message
    BY <1>1 DEF Msg, Message
  <2> QED
    BY <1>0, <1>3, <2>1
<1>15. TablesOK(owned') /\ JobsOK(owned', running', finished')
  BY <1>0, <1>3
<1> QED
  BY <1>0, <1>3, <1>9, <1>13, <1>14, <1>15, NextFromParts

(* The queues of server n hold requests of its own, each at most once. *)
QueuesOK(r, n) ==
    /\ \A t \in resource_t : \A i \in DOMAIN r[n].request_queue[t] :
          \E j \in JobId : r[n].request_queue[t][i] = Entry(j, n, t)
    /\ \A t \in resource_t : \A i, k \in DOMAIN r[n].request_queue[t] :
          r[n].request_queue[t][i] = r[n].request_queue[t][k] => i = k

(* At server n, the petition of j of type t has come to wait. *)
Joins(r, r2, n, j, t) ==
    /\ QueuesOK(r2, n)
    /\ \A x \in JobId, u \in resource_t :
          Queued(r2, x, n, u) <=> Queued(r, x, n, u) \/ (x = j /\ u = t)

LEMMA AppendJoins ==
    ASSUME NEW r, NEW r2, NEW n \in Node, NEW R, InventoriesOK(r),
           Swaps(r, r2, n, R), NEW j \in JobId, NEW t \in resource_t,
           ~Queued(r, j, n, t),
           R.request_queue = [r[n].request_queue EXCEPT
                                 ![t] = Append(@, Entry(j, n, t))]
    PROVE  Joins(r, r2, n, j, t)
<1> DEFINE q == r[n].request_queue
           e == Entry(j, n, t)
<1>1. r[n] \in Srv!Inventory /\ QueuesOK(r, n)
  BY DEF InventoriesOK, InventoryOK, QueuesOK
<1>2. q \in [resource_t -> Seq(Srv!Servable)]
  BY <1>1 DEF Srv!Inventory
<1>3. r2[n].request_queue = [q EXCEPT ![t] = Append(@, e)]
  BY DEF Swaps
<1>4. e \in Srv!Servable
  BY EntryFacts
<1>5. \A i \in DOMAIN q[t] : q[t][i] # e
  BY DEF Queued
<1>6. \A u \in resource_t : \A i \in DOMAIN q[u] : \E x \in JobId : q[u][i] = Entry(x, n, u)
  BY <1>1 DEF QueuesOK
<1>7. \A u \in resource_t : \A i, k \in DOMAIN q[u] : q[u][i] = q[u][k] => i = k
  BY <1>1 DEF QueuesOK
<1>8. \A x \in JobId, u \in resource_t :
         Queued(r, x, n, u) <=> \E i \in DOMAIN q[u] : q[u][i] = Entry(x, n, u)
  BY DEF Queued
<1> DEFINE q2 == r2[n].request_queue
<1>9. \A x \in JobId, u \in resource_t :
         Queued(r2, x, n, u) <=> \E i \in DOMAIN q2[u] : q2[u][i] = Entry(x, n, u)
  BY DEF Queued
<1> SUFFICES ASSUME NEW u \in resource_t
             PROVE  /\ \A i \in DOMAIN q2[u] : \E x \in JobId : q2[u][i] = Entry(x, n, u)
                    /\ \A i, k \in DOMAIN q2[u] : q2[u][i] = q2[u][k] => i = k
                    /\ \A x \in JobId :
                          (\E i \in DOMAIN q2[u] : q2[u][i] = Entry(x, n, u))
                            <=> \/ \E i \in DOMAIN q[u] : q[u][i] = Entry(x, n, u)
                                \/ x = j /\ u = t
  BY <1>8, <1>9 DEF Joins, QueuesOK
<1> HIDE DEF q, q2, e
<1>10. CASE u # t
  <2>1. q2[u] = q[u]
    BY <1>2, <1>3, <1>10 DEF q2, q
  <2> QED
    BY <1>6, <1>7, <1>10, <2>1
<1>11. CASE u = t
  <2> DEFINE N == Len(q[t])
  <2>1. q2[t] = Append(q[t], e)
    BY <1>2, <1>3 DEF q2, q
  <2>2. /\ q[t] \in Seq(Srv!Servable) /\ N \in Nat /\ DOMAIN q[t] = 1 .. N
        /\ DOMAIN q2[t] = 1 .. (N + 1)
        /\ q2[t][N + 1] = e
        /\ \A i \in 1 .. N : q2[t][i] = q[t][i]
    BY <1>2, <1>4, <2>1
  <2>3. \A i \in DOMAIN q2[t] : i = N + 1 \/ i \in 1 .. N
    BY <2>2
  <2>4. N + 1 \in DOMAIN q2[t] /\ \A i \in 1 .. N : i \in DOMAIN q2[t] /\ i # N + 1
    BY <2>2
  <2> HIDE DEF N
  <2>5. \A i \in DOMAIN q2[t] : \E x \in JobId : q2[t][i] = Entry(x, n, t)
    BY <1>6, <2>2, <2>3 DEF e
  <2>6. \A i, k \in DOMAIN q2[t] : q2[t][i] = q2[t][k] => i = k
    BY <1>5, <1>7, <2>2, <2>3 DEF q
  <2>7. ASSUME NEW x \in JobId
        PROVE  (\E i \in DOMAIN q2[t] : q2[t][i] = Entry(x, n, t))
                  <=> \/ \E i \in DOMAIN q[t] : q[t][i] = Entry(x, n, t)
                      \/ x = j
    <3>1. e = Entry(x, n, t) <=> x = j
      BY EntryFacts DEF e
    <3> QED
      BY <2>2, <2>3, <2>4, <3>1
  <2> QED
    BY <1>11, <2>5, <2>6, <2>7
<1> QED
  BY <1>10, <1>11

(* handle_reserve, queued *)
LEMMA ReserveQueuedPreserves ==
    ASSUME IInv, NEW m \in net, handle_reserve(m), ~Admits(res[m.node], Request(m))
    PROVE  IInv'
<1> DEFINE j == m.job
           n == m.node
           t == m.type
           e == Entry(j, n, t)
           R == Srv!Enqueue(res[n], e)
<1>0. /\ TablesOK(owned) /\ JobsOK(owned, running, finished)
      /\ InventoriesOK(res) /\ TokensOK(owned, res, net, finished)
      /\ waking \subseteq Node /\ net \subseteq Message
      /\ running \subseteq JobId /\ finished \subseteq JobId
  BY DEF IInv, TypeOK
<1>1. m \in Message /\ j \in JobId /\ n \in Node /\ t \in resource_t
  BY <1>0, MsgParts
<1>2. Request(m) = e
  BY DEF Request, Entry
<1>3. /\ UNCHANGED <<owned, waking, running, finished>> /\ m.kind = "RESERVE"
      /\ res' = [res EXCEPT ![n] = R]
      /\ net' = net \ {m}
  BY <1>2 DEF handle_reserve
<1>4. /\ res[n] \in Srv!Inventory /\ Within(res[n]) /\ e \in Srv!Servable
      /\ e.resource_type = t
  BY <1>0, <1>1, EntryFacts DEF InventoriesOK, InventoryOK
<1>5. /\ R \in Srv!Inventory /\ Within(R)
      /\ R.active = res[n].active
      /\ R.request_queue = [res[n].request_queue EXCEPT ![t] = Append(@, e)]
  BY <1>4, EnqueueFacts
<1> HIDE DEF R
<1>6. Swaps(res, res', n, R)
  BY <1>0, <1>1, <1>3, <1>5, UpdateInventory
<1>7. /\ PendingAt(owned, j, n, t) /\ ~Queued(res, j, n, t)
      /\ ~Holds(res, j, n, t) /\ ~Sent(net, "GRANTED", j, n, t)
  <2>1. Sent(net, "RESERVE", j, n, t)
    BY <1>1, <1>3, MsgParts DEF Sent
  <2>2. TokenOK(owned, res, net, finished, j, n, t)
    BY <1>0, <1>1 DEF TokensOK
  <2> QED
    BY <2>1, <2>2 DEF TokenOK
<1>8. Joins(res, res', n, j, t)
  BY <1>0, <1>1, <1>5, <1>6, <1>7, AppendJoins
<1>9. \A x, u : Holds(res', x, n, u) <=> Holds(res, x, n, u)
  BY <1>5, <1>6 DEF Holds, Swaps
<1>10. InventoriesOK(res')
  <2>1. InventoryOK(res, n) /\ res'[n] = R
    BY <1>0, <1>1, <1>6 DEF InventoriesOK, Swaps
  <2>2. InventoryOK(res', n)
    BY <1>5, <1>8, <2>1 DEF InventoryOK, Joins, QueuesOK
  <2>3. \A x \in Node : InventoryOK(res', x)
    BY <1>0, <1>1, <1>6, <2>2, Elsewhere
  <2> QED
    BY <1>6, <2>3 DEF InventoriesOK, Swaps
<1>11. \A c, x, y, u : Sent(net', c, x, y, u) <=>
          /\ Sent(net, c, x, y, u)
          /\ ~(c = "RESERVE" /\ x = j /\ y = n /\ u = t)
  BY <1>1, <1>3, SentLess
<1>12. ASSUME NEW x \in JobId, NEW y \in Node, NEW u \in resource_t
       PROVE  TokenOK(owned, res', net', finished, x, y, u)
  <2>1. TokenOK(owned, res, net, finished, x, y, u)
    BY <1>0 DEF TokensOK
  <2>2. Holds(res', x, y, u) <=> Holds(res, x, y, u)
    BY <1>0, <1>1, <1>6, <1>9, Elsewhere
  <2>3. Queued(res', x, y, u) <=>
           Queued(res, x, y, u) \/ (x = j /\ y = n /\ u = t)
    <3>1. CASE y = n
      BY <1>8, <3>1 DEF Joins
    <3>2. CASE y # n
      BY <1>0, <1>1, <1>6, <3>2, Elsewhere
    <3> QED
      BY <3>1, <3>2
  <2>4. \A v : Sent(net', "RELEASE", x, y, v) <=> Sent(net, "RELEASE", x, y, v)
    BY <1>11
  <2>5. CASE x = j /\ y = n /\ u = t
    <3>1. ~Sent(net', "RESERVE", x, y, u) /\ ~Sent(net', "GRANTED", x, y, u)
      BY <1>7, <1>11, <2>5
    <3> QED
      BY <1>7, <2>1, <2>2, <2>3, <2>4, <2>5, <3>1 DEF TokenOK
  <2>6. CASE ~(x = j /\ y = n /\ u = t)
    <3>1. \A c : Sent(net', c, x, y, u) <=> Sent(net, c, x, y, u)
      BY <1>11, <2>6
    <3> QED
      BY <2>1, <2>2, <2>3, <2>4, <2>6, <3>1 DEF TokenOK
  <2> QED
    BY <2>5, <2>6
<1>13. TokensOK(owned', res', net', finished')
  BY <1>3, <1>12 DEF TokensOK
<1>14. net' \subseteq Message
  BY <1>0, <1>3
<1>15. TablesOK(owned') /\ JobsOK(owned', running', finished')
  BY <1>0, <1>3
<1> QED
  BY <1>0, <1>3, <1>10, <1>13, <1>14, <1>15, NextFromParts

(* handle_release *)
LEMMA ReturnPreserves ==
    ASSUME IInv, NEW m \in net, handle_release(m)
    PROVE  IInv'
<1> DEFINE j == m.job
           n == m.node
           D == Srv!EntriesOf(res[n], j, Home[j])
           R == Srv!Reclaim(res[n], D)
<1>0. /\ TablesOK(owned) /\ JobsOK(owned, running, finished)
      /\ InventoriesOK(res) /\ TokensOK(owned, res, net, finished)
      /\ waking \subseteq Node /\ net \subseteq Message
      /\ running \subseteq JobId /\ finished \subseteq JobId
  BY DEF IInv, TypeOK
<1>1. m \in Message /\ j \in JobId /\ n \in Node /\ m.type \in resource_t
  BY <1>0, MsgParts
<1>2. /\ UNCHANGED <<owned, running, finished>> /\ m.kind = "RELEASE"
      /\ res' = [res EXCEPT ![n] = R]
      /\ waking' = waking \cup {n}
      /\ net' = net \ {m}
  BY DEF handle_release, Srv!del_active_job
<1>3. /\ res[n] \in Srv!Inventory /\ Within(res[n]) /\ D \in SUBSET res[n].active
  BY <1>0, <1>1 DEF InventoriesOK, InventoryOK, Srv!EntriesOf
<1>4. /\ R \in Srv!Inventory /\ Within(R)
      /\ R.active = res[n].active \ D
      /\ R.request_queue = res[n].request_queue
  <2> HIDE DEF D
  <2> QED
    BY <1>3, ReclaimFacts
<1>5. \A x \in JobId, u \in resource_t :
         Entry(x, n, u) \in D <=> Entry(x, n, u) \in res[n].active /\ x = j
  <2>1. ASSUME NEW x \in JobId, NEW u \in resource_t
        PROVE  Entry(x, n, u).job_id = x /\ Entry(x, n, u).socket = Home[x]
    BY <1>1, EntryFacts
  <2> QED
    BY <2>1 DEF Srv!EntriesOf
<1> HIDE DEF R, D
<1>6. Swaps(res, res', n, R)
  BY <1>0, <1>1, <1>2, <1>4, UpdateInventory
<1>7. \A x \in JobId, u \in resource_t :
         Holds(res', x, n, u) <=> Holds(res, x, n, u) /\ x # j
  BY <1>4, <1>5, <1>6 DEF Holds, Swaps
<1>8. \A x, u : Queued(res', x, n, u) <=> Queued(res, x, n, u)
  BY <1>4, <1>6 DEF Queued, Swaps
<1>9. InventoriesOK(res')
  <2>1. InventoryOK(res, n) /\ res'[n] = R
    BY <1>0, <1>1, <1>6 DEF InventoriesOK, Swaps
  <2>2. InventoryOK(res', n)
    BY <1>4, <2>1 DEF InventoryOK
  <2>3. \A x \in Node : InventoryOK(res', x)
    BY <1>0, <1>1, <1>6, <2>2, Elsewhere
  <2> QED
    BY <1>6, <2>3 DEF InventoriesOK, Swaps
<1>10. \A c, x, y, u : Sent(net', c, x, y, u) <=>
          /\ Sent(net, c, x, y, u)
          /\ ~(c = "RELEASE" /\ x = j /\ y = n /\ u = m.type)
  BY <1>1, <1>2, SentLess
<1>11. j \in finished
  <2>1. Sent(net, "RELEASE", j, n, m.type)
    BY <1>1, <1>2, MsgParts DEF Sent
  <2>2. TokenOK(owned, res, net, finished, j, n, m.type)
    BY <1>0, <1>1 DEF TokensOK
  <2> QED
    BY <2>1, <2>2 DEF TokenOK
<1>12. ~Live(owned, j)
  BY <1>0, <1>1, <1>11 DEF JobsOK, JobOK
<1>13. \A y, u : ~PendingAt(owned, j, y, u) /\ ~GrantedAt(owned, j, y, u)
  BY <1>12 DEF PendingAt, GrantedAt
<1>14. ASSUME NEW x \in JobId, NEW y \in Node, NEW u \in resource_t
       PROVE  TokenOK(owned, res', net', finished, x, y, u)
  <2>1. TokenOK(owned, res, net, finished, x, y, u)
    BY <1>0 DEF TokensOK
  <2>2. Queued(res', x, y, u) <=> Queued(res, x, y, u)
    BY <1>0, <1>1, <1>6, <1>8, Elsewhere
  <2>3. Holds(res', x, y, u) <=> Holds(res, x, y, u) /\ ~(x = j /\ y = n)
    <3>1. CASE y = n
      BY <1>7, <3>1
    <3>2. CASE y # n
      BY <1>0, <1>1, <1>6, <3>2, Elsewhere
    <3> QED
      BY <3>1, <3>2
  <2>4. CASE x = j /\ y = n
    <3>1. /\ ~Sent(net', "RESERVE", x, y, u) /\ ~Sent(net', "GRANTED", x, y, u)
          /\ ~Queued(res', x, y, u) /\ ~GrantedAt(owned, x, y, u)
      BY <1>10, <1>13, <2>1, <2>2, <2>4 DEF TokenOK
    <3>2. ~Holds(res', x, y, u) /\ x \in finished
      BY <1>11, <2>3, <2>4
    <3> QED
      BY <3>1, <3>2 DEF TokenOK
  <2>5. CASE ~(x = j /\ y = n)
    <3>1. \A c, v : Sent(net', c, x, y, v) <=> Sent(net, c, x, y, v)
      BY <1>10, <2>5
    <3> QED
      BY <2>1, <2>2, <2>3, <2>5, <3>1 DEF TokenOK
  <2> QED
    BY <2>4, <2>5
<1>15. TokensOK(owned', res', net', finished')
  BY <1>2, <1>14 DEF TokensOK
<1>16. net' \subseteq Message /\ waking' \subseteq Node
  BY <1>0, <1>1, <1>2
<1>17. TablesOK(owned') /\ JobsOK(owned', running', finished')
  BY <1>0, <1>2
<1> QED
  BY <1>0, <1>2, <1>9, <1>15, <1>16, <1>17, NextFromParts

(* At server n, the petition of j of type t no longer waits. *)
Leaves(r, r2, n, j, t) ==
    /\ QueuesOK(r2, n)
    /\ \A x \in JobId, u \in resource_t :
          Queued(r2, x, n, u) => Queued(r, x, n, u) /\ ~(x = j /\ u = t)

LEMMA ShiftLeaves ==
    ASSUME NEW r, NEW r2, NEW n \in Node, NEW R, InventoriesOK(r),
           Swaps(r, r2, n, R), NEW j \in JobId, NEW t \in resource_t,
           NEW d \in DOMAIN r[n].request_queue[t],
           r[n].request_queue[t][d] = Entry(j, n, t),
           SrvP!ShiftedFrom(r[n], R, t, d)
    PROVE  Leaves(r, r2, n, j, t)
<1> DEFINE q == r[n].request_queue
           q2 == r2[n].request_queue
<1>0. R \in Srv!Inventory /\ r[n] \in Srv!Inventory /\ r2[n] = R
  BY DEF Swaps, InventoriesOK
<1>1. /\ \A u \in resource_t : \A i \in DOMAIN q[u] : \E x \in JobId : q[u][i] = Entry(x, n, u)
      /\ \A u \in resource_t : \A i, k \in DOMAIN q[u] : q[u][i] = q[u][k] => i = k
  BY DEF InventoriesOK, InventoryOK
<1>2. ASSUME NEW u \in resource_t, NEW i \in DOMAIN q2[u]
      PROVE  \E k \in DOMAIN q[u] :
                /\ q2[u][i] = q[u][k]
                /\ u = t => k = (IF i < d THEN i ELSE i + 1) /\ k # d
                /\ u # t => k = i
  BY <1>0 DEF SrvP!ShiftedFrom, SrvP!Waiting
<1>3. d \in Int /\ \A u \in resource_t : \A i \in DOMAIN q2[u] : i \in Int
  <2>1. \A u \in resource_t : q[u] \in Seq(Srv!Servable) /\ q2[u] \in Seq(Srv!Servable)
    BY <1>0 DEF Srv!Inventory
  <2> QED
    BY <2>1
<1> HIDE DEF q, q2
<1>4. ASSUME NEW u \in resource_t, NEW i \in DOMAIN q2[u]
      PROVE  \E x \in JobId : q2[u][i] = Entry(x, n, u)
  BY <1>1, <1>2
<1>5. ASSUME NEW u \in resource_t, NEW i \in DOMAIN q2[u],
             NEW k \in DOMAIN q2[u], q2[u][i] = q2[u][k]
      PROVE  i = k
  <2>1. PICK i1 \in DOMAIN q[u] :
            /\ q2[u][i] = q[u][i1]
            /\ u = t => i1 = (IF i < d THEN i ELSE i + 1) /\ i1 # d
            /\ u # t => i1 = i
    BY <1>2
  <2>2. PICK k1 \in DOMAIN q[u] :
            /\ q2[u][k] = q[u][k1]
            /\ u = t => k1 = (IF k < d THEN k ELSE k + 1) /\ k1 # d
            /\ u # t => k1 = k
    BY <1>2
  <2>3. i1 = k1
    BY <1>1, <1>5, <2>1, <2>2
  <2>4. i \in Int /\ k \in Int
    BY <1>3
  <2> QED
    BY <1>3, <2>1, <2>2, <2>3, <2>4
<1>6. ASSUME NEW x \in JobId, NEW u \in resource_t, NEW i \in DOMAIN q2[u],
             q2[u][i] = Entry(x, n, u)
      PROVE  /\ \E k \in DOMAIN q[u] : q[u][k] = Entry(x, n, u)
             /\ ~(x = j /\ u = t)
  <2>1. PICK i1 \in DOMAIN q[u] : q2[u][i] = q[u][i1] /\ (u = t => i1 # d)
    BY <1>2
  <2>2. ~(x = j /\ u = t)
    BY <1>1, <1>6, <2>1 DEF q
  <2> QED
    BY <1>6, <2>1, <2>2
<1> QED
  BY <1>4, <1>5, <1>6 DEF Leaves, QueuesOK, Queued, q, q2

(* serve_queued *)
LEMMA ServePreserves ==
    ASSUME IInv, NEW n \in Node, NEW t \in resource_t, serve_queued(n, t)
    PROVE  IInv'
<1> DEFINE q == res[n].request_queue[t]
<1>0. /\ TablesOK(owned) /\ JobsOK(owned, running, finished)
      /\ InventoriesOK(res) /\ TokensOK(owned, res, net, finished)
      /\ waking \subseteq Node /\ net \subseteq Message
      /\ running \subseteq JobId /\ finished \subseteq JobId
  BY DEF IInv, TypeOK
<1>1. UNCHANGED <<owned, waking, running, finished>>
  BY DEF serve_queued
<1>2. PICK i \in DOMAIN q, d \in DOMAIN q :
          /\ Srv!IsFirstFit(res[n], t, i)
          /\ Srv!IsFirstMatch(q, q[i], d)
          /\ res' = [res EXCEPT ![n] = Srv!chk_job_request(res[n], t, i, d)]
          /\ net' = net \cup {Msg("GRANTED", q[i].job_id, Place(n, t))}
  BY DEF serve_queued, Place
<1>3. /\ res[n] \in Srv!Inventory /\ Within(res[n]) /\ InventoryOK(res, n)
      /\ Srv!Fits(res[n], res[n].request_queue[t][i])
  BY <1>0, <1>2 DEF InventoriesOK, InventoryOK, Srv!IsFirstFit
<1>4. PICK j \in JobId : q[i] = Entry(j, n, t)
  BY <1>3 DEF InventoryOK
<1>5. PICK j2 \in JobId : q[d] = Entry(j2, n, t)
  BY <1>3 DEF InventoryOK
<1>6. q[d] = Entry(j, n, t)
  <2>1. Srv!SameKey(Entry(j2, n, t), Entry(j, n, t))
    BY <1>2, <1>4, <1>5 DEF Srv!IsFirstMatch
  <2>2. j2 = j
    BY <2>1, EntryFacts
  <2> QED
    BY <1>5, <2>2
<1> DEFINE R == Srv!chk_job_request(res[n], t, i, d)
           e == Entry(j, n, t)
<1>7. /\ R \in Srv!Inventory /\ Within(R)
      /\ R.active = Srv!tablahash_insertar(res[n].active, e)
      /\ SrvP!ShiftedFrom(res[n], R, t, d)
  BY <1>2, <1>3, <1>4, ChkFacts DEF Srv!tablahash_insertar
<1> HIDE DEF R
<1>8. Swaps(res, res', n, R)
  BY <1>0, <1>2, <1>7, UpdateInventory DEF R
<1>9. Gains(res, res', n, j, t)
  BY <1>0, <1>7, <1>8, InsertGains
<1>10. Leaves(res, res', n, j, t)
  BY <1>0, <1>2, <1>6, <1>7, <1>8, ShiftLeaves
<1>11. InventoriesOK(res')
  <2>1. res'[n] = R
    BY <1>8 DEF Swaps
  <2>2. InventoryOK(res', n)
    BY <1>7, <1>9, <1>10, <2>1 DEF InventoryOK, Gains, Leaves, QueuesOK
  <2>3. \A x \in Node : InventoryOK(res', x)
    BY <1>0, <1>8, <2>2, Elsewhere
  <2> QED
    BY <1>8, <2>3 DEF InventoriesOK, Swaps
<1>12. \A c, x, y, u : Sent(net', c, x, y, u) <=>
          \/ Sent(net, c, x, y, u)
          \/ c = "GRANTED" /\ x = j /\ y = n /\ u = t
  <2>1. net' = net \cup {Msg("GRANTED", j, Place(n, t))}
    BY <1>2, <1>4, EntryFacts
  <2>2. Place(n, t) \in Petition
    BY DEF Place, Petition
  <2>3. \A c, x, y, u : Sent(net', c, x, y, u) <=>
           Sent(net, c, x, y, u) \/ (c = "GRANTED" /\ x = j /\ Place(n, t) = Place(y, u))
    BY <2>1, <2>2, SentMore
  <2>4. \A y, u : Place(n, t) = Place(y, u) <=> y = n /\ u = t
    BY DEF Place
  <2> QED
    BY <2>3, <2>4
<1>13. Queued(res, j, n, t)
  BY <1>4 DEF Queued
<1>14. ASSUME NEW x \in JobId, NEW y \in Node, NEW u \in resource_t
       PROVE  TokenOK(owned, res', net', finished, x, y, u)
  <2>1. TokenOK(owned, res, net, finished, x, y, u)
    BY <1>0 DEF TokensOK
  <2>2. Queued(res', x, y, u) => Queued(res, x, y, u) /\ ~(x = j /\ y = n /\ u = t)
    <3>1. CASE y = n
      BY <1>10, <3>1 DEF Leaves
    <3>2. CASE y # n
      BY <1>0, <1>8, <3>2, Elsewhere
    <3> QED
      BY <3>1, <3>2
  <2>3. Holds(res', x, y, u) <=>
           Holds(res, x, y, u) \/ (x = j /\ y = n /\ u = t)
    <3>1. CASE y = n
      BY <1>9, <3>1 DEF Gains
    <3>2. CASE y # n
      BY <1>0, <1>8, <3>2, Elsewhere
    <3> QED
      BY <3>1, <3>2
  <2>4. \A v : Sent(net', "RELEASE", x, y, v) <=> Sent(net, "RELEASE", x, y, v)
    BY <1>12
  <2>5. CASE x = j /\ y = n /\ u = t
    <3>1. /\ ~Sent(net', "RESERVE", x, y, u) /\ Sent(net', "GRANTED", x, y, u)
          /\ PendingAt(owned, x, y, u)
      BY <1>12, <1>13, <2>1, <2>5 DEF TokenOK
    <3> QED
      BY <2>1, <2>2, <2>3, <2>4, <2>5, <3>1 DEF TokenOK
  <2>6. CASE ~(x = j /\ y = n /\ u = t)
    <3>1. \A c : Sent(net', c, x, y, u) <=> Sent(net, c, x, y, u)
      BY <1>12, <2>6
    <3> QED
      BY <2>1, <2>2, <2>3, <2>4, <2>6, <3>1 DEF TokenOK
  <2> QED
    BY <2>5, <2>6
<1>15. TokensOK(owned', res', net', finished')
  BY <1>1, <1>14 DEF TokensOK
<1>16. net' \subseteq Message
  <2>1. Msg("GRANTED", j, Place(n, t)) \in Message
    BY DEF Msg, Message, Place
  <2> QED
    BY <1>0, <1>2, <1>4, <2>1, EntryFacts
<1>17. TablesOK(owned') /\ JobsOK(owned', running', finished')
  BY <1>0, <1>1
<1> QED
  BY <1>0, <1>1, <1>11, <1>15, <1>16, <1>17, NextFromParts

----------------------------------------------------------------------------
LEMMA InitIInv == Init => IInv
<1> SUFFICES ASSUME Init PROVE IInv
  OBVIOUS
<1> DEFINE r0 == Srv!create_local_resource
<1>1. /\ owned = [a \in Node |-> << >>] /\ res = [n \in Node |-> r0]
      /\ waking = {} /\ net = {} /\ running = {} /\ finished = {}
  BY DEF Init
<1>2. << >> \in Table
  <2>1. << >> \in [{} -> Own!OwnedJob]
    OBVIOUS
  <2> QED
    BY <2>1, TableIntro
<1>3. \A a \in Node : owned[a] = << >> /\ DOMAIN owned[a] = {}
  BY <1>1
<1>4. TablesOK(owned)
  BY <1>1, <1>2, <1>3 DEF TablesOK, Quiet
<1>5. \A j \in JobId : ~Live(owned, j)
  BY <1>3, ClusterAssumption DEF Live, Known
<1>6. JobsOK(owned, running, finished)
  BY <1>1, <1>5 DEF JobsOK
<1>7. /\ r0.avail = Total /\ r0.active = {}
      /\ r0.request_queue = [t \in resource_t |-> << >>]
      /\ r0 \in Srv!Inventory
  BY ClusterAssumption DEF Srv!create_local_resource, Srv!Inventory
<1>8. Within(r0)
  <2>1. IsFiniteSet({}) /\ Cardinality({}) = 0
    BY FS_EmptySet
  <2>2. \A t : Srv!Units({}, t) = {}
    BY DEF Srv!Units
  <2>3. Srv!Cardinality({}) = Cardinality({})
    BY DEF Srv!Cardinality, Cardinality, IsFiniteSet, Srv!IsFiniteSet
  <2>4. \A t : Srv!Held({}, t) = 0
    BY <2>1, <2>2, <2>3 DEF Srv!Held
  <2> QED
    BY <1>7, <2>1, <2>4, ClusterAssumption DEF Within
<1> HIDE DEF r0
<1>9. InventoriesOK(res)
  <2>1. \A n \in Node : res[n] = r0
    BY <1>1
  <2>2. \A n \in Node : InventoryOK(res, n)
    BY <1>7, <1>8, <2>1 DEF InventoryOK
  <2> QED
    BY <1>1, <1>7, <2>2 DEF InventoriesOK
<1>10. TokensOK(owned, res, net, finished)
  <2> SUFFICES ASSUME NEW j \in JobId, NEW n \in Node, NEW t \in resource_t
               PROVE  TokenOK(owned, res, net, finished, j, n, t)
    BY DEF TokensOK
  <2>1. ~Queued(res, j, n, t) /\ ~Holds(res, j, n, t)
    BY <1>1, <1>7 DEF Queued, Holds
  <2>2. ~GrantedAt(owned, j, n, t)
    BY <1>5 DEF GrantedAt
  <2>3. \A c, u : ~Sent(net, c, j, n, u)
    BY <1>1 DEF Sent
  <2> QED
    BY <2>1, <2>2, <2>3 DEF TokenOK
<1>11. TypeOK
  BY <1>1, <1>3, <1>9 DEF TypeOK, InventoriesOK
<1> QED
  BY <1>4, <1>6, <1>9, <1>10, <1>11 DEF IInv

LEMMA NextIInv == IInv /\ [Next]_vars => IInv'
<1> SUFFICES ASSUME IInv, [Next]_vars PROVE IInv'
  OBVIOUS
<1>1. ASSUME NEW j \in JobId, handle_job_request(j) PROVE IInv'
  BY <1>1, RequestPreserves
<1>1a. ASSUME NEW j \in JobId, handle_empty_job_request(j) PROVE IInv'
  BY <1>1a, EmptyRequestPreserves
<1>2. ASSUME NEW j \in JobId, handle_job_release(j) PROVE IInv'
  BY <1>2, ReleasePreserves
<1>3. ASSUME NEW m \in net, handle_reserve(m) PROVE IInv'
  BY <1>3, ReserveGrantedPreserves, ReserveQueuedPreserves
<1>4. ASSUME NEW m \in net, handle_granted(m) PROVE IInv'
  BY <1>4, GrantedPreserves
<1>5. ASSUME NEW m \in net, handle_release(m) PROVE IInv'
  BY <1>5, ReturnPreserves
<1>6. ASSUME NEW n \in Node, NEW t \in resource_t, serve_queued(n, t) PROVE IInv'
  BY <1>6, ServePreserves
<1>7. ASSUME UNCHANGED <<owned, res, net, running, finished>>,
             waking' \subseteq waking
      PROVE  IInv'
  <2>1. /\ TablesOK(owned') /\ JobsOK(owned', running', finished')
        /\ InventoriesOK(res') /\ TokensOK(owned', res', net', finished')
    BY <1>7 DEF IInv
  <2>2. /\ waking' \subseteq Node /\ net' \subseteq Message
        /\ running' \subseteq JobId /\ finished' \subseteq JobId
    BY <1>7 DEF IInv, TypeOK
  <2> QED
    BY <2>1, <2>2, NextFromParts
<1>8. ASSUME NEW n \in Node, release_done(n) PROVE IInv'
  BY <1>7, <1>8 DEF release_done
<1>9. CASE UNCHANGED vars
  BY <1>7, <1>9 DEF vars
<1> QED
  BY <1>1, <1>1a, <1>2, <1>3, <1>4, <1>5, <1>6, <1>8, <1>9 DEF Next

LEMMA AlwaysIInv == Spec => []IInv
BY InitIInv, NextIInv, PTL DEF Spec

(* The tables, the inventories and the messages of the agents stay well    *)
(* formed in every step of every agent, whatever the machines and the      *)
(* jobs.                                                                   *)
THEOREM TypeCorrect == Spec => []TypeOK
<1>1. IInv => TypeOK
  BY DEF IInv
<1> QED
  BY <1>1, AlwaysIInv, PTL

(* A GRANTED is always the answer its client waits for: handle_granted can *)
(* rely on the node alone although the message names no resource.          *)
THEOREM AnswersAreExpected == Spec => []AnswersExpected
<1>1. IInv => AnswersExpected
  <2> SUFFICES ASSUME IInv, NEW m \in net, m.kind = "GRANTED"
               PROVE  Own!Expected(owned[Home[m.job]], m.job, m.node)
    BY DEF AnswersExpected
  <2>1. m \in Message
    BY DEF IInv, TypeOK
  <2>2. /\ m.job \in JobId /\ m.node \in Node /\ m.type \in resource_t
        /\ Sent(net, "GRANTED", m.job, m.node, m.type)
    BY <2>1, MsgParts DEF Sent
  <2>3. PendingAt(owned, m.job, m.node, m.type)
    BY <2>2 DEF IInv, TokensOK, TokenOK
  <2>4. Idx(owned, m.job) # 0
    BY <2>2, <2>3 DEF IInv, JobsOK, JobOK, PendingAt
  <2> QED
    BY <2>3, <2>4 DEF PendingAt, Own!Expected, Live, Known, Job, Idx, Place
<1> QED
  BY <1>1, AlwaysIInv, PTL

(* Whatever a server holds belongs to a petition its client has dispatched *)
(* and still counts on, or a RELEASE for it is on its way: no unit of the  *)
(* cluster is forgotten while nothing fails.                               *)
THEOREM HeldIsNeverForgotten == Spec => []HeldIsAccountedFor
<1>1. IInv => HeldIsAccountedFor
  <2> SUFFICES ASSUME IInv, NEW n \in Node, NEW e \in res[n].active
               PROVE  LET j == e.job_id
                          T == owned[Home[j]]
                      IN  \/ /\ j \in DOMAIN T
                             /\ \E i \in 1 .. T[j].next_reserve_idx :
                                   T[j].petitions[i] = [node |-> n, type |-> e.resource_type]
                          \/ \E m \in net :
                                m.kind = "RELEASE" /\ m.job = j /\ m.node = n
    BY DEF HeldIsAccountedFor
  <2>1. PICK j \in JobId, t \in resource_t : e = Entry(j, n, t)
    BY DEF IInv, InventoriesOK, InventoryOK
  <2>2. e.job_id = j /\ e.resource_type = t /\ Holds(res, j, n, t)
    BY <2>1, EntryFacts DEF Holds
  <2>3. TokenOK(owned, res, net, finished, j, n, t)
    BY DEF IInv, TokensOK
  <2>4. Live(owned, j) => JobOK(owned, running, finished, j)
    BY DEF IInv, JobsOK
  <2>5. CASE GrantedAt(owned, j, n, t)
    <3>1. PICK i \in Job(owned, j).granted : Job(owned, j).petitions[i] = Place(n, t)
      BY <2>5 DEF GrantedAt
    <3>2. i \in 1 .. Idx(owned, j)
      <4>1. Idx(owned, j) \in Nat
        BY <2>4, <2>5, RequestFacts DEF GrantedAt, JobOK
      <4> QED
        BY <2>4, <2>5, <3>1, <4>1 DEF GrantedAt, JobOK
    <3> QED
      BY <2>2, <2>5, <3>1, <3>2 DEF GrantedAt, Live, Known, Job, Idx, Place
  <2>6. CASE Sent(net, "GRANTED", j, n, t)
    <3>1. PendingAt(owned, j, n, t)
      BY <2>3, <2>6 DEF TokenOK
    <3>2. Idx(owned, j) \in 1 .. Idx(owned, j)
      BY <2>4, <3>1, RequestFacts DEF PendingAt, JobOK
    <3> QED
      BY <2>2, <3>1, <3>2 DEF PendingAt, Live, Known, Job, Idx, Place
  <2>7. CASE \E u \in resource_t : Sent(net, "RELEASE", j, n, u)
    <3>1. PICK u \in resource_t : Msg("RELEASE", j, Place(n, u)) \in net
      BY <2>7 DEF Sent
    <3> DEFINE m == Msg("RELEASE", j, Place(n, u))
    <3>2. m.kind = "RELEASE" /\ m.job = j /\ m.node = n
      BY DEF Msg, Place
    <3> QED
      BY <2>2, <3>1, <3>2
  <2> QED
    BY <2>2, <2>3, <2>5, <2>6, <2>7 DEF TokenOK
<1> QED
  BY <1>1, AlwaysIInv, PTL

----------------------------------------------------------------------------
(* No circular wait.  A job waits further down the order of the places     *)
(* than anything it holds; and fewer places come after those further down. *)

Later(p) == {q \in Petition : Earlier(p, q)}

LEMMA PetitionFinite == IsFiniteSet(Petition)
<1>1. IsFiniteSet(Node \X resource_t)
  BY ClusterAssumption, FS_Product
<1> DEFINE f == [p \in Petition |-> <<p.node, p.type>>]
<1>2. f \in Injection(Petition, Node \X resource_t)
  <2>1. f \in [Petition -> Node \X resource_t]
    BY DEF Petition
  <2>2. ASSUME NEW p \in Petition, NEW q \in Petition, f[p] = f[q] PROVE p = q
    BY <2>2 DEF Petition
  <2> QED
    BY <2>1, <2>2 DEF Injection, IsInjective
<1> QED
  BY <1>1, <1>2, FS_Injection

LEMMA FewerLater ==
    ASSUME NEW p \in Petition, NEW q \in Petition, Earlier(p, q)
    PROVE  Later(q) \in (SUBSET Later(p)) \ {Later(p)}
<1>1. \A x \in Petition : NodeOrder[x.node] \in Nat /\ resource_order[x.type] \in Nat
  BY ClusterAssumption DEF Petition
<1>2. Later(q) \subseteq Later(p)
  BY <1>1 DEF Later, Earlier
<1>3. q \in Later(p) /\ q \notin Later(q)
  BY <1>1 DEF Later, Earlier
<1> QED
  BY <1>2, <1>3

(* In a set of sets of places that is not empty, one contains no other.    *)
LEMMA SmallestSet ==
    ASSUME NEW T \in SUBSET SUBSET Petition, T # {}
    PROVE  \E x \in T : \A y \in T : y \notin (SUBSET x) \ {x}
<1> DEFINE R == StrictSubsetOrdering(Petition)
           F == FiniteSubsetsOf(Petition)
<1>1. IsWellFoundedOn(R, F)
  BY FS_StrictSubsetOrderingWellFounded
<1>2. F = SUBSET Petition
  BY PetitionFinite, FS_FiniteSubsetsOfFinite
<1>3. ASSUME NEW x \in SUBSET Petition, NEW y \in (SUBSET x) \ {x}
      PROVE  <<y, x>> \in R
  BY DEF StrictSubsetOrdering
<1> HIDE DEF R, F
<1>4. PICK x \in T : \A y \in T : ~(<<y, x>> \in R)
  BY <1>1, <1>2, WFMin
<1> QED
  BY <1>3, <1>4

(* Who waits, and for whom. *)
LEMMA WaitFacts ==
    ASSUME IInv, NEW j \in JobId, NEW k \in JobId, WaitsFor(j, k)
    PROVE  \E n \in Node, t \in resource_t :
              Queued(res, j, n, t) /\ PendingAt(owned, j, n, t)
                /\ Holds(res, k, n, t)
<1>1. PICK n \in Node, t \in resource_t :
          /\ \E i \in DOMAIN res[n].request_queue[t] :
                res[n].request_queue[t][i].job_id = j
          /\ \E e \in res[n].active : e.job_id = k /\ e.resource_type = t
  BY DEF WaitsFor
<1>2. InventoryOK(res, n) /\ TokenOK(owned, res, net, finished, j, n, t)
  BY DEF IInv, InventoriesOK, TokensOK
<1>3. PICK i \in DOMAIN res[n].request_queue[t] :
          res[n].request_queue[t][i].job_id = j
  BY <1>1
<1>4. PICK x \in JobId : res[n].request_queue[t][i] = Entry(x, n, t)
  BY <1>2 DEF InventoryOK
<1>5. x = j
  BY <1>3, <1>4, EntryFacts
<1>6. PICK e \in res[n].active : e.job_id = k /\ e.resource_type = t
  BY <1>1
<1>7. PICK y \in JobId, u \in resource_t : e = Entry(y, n, u)
  BY <1>2 DEF InventoryOK
<1>8. y = k /\ u = t
  BY <1>6, <1>7, EntryFacts
<1>9. Queued(res, j, n, t) /\ Holds(res, k, n, t)
  BY <1>4, <1>5, <1>6, <1>7, <1>8 DEF Queued, Holds
<1> QED
  BY <1>2, <1>9 DEF TokenOK

(* The place a waiting job waits for. *)
Waits(j) == Job(owned, j).petitions[Idx(owned, j)]

(* What a job that waits holds comes before what it waits for. *)
LEMMA HoldsEarlier ==
    ASSUME IInv, NEW k \in JobId, NEW n \in Node, NEW t \in resource_t,
           Holds(res, k, n, t),
           NEW x \in Node, NEW u \in resource_t, Queued(res, k, x, u)
    PROVE  /\ Waits(k) = Place(x, u)
           /\ Earlier(Place(n, t), Place(x, u))
<1>1. /\ TokenOK(owned, res, net, finished, k, n, t)
      /\ TokenOK(owned, res, net, finished, k, x, u)
  BY DEF IInv, TokensOK
<1>2. PendingAt(owned, k, x, u)
  BY <1>1 DEF TokenOK
<1>3. JobOK(owned, running, finished, k)
  BY <1>2 DEF IInv, JobsOK, PendingAt
<1>4. \A v \in resource_t : ~Sent(net, "RELEASE", k, n, v)
  BY <1>3 DEF IInv, TokensOK, TokenOK, JobOK
<1>5. ~Sent(net, "GRANTED", k, n, t)
  <2> SUFFICES ASSUME Sent(net, "GRANTED", k, n, t) PROVE FALSE
    OBVIOUS
  <2>1. PendingAt(owned, k, n, t) /\ ~Queued(res, k, n, t)
    BY <1>1 DEF TokenOK
  <2>2. n = x /\ t = u
    BY <1>2, <2>1 DEF PendingAt, Place
  <2> QED
    BY <2>1, <2>2
<1>6. GrantedAt(owned, k, n, t)
  BY <1>1, <1>4, <1>5 DEF TokenOK
<1> DEFINE b == Job(owned, k)
           c == Idx(owned, k)
<1>7. PICK i \in b.granted : b.petitions[i] = Place(n, t)
  BY <1>6 DEF GrantedAt
<1>8. /\ b.petitions \in JobRequests(k) /\ c \in 1 .. Len(b.petitions)
      /\ b.granted = 1 .. (c - 1)
      /\ b.petitions[c] = Place(x, u)
  BY <1>2, <1>3 DEF JobOK, PendingAt
<1>9. /\ Len(b.petitions) \in Nat
      /\ \A y, z \in 1 .. Len(b.petitions) :
            y < z => Earlier(b.petitions[y], b.petitions[z])
  BY <1>8, RequestFacts
<1> HIDE DEF b, c
<1>10. i \in 1 .. Len(b.petitions) /\ i < c
  BY <1>7, <1>8, <1>9
<1>11. Earlier(b.petitions[i], b.petitions[c])
  BY <1>8, <1>9, <1>10
<1> QED
  BY <1>7, <1>8, <1>11 DEF Waits, b, c

(* No set of jobs waits in a circle, for any number of agents, jobs and    *)
(* types: the order of generate_job_request and the one RESERVE at a time  *)
(* of the client are enough.                                               *)
THEOREM NoDeadlock == Spec => []NoCircularWait
<1>1. IInv => NoCircularWait
  <2> SUFFICES ASSUME IInv, NEW S \in (SUBSET JobId) \ {{}},
                      \A j \in S : \E k \in S : WaitsFor(j, k)
               PROVE  FALSE
    BY DEF NoCircularWait
  <2>1. ASSUME NEW j \in S
        PROVE  \E n \in Node, t \in resource_t :
                  Queued(res, j, n, t) /\ Waits(j) = Place(n, t)
    <3>1. PICK k \in S : WaitsFor(j, k)
      OBVIOUS
    <3>2. PICK n \in Node, t \in resource_t :
              Queued(res, j, n, t) /\ PendingAt(owned, j, n, t)
      BY <3>1, WaitFacts
    <3> QED
      BY <3>2 DEF PendingAt, Waits
  <2>2. ASSUME NEW j \in S
        PROVE  \E k \in S : Waits(j) \in Petition /\ Waits(k) \in Petition
                              /\ Earlier(Waits(j), Waits(k))
    <3>1. PICK k \in S : WaitsFor(j, k)
      OBVIOUS
    <3>2. PICK n \in Node, t \in resource_t :
              PendingAt(owned, j, n, t) /\ Holds(res, k, n, t)
      BY <3>1, WaitFacts
    <3>3. PICK x \in Node, u \in resource_t :
              Queued(res, k, x, u) /\ Waits(k) = Place(x, u)
      BY <2>1
    <3>4. Earlier(Place(n, t), Place(x, u))
      BY <3>2, <3>3, HoldsEarlier
    <3>5. Waits(j) = Place(n, t)
      BY <3>2 DEF PendingAt, Waits
    <3>6. Place(n, t) \in Petition /\ Place(x, u) \in Petition
      BY DEF Place, Petition
    <3> QED
      BY <3>3, <3>4, <3>5, <3>6
  <2>3. ASSUME NEW j \in S
        PROVE  \E k \in S : Later(Waits(k)) \in
                               (SUBSET Later(Waits(j))) \ {Later(Waits(j))}
    BY <2>2, FewerLater
  <2> DEFINE T == {Later(Waits(j)) : j \in S}
  <2>4. T \in SUBSET SUBSET Petition /\ T # {}
    BY DEF Later
  <2>5. ASSUME NEW x \in T
        PROVE  \E y \in T : y \in (SUBSET x) \ {x}
    <3>1. PICK j \in S : x = Later(Waits(j))
      OBVIOUS
    <3>2. PICK k \in S : Later(Waits(k)) \in
                            (SUBSET Later(Waits(j))) \ {Later(Waits(j))}
      BY <2>3
    <3> QED
      BY <3>1, <3>2
  <2> HIDE DEF T
  <2>6. PICK x \in T : \A y \in T : y \notin (SUBSET x) \ {x}
    BY <2>4, SmallestSet
  <2> QED
    BY <2>5, <2>6
<1> QED
  BY <1>1, AlwaysIInv, PTL

----------------------------------------------------------------------------
(* The cluster implements the allocator. *)

(* A job that runs holds all it asked for. *)
LEMMA RunningHolds ==
    ASSUME IInv, NEW j \in running, NEW n \in Node, NEW t \in resource_t,
           Need[j][n][t] > 0
    PROVE  j \in JobId /\ Entry(j, n, t) \in res[n].active
<1>1. j \in JobId /\ Live(owned, j)
  BY DEF IInv, TypeOK, JobsOK
<1>2. JobOK(owned, running, finished, j)
  BY <1>1 DEF IInv, JobsOK
<1> DEFINE b == Job(owned, j)
           k == Idx(owned, j)
<1>3. /\ b.petitions \in JobRequests(j) /\ k \in 1 .. Len(b.petitions)
      /\ k \in b.granted
      /\ \/ b.granted = 1 .. (k - 1)
         \/ b.granted = 1 .. k /\ k = Len(b.petitions)
  BY <1>2 DEF JobOK
<1>4. Len(b.petitions) \in Nat
  BY <1>1, <1>3, RequestFacts
<1>5. b.granted = 1 .. Len(b.petitions)
  <2> HIDE DEF b, k
  <2> QED
    BY <1>3, <1>4
<1>6. Place(n, t) \in Petitions(j)
  BY DEF Place, Petitions
<1>7. PICK i \in 1 .. Len(b.petitions) : b.petitions[i] = Place(n, t)
  BY <1>1, <1>3, <1>6, RequestFacts
<1>8. GrantedAt(owned, j, n, t)
  BY <1>1, <1>5, <1>7 DEF GrantedAt
<1> QED
  BY <1>1, <1>8 DEF IInv, TokensOK, TokenOK, Holds

(* What runs together fits: the units the jobs use are units their entries *)
(* hold at the servers, and those are within the machines.                 *)
LEMMA RunningFits == IInv => Alloc!FitTogether(running)
<1> SUFFICES ASSUME IInv, NEW n \in Node, NEW t \in resource_t
             PROVE  Alloc!Cardinality(Alloc!UnitsUsed(running, n, t)) <= Total[t]
  BY DEF Alloc!FitTogether
<1> DEFINE U == Alloc!UnitsUsed(running, n, t)
           V == Srv!Units(res[n].active, t)
           f == [u \in U |-> <<Entry(u[1], n, t), u[2]>>]
<1>1. /\ Total[t] \in Nat /\ running \subseteq JobId
      /\ \A j \in JobId : Need[j][n][t] \in Nat
  BY ClusterAssumption DEF IInv, TypeOK
<1>2. ASSUME NEW u \in U
      PROVE  /\ u[1] \in running /\ u[2] \in 1 .. Total[t]
             /\ u = <<u[1], u[2]>>
             /\ u[2] <= Need[u[1]][n][t]
  BY DEF Alloc!UnitsUsed
<1>3. ASSUME NEW u \in U
      PROVE  f[u] \in V
  <2>1. Need[u[1]][n][t] > 0 /\ u[1] \in JobId
    BY <1>1, <1>2
  <2>2. Entry(u[1], n, t) \in res[n].active
    BY <1>2, <2>1, RunningHolds
  <2>3. /\ Entry(u[1], n, t).resource_type = t
        /\ Entry(u[1], n, t).resource_quantity = Need[u[1]][n][t]
    BY <2>1, EntryFacts
  <2> QED
    BY <1>2, <2>2, <2>3 DEF Srv!Units
<1>4. ASSUME NEW u \in U, NEW v \in U, f[u] = f[v]
      PROVE  u = v
  <2>1. u[1] \in JobId /\ v[1] \in JobId
    BY <1>1, <1>2
  <2>2. Entry(u[1], n, t) = Entry(v[1], n, t) /\ u[2] = v[2]
    BY <1>4
  <2>3. u[1] = v[1]
    BY <2>1, <2>2, EntryFacts
  <2> QED
    BY <1>2, <2>2, <2>3
<1>5. f \in Injection(U, V)
  <2>1. f \in [U -> V]
    BY <1>3
  <2> HIDE DEF f
  <2> QED
    BY <1>4, <2>1 DEF Injection, IsInjective
<1>6. Within(res[n]) /\ res[n] \in Srv!Inventory
  BY DEF IInv, InventoriesOK, InventoryOK
<1>7. IsFiniteSet(V)
  <2>1. IsFiniteSet(1 .. Total[t])
    BY <1>1, FS_Interval
  <2>2. IsFiniteSet(res[n].active \X (1 .. Total[t]))
    BY <1>6, <2>1, FS_Product DEF Within
  <2>3. V \in SUBSET (res[n].active \X (1 .. Total[t]))
    BY DEF Srv!Units
  <2> QED
    BY <2>2, <2>3, FS_Subset
<1> HIDE DEF f, U, V
<1>8. IsFiniteSet(U) /\ Cardinality(U) <= Cardinality(V)
  BY <1>5, <1>7, FS_Injection
<1>9. Cardinality(U) \in Nat /\ Cardinality(V) \in Nat
  BY <1>7, <1>8, FS_CardinalityType
<1>10. Srv!Held(res[n].active, t) = Cardinality(V)
  BY DEF Srv!Held, V, Srv!Cardinality, Cardinality, IsFiniteSet, Srv!IsFiniteSet
<1>11. Alloc!Cardinality(U) = Cardinality(U)
  BY DEF Alloc!Cardinality, Cardinality, IsFiniteSet, Alloc!IsFiniteSet
<1>12. res[n].avail[t] \in Nat /\ res[n].avail[t] + Cardinality(V) <= Total[t]
  BY <1>6, <1>10 DEF Within, Srv!Inventory
<1>13. Cardinality(U) <= Total[t]
  BY <1>1, <1>8, <1>9, <1>12
<1> QED
  BY <1>11, <1>13 DEF U

(* JOB_GRANTED is given to a job only when everything it asked for fits    *)
(* beside all the jobs that run in the cluster, each job runs once, and    *)
(* only a job that runs finishes: every step of the agents is a step of    *)
(* the abstract allocator or leaves it alone.                              *)
THEOREM Refinement == Spec => ImplementsAllocator
<1> DEFINE avars == <<running, finished>>
<1>1. Init => Alloc!Init
  BY DEF Init, Alloc!Init
<1>1a. IInv' => (Alloc!FitTogether(running))'
  BY RunningFits, PTL
<1>2. ASSUME IInv, IInv', [Next]_vars
      PROVE  [Alloc!Next]_avars
  <2>1. ASSUME NEW m \in net, handle_granted(m)
        PROVE  [Alloc!Next]_avars
    <3>1. m \in Message /\ m.job \in JobId
      BY <1>2, MsgParts DEF IInv, TypeOK
    <3>2. /\ Live(owned, m.job) /\ Idx(owned, m.job) \notin Job(owned, m.job).granted
          /\ running' = running \cup {m.job} \/ running' = running
      BY <1>2, <2>1, <3>1, GrantedEffect DEF IInv
    <3>3. finished' = finished
      BY <2>1 DEF handle_granted
    <3>4. m.job \notin running /\ m.job \notin finished
      BY <1>2, <3>1, <3>2 DEF IInv, JobsOK, JobOK
    <3>5. CASE running' = running
      BY <3>3, <3>5
    <3>6. CASE running' = running \cup {m.job}
      <4>1. Alloc!FitTogether(running')
        BY <1>1a, <1>2 DEF Alloc!FitTogether, Alloc!UnitsUsed
      <4>2. Alloc!Start(m.job)
        BY <3>1, <3>3, <3>4, <3>6, <4>1 DEF Alloc!Start
      <4> QED
        BY <3>1, <4>2 DEF Alloc!Next
    <3> QED
      BY <3>2, <3>5, <3>6
  <2>2. ASSUME NEW j \in JobId, handle_job_release(j)
        PROVE  [Alloc!Next]_avars
    <3>1. Alloc!Finish(j)
      BY <2>2 DEF handle_job_release, Alloc!Finish
    <3> QED
      BY <3>1 DEF Alloc!Next
  <2>3. ASSUME UNCHANGED <<running, finished>>
        PROVE  [Alloc!Next]_avars
    BY <2>3
  <2>4. ASSUME NEW j \in JobId, handle_job_request(j) PROVE [Alloc!Next]_avars
    BY <2>3, <2>4 DEF handle_job_request
  <2>4a. ASSUME NEW j \in JobId, handle_empty_job_request(j)
         PROVE  [Alloc!Next]_avars
    BY <2>3, <2>4a DEF handle_empty_job_request
  <2>5. ASSUME NEW m \in net, handle_reserve(m) PROVE [Alloc!Next]_avars
    BY <2>3, <2>5 DEF handle_reserve
  <2>6. ASSUME NEW m \in net, handle_release(m) PROVE [Alloc!Next]_avars
    BY <2>3, <2>6 DEF handle_release
  <2>7. ASSUME NEW n \in Node, NEW t \in resource_t, serve_queued(n, t)
        PROVE  [Alloc!Next]_avars
    BY <2>3, <2>7 DEF serve_queued
  <2>8. ASSUME NEW n \in Node, release_done(n) PROVE [Alloc!Next]_avars
    BY <2>3, <2>8 DEF release_done
  <2>9. CASE UNCHANGED vars
    BY <2>3, <2>9 DEF vars
  <2> QED
    BY <1>2, <2>1, <2>2, <2>4, <2>4a, <2>5, <2>6, <2>7, <2>8, <2>9 DEF Next
<1> QED
  BY <1>1, <1>2, AlwaysIInv, PTL DEF Spec, ImplementsAllocator, Alloc!Spec
=============================================================================
