------------------------ MODULE JobCoordinatorProofs ------------------------
(***************************************************************************)
(* Proofs about JobCoordinator, for any jobs, nodes, limits and failures,  *)
(* the unlocked lookup of handle_job_request included.  The invariants     *)
(* build on each other:                                                    *)
(*                                                                         *)
(*   IInv  the table and the types; petitions are reserved in order        *)
(*   TInv  a petition that waits for an answer is in one place at a time   *)
(*   AInv  TInv, and what the schedulers were answered                     *)
(*   LInv  TInv, and which connections are broken                          *)
(*   HInv  LInv, and what is marked granted is held                        *)
(*   RInv  LInv, and what was recorded is owned or released                *)
(***************************************************************************)
EXTENDS JobCoordinator, FiniteSetTheorems, SequenceTheorems, TLAPS

JobOK(job) ==
    /\ job \in OwnedJob
    /\ Len(job.petitions) <= MAX_JOB_RESOURCES
    /\ InOrder(job)

TableOK(T) ==
    /\ DOMAIN T \subseteq JobId
    /\ \A j \in DOMAIN T : /\ JobOK(T[j])
                           /\ T[j].petitions = Recorded(PetitionsOf[j])

(* A job whose handle_job_request has yet to look it up has dispatched     *)
(* nothing; without this first_reserve could dispatch a second petition    *)
(* while the first is unanswered.                                          *)
Fresh(T, R) == \A j \in R \cap DOMAIN T : T[j].next_reserve_idx = 0

(* The types of everything but the table. *)
RestOK ==
    /\ asked \subseteq JobId /\ finished \subseteq JobId
    /\ alive \subseteq Client
    /\ registered \subseteq JobId /\ copying \subseteq JobId
    /\ answers \in [JobId -> [AnswerTag -> Nat]]
    /\ net \subseteq Message
    /\ waiting \subseteq Reservation /\ held \subseteq Reservation
    /\ acked \subseteq Reservation
    /\ epoch \in [Node -> Nat]
    /\ lost \subseteq Node \X Nat
    /\ zombie \subseteq Node

(* The petition first_send copies exists. *)
Dispatched(C) == \A j \in C : PetitionsOf[j] # << >>

IInv ==
    /\ TableOK(owned)
    /\ Fresh(owned, registered)
    /\ Dispatched(copying)
    /\ RestOK

(* The parts of the inductive invariant are the properties of the runs.    *)
LEMMA IInvImplies == IInv => TypeOK /\ ReservedInOrder
BY DEF IInv, TableOK, JobOK, RestOK, TypeOK, ReservedInOrder

----------------------------------------------------------------------------
(* append_petition_to_job keeps a list of petitions, cut to the array. *)
LEMMA RecordedType ==
    ASSUME NEW list \in Seq(Petition)
    PROVE  /\ Recorded(list) \in Seq(Petition)
           /\ Len(Recorded(list)) <= MAX_JOB_RESOURCES
<1>1. CASE Len(list) <= MAX_JOB_RESOURCES
  BY <1>1 DEF Recorded
<1>2. CASE ~(Len(list) <= MAX_JOB_RESOURCES)
  <2>1. Len(list) \in Nat /\ MAX_JOB_RESOURCES \in Nat \ {0}
    BY OwnedJobsAssumption, LenProperties
  <2>2. Recorded(list) = SubSeq(list, 1, MAX_JOB_RESOURCES)
    BY <1>2 DEF Recorded
  <2>3. /\ SubSeq(list, 1, MAX_JOB_RESOURCES) \in Seq(Petition)
        /\ Len(SubSeq(list, 1, MAX_JOB_RESOURCES)) = MAX_JOB_RESOURCES
    BY <1>2, <2>1, SubSeqProperties
  <2> QED  BY <2>1, <2>2, <2>3
<1> QED  BY <1>1, <1>2

(* add_new_owned_job puts a job in the table that has dispatched nothing. *)
LEMMA AddOK ==
    ASSUME NEW T, TableOK(T), NEW j \in JobId, NEW c \in Client
    PROVE  /\ TableOK(add_new_owned_job(T, j, c, PetitionsOf[j]))
           /\ \A R : Fresh(T, R) =>
                   Fresh(add_new_owned_job(T, j, c, PetitionsOf[j]), R \cup {j})
<1> DEFINE list == PetitionsOf[j]
           new  == [owner_socket     |-> c,
                   grant_notified   |-> FALSE,
                   petitions        |-> Recorded(list),
                   next_reserve_idx |-> 0,
                   granted          |-> {}]
           U    == add_new_owned_job(T, j, c, PetitionsOf[j])
<1>0. list \in Seq(Petition)
  BY JobCoordinatorAssumption
<1>1. Recorded(list) \in Seq(Petition) /\ Len(Recorded(list)) <= MAX_JOB_RESOURCES
  BY <1>0, RecordedType
<1>2. Len(Recorded(list)) \in Nat
  BY <1>1, LenProperties
<1>3. new \in OwnedJob
  BY <1>1 DEF OwnedJob
<1>4. {} = 1 .. 0 /\ (Len(Recorded(list)) > 0 => {} # 1 .. Len(Recorded(list)))
  <2>1. ASSUME Len(Recorded(list)) > 0
        PROVE  1 \in 1 .. Len(Recorded(list))
    BY <1>2, <2>1
  <2> QED  BY <2>1
<1>5. InOrder(new)
  BY <1>2, <1>4 DEF InOrder
<1>6. JobOK(new)
  BY <1>1, <1>3, <1>5 DEF JobOK
<1>7. /\ DOMAIN U = DOMAIN T \cup {j}
      /\ U[j] = new
      /\ \A k \in DOMAIN T \ {j} : U[k] = T[k]
  BY DEF add_new_owned_job
<1>8. new.next_reserve_idx = 0 /\ new.petitions = Recorded(PetitionsOf[j])
  OBVIOUS
<1> HIDE DEF new, U
<1>9. TableOK(U)
  BY <1>6, <1>7, <1>8 DEF TableOK
<1>10. \A R : Fresh(T, R) => Fresh(U, R \cup {j})
  BY <1>7, <1>8 DEF Fresh
<1> QED  BY <1>9, <1>10 DEF U

(* remove_owned_job leaves the other jobs as they are. *)
LEMMA RemoveOK ==
    ASSUME NEW T, NEW X, TableOK(T)
    PROVE  /\ TableOK(remove_owned_job(T, X))
           /\ \A R : Fresh(T, R) => Fresh(remove_owned_job(T, X), R)
BY DEF TableOK, Fresh, remove_owned_job

(* get_next_reserve keeps the order when everything dispatched so far has  *)
(* been granted.                                                           *)
LEMMA NextReserveOK ==
    ASSUME NEW T, TableOK(T), NEW j \in DOMAIN T, HasNext(T[j]),
           T[j].granted = 1 .. T[j].next_reserve_idx
    PROVE  TableOK(get_next_reserve(T, j))
<1> DEFINE job == T[j]
           i   == job.next_reserve_idx
           new == [job EXCEPT !.next_reserve_idx = i + 1]
           U   == get_next_reserve(T, j)
<1>1. JobOK(job)
  BY DEF TableOK
<1>2. job \in OwnedJob /\ i \in Nat /\ Len(job.petitions) \in Nat
  BY <1>1, LenProperties DEF JobOK, OwnedJob
<1>3. /\ new \in OwnedJob
      /\ new.next_reserve_idx = i + 1
      /\ new.petitions = job.petitions /\ new.granted = job.granted
      /\ new.grant_notified = job.grant_notified
  BY <1>2 DEF OwnedJob
<1>4. i + 1 <= Len(job.petitions)
  BY <1>2 DEF HasNext
<1>5. (i + 1) - 1 = i
  BY <1>2
<1>6. job.granted = 1 .. ((i + 1) - 1)
  BY <1>5
<1>7. InOrder(new)
  BY <1>1, <1>3, <1>4, <1>6 DEF InOrder, JobOK
<1>8. JobOK(new)
  BY <1>1, <1>3, <1>7 DEF JobOK
<1>9. /\ DOMAIN U = DOMAIN T
      /\ U[j] = new
      /\ \A k \in DOMAIN T \ {j} : U[k] = T[k]
  BY DEF get_next_reserve
<1> HIDE DEF new, U
<1>10. TableOK(U)
  BY <1>3, <1>8, <1>9 DEF TableOK
<1> QED  BY <1>10 DEF U

(* mark_petition_as_granted: the petitions dispatched are now all granted, *)
(* and grant_notified tells whether they are all there are.                *)
LEMMA MarkOK ==
    ASSUME NEW T, TableOK(T), NEW j, NEW n, Expected(T, j, n)
    PROVE  LET U == mark_petition_as_granted(T, j)
           IN  /\ TableOK(U)
               /\ DOMAIN U = DOMAIN T
               /\ U[j].next_reserve_idx = T[j].next_reserve_idx
               /\ U[j].granted = 1 .. U[j].next_reserve_idx
               /\ U[j].petitions = T[j].petitions
               /\ \A k \in DOMAIN T \ {j} : U[k] = T[k]
<1> DEFINE job == T[j]
           i   == job.next_reserve_idx
           L   == Len(job.petitions)
           g   == job.granted \cup {i}
           new == [job EXCEPT !.granted = g,
                              !.grant_notified = @ \/ AllGranted(job, g)]
           U   == mark_petition_as_granted(T, j)
<1>1. j \in DOMAIN T /\ i # 0 /\ i \notin job.granted
  BY DEF Expected
<1>2. JobOK(job)
  BY <1>1 DEF TableOK
<1>3. /\ job \in OwnedJob /\ i \in Nat /\ L \in Nat
      /\ job.granted \subseteq Nat /\ job.grant_notified \in BOOLEAN
  BY <1>2, LenProperties DEF JobOK, OwnedJob
<1>4. i <= L /\ i \in 1 .. i
  BY <1>1, <1>2, <1>3 DEF JobOK, InOrder
<1>5. job.granted = 1 .. (i - 1)
  BY <1>1, <1>2, <1>4 DEF JobOK, InOrder
<1>6. g = 1 .. i
  BY <1>1, <1>3, <1>5
<1>7. i \in 1 .. L /\ L > 0
  BY <1>1, <1>3, <1>4
<1>8. ~job.grant_notified
  BY <1>1, <1>2, <1>7 DEF JobOK, InOrder
<1>9. AllGranted(job, g) <=> g = 1 .. L
  <2>1. ASSUME 1 .. L \subseteq 1 .. i  PROVE 1 .. i = 1 .. L
    <3>1. L \in 1 .. L
      BY <1>3, <1>7
    <3>2. L <= i
      BY <1>3, <2>1, <3>1
    <3> QED  BY <1>3, <1>4, <3>2
  <2> QED  BY <2>1, <1>6 DEF AllGranted
<1>10. /\ new.granted = g
       /\ new.grant_notified = (job.grant_notified \/ AllGranted(job, g))
       /\ new.petitions = job.petitions
       /\ new.next_reserve_idx = i
       /\ new.owner_socket = job.owner_socket
  BY <1>3 DEF OwnedJob
<1>11. g \in SUBSET Nat
  BY <1>3
<1>12. (job.grant_notified \/ AllGranted(job, g)) \in BOOLEAN
  BY <1>3 DEF AllGranted
<1>13. new \in OwnedJob
  BY <1>3, <1>11, <1>12 DEF OwnedJob
<1>14. InOrder(new)
  <2>1. new.grant_notified <=> g = 1 .. L
    BY <1>8, <1>9, <1>10
  <2> HIDE DEF new, g
  <2> QED  BY <2>1, <1>4, <1>6, <1>7, <1>10 DEF InOrder
<1>15. JobOK(new)
  BY <1>2, <1>10, <1>13, <1>14 DEF JobOK
<1>16. /\ DOMAIN U = DOMAIN T
       /\ U[j] = new
       /\ \A k \in DOMAIN T \ {j} : U[k] = T[k]
  BY <1>1 DEF mark_petition_as_granted
<1> HIDE DEF new, U, g
<1>17. TableOK(U)
  BY <1>10, <1>15, <1>16 DEF TableOK
<1> QED  BY <1>6, <1>10, <1>16, <1>17 DEF U

----------------------------------------------------------------------------
(* The messages of a handler are messages. *)
LEMMA MsgType ==
    ASSUME RestOK, NEW kind \in {"RESERVE", "RELEASE", "GRANTED", "DENIED"},
           NEW j \in JobId, NEW p \in Petition
    PROVE  Msg(kind, j, p) \in Message
BY DEF RestOK, Msg, Message, Petition

(* get_granted_resources only names petitions of the job, so a rollback    *)
(* sends RELEASE messages to real addresses.                               *)
LEMMA ReleasesType ==
    ASSUME RestOK, TableOK(owned), NEW j \in DOMAIN owned
    PROVE  Releases(j) \subseteq Message
<1>1. JobOK(owned[j]) /\ j \in JobId
  BY DEF TableOK
<1>2. /\ owned[j].petitions \in Seq(Petition)
      /\ owned[j].next_reserve_idx \in Nat
      /\ owned[j].next_reserve_idx <= Len(owned[j].petitions)
  BY <1>1 DEF JobOK, OwnedJob, InOrder
<1>3. \A i \in get_granted_resources(owned[j]) : owned[j].petitions[i] \in Petition
  <2> SUFFICES ASSUME NEW i \in get_granted_resources(owned[j])
               PROVE  owned[j].petitions[i] \in Petition
    OBVIOUS
  <2>1. i \in 1 .. owned[j].next_reserve_idx
    BY DEF get_granted_resources
  <2>2. i \in 1 .. Len(owned[j].petitions)
    BY <1>2, <2>1, LenProperties
  <2> QED  BY <1>2, <2>2, ElementOfSeq
<1> QED  BY <1>1, <1>3, MsgType DEF Releases

(* add_to_outbox takes no message that the handler did not make. *)
LEMMA OutboxesType ==
    ASSUME NEW X, NEW R, NEW answering, NEW K \in Outboxes(X, R, answering)
    PROVE  MessagesIn(K) \subseteq R
<1> SUFFICES ASSUME NEW m \in K, m.kind # "ANSWER"
             PROVE  m \in R
  BY DEF MessagesIn
<1>1. m \in R \/ m \in {AnswerEntry(j) : j \in X}
  BY DEF Outboxes
<1>2. \A j : AnswerEntry(j).kind = "ANSWER"
  BY DEF AnswerEntry
<1> QED  BY <1>1, <1>2

(* An answer to the scheduler is counted for the jobs concerned. *)
LEMMA AnsweredType ==
    ASSUME RestOK, NEW X,
           NEW a \in {"JOB_GRANTED", "JOB_DENIED", "JOB_TIMEOUT"}
    PROVE  Answered(X, a) \in [JobId -> [AnswerTag -> Nat]]
<1>1. answers \in [JobId -> [AnswerTag -> Nat]] /\ a \in AnswerTag
  BY DEF RestOK, AnswerTag
<1>2. \A j \in JobId : [answers[j] EXCEPT ![a] = @ + 1] \in [AnswerTag -> Nat]
  BY <1>1
<1> QED  BY <1>1, <1>2 DEF Answered

(* What a handler puts on the network are messages. *)
LEMMA DeliverableType ==
    ASSUME NEW M, NEW broken, M \subseteq Message
    PROVE  Deliverable(M, broken) \subseteq Message
BY DEF Deliverable

(* The jobs a visitor of the table collects are in the table. *)
LEMMA CollectedType ==
    ASSUME NEW S, NEW max, NEW X \in Collected(S, max)
    PROVE  X \subseteq S
BY DEF Collected

(* A message or a reservation turned into the other. *)
LEMMA ServerTypes ==
    ASSUME NEW r \in Message \cup Reservation
    PROVE  /\ ReservationOf(r) \in Reservation
           /\ Reply("GRANTED", r) \in Message
           /\ Reply("DENIED", r) \in Message
BY DEF Message, Reservation, ReservationOf, Reply

----------------------------------------------------------------------------
(* The initial state: an empty table. *)
LEMMA InitIInv == Init => IInv
<1> SUFFICES ASSUME Init PROVE IInv
  OBVIOUS
<1>1. TableOK(owned) /\ Fresh(owned, registered) /\ Dispatched(copying)
  <2>1. DOMAIN owned = {} /\ copying = {}
    BY DEF Init
  <2> QED  BY <2>1 DEF TableOK, Fresh, Dispatched
<1>2. Unanswered \in [AnswerTag -> Nat]
  BY DEF Unanswered
<1>3. RestOK
  BY <1>2 DEF Init, RestOK
<1> QED  BY <1>1, <1>3 DEF IInv

(* What the proof of a step comes down to for the actions that leave the   *)
(* requests being registered alone and only shrink the table.              *)
LEMMA ShrinkIInv ==
    ASSUME IInv, NEW X, owned' = remove_owned_job(owned, X),
           UNCHANGED <<registered, copying>>, RestOK'
    PROVE  IInv'
<1>1. TableOK(owned') /\ Fresh(owned', registered)
  BY RemoveOK DEF IInv
<1> QED  BY <1>1 DEF IInv, TableOK, Fresh, Dispatched

(* ... and for those that leave the table alone too. *)
LEMMA SameIInv ==
    ASSUME IInv, UNCHANGED <<owned, registered, copying>>, RestOK'
    PROVE  IInv'
BY DEF IInv, TableOK, Fresh, Dispatched

(* Every step preserves the invariant: one step of the proof per action,   *)
(* the handlers first, then the failures, then the servers.                *)
LEMMA NextIInv == IInv /\ [Next]_vars => IInv'
<1> SUFFICES ASSUME IInv, [Next]_vars PROVE IInv'
  OBVIOUS
<1> USE DEF vars, jobVars, srvVars, linkVars, reqVars, erlVars
<1>0. /\ TableOK(owned) /\ Fresh(owned, registered) /\ Dispatched(copying)
      /\ RestOK
  BY DEF IInv
<1>1. ASSUME NEW j \in JobId, NEW c \in Client, handle_job_request(j, c)
      PROVE  IInv'
  <2>1. TableOK(owned') /\ Fresh(owned', registered \cup {j})
    BY <1>0, <1>1, AddOK DEF handle_job_request
  <2>2. RestOK'
    BY <1>0, <1>1 DEF handle_job_request, RestOK
  <2> QED  BY <1>0, <1>1, <2>1, <2>2
           DEF IInv, handle_job_request, TableOK, Fresh, Dispatched
<1>2. ASSUME NEW j \in JobId, first_reserve(j)
      PROVE  IInv'
  <2>1. RestOK'
    BY <1>0, <1>2 DEF first_reserve, RestOK
  <2>2. CASE UNCHANGED <<owned, copying>>
    BY <1>0, <1>2, <2>1, <2>2 DEF first_reserve, IInv, TableOK, Fresh, Dispatched
  <2>3. CASE /\ j \in DOMAIN owned
             /\ HasNext(owned[j])
             /\ owned' = get_next_reserve(owned, j)
             /\ copying' = copying \cup {j}
    <3>1. owned[j].next_reserve_idx = 0
      BY <1>0, <1>2, <2>3 DEF Fresh, first_reserve
    <3>2. owned[j].granted \subseteq 1 .. 0
      BY <1>0, <2>3, <3>1 DEF TableOK, JobOK, InOrder
    <3>3. owned[j].granted = 1 .. owned[j].next_reserve_idx
      BY <3>1, <3>2
    <3>4. TableOK(owned')
      BY <1>0, <2>3, <3>3, NextReserveOK
    <3>5. registered' = registered \ {j}
      BY <1>2 DEF first_reserve
    <3>6. /\ DOMAIN owned' = DOMAIN owned
          /\ \A k \in DOMAIN owned \ {j} : owned'[k] = owned[k]
      BY <2>3 DEF get_next_reserve
    <3>7. Fresh(owned', registered')
      BY <1>0, <3>5, <3>6 DEF Fresh
    <3>8. PetitionsOf[j] # << >>
      <4>1. owned[j].petitions = Recorded(PetitionsOf[j])
        BY <1>0, <2>3 DEF TableOK
      <4>2. 0 < Len(Recorded(PetitionsOf[j]))
        BY <2>3, <3>1, <4>1 DEF HasNext
      <4>3. Recorded(<< >>) = << >> /\ Len(<< >>) = 0
        BY EmptySeq, OwnedJobsAssumption DEF Recorded
      <4> QED  BY <4>2, <4>3
    <3>9. Dispatched(copying')
      BY <1>0, <2>3, <3>8 DEF Dispatched
    <3> QED  BY <2>1, <3>4, <3>7, <3>9 DEF IInv, TableOK, Fresh, Dispatched
  <2> QED  BY <1>2, <2>2, <2>3 DEF first_reserve
<1>3. ASSUME NEW j \in JobId, first_send(j)
      PROVE  IInv'
  <2> DEFINE p == PetitionsOf[j][1]
  <2>1. UNCHANGED <<owned, registered>> /\ copying' = copying \ {j}
    BY <1>3 DEF first_send
  <2>2. p \in Petition
    <3>1. PetitionsOf[j] # << >> /\ PetitionsOf[j] \in Seq(Petition)
      BY <1>0, <1>3, JobCoordinatorAssumption DEF first_send, Dispatched
    <3> QED  BY <3>1, HeadTailProperties
  <2>3. \A n \in Node : [p EXCEPT !.node = n] \in Petition
    BY <2>2 DEF Petition
  <2>4. \A q \in Petition :
            Deliverable({Msg("RESERVE", j, q)}, lost) \subseteq Message
    BY <1>0, MsgType, DeliverableType
  <2>5. net \subseteq Message
    BY <1>0 DEF RestOK
  <2>6. net' \subseteq Message
    BY <1>3, <2>2, <2>3, <2>4, <2>5 DEF first_send
  <2>7. RestOK'
    BY <1>0, <1>3, <2>6 DEF first_send, RestOK
  <2> QED  BY <1>0, <2>1, <2>7 DEF IInv, TableOK, Fresh, Dispatched
<1>4. ASSUME NEW m \in net, handle_granted(m)
      PROVE  IInv'
  <2> DEFINE j == m.job
             i == owned[j].next_reserve_idx
             T == mark_petition_as_granted(owned, j)
  <2>1. m \in Message /\ net \subseteq Message /\ acked \subseteq Reservation
    BY <1>0 DEF RestOK
  <2>2. UNCHANGED <<registered, copying>>
    BY <1>4 DEF handle_granted
  <2>3. CASE ~Expected(owned, j, m.node)
    <3>1. UNCHANGED owned /\ RestOK'
      BY <1>0, <1>4, <2>3 DEF handle_granted, RestOK
    <3> QED  BY <2>2, <3>1, SameIInv
  <2>4. CASE Expected(owned, j, m.node)
    <3>1. j \in DOMAIN owned /\ i # 0
      BY <2>4 DEF Expected
    <3>2. JobOK(owned[j])
      BY <1>0, <3>1 DEF TableOK
    <3>3. /\ owned[j].petitions \in Seq(Petition) /\ i \in Nat
          /\ i <= Len(owned[j].petitions)
      BY <3>2 DEF JobOK, OwnedJob, InOrder
    <3>4. owned[j].petitions[i] \in Petition
      BY <3>1, <3>3, LenProperties, ElementOfSeq
    <3>5. /\ TableOK(T) /\ DOMAIN T = DOMAIN owned
          /\ T[j].next_reserve_idx = i
          /\ T[j].granted = 1 .. T[j].next_reserve_idx
          /\ T[j].petitions = owned[j].petitions
          /\ \A k \in DOMAIN owned \ {j} : T[k] = owned[k]
      BY <1>0, <2>4, MarkOK
    <3>6. j \notin registered
      BY <1>0, <3>1 DEF Fresh
    <3> HIDE DEF T
    <3>7. Fresh(T, registered)
      BY <1>0, <3>5, <3>6 DEF Fresh
    <3>8. acked' \subseteq Reservation
      <4>1. [job |-> j, node |-> m.node, conn |-> m.conn,
             type |-> owned[j].petitions[i].type] \in Reservation
        BY <2>1, <3>4 DEF Message, Petition, Reservation
      <4> QED  BY <1>4, <2>1, <2>4, <4>1 DEF handle_granted
    <3>9. CASE /\ owned' = T
               /\ answers' = Answered({j}, "JOB_GRANTED")
               /\ net' = net \ {m}
      <4>1. RestOK'
        BY <1>0, <1>4, <3>8, <3>9, AnsweredType DEF handle_granted, RestOK
      <4> QED  BY <1>0, <2>2, <3>5, <3>7, <3>9, <4>1
               DEF IInv, TableOK, Fresh, Dispatched
    <3>10. CASE /\ HasNext(T[j])
                /\ owned' = get_next_reserve(T, j)
                /\ net' = (net \ {m}) \cup Deliverable(
                      {Msg("RESERVE", j, owned[j].petitions[i + 1])}, lost)
                /\ UNCHANGED answers
      <4>1. TableOK(owned')
        BY <3>1, <3>5, <3>10, NextReserveOK
      <4>2. /\ DOMAIN owned' = DOMAIN T
            /\ \A k \in DOMAIN T \ {j} : owned'[k] = T[k]
        BY <3>10 DEF get_next_reserve
      <4>3. Fresh(owned', registered)
        BY <3>6, <3>7, <4>2 DEF Fresh
      <4>4. i + 1 \in 1 .. Len(owned[j].petitions)
        BY <3>3, <3>5, <3>10, LenProperties DEF HasNext
      <4>5. owned[j].petitions[i + 1] \in Petition
        BY <3>3, <4>4, ElementOfSeq
      <4>6. j \in JobId
        BY <2>1 DEF Message
      <4>7. Msg("RESERVE", j, owned[j].petitions[i + 1]) \in Message
        BY <1>0, <4>5, <4>6, MsgType
      <4>8. net' \subseteq Message
        BY <2>1, <3>10, <4>7, DeliverableType
      <4>9. RestOK'
        BY <1>0, <1>4, <3>8, <3>10, <4>8 DEF handle_granted, RestOK
      <4> QED  BY <1>0, <2>2, <4>1, <4>3, <4>9
               DEF IInv, TableOK, Fresh, Dispatched
    <3> QED  BY <1>4, <2>4, <3>9, <3>10 DEF handle_granted, T
  <2> QED  BY <2>3, <2>4
<1>5. ASSUME NEW m \in net, handle_denied(m)
      PROVE  IInv'
  <2> DEFINE j == m.job
             R == IF j \in DOMAIN owned THEN Releases(j) ELSE {}
  <2>1. PICK K \in Outboxes({j}, R, TRUE) :
            /\ net' = (net \ {m}) \cup Deliverable(MessagesIn(K), lost)
            /\ answers' = Answered(AnswersIn(K), "JOB_DENIED")
    BY <1>5 DEF handle_denied
  <2>2. R \subseteq Message
    BY <1>0, ReleasesType
  <2>3. Deliverable(MessagesIn(K), lost) \subseteq Message
    BY <2>2, OutboxesType, DeliverableType
  <2>4. answers' \in [JobId -> [AnswerTag -> Nat]]
    BY <1>0, <2>1, AnsweredType
  <2>5. RestOK'
    BY <1>0, <1>5, <2>1, <2>3, <2>4 DEF handle_denied, RestOK
  <2> QED  BY <1>5, <2>5, ShrinkIInv DEF handle_denied
<1>6. ASSUME NEW j \in JobId, handle_job_release(j)
      PROVE  IInv'
  <2> DEFINE R == IF j \in DOMAIN owned THEN Releases(j) ELSE {}
  <2>1. PICK K \in Outboxes({j}, R, FALSE) :
            net' = net \cup Deliverable(MessagesIn(K), lost)
    BY <1>6 DEF handle_job_release
  <2>2. R \subseteq Message
    BY <1>0, ReleasesType
  <2>3. Deliverable(MessagesIn(K), lost) \subseteq Message
    BY <2>2, OutboxesType, DeliverableType
  <2>4. RestOK'
    BY <1>0, <1>6, <2>1, <2>3 DEF handle_job_release, RestOK
  <2> QED  BY <1>6, <2>4, ShrinkIInv DEF handle_job_release
<1>7. ASSUME NEW X \in SUBSET JobId, check_timeouts(X)
      PROVE  IInv'
  <2> DEFINE R == UNION {Releases(j) : j \in X}
  <2>1. X \subseteq DOMAIN owned
    BY <1>7 DEF check_timeouts, MayTimeOut
  <2>2. R \subseteq Message
    BY <1>0, <2>1, ReleasesType
  <2>3. Deliverable(R, lost) \subseteq Message
    BY <2>2, DeliverableType
  <2>4. answers' \in [JobId -> [AnswerTag -> Nat]]
    BY <1>0, <1>7, AnsweredType DEF check_timeouts
  <2>5. RestOK'
    BY <1>0, <1>7, <2>3, <2>4 DEF check_timeouts, RestOK
  <2> QED  BY <1>7, <2>5, ShrinkIInv DEF check_timeouts
<1>8. ASSUME NEW c \in Client, handle_scheduler_disconnected(c)
      PROVE  IInv'
  <2>1. PICK X \in Collected(OrphansOf(owned, c), MAX_ORPHANS) :
            /\ owned' = remove_owned_job(owned, X)
            /\ \E K \in Outboxes(X, UNION {Releases(j) : j \in X}, FALSE) :
                  net' = net \cup Deliverable(MessagesIn(K), lost)
    BY <1>8 DEF handle_scheduler_disconnected
  <2> DEFINE R == UNION {Releases(j) : j \in X}
  <2>2. PICK K \in Outboxes(X, R, FALSE) :
            net' = net \cup Deliverable(MessagesIn(K), lost)
    BY <2>1
  <2>3. X \subseteq DOMAIN owned
    BY CollectedType DEF OrphansOf
  <2>4. R \subseteq Message
    BY <1>0, <2>3, ReleasesType
  <2>5. Deliverable(MessagesIn(K), lost) \subseteq Message
    BY <2>4, OutboxesType, DeliverableType
  <2>6. RestOK'
    BY <1>0, <1>8, <2>2, <2>5 DEF handle_scheduler_disconnected, RestOK
  <2> QED  BY <1>8, <2>1, <2>6, ShrinkIInv DEF handle_scheduler_disconnected
<1>9. ASSUME NEW n \in Node, link_lost(n)
      PROVE  IInv'
  <2>1. <<n, epoch[n]>> \in Node \X Nat
    BY <1>0 DEF RestOK
  <2>2. RestOK'
    BY <1>0, <1>9, <2>1 DEF link_lost, RestOK
  <2> QED  BY <1>9, <2>2, SameIInv DEF link_lost
<1>10. ASSUME NEW n \in Node, handle_node_disconnected(n)
       PROVE  IInv'
  <2>1. PICK X \in Collected(AffectedBy(owned, n), MAX_AFFECTED) :
            /\ owned' = remove_owned_job(owned, X)
            /\ \E K \in Outboxes(X, {m \in UNION {Releases(j) : j \in X} :
                                        m.node # n}, TRUE) :
                  /\ net' \subseteq net \cup Deliverable(MessagesIn(K), lost)
                  /\ answers' = Answered(AnswersIn(K), "JOB_DENIED")
    BY <1>10 DEF handle_node_disconnected
  <2> DEFINE R == {m \in UNION {Releases(j) : j \in X} : m.node # n}
  <2>2. PICK K \in Outboxes(X, R, TRUE) :
            /\ net' \subseteq net \cup Deliverable(MessagesIn(K), lost)
            /\ answers' = Answered(AnswersIn(K), "JOB_DENIED")
    BY <2>1
  <2>3. X \subseteq DOMAIN owned
    BY CollectedType DEF AffectedBy
  <2>4. R \subseteq Message
    BY <1>0, <2>3, ReleasesType
  <2>5. Deliverable(MessagesIn(K), lost) \subseteq Message
    BY <2>4, OutboxesType, DeliverableType
  <2>6. answers' \in [JobId -> [AnswerTag -> Nat]]
    BY <1>0, <2>2, AnsweredType
  <2>7. zombie' \subseteq Node
    BY <1>0, <1>10 DEF handle_node_disconnected, RestOK
  <2>8. RestOK'
    BY <1>0, <1>10, <2>2, <2>5, <2>6, <2>7 DEF handle_node_disconnected, RestOK
  <2> QED  BY <1>10, <2>1, <2>8, ShrinkIInv DEF handle_node_disconnected
<1>11. ASSUME NEW n \in Node, check_deadnodes(n)
       PROVE  IInv'
  <2>1. PICK X \in Collected(AffectedBy(owned, n), MAX_AFFECTED) :
            /\ owned' = remove_owned_job(owned, X)
            /\ \E K \in Outboxes(X, UNION {Releases(j) : j \in X}, TRUE) :
                  /\ net' = net \cup Deliverable(MessagesIn(K), lost')
                  /\ answers' = Answered(AnswersIn(K), "JOB_DENIED")
    BY <1>11 DEF check_deadnodes
  <2> DEFINE R == UNION {Releases(j) : j \in X}
  <2>2. PICK K \in Outboxes(X, R, TRUE) :
            /\ net' = net \cup Deliverable(MessagesIn(K), lost')
            /\ answers' = Answered(AnswersIn(K), "JOB_DENIED")
    BY <2>1
  <2>3. X \subseteq DOMAIN owned
    BY CollectedType DEF AffectedBy
  <2>4. R \subseteq Message
    BY <1>0, <2>3, ReleasesType
  <2>5. Deliverable(MessagesIn(K), lost') \subseteq Message
    BY <2>4, OutboxesType, DeliverableType
  <2>6. answers' \in [JobId -> [AnswerTag -> Nat]]
    BY <1>0, <2>2, AnsweredType
  <2>7. lost' \subseteq Node \X Nat /\ zombie' \subseteq Node
    BY <1>0, <1>11 DEF check_deadnodes, RestOK
  <2>8. RestOK'
    BY <1>0, <1>11, <2>2, <2>5, <2>6, <2>7 DEF check_deadnodes, RestOK
  <2> QED  BY <1>11, <2>1, <2>8, ShrinkIInv DEF check_deadnodes
<1>12. ASSUME NEW m \in net,
              \/ server_grants(m) \/ server_queues(m)
              \/ server_denies(m) \/ server_releases(m)
       PROVE  IInv'
  <2>1. m \in Message
    BY <1>0 DEF RestOK
  <2>2. /\ ReservationOf(m) \in Reservation
        /\ Deliverable({Reply("GRANTED", m)}, lost) \subseteq Message
        /\ Deliverable({Reply("DENIED", m)}, lost) \subseteq Message
    BY <2>1, ServerTypes, DeliverableType
  <2>3. RestOK'
    BY <1>0, <1>12, <2>2
       DEF server_grants, server_queues, server_denies, server_releases, RestOK
  <2> QED  BY <1>12, <2>3, SameIInv
           DEF server_grants, server_queues, server_denies, server_releases
<1>13. ASSUME NEW r \in waiting, server_serves_queued(r)
       PROVE  IInv'
  <2>1. r \in Reservation
    BY <1>0 DEF RestOK
  <2>2. Deliverable({Reply("GRANTED", r)}, lost) \subseteq Message
    BY <2>1, ServerTypes, DeliverableType
  <2>3. RestOK'
    BY <1>0, <1>13, <2>1, <2>2 DEF server_serves_queued, RestOK
  <2> QED  BY <1>13, <2>3, SameIInv DEF server_serves_queued
<1>14. ASSUME NEW n \in Node, NEW c \in 1 .. MaxConn, server_sweeps(n, c)
       PROVE  IInv'
  <2>1. RestOK'
    BY <1>0, <1>14 DEF server_sweeps, RestOK
  <2> QED  BY <1>14, <2>1, SameIInv DEF server_sweeps
<1>15. ASSUME NEW n \in Node, forget_connection(n)
       PROVE  IInv'
  <2>1. RestOK'
    BY <1>0, <1>15 DEF forget_connection, RestOK
  <2> QED  BY <1>15, <2>1, SameIInv DEF forget_connection
<1>16. CASE UNCHANGED vars
  <2>1. RestOK'
    BY <1>0, <1>16 DEF RestOK
  <2> QED  BY <1>16, <2>1, SameIInv
<1> QED
  BY <1>1, <1>2, <1>3, <1>4, <1>5, <1>6, <1>7, <1>8, <1>9, <1>10, <1>11,
     <1>12, <1>13, <1>14, <1>15, <1>16 DEF Next

----------------------------------------------------------------------------
(* The invariant, and with it the two theorems below, in every behaviour.  *)
LEMMA AlwaysIInv == Spec => []IInv
BY InitIInv, NextIInv, PTL DEF Spec

(* Type correctness of the coordinator: whatever fails, the table holds    *)
(* well-formed jobs, no job has more petitions than its array, and every   *)
(* RESERVE or RELEASE goes to an address the request named.                *)
THEOREM TypeCorrect == Spec => []TypeOK
BY AlwaysIInv, IInvImplies, PTL

(* get_next_reserve and mark_petition_as_granted keep the reservations of  *)
(* a job in the order of its request, one outstanding at a time, for any   *)
(* requests and limits and through every interleaving of handlers, answers *)
(* and failures.                                                           *)
THEOREM ReservesInOrder == Spec => []ReservedInOrder
BY AlwaysIInv, IInvImplies, PTL

----------------------------------------------------------------------------
(***************************************************************************)
(* The petition of a job that waits for an answer is in one place at a     *)
(* time: about to be sent, on its way as a RESERVE, in the queue of a      *)
(* server, or answered by a GRANTED or a DENIED that is on its way.  This  *)
(* is what lets handle_granted take an answer from the right node for the  *)
(* answer to the last petition, though no message names its petition.      *)
(***************************************************************************)
Open(job) ==
    /\ job.next_reserve_idx # 0
    /\ job.next_reserve_idx \notin job.granted

(* Message or reservation x is about the petition its job waits for. *)
Names(T, x) ==
    /\ Open(T[x.job])
    /\ T[x.job].petitions[T[x.job].next_reserve_idx].node = x.node
    /\ T[x.job].petitions[T[x.job].next_reserve_idx].type = x.type

Asks(T, m) == m.kind # "RELEASE" /\ m.job \in DOMAIN T

InNet(T, N, W, C) ==
    \A m \in N : Asks(T, m) =>
        /\ Names(T, m)
        /\ m.job \notin C
        /\ \A l \in N : Asks(T, l) /\ l.job = m.job => l = m
        /\ \A r \in W : r.job # m.job

InQueue(T, W, C) ==
    \A r \in W : r.job \in DOMAIN T =>
        /\ Names(T, r)
        /\ r.job \notin C
        /\ \A s \in W : s.job = r.job => s = r

InWorker(T, C) ==
    \A j \in C \cap DOMAIN T :
        T[j].next_reserve_idx = 1 /\ T[j].granted = {}

(* A job that is being released is not in the table any more. *)
NotReleased(T, N) ==
    \A m \in N : m.kind = "RELEASE" => m.job \notin DOMAIN T

TokensOK(T, N, W, C) ==
    /\ InNet(T, N, W, C) /\ InQueue(T, W, C) /\ InWorker(T, C)
    /\ NotReleased(T, N)

(* Nothing is known of a job that has not been asked for. *)
AskedOK(T, A, N, W, C, R, K) ==
    /\ DOMAIN T \subseteq A /\ C \subseteq A /\ R \subseteq A
    /\ \A x \in N : x.job \in A
    /\ \A x \in W : x.job \in A
    /\ \A x \in K : x.job \in A

TInv ==
    /\ IInv
    /\ AskedOK(owned, asked, net, waiting, copying, registered, acked)
    /\ TokensOK(owned, net, waiting, copying)

(***************************************************************************)
(* Most actions only take away: jobs from the table, and then RELEASE      *)
(* messages of those jobs may be sent, or requests and answers.  Of what   *)
(* the servers hold they free what belongs to no job of the table, or is   *)
(* on a broken connection.                                                 *)
(***************************************************************************)
Shrinking ==
    /\ DOMAIN owned' \subseteq DOMAIN owned
    /\ \A k \in DOMAIN owned' : owned'[k] = owned[k]
    /\ \A m \in net' :
          \/ m \in net
          \/ m.kind = "RELEASE" /\ m.job \in DOMAIN owned \ DOMAIN owned'
    /\ waiting' \subseteq waiting
    /\ copying' \subseteq copying /\ registered' \subseteq registered
    /\ asked' = asked /\ acked' = acked
    /\ held' \subseteq held
    /\ \A r \in held : \/ r \in held'
                       \/ r.job \notin DOMAIN owned
                       \/ <<r.node, r.conn>> \in lost

(* The others. *)
Growing ==
    \/ \E j \in JobId : \/ \E c \in Client : handle_job_request(j, c)
                        \/ /\ first_reserve(j)
                           /\ j \in DOMAIN owned
                           /\ HasNext(owned[j])
                           /\ owned' = get_next_reserve(owned, j)
                           /\ copying' = copying \cup {j}
                        \/ first_send(j)
    \/ \E m \in net : \/ handle_granted(m) /\ Expected(owned, m.job, m.node)
                      \/ server_grants(m)
                      \/ server_queues(m)
                      \/ server_denies(m)
    \/ \E r \in waiting : server_serves_queued(r)

(* What a rollback of the jobs X may put on the network. *)
LEMMA RollbackSends ==
    ASSUME NEW X, NEW M, NEW broken, M \subseteq UNION {Releases(j) : j \in X}
    PROVE  \A m \in Deliverable(M, broken) : m.kind = "RELEASE" /\ m.job \in X
<1>1. \A j : \A m \in Releases(j) : m.kind = "RELEASE" /\ m.job = j
  BY DEF Releases, Msg
<1> QED  BY <1>1 DEF Deliverable

(* A handler that removes the jobs X, sends no more than their RELEASEs    *)
(* and leaves the servers alone only takes away.                           *)
LEMMA RollbackShrinks ==
    ASSUME NEW X, X \subseteq DOMAIN owned,
           owned' = remove_owned_job(owned, X),
           NEW M, M \subseteq UNION {Releases(j) : j \in X}, NEW broken,
           net' \subseteq net \cup Deliverable(M, broken),
           UNCHANGED <<waiting, held, copying, registered, asked, acked>>
    PROVE  Shrinking
<1>1. \A m \in Deliverable(M, broken) : m.kind = "RELEASE" /\ m.job \in X
  BY RollbackSends
<1>2. /\ DOMAIN owned' = DOMAIN owned \ X
      /\ \A k \in DOMAIN owned' : owned'[k] = owned[k]
  BY DEF remove_owned_job
<1> QED  BY <1>1, <1>2 DEF Shrinking

(* Every step is of one of the two kinds. *)
LEMMA StepKinds == TInv /\ [Next]_vars => Shrinking \/ Growing
<1> SUFFICES ASSUME TInv, [Next]_vars PROVE Shrinking \/ Growing
  OBVIOUS
<1> USE DEF vars, jobVars, srvVars, linkVars, reqVars, erlVars
<1>1. ASSUME NEW j \in JobId, first_reserve(j)
      PROVE  Shrinking \/ Growing
  BY <1>1 DEF first_reserve, Shrinking, Growing
<1>2. ASSUME NEW m \in net, handle_granted(m)
      PROVE  Shrinking \/ Growing
  <2>1. CASE Expected(owned, m.job, m.node)
    BY <1>2, <2>1 DEF Growing
  <2>2. CASE ~Expected(owned, m.job, m.node)
    <3>1. net' = net \ {m} /\ UNCHANGED <<jobVars, acked>>
      BY <1>2, <2>2 DEF handle_granted
    <3> QED  BY <1>2, <3>1 DEF handle_granted, Shrinking
  <2> QED  BY <2>1, <2>2
<1>3. ASSUME NEW m \in net, handle_denied(m)
      PROVE  Shrinking
  <2> DEFINE j == m.job
             X == {j} \cap DOMAIN owned
             R == IF j \in DOMAIN owned THEN Releases(j) ELSE {}
  <2>1. PICK K \in Outboxes({j}, R, TRUE) :
            net' = (net \ {m}) \cup Deliverable(MessagesIn(K), lost)
    BY <1>3 DEF handle_denied
  <2>2. R \subseteq UNION {Releases(k) : k \in X}
    OBVIOUS
  <2>3. MessagesIn(K) \subseteq UNION {Releases(k) : k \in X}
    BY <2>2, OutboxesType
  <2>4. owned' = remove_owned_job(owned, X)
    BY <1>3 DEF handle_denied, remove_owned_job
  <2>5. UNCHANGED <<waiting, held, copying, registered, asked, acked>>
    BY <1>3 DEF handle_denied
  <2> HIDE DEF X, R, j
  <2>6. X \subseteq DOMAIN owned
    BY DEF X
  <2> QED  BY <2>1, <2>3, <2>4, <2>5, <2>6, RollbackShrinks
<1>4. ASSUME NEW j \in JobId, handle_job_release(j)
      PROVE  Shrinking
  <2> DEFINE X == {j} \cap DOMAIN owned
             R == IF j \in DOMAIN owned THEN Releases(j) ELSE {}
  <2>1. PICK K \in Outboxes({j}, R, FALSE) :
            net' = net \cup Deliverable(MessagesIn(K), lost)
    BY <1>4 DEF handle_job_release
  <2>2. R \subseteq UNION {Releases(k) : k \in X}
    OBVIOUS
  <2>3. MessagesIn(K) \subseteq UNION {Releases(k) : k \in X}
    BY <2>2, OutboxesType
  <2>4. owned' = remove_owned_job(owned, X)
    BY <1>4 DEF handle_job_release, remove_owned_job
  <2>5. UNCHANGED <<waiting, held, copying, registered, asked, acked>>
    BY <1>4 DEF handle_job_release
  <2> HIDE DEF X, R
  <2>6. X \subseteq DOMAIN owned
    BY DEF X
  <2> QED  BY <2>1, <2>3, <2>4, <2>5, <2>6, RollbackShrinks
<1>5. ASSUME NEW X \in SUBSET JobId, check_timeouts(X)
      PROVE  Shrinking
  <2> DEFINE R == UNION {Releases(j) : j \in X}
  <2>1. X \subseteq DOMAIN owned
    BY <1>5 DEF check_timeouts, MayTimeOut
  <2>2. /\ owned' = remove_owned_job(owned, X)
        /\ net' = net \cup Deliverable(R, lost)
        /\ UNCHANGED <<waiting, held, copying, registered, asked, acked>>
    BY <1>5 DEF check_timeouts
  <2> HIDE DEF R
  <2>3. R \subseteq UNION {Releases(j) : j \in X}
    BY DEF R
  <2> QED  BY <2>1, <2>2, <2>3, RollbackShrinks
<1>6. ASSUME NEW c \in Client, handle_scheduler_disconnected(c)
      PROVE  Shrinking
  <2>1. PICK X \in Collected(OrphansOf(owned, c), MAX_ORPHANS) :
            /\ owned' = remove_owned_job(owned, X)
            /\ \E K \in Outboxes(X, UNION {Releases(j) : j \in X}, FALSE) :
                  net' = net \cup Deliverable(MessagesIn(K), lost)
    BY <1>6 DEF handle_scheduler_disconnected
  <2>2. PICK K \in Outboxes(X, UNION {Releases(j) : j \in X}, FALSE) :
            net' = net \cup Deliverable(MessagesIn(K), lost)
    BY <2>1
  <2>3. X \subseteq DOMAIN owned
    BY CollectedType DEF OrphansOf
  <2>4. MessagesIn(K) \subseteq UNION {Releases(j) : j \in X}
    BY OutboxesType
  <2>5. UNCHANGED <<waiting, held, copying, registered, asked, acked>>
    BY <1>6 DEF handle_scheduler_disconnected
  <2> QED  BY <2>1, <2>2, <2>3, <2>4, <2>5, RollbackShrinks
<1>7. ASSUME NEW n \in Node, handle_node_disconnected(n)
      PROVE  Shrinking
  <2>1. PICK X \in Collected(AffectedBy(owned, n), MAX_AFFECTED) :
            /\ owned' = remove_owned_job(owned, X)
            /\ \E K \in Outboxes(X, {m \in UNION {Releases(j) : j \in X} :
                                        m.node # n}, TRUE) :
                  net' \subseteq net \cup Deliverable(MessagesIn(K), lost)
    BY <1>7 DEF handle_node_disconnected
  <2> DEFINE R == {m \in UNION {Releases(j) : j \in X} : m.node # n}
  <2>2. PICK K \in Outboxes(X, R, TRUE) :
            net' \subseteq net \cup Deliverable(MessagesIn(K), lost)
    BY <2>1
  <2>3. X \subseteq DOMAIN owned
    BY CollectedType DEF AffectedBy
  <2>4. MessagesIn(K) \subseteq R
    BY OutboxesType
  <2>5. MessagesIn(K) \subseteq UNION {Releases(j) : j \in X}
    BY <2>4
  <2>6. UNCHANGED <<waiting, held, copying, registered, asked, acked>>
    BY <1>7 DEF handle_node_disconnected
  <2> QED  BY <2>1, <2>2, <2>3, <2>5, <2>6, RollbackShrinks
<1>8. ASSUME NEW n \in Node, check_deadnodes(n)
      PROVE  Shrinking
  <2>1. PICK X \in Collected(AffectedBy(owned, n), MAX_AFFECTED) :
            /\ owned' = remove_owned_job(owned, X)
            /\ \E K \in Outboxes(X, UNION {Releases(j) : j \in X}, TRUE) :
                  net' = net \cup Deliverable(MessagesIn(K), lost')
    BY <1>8 DEF check_deadnodes
  <2>2. PICK K \in Outboxes(X, UNION {Releases(j) : j \in X}, TRUE) :
            net' = net \cup Deliverable(MessagesIn(K), lost')
    BY <2>1
  <2>3. X \subseteq DOMAIN owned
    BY CollectedType DEF AffectedBy
  <2>4. MessagesIn(K) \subseteq UNION {Releases(j) : j \in X}
    BY OutboxesType
  <2>5. UNCHANGED <<waiting, held, copying, registered, asked, acked>>
    BY <1>8 DEF check_deadnodes
  <2> QED  BY <2>1, <2>2, <2>3, <2>4, <2>5, RollbackShrinks
<1>9. ASSUME NEW m \in net, server_releases(m)
      PROVE  Shrinking
  <2>1. m.job \notin DOMAIN owned
    BY <1>9 DEF TInv, TokensOK, NotReleased, server_releases
  <2>2. \A r \in held : r \in held' \/ r.job \notin DOMAIN owned
    BY <1>9, <2>1 DEF server_releases
  <2> QED  BY <1>9, <2>2 DEF server_releases, Shrinking
<1>10. ASSUME NEW n \in Node, NEW c \in 1 .. MaxConn, server_sweeps(n, c)
       PROVE  Shrinking
  <2>1. \A r \in held : r \in held' \/ <<r.node, r.conn>> \in lost
    BY <1>10 DEF server_sweeps
  <2> QED  BY <1>10, <2>1 DEF server_sweeps, Shrinking
<1>11. ASSUME NEW n \in Node, link_lost(n) \/ forget_connection(n)
       PROVE  Shrinking
  BY <1>11 DEF link_lost, forget_connection, Shrinking
<1>12. CASE UNCHANGED vars
  BY <1>12 DEF Shrinking
<1> QED
  BY <1>1, <1>2, <1>3, <1>4, <1>5, <1>6, <1>7, <1>8, <1>9, <1>10, <1>11, <1>12
     DEF Next, Growing

----------------------------------------------------------------------------
(* The first petition recorded is the first of the request. *)
LEMMA RecordedFirst ==
    ASSUME NEW list \in Seq(Petition), list # << >>
    PROVE  Recorded(list)[1] = list[1]
<1>1. Len(list) \in Nat /\ MAX_JOB_RESOURCES \in Nat \ {0}
  BY OwnedJobsAssumption, LenProperties
<1>2. CASE Len(list) <= MAX_JOB_RESOURCES
  BY <1>2 DEF Recorded
<1>3. CASE ~(Len(list) <= MAX_JOB_RESOURCES)
  <2>1. Recorded(list) = SubSeq(list, 1, MAX_JOB_RESOURCES)
    BY <1>3 DEF Recorded
  <2>2. SubSeq(list, 1, MAX_JOB_RESOURCES)[1] = list[1]
    BY <1>1, <1>3, SubSeqProperties
  <2> QED  BY <2>1, <2>2
<1> QED  BY <1>2, <1>3

(* Fields of the messages and reservations the actions make. *)
LEMMA Fields ==
    /\ \A kind, j, p : /\ Msg(kind, j, p).kind = kind
                       /\ Msg(kind, j, p).job = j
                       /\ Msg(kind, j, p).node = p.node
                       /\ Msg(kind, j, p).type = p.type
                       /\ Msg(kind, j, p).conn = epoch[p.node]
    /\ \A kind, r : /\ Reply(kind, r).kind = kind
                    /\ Reply(kind, r).job = r.job
                    /\ Reply(kind, r).node = r.node
                    /\ Reply(kind, r).type = r.type
                    /\ Reply(kind, r).conn = r.conn
    /\ \A m : /\ ReservationOf(m).job = m.job
              /\ ReservationOf(m).node = m.node
              /\ ReservationOf(m).type = m.type
              /\ ReservationOf(m).conn = m.conn
BY DEF Msg, Reply, ReservationOf

(* Taking away keeps every petition in one place. *)
LEMMA ShrinkTokens ==
    ASSUME TInv, Shrinking
    PROVE  /\ TokensOK(owned', net', waiting', copying')
           /\ AskedOK(owned', asked', net', waiting', copying', registered',
                      acked')
<1>1. InNet(owned', net', waiting', copying')
  <2> SUFFICES ASSUME NEW m \in net', Asks(owned', m)
               PROVE  /\ Names(owned', m)
                      /\ m.job \notin copying'
                      /\ \A l \in net' : Asks(owned', l) /\ l.job = m.job => l = m
                      /\ \A r \in waiting' : r.job # m.job
    BY DEF InNet
  <2>1. \A l \in net' : Asks(owned', l) => l \in net /\ Asks(owned, l)
    BY DEF Shrinking, Asks
  <2>2. owned'[m.job] = owned[m.job]
    BY DEF Shrinking, Asks
  <2>3. /\ Names(owned, m)
        /\ m.job \notin copying
        /\ \A l \in net : Asks(owned, l) /\ l.job = m.job => l = m
        /\ \A r \in waiting : r.job # m.job
    BY <2>1 DEF TInv, TokensOK, InNet
  <2>4. Names(owned', m)
    BY <2>2, <2>3 DEF Names
  <2> QED  BY <2>1, <2>3, <2>4 DEF Shrinking
<1>2. InQueue(owned', waiting', copying')
  BY DEF TInv, TokensOK, InQueue, Names, Shrinking
<1>3. InWorker(owned', copying')
  BY DEF TInv, TokensOK, InWorker, Shrinking
<1>4. NotReleased(owned', net')
  BY DEF TInv, TokensOK, NotReleased, Shrinking
<1>5. AskedOK(owned', asked', net', waiting', copying', registered', acked')
  BY DEF TInv, AskedOK, Shrinking
<1> QED  BY <1>1, <1>2, <1>3, <1>4, <1>5 DEF TokensOK

(* handle_job_request: nothing was known of the job. *)
LEMMA RequestTokens ==
    ASSUME TInv, NEW j \in JobId, NEW c \in Client, handle_job_request(j, c)
    PROVE  /\ TokensOK(owned', net', waiting', copying')
           /\ AskedOK(owned', asked', net', waiting', copying', registered',
                      acked')
<1>1. /\ j \notin asked /\ asked' = asked \cup {j}
      /\ owned' = add_new_owned_job(owned, j, c, PetitionsOf[j])
      /\ registered' = registered \cup {j}
      /\ UNCHANGED <<net, waiting, copying, acked>>
  BY DEF handle_job_request, srvVars
<1>2. /\ DOMAIN owned' = DOMAIN owned \cup {j}
      /\ \A k \in DOMAIN owned \ {j} : owned'[k] = owned[k]
  BY <1>1 DEF add_new_owned_job
<1>3. /\ j \notin DOMAIN owned /\ j \notin copying
      /\ \A m \in net : m.job # j
      /\ \A r \in waiting : r.job # j
  BY <1>1 DEF TInv, AskedOK
<1>4. InNet(owned', net', waiting', copying')
  BY <1>1, <1>2, <1>3 DEF TInv, TokensOK, InNet, Names, Asks
<1>5. InQueue(owned', waiting', copying') /\ InWorker(owned', copying')
  BY <1>1, <1>2, <1>3 DEF TInv, TokensOK, InQueue, InWorker, Names
<1>6. NotReleased(owned', net')
  BY <1>1, <1>2, <1>3 DEF TInv, TokensOK, NotReleased
<1>7. AskedOK(owned', asked', net', waiting', copying', registered', acked')
  BY <1>1, <1>2 DEF TInv, AskedOK
<1> QED  BY <1>4, <1>5, <1>6, <1>7 DEF TokensOK

(* first_reserve: the job had dispatched nothing. *)
LEMMA DispatchTokens ==
    ASSUME TInv, NEW j \in JobId, first_reserve(j), j \in DOMAIN owned,
           owned' = get_next_reserve(owned, j), copying' = copying \cup {j}
    PROVE  /\ TokensOK(owned', net', waiting', copying')
           /\ AskedOK(owned', asked', net', waiting', copying', registered',
                      acked')
<1>1. /\ j \in registered /\ registered' \subseteq registered
      /\ UNCHANGED <<net, waiting, asked, acked>>
  BY DEF first_reserve, srvVars, erlVars
<1>2. owned[j].next_reserve_idx = 0
  BY <1>1 DEF TInv, IInv, Fresh
<1>3. owned[j].granted = {}
  <2>1. JobOK(owned[j])
    BY DEF TInv, IInv, TableOK
  <2>2. owned[j].granted \subseteq 1 .. 0
    BY <1>2, <2>1 DEF JobOK, InOrder
  <2> QED  BY <2>2
<1>4. /\ DOMAIN owned' = DOMAIN owned
      /\ owned'[j] = [owned[j] EXCEPT !.next_reserve_idx = owned[j].next_reserve_idx + 1]
      /\ \A k \in DOMAIN owned \ {j} : owned'[k] = owned[k]
  BY DEF get_next_reserve
<1>5. owned'[j].next_reserve_idx = 1 /\ owned'[j].granted = {}
  <2>1. owned[j] \in OwnedJob
    BY DEF TInv, IInv, TableOK, JobOK
  <2> QED  BY <1>2, <1>3, <1>4, <2>1 DEF OwnedJob
<1>6. /\ \A m \in net : Asks(owned, m) => m.job # j
      /\ \A r \in waiting : r.job # j
  BY <1>2 DEF TInv, TokensOK, InNet, InQueue, Names, Open
<1>7. InNet(owned', net', waiting', copying')
  BY <1>1, <1>4, <1>6 DEF TInv, TokensOK, InNet, Names, Asks
<1>8. InQueue(owned', waiting', copying')
  BY <1>1, <1>4, <1>6 DEF TInv, TokensOK, InQueue, Names
<1>9. InWorker(owned', copying')
  BY <1>4, <1>5 DEF TInv, TokensOK, InWorker
<1>10. NotReleased(owned', net')
  BY <1>1, <1>4 DEF TInv, TokensOK, NotReleased
<1>11. AskedOK(owned', asked', net', waiting', copying', registered', acked')
  BY <1>1, <1>4 DEF TInv, AskedOK
<1> QED  BY <1>7, <1>8, <1>9, <1>10, <1>11 DEF TokensOK

(* A message x takes the place of the only token of its job, which is gone *)
(* from the network, the queues and the workers.                           *)
LEMMA MoveToNet ==
    ASSUME TInv, UNCHANGED owned, NEW x, x.kind # "RELEASE",
           net' \subseteq net \cup {x}, waiting' \subseteq waiting,
           copying' \subseteq copying,
           x.job \in DOMAIN owned =>
               /\ Names(owned, x)
               /\ \A m \in net' : Asks(owned, m) /\ m.job = x.job => m = x
               /\ \A r \in waiting' : r.job # x.job
               /\ x.job \notin copying'
    PROVE  TokensOK(owned', net', waiting', copying')
<1>1. InNet(owned', net', waiting', copying')
  BY DEF TInv, TokensOK, InNet, Names, Asks
<1>2. InQueue(owned', waiting', copying') /\ InWorker(owned', copying')
  BY DEF TInv, TokensOK, InQueue, InWorker, Names
<1>3. NotReleased(owned', net')
  BY DEF TInv, TokensOK, NotReleased
<1> QED  BY <1>1, <1>2, <1>3 DEF TokensOK

(* first_send: the RESERVE leaves the worker. *)
LEMMA SendTokens ==
    ASSUME TInv, NEW j \in JobId, first_send(j)
    PROVE  /\ TokensOK(owned', net', waiting', copying')
           /\ AskedOK(owned', asked', net', waiting', copying', registered',
                      acked')
<1> DEFINE p == PetitionsOf[j][1]
<1>1. /\ j \in copying /\ copying' = copying \ {j}
      /\ UNCHANGED <<owned, waiting, asked, registered, acked>>
  BY DEF first_send, jobVars, srvVars, erlVars
<1>2. PICK q : /\ net' \subseteq net \cup {Msg("RESERVE", j, q)}
               /\ j \in DOMAIN owned => q = p
  BY DEF first_send, Deliverable
<1>3. ASSUME j \in DOMAIN owned
      PROVE  /\ owned[j].next_reserve_idx = 1 /\ Open(owned[j])
             /\ owned[j].petitions[1] = p
  <2>1. owned[j].next_reserve_idx = 1 /\ owned[j].granted = {}
    BY <1>1, <1>3 DEF TInv, TokensOK, InWorker
  <2>2. owned[j].petitions = Recorded(PetitionsOf[j])
    BY <1>3 DEF TInv, IInv, TableOK
  <2>3. PetitionsOf[j] # << >> /\ PetitionsOf[j] \in Seq(Petition)
    BY <1>1, JobCoordinatorAssumption DEF TInv, IInv, Dispatched
  <2> QED  BY <2>1, <2>2, <2>3, RecordedFirst DEF Open
<1>4. ASSUME j \in DOMAIN owned
      PROVE  /\ \A m \in net : Asks(owned, m) => m.job # j
             /\ \A r \in waiting : r.job # j
  BY <1>1, <1>4 DEF TInv, TokensOK, InNet, InQueue
<1> DEFINE x == Msg("RESERVE", j, q)
<1>5. /\ x.kind = "RESERVE" /\ x.job = j
      /\ x.node = q.node /\ x.type = q.type
  BY Fields
<1> HIDE DEF x, p
<1>6. net' \subseteq net \cup {x}
  BY <1>2 DEF x
<1>7. j \in DOMAIN owned => Names(owned, x)
  BY <1>2, <1>3, <1>5 DEF Names
<1>8. TokensOK(owned', net', waiting', copying')
  BY <1>1, <1>4, <1>5, <1>6, <1>7, MoveToNet
<1>9. AskedOK(owned', asked', net', waiting', copying', registered', acked')
  BY <1>1, <1>5, <1>6 DEF TInv, AskedOK
<1> QED  BY <1>8, <1>9

(* The servers: a RESERVE becomes an answer or a waiting request, a        *)
(* waiting request an answer.                                              *)
LEMMA ServerTokens ==
    ASSUME TInv,
           \/ \E m \in net : server_grants(m) \/ server_queues(m) \/ server_denies(m)
           \/ \E r \in waiting : server_serves_queued(r)
    PROVE  /\ TokensOK(owned', net', waiting', copying')
           /\ AskedOK(owned', asked', net', waiting', copying', registered',
                      acked')
<1> USE DEF jobVars, reqVars, erlVars
<1>0. UNCHANGED <<owned, copying, registered, asked, acked>>
  BY DEF server_grants, server_queues, server_denies, server_serves_queued
<1>1. ASSUME NEW m \in net, NEW kind \in {"GRANTED", "DENIED"},
             m.kind = "RESERVE", waiting' = waiting,
             net' \subseteq (net \ {m}) \cup {Reply(kind, m)}
      PROVE  TokensOK(owned', net', waiting', copying')
  <2> DEFINE x == Reply(kind, m)
  <2>1. x.kind = kind /\ x.job = m.job /\ x.node = m.node /\ x.type = m.type
    BY Fields
  <2> HIDE DEF x
  <2>2. net' \subseteq (net \ {m}) \cup {x}
    BY <1>1 DEF x
  <2>3. m.job \in DOMAIN owned =>
            /\ Names(owned, m)
            /\ \A l \in net : Asks(owned, l) /\ l.job = m.job => l = m
            /\ \A r \in waiting : r.job # m.job
            /\ m.job \notin copying
    BY <1>1 DEF TInv, TokensOK, InNet, Asks
  <2>4. m.job \in DOMAIN owned => Names(owned, x)
    BY <2>1, <2>3 DEF Names
  <2>5. x.kind # "RELEASE" /\ net' \subseteq net \cup {x}
    BY <2>1, <2>2
  <2> QED  BY <1>0, <1>1, <2>1, <2>2, <2>3, <2>4, <2>5, MoveToNet
<1>2. ASSUME NEW m \in net, server_queues(m)
      PROVE  TokensOK(owned', net', waiting', copying')
  <2> DEFINE x == ReservationOf(m)
  <2>1. x.job = m.job /\ x.node = m.node /\ x.type = m.type
    BY Fields
  <2> HIDE DEF x
  <2>2. waiting' = waiting \cup {x} /\ net' = net \ {m} /\ m.kind = "RESERVE"
    BY <1>2 DEF server_queues, x
  <2>3. m.job \in DOMAIN owned =>
            /\ Names(owned, m)
            /\ \A l \in net : Asks(owned, l) /\ l.job = m.job => l = m
            /\ \A r \in waiting : r.job # m.job
            /\ m.job \notin copying
    BY <2>2 DEF TInv, TokensOK, InNet, Asks
  <2>4. m.job \in DOMAIN owned => Names(owned, x)
    BY <2>1, <2>3 DEF Names
  <2>5. InNet(owned', net', waiting', copying')
    BY <1>0, <2>1, <2>2, <2>3 DEF TInv, TokensOK, InNet, Names, Asks
  <2>6. InQueue(owned', waiting', copying')
    BY <1>0, <2>1, <2>2, <2>3, <2>4 DEF TInv, TokensOK, InQueue, Names
  <2>7. InWorker(owned', copying') /\ NotReleased(owned', net')
    BY <1>0, <2>2 DEF TInv, TokensOK, InWorker, NotReleased
  <2> QED  BY <2>5, <2>6, <2>7 DEF TokensOK
<1>3. ASSUME NEW r \in waiting, server_serves_queued(r)
      PROVE  TokensOK(owned', net', waiting', copying')
  <2> DEFINE x == Reply("GRANTED", r)
  <2>1. x.kind = "GRANTED" /\ x.job = r.job /\ x.node = r.node /\ x.type = r.type
    BY Fields
  <2> HIDE DEF x
  <2>2. waiting' = waiting \ {r} /\ net' \subseteq net \cup {x}
    BY <1>3 DEF server_serves_queued, Deliverable, x
  <2>3. r.job \in DOMAIN owned =>
            /\ Names(owned, r)
            /\ \A s \in waiting : s.job = r.job => s = r
            /\ \A m \in net : Asks(owned, m) => m.job # r.job
            /\ r.job \notin copying
    BY DEF TInv, TokensOK, InNet, InQueue
  <2>4. r.job \in DOMAIN owned => Names(owned, x)
    BY <2>1, <2>3 DEF Names
  <2> QED  BY <1>0, <2>1, <2>2, <2>3, <2>4, MoveToNet
<1>4. TokensOK(owned', net', waiting', copying')
  <2>1. ASSUME NEW m \in net, server_grants(m)
        PROVE  /\ m.kind = "RESERVE" /\ waiting' = waiting
               /\ net' \subseteq (net \ {m}) \cup {Reply("GRANTED", m)}
    BY <2>1 DEF server_grants, Deliverable
  <2>2. ASSUME NEW m \in net, server_denies(m)
        PROVE  /\ m.kind = "RESERVE" /\ waiting' = waiting
               /\ net' \subseteq (net \ {m}) \cup {Reply("DENIED", m)}
    BY <2>2 DEF server_denies, Deliverable, srvVars
  <2>3. \A m \in net : server_grants(m) => TokensOK(owned', net', waiting', copying')
    BY <1>1, <2>1
  <2>4. \A m \in net : server_denies(m) => TokensOK(owned', net', waiting', copying')
    BY <1>1, <2>2
  <2> QED  BY <1>2, <1>3, <2>3, <2>4
<1>5. AskedOK(owned', asked', net', waiting', copying', registered', acked')
  <2>1. /\ \A m \in net : m.job \in asked
        /\ \A r \in waiting : r.job \in asked
    BY DEF TInv, AskedOK
  <2>2. \E y : /\ y.job \in asked
               /\ \A x \in net' : x.job \in asked \/ x.job = y.job
               /\ \A x \in waiting' : x.job \in asked \/ x.job = y.job
    <3>1. ASSUME NEW m \in net,
                 server_grants(m) \/ server_queues(m) \/ server_denies(m)
          PROVE  /\ net' \subseteq net \cup {Reply("GRANTED", m), Reply("DENIED", m)}
                 /\ waiting' \subseteq waiting \cup {ReservationOf(m)}
      BY <3>1 DEF server_grants, server_queues, server_denies, Deliverable, srvVars
    <3>2. ASSUME NEW r \in waiting, server_serves_queued(r)
          PROVE  /\ net' \subseteq net \cup {Reply("GRANTED", r)}
                 /\ waiting' \subseteq waiting
      BY <3>2 DEF server_serves_queued, Deliverable
    <3>3. CASE \E m \in net : server_grants(m) \/ server_queues(m) \/ server_denies(m)
      BY <2>1, <3>1, <3>3, Fields
    <3>4. CASE \E r \in waiting : server_serves_queued(r)
      BY <2>1, <3>2, <3>4, Fields
    <3> QED  BY <3>3, <3>4
  <2> QED  BY <1>0, <2>2 DEF TInv, AskedOK
<1> QED  BY <1>4, <1>5

(***************************************************************************)
(* handle_granted, for an answer that is expected: the table afterwards,   *)
(* and what is sent.  The GRANTED was the only token of its job.           *)
(***************************************************************************)
GrantStep(m) ==
    /\ DOMAIN owned' = DOMAIN owned
    /\ \A k \in DOMAIN owned \ {m.job} : owned'[k] = owned[k]
    /\ owned'[m.job].petitions = owned[m.job].petitions
    /\ owned'[m.job].owner_socket = owned[m.job].owner_socket
    /\ owned'[m.job].granted = 1 .. owned[m.job].next_reserve_idx
    /\ owned[m.job].granted = 1 .. (owned[m.job].next_reserve_idx - 1)
    /\ owned[m.job].next_reserve_idx \in 1 .. Len(owned[m.job].petitions)
    /\ ~owned[m.job].grant_notified
    /\ \/ /\ owned'[m.job].next_reserve_idx = owned[m.job].next_reserve_idx
          /\ owned'[m.job].grant_notified
          /\ net' = net \ {m}
          /\ answers' = Answered({m.job}, "JOB_GRANTED")
       \/ /\ owned'[m.job].next_reserve_idx = owned[m.job].next_reserve_idx + 1
          /\ ~owned'[m.job].grant_notified
          /\ owned[m.job].next_reserve_idx < Len(owned[m.job].petitions)
          /\ net' \subseteq (net \ {m}) \cup
                {Msg("RESERVE", m.job,
                     owned[m.job].petitions[owned[m.job].next_reserve_idx + 1])}
          /\ answers' = answers

LEMMA GrantFacts ==
    ASSUME TInv, NEW m \in net, handle_granted(m),
           Expected(owned, m.job, m.node)
    PROVE  GrantStep(m)
<1> DEFINE j   == m.job
           i   == owned[j].next_reserve_idx
           T   == mark_petition_as_granted(owned, j)
<1>1. TableOK(owned) /\ j \in DOMAIN owned /\ i # 0 /\ i \notin owned[j].granted
  BY DEF TInv, IInv, Expected
<1>2. /\ TableOK(T) /\ DOMAIN T = DOMAIN owned
      /\ T[j].next_reserve_idx = i
      /\ T[j].granted = 1 .. i
      /\ T[j].petitions = owned[j].petitions
      /\ \A k \in DOMAIN owned \ {j} : T[k] = owned[k]
  BY <1>1, MarkOK
<1>3. owned[j] \in OwnedJob /\ InOrder(owned[j])
  BY <1>1 DEF TableOK, JobOK
<1>4. i \in Nat /\ i <= Len(owned[j].petitions) /\ Len(owned[j].petitions) \in Nat
  BY <1>3, LenProperties DEF OwnedJob, InOrder
<1>5. i \in 1 .. i /\ i \in 1 .. Len(owned[j].petitions)
  BY <1>1, <1>4
<1>6. owned[j].granted = 1 .. (i - 1)
  BY <1>1, <1>3, <1>5 DEF InOrder
<1>7. ~owned[j].grant_notified
  BY <1>1, <1>3, <1>5 DEF InOrder
<1>8. T[j].owner_socket = owned[j].owner_socket /\ T[j] \in OwnedJob
  BY <1>1, <1>2, <1>3 DEF mark_petition_as_granted, OwnedJob, TableOK, JobOK
<1> HIDE DEF T, i
<1>9. CASE /\ T[j].grant_notified
           /\ owned' = T
           /\ answers' = Answered({j}, "JOB_GRANTED")
           /\ net' = net \ {m}
  BY <1>2, <1>5, <1>6, <1>7, <1>8, <1>9 DEF GrantStep, i
<1>10. CASE /\ ~T[j].grant_notified
            /\ HasNext(T[j])
            /\ owned' = get_next_reserve(T, j)
            /\ net' = (net \ {m}) \cup Deliverable(
                  {Msg("RESERVE", j, owned[j].petitions[i + 1])}, lost)
            /\ UNCHANGED answers
  <2>1. /\ DOMAIN owned' = DOMAIN T
        /\ owned'[j] = [T[j] EXCEPT !.next_reserve_idx = T[j].next_reserve_idx + 1]
        /\ \A k \in DOMAIN T \ {j} : owned'[k] = T[k]
    BY <1>1, <1>2, <1>10 DEF get_next_reserve
  <2>2. /\ owned'[j].next_reserve_idx = i + 1
        /\ owned'[j].petitions = T[j].petitions
        /\ owned'[j].granted = T[j].granted
        /\ owned'[j].grant_notified = T[j].grant_notified
        /\ owned'[j].owner_socket = T[j].owner_socket
    BY <1>2, <1>8, <2>1 DEF OwnedJob
  <2>3. i < Len(owned[j].petitions)
    BY <1>2, <1>10 DEF HasNext
  <2>4. net' \subseteq (net \ {m}) \cup
            {Msg("RESERVE", j, owned[j].petitions[i + 1])}
    BY <1>10 DEF Deliverable
  <2>5. ~owned'[j].grant_notified
    BY <1>10, <2>2
  <2> QED  BY <1>2, <1>5, <1>6, <1>7, <1>8, <1>10, <2>1, <2>2, <2>3, <2>4, <2>5
           DEF GrantStep, i
<1> QED  BY <1>9, <1>10 DEF handle_granted, T, i

(* handle_granted: the last petition of a finished list leaves no token, a *)
(* petition in the middle one RESERVE for its successor.                   *)
LEMMA GrantTokens ==
    ASSUME TInv, NEW m \in net, handle_granted(m),
           Expected(owned, m.job, m.node)
    PROVE  /\ TokensOK(owned', net', waiting', copying')
           /\ AskedOK(owned', asked', net', waiting', copying', registered',
                      acked')
<1> DEFINE j == m.job
           i == owned[j].next_reserve_idx
<1>1. GrantStep(m)
  BY GrantFacts
<1>2. UNCHANGED <<waiting, held, copying, registered, asked>>
  BY DEF handle_granted, srvVars, reqVars, erlVars
<1>3. j \in DOMAIN owned /\ m.kind = "GRANTED"
  BY DEF Expected, handle_granted
<1>4. /\ \A l \in net : Asks(owned, l) /\ l.job = j => l = m
      /\ \A r \in waiting : r.job # j
      /\ j \notin copying
  BY <1>3 DEF TInv, TokensOK, InNet, Asks
<1>5. acked' = acked \cup {[job |-> j, node |-> m.node, conn |-> m.conn,
                            type |-> owned[j].petitions[i].type]}
  BY DEF handle_granted
<1>6. j \in asked /\ \A r \in acked' : r.job \in asked
  BY <1>3, <1>5 DEF TInv, AskedOK
<1>7. /\ DOMAIN owned' = DOMAIN owned
      /\ \A k \in DOMAIN owned \ {j} : owned'[k] = owned[k]
  BY <1>1 DEF GrantStep
<1>8. InQueue(owned', waiting', copying') /\ InWorker(owned', copying')
  BY <1>2, <1>4, <1>7 DEF TInv, TokensOK, InQueue, InWorker, Names
<1>9. CASE net' = net \ {m}
  <2>1. InNet(owned', net', waiting', copying')
    BY <1>2, <1>4, <1>7, <1>9 DEF TInv, TokensOK, InNet, Names, Asks
  <2>2. NotReleased(owned', net')
    BY <1>7, <1>9 DEF TInv, TokensOK, NotReleased
  <2>3. AskedOK(owned', asked', net', waiting', copying', registered', acked')
    BY <1>2, <1>6, <1>7, <1>9 DEF TInv, AskedOK
  <2> QED  BY <1>8, <2>1, <2>2, <2>3 DEF TokensOK
<1>10. CASE /\ owned'[j].next_reserve_idx = i + 1
            /\ i < Len(owned[j].petitions)
            /\ net' \subseteq (net \ {m}) \cup
                  {Msg("RESERVE", j, owned[j].petitions[i + 1])}
  <2> DEFINE x == Msg("RESERVE", j, owned[j].petitions[i + 1])
  <2>1. /\ x.kind = "RESERVE" /\ x.job = j
        /\ x.node = owned[j].petitions[i + 1].node
        /\ x.type = owned[j].petitions[i + 1].type
    BY Fields
  <2>2. net' \subseteq (net \ {m}) \cup {x}
    BY <1>10
  <2>3. Names(owned', x)
    <3>1. /\ owned'[j].petitions = owned[j].petitions
          /\ owned'[j].granted = 1 .. i
          /\ i \in Nat
      <4>1. owned[j] \in OwnedJob
        BY <1>3 DEF TInv, IInv, TableOK, JobOK
      <4> QED  BY <1>1, <4>1 DEF GrantStep, OwnedJob
    <3>2. i + 1 # 0 /\ i + 1 \notin 1 .. i
      BY <3>1
    <3>3. Open(owned'[j])
      BY <1>10, <3>1, <3>2 DEF Open
    <3> HIDE DEF x
    <3> QED  BY <1>10, <2>1, <3>1, <3>3 DEF Names
  <2> HIDE DEF x
  <2>4. \A l \in net' : Asks(owned', l) /\ l.job = j => l = x
    BY <1>4, <1>7, <2>2 DEF Asks
  <2>5. InNet(owned', net', waiting', copying')
    <3> SUFFICES ASSUME NEW l \in net', Asks(owned', l)
                 PROVE  /\ Names(owned', l)
                        /\ l.job \notin copying'
                        /\ \A k \in net' : Asks(owned', k) /\ k.job = l.job => k = l
                        /\ \A r \in waiting' : r.job # l.job
      BY DEF InNet
    <3>1. CASE l.job = j
      BY <1>2, <1>4, <2>3, <2>4, <3>1
    <3>2. CASE l.job # j
      <4>1. l \in net /\ Asks(owned, l)
        BY <1>7, <2>1, <2>2, <3>2 DEF Asks
      <4>2. /\ Names(owned, l)
            /\ l.job \notin copying
            /\ \A k \in net : Asks(owned, k) /\ k.job = l.job => k = l
            /\ \A r \in waiting : r.job # l.job
        BY <4>1 DEF TInv, TokensOK, InNet
      <4>3. Names(owned', l)
        BY <1>7, <3>2, <4>1, <4>2 DEF Names, Asks
      <4> QED  BY <1>2, <1>7, <2>1, <2>2, <3>2, <4>2, <4>3 DEF Asks
    <3> QED  BY <3>1, <3>2
  <2>6. NotReleased(owned', net')
    BY <1>7, <2>1, <2>2 DEF TInv, TokensOK, NotReleased
  <2>7. AskedOK(owned', asked', net', waiting', copying', registered', acked')
    BY <1>2, <1>6, <1>7, <2>1, <2>2 DEF TInv, AskedOK
  <2> QED  BY <1>8, <2>5, <2>6, <2>7 DEF TokensOK
<1> QED  BY <1>1, <1>9, <1>10 DEF GrantStep

(* Every petition that waits for an answer is in one place, always. *)
LEMMA InitTInv == Init => TInv
<1> SUFFICES ASSUME Init PROVE TInv
  OBVIOUS
<1>1. /\ DOMAIN owned = {} /\ net = {} /\ waiting = {} /\ copying = {}
      /\ registered = {} /\ acked = {}
  BY DEF Init
<1>2. AskedOK(owned, asked, net, waiting, copying, registered, acked)
  BY <1>1 DEF AskedOK
<1>3. TokensOK(owned, net, waiting, copying)
  BY <1>1 DEF TokensOK, InNet, InQueue, InWorker, NotReleased
<1> QED  BY <1>2, <1>3, InitIInv DEF TInv

LEMMA NextTInv == TInv /\ [Next]_vars => TInv'
<1> SUFFICES ASSUME TInv, [Next]_vars PROVE TInv'
  OBVIOUS
<1>1. IInv'
  BY NextIInv DEF TInv
<1>2. /\ TokensOK(owned', net', waiting', copying')
      /\ AskedOK(owned', asked', net', waiting', copying', registered', acked')
  <2>1. Shrinking \/ Growing
    BY StepKinds
  <2>2. CASE Shrinking
    BY <2>2, ShrinkTokens
  <2>3. CASE Growing
    BY <2>3, RequestTokens, DispatchTokens, SendTokens, ServerTokens, GrantTokens
       DEF Growing
  <2> QED  BY <2>1, <2>2, <2>3
<1> QED  BY <1>1, <1>2
         DEF TInv, TokensOK, AskedOK, InNet, InQueue, InWorker, NotReleased

LEMMA AlwaysTInv == Spec => []TInv
BY InitTInv, NextTInv, PTL DEF Spec

----------------------------------------------------------------------------
(***************************************************************************)
(* The answers.  A job that is in the table has had no answer, or its      *)
(* JOB_GRANTED; every other answer is given in the step that removes it,   *)
(* and no job comes back.                                                  *)
(***************************************************************************)
Compatible(f) ==
    /\ \A a \in AnswerTag : f[a] <= 1
    /\ f["JOB_TIMEOUT"] = 1 => f["JOB_GRANTED"] = 0 /\ f["JOB_DENIED"] = 0

AnswersOK(T, A, ans) ==
    \A j \in JobId :
        /\ Compatible(ans[j])
        /\ j \notin A => ans[j] = Unanswered
        /\ j \in DOMAIN T => ans[j]["JOB_DENIED"] = 0 /\ ans[j]["JOB_TIMEOUT"] = 0
        /\ j \in DOMAIN T /\ ~T[j].grant_notified => ans[j] = Unanswered

AInv == TInv /\ AnswersOK(owned, asked, answers)

(* A job that has had no answer. *)
LEMMA NoneGiven ==
    /\ Compatible(Unanswered)
    /\ Unanswered["JOB_DENIED"] = 0 /\ Unanswered["JOB_TIMEOUT"] = 0
BY DEF Compatible, Unanswered, AnswerTag

(* An answer given to jobs that are removed in the same step: a denial, or *)
(* a timeout to jobs that were not granted.                                *)
LEMMA FinalAnswer ==
    ASSUME AInv, NEW X, NEW Y, NEW a, owned' = remove_owned_job(owned, X),
           Y \cap DOMAIN owned \subseteq X, asked' = asked,
           answers' = Answered(Y, a),
           \/ a = "JOB_DENIED"
           \/ /\ a = "JOB_TIMEOUT"
              /\ \A j \in Y \cap DOMAIN owned : ~owned[j].grant_notified
    PROVE  AnswersOK(owned', asked', answers')
<1> SUFFICES ASSUME NEW j \in JobId
             PROVE  /\ Compatible(answers'[j])
                    /\ j \notin asked' => answers'[j] = Unanswered
                    /\ j \in DOMAIN owned' => /\ answers'[j]["JOB_DENIED"] = 0
                                             /\ answers'[j]["JOB_TIMEOUT"] = 0
                    /\ j \in DOMAIN owned' /\ ~owned'[j].grant_notified =>
                           answers'[j] = Unanswered
  BY DEF AnswersOK
<1>1. /\ DOMAIN owned' = DOMAIN owned \ X
      /\ \A k \in DOMAIN owned' : owned'[k] = owned[k]
  BY DEF remove_owned_job
<1>2. /\ Compatible(answers[j])
      /\ j \notin asked => answers[j] = Unanswered
      /\ j \in DOMAIN owned => /\ answers[j]["JOB_DENIED"] = 0
                              /\ answers[j]["JOB_TIMEOUT"] = 0
      /\ j \in DOMAIN owned /\ ~owned[j].grant_notified => answers[j] = Unanswered
      /\ answers[j] \in [AnswerTag -> Nat]
  BY DEF AInv, AnswersOK, TInv, IInv, RestOK
<1>3. CASE answers'[j] = answers[j]
  BY <1>1, <1>2, <1>3
<1>4. CASE /\ j \in Y \cap DOMAIN owned
           /\ answers'[j] = [answers[j] EXCEPT ![a] = @ + 1]
  <2>1. j \in asked /\ j \notin DOMAIN owned'
    BY <1>1, <1>4 DEF AInv, TInv, AskedOK
  <2>2. Compatible(answers'[j])
    BY <1>2, <1>4 DEF Compatible, Unanswered, AnswerTag
  <2> QED  BY <2>1, <2>2
<1>5. answers'[j] = IF j \in Y \cap DOMAIN owned /\ owned[j].owner_socket \in alive
                    THEN [answers[j] EXCEPT ![a] = @ + 1] ELSE answers[j]
  BY DEF Answered
<1> QED  BY <1>3, <1>4, <1>5

(* The jobs a handler answers are those it rolls back. *)
LEMMA AnswersInType ==
    ASSUME NEW X, NEW R, R \subseteq Message, NEW K \in Outboxes(X, R, TRUE)
    PROVE  AnswersIn(K) \subseteq X
<1> SUFFICES ASSUME NEW m \in K, m.kind = "ANSWER"
             PROVE  m.job \in X
  BY DEF AnswersIn, MessagesIn
<1>1. m \in R \/ m \in {AnswerEntry(j) : j \in X}
  BY DEF Outboxes
<1>2. m \notin R
  BY DEF Message
<1>3. \A j : AnswerEntry(j).job = j
  BY DEF AnswerEntry
<1> QED  BY <1>1, <1>2, <1>3

(* Steps that answer nobody and do not undo a grant. *)
LEMMA NoAnswer ==
    ASSUME AInv, answers' = answers, asked' = asked,
           DOMAIN owned' \subseteq DOMAIN owned,
           \A k \in DOMAIN owned' :
               owned[k].grant_notified => owned'[k].grant_notified
    PROVE  AnswersOK(owned', asked', answers')
BY DEF AInv, AnswersOK

(* A step gives a job at most one answer, and the right one. *)
LEMMA NextAInv == AInv /\ [Next]_vars => AInv'
<1> SUFFICES ASSUME AInv, [Next]_vars
             PROVE  AnswersOK(owned', asked', answers')
  BY NextTInv DEF AInv, AnswersOK
<1> USE DEF vars, jobVars, srvVars, linkVars, reqVars, erlVars
<1>0. TInv /\ RestOK /\ TableOK(owned)
  BY DEF AInv, TInv, IInv
<1>1. ASSUME NEW j \in JobId, NEW c \in Client, handle_job_request(j, c)
      PROVE  AnswersOK(owned', asked', answers')
  <2>1. /\ j \notin asked /\ asked' = asked \cup {j} /\ answers' = answers
        /\ owned' = add_new_owned_job(owned, j, c, PetitionsOf[j])
    BY <1>1 DEF handle_job_request
  <2>2. /\ DOMAIN owned' = DOMAIN owned \cup {j}
        /\ \A k \in DOMAIN owned \ {j} : owned'[k] = owned[k]
    BY <2>1 DEF add_new_owned_job
  <2> QED  BY <2>1, <2>2, NoneGiven DEF AInv, AnswersOK
<1>2. ASSUME NEW j \in JobId, first_reserve(j)
      PROVE  AnswersOK(owned', asked', answers')
  <2>1. answers' = answers /\ asked' = asked
    BY <1>2 DEF first_reserve
  <2>2. CASE owned' = owned
    BY <2>1, <2>2, NoAnswer
  <2>3. CASE j \in DOMAIN owned /\ owned' = get_next_reserve(owned, j)
    <3>1. owned[j] \in OwnedJob
      BY <1>0, <2>3 DEF TableOK, JobOK
    <3>2. DOMAIN owned' = DOMAIN owned
      BY <2>3 DEF get_next_reserve
    <3>3. \A k \in DOMAIN owned : owned'[k].grant_notified = owned[k].grant_notified
      BY <2>3, <3>1 DEF get_next_reserve, OwnedJob
    <3> QED  BY <2>1, <3>2, <3>3, NoAnswer
  <2> QED  BY <1>2, <2>2, <2>3 DEF first_reserve
<1>3. ASSUME NEW j \in JobId, first_send(j)
      PROVE  AnswersOK(owned', asked', answers')
  <2>1. UNCHANGED <<owned, answers, asked>>
    BY <1>3 DEF first_send
  <2> QED  BY <2>1, NoAnswer
<1>4. ASSUME NEW m \in net, handle_granted(m)
      PROVE  AnswersOK(owned', asked', answers')
  <2> DEFINE j == m.job
  <2>1. asked' = asked
    BY <1>4 DEF handle_granted
  <2>2. CASE ~Expected(owned, j, m.node)
    <3>1. UNCHANGED <<owned, answers>>
      BY <1>4, <2>2 DEF handle_granted
    <3> QED  BY <2>1, <3>1, NoAnswer
  <2>3. CASE Expected(owned, j, m.node)
    <3>1. GrantStep(m)
      BY <1>0, <1>4, <2>3, GrantFacts
    <3>2. /\ DOMAIN owned' = DOMAIN owned /\ j \in DOMAIN owned
          /\ \A k \in DOMAIN owned \ {j} : owned'[k] = owned[k]
          /\ ~owned[j].grant_notified
      BY <2>3, <3>1 DEF GrantStep, Expected
    <3>3. CASE answers' = answers
      <4>1. \A k \in DOMAIN owned' : owned[k].grant_notified => owned'[k].grant_notified
        BY <3>2
      <4> QED  BY <2>1, <3>2, <3>3, <4>1, NoAnswer
    <3>4. CASE /\ owned'[j].grant_notified
               /\ answers' = Answered({j}, "JOB_GRANTED")
      <4> SUFFICES ASSUME NEW k \in JobId
             PROVE  /\ Compatible(answers'[k])
                    /\ k \notin asked' => answers'[k] = Unanswered
                    /\ k \in DOMAIN owned' => /\ answers'[k]["JOB_DENIED"] = 0
                                             /\ answers'[k]["JOB_TIMEOUT"] = 0
                    /\ k \in DOMAIN owned' /\ ~owned'[k].grant_notified =>
                           answers'[k] = Unanswered
        BY DEF AnswersOK
      <4>1. CASE k # j
        <5>1. answers'[k] = answers[k]
          BY <3>4, <4>1 DEF Answered
        <5> QED  BY <2>1, <3>2, <4>1, <5>1 DEF AInv, AnswersOK
      <4>2. CASE k = j
        <5>1. answers[j] = Unanswered /\ j \in asked
          BY <3>2, <4>2 DEF AInv, AnswersOK, TInv, AskedOK
        <5>2. \/ answers'[j] = Unanswered
              \/ answers'[j] = [Unanswered EXCEPT !["JOB_GRANTED"] = 1]
          BY <3>4, <4>2, <5>1 DEF Answered, Unanswered, AnswerTag
        <5>3. /\ Compatible(answers'[j])
              /\ answers'[j]["JOB_DENIED"] = 0 /\ answers'[j]["JOB_TIMEOUT"] = 0
          BY <5>2 DEF Compatible, Unanswered, AnswerTag
        <5> QED  BY <2>1, <3>4, <4>2, <5>1, <5>3
      <4> QED  BY <4>1, <4>2
    <3> QED  BY <3>1, <3>3, <3>4 DEF GrantStep
  <2> QED  BY <2>2, <2>3
<1>5. ASSUME NEW m \in net, handle_denied(m)
      PROVE  AnswersOK(owned', asked', answers')
  <2> DEFINE j == m.job
             R == IF j \in DOMAIN owned THEN Releases(j) ELSE {}
  <2>1. PICK K \in Outboxes({j}, R, TRUE) :
            answers' = Answered(AnswersIn(K), "JOB_DENIED")
    BY <1>5 DEF handle_denied
  <2>2. R \subseteq Message
    BY <1>0, ReleasesType
  <2> HIDE DEF R
  <2>3. AnswersIn(K) \subseteq {j}
    BY <2>2, AnswersInType
  <2>4. owned' = remove_owned_job(owned, {j}) /\ asked' = asked
    BY <1>5 DEF handle_denied
  <2>5. AnswersIn(K) \cap DOMAIN owned \subseteq {j}
    BY <2>3
  <2> HIDE DEF j
  <2> QED  BY <2>1, <2>4, <2>5, FinalAnswer
<1>6. ASSUME NEW X \in SUBSET JobId, check_timeouts(X)
      PROVE  AnswersOK(owned', asked', answers')
  <2>1. /\ owned' = remove_owned_job(owned, X) /\ asked' = asked
        /\ answers' = Answered(X, "JOB_TIMEOUT")
        /\ \A j \in X : ~owned[j].grant_notified
    BY <1>6 DEF check_timeouts, MayTimeOut
  <2>2. /\ X \cap DOMAIN owned \subseteq X
        /\ \A j \in X \cap DOMAIN owned : ~owned[j].grant_notified
    BY <2>1
  <2> QED  BY <2>1, <2>2, FinalAnswer
<1>7. ASSUME NEW n \in Node, handle_node_disconnected(n)
      PROVE  AnswersOK(owned', asked', answers')
  <2>1. PICK X \in Collected(AffectedBy(owned, n), MAX_AFFECTED) :
            /\ owned' = remove_owned_job(owned, X)
            /\ \E K \in Outboxes(X, {m \in UNION {Releases(j) : j \in X} :
                                        m.node # n}, TRUE) :
                  answers' = Answered(AnswersIn(K), "JOB_DENIED")
    BY <1>7 DEF handle_node_disconnected
  <2> DEFINE R == {m \in UNION {Releases(j) : j \in X} : m.node # n}
  <2>2. PICK K \in Outboxes(X, R, TRUE) :
            answers' = Answered(AnswersIn(K), "JOB_DENIED")
    BY <2>1
  <2>3. X \subseteq DOMAIN owned
    BY CollectedType DEF AffectedBy
  <2>4. R \subseteq Message
    BY <1>0, <2>3, ReleasesType
  <2> HIDE DEF R
  <2>5. AnswersIn(K) \cap DOMAIN owned \subseteq X
    BY <2>4, AnswersInType
  <2>6. asked' = asked
    BY <1>7 DEF handle_node_disconnected
  <2> QED  BY <2>1, <2>2, <2>5, <2>6, FinalAnswer
<1>8. ASSUME NEW n \in Node, check_deadnodes(n)
      PROVE  AnswersOK(owned', asked', answers')
  <2>1. PICK X \in Collected(AffectedBy(owned, n), MAX_AFFECTED) :
            /\ owned' = remove_owned_job(owned, X)
            /\ \E K \in Outboxes(X, UNION {Releases(j) : j \in X}, TRUE) :
                  answers' = Answered(AnswersIn(K), "JOB_DENIED")
    BY <1>8 DEF check_deadnodes
  <2> DEFINE R == UNION {Releases(j) : j \in X}
  <2>2. PICK K \in Outboxes(X, R, TRUE) :
            answers' = Answered(AnswersIn(K), "JOB_DENIED")
    BY <2>1
  <2>3. X \subseteq DOMAIN owned
    BY CollectedType DEF AffectedBy
  <2>4. R \subseteq Message
    BY <1>0, <2>3, ReleasesType
  <2> HIDE DEF R
  <2>5. AnswersIn(K) \cap DOMAIN owned \subseteq X
    BY <2>4, AnswersInType
  <2>6. asked' = asked
    BY <1>8 DEF check_deadnodes
  <2> QED  BY <2>1, <2>2, <2>5, <2>6, FinalAnswer
<1>9. ASSUME NEW X, owned' = remove_owned_job(owned, X),
             UNCHANGED <<answers, asked>>
      PROVE  AnswersOK(owned', asked', answers')
  <2>1. /\ DOMAIN owned' \subseteq DOMAIN owned
        /\ \A k \in DOMAIN owned' : owned'[k] = owned[k]
    BY <1>9 DEF remove_owned_job
  <2> QED  BY <1>9, <2>1, NoAnswer
<1>10. ASSUME NEW j \in JobId, handle_job_release(j)
       PROVE  AnswersOK(owned', asked', answers')
  BY <1>9, <1>10 DEF handle_job_release
<1>11. ASSUME NEW c \in Client, handle_scheduler_disconnected(c)
       PROVE  AnswersOK(owned', asked', answers')
  BY <1>9, <1>11 DEF handle_scheduler_disconnected
<1>12. ASSUME UNCHANGED <<owned, answers, asked>>
       PROVE  AnswersOK(owned', asked', answers')
  BY <1>12, NoAnswer
<1>13. ASSUME NEW m \in net, \/ server_grants(m) \/ server_queues(m)
                             \/ server_denies(m) \/ server_releases(m)
       PROVE  AnswersOK(owned', asked', answers')
  BY <1>12, <1>13 DEF server_grants, server_queues, server_denies, server_releases
<1>14. ASSUME NEW r \in waiting, server_serves_queued(r)
       PROVE  AnswersOK(owned', asked', answers')
  BY <1>12, <1>14 DEF server_serves_queued
<1>15. ASSUME NEW n \in Node, \/ link_lost(n) \/ forget_connection(n)
                              \/ \E c \in 1 .. MaxConn : server_sweeps(n, c)
       PROVE  AnswersOK(owned', asked', answers')
  BY <1>12, <1>15 DEF link_lost, forget_connection, server_sweeps
<1>16. CASE UNCHANGED vars
  BY <1>12, <1>16
<1> QED
  BY <1>1, <1>2, <1>3, <1>4, <1>5, <1>6, <1>7, <1>8, <1>10, <1>11, <1>13,
     <1>14, <1>15, <1>16 DEF Next

(* The answers to a job are one, or a grant and its revocation, or none:   *)
(* no answer is given twice and a JOB_TIMEOUT stands alone, for any jobs,  *)
(* limits and failures, and in whatever order the outboxes are sent.       *)
THEOREM AnswersAreFinal == Spec => []AnswerDiscipline
<1>1. Init => AInv
  <2> SUFFICES ASSUME Init PROVE AnswersOK(owned, asked, answers)
    BY InitTInv DEF AInv
  <2>1. DOMAIN owned = {} /\ answers = [j \in JobId |-> Unanswered]
    BY DEF Init
  <2> QED  BY <2>1, NoneGiven DEF AnswersOK
<1>2. AInv => AnswerDiscipline
  BY DEF AInv, AnswersOK, AnswerDiscipline, Compatible
<1> QED  BY <1>1, <1>2, NextAInv, PTL DEF Spec

----------------------------------------------------------------------------
(***************************************************************************)
(* The connections.  A connection whose end is still in the table is       *)
(* broken, and a recorded GRANTED came over the present connection or over *)
(* one that is broken.  The table is finite.                               *)
(***************************************************************************)
LinksOK(e, L, Z, K) ==
    /\ \A n \in Z : <<n, e[n]>> \in L
    /\ \A r \in K : r.conn = e[r.node] \/ <<r.node, r.conn>> \in L

LInv ==
    /\ TInv
    /\ IsFiniteSet(DOMAIN owned)
    /\ LinksOK(epoch, lost, zombie, acked)

(* What a step may do to the connections: break some, forget a broken one, *)
(* or leave a broken one in the table, once the jobs X with a petition     *)
(* there are removed.                                                      *)
LinkStep ==
    \/ epoch' = epoch /\ zombie' = zombie /\ lost \subseteq lost'
    \/ \E n \in Node : forget_connection(n)
    \/ \E n \in Node :
          /\ epoch' = epoch /\ zombie' = zombie \cup {n}
          /\ lost \subseteq lost' /\ <<n, epoch[n]>> \in lost'
          /\ \E X \in Collected(AffectedBy(owned, n), MAX_AFFECTED) :
                owned' = remove_owned_job(owned, X)

LEMMA LinkSteps == [Next]_vars => LinkStep
<1> SUFFICES ASSUME [Next]_vars PROVE LinkStep
  OBVIOUS
<1> USE DEF vars, linkVars
<1>1. ASSUME NEW n \in Node, handle_node_disconnected(n)
      PROVE  LinkStep
  BY <1>1 DEF handle_node_disconnected, Live, LinkStep
<1>2. ASSUME NEW n \in Node, check_deadnodes(n)
      PROVE  LinkStep
  BY <1>2 DEF check_deadnodes, LinkStep
<1>3. ASSUME NEW n \in Node, link_lost(n) \/ forget_connection(n)
      PROVE  LinkStep
  BY <1>3 DEF link_lost, LinkStep
<1>4. ASSUME UNCHANGED linkVars
      PROVE  LinkStep
  BY <1>4 DEF LinkStep
<1>5. ASSUME \/ \E j \in JobId : \/ \E c \in Client : handle_job_request(j, c)
                                 \/ first_reserve(j) \/ first_send(j)
                                 \/ handle_job_release(j)
             \/ \E X \in SUBSET JobId : check_timeouts(X)
             \/ \E m \in net : \/ handle_granted(m) \/ handle_denied(m)
                               \/ server_grants(m) \/ server_queues(m)
                               \/ server_denies(m) \/ server_releases(m)
             \/ \E r \in waiting : server_serves_queued(r)
             \/ \E c \in Client : handle_scheduler_disconnected(c)
             \/ \E n \in Node : \E c \in 1 .. MaxConn : server_sweeps(n, c)
             \/ UNCHANGED vars
      PROVE  UNCHANGED linkVars
  BY <1>5 DEF handle_job_request, first_reserve, first_send, handle_job_release,
              check_timeouts, handle_granted, handle_denied, server_grants,
              server_queues, server_denies, server_releases,
              server_serves_queued, handle_scheduler_disconnected, server_sweeps
<1> QED  BY <1>1, <1>2, <1>3, <1>4, <1>5 DEF Next

(* No step that grows touches a connection or more than one job. *)
LEMMA GrowingKeeps ==
    ASSUME TInv, Growing
    PROVE  /\ UNCHANGED linkVars
           /\ \E j \in JobId : DOMAIN owned' \subseteq DOMAIN owned \cup {j}
<1> USE DEF jobVars
<1>1. UNCHANGED linkVars
  BY DEF Growing, handle_job_request, first_reserve, first_send, handle_granted,
         server_grants, server_queues, server_denies, server_serves_queued
<1>2. ASSUME NEW m \in net, handle_granted(m), Expected(owned, m.job, m.node)
      PROVE  DOMAIN owned' = DOMAIN owned /\ m.job \in JobId
  BY <1>2, GrantFacts DEF GrantStep, Expected, TInv, IInv, TableOK
<1>3. ASSUME NEW j \in JobId, NEW c \in Client, handle_job_request(j, c)
      PROVE  DOMAIN owned' = DOMAIN owned \cup {j}
  BY <1>3 DEF handle_job_request, add_new_owned_job
<1>4. ASSUME NEW j, owned' = get_next_reserve(owned, j)
      PROVE  DOMAIN owned' = DOMAIN owned
  BY <1>4 DEF get_next_reserve
<1>5. ASSUME \/ \E j \in JobId : first_send(j)
             \/ \E m \in net : server_grants(m) \/ server_queues(m) \/ server_denies(m)
             \/ \E r \in waiting : server_serves_queued(r)
      PROVE  /\ owned' = owned
             /\ \E j \in JobId : TRUE
  <2>1. owned' = owned
    BY <1>5 DEF first_send, server_grants, server_queues, server_denies,
                server_serves_queued
  <2>2. net \subseteq Message /\ waiting \subseteq Reservation
    BY DEF TInv, IInv, RestOK
  <2>3. \E j \in JobId : TRUE
    BY <1>5, <2>2 DEF Message, Reservation
  <2> QED  BY <2>1, <2>3
<1> QED  BY <1>1, <1>2, <1>3, <1>4, <1>5 DEF Growing

LEMMA InitLInv == Init => LInv
<1> SUFFICES ASSUME Init PROVE LInv
  OBVIOUS
<1>1. DOMAIN owned = {} /\ zombie = {} /\ acked = {}
  BY DEF Init
<1>2. IsFiniteSet(DOMAIN owned)
  BY <1>1, FS_EmptySet
<1> QED  BY <1>1, <1>2, InitTInv DEF LInv, LinksOK

LEMMA NextLInv == LInv /\ [Next]_vars => LInv'
<1> SUFFICES ASSUME LInv, [Next]_vars PROVE LInv'
  OBVIOUS
<1>1. TInv' /\ TInv
  BY NextTInv DEF LInv
<1>2. Shrinking \/ Growing
  BY <1>1, StepKinds
<1>3. IsFiniteSet(DOMAIN owned')
  <2>1. \E j : DOMAIN owned' \subseteq DOMAIN owned \cup {j}
    BY <1>1, <1>2, GrowingKeeps DEF Shrinking
  <2>2. PICK j : DOMAIN owned' \subseteq DOMAIN owned \cup {j}
    BY <2>1
  <2>3. IsFiniteSet(DOMAIN owned \cup {j})
    BY FS_AddElement DEF LInv
  <2> QED  BY <2>2, <2>3, FS_Subset
<1>4. LinksOK(epoch', lost', zombie', acked')
  <2>1. \A r \in acked' : \/ r \in acked
                          \/ r.conn = epoch[r.node] /\ UNCHANGED linkVars
    <3>1. CASE Shrinking
      BY <3>1 DEF Shrinking
    <3>2. CASE Growing
      <4>1. UNCHANGED linkVars
        BY <1>1, <3>2, GrowingKeeps
      <4>2. ASSUME NEW m \in net, handle_granted(m), Expected(owned, m.job, m.node)
            PROVE  \A r \in acked' : r \in acked \/ r.conn = epoch[r.node]
        <5>1. acked' = acked \cup
                 {[job |-> m.job, node |-> m.node, conn |-> m.conn,
                   type |-> owned[m.job].petitions[owned[m.job].next_reserve_idx].type]}
          BY <4>2 DEF handle_granted
        <5>2. m.conn = epoch[m.node]
          BY <4>2 DEF handle_granted
        <5> QED  BY <5>1, <5>2
      <4>3. ASSUME ~ \E m \in net : handle_granted(m) /\ Expected(owned, m.job, m.node)
            PROVE  acked' = acked
        BY <3>2, <4>3 DEF Growing, handle_job_request, first_reserve, first_send,
              server_grants, server_queues, server_denies, server_serves_queued
      <4> QED  BY <4>1, <4>2, <4>3
    <3> QED  BY <1>2, <3>1, <3>2
  <2>2. LinkStep
    BY LinkSteps
  <2>3. CASE epoch' = epoch /\ zombie' = zombie /\ lost \subseteq lost'
    BY <2>1, <2>3 DEF LInv, LinksOK
  <2>4. ASSUME NEW n \in Node, forget_connection(n)
        PROVE  LinksOK(epoch', lost', zombie', acked')
    <3>1. /\ zombie' = zombie \ {n} /\ n \in zombie /\ lost' = lost /\ acked' = acked
          /\ epoch' = [epoch EXCEPT ![n] = epoch[n] + 1]
      BY <2>4 DEF forget_connection
    <3>2. epoch \in [Node -> Nat] /\ zombie \subseteq Node /\ acked \subseteq Reservation
      BY <1>1 DEF TInv, IInv, RestOK
    <3>3. \A k \in Node \ {n} : epoch'[k] = epoch[k]
      BY <3>1, <3>2
    <3>4. \A k \in zombie' : <<k, epoch'[k]>> \in lost'
      BY <3>1, <3>2, <3>3 DEF LInv, LinksOK
    <3>5. ASSUME NEW r \in acked
          PROVE  r.conn = epoch'[r.node] \/ <<r.node, r.conn>> \in lost'
      <4>1. r.node \in Node
        BY <3>2 DEF Reservation
      <4>2. r.conn = epoch[r.node] \/ <<r.node, r.conn>> \in lost
        BY DEF LInv, LinksOK
      <4>3. <<n, epoch[n]>> \in lost
        BY <3>1 DEF LInv, LinksOK
      <4> QED  BY <3>1, <3>3, <4>1, <4>2, <4>3
    <3> QED  BY <3>1, <3>4, <3>5 DEF LinksOK
  <2>5. ASSUME NEW n \in Node, epoch' = epoch, zombie' = zombie \cup {n},
               lost \subseteq lost', <<n, epoch[n]>> \in lost'
        PROVE  LinksOK(epoch', lost', zombie', acked')
    BY <2>1, <2>5 DEF LInv, LinksOK
  <2> QED  BY <2>2, <2>3, <2>4, <2>5 DEF LinkStep
<1> QED  BY <1>1, <1>3, <1>4 DEF LInv, LinksOK

----------------------------------------------------------------------------
(***************************************************************************)
(* What the coordinator believes granted.  handle_node_disconnected and    *)
(* handle_check_deadnodes collect at most MAX_AFFECTED jobs of a dead      *)
(* node; a job they miss stays in the table with grants of a connection    *)
(* that is gone.  The theorem is therefore about behaviours in which no    *)
(* node serves more jobs of this agent than that.                          *)
(***************************************************************************)
AffectedFit ==
    \A n \in Node : Cardinality(AffectedBy(owned, n)) <= MAX_AFFECTED

Entry(j, p, c) == [job |-> j, node |-> p.node, type |-> p.type, conn |-> c]

(* No granted petition is at a node whose connection is closed and not     *)
(* wiped: forget_connection will start a new connection, on which the      *)
(* server holds nothing.                                                   *)
GrantsOK(T, H, e, L, Z) ==
    \A j \in DOMAIN T : \A i \in T[j].granted :
        /\ T[j].petitions[i].node \notin Z
        /\ \/ <<T[j].petitions[i].node, e[T[j].petitions[i].node]>> \in L
           \/ Entry(j, T[j].petitions[i], e[T[j].petitions[i].node]) \in H

(* A GRANTED on its way to an owned job tells the truth. *)
RepliesOK(T, N, H, L) ==
    \A m \in N : /\ m.kind = "GRANTED" /\ m.job \in DOMAIN T
                 /\ <<m.node, m.conn>> \notin L
                 => ReservationOf(m) \in H

HInv ==
    /\ LInv
    /\ GrantsOK(owned, held, epoch, lost, zombie)
    /\ RepliesOK(owned, net, held, lost)

(* All the jobs of a dead node are collected when they fit. *)
LEMMA AllCollected ==
    ASSUME NEW S, IsFiniteSet(S), NEW max \in Nat, Cardinality(S) <= max,
           NEW X \in Collected(S, max)
    PROVE  X = S
<1>1. X \subseteq S /\ Cardinality(X) = Cardinality(S)
  BY DEF Collected
<1>2. X # S => Cardinality(X) < Cardinality(S)
  BY <1>1, FS_Subset
<1>3. Cardinality(S) \in Nat
  BY FS_CardinalityType
<1> QED  BY <1>1, <1>2, <1>3

(* The granted petitions of an owned job are petitions. *)
LEMMA GrantedIndex ==
    ASSUME TInv, NEW j \in DOMAIN owned, NEW i \in owned[j].granted
    PROVE  /\ i \in 1 .. owned[j].next_reserve_idx
           /\ i \in 1 .. Len(owned[j].petitions)
           /\ owned[j].petitions[i] \in Petition
<1>1. owned[j] \in OwnedJob /\ InOrder(owned[j])
  BY DEF TInv, IInv, TableOK, JobOK
<1>2. /\ owned[j].petitions \in Seq(Petition) /\ owned[j].next_reserve_idx \in Nat
      /\ owned[j].next_reserve_idx <= Len(owned[j].petitions)
      /\ Len(owned[j].petitions) \in Nat
  BY <1>1, LenProperties DEF OwnedJob, InOrder
<1>3. i \in 1 .. owned[j].next_reserve_idx
  BY <1>1, <1>2 DEF InOrder
<1>4. i \in 1 .. Len(owned[j].petitions)
  BY <1>2, <1>3
<1> QED  BY <1>2, <1>3, <1>4, ElementOfSeq

(* Taking away, whatever happens to the connections. *)
LEMMA ShrinkGrants ==
    ASSUME HInv, AffectedFit, Shrinking, LinkStep
    PROVE  /\ GrantsOK(owned', held', epoch', lost', zombie')
           /\ RepliesOK(owned', net', held', lost')
<1>0. TInv /\ epoch \in [Node -> Nat]
  BY DEF HInv, LInv, TInv, IInv, RestOK
<1>1. lost \subseteq lost'
  BY DEF LinkStep, forget_connection
<1>2. RepliesOK(owned', net', held', lost')
  <2> SUFFICES ASSUME NEW m \in net', m.kind = "GRANTED", m.job \in DOMAIN owned',
                      <<m.node, m.conn>> \notin lost'
               PROVE  ReservationOf(m) \in held'
    BY DEF RepliesOK
  <2>1. m \in net /\ m.job \in DOMAIN owned /\ <<m.node, m.conn>> \notin lost
    BY <1>1 DEF Shrinking
  <2>2. ReservationOf(m) \in held
    BY <2>1 DEF HInv, RepliesOK
  <2> DEFINE r == ReservationOf(m)
  <2>3. r.job = m.job /\ r.node = m.node /\ r.conn = m.conn
    BY Fields
  <2> HIDE DEF r
  <2>4. r \in held
    BY <2>2 DEF r
  <2>5. r \in held'
    BY <2>1, <2>3, <2>4 DEF Shrinking
  <2> QED  BY <2>5 DEF r
<1>3. ASSUME NEW j \in DOMAIN owned', NEW i \in owned'[j].granted
      PROVE  LET p == owned'[j].petitions[i]
             IN  /\ p.node \notin zombie'
                 /\ <<p.node, epoch'[p.node]>> \in lost' \/ Entry(j, p, epoch'[p.node]) \in held'
  <2>1. j \in DOMAIN owned /\ owned'[j] = owned[j] /\ i \in owned[j].granted
    BY <1>3 DEF Shrinking
  <2> DEFINE p == owned[j].petitions[i]
  <2>2. /\ p.node \notin zombie
        /\ <<p.node, epoch[p.node]>> \in lost \/ Entry(j, p, epoch[p.node]) \in held
    BY <2>1 DEF HInv, GrantsOK
  <2>3. p \in Petition /\ i \in 1 .. Len(owned[j].petitions)
    BY <1>0, <2>1, GrantedIndex
  <2>4. p.node \in Node
    BY <2>3 DEF Petition
  <2>5. <<p.node, epoch[p.node]>> \in lost' \/ Entry(j, p, epoch[p.node]) \in held'
    <3> DEFINE r == Entry(j, p, epoch[p.node])
    <3>1. r.job = j /\ r.node = p.node /\ r.conn = epoch[p.node]
      BY DEF Entry
    <3> HIDE DEF r
    <3>2. CASE <<p.node, epoch[p.node]>> \in lost
      BY <1>1, <3>2
    <3>3. CASE r \in held
      <4>1. r \in held' \/ <<p.node, epoch[p.node]>> \in lost
        BY <2>1, <3>1, <3>3 DEF Shrinking
      <4> QED  BY <1>1, <4>1 DEF r
    <3> QED  BY <2>2, <3>2, <3>3 DEF r
  <2>6. p.node \notin zombie' /\ epoch'[p.node] = epoch[p.node]
    <3>1. CASE epoch' = epoch /\ zombie' = zombie
      BY <2>2, <3>1
    <3>2. ASSUME NEW n \in Node, forget_connection(n)
          PROVE  p.node \notin zombie' /\ epoch'[p.node] = epoch[p.node]
      <4>1. /\ n \in zombie /\ zombie' = zombie \ {n}
            /\ epoch' = [epoch EXCEPT ![n] = epoch[n] + 1]
        BY <3>2 DEF forget_connection
      <4>2. p.node # n
        BY <2>2, <4>1
      <4> QED  BY <1>0, <2>2, <2>4, <4>1, <4>2
    <3>3. ASSUME NEW n \in Node, epoch' = epoch, zombie' = zombie \cup {n},
                 NEW X \in Collected(AffectedBy(owned, n), MAX_AFFECTED),
                 owned' = remove_owned_job(owned, X)
          PROVE  p.node \notin zombie' /\ epoch'[p.node] = epoch[p.node]
      <4>1. IsFiniteSet(AffectedBy(owned, n))
        <5>1. AffectedBy(owned, n) \subseteq DOMAIN owned
          BY DEF AffectedBy
        <5> QED  BY <5>1, FS_Subset DEF HInv, LInv
      <4>2. X = AffectedBy(owned, n)
        BY <4>1, AllCollected, JobCoordinatorAssumption DEF AffectedFit
      <4>3. j \notin X
        BY <1>3, <3>3 DEF remove_owned_job
      <4>4. p.node # n
        BY <2>1, <2>3, <4>2, <4>3 DEF AffectedBy
      <4> QED  BY <2>2, <3>3, <4>4
    <3> QED  BY <3>1, <3>2, <3>3 DEF LinkStep
  <2> QED  BY <2>1, <2>5, <2>6
<1>4. GrantsOK(owned', held', epoch', lost', zombie')
  BY <1>3 DEF GrantsOK
<1> QED  BY <1>2, <1>4

(* A server only announces a grant for what it has just entered. *)
LEMMA GrowRepliesOK ==
    ASSUME HInv, Growing
    PROVE  RepliesOK(owned', net', held', lost')
<1>0. TInv /\ net \subseteq Message /\ waiting \subseteq Reservation
  BY DEF HInv, LInv, TInv, IInv, RestOK
<1>1. lost' = lost
  BY <1>0, GrowingKeeps DEF linkVars
<1> USE DEF jobVars, srvVars
<1>2. ASSUME held' = held, DOMAIN owned' \subseteq DOMAIN owned,
             \A m \in net' : m \in net \/ m.kind # "GRANTED"
      PROVE  RepliesOK(owned', net', held', lost')
  BY <1>1, <1>2 DEF HInv, RepliesOK
<1>3. ASSUME NEW j \in JobId, NEW c \in Client, handle_job_request(j, c)
      PROVE  RepliesOK(owned', net', held', lost')
  <2>1. /\ j \notin asked /\ net' = net /\ held' = held
        /\ owned' = add_new_owned_job(owned, j, c, PetitionsOf[j])
    BY <1>3 DEF handle_job_request
  <2>2. DOMAIN owned' = DOMAIN owned \cup {j}
    BY <2>1 DEF add_new_owned_job
  <2>3. \A m \in net : m.job # j
    BY <1>0, <2>1 DEF TInv, AskedOK
  <2> QED  BY <1>1, <2>1, <2>2, <2>3 DEF HInv, RepliesOK
<1>4. ASSUME NEW j \in JobId, first_reserve(j), owned' = get_next_reserve(owned, j)
      PROVE  RepliesOK(owned', net', held', lost')
  <2>1. net' = net /\ held' = held
    BY <1>4 DEF first_reserve
  <2>2. DOMAIN owned' = DOMAIN owned
    BY <1>4 DEF get_next_reserve
  <2> QED  BY <1>2, <2>1, <2>2
<1>5. ASSUME NEW j \in JobId, first_send(j)
      PROVE  RepliesOK(owned', net', held', lost')
  <2>1. held' = held /\ owned' = owned
    BY <1>5 DEF first_send
  <2>2. \A m \in net' : m \in net \/ m.kind # "GRANTED"
    <3>1. \E q : net' \subseteq net \cup {Msg("RESERVE", j, q)}
      BY <1>5 DEF first_send, Deliverable
    <3> QED  BY <3>1, Fields
  <2> QED  BY <1>2, <2>1, <2>2
<1>6. ASSUME NEW m \in net, handle_granted(m), Expected(owned, m.job, m.node)
      PROVE  RepliesOK(owned', net', held', lost')
  <2>1. held' = held
    BY <1>6 DEF handle_granted
  <2>2. GrantStep(m)
    BY <1>0, <1>6, GrantFacts
  <2>3. DOMAIN owned' = DOMAIN owned
    BY <2>2 DEF GrantStep
  <2>4. \A l \in net' : l \in net \/ l.kind # "GRANTED"
    BY <2>2, Fields DEF GrantStep
  <2> QED  BY <1>2, <2>1, <2>3, <2>4
<1>7. ASSUME NEW x \in Message \cup Reservation, owned' = owned,
             held \subseteq held', ReservationOf(x) \in held',
             net' \subseteq net \cup {Reply("GRANTED", x)}
      PROVE  RepliesOK(owned', net', held', lost')
  <2>1. ReservationOf(Reply("GRANTED", x)) = ReservationOf(x)
    BY DEF ReservationOf, Reply
  <2> QED  BY <1>1, <1>7, <2>1 DEF HInv, RepliesOK
<1>8. ASSUME NEW m \in net, server_grants(m)
      PROVE  RepliesOK(owned', net', held', lost')
  <2>1. /\ owned' = owned /\ held' = held \cup {ReservationOf(m)}
        /\ net' \subseteq net \cup {Reply("GRANTED", m)}
    BY <1>8 DEF server_grants, Deliverable
  <2> QED  BY <1>0, <1>7, <2>1
<1>9. ASSUME NEW m \in net, server_queues(m) \/ server_denies(m)
      PROVE  RepliesOK(owned', net', held', lost')
  <2>1. owned' = owned /\ held' = held
    BY <1>9 DEF server_queues, server_denies
  <2>2. \A l \in net' : l \in net \/ l.kind # "GRANTED"
    <3>1. net' \subseteq net \cup {Reply("DENIED", m)}
      BY <1>9 DEF server_queues, server_denies, Deliverable
    <3> QED  BY <3>1, Fields
  <2> QED  BY <1>2, <2>1, <2>2
<1>10. ASSUME NEW r \in waiting, server_serves_queued(r)
       PROVE  RepliesOK(owned', net', held', lost')
  <2>1. /\ owned' = owned /\ held' = held \cup {r}
        /\ net' \subseteq net \cup {Reply("GRANTED", r)}
    BY <1>10 DEF server_serves_queued, Deliverable
  <2>2. ReservationOf(r) = r
    BY <1>0 DEF ReservationOf, Reservation
  <2> QED  BY <1>0, <1>7, <2>1, <2>2
<1> QED  BY <1>3, <1>4, <1>5, <1>6, <1>8, <1>9, <1>10 DEF Growing

(* handle_granted believes the GRANTED of the present connection, which is *)
(* about the petition that waits; the other steps believe nothing new.     *)
LEMMA GrowGrantsOK ==
    ASSUME HInv, Growing
    PROVE  GrantsOK(owned', held', epoch', lost', zombie')
<1>0. TInv /\ net \subseteq Message
  BY DEF HInv, LInv, TInv, IInv, RestOK
<1>1. lost' = lost /\ epoch' = epoch /\ zombie' = zombie
  BY <1>0, GrowingKeeps DEF linkVars
<1> USE DEF jobVars, srvVars
<1>2. ASSUME held \subseteq held',
             \A j \in DOMAIN owned' :
                 \/ owned'[j].granted = {}
                 \/ /\ j \in DOMAIN owned
                    /\ owned'[j].granted = owned[j].granted
                    /\ owned'[j].petitions = owned[j].petitions
      PROVE  GrantsOK(owned', held', epoch', lost', zombie')
  BY <1>1, <1>2 DEF HInv, GrantsOK
<1>3. ASSUME NEW j \in JobId, NEW c \in Client, handle_job_request(j, c)
      PROVE  GrantsOK(owned', held', epoch', lost', zombie')
  <2>1. /\ held' = held
        /\ owned' = add_new_owned_job(owned, j, c, PetitionsOf[j])
    BY <1>3 DEF handle_job_request
  <2>2. /\ DOMAIN owned' = DOMAIN owned \cup {j}
        /\ owned'[j].granted = {}
        /\ \A k \in DOMAIN owned \ {j} : owned'[k] = owned[k]
    BY <2>1 DEF add_new_owned_job
  <2> QED  BY <1>2, <2>1, <2>2
<1>4. ASSUME NEW j \in JobId, first_reserve(j), j \in DOMAIN owned,
             owned' = get_next_reserve(owned, j)
      PROVE  GrantsOK(owned', held', epoch', lost', zombie')
  <2>1. held' = held
    BY <1>4 DEF first_reserve
  <2>2. owned[j] \in OwnedJob
    BY <1>0, <1>4 DEF TInv, IInv, TableOK, JobOK
  <2>3. /\ DOMAIN owned' = DOMAIN owned
        /\ owned'[j] = [owned[j] EXCEPT !.next_reserve_idx = owned[j].next_reserve_idx + 1]
        /\ \A k \in DOMAIN owned \ {j} : owned'[k] = owned[k]
    BY <1>4 DEF get_next_reserve
  <2>4. /\ owned'[j].granted = owned[j].granted
        /\ owned'[j].petitions = owned[j].petitions
    BY <2>2, <2>3 DEF OwnedJob
  <2> QED  BY <1>2, <2>1, <2>3, <2>4
<1>5. ASSUME NEW m \in net, handle_granted(m), Expected(owned, m.job, m.node)
      PROVE  GrantsOK(owned', held', epoch', lost', zombie')
  <2> DEFINE j == m.job
             i == owned[j].next_reserve_idx
  <2>1. GrantStep(m) /\ held' = held
    BY <1>0, <1>5, GrantFacts DEF handle_granted
  <2>2. /\ m.kind = "GRANTED" /\ m.node \notin zombie /\ m.conn = epoch[m.node]
        /\ j \in DOMAIN owned
    BY <1>5 DEF handle_granted, Expected
  <2>3. Names(owned, m)
    BY <1>0, <2>2 DEF TInv, TokensOK, InNet, Asks
  <2>4. /\ owned[j].petitions[i].node = m.node
        /\ owned[j].petitions[i].type = m.type
    BY <2>3 DEF Names
  <2>5. \/ <<m.node, epoch[m.node]>> \in lost
        \/ Entry(j, owned[j].petitions[i], epoch[m.node]) \in held
    <3>1. ReservationOf(m) = Entry(j, owned[j].petitions[i], epoch[m.node])
      BY <2>2, <2>4 DEF ReservationOf, Entry
    <3> QED  BY <2>2, <3>1 DEF HInv, RepliesOK
  <2>6. i \in Nat
    <3>1. owned[j] \in OwnedJob
      BY <1>0, <2>2 DEF TInv, IInv, TableOK, JobOK
    <3> QED  BY <3>1 DEF OwnedJob
  <2>7. \A k \in owned'[j].granted : k = i \/ k \in owned[j].granted
    <3>1. \A k \in 1 .. i : k = i \/ k \in 1 .. (i - 1)
      BY <2>6
    <3> QED  BY <2>1, <3>1 DEF GrantStep
  <2>8. /\ DOMAIN owned' = DOMAIN owned
        /\ owned'[j].petitions = owned[j].petitions
        /\ \A k \in DOMAIN owned \ {j} : owned'[k] = owned[k]
    BY <2>1 DEF GrantStep
  <2> SUFFICES ASSUME NEW k \in DOMAIN owned', NEW q \in owned'[k].granted
               PROVE  /\ owned'[k].petitions[q].node \notin zombie
                      /\ \/ <<owned'[k].petitions[q].node,
                              epoch[owned'[k].petitions[q].node]>> \in lost
                         \/ Entry(k, owned'[k].petitions[q],
                                  epoch[owned'[k].petitions[q].node]) \in held
    BY <1>1, <2>1 DEF GrantsOK
  <2>9. CASE k = j /\ q = i
    BY <2>2, <2>4, <2>5, <2>8, <2>9
  <2>10. CASE ~(k = j /\ q = i)
    <3>1. /\ k \in DOMAIN owned /\ q \in owned[k].granted
          /\ owned'[k].petitions = owned[k].petitions
      BY <2>7, <2>8, <2>10
    <3> QED  BY <3>1 DEF HInv, GrantsOK
  <2> QED  BY <2>9, <2>10
<1>6. ASSUME owned' = owned, held \subseteq held'
      PROVE  GrantsOK(owned', held', epoch', lost', zombie')
  BY <1>2, <1>6
<1>7. ASSUME NEW j \in JobId, first_send(j)
      PROVE  GrantsOK(owned', held', epoch', lost', zombie')
  BY <1>6, <1>7 DEF first_send
<1>8. ASSUME NEW m \in net, server_grants(m) \/ server_queues(m) \/ server_denies(m)
      PROVE  GrantsOK(owned', held', epoch', lost', zombie')
  BY <1>6, <1>8 DEF server_grants, server_queues, server_denies
<1>9. ASSUME NEW r \in waiting, server_serves_queued(r)
      PROVE  GrantsOK(owned', held', epoch', lost', zombie')
  BY <1>6, <1>9 DEF server_serves_queued
<1> QED  BY <1>3, <1>4, <1>5, <1>7, <1>8, <1>9 DEF Growing

LEMMA NextHInv == HInv /\ AffectedFit /\ [Next]_vars => HInv'
<1> SUFFICES ASSUME HInv, AffectedFit, [Next]_vars PROVE HInv'
  OBVIOUS
<1>1. LInv' /\ TInv
  BY NextLInv DEF HInv, LInv
<1>2. LinkStep /\ (Shrinking \/ Growing)
  BY <1>1, LinkSteps, StepKinds
<1>3. /\ GrantsOK(owned', held', epoch', lost', zombie')
      /\ RepliesOK(owned', net', held', lost')
  BY <1>2, ShrinkGrants, GrowGrantsOK, GrowRepliesOK
<1> QED  BY <1>1, <1>3 DEF HInv, GrantsOK, RepliesOK

(* What the coordinator marked granted, and so what a job runs on after    *)
(* its JOB_GRANTED, is in the active table of a server whose connection    *)
(* stands: no late, duplicate or misdirected answer, rollback or dead node *)
(* makes it believe otherwise, as long as no node ever has more jobs of    *)
(* this agent than one rollback collects.                                  *)
THEOREM GrantsAreHeld == Spec /\ []AffectedFit => []GrantedIsHeld
<1>1. Init => HInv
  <2> SUFFICES ASSUME Init
               PROVE  /\ GrantsOK(owned, held, epoch, lost, zombie)
                      /\ RepliesOK(owned, net, held, lost)
    BY InitLInv DEF HInv
  <2>1. DOMAIN owned = {} /\ net = {}
    BY DEF Init
  <2> QED  BY <2>1 DEF GrantsOK, RepliesOK
<1>2. HInv => GrantedIsHeld
  BY DEF HInv, GrantsOK, GrantedIsHeld, Entry, Live
<1> QED  BY <1>1, <1>2, NextHInv, PTL DEF Spec

----------------------------------------------------------------------------
(***************************************************************************)
(* Rollbacks.  A reservation whose GRANTED was recorded is never asked for *)
(* again, provided no request lists the same petition twice: with a second *)
(* RESERVE of it on the way, a rollback could release the first grant and  *)
(* the server grant the second one afterwards.                             *)
(***************************************************************************)
DistinctPetitions ==
    \A j \in JobId : \A i, k \in 1 .. Len(PetitionsOf[j]) :
        PetitionsOf[j][i] = PetitionsOf[j][k] => i = k

(* add_to_outbox drops nothing: the granted petitions of the jobs that one *)
(* handler rolls back, and its answers, fit in one outbox.                 *)
RollbacksFit ==
    \A X \in SUBSET DOMAIN owned :
        (\E max \in {1, MAX_AFFECTED, MAX_ORPHANS} : Cardinality(X) <= max) =>
            Cardinality(UNION {Releases(j) : j \in X}) + Cardinality(X)
                <= MAX_OUTBOX

(* A recorded reservation r is not being asked for, and its job, while it  *)
(* is in the table, has it among its granted petitions.                    *)
Recalled(T, r) ==
    r.job \in DOMAIN T =>
        \E i \in T[r.job].granted : /\ T[r.job].petitions[i].node = r.node
                                    /\ T[r.job].petitions[i].type = r.type

AckedOK(T, N, W, C, R, K) ==
    \A r \in K :
        /\ r \notin W
        /\ \A m \in N : m.kind = "RESERVE" => ReservationOf(m) # r
        /\ r.job \notin C /\ r.job \notin R
        /\ Recalled(T, r)

ReleasedBy(m, r) ==
    m.kind = "RELEASE" /\ m.job = r.job /\ m.node = r.node /\ m.conn = r.conn

RollbackOK(T, N, H, K, L) ==
    \A r \in H \cap K :
        \/ <<r.node, r.conn>> \in L
        \/ r.job \in DOMAIN T
        \/ \E m \in N : ReleasedBy(m, r)

RInv ==
    /\ LInv
    /\ AckedOK(owned, net, waiting, copying, registered, acked)
    /\ RollbackOK(owned, net, held, acked, lost)

(* The petitions of an owned job are distinct when those of its request    *)
(* are.                                                                    *)
LEMMA RecordedDistinct ==
    ASSUME DistinctPetitions, TInv, NEW j \in DOMAIN owned,
           NEW i \in 1 .. Len(owned[j].petitions),
           NEW k \in 1 .. Len(owned[j].petitions),
           owned[j].petitions[i].node = owned[j].petitions[k].node,
           owned[j].petitions[i].type = owned[j].petitions[k].type
    PROVE  i = k
<1> DEFINE list == PetitionsOf[j]
           p    == owned[j].petitions
<1>1. /\ p = Recorded(list) /\ j \in JobId /\ list \in Seq(Petition)
      /\ p \in Seq(Petition)
  BY JobCoordinatorAssumption DEF TInv, IInv, TableOK, JobOK, OwnedJob
<1>2. p[i] \in Petition /\ p[k] \in Petition
  BY <1>1, ElementOfSeq
<1>3. p[i] = p[k]
  BY <1>2 DEF Petition
<1>4. Len(list) \in Nat /\ MAX_JOB_RESOURCES \in Nat \ {0}
  BY <1>1, OwnedJobsAssumption, LenProperties
<1>5. /\ i \in 1 .. Len(list) /\ k \in 1 .. Len(list)
      /\ p[i] = list[i] /\ p[k] = list[k]
  <2>1. CASE Len(list) <= MAX_JOB_RESOURCES
    BY <1>1, <2>1 DEF Recorded
  <2>2. CASE ~(Len(list) <= MAX_JOB_RESOURCES)
    <3>1. p = SubSeq(list, 1, MAX_JOB_RESOURCES)
      BY <1>1, <2>2 DEF Recorded
    <3>2. /\ Len(SubSeq(list, 1, MAX_JOB_RESOURCES)) = MAX_JOB_RESOURCES
          /\ \A x \in 1 .. MAX_JOB_RESOURCES :
                SubSeq(list, 1, MAX_JOB_RESOURCES)[x] = list[1 + x - 1]
      BY <1>1, <1>4, <2>2, SubSeqProperties
    <3>3. i \in 1 .. MAX_JOB_RESOURCES /\ k \in 1 .. MAX_JOB_RESOURCES
      BY <3>1, <3>2
    <3>4. 1 + i - 1 = i /\ 1 + k - 1 = k
      BY <1>4, <3>3
    <3>5. p[i] = list[i] /\ p[k] = list[k]
      BY <3>1, <3>2, <3>3, <3>4
    <3> QED  BY <1>4, <2>2, <3>3, <3>5
  <2> QED  BY <2>1, <2>2
<1> QED  BY <1>1, <1>3, <1>5 DEF DistinctPetitions

LEMMA ShrinkAcked ==
    ASSUME RInv, Shrinking
    PROVE  AckedOK(owned', net', waiting', copying', registered', acked')
<1> SUFFICES ASSUME NEW r \in acked
             PROVE  /\ r \notin waiting'
                    /\ \A m \in net' : m.kind = "RESERVE" => ReservationOf(m) # r
                    /\ r.job \notin copying' /\ r.job \notin registered'
                    /\ Recalled(owned', r)
  BY DEF AckedOK, Shrinking
<1>1. /\ r \notin waiting
      /\ \A m \in net : m.kind = "RESERVE" => ReservationOf(m) # r
      /\ r.job \notin copying /\ r.job \notin registered
      /\ Recalled(owned, r)
  BY DEF RInv, AckedOK
<1>2. Recalled(owned', r)
  BY <1>1 DEF Recalled, Shrinking
<1>3. \A m \in net' : m.kind = "RESERVE" => m \in net
  BY DEF Shrinking
<1> QED  BY <1>1, <1>2, <1>3 DEF Shrinking

(* Growing steps keep it too: what is sent is the petition of a job for    *)
(* which nothing was recorded yet, or the successor of those recorded.     *)
LEMMA GrowAcked ==
    ASSUME DistinctPetitions, RInv, Growing
    PROVE  AckedOK(owned', net', waiting', copying', registered', acked')
<1> USE DEF jobVars, srvVars, reqVars, erlVars
<1>0. TInv
  BY DEF RInv, LInv
<1>a. ASSUME NEW r \in acked
      PROVE  /\ r \notin waiting
             /\ \A m \in net : m.kind = "RESERVE" => ReservationOf(m) # r
             /\ r.job \notin copying /\ r.job \notin registered
             /\ Recalled(owned, r)
             /\ r.job \in asked
  BY <1>0 DEF RInv, AckedOK, TInv, AskedOK
<1>1. ASSUME NEW j \in JobId, NEW c \in Client, handle_job_request(j, c)
      PROVE  AckedOK(owned', net', waiting', copying', registered', acked')
  <2>1. /\ j \notin asked /\ registered' = registered \cup {j}
        /\ owned' = add_new_owned_job(owned, j, c, PetitionsOf[j])
        /\ UNCHANGED <<net, waiting, copying, acked>>
    BY <1>1 DEF handle_job_request
  <2>2. /\ DOMAIN owned' = DOMAIN owned \cup {j}
        /\ \A k \in DOMAIN owned \ {j} : owned'[k] = owned[k]
    BY <2>1 DEF add_new_owned_job
  <2>3. \A r \in acked : Recalled(owned', r)
    BY <1>a, <2>1, <2>2 DEF Recalled
  <2> QED  BY <1>a, <2>1, <2>3 DEF AckedOK
<1>2. ASSUME NEW j \in JobId, first_reserve(j), j \in DOMAIN owned,
             owned' = get_next_reserve(owned, j), copying' = copying \cup {j}
      PROVE  AckedOK(owned', net', waiting', copying', registered', acked')
  <2>1. /\ j \in registered /\ registered' \subseteq registered
        /\ UNCHANGED <<net, waiting, acked>>
    BY <1>2 DEF first_reserve
  <2>2. /\ DOMAIN owned' = DOMAIN owned
        /\ \A k \in DOMAIN owned \ {j} : owned'[k] = owned[k]
    BY <1>2 DEF get_next_reserve
  <2>3. \A r \in acked : Recalled(owned', r)
    BY <1>a, <2>1, <2>2 DEF Recalled
  <2> QED  BY <1>a, <1>2, <2>1, <2>3 DEF AckedOK
<1>3. ASSUME NEW j \in JobId, first_send(j)
      PROVE  AckedOK(owned', net', waiting', copying', registered', acked')
  <2>1. /\ j \in copying /\ copying' = copying \ {j}
        /\ UNCHANGED <<owned, waiting, registered, acked>>
    BY <1>3 DEF first_send
  <2>2. PICK q : net' \subseteq net \cup {Msg("RESERVE", j, q)}
    BY <1>3 DEF first_send, Deliverable
  <2>3. ReservationOf(Msg("RESERVE", j, q)).job = j
    BY Fields
  <2>4. \A r \in acked : \A m \in net' : m.kind = "RESERVE" => ReservationOf(m) # r
    BY <1>a, <2>1, <2>2, <2>3
  <2>5. \A r \in acked : Recalled(owned', r)
    BY <1>a, <2>1
  <2> QED  BY <1>a, <2>1, <2>4, <2>5 DEF AckedOK
<1>4. ASSUME NEW m \in net, handle_granted(m), Expected(owned, m.job, m.node)
      PROVE  AckedOK(owned', net', waiting', copying', registered', acked')
  <2> DEFINE j  == m.job
             i  == owned[j].next_reserve_idx
             p  == owned[j].petitions
             r0 == [job |-> j, node |-> m.node, conn |-> m.conn, type |-> p[i].type]
             x  == Msg("RESERVE", j, p[i + 1])
  <2>1. /\ acked' = acked \cup {r0} /\ m.kind = "GRANTED"
        /\ UNCHANGED <<waiting, copying, registered>>
    BY <1>4 DEF handle_granted
  <2>2. GrantStep(m)
    BY <1>0, <1>4, GrantFacts
  <2>3. j \in DOMAIN owned /\ p[i].node = m.node /\ i # 0
    BY <1>4 DEF Expected
  <2>4. /\ \A l \in net : Asks(owned, l) /\ l.job = j => l = m
        /\ \A r \in waiting : r.job # j
        /\ j \notin copying
    BY <1>0, <2>1, <2>3 DEF TInv, TokensOK, InNet, Asks
  <2>5. j \notin registered
    BY <1>0, <2>3 DEF TInv, IInv, Fresh
  <2>6. /\ DOMAIN owned' = DOMAIN owned
        /\ \A k \in DOMAIN owned \ {j} : owned'[k] = owned[k]
        /\ owned'[j].petitions = p
        /\ owned'[j].granted = 1 .. i
        /\ owned[j].granted = 1 .. (i - 1)
        /\ i \in 1 .. Len(p)
    BY <2>2 DEF GrantStep
  <2>7. i \in Nat /\ Len(p) \in Nat
    <3>1. owned[j] \in OwnedJob
      BY <1>0, <2>3 DEF TInv, IInv, TableOK, JobOK
    <3> QED  BY <3>1, LenProperties DEF OwnedJob
  <2>8. \/ net' = net \ {m}
        \/ i < Len(p) /\ net' \subseteq (net \ {m}) \cup {x}
    BY <2>2 DEF GrantStep
  <2>9. r0.job = j /\ r0.node = m.node /\ r0.type = p[i].type
    OBVIOUS
  <2>10. /\ x.kind = "RESERVE"
         /\ ReservationOf(x).job = j
         /\ ReservationOf(x).node = p[i + 1].node
         /\ ReservationOf(x).type = p[i + 1].type
    BY Fields
  <2> HIDE DEF r0, x, p, i, j
  <2>11. ASSUME NEW r \in acked'
         PROVE  Recalled(owned', r) /\ (r.job = j => \E k \in 1 .. i :
                    p[k].node = r.node /\ p[k].type = r.type)
    <3>1. CASE r = r0
      <4>1. i \in 1 .. i
        BY <2>6, <2>7
      <4> QED  BY <2>3, <2>6, <2>9, <3>1, <4>1 DEF Recalled
    <3>2. CASE r \in acked /\ r.job = j
      <4>1. \E k \in owned[j].granted : p[k].node = r.node /\ p[k].type = r.type
        BY <1>a, <2>3, <3>2 DEF Recalled, p
      <4>2. \E k \in 1 .. i : p[k].node = r.node /\ p[k].type = r.type
        BY <2>6, <2>7, <4>1
      <4> QED  BY <2>6, <3>2, <4>2 DEF Recalled
    <3>3. CASE r \in acked /\ r.job # j
      BY <1>a, <2>6, <3>3 DEF Recalled
    <3> QED  BY <2>1, <3>1, <3>2, <3>3
  <2>12. ASSUME NEW r \in acked', i < Len(p)
         PROVE  ReservationOf(x) # r
    <3> SUFFICES ASSUME ReservationOf(x) = r PROVE FALSE
      OBVIOUS
    <3>1. PICK k \in 1 .. i : p[k].node = p[i + 1].node /\ p[k].type = p[i + 1].type
      BY <2>10, <2>11
    <3>2. k \in 1 .. Len(p) /\ i + 1 \in 1 .. Len(p) /\ k # i + 1
      BY <2>6, <2>7, <2>12
    <3> DEFINE k1 == i + 1
    <3>3. /\ k1 \in 1 .. Len(p) /\ k # k1
          /\ p[k].node = p[k1].node /\ p[k].type = p[k1].type
      BY <3>1, <3>2
    <3> HIDE DEF k1
    <3> QED  BY <1>0, <2>3, <3>2, <3>3, RecordedDistinct DEF p
  <2>13. ASSUME NEW r \in acked', NEW l \in net \ {m}, l.kind = "RESERVE"
         PROVE  ReservationOf(l) # r
    <3>1. CASE r \in acked
      BY <1>a, <2>13, <3>1
    <3>2. CASE r = r0
      <4>1. l.job # j
        BY <2>3, <2>4, <2>13 DEF Asks
      <4> QED  BY <2>9, <3>2, <4>1, Fields
    <3> QED  BY <2>1, <3>1, <3>2
  <2>14. \A r \in acked' : \A l \in net' : l.kind = "RESERVE" => ReservationOf(l) # r
    BY <2>8, <2>12, <2>13
  <2>15. \A r \in acked' : /\ r \notin waiting'
                           /\ r.job \notin copying' /\ r.job \notin registered'
    BY <1>a, <2>1, <2>4, <2>5, <2>9
  <2> QED  BY <2>11, <2>14, <2>15 DEF AckedOK
<1>5. ASSUME NEW kind \in {"GRANTED", "DENIED"}, NEW y,
             net' \subseteq net \cup {Reply(kind, y)}, waiting' \subseteq waiting,
             UNCHANGED <<owned, copying, registered, acked>>
      PROVE  AckedOK(owned', net', waiting', copying', registered', acked')
  <2>1. \A m \in net' : m.kind = "RESERVE" => m \in net
    BY <1>5, Fields
  <2> QED  BY <1>a, <1>5, <2>1 DEF AckedOK
<1>6. ASSUME NEW m \in net, server_grants(m)
      PROVE  AckedOK(owned', net', waiting', copying', registered', acked')
  <2>1. /\ net' \subseteq net \cup {Reply("GRANTED", m)} /\ waiting' \subseteq waiting
        /\ UNCHANGED <<owned, copying, registered, acked>>
    BY <1>6 DEF server_grants, Deliverable
  <2> QED  BY <1>5, <2>1
<1>7. ASSUME NEW m \in net, server_denies(m)
      PROVE  AckedOK(owned', net', waiting', copying', registered', acked')
  <2>1. /\ net' \subseteq net \cup {Reply("DENIED", m)} /\ waiting' \subseteq waiting
        /\ UNCHANGED <<owned, copying, registered, acked>>
    BY <1>7 DEF server_denies, Deliverable
  <2> QED  BY <1>5, <2>1
<1>8. ASSUME NEW r \in waiting, server_serves_queued(r)
      PROVE  AckedOK(owned', net', waiting', copying', registered', acked')
  <2>1. /\ net' \subseteq net \cup {Reply("GRANTED", r)} /\ waiting' \subseteq waiting
        /\ UNCHANGED <<owned, copying, registered, acked>>
    BY <1>8 DEF server_serves_queued, Deliverable
  <2> QED  BY <1>5, <2>1
<1>9. ASSUME NEW m \in net, server_queues(m)
      PROVE  AckedOK(owned', net', waiting', copying', registered', acked')
  <2>1. /\ net' = net \ {m} /\ waiting' = waiting \cup {ReservationOf(m)}
        /\ UNCHANGED <<owned, copying, registered, acked>> /\ m.kind = "RESERVE"
    BY <1>9 DEF server_queues
  <2> QED  BY <1>a, <2>1 DEF AckedOK
<1> QED  BY <1>1, <1>2, <1>3, <1>4, <1>6, <1>7, <1>8, <1>9 DEF Growing

(* The image of a finite set. *)
LEMMA ImageFinite ==
    ASSUME NEW S, IsFiniteSet(S), NEW f, DOMAIN f = S
    PROVE  /\ IsFiniteSet({f[x] : x \in S})
           /\ Cardinality({f[x] : x \in S}) <= Cardinality(S)
<1> DEFINE T == {f[x] : x \in S}
           g == [x \in S |-> f[x]]
<1>1. g \in Surjection(S, T)
  BY DEF Surjection
<1> HIDE DEF g, T
<1>2. IsFiniteSet(T) /\ Cardinality(T) <= Cardinality(S)
  BY <1>1, FS_Surjection
<1> QED  BY <1>2 DEF T

(* A rollback has finitely many messages. *)
LEMMA ReleasesFinite ==
    ASSUME TInv, NEW X, X \subseteq DOMAIN owned, IsFiniteSet(X)
    PROVE  IsFiniteSet(UNION {Releases(j) : j \in X})
<1>1. ASSUME NEW j \in X PROVE IsFiniteSet(Releases(j))
  <2> DEFINE S == get_granted_resources(owned[j])
             f == [i \in S |-> Msg("RELEASE", j, owned[j].petitions[i])]
  <2>1. owned[j].next_reserve_idx \in Nat
    BY DEF TInv, IInv, TableOK, JobOK, OwnedJob
  <2>2. S \subseteq 1 .. owned[j].next_reserve_idx
    BY DEF get_granted_resources
  <2>3. IsFiniteSet(S)
    <3> DEFINE I == 1 .. owned[j].next_reserve_idx
    <3>1. IsFiniteSet(I)
      BY <2>1, FS_Interval
    <3>2. S \in SUBSET I
      BY <2>2
    <3> HIDE DEF S, I
    <3> QED  BY <3>1, <3>2, FS_Subset
  <2>4. Releases(j) = {f[i] : i \in S}
    BY DEF Releases
  <2>5. DOMAIN f = S
    OBVIOUS
  <2> HIDE DEF f, S
  <2>6. IsFiniteSet({f[i] : i \in S})
    BY <2>3, <2>5, ImageFinite
  <2> QED  BY <2>4, <2>6
<1> DEFINE F == [j \in X |-> Releases(j)]
           U == {F[j] : j \in X}
<1>2. U = {Releases(j) : j \in X} /\ DOMAIN F = X
  OBVIOUS
<1>3. \A T \in U : IsFiniteSet(T)
  BY <1>1, <1>2
<1> HIDE DEF F
<1>4. IsFiniteSet(U)
  BY <1>2, ImageFinite
<1> HIDE DEF U
<1>5. IsFiniteSet(UNION U)
  BY <1>3, <1>4, FS_UNION
<1> QED  BY <1>2, <1>5

(* An outbox in which everything fits holds everything. *)
LEMMA FullOutbox ==
    ASSUME NEW X, IsFiniteSet(X), NEW R, IsFiniteSet(R), R \subseteq Message,
           Cardinality(R) + Cardinality(X) <= MAX_OUTBOX,
           NEW answering \in BOOLEAN, NEW K \in Outboxes(X, R, answering)
    PROVE  MessagesIn(K) = R
<1> DEFINE f == [j \in X |-> AnswerEntry(j)]
           A == {AnswerEntry(j) : j \in X}
           W == R \cup (IF answering THEN A ELSE {})
<1>1. A = {f[j] : j \in X} /\ DOMAIN f = X
  OBVIOUS
<1> HIDE DEF f
<1>2. IsFiniteSet(A) /\ Cardinality(A) <= Cardinality(X)
  BY <1>1, ImageFinite
<1>3. /\ Cardinality(R) \in Nat /\ Cardinality(X) \in Nat /\ Cardinality(A) \in Nat
      /\ MAX_OUTBOX \in Nat
  BY <1>2, FS_CardinalityType, JobCoordinatorAssumption
<1>4. IsFiniteSet(R \cup A) /\ Cardinality(R \cup A) <= Cardinality(R) + Cardinality(A)
  <2>1. /\ IsFiniteSet(R \cup A)
        /\ Cardinality(R \cup A) =
              Cardinality(R) + Cardinality(A) - Cardinality(R \cap A)
    BY <1>2, FS_Union
  <2>2. IsFiniteSet(R \cap A)
    BY FS_Intersection
  <2>3. Cardinality(R \cap A) \in Nat
    BY <2>2, FS_CardinalityType
  <2> QED  BY <1>3, <2>1, <2>3
<1>5. W \subseteq R \cup A
  OBVIOUS
<1> DEFINE RA == R \cup A
<1> HIDE DEF RA, W
<1>6. IsFiniteSet(RA) /\ W \in SUBSET RA /\ Cardinality(RA) <= Cardinality(R) + Cardinality(A)
  BY <1>4, <1>5 DEF RA
<1>7. IsFiniteSet(W) /\ Cardinality(W) <= Cardinality(RA)
  BY <1>6, FS_Subset
<1>8. Cardinality(W) \in Nat /\ Cardinality(RA) \in Nat
  BY <1>6, <1>7, FS_CardinalityType
<1>9. Cardinality(W) <= MAX_OUTBOX
  BY <1>2, <1>3, <1>6, <1>7, <1>8
<1>10. /\ K \in SUBSET W
       /\ Cardinality(K) = IF Cardinality(W) <= MAX_OUTBOX
                           THEN Cardinality(W) ELSE MAX_OUTBOX
  BY DEF Outboxes, W
<1>11. K = W
  BY <1>7, <1>9, <1>10, FS_Subset
<1>12. \A m \in R : m.kind # "ANSWER"
  BY DEF Message
<1>13. \A m \in A : m.kind = "ANSWER"
  BY DEF AnswerEntry
<1> QED  BY <1>11, <1>12, <1>13 DEF W, MessagesIn

(* What is removed is released, or is on a broken connection. *)
LEMMA CompleteRollback ==
    ASSUME RInv, NEW X, X \subseteq DOMAIN owned,
           owned' = remove_owned_job(owned, X), lost \subseteq lost',
           UNCHANGED <<held, acked>>,
           \A m \in net : m.kind = "RELEASE" => m \in net',
           \A j \in X : \A m \in Releases(j) :
               m \in net' \/ <<m.node, m.conn>> \in lost'
    PROVE  RollbackOK(owned', net', held', acked', lost')
<1> SUFFICES ASSUME NEW r \in held \cap acked, <<r.node, r.conn>> \notin lost',
                    r.job \notin DOMAIN owned'
             PROVE  \E m \in net' : ReleasedBy(m, r)
  BY DEF RollbackOK
<1>1. <<r.node, r.conn>> \notin lost
  OBVIOUS
<1>2. CASE r.job \notin DOMAIN owned
  <2>1. PICK m \in net : ReleasedBy(m, r)
    BY <1>1, <1>2 DEF RInv, RollbackOK
  <2> QED  BY <2>1 DEF ReleasedBy
<1>3. CASE r.job \in DOMAIN owned
  <2> DEFINE j == r.job
  <2>1. j \in X
    BY <1>3 DEF remove_owned_job
  <2>2. PICK i \in owned[j].granted : owned[j].petitions[i].node = r.node
    BY <1>3 DEF RInv, AckedOK, Recalled
  <2>3. i \in get_granted_resources(owned[j])
    BY <1>3, <2>2, GrantedIndex DEF RInv, LInv, get_granted_resources
  <2>4. r.conn = epoch[r.node]
    BY <1>1 DEF RInv, LInv, LinksOK
  <2> DEFINE m == Msg("RELEASE", j, owned[j].petitions[i])
  <2>5. m \in Releases(j)
    BY <2>3 DEF Releases
  <2>6. /\ m.kind = "RELEASE" /\ m.job = j /\ m.node = r.node /\ m.conn = r.conn
    BY <2>2, <2>4, Fields
  <2> HIDE DEF m
  <2>7. m \in net'
    BY <2>1, <2>5, <2>6
  <2> QED  BY <2>6, <2>7 DEF ReleasedBy
<1> QED  BY <1>2, <1>3

(* A job list that a handler collects is short enough for RollbacksFit. *)
LEMMA CollectedFits ==
    ASSUME RollbacksFit, RInv, NEW S, S \subseteq DOMAIN owned,
           NEW max \in {MAX_AFFECTED, MAX_ORPHANS}, NEW X \in Collected(S, max)
    PROVE  /\ X \subseteq DOMAIN owned /\ IsFiniteSet(X)
           /\ Cardinality(UNION {Releases(j) : j \in X}) + Cardinality(X)
                  <= MAX_OUTBOX
<1>1. X \subseteq S /\ IsFiniteSet(S) /\ IsFiniteSet(X)
  <2>1. IsFiniteSet(DOMAIN owned)
    BY DEF RInv, LInv
  <2>2. IsFiniteSet(S) /\ X \subseteq S
    BY <2>1, FS_Subset, CollectedType
  <2> QED  BY <2>2, FS_Subset
<1>2. Cardinality(S) \in Nat /\ max \in Nat
  BY <1>1, FS_CardinalityType, JobCoordinatorAssumption
<1>3. Cardinality(X) <= max
  BY <1>2 DEF Collected
<1> QED  BY <1>1, <1>3 DEF RollbacksFit

(* The handlers that roll back a batch of jobs put everything on the       *)
(* network but what goes to a node that has just broken.                   *)
LEMMA BatchRollback ==
    ASSUME RInv, NEW X, X \subseteq DOMAIN owned, IsFiniteSet(X),
           Cardinality(UNION {Releases(j) : j \in X}) + Cardinality(X)
               <= MAX_OUTBOX,
           NEW R, R \subseteq UNION {Releases(j) : j \in X},
           NEW answering \in BOOLEAN, NEW K \in Outboxes(X, R, answering),
           \A m \in UNION {Releases(j) : j \in X} :
               m \in R \/ <<m.node, m.conn>> \in lost',
           owned' = remove_owned_job(owned, X), lost \subseteq lost',
           UNCHANGED <<held, acked>>,
           Deliverable(MessagesIn(K), lost') \subseteq net',
           \A m \in net : m.kind = "RELEASE" => m \in net'
    PROVE  RollbackOK(owned', net', held', acked', lost')
<1> DEFINE U == UNION {Releases(j) : j \in X}
<1>0. TInv
  BY DEF RInv, LInv
<1>1. IsFiniteSet(U)
  BY <1>0, ReleasesFinite
<1>2. U \subseteq Message
  BY <1>0, ReleasesType DEF TInv, IInv
<1>a. /\ R \subseteq U /\ Cardinality(U) + Cardinality(X) <= MAX_OUTBOX
      /\ \A m \in U : m \in R \/ <<m.node, m.conn>> \in lost'
      /\ \A j \in X : Releases(j) \subseteq U
  OBVIOUS
<1> HIDE DEF U
<1>3. IsFiniteSet(R) /\ Cardinality(R) <= Cardinality(U) /\ R \subseteq Message
  BY <1>1, <1>2, <1>a, FS_Subset
<1>4. Cardinality(R) + Cardinality(X) <= MAX_OUTBOX
  <2>1. /\ Cardinality(R) \in Nat /\ Cardinality(U) \in Nat
        /\ Cardinality(X) \in Nat /\ MAX_OUTBOX \in Nat
    BY <1>1, <1>3, FS_CardinalityType, JobCoordinatorAssumption
  <2> QED  BY <1>3, <1>a, <2>1
<1>5. MessagesIn(K) = R
  BY <1>3, <1>4, FullOutbox
<1>6. \A j \in X : \A m \in Releases(j) : m \in net' \/ <<m.node, m.conn>> \in lost'
  BY <1>5, <1>a DEF Deliverable
<1> QED  BY <1>6, CompleteRollback

(* Steps that remove no job and send or drop no RELEASE. *)
LEMMA NoRollback ==
    ASSUME RInv, DOMAIN owned \subseteq DOMAIN owned', lost \subseteq lost',
           acked' = acked,
           \A m \in net : m.kind = "RELEASE" => m \in net',
           \A r \in held' : r \in held \/ r \notin acked
    PROVE  RollbackOK(owned', net', held', acked', lost')
<1> SUFFICES ASSUME NEW r \in held' \cap acked'
             PROVE  \/ <<r.node, r.conn>> \in lost'
                    \/ r.job \in DOMAIN owned'
                    \/ \E m \in net' : ReleasedBy(m, r)
  BY DEF RollbackOK
<1>1. \/ <<r.node, r.conn>> \in lost
      \/ r.job \in DOMAIN owned
      \/ \E m \in net : ReleasedBy(m, r)
  BY DEF RInv, RollbackOK
<1> QED  BY <1>1 DEF ReleasedBy

(* The steps that grow: the servers only enter what was not recorded. *)
LEMMA GrowRollback ==
    ASSUME RInv, Growing
    PROVE  RollbackOK(owned', net', held', acked', lost')
<1> USE DEF jobVars, srvVars
<1>0. TInv
  BY DEF RInv, LInv
<1>1. lost' = lost
  BY <1>0, GrowingKeeps DEF linkVars
<1>2. ASSUME NEW j \in JobId, NEW c \in Client, handle_job_request(j, c)
      PROVE  RollbackOK(owned', net', held', acked', lost')
  <2>1. UNCHANGED <<net, held, acked>> /\ DOMAIN owned \subseteq DOMAIN owned'
    BY <1>2 DEF handle_job_request, add_new_owned_job
  <2> QED  BY <1>1, <2>1, NoRollback
<1>3. ASSUME NEW j \in JobId, first_reserve(j), owned' = get_next_reserve(owned, j)
      PROVE  RollbackOK(owned', net', held', acked', lost')
  <2>1. UNCHANGED <<net, held, acked>> /\ DOMAIN owned \subseteq DOMAIN owned'
    BY <1>3 DEF first_reserve, get_next_reserve
  <2> QED  BY <1>1, <2>1, NoRollback
<1>4. ASSUME NEW j \in JobId, first_send(j)
      PROVE  RollbackOK(owned', net', held', acked', lost')
  <2>1. UNCHANGED <<owned, held, acked>> /\ net \subseteq net'
    BY <1>4 DEF first_send
  <2> QED  BY <1>1, <2>1, NoRollback
<1>5. ASSUME NEW m \in net, handle_granted(m), Expected(owned, m.job, m.node)
      PROVE  RollbackOK(owned', net', held', acked', lost')
  <2> DEFINE r0 == [job |-> m.job, node |-> m.node, conn |-> m.conn,
                    type |-> owned[m.job].petitions[owned[m.job].next_reserve_idx].type]
  <2>1. /\ held' = held /\ acked' = acked \cup {r0} /\ m.kind = "GRANTED"
        /\ m.job \in DOMAIN owned /\ net \ {m} \subseteq net'
    BY <1>5 DEF handle_granted, Expected
  <2>2. DOMAIN owned' = DOMAIN owned
    BY <1>0, <1>5, GrantFacts DEF GrantStep
  <2>3. r0.job = m.job
    OBVIOUS
  <2> HIDE DEF r0
  <2>4. \A l \in net : l.kind = "RELEASE" => l \in net'
    BY <2>1
  <2> SUFFICES ASSUME NEW r \in held' \cap acked'
               PROVE  \/ <<r.node, r.conn>> \in lost'
                      \/ r.job \in DOMAIN owned'
                      \/ \E l \in net' : ReleasedBy(l, r)
    BY DEF RollbackOK
  <2>5. CASE r = r0
    BY <2>1, <2>2, <2>3, <2>5
  <2>6. CASE r \in acked
    <3>1. \/ <<r.node, r.conn>> \in lost
          \/ r.job \in DOMAIN owned
          \/ \E l \in net : ReleasedBy(l, r)
      BY <2>1, <2>6 DEF RInv, RollbackOK
    <3> QED  BY <1>1, <2>2, <2>4, <3>1 DEF ReleasedBy
  <2> QED  BY <2>1, <2>5, <2>6
<1>6. ASSUME NEW m \in net, server_grants(m)
      PROVE  RollbackOK(owned', net', held', acked', lost')
  <2>1. /\ UNCHANGED <<owned, acked>> /\ m.kind = "RESERVE"
        /\ held' = held \cup {ReservationOf(m)} /\ net \ {m} \subseteq net'
    BY <1>6 DEF server_grants
  <2>2. ReservationOf(m) \notin acked
    BY <2>1 DEF RInv, AckedOK
  <2> QED  BY <1>1, <2>1, <2>2, NoRollback
<1>7. ASSUME NEW m \in net, server_queues(m) \/ server_denies(m)
      PROVE  RollbackOK(owned', net', held', acked', lost')
  <2>1. /\ UNCHANGED <<owned, acked, held>> /\ m.kind = "RESERVE"
        /\ net \ {m} \subseteq net'
    BY <1>7 DEF server_queues, server_denies
  <2> QED  BY <1>1, <2>1, NoRollback
<1>8. ASSUME NEW r \in waiting, server_serves_queued(r)
      PROVE  RollbackOK(owned', net', held', acked', lost')
  <2>1. /\ UNCHANGED <<owned, acked>> /\ held' = held \cup {r} /\ net \subseteq net'
    BY <1>8 DEF server_serves_queued
  <2>2. r \notin acked
    BY DEF RInv, AckedOK
  <2> QED  BY <1>1, <2>1, <2>2, NoRollback
<1> QED  BY <1>2, <1>3, <1>4, <1>5, <1>6, <1>7, <1>8 DEF Growing

(* Every step keeps what it knew of: the rollbacks first. *)
LEMMA NextRollback ==
    ASSUME RollbacksFit, RInv, [Next]_vars
    PROVE  RollbackOK(owned', net', held', acked', lost')
<1> USE DEF vars, jobVars, srvVars, linkVars, reqVars, erlVars
<1>0. TInv
  BY DEF RInv, LInv
<1>1. ASSUME NEW m \in net, handle_denied(m)
      PROVE  RollbackOK(owned', net', held', acked', lost')
  <2> DEFINE j == m.job
             X == {j}
             R == IF j \in DOMAIN owned THEN Releases(j) ELSE {}
  <2>1. PICK K \in Outboxes(X, R, TRUE) :
            net' = (net \ {m}) \cup Deliverable(MessagesIn(K), lost)
    BY <1>1 DEF handle_denied
  <2>2. /\ m.kind = "DENIED" /\ owned' = remove_owned_job(owned, X)
        /\ UNCHANGED <<held, acked, lost>>
    BY <1>1 DEF handle_denied
  <2>3. \A l \in net : l.kind = "RELEASE" => l \in net'
    BY <2>1, <2>2
  <2>4. CASE j \notin DOMAIN owned
    <3>1. DOMAIN owned \subseteq DOMAIN owned'
      BY <2>2, <2>4 DEF remove_owned_job
    <3> QED  BY <2>2, <2>3, <3>1, NoRollback
  <2>5. CASE j \in DOMAIN owned
    <3>1. R = UNION {Releases(k) : k \in X}
      BY <2>5
    <3>2. IsFiniteSet(X) /\ Cardinality(X) = 1 /\ X \subseteq DOMAIN owned
      BY <2>5, FS_Singleton
    <3> HIDE DEF X, R
    <3>3. Cardinality(R) + Cardinality(X) <= MAX_OUTBOX
      BY <3>1, <3>2 DEF RollbacksFit
    <3>4. Deliverable(MessagesIn(K), lost') \subseteq net'
      BY <2>1, <2>2
    <3> QED  BY <2>2, <2>3, <3>1, <3>2, <3>3, <3>4, BatchRollback
  <2> QED  BY <2>4, <2>5
<1>2. ASSUME NEW j \in JobId, handle_job_release(j)
      PROVE  RollbackOK(owned', net', held', acked', lost')
  <2> DEFINE X == {j}
             R == IF j \in DOMAIN owned THEN Releases(j) ELSE {}
  <2>1. PICK K \in Outboxes(X, R, FALSE) :
            net' = net \cup Deliverable(MessagesIn(K), lost)
    BY <1>2 DEF handle_job_release
  <2>2. /\ owned' = remove_owned_job(owned, X)
        /\ UNCHANGED <<held, acked, lost>>
    BY <1>2 DEF handle_job_release
  <2>3. \A l \in net : l.kind = "RELEASE" => l \in net'
    BY <2>1
  <2>4. CASE j \notin DOMAIN owned
    <3>1. DOMAIN owned \subseteq DOMAIN owned'
      BY <2>2, <2>4 DEF remove_owned_job
    <3> QED  BY <2>2, <2>3, <3>1, NoRollback
  <2>5. CASE j \in DOMAIN owned
    <3>1. R = UNION {Releases(k) : k \in X}
      BY <2>5
    <3>2. IsFiniteSet(X) /\ Cardinality(X) = 1 /\ X \subseteq DOMAIN owned
      BY <2>5, FS_Singleton
    <3> HIDE DEF X, R
    <3>3. Cardinality(R) + Cardinality(X) <= MAX_OUTBOX
      BY <3>1, <3>2 DEF RollbacksFit
    <3>4. Deliverable(MessagesIn(K), lost') \subseteq net'
      BY <2>1, <2>2
    <3> QED  BY <2>2, <2>3, <3>1, <3>2, <3>3, <3>4, BatchRollback
  <2> QED  BY <2>4, <2>5
<1>3. ASSUME NEW X \in SUBSET JobId, check_timeouts(X)
      PROVE  RollbackOK(owned', net', held', acked', lost')
  <2>1. /\ X \subseteq DOMAIN owned /\ owned' = remove_owned_job(owned, X)
        /\ net' = net \cup Deliverable(UNION {Releases(j) : j \in X}, lost)
        /\ UNCHANGED <<held, acked, lost>>
    BY <1>3 DEF check_timeouts, MayTimeOut
  <2>2. \A j \in X : \A m \in Releases(j) : m \in net' \/ <<m.node, m.conn>> \in lost'
    BY <2>1 DEF Deliverable
  <2> QED  BY <2>1, <2>2, CompleteRollback
<1>4. ASSUME NEW c \in Client, handle_scheduler_disconnected(c)
      PROVE  RollbackOK(owned', net', held', acked', lost')
  <2>1. PICK X \in Collected(OrphansOf(owned, c), MAX_ORPHANS) :
            /\ owned' = remove_owned_job(owned, X)
            /\ \E K \in Outboxes(X, UNION {Releases(j) : j \in X}, FALSE) :
                  net' = net \cup Deliverable(MessagesIn(K), lost)
    BY <1>4 DEF handle_scheduler_disconnected
  <2> DEFINE R == UNION {Releases(j) : j \in X}
  <2>2. PICK K \in Outboxes(X, R, FALSE) :
            net' = net \cup Deliverable(MessagesIn(K), lost)
    BY <2>1
  <2>3. UNCHANGED <<held, acked, lost>>
    BY <1>4 DEF handle_scheduler_disconnected
  <2>4. OrphansOf(owned, c) \subseteq DOMAIN owned
    BY DEF OrphansOf
  <2>5. /\ X \subseteq DOMAIN owned /\ IsFiniteSet(X)
        /\ Cardinality(UNION {Releases(j) : j \in X}) + Cardinality(X) <= MAX_OUTBOX
    BY <2>4, CollectedFits
  <2>6. Deliverable(MessagesIn(K), lost') \subseteq net'
    BY <2>2, <2>3
  <2>7. \A l \in net : l.kind = "RELEASE" => l \in net'
    BY <2>2
  <2>8. R = UNION {Releases(j) : j \in X}
    OBVIOUS
  <2> HIDE DEF R
  <2> QED  BY <2>1, <2>3, <2>5, <2>6, <2>7, <2>8, BatchRollback
<1>5. ASSUME NEW n \in Node, handle_node_disconnected(n)
      PROVE  RollbackOK(owned', net', held', acked', lost')
  <2>1. PICK X \in Collected(AffectedBy(owned, n), MAX_AFFECTED) :
            /\ owned' = remove_owned_job(owned, X)
            /\ \E K \in Outboxes(X, {m \in UNION {Releases(j) : j \in X} :
                                        m.node # n}, TRUE) :
                  net' = {m \in net : ~(/\ m.kind \in {"GRANTED", "DENIED"}
                                        /\ m.node = n
                                        /\ m.conn = epoch[n])}
                             \cup Deliverable(MessagesIn(K), lost)
    BY <1>5 DEF handle_node_disconnected
  <2> DEFINE R == {m \in UNION {Releases(j) : j \in X} : m.node # n}
  <2>2. PICK K \in Outboxes(X, R, TRUE) :
            net' = {m \in net : ~(/\ m.kind \in {"GRANTED", "DENIED"}
                                  /\ m.node = n
                                  /\ m.conn = epoch[n])}
                       \cup Deliverable(MessagesIn(K), lost)
    BY <2>1
  <2>3. UNCHANGED <<held, acked, lost>> /\ <<n, epoch[n]>> \in lost
    BY <1>5 DEF handle_node_disconnected, Live
  <2>4. AffectedBy(owned, n) \subseteq DOMAIN owned
    BY DEF AffectedBy
  <2>5. /\ X \subseteq DOMAIN owned /\ IsFiniteSet(X)
        /\ Cardinality(UNION {Releases(j) : j \in X}) + Cardinality(X) <= MAX_OUTBOX
    BY <2>4, CollectedFits
  <2>6. Deliverable(MessagesIn(K), lost') \subseteq net'
    BY <2>2, <2>3
  <2>7. \A l \in net : l.kind = "RELEASE" => l \in net'
    BY <2>2
  <2>8. R \subseteq UNION {Releases(j) : j \in X}
    OBVIOUS
  <2>9. \A m \in UNION {Releases(j) : j \in X} :
            m \in R \/ <<m.node, m.conn>> \in lost'
    <3>1. \A j : \A m \in Releases(j) : m.conn = epoch[m.node]
      BY DEF Releases, Msg
    <3> QED  BY <2>3, <3>1
  <2> HIDE DEF R
  <2> QED  BY <2>1, <2>3, <2>5, <2>6, <2>7, <2>8, <2>9, BatchRollback
<1>6. ASSUME NEW n \in Node, check_deadnodes(n)
      PROVE  RollbackOK(owned', net', held', acked', lost')
  <2>1. PICK X \in Collected(AffectedBy(owned, n), MAX_AFFECTED) :
            /\ owned' = remove_owned_job(owned, X)
            /\ \E K \in Outboxes(X, UNION {Releases(j) : j \in X}, TRUE) :
                  net' = net \cup Deliverable(MessagesIn(K), lost')
    BY <1>6 DEF check_deadnodes
  <2> DEFINE R == UNION {Releases(j) : j \in X}
  <2>2. PICK K \in Outboxes(X, R, TRUE) :
            net' = net \cup Deliverable(MessagesIn(K), lost')
    BY <2>1
  <2>3. UNCHANGED <<held, acked>> /\ lost \subseteq lost'
    BY <1>6 DEF check_deadnodes
  <2>4. AffectedBy(owned, n) \subseteq DOMAIN owned
    BY DEF AffectedBy
  <2>5. /\ X \subseteq DOMAIN owned /\ IsFiniteSet(X)
        /\ Cardinality(UNION {Releases(j) : j \in X}) + Cardinality(X) <= MAX_OUTBOX
    BY <2>4, CollectedFits
  <2>6. Deliverable(MessagesIn(K), lost') \subseteq net'
    BY <2>2
  <2>7. \A l \in net : l.kind = "RELEASE" => l \in net'
    BY <2>2
  <2>8. R = UNION {Releases(j) : j \in X}
    OBVIOUS
  <2> HIDE DEF R
  <2> QED  BY <2>1, <2>3, <2>5, <2>6, <2>7, <2>8, BatchRollback
<1>7. ASSUME NEW m \in net, server_releases(m)
      PROVE  RollbackOK(owned', net', held', acked', lost')
  <2>1. /\ UNCHANGED <<owned, acked, lost>> /\ net' = net \ {m} /\ m.kind = "RELEASE"
        /\ held' = {r \in held : ~(/\ r.job = m.job /\ r.node = m.node
                                   /\ r.conn = m.conn)}
    BY <1>7 DEF server_releases
  <2> SUFFICES ASSUME NEW r \in held' \cap acked'
               PROVE  \/ <<r.node, r.conn>> \in lost'
                      \/ r.job \in DOMAIN owned'
                      \/ \E l \in net' : ReleasedBy(l, r)
    BY DEF RollbackOK
  <2>2. ~ReleasedBy(m, r) /\ r \in held \cap acked
    BY <2>1 DEF ReleasedBy
  <2> QED  BY <2>1, <2>2 DEF RInv, RollbackOK
<1>8. ASSUME NEW n \in Node, NEW c \in 1 .. MaxConn, server_sweeps(n, c)
      PROVE  RollbackOK(owned', net', held', acked', lost')
  <2>1. /\ UNCHANGED <<owned, acked, lost>> /\ held' \subseteq held
        /\ <<n, c>> \in lost
        /\ \A m \in net : m \in net' \/ (m.node = n /\ m.conn = c)
    BY <1>8 DEF server_sweeps
  <2> SUFFICES ASSUME NEW r \in held' \cap acked', <<r.node, r.conn>> \notin lost,
                      r.job \notin DOMAIN owned
               PROVE  \E l \in net' : ReleasedBy(l, r)
    BY <2>1 DEF RollbackOK
  <2>2. PICK l \in net : ReleasedBy(l, r)
    BY <2>1 DEF RInv, RollbackOK
  <2> QED  BY <2>1, <2>2 DEF ReleasedBy
<1>9. ASSUME NEW n \in Node, link_lost(n) \/ forget_connection(n)
      PROVE  RollbackOK(owned', net', held', acked', lost')
  <2>1. UNCHANGED <<owned, net, held, acked>> /\ lost \subseteq lost'
    BY <1>9 DEF link_lost, forget_connection
  <2> QED  BY <2>1, NoRollback
<1>10. ASSUME NEW m \in net, handle_granted(m)
       PROVE  RollbackOK(owned', net', held', acked', lost')
  <2>1. CASE Expected(owned, m.job, m.node)
    BY <1>10, <2>1, GrowRollback DEF Growing
  <2>2. CASE ~Expected(owned, m.job, m.node)
    <3>1. /\ net' = net \ {m} /\ m.kind = "GRANTED"
          /\ UNCHANGED <<owned, acked, held, lost>>
      BY <1>10, <2>2 DEF handle_granted
    <3> QED  BY <3>1, NoRollback
  <2> QED  BY <2>1, <2>2
<1>11. ASSUME NEW j \in JobId, first_reserve(j)
       PROVE  RollbackOK(owned', net', held', acked', lost')
  <2>1. CASE Growing
    BY <2>1, GrowRollback
  <2>2. CASE UNCHANGED owned
    <3>1. UNCHANGED <<net, acked, held, lost>>
      BY <1>11 DEF first_reserve
    <3> QED  BY <2>2, <3>1, NoRollback
  <2> QED  BY <1>11, <2>1, <2>2 DEF first_reserve, Growing
<1>12. ASSUME NEW j \in JobId,
              first_send(j) \/ \E c \in Client : handle_job_request(j, c)
       PROVE  RollbackOK(owned', net', held', acked', lost')
  BY <1>12, GrowRollback DEF Growing
<1>13. ASSUME NEW m \in net, server_grants(m) \/ server_queues(m) \/ server_denies(m)
       PROVE  RollbackOK(owned', net', held', acked', lost')
  BY <1>13, GrowRollback DEF Growing
<1>14. ASSUME NEW r \in waiting, server_serves_queued(r)
       PROVE  RollbackOK(owned', net', held', acked', lost')
  BY <1>14, GrowRollback DEF Growing
<1>15. CASE UNCHANGED vars
  BY <1>15, NoRollback
<1> QED
  BY <1>1, <1>2, <1>3, <1>4, <1>5, <1>6, <1>7, <1>8, <1>9, <1>10, <1>11,
     <1>12, <1>13, <1>14, <1>15 DEF Next

(* A rollback forgets nothing that handle_granted recorded: denial, end of *)
(* the job, timeout, dead node and dead scheduler all leave a reservation  *)
(* with its job, with a RELEASE on the way, or on a broken connection, as  *)
(* long as no request lists a petition twice and no rollback overflows its *)
(* outbox.                                                                 *)
THEOREM RollbacksAreComplete ==
    ASSUME DistinctPetitions
    PROVE  Spec /\ []RollbacksFit => []RollbackIsComplete
<1>1. Init => RInv
  <2> SUFFICES ASSUME Init
               PROVE  /\ AckedOK(owned, net, waiting, copying, registered, acked)
                      /\ RollbackOK(owned, net, held, acked, lost)
    BY InitLInv DEF RInv
  <2>1. acked = {}
    BY DEF Init
  <2> QED  BY <2>1 DEF AckedOK, RollbackOK
<1>2. RInv /\ RollbacksFit /\ [Next]_vars => RInv'
  <2> SUFFICES ASSUME RInv, RollbacksFit, [Next]_vars PROVE RInv'
    OBVIOUS
  <2>1. LInv' /\ (Shrinking \/ Growing)
    BY NextLInv, StepKinds DEF RInv, LInv
  <2>2. AckedOK(owned', net', waiting', copying', registered', acked')
    BY <2>1, ShrinkAcked, GrowAcked
  <2>3. RollbackOK(owned', net', held', acked', lost')
    BY NextRollback
  <2> QED  BY <2>1, <2>2, <2>3 DEF RInv, AckedOK, RollbackOK
<1>3. RInv => RollbackIsComplete
  BY DEF RInv, RollbackOK, RollbackIsComplete, Live, Releasing, ReleasedBy
<1> QED  BY <1>1, <1>2, <1>3, PTL DEF Spec
=============================================================================
