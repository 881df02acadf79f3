-------------------------- MODULE SchedulerProofs --------------------------
(***************************************************************************)
(* Proofs about Scheduler, for any identifiers, sizes of jobs and limits,  *)
(* and any combination of faults.                                          *)
(***************************************************************************)
EXTENDS Scheduler, FiniteSetTheorems, SequenceTheorems, WellFoundedInduction,
        TLAPS

----------------------------------------------------------------------------
(* What is in the mailboxes and on the connection. *)

Mail ==
    [tag : {"sender_pid", "error"}]
    \cup [tag : {"NODES"}, some : BOOLEAN]
    \cup [tag : Answers \cup {"job_release"}, job : JobId]

DownLine ==
    [tag : {"NODES"}, some : BOOLEAN] \cup [tag : Answers, job : JobId]

DirectiveSet ==
    [kind : {"get_nodes"}]
    \cup [kind : {"request"}, job : JobId, size : 0 .. MaxSize]
    \cup [kind : {"release"}, job : JobId]

Word ==
    [cmd : {"GET_NODES"}, part : {"head", "end"}]
    \cup [cmd : {"JOB_REQUEST", "JOB_RELEASE"}, job : JobId,
          part : {"head", "id", "resource", "end"}]

(* The text of a command begins with its head, has at most MaxSize + 2     *)
(* pieces before its end, and follows the end of another one.              *)
HeadsFirst(s) ==
    \A i \in DOMAIN s : s[i].part = "head" => i = 1 \/ s[i - 1].part = "end"

Short(s) ==
    \A i, k \in DOMAIN s :
        (i <= k /\ \A h \in i .. k : s[h].part # "end") => k - i < MaxSize + 2

Ended(s) == s # << >> => s[Len(s)].part = "end"

ErlOK ==
    /\ proc \in {"down", "connect", "starting", "run"}
    /\ tries \in 0 .. TRIES
    /\ DOMAIN jobs \subseteq JobId
    /\ \A j \in DOMAIN jobs : jobs[j] \in {"dispatched", "granted"}
    /\ wanted \in [DOMAIN jobs -> 0 .. MaxSize]
    /\ loads \subseteq JobId
    /\ mailbox \in Seq(Mail)
    /\ outgoing \in Seq(DirectiveSet)

StreamsOK ==
    /\ conn \in {"none", "open", "closed", "eof"}
    /\ conn \in {"none", "closed"} => up = << >> /\ buf = << >>
    /\ up \in Seq(Word) /\ HeadsFirst(up) /\ Short(up) /\ Ended(up)
    /\ buf \in Seq(Word) /\ HeadsFirst(buf) /\ Short(buf)
    /\ down \in Seq(DownLine)

HoldOK(h) == h \in [asked : 0 .. MaxSize, granted : BOOLEAN]

AgentOK ==
    /\ DOMAIN owned \subseteq JobId
    /\ \A j \in DOMAIN owned : HoldOK(owned[j])
    /\ outbox \subseteq [tag : Answers, job : JobId]

(* A connection that is up, or that has been closed by the agent, is the   *)
(* running scheduler's; without one the agent knows of no jobs, and a      *)
(* scheduler that has stopped has left nothing behind.                     *)
Ends ==
    /\ conn \in {"open", "closed"} <=> proc \in {"starting", "run"}
    /\ conn \in {"none", "closed"} => DOMAIN owned = {} /\ outbox = {}
    /\ conn \in {"none", "eof"} =>
          /\ DOMAIN jobs = {} /\ loads = {}
          /\ mailbox = << >> /\ outgoing = << >> /\ down = << >>
    /\ proc = "connect" => conn = "none"

TInv == ErlOK /\ StreamsOK /\ AgentOK /\ Ends

----------------------------------------------------------------------------
(* The life of an identifier while the connection is up. *)

ReqHead(j) == Piece("JOB_REQUEST", j, "head")
RelHead(j) == Piece("JOB_RELEASE", j, "head")
Grant(j)   == Answer(j, "JOB_GRANTED")
Finish(j)  == [tag |-> "job_release", job |-> j]

ReqHeads == {ReqHead(j) : j \in JobId}
Grants   == {Grant(j) : j \in JobId}

(* The elements of M are in s once at most. *)
Once(s, M) ==
    \A i, k \in DOMAIN s : s[i] \in M /\ s[i] = s[k] => i = k

Directed(o) ==
    {j \in JobId : \E i \in DOMAIN o : o[i].kind = "request" /\ o[i].job = j}

DirectedOnce(o) ==
    \A i, k \in DOMAIN o :
        /\ o[i].kind = "request" /\ o[k].kind = "request"
        /\ o[i].job = o[k].job
        => i = k

Texted(s) == {j \in JobId : ReqHead(j) \in Range(s)}

Requested(o, u, b) == Directed(o) \cup Texted(u) \cup Texted(b)

RequestedOnce(o, u, b) ==
    /\ DirectedOnce(o) /\ Once(u, ReqHeads) /\ Once(b, ReqHeads)
    /\ Directed(o) \cap Texted(u) = {}
    /\ Directed(o) \cap Texted(b) = {}
    /\ Texted(u) \cap Texted(b) = {}

ReleasedIn(o, u, b) ==
    {j \in JobId : \/ [kind |-> "release", job |-> j] \in Range(o)
                   \/ RelHead(j) \in Range(u)
                   \/ RelHead(j) \in Range(b)}

ToldOf(x, d, m, tag) ==
    {j \in JobId : Answer(j, tag) \in x \cup Range(d) \cup Range(m)}

GrantedOnce(x, d, m) ==
    /\ Once(d, Grants) /\ Once(m, Grants)
    /\ x \cap Range(d) \cap Grants = {}
    /\ x \cap Range(m) \cap Grants = {}
    /\ Range(d) \cap Range(m) \cap Grants = {}

FinishedIn(m) == {j \in JobId : Finish(j) \in Range(m)}

(* J: jobs of the scheduler, of which D are dispatched; L: its loads; Q:   *)
(* requests on their way; R: releases on their way; F: jobs it is told to  *)
(* forget; N: jobs of the agent, of which P are granted; G, X, Y: the jobs *)
(* of grants, denials and timeouts on their way.                           *)
Life(J, D, L, Q, R, F, N, P, G, X, Y) ==
    /\ Q \subseteq D
    /\ Q \cap (L \cup R \cup F \cup N \cup G \cup X \cup Y) = {}
    /\ N \ P \subseteq D
    /\ (N \ P) \cap (L \cup R \cup F \cup G \cup X \cup Y) = {}
    /\ (X \cup Y) \cap N = {}
    /\ G \cap (L \cup R \cup F) = {}
    /\ G \cap J \subseteq D
    /\ L \cap (R \cup F \cup D) = {}
    /\ (G \cup L) \cap J \subseteq P \cup X

Dispatched == {j \in DOMAIN jobs : jobs[j] = "dispatched"}
HeldAll == {j \in DOMAIN owned : owned[j].granted = TRUE}

RequestsOut == Requested(outgoing, up, buf)
ReleasesOut == ReleasedIn(outgoing, up, buf)
FinishesOut == FinishedIn(mailbox)
GrantsOut   == ToldOf(outbox, down, mailbox, "JOB_GRANTED")
DenialsOut  == ToldOf(outbox, down, mailbox, "JOB_DENIED")
TimeoutsOut == ToldOf(outbox, down, mailbox, "JOB_TIMEOUT")

OnceOK ==
    /\ RequestedOnce(outgoing, up, buf)
    /\ GrantedOnce(outbox, down, mailbox)

LifeOK ==
    Life(DOMAIN jobs, Dispatched, loads, RequestsOut, ReleasesOut, FinishesOut,
         DOMAIN owned, HeldAll, GrantsOut, DenialsOut, TimeoutsOut)

(* Whole lines: what the agent reads ends where a command ends, and the    *)
(* number of a command is the one that was written.                        *)
Whole(s) ==
    /\ Ended(s)
    /\ \A i \in DOMAIN s :
          /\ s[i].part = "head" /\ s[i].cmd = "JOB_RELEASE" =>
                i + 1 \in DOMAIN s /\ s[i + 1].part = "id"
          /\ s[i].part = "id" =>
                i > 1 /\ s[i - 1].part = "head" /\ s[i - 1].job = s[i].job

LInv == /\ TInv /\ Whole(up) /\ Whole(buf)
        /\ conn = "open" => OnceOK /\ LifeOK

(* Whoever holds a job either has a scheduler that knows it or a release   *)
(* on its way, and so has a job the scheduler is about to forget.          *)
OwnedOK(J, R, F, N) == N \subseteq J \cup R /\ F \cap N \subseteq R

OwnedNow == OwnedOK(DOMAIN jobs, ReleasesOut, FinishesOut, DOMAIN owned)

OInv == LInv /\ (conn = "open" => OwnedNow)

----------------------------------------------------------------------------
(* Parts of a sequence, and sequences put together. *)

IsSlice(t, s, c) ==
    /\ c \in Nat /\ c + Len(t) <= Len(s)
    /\ \A i \in 1 .. Len(t) : t[i] = s[c + i]

IsJoin(r, s, t) ==
    /\ Len(r) = Len(s) + Len(t)
    /\ \A i \in 1 .. Len(s) : r[i] = s[i]
    /\ \A i \in 1 .. Len(t) : r[Len(s) + i] = t[i]

LEMMA TailIsSlice ==
    ASSUME NEW S, NEW s \in Seq(S), s # << >>
    PROVE  /\ Tail(s) \in Seq(S) /\ IsSlice(Tail(s), s, 1)
           /\ Head(s) \in S /\ Head(s) = s[1] /\ 1 \in DOMAIN s
           /\ 1 + Len(Tail(s)) = Len(s)
BY HeadTailProperties DEF IsSlice

LEMMA SubSeqIsSlice ==
    ASSUME NEW S, NEW s \in Seq(S), NEW a \in 1 .. (Len(s) + 1),
           NEW b \in 0 .. Len(s), a <= b + 1
    PROVE  /\ SubSeq(s, a, b) \in Seq(S)
           /\ IsSlice(SubSeq(s, a, b), s, a - 1)
           /\ Len(SubSeq(s, a, b)) = b - a + 1
<1>1. \A i \in a .. b : s[i] \in S
  OBVIOUS
<1>2. /\ SubSeq(s, a, b) \in Seq(S)
      /\ Len(SubSeq(s, a, b)) = IF a <= b THEN b - a + 1 ELSE 0
      /\ \A i \in 1 .. b - a + 1 : SubSeq(s, a, b)[i] = s[a + i - 1]
  BY <1>1, SubSeqProperties
<1>3. Len(SubSeq(s, a, b)) = b - a + 1
  BY <1>2
<1> DEFINE t == SubSeq(s, a, b)
<1>4. \A i \in 1 .. Len(t) : t[i] = s[a - 1 + i]
  <2> SUFFICES ASSUME NEW i \in 1 .. Len(t) PROVE t[i] = s[a - 1 + i]
    OBVIOUS
  <2>1. i \in 1 .. b - a + 1 /\ a + i - 1 = a - 1 + i
    BY <1>3
  <2> QED
    BY <1>2, <2>1
<1>5. a - 1 \in Nat /\ a - 1 + Len(t) <= Len(s)
  BY <1>3
<1> QED
  BY <1>2, <1>3, <1>4, <1>5 DEF IsSlice

LEMMA ConcatIsJoin ==
    ASSUME NEW S, NEW s \in Seq(S), NEW t \in Seq(S)
    PROVE  s \o t \in Seq(S) /\ IsJoin(s \o t, s, t)
BY ConcatProperties DEF IsJoin

LEMMA AppendIsJoin ==
    ASSUME NEW S, NEW s \in Seq(S), NEW x \in S
    PROVE  /\ Append(s, x) \in Seq(S) /\ IsJoin(Append(s, x), s, <<x>>)
           /\ <<x>> \in Seq(S) /\ Range(<<x>>) = {x}
BY AppendProperties DEF IsJoin, Range

(* A slice has nothing new, and its text is still made of short commands. *)
LEMMA SliceProps ==
    ASSUME NEW S, NEW s \in Seq(S), NEW T, NEW t \in Seq(T), NEW c, IsSlice(t, s, c)
    PROVE  /\ Range(t) \subseteq Range(s)
           /\ \A M : Once(s, M) => Once(t, M)
           /\ HeadsFirst(s) => HeadsFirst(t)
           /\ Short(s) => Short(t)
           /\ Ended(s) /\ c + Len(t) = Len(s) => Ended(t)
<1>0. /\ c \in Nat /\ Len(t) \in Nat /\ Len(s) \in Nat
      /\ DOMAIN t = 1 .. Len(t) /\ DOMAIN s = 1 .. Len(s)
      /\ c + Len(t) <= Len(s)
      /\ \A i \in DOMAIN t : c + i \in DOMAIN s /\ t[i] = s[c + i]
  BY DEF IsSlice
<1>1. Range(t) \subseteq Range(s)
  BY <1>0 DEF Range
<1>2. ASSUME NEW M, Once(s, M) PROVE Once(t, M)
  <2> SUFFICES ASSUME NEW i \in DOMAIN t, NEW k \in DOMAIN t,
                      t[i] \in M, t[i] = t[k]
               PROVE  i = k
    BY DEF Once
  <2>1. c + i = c + k
    BY <1>0, <1>2 DEF Once
  <2> QED
    BY <1>0, <2>1
<1>3. ASSUME HeadsFirst(s) PROVE HeadsFirst(t)
  <2> SUFFICES ASSUME NEW i \in DOMAIN t, t[i].part = "head", i # 1
               PROVE  t[i - 1].part = "end"
    BY DEF HeadsFirst
  <2>1. i - 1 \in DOMAIN t /\ c + i # 1 /\ c + (i - 1) = (c + i) - 1
    BY <1>0
  <2>2. s[(c + i) - 1].part = "end"
    BY <1>0, <1>3, <2>1 DEF HeadsFirst
  <2> QED
    BY <1>0, <2>1, <2>2
<1>4. ASSUME Short(s) PROVE Short(t)
  <2> SUFFICES ASSUME NEW i \in DOMAIN t, NEW k \in DOMAIN t, i <= k,
                      \A h \in i .. k : t[h].part # "end"
               PROVE  k - i < MaxSize + 2
    BY DEF Short
  <2>1. \A h \in (c + i) .. (c + k) : s[h].part # "end"
    <3> SUFFICES ASSUME NEW h \in (c + i) .. (c + k) PROVE s[h].part # "end"
      OBVIOUS
    <3>1. h - c \in i .. k /\ h - c \in DOMAIN t /\ c + (h - c) = h
      BY <1>0
    <3> QED
      BY <1>0, <3>1
  <2>2. c + i \in DOMAIN s /\ c + k \in DOMAIN s /\ c + i <= c + k
    BY <1>0
  <2>3. (c + k) - (c + i) < MaxSize + 2
    BY <1>4, <2>1, <2>2 DEF Short
  <2> QED
    BY <1>0, <2>3, SchedulerAssumption
<1>5. ASSUME Ended(s), c + Len(t) = Len(s) PROVE Ended(t)
  <2> SUFFICES ASSUME t # << >> PROVE t[Len(t)].part = "end"
    BY DEF Ended
  <2>1. Len(t) \in DOMAIN t /\ s # << >>
    BY <1>0
  <2> QED
    BY <1>0, <1>5, <2>1 DEF Ended
<1> QED
  BY <1>1, <1>2, <1>3, <1>4, <1>5

(* What is taken off the front is not in the rest. *)
LEMMA TailLoses ==
    ASSUME NEW S, NEW s \in Seq(S), s # << >>, NEW M, Once(s, M), Head(s) \in M
    PROVE  Head(s) \notin Range(Tail(s))
<1>1. /\ Tail(s) \in Seq(S) /\ IsSlice(Tail(s), s, 1)
      /\ Head(s) = s[1] /\ 1 \in DOMAIN s
  BY TailIsSlice
<1>2. ASSUME NEW i \in DOMAIN Tail(s), Tail(s)[i] = Head(s) PROVE FALSE
  <2>1. i \in Nat /\ i > 0 /\ 1 + i \in DOMAIN s /\ Tail(s)[i] = s[1 + i]
    BY <1>1 DEF IsSlice
  <2>2. 1 + i = 1
    BY <1>1, <1>2, <2>1 DEF Once
  <2> QED
    BY <2>1, <2>2
<1> QED
  BY <1>2 DEF Range

(* Two slices that do not overlap have nothing in common that is unique. *)
LEMMA SlicesDisjoint ==
    ASSUME NEW S, NEW s \in Seq(S), NEW t \in Seq(S), NEW u \in Seq(S), NEW c,
           IsSlice(t, s, 0), IsSlice(u, s, c), Len(t) <= c,
           NEW M, Once(s, M)
    PROVE  Range(t) \cap Range(u) \cap M = {}
<1> SUFFICES ASSUME NEW i \in DOMAIN t, NEW k \in DOMAIN u,
                    t[i] = u[k], t[i] \in M
             PROVE  FALSE
  BY DEF Range
<1>1. /\ c \in Nat /\ i \in 1 .. Len(t) /\ k \in 1 .. Len(u)
      /\ 0 + i = i /\ i \in DOMAIN s /\ c + k \in DOMAIN s
      /\ t[i] = s[i] /\ u[k] = s[c + k]
  BY DEF IsSlice
<1>2. i = c + k
  BY <1>1 DEF Once
<1> QED
  BY <1>1, <1>2

LEMMA JoinProps ==
    ASSUME NEW S, NEW r \in Seq(S), NEW s \in Seq(S), NEW t \in Seq(S),
           IsJoin(r, s, t)
    PROVE  /\ Range(r) = Range(s) \cup Range(t)
           /\ \A M : /\ Once(s, M) /\ Once(t, M)
                     /\ Range(s) \cap Range(t) \cap M = {}
                     => Once(r, M)
           /\ Ended(s) /\ HeadsFirst(s) /\ HeadsFirst(t) => HeadsFirst(r)
           /\ Ended(s) /\ Short(s) /\ Short(t) => Short(r)
           /\ Ended(t) /\ t # << >> => Ended(r)
<1> DEFINE n == Len(s)
           m == Len(t)
<1>0. /\ n \in Nat /\ m \in Nat /\ DOMAIN s = 1 .. n /\ DOMAIN t = 1 .. m
      /\ DOMAIN r = 1 .. (n + m)
      /\ \A i \in 1 .. n : i \in DOMAIN r /\ r[i] = s[i]
      /\ \A i \in 1 .. m : n + i \in DOMAIN r /\ r[n + i] = t[i]
  BY DEF IsJoin
<1>0a. s = << >> <=> n = 0
  BY <1>0
<1>0b. t = << >> <=> m = 0
  BY <1>0
<1>0c. Len(r) = n + m
  BY DEF IsJoin
<1> HIDE DEF n, m
<1>1. ASSUME NEW i \in DOMAIN r
      PROVE  \/ i \in DOMAIN s /\ r[i] = s[i]
             \/ i - n \in DOMAIN t /\ r[i] = t[i - n] /\ i > n /\ i = n + (i - n)
  <2>1. CASE i <= n
    BY <1>0, <2>1
  <2>2. CASE i > n
    <3>1. i - n \in 1 .. m /\ i = n + (i - n)
      BY <1>0, <2>2
    <3> QED
      BY <1>0, <2>2, <3>1
  <2> QED
    BY <1>0, <2>1, <2>2
<1>2. Range(r) = Range(s) \cup Range(t)
  <2>1. Range(r) \subseteq Range(s) \cup Range(t)
    BY <1>1 DEF Range
  <2>2. Range(s) \subseteq Range(r) /\ Range(t) \subseteq Range(r)
    BY <1>0 DEF Range
  <2> QED
    BY <2>1, <2>2
<1>3. ASSUME NEW M, Once(s, M), Once(t, M), Range(s) \cap Range(t) \cap M = {}
      PROVE  Once(r, M)
  <2> SUFFICES ASSUME NEW i \in DOMAIN r, NEW k \in DOMAIN r,
                      r[i] \in M, r[i] = r[k]
               PROVE  i = k
    BY DEF Once
  <2>0. i \in Int /\ k \in Int
    BY <1>0
  <2>1. CASE i \in DOMAIN s /\ r[i] = s[i] /\ k \in DOMAIN s /\ r[k] = s[k]
    BY <1>3, <2>1 DEF Once
  <2>2. CASE /\ i - n \in DOMAIN t /\ r[i] = t[i - n]
             /\ k - n \in DOMAIN t /\ r[k] = t[k - n]
    <3>1. i - n = k - n
      BY <1>3, <2>2 DEF Once
    <3> QED
      BY <1>0, <2>0, <3>1
  <2>3. CASE i \in DOMAIN s /\ r[i] = s[i] /\ k - n \in DOMAIN t /\ r[k] = t[k - n]
    BY <1>3, <2>3 DEF Range
  <2>4. CASE k \in DOMAIN s /\ r[k] = s[k] /\ i - n \in DOMAIN t /\ r[i] = t[i - n]
    BY <1>3, <2>4 DEF Range
  <2> QED
    BY <1>1, <2>1, <2>2, <2>3, <2>4
<1>4. ASSUME Ended(s), HeadsFirst(s), HeadsFirst(t) PROVE HeadsFirst(r)
  <2> SUFFICES ASSUME NEW i \in DOMAIN r, r[i].part = "head", i # 1
               PROVE  r[i - 1].part = "end"
    BY DEF HeadsFirst
  <2>1. CASE i \in DOMAIN s /\ r[i] = s[i]
    <3>1. i - 1 \in 1 .. n
      BY <1>0, <2>1
    <3> QED
      BY <1>0, <1>4, <2>1, <3>1 DEF HeadsFirst
  <2>2. CASE i - n \in DOMAIN t /\ r[i] = t[i - n] /\ i - n # 1
    <3>1. /\ (i - n) - 1 \in 1 .. m /\ n + ((i - n) - 1) = i - 1
      BY <1>0, <2>2
    <3>2. t[(i - n) - 1].part = "end"
      BY <1>4, <2>2 DEF HeadsFirst
    <3> QED
      BY <1>0, <3>1, <3>2
  <2>3. CASE i - n = 1
    <3>1. i - 1 = n /\ n \in 1 .. n
      BY <1>0, <2>3
    <3>2. s[n].part = "end"
      BY <1>0a, <1>0, <1>4, <3>1 DEF Ended, n
    <3> QED
      BY <1>0, <3>1, <3>2
  <2> QED
    BY <1>1, <2>1, <2>2, <2>3
<1>5. ASSUME Ended(s), Short(s), Short(t) PROVE Short(r)
  <2> SUFFICES ASSUME NEW i \in DOMAIN r, NEW k \in DOMAIN r, i <= k,
                      \A h \in i .. k : r[h].part # "end"
               PROVE  k - i < MaxSize + 2
    BY DEF Short
  <2>1. CASE k <= n
    <3>1. i \in DOMAIN s /\ k \in DOMAIN s /\ \A h \in i .. k : h \in 1 .. n
      BY <1>0, <2>1
    <3>2. \A h \in i .. k : s[h].part # "end"
      BY <1>0, <3>1
    <3> QED
      BY <1>5, <3>1, <3>2 DEF Short
  <2>2. CASE i > n
    <3>1. i - n \in DOMAIN t /\ k - n \in DOMAIN t /\ i - n <= k - n
      BY <1>0, <2>2
    <3>2. \A h \in (i - n) .. (k - n) : t[h].part # "end"
      <4> SUFFICES ASSUME NEW h \in (i - n) .. (k - n) PROVE t[h].part # "end"
        OBVIOUS
      <4>1. h \in 1 .. m /\ n + h \in i .. k
        BY <1>0, <2>2
      <4> QED
        BY <1>0, <4>1
    <3>3. (k - n) - (i - n) < MaxSize + 2
      BY <1>5, <3>1, <3>2 DEF Short
    <3> QED
      BY <1>0, <3>3, SchedulerAssumption
  <2>3. CASE i <= n /\ n < k
    <3>1. n \in i .. k /\ n \in 1 .. n
      BY <1>0, <2>3
    <3>2. s[n].part = "end"
      BY <1>0a, <1>0, <1>5, <3>1 DEF Ended, n
    <3> QED
      BY <1>0, <3>1, <3>2
  <2> QED
    BY <1>0, <2>1, <2>2, <2>3
<1>6. ASSUME Ended(t), t # << >> PROVE Ended(r)
  <2>1. m \in 1 .. m /\ t[m].part = "end"
    BY <1>0, <1>0b, <1>6 DEF Ended, m
  <2>2. r[n + m].part = "end"
    BY <1>0, <2>1
  <2> QED
    BY <1>0c, <2>2 DEF Ended
<1> QED
  BY <1>2, <1>3, <1>4, <1>5, <1>6

----------------------------------------------------------------------------
(* The text of a command. *)

LEMMA TextPieces ==
    ASSUME NEW cmd \in {"JOB_REQUEST", "JOB_RELEASE"}, NEW j \in JobId,
           NEW n \in 0 .. MaxSize
    PROVE  /\ Text(cmd, j, n) \in Seq(Word)
           /\ Len(Text(cmd, j, n)) = n + 3
           /\ \A i \in 1 .. (n + 3) :
                 Text(cmd, j, n)[i] =
                    Piece(cmd, j, IF i = 1 THEN "head" ELSE IF i = 2 THEN "id"
                                  ELSE IF i = n + 3 THEN "end" ELSE "resource")
<1> DEFINE a == <<Piece(cmd, j, "head"), Piece(cmd, j, "id")>>
           b == [i \in 1 .. n |-> Piece(cmd, j, "resource")]
           c == <<Piece(cmd, j, "end")>>
<1>0. n \in Nat
  BY SchedulerAssumption
<1>1. \A p \in {"head", "id", "resource", "end"} : Piece(cmd, j, p) \in Word
  BY DEF Word, Piece
<1>2. /\ a \in Seq(Word) /\ b \in Seq(Word) /\ c \in Seq(Word)
      /\ Len(a) = 2 /\ Len(b) = n /\ Len(c) = 1
  <2>1. a \in Seq(Word) /\ Len(a) = 2 /\ c \in Seq(Word) /\ Len(c) = 1
    BY <1>1
  <2>2. b \in Seq(Word) /\ Len(b) = n
    <3>1. b \in [1 .. n -> Word]
      BY <1>1
    <3> HIDE DEF b
    <3> QED
      BY <1>0, <3>1
  <2> QED
    BY <2>1, <2>2
<1>3. /\ a[1] = Piece(cmd, j, "head") /\ a[2] = Piece(cmd, j, "id")
      /\ \A i \in 1 .. n : b[i] = Piece(cmd, j, "resource")
      /\ c[1] = Piece(cmd, j, "end")
  OBVIOUS
<1>4. Text(cmd, j, n) = (a \o b) \o c
  BY DEF Text
<1> HIDE DEF a, b, c
<1> DEFINE d == a \o b
<1>5. /\ d \in Seq(Word) /\ Len(d) = n + 2
      /\ \A i \in 1 .. (n + 2) : d[i] = IF i <= 2 THEN a[i] ELSE b[i - 2]
  <2>1. /\ d \in Seq(Word)
        /\ Len(d) = Len(a) + Len(b)
        /\ \A i \in 1 .. Len(a) + Len(b) :
              d[i] = IF i <= Len(a) THEN a[i] ELSE b[i - Len(a)]
    BY <1>2, ConcatProperties
  <2>2. Len(a) + Len(b) = n + 2
    BY <1>0, <1>2
  <2> HIDE DEF d
  <2> QED
    BY <1>2, <2>1, <2>2
<1> HIDE DEF d
<1>6. /\ d \o c \in Seq(Word) /\ Len(d \o c) = n + 3
      /\ \A i \in 1 .. (n + 3) : (d \o c)[i] = IF i <= n + 2 THEN d[i] ELSE c[i - (n + 2)]
  <2> DEFINE e == d \o c
  <2>1. /\ e \in Seq(Word)
        /\ Len(e) = Len(d) + Len(c)
        /\ \A i \in 1 .. Len(d) + Len(c) :
              e[i] = IF i <= Len(d) THEN d[i] ELSE c[i - Len(d)]
    BY <1>2, <1>5, ConcatProperties
  <2>2. Len(d) + Len(c) = n + 3
    BY <1>0, <1>2, <1>5
  <2> HIDE DEF e
  <2>3. /\ e \in Seq(Word) /\ Len(e) = n + 3
        /\ \A i \in 1 .. (n + 3) : e[i] = IF i <= n + 2 THEN d[i] ELSE c[i - (n + 2)]
    BY <1>5, <2>1, <2>2
  <2> QED
    BY <2>3 DEF e
<1>7. ASSUME NEW i \in 1 .. (n + 3)
      PROVE  (d \o c)[i] =
                Piece(cmd, j, IF i = 1 THEN "head" ELSE IF i = 2 THEN "id"
                              ELSE IF i = n + 3 THEN "end" ELSE "resource")
  <2>0. \/ i = 1 \/ i = 2 \/ (i > 2 /\ i <= n + 2) \/ i = n + 3
    BY <1>0
  <2>1. CASE i = 1 \/ i = 2
    BY <1>0, <1>3, <1>5, <1>6, <2>1
  <2>2. CASE i > 2 /\ i <= n + 2
    <3>1. /\ i - 2 \in 1 .. n /\ i \in 1 .. (n + 2)
          /\ ~(i <= 2) /\ i # 1 /\ i # 2 /\ i # n + 3
      BY <1>0, <2>2
    <3>2. (d \o c)[i] = d[i]
      BY <1>6, <2>2
    <3>3. d[i] = b[i - 2]
      BY <1>5, <3>1
    <3>4. b[i - 2] = Piece(cmd, j, "resource")
      BY <1>3, <3>1
    <3> QED
      BY <3>1, <3>2, <3>3, <3>4
  <2>3. CASE i = n + 3
    <3>1. i - (n + 2) = 1 /\ ~(i <= n + 2) /\ i # 1 /\ i # 2
      BY <1>0, <2>3
    <3> QED
      BY <1>3, <1>6, <2>3, <3>1
  <2> QED
    BY <2>0, <2>1, <2>2, <2>3
<1> QED
  BY <1>4, <1>6, <1>7 DEF d

LEMMA PieceFields ==
    ASSUME NEW cmd, NEW j, NEW part
    PROVE  /\ Piece(cmd, j, part).cmd = cmd /\ Piece(cmd, j, part).job = j
           /\ Piece(cmd, j, part).part = part
BY DEF Piece

(* A piece is determined by its command, job and part. *)
LEMMA PieceOf ==
    ASSUME NEW x \in Word, x.cmd # "GET_NODES"
    PROVE  x = Piece(x.cmd, x.job, x.part) /\ x.job \in JobId
BY DEF Word, Piece

LEMMA WordFields ==
    ASSUME NEW x \in Word
    PROVE  /\ x.cmd \in {"GET_NODES", "JOB_REQUEST", "JOB_RELEASE"}
           /\ x.part \in {"head", "id", "resource", "end"}
           /\ x.cmd = "GET_NODES" => x.part \in {"head", "end"}
BY DEF Word

LEMMA TextShape ==
    ASSUME NEW cmd \in {"JOB_REQUEST", "JOB_RELEASE"}, NEW j \in JobId,
           NEW n \in 0 .. MaxSize
    PROVE  /\ Text(cmd, j, n) \in Seq(Word) /\ Text(cmd, j, n) # << >>
           /\ HeadsFirst(Text(cmd, j, n)) /\ Short(Text(cmd, j, n))
           /\ Whole(Text(cmd, j, n))
           /\ Once(Text(cmd, j, n), ReqHeads)
           /\ \A x \in Range(Text(cmd, j, n)) :
                 x.part = "head" => x = Piece(cmd, j, "head")
           /\ Piece(cmd, j, "head") \in Range(Text(cmd, j, n))
<1> DEFINE t == Text(cmd, j, n)
           P(i) == IF i = 1 THEN "head" ELSE IF i = 2 THEN "id"
                   ELSE IF i = n + 3 THEN "end" ELSE "resource"
<1>0. n \in Nat
  BY SchedulerAssumption
<1>1. t \in Seq(Word) /\ Len(t) = n + 3 /\ DOMAIN t = 1 .. (n + 3)
  BY <1>0, TextPieces
<1>2. \A i \in DOMAIN t : t[i] = Piece(cmd, j, P(i))
  BY <1>1, TextPieces
<1>3. \A i \in DOMAIN t : t[i].part = P(i)
  BY <1>2, PieceFields
<1> HIDE DEF t
<1>4. t # << >>
  BY <1>0, <1>1
<1>5. HeadsFirst(t)
  BY <1>3 DEF HeadsFirst
<1>6. Short(t)
  <2> SUFFICES ASSUME NEW i \in DOMAIN t, NEW k \in DOMAIN t, i <= k,
                      \A h \in i .. k : t[h].part # "end"
               PROVE  k - i < MaxSize + 2
    BY DEF Short
  <2>1. k \in i .. k /\ k # n + 3
    BY <1>0, <1>1, <1>3
  <2> QED
    BY <1>0, <1>1, <2>1, SchedulerAssumption
<1>7. Whole(t)
  <2>1. Ended(t)
    BY <1>0, <1>1, <1>3 DEF Ended
  <2>2. ASSUME NEW i \in DOMAIN t
        PROVE  /\ t[i].part = "head" => i + 1 \in DOMAIN t /\ t[i + 1].part = "id"
               /\ t[i].part = "id" => i > 1 /\ t[i - 1].part = "head"
    BY <1>0, <1>1, <1>3
  <2>3. \A i \in DOMAIN t : t[i].job = j
    BY <1>2, PieceFields
  <2>4. ASSUME NEW i \in DOMAIN t, i > 1 PROVE t[i - 1].job = t[i].job
    BY <1>0, <1>1, <2>3, <2>4
  <2> QED
    BY <2>1, <2>2, <2>4 DEF Whole
<1>8. ASSUME NEW i \in DOMAIN t, t[i].part = "head" PROVE i = 1
  BY <1>3, <1>8
<1>9. Once(t, ReqHeads)
  <2>1. \A x \in ReqHeads : x.part = "head"
    BY PieceFields DEF ReqHeads, ReqHead
  <2> QED
    BY <1>8, <2>1 DEF Once
<1>10. \A x \in Range(t) : x.part = "head" => x = Piece(cmd, j, "head")
  BY <1>2, <1>8 DEF Range
<1>11. Piece(cmd, j, "head") \in Range(t)
  <2>1. 1 \in DOMAIN t /\ t[1] = Piece(cmd, j, "head")
    BY <1>0, <1>1, <1>2
  <2> QED
    BY <2>1 DEF Range
<1> QED
  BY <1>1, <1>4, <1>5, <1>6, <1>7, <1>9, <1>10, <1>11 DEF t

LEMMA GetNodesShape ==
    /\ GetNodes \in Seq(Word) /\ GetNodes # << >>
    /\ HeadsFirst(GetNodes) /\ Short(GetNodes) /\ Whole(GetNodes)
    /\ \A x \in Range(GetNodes) : x.cmd = "GET_NODES"
<1> DEFINE h == [cmd |-> "GET_NODES", part |-> "head"]
           e == [cmd |-> "GET_NODES", part |-> "end"]
<1>1. h \in Word /\ e \in Word
  BY DEF Word
<1>2. /\ h.cmd = "GET_NODES" /\ e.cmd = "GET_NODES"
      /\ h.part = "head" /\ e.part = "end"
  OBVIOUS
<1>3. GetNodes = <<h, e>>
  BY DEF GetNodes
<1> HIDE DEF h, e
<1>4. /\ GetNodes \in Seq(Word) /\ Len(GetNodes) = 2 /\ DOMAIN GetNodes = 1 .. 2
      /\ GetNodes[1] = h /\ GetNodes[2] = e /\ GetNodes # << >>
  BY <1>1, <1>3
<1>5. \A i \in DOMAIN GetNodes : GetNodes[i].cmd = "GET_NODES"
  BY <1>2, <1>4
<1>6. HeadsFirst(GetNodes)
  BY <1>2, <1>4 DEF HeadsFirst
<1>7. Short(GetNodes)
  BY <1>2, <1>4, SchedulerAssumption DEF Short
<1>8. Whole(GetNodes)
  BY <1>2, <1>4 DEF Whole, Ended
<1> QED
  BY <1>4, <1>5, <1>6, <1>7, <1>8 DEF Range

(* What the sender writes for each kind of directive. *)
LEMMA DirectiveFields ==
    ASSUME NEW d \in DirectiveSet
    PROVE  /\ d.kind \in {"get_nodes", "request", "release"}
           /\ d.kind = "request" => d.job \in JobId /\ d.size \in 0 .. MaxSize
           /\ d.kind = "release" =>
                 d.job \in JobId /\ d = [kind |-> "release", job |-> d.job]
BY DEF DirectiveSet

LEMMA TextOfShape ==
    ASSUME NEW d \in DirectiveSet
    PROVE  LET t == TextOf(d) IN
           /\ t \in Seq(Word) /\ t # << >>
           /\ HeadsFirst(t) /\ Short(t) /\ Whole(t) /\ Once(t, ReqHeads)
           /\ \A j \in JobId : ReqHead(j) \in Range(t) =>
                 d.kind = "request" /\ d.job = j
           /\ \A j \in JobId : RelHead(j) \in Range(t) <=>
                 d = [kind |-> "release", job |-> j]
<1>1. \A j : /\ ReqHead(j).cmd = "JOB_REQUEST" /\ ReqHead(j).part = "head"
             /\ RelHead(j).cmd = "JOB_RELEASE" /\ RelHead(j).part = "head"
             /\ ReqHead(j).job = j /\ RelHead(j).job = j
  BY PieceFields DEF ReqHead, RelHead
<1>2. CASE d.kind = "get_nodes"
  <2>1. TextOf(d) = GetNodes
    BY <1>2 DEF TextOf
  <2>2. \A x \in Range(GetNodes) : x.cmd = "GET_NODES"
    BY GetNodesShape
  <2>3. \A x \in Range(GetNodes) : x \notin ReqHeads
    BY <1>1, <2>2 DEF ReqHeads
  <2>4. Once(GetNodes, ReqHeads)
    BY <2>3 DEF Once, Range
  <2>5. \A j \in JobId : /\ ReqHead(j) \notin Range(GetNodes)
                         /\ RelHead(j) \notin Range(GetNodes)
                         /\ d # [kind |-> "release", job |-> j]
    BY <1>1, <1>2, <2>2
  <2> QED
    BY <2>1, <2>4, <2>5, GetNodesShape
<1>3. CASE d.kind = "request"
  <2>0. d.job \in JobId /\ d.size \in 0 .. MaxSize
    BY <1>3, DirectiveFields
  <2> DEFINE t == Text("JOB_REQUEST", d.job, d.size)
  <2>1. TextOf(d) = t
    BY <1>3 DEF TextOf
  <2>2. /\ t \in Seq(Word) /\ t # << >>
        /\ HeadsFirst(t) /\ Short(t) /\ Whole(t) /\ Once(t, ReqHeads)
        /\ \A x \in Range(t) : x.part = "head" => x = ReqHead(d.job)
    BY <2>0, TextShape DEF ReqHead
  <2> HIDE DEF t
  <2>3. \A j \in JobId : ReqHead(j) \in Range(t) => d.job = j
    BY <1>1, <2>2
  <2>4. \A j \in JobId : RelHead(j) \notin Range(t)
                         /\ d # [kind |-> "release", job |-> j]
    BY <1>1, <1>3, <2>2
  <2> QED
    BY <1>3, <2>1, <2>2, <2>3, <2>4
<1>4. CASE d.kind = "release"
  <2>0. d.job \in JobId /\ 0 \in 0 .. MaxSize
        /\ d = [kind |-> "release", job |-> d.job]
    BY <1>4, DirectiveFields, SchedulerAssumption
  <2> DEFINE t == Text("JOB_RELEASE", d.job, 0)
  <2>1. TextOf(d) = t
    BY <1>4 DEF TextOf
  <2>2. /\ t \in Seq(Word) /\ t # << >>
        /\ HeadsFirst(t) /\ Short(t) /\ Whole(t) /\ Once(t, ReqHeads)
        /\ \A x \in Range(t) : x.part = "head" => x = RelHead(d.job)
        /\ RelHead(d.job) \in Range(t)
    BY <2>0, TextShape DEF RelHead
  <2> HIDE DEF t
  <2>3. \A j \in JobId : ReqHead(j) \notin Range(t)
    BY <1>1, <2>2
  <2>4. \A j \in JobId : RelHead(j) \in Range(t) => d.job = j
    BY <1>1, <2>2
  <2>5. \A j \in JobId : d = [kind |-> "release", job |-> j] => d.job = j
    OBVIOUS
  <2> QED
    BY <2>0, <2>1, <2>2, <2>3, <2>4, <2>5
<1> QED
  BY <1>2, <1>3, <1>4, DirectiveFields

----------------------------------------------------------------------------
(* The lines the agent cuts its buffer into. *)

(* A set of numbers that is not empty has a least one. *)
LEMMA LeastNumber ==
    ASSUME NEW T \in SUBSET Nat, T # {}
    PROVE  Min(T) \in T /\ \A y \in T : Min(T) <= y
<1> DEFINE Below(x) == 0 .. (x - 1)
           R == StrictSubsetOrdering(Nat)
           F == FiniteSubsetsOf(Nat)
           B == {Below(x) : x \in T}
<1>1. IsWellFoundedOn(R, F)
  BY FS_StrictSubsetOrderingWellFounded
<1>2. \A x \in Nat : IsFiniteSet(Below(x)) /\ Below(x) \in SUBSET Nat
  BY FS_Interval
<1>3. B \subseteq F /\ B # {}
  BY <1>2 DEF FiniteSubsetsOf
<1>4. ASSUME NEW x \in Nat, NEW y \in Nat, y < x
      PROVE  <<Below(y), Below(x)>> \in R
  <2>1. Below(y) \subseteq Below(x)
    BY <1>4
  <2>2. y \in Below(x) /\ y \notin Below(y)
    BY <1>4
  <2> QED
    BY <1>2, <2>1, <2>2 DEF StrictSubsetOrdering
<1>5. PICK b \in B : \A c \in B : ~(<<c, b>> \in R)
  <2> HIDE DEF B, R, F
  <2> QED
    BY <1>1, <1>3, WFMin
<1>6. PICK x \in T : b = Below(x)
  OBVIOUS
<1>7. ASSUME NEW y \in T
      PROVE  x <= y
  <2>1. ~(<<Below(y), Below(x)>> \in R)
    BY <1>5, <1>6
  <2>2. ~(y < x)
    BY <1>4, <2>1
  <2> QED
    BY <2>2
<1> QED
  BY <1>7 DEF Min

FirstEnd(s, n) ==
    /\ \A i \in 1 .. (n - 1) : s[i].part # "end"
    /\ s[n].part = "end" \/ n = Len(s)

(* A line is what comes before the first end, with it, or everything. *)
LEMMA LineFacts ==
    ASSUME buf \in Seq(Word), buf # << >>
    PROVE  /\ LineEnd \in 1 .. Len(buf)
           /\ FirstEnd(buf, LineEnd)
           /\ Line \in Seq(Word) /\ Len(Line) = LineEnd
           /\ \A i \in 1 .. LineEnd : Line[i] = buf[i]
           /\ Line[1] = buf[1] /\ buf[1] \in Word
<1> DEFINE E == {i \in DOMAIN buf : buf[i].part = "end"}
<1>0. Len(buf) \in Nat /\ Len(buf) > 0 /\ DOMAIN buf = 1 .. Len(buf)
  OBVIOUS
<1>1. LineEnd \in 1 .. Len(buf) /\ FirstEnd(buf, LineEnd)
  <2>1. CASE E = {}
    <3>1. LineEnd = Len(buf)
      BY <2>1 DEF LineEnd
    <3> QED
      BY <1>0, <2>1, <3>1 DEF FirstEnd
  <2>2. CASE E # {}
    <3>1. LineEnd = Min(E)
      BY <2>2 DEF LineEnd
    <3>2. E \in SUBSET Nat
      BY <1>0
    <3>3. Min(E) \in E /\ \A y \in E : Min(E) <= y
      <4> HIDE DEF E
      <4> QED
        BY <2>2, <3>2, LeastNumber
    <3>4. Min(E) \in 1 .. Len(buf) /\ buf[Min(E)].part = "end"
      BY <1>0, <3>3
    <3>5. ASSUME NEW i \in 1 .. (Min(E) - 1)
          PROVE  buf[i].part # "end"
      <4>1. i \in DOMAIN buf /\ ~(Min(E) <= i)
        BY <1>0, <3>4
      <4>2. i \notin E
        BY <3>3, <4>1
      <4> QED
        BY <4>1, <4>2
    <3> HIDE DEF E
    <3>6. FirstEnd(buf, Min(E))
      BY <3>4, <3>5 DEF FirstEnd
    <3> QED
      BY <3>1, <3>4, <3>6
  <2> QED
    BY <2>1, <2>2
<1>2. /\ Line \in Seq(Word) /\ IsSlice(Line, buf, 0) /\ Len(Line) = LineEnd
  <2>1. 1 \in 1 .. (Len(buf) + 1) /\ LineEnd \in 0 .. Len(buf) /\ 1 <= LineEnd + 1
        /\ LineEnd - 1 + 1 = LineEnd /\ 1 - 1 = 0
    BY <1>0, <1>1
  <2> QED
    BY <2>1, SubSeqIsSlice DEF Line
<1>3. \A i \in 1 .. LineEnd : Line[i] = buf[i]
  BY <1>0, <1>1, <1>2 DEF IsSlice
<1>4. Line[1] = buf[1] /\ buf[1] \in Word
  BY <1>0, <1>1, <1>3
<1> QED
  BY <1>1, <1>2, <1>3, <1>4

(* The rest of the buffer. *)
LEMMA RestFacts ==
    ASSUME buf \in Seq(Word), buf # << >>
    PROVE  LET r == SubSeq(buf, LineEnd + 1, Len(buf)) IN
           /\ r \in Seq(Word) /\ IsSlice(r, buf, LineEnd)
           /\ LineEnd + Len(r) = Len(buf)
<1>1. LineEnd \in 1 .. Len(buf) /\ Len(buf) \in Nat
  BY LineFacts
<1>2. LineEnd + 1 \in 1 .. (Len(buf) + 1) /\ Len(buf) \in 0 .. Len(buf)
      /\ LineEnd + 1 <= Len(buf) + 1 /\ (LineEnd + 1) - 1 = LineEnd
  BY <1>1
<1> DEFINE a == LineEnd + 1
           r == SubSeq(buf, a, Len(buf))
<1> HIDE DEF a
<1>3. r \in Seq(Word) /\ IsSlice(r, buf, a - 1) /\ Len(r) = Len(buf) - a + 1
  BY <1>2, SubSeqIsSlice DEF a
<1> HIDE DEF r
<1>4. a - 1 = LineEnd /\ LineEnd + Len(r) = Len(buf)
  BY <1>1, <1>3 DEF a
<1> QED
  BY <1>3, <1>4 DEF r, a

(* A request that is taken names no more resources than a job may have. *)
LEMMA ResourcesBounded ==
    ASSUME buf \in Seq(Word), buf # << >>, Short(buf),
           Line[1].part = "head", Parts("id") = 1
    PROVE  Parts("resource") \in 0 .. MaxSize
<1> DEFINE L == LineEnd
           I == {i \in DOMAIN Line : Line[i].part = "id"}
           R == {i \in DOMAIN Line : Line[i].part = "resource"}
<1>a. L \in 1 .. Len(buf) /\ Len(buf) \in Nat /\ MaxSize \in Nat
  BY LineFacts, SchedulerAssumption
<1>b. FirstEnd(buf, L)
  BY LineFacts
<1>c. DOMAIN Line = 1 .. L /\ DOMAIN buf = 1 .. Len(buf)
  BY LineFacts
<1>d. \A i \in 1 .. L : Line[i] = buf[i]
  BY LineFacts
<1>1. Parts("id") = Cardinality(I) /\ Parts("resource") = Cardinality(R)
  BY DEF Parts
<1>2. I # {}
  <2>1. Cardinality(I) = 1 /\ Cardinality({}) = 0
    BY <1>1, FS_EmptySet
  <2>2. ASSUME I = {} PROVE FALSE
    <3>1. Cardinality(I) = Cardinality({})
      BY <2>2, Zenon
    <3> HIDE DEF I
    <3> QED
      BY <2>1, <3>1
  <2> QED
    BY <2>2
<1>2a. PICK k \in I : TRUE
  BY <1>2
<1>3. k \in 1 .. L /\ Line[k].part = "id" /\ k # 1
  BY <1>2a, <1>c
<1> HIDE DEF L
<1> DEFINE A == 1 .. L
           B == A \ {1}
           C == B \ {k}
           D == C \ {L}
<1>4. /\ IsFiniteSet(C) /\ Cardinality(C) = L - 2
      /\ IsFiniteSet(D) /\ Cardinality(D) = IF L \in C THEN L - 3 ELSE L - 2
  <2>1. IsFiniteSet(A) /\ Cardinality(A) = L
    BY <1>a, FS_Interval
  <2>1a. 1 \in A
    BY <1>a
  <2>2. IsFiniteSet(B) /\ Cardinality(B) = L - 1
    <3> HIDE DEF A
    <3> QED
      BY <2>1, <2>1a, FS_RemoveElement
  <2>2a. k \in B
    BY <1>3
  <2>3. IsFiniteSet(C) /\ Cardinality(C) = (L - 1) - 1
    <3> HIDE DEF B
    <3> QED
      BY <2>2, <2>2a, FS_RemoveElement
  <2>4. (L - 1) - 1 = L - 2
    BY <1>a
  <2>5. IsFiniteSet(D) /\ Cardinality(D) = IF L \in C THEN (L - 2) - 1 ELSE L - 2
    <3> HIDE DEF C
    <3> QED
      BY <2>3, <2>4, FS_RemoveElement
  <2>6. (L - 2) - 1 = L - 3
    BY <1>a
  <2> QED
    BY <2>3, <2>4, <2>5, <2>6
<1>5. R \subseteq C
  BY <1>3, <1>c
<1>5a. Cardinality(R) \in Nat /\ Cardinality(R) <= Cardinality(C)
  <2>1. IsFiniteSet(R) /\ Cardinality(R) <= Cardinality(C)
    <3> HIDE DEF R, C
    <3> QED
      BY <1>4, <1>5, FS_Subset
  <2> HIDE DEF R
  <2> QED
    BY <2>1, FS_CardinalityType
<1>6. CASE buf[L].part = "end"
  <2>a. L \in 1 .. L /\ Line[L].part = "end"
    BY <1>6, <1>a, <1>d
  <2>0. L # 1 /\ L # k
    BY <1>3, <2>a
  <2>1. R \subseteq D /\ L \in C
    BY <1>5, <2>0, <2>a
  <2>2. Cardinality(R) <= L - 3
    <3>1. Cardinality(R) <= Cardinality(D)
      <4> HIDE DEF R, D
      <4> QED
        BY <1>4, <2>1, FS_Subset
    <3> HIDE DEF R, D, C
    <3> QED
      BY <1>4, <2>1, <3>1
  <2>3. 1 \in DOMAIN buf /\ L - 1 \in DOMAIN buf /\ 1 <= L - 1
    BY <1>a, <1>c, <2>0
  <2>4. (L - 1) - 1 < MaxSize + 2
    BY <1>b, <2>3 DEF Short, FirstEnd
  <2> HIDE DEF R
  <2> QED
    BY <1>1, <1>5a, <1>a, <2>2, <2>4
<1>7. CASE L = Len(buf) /\ buf[L].part # "end"
  <2>1. \A i \in 1 .. L : buf[i].part # "end"
    <3> SUFFICES ASSUME NEW i \in 1 .. L PROVE buf[i].part # "end"
      OBVIOUS
    <3>1. i = L \/ i \in 1 .. (L - 1)
      BY <1>a
    <3> QED
      BY <1>7, <1>b, <3>1 DEF FirstEnd
  <2>2. 1 \in DOMAIN buf /\ L \in DOMAIN buf /\ 1 <= L
    BY <1>a, <1>c
  <2>3. L - 1 < MaxSize + 2
    BY <2>1, <2>2 DEF Short
  <2>4. Cardinality(R) <= L - 2
    <3> HIDE DEF R, C
    <3> QED
      BY <1>4, <1>5a
  <2> HIDE DEF R
  <2> QED
    BY <1>1, <1>5a, <1>a, <2>3, <2>4
<1> QED
  BY <1>6, <1>7, <1>b DEF FirstEnd

(* SetToSeq of a finite set: its elements, none of them twice. *)
LEMMA SetToSeqFacts ==
    ASSUME NEW S, IsFiniteSet(S)
    PROVE  /\ SetToSeq(S) \in Seq(S)
           /\ \A i, k \in DOMAIN SetToSeq(S) :
                 SetToSeq(S)[i] = SetToSeq(S)[k] => i = k
<1> DEFINE n == Cardinality(S)
<1>1. n \in Nat /\ ExistsBijection(1 .. n, S)
  BY FS_CardinalityType
<1>2. PICK f \in [1 .. n -> S] : IsInjective(f)
  BY <1>1 DEF ExistsBijection, Bijection, Injection, IsInjective
<1>3. SetToSeq(S) \in [1 .. n -> S] /\ IsInjective(SetToSeq(S))
  BY <1>2 DEF SetToSeq
<1> QED
  BY <1>1, <1>3 DEF IsInjective

----------------------------------------------------------------------------
(* With and Without, and the requests of one NODES message. *)

LEMMA WithFacts ==
    ASSUME NEW f, NEW g
    PROVE  /\ DOMAIN With(f, g) = DOMAIN f \cup DOMAIN g
           /\ \A k \in DOMAIN g : With(f, g)[k] = g[k]
           /\ \A k \in DOMAIN f \ DOMAIN g : With(f, g)[k] = f[k]
BY DEF With

LEMMA WithRange ==
    ASSUME NEW f, NEW g, NEW V,
           \A k \in DOMAIN f : f[k] \in V, \A k \in DOMAIN g : g[k] \in V
    PROVE  With(f, g) \in [DOMAIN f \cup DOMAIN g -> V]
BY DEF With

LEMMA WithoutFacts ==
    ASSUME NEW f, NEW X
    PROVE  /\ DOMAIN Without(f, X) = DOMAIN f \ X
           /\ \A k \in DOMAIN f \ X : Without(f, X)[k] = f[k]
BY DEF Without

(* The fresh identifiers are used nowhere. *)
LEMMA FreshIsJob == Fresh \subseteq JobId
BY DEF Fresh

AllRequests(q, X) ==
    \A i \in DOMAIN q : q[i].kind = "request" /\ q[i].job \in X

LEMMA RequestsFacts ==
    ASSUME NEW X \in SUBSET JobId, NEW size \in [X -> 0 .. MaxSize],
           NEW S, S = {[kind |-> "request", job |-> j, size |-> size[j]] : j \in X}
    PROVE  /\ SetToSeq(S) \in Seq(DirectiveSet)
           /\ AllRequests(SetToSeq(S), X)
           /\ DirectedOnce(SetToSeq(S))
<1> DEFINE f == [j \in X |-> [kind |-> "request", job |-> j, size |-> size[j]]]
<1>1. IsFiniteSet(X)
  BY SchedulerAssumption, FS_Subset
<1>2. \A y \in S : \E j \in X : y = f[j]
  OBVIOUS
<1>3. f \in [X -> S]
  OBVIOUS
<1>4. f \in Surjection(X, S)
  BY <1>2, <1>3 DEF Surjection
<1>5. IsFiniteSet(S)
  <2> HIDE DEF f
  <2> QED
    BY <1>1, <1>4, FS_Surjection
<1>6. \A y \in S : /\ y \in DirectiveSet /\ y.kind = "request" /\ y.job \in X
                   /\ y = [kind |-> "request", job |-> y.job, size |-> size[y.job]]
  BY DEF DirectiveSet
<1> DEFINE q == SetToSeq(S)
<1>7. q \in Seq(S) /\ \A i, k \in DOMAIN q : q[i] = q[k] => i = k
  BY <1>5, SetToSeqFacts
<1> HIDE DEF q
<1>8. \A i \in DOMAIN q : q[i] \in S
  BY <1>7
<1>9. q \in Seq(DirectiveSet)
  <2>1. S \subseteq DirectiveSet
    BY <1>6
  <2> QED
    BY <1>7, <2>1
<1>10. AllRequests(q, X)
  BY <1>6, <1>8 DEF AllRequests
<1>11. DirectedOnce(q)
  <2> SUFFICES ASSUME NEW i \in DOMAIN q, NEW k \in DOMAIN q, q[i].job = q[k].job
               PROVE  i = k
    BY DEF DirectedOnce
  <2>1. q[i] = q[k]
    BY <1>6, <1>8
  <2> QED
    BY <1>7, <2>1
<1> QED
  BY <1>9, <1>10, <1>11 DEF q

----------------------------------------------------------------------------
(* Type correctness, with the shape of the text. *)

(* The words of the two mailboxes. *)
LEMMA MailFacts ==
    /\ [tag |-> "sender_pid"] \in Mail /\ [tag |-> "error"] \in Mail
    /\ DownLine \subseteq Mail
    /\ \A j \in JobId : [tag |-> "job_release", job |-> j] \in Mail
    /\ \A some \in BOOLEAN : [tag |-> "NODES", some |-> some] \in DownLine
    /\ [tag : Answers, job : JobId] \subseteq DownLine
    /\ \A m \in Mail : m.tag \in Answers \cup {"job_release"} => m.job \in JobId
    /\ [kind |-> "get_nodes"] \in DirectiveSet
    /\ \A j \in JobId : [kind |-> "release", job |-> j] \in DirectiveSet
BY DEF Mail, DownLine, DirectiveSet, Answers

LEMMA ErrorFacts ==
    ASSUME NEW box \in Seq(Mail)
    PROVE  /\ WithError(box) \in Seq(Mail)
           /\ WithError(box) = box \/ WithError(box) = Append(box, [tag |-> "error"])
BY MailFacts DEF WithError

LEMMA EmptyText ==
    /\ << >> \in Seq(Word) /\ HeadsFirst(<< >>) /\ Short(<< >>) /\ Ended(<< >>)
    /\ DOMAIN << >> = {} /\ Range(<< >>) = {}
    /\ \A S : << >> \in Seq(S)
<1>1. DOMAIN << >> = {}
  OBVIOUS
<1> QED
  BY <1>1 DEF HeadsFirst, Short, Ended, Range

LEMMA TInit == Init => TInv
<1> SUFFICES ASSUME Init PROVE TInv
  OBVIOUS
<1>1. DOMAIN << >> = {}
  OBVIOUS
<1>2. ErlOK
  <2>1. wanted \in [DOMAIN jobs -> 0 .. MaxSize]
    BY <1>1 DEF Init
  <2>2. tries \in 0 .. TRIES
    BY SchedulerAssumption DEF Init
  <2> QED
    BY <1>1, <2>1, <2>2, EmptyText DEF ErlOK, Init
<1>3. StreamsOK
  BY EmptyText DEF StreamsOK, Init
<1>4. AgentOK
  BY <1>1 DEF AgentOK, Init
<1>5. Ends
  BY <1>1 DEF Ends, Init
<1> QED
  BY <1>2, <1>3, <1>4, <1>5 DEF TInv

(* The processes of the scheduler start and stop. *)
LEMMA TStarts ==
    ASSUME TInv, start \/ connect
    PROVE  TInv'
<1> USE DEF TInv
<1>1. CASE start
  <2>1. ErlOK'
    BY <1>1, SchedulerAssumption DEF start, ErlOK
  <2>2. StreamsOK'
    BY <1>1 DEF start, StreamsOK
  <2>3. AgentOK'
    BY <1>1 DEF start, AgentOK, agentVars
  <2>4. Ends'
    BY <1>1 DEF start, Ends, agentVars
  <2> QED
    BY <2>1, <2>2, <2>3, <2>4
<1>2. CASE connect
  <2>0. proc = "connect" /\ conn = "none"
    BY <1>2 DEF connect, Ends
  <2>1. ErlOK'
    <3>0. ASSUME NEW m \in Mail PROVE <<m>> \in Seq(Mail)
      OBVIOUS
    <3>0a. <<[tag |-> "sender_pid"]>> \in Seq(Mail)
      BY <3>0, MailFacts
    <3>1. mailbox' \in Seq(Mail)
      BY <1>2, <3>0a DEF connect, ErlOK
    <3>2. tries' \in 0 .. TRIES
      BY <1>2, SchedulerAssumption DEF connect, ErlOK, OutOfTries
    <3> QED
      BY <1>2, <3>1, <3>2 DEF connect, ErlOK
  <2>2. StreamsOK'
    BY <1>2, <2>0 DEF connect, StreamsOK
  <2>3. AgentOK'
    BY <1>2 DEF connect, AgentOK, agentVars
  <2>4. Ends'
    BY <1>2, <2>0 DEF connect, Ends, agentVars
  <2> QED
    BY <2>1, <2>2, <2>3, <2>4
<1> QED
  BY <1>1, <1>2

LEMMA TStopped ==
    ASSUME TInv, Stopped, conn \in {"open", "closed"}
    PROVE  TInv'
<1> USE DEF TInv
<1>1. ErlOK'
  <2>0. DOMAIN << >> = {}
    OBVIOUS
  <2>1. wanted' \in [DOMAIN jobs' -> 0 .. MaxSize]
    BY <2>0 DEF Stopped
  <2>2. tries' \in 0 .. TRIES
    BY SchedulerAssumption DEF Stopped
  <2> QED
    BY <2>0, <2>1, <2>2, EmptyText DEF ErlOK, Stopped
<1>2. StreamsOK'
  BY EmptyText DEF StreamsOK, Stopped
<1>3. AgentOK'
  BY DEF AgentOK, Stopped, agentVars
<1>4. Ends'
  <2>0. DOMAIN << >> = {}
    OBVIOUS
  <2> QED
    BY <2>0 DEF Ends, Stopped, agentVars
<1> QED
  BY <1>1, <1>2, <1>3, <1>4

LEMMA TRequestNodes ==
    ASSUME TInv, request_nodes
    PROVE  TInv'
<1> USE DEF TInv, request_nodes
<1>1. ErlOK'
  BY MailFacts, AppendProperties DEF ErlOK
<1>2. StreamsOK'
  BY DEF StreamsOK
<1>3. AgentOK'
  BY DEF AgentOK, agentVars
<1>4. Ends'
  BY DEF Ends, agentVars
<1> QED
  BY <1>1, <1>2, <1>3, <1>4

(* What the sender writes joins the text that is on its way. *)
LEMMA SenderWrites ==
    ASSUME NEW u \in Seq(Word), HeadsFirst(u), Short(u), Ended(u),
           NEW d \in DirectiveSet
    PROVE  /\ u \o TextOf(d) \in Seq(Word) /\ HeadsFirst(u \o TextOf(d))
           /\ Short(u \o TextOf(d)) /\ Ended(u \o TextOf(d))
<1> DEFINE t == TextOf(d)
<1>1. t \in Seq(Word) /\ t # << >> /\ HeadsFirst(t) /\ Short(t) /\ Ended(t)
  BY TextOfShape DEF Whole
<1> HIDE DEF t
<1>2. u \o t \in Seq(Word) /\ IsJoin(u \o t, u, t)
  BY <1>1, ConcatIsJoin
<1> QED
  BY <1>1, <1>2, JoinProps DEF t

LEMMA TSender ==
    ASSUME TInv, sender
    PROVE  TInv'
<1> USE DEF TInv
<1>0. /\ outgoing # << >> /\ Head(outgoing) \in DirectiveSet
      /\ Tail(outgoing) \in Seq(DirectiveSet)
  BY HeadTailProperties DEF sender, ErlOK
<1>1. ErlOK'
  <2>1. mailbox' \in Seq(Mail)
    BY ErrorFacts DEF sender, ErlOK
  <2> QED
    BY <1>0, <2>1 DEF sender, ErlOK
<1>2. StreamsOK'
  <2>1. CASE conn = "open" /\ up' = up \o TextOf(Head(outgoing))
    BY <1>0, <2>1, SenderWrites DEF sender, StreamsOK
  <2>2. CASE UNCHANGED up
    BY <2>2 DEF sender, StreamsOK
  <2> QED
    BY <2>1, <2>2 DEF sender
<1>3. AgentOK'
  BY DEF AgentOK, sender, agentVars
<1>4. Ends'
  BY DEF Ends, sender, agentVars
<1> QED
  BY <1>1, <1>2, <1>3, <1>4

LEMMA TReceiver ==
    ASSUME TInv, receiver
    PROVE  TInv'
<1> USE DEF TInv
<1>1. mailbox' \in Seq(Mail) /\ down' \in Seq(DownLine)
  <2>1. CASE down # << >> /\ mailbox' = Append(mailbox, Head(down)) /\ down' = Tail(down)
    <3>1. Head(down) \in DownLine /\ Tail(down) \in Seq(DownLine)
      BY <2>1, HeadTailProperties DEF StreamsOK
    <3> QED
      BY <2>1, <3>1, MailFacts, AppendProperties DEF ErlOK
  <2>2. CASE mailbox' = WithError(mailbox) /\ UNCHANGED down
    BY <2>2, ErrorFacts DEF ErlOK, StreamsOK
  <2> QED
    BY <2>1, <2>2 DEF receiver
<1>2. ErlOK'
  BY <1>1 DEF receiver, ErlOK
<1>3. StreamsOK'
  BY <1>1 DEF receiver, StreamsOK
<1>4. AgentOK'
  BY DEF AgentOK, receiver, agentVars
<1>5. Ends'
  BY DEF Ends, receiver, agentVars
<1> QED
  BY <1>2, <1>3, <1>4, <1>5

(* The scheduler's receive. *)
LEMMA MailTail ==
    ASSUME TInv, mailbox # << >>
    PROVE  Head(mailbox) \in Mail /\ Tail(mailbox) \in Seq(Mail)
BY HeadTailProperties DEF TInv, ErlOK

LEMMA ReceivingIsUp ==
    ASSUME TInv, mailbox # << >>
    PROVE  conn \in {"open", "closed"}
BY DEF TInv, Ends, StreamsOK

LEMMA TReceivePids ==
    ASSUME TInv, receive_pids
    PROVE  TInv'
<1> USE DEF TInv, receive_pids
<1>0. /\ mailbox # << >> /\ Tail(mailbox) \in Seq(Mail)
      /\ conn \in {"open", "closed"}
  BY MailTail, ReceivingIsUp DEF Received
<1>1. ErlOK'
  BY <1>0 DEF ErlOK
<1>2. StreamsOK'
  BY DEF StreamsOK
<1>3. AgentOK'
  BY DEF AgentOK, agentVars
<1>4. Ends'
  BY <1>0 DEF Ends, agentVars
<1> QED
  BY <1>1, <1>2, <1>3, <1>4

LEMMA TReceiveNodes ==
    ASSUME TInv, receive_nodes
    PROVE  TInv'
<1> USE DEF TInv
<1>0. /\ mailbox # << >> /\ Tail(mailbox) \in Seq(Mail)
      /\ conn \in {"open", "closed"} /\ mailbox' = Tail(mailbox)
      /\ UNCHANGED <<proc, tries, loads, conn, up, buf, down, agentVars>>
  BY MailTail, ReceivingIsUp DEF Received, receive_nodes
<1>1. ErlOK'
  <2>1. CASE UNCHANGED <<jobs, wanted, outgoing>>
    BY <1>0, <2>1 DEF ErlOK
  <2>2. ASSUME NEW X \in SUBSET Fresh, NEW size \in [X -> 0 .. MaxSize],
               jobs' = With(jobs, [j \in X |-> "dispatched"]),
               wanted' = With(wanted, size),
               outgoing' = outgoing \o
                   SetToSeq({[kind |-> "request", job |-> j, size |-> size[j]] : j \in X})
        PROVE  ErlOK'
    <3> DEFINE S == {[kind |-> "request", job |-> j, size |-> size[j]] : j \in X}
               disp == [j \in X |-> "dispatched"]
    <3>1. X \in SUBSET JobId
      BY FreshIsJob
    <3>2. SetToSeq(S) \in Seq(DirectiveSet)
      BY <3>1, RequestsFacts
    <3>3. outgoing' \in Seq(DirectiveSet)
      <4> HIDE DEF S
      <4>1. outgoing' = outgoing \o SetToSeq(S)
        BY <2>2 DEF S
      <4> QED
        BY <3>2, <4>1, ConcatProperties DEF ErlOK
    <3>4. DOMAIN disp = X /\ \A j \in X : disp[j] = "dispatched"
      OBVIOUS
    <3>5. DOMAIN jobs' = DOMAIN jobs \cup X /\ DOMAIN wanted' = DOMAIN wanted \cup X
      BY <2>2, <3>4, WithFacts
    <3>6. \A j \in DOMAIN jobs' : jobs'[j] \in {"dispatched", "granted"}
      <4> HIDE DEF disp
      <4>1. jobs' = With(jobs, disp)
        BY <2>2 DEF disp
      <4>2. jobs' \in [DOMAIN jobs \cup X -> {"dispatched", "granted"}]
        BY <3>4, <4>1, WithRange DEF ErlOK
      <4> QED
        BY <4>2
    <3>7. wanted' \in [DOMAIN jobs' -> 0 .. MaxSize]
      <4>1. /\ \A j \in DOMAIN wanted : wanted[j] \in 0 .. MaxSize
            /\ \A j \in DOMAIN size : size[j] \in 0 .. MaxSize
            /\ DOMAIN size = X /\ DOMAIN wanted = DOMAIN jobs
        BY DEF ErlOK
      <4>2. wanted' \in [DOMAIN jobs \cup X -> 0 .. MaxSize]
        BY <2>2, <4>1, WithRange
      <4> QED
        BY <3>5, <4>2
    <3> QED
      BY <1>0, <3>1, <3>3, <3>5, <3>6, <3>7 DEF ErlOK
  <2> QED
    BY <2>1, <2>2 DEF receive_nodes
<1>2. StreamsOK'
  BY <1>0 DEF StreamsOK
<1>3. AgentOK'
  BY <1>0 DEF AgentOK, agentVars
<1>4. Ends'
  BY <1>0 DEF Ends, agentVars
<1> QED
  BY <1>1, <1>2, <1>3, <1>4

LEMMA TReceiveGranted ==
    ASSUME TInv, receive_granted
    PROVE  TInv'
<1> USE DEF TInv
<1>0. /\ mailbox # << >> /\ Tail(mailbox) \in Seq(Mail)
      /\ conn \in {"open", "closed"}
  BY MailTail, ReceivingIsUp DEF Received, receive_granted
<1>1. ErlOK'
  <2> DEFINE G == {Head(mailbox).job} \cap Grantable
             gr == [j \in G |-> "granted"]
  <2>1. G \subseteq DOMAIN jobs
    BY DEF Grantable
  <2>2. jobs' = With(jobs, gr) /\ loads' = loads \cup G /\ mailbox' = Tail(mailbox)
        /\ UNCHANGED <<proc, tries, wanted, outgoing>>
    BY DEF receive_granted
  <2>3. DOMAIN gr = G /\ \A j \in G : gr[j] = "granted"
    OBVIOUS
  <2> HIDE DEF G, gr
  <2>4. DOMAIN jobs' = DOMAIN jobs
    BY <2>1, <2>2, <2>3, WithFacts
  <2>4a. jobs' \in [DOMAIN jobs \cup G -> {"dispatched", "granted"}]
    BY <2>2, <2>3, WithRange DEF ErlOK
  <2>5. \A j \in DOMAIN jobs' : jobs'[j] \in {"dispatched", "granted"}
    BY <2>4a
  <2> QED
    BY <1>0, <2>1, <2>2, <2>4, <2>5 DEF ErlOK
<1>2. StreamsOK'
  BY DEF StreamsOK, receive_granted
<1>3. AgentOK'
  BY DEF AgentOK, agentVars, receive_granted
<1>4. Ends'
  BY <1>0 DEF Ends, agentVars, receive_granted
<1> QED
  BY <1>1, <1>2, <1>3, <1>4

LEMMA TReceiveRemoval ==
    ASSUME TInv, receive_removal
    PROVE  TInv'
<1> USE DEF TInv
<1>0. /\ mailbox # << >> /\ Tail(mailbox) \in Seq(Mail)
      /\ conn \in {"open", "closed"}
  BY MailTail, ReceivingIsUp DEF Received, receive_removal
<1>1. ErlOK'
  <2> DEFINE X == Forgotten(Head(mailbox).job)
  <2>1. jobs' = Without(jobs, X) /\ wanted' = Without(wanted, X)
        /\ mailbox' = Tail(mailbox) /\ UNCHANGED <<proc, tries, loads, outgoing>>
    BY DEF receive_removal
  <2> HIDE DEF X
  <2>2. DOMAIN jobs' = DOMAIN jobs \ X /\ DOMAIN wanted' = DOMAIN wanted \ X
    BY <2>1, WithoutFacts
  <2>3. \A j \in DOMAIN jobs' : jobs'[j] \in {"dispatched", "granted"}
    BY <2>1, <2>2, WithoutFacts DEF ErlOK
  <2>4. wanted' \in [DOMAIN jobs' -> 0 .. MaxSize]
    BY <2>1, <2>2 DEF ErlOK, Without
  <2> QED
    BY <1>0, <2>1, <2>2, <2>3, <2>4 DEF ErlOK
<1>2. StreamsOK'
  BY DEF StreamsOK, receive_removal
<1>3. AgentOK'
  BY DEF AgentOK, agentVars, receive_removal
<1>4. Ends'
  BY <1>0 DEF Ends, agentVars, receive_removal
<1> QED
  BY <1>1, <1>2, <1>3, <1>4

LEMMA TSimulateLoad ==
    ASSUME TInv, NEW j \in JobId, simulate_load(j)
    PROVE  TInv'
<1> USE DEF TInv
<1>0. j \in loads /\ conn \in {"open", "closed"}
  BY DEF simulate_load, Ends, StreamsOK
<1>1. ErlOK'
  <2>1. outgoing' \in Seq(DirectiveSet)
    <3>0. [kind |-> "release", job |-> j] \in DirectiveSet
      BY MailFacts
    <3> DEFINE r == [kind |-> "release", job |-> j]
    <3>1. outgoing' = outgoing \o <<r>>
      BY DEF simulate_load, Directive
    <3> HIDE DEF r
    <3>2. <<r>> \in Seq(DirectiveSet)
      BY <3>0 DEF r
    <3> QED
      BY <3>1, <3>2, ConcatProperties DEF ErlOK
  <2>2. mailbox' \in Seq(Mail)
    BY MailFacts, AppendProperties DEF simulate_load, ErlOK
  <2> QED
    BY <2>1, <2>2 DEF ErlOK, simulate_load
<1>2. StreamsOK'
  BY DEF StreamsOK, simulate_load
<1>3. AgentOK'
  BY DEF AgentOK, agentVars, simulate_load
<1>4. Ends'
  BY <1>0 DEF Ends, agentVars, simulate_load
<1> QED
  BY <1>1, <1>2, <1>3, <1>4

(* The agent reads: what it leaves is a slice, and so is what it takes. *)
LEMMA ReadFacts ==
    ASSUME TInv, NEW k \in 1 .. Len(up)
    PROVE  /\ SubSeq(up, 1, k) \in Seq(Word) /\ IsSlice(SubSeq(up, 1, k), up, 0)
           /\ Len(SubSeq(up, 1, k)) = k
           /\ SubSeq(up, k + 1, Len(up)) \in Seq(Word)
           /\ IsSlice(SubSeq(up, k + 1, Len(up)), up, k)
           /\ k + Len(SubSeq(up, k + 1, Len(up))) = Len(up)
<1>0. up \in Seq(Word) /\ Len(up) \in Nat /\ k \in Nat
  BY DEF TInv, StreamsOK
<1>1. 1 \in 1 .. (Len(up) + 1) /\ k \in 0 .. Len(up) /\ 1 <= k + 1
      /\ 1 - 1 = 0 /\ k - 1 + 1 = k
  BY <1>0
<1>2. k + 1 \in 1 .. (Len(up) + 1) /\ Len(up) \in 0 .. Len(up)
      /\ k + 1 <= Len(up) + 1 /\ (k + 1) - 1 = k
      /\ k + (Len(up) - (k + 1) + 1) = Len(up)
  BY <1>0
<1>3. /\ SubSeq(up, 1, k) \in Seq(Word) /\ IsSlice(SubSeq(up, 1, k), up, 1 - 1)
      /\ Len(SubSeq(up, 1, k)) = k - 1 + 1
  BY <1>0, <1>1, SubSeqIsSlice
<1> DEFINE a == k + 1
<1>4. /\ SubSeq(up, a, Len(up)) \in Seq(Word)
      /\ IsSlice(SubSeq(up, a, Len(up)), up, a - 1)
      /\ Len(SubSeq(up, a, Len(up))) = Len(up) - a + 1
  <2>1. a \in 1 .. (Len(up) + 1) /\ a <= Len(up) + 1
    BY <1>2
  <2> HIDE DEF a
  <2> QED
    BY <1>0, <1>2, <2>1, SubSeqIsSlice
<1> QED
  BY <1>1, <1>2, <1>3, <1>4

(* A last piece that is not all of piece k is a number cut short. *)
LEMMA LastPieceFacts ==
    ASSUME TInv, NEW k \in 1 .. Len(up), NEW w \in LastPiece(k)
    PROVE  w \in Word /\ w.part = up[k].part /\ (w # up[k] => up[k].part = "id")
<1>0. up[k] \in Word
  BY DEF TInv, StreamsOK
<1>1. CASE w = up[k]
  BY <1>0, <1>1
<1>2. CASE w # up[k]
  <2>1. up[k].part = "id" /\ \E p \in Prefix[up[k].job] : w = Piece(up[k].cmd, p, "id")
    BY <1>2 DEF LastPiece
  <2>2. PICK p \in Prefix[up[k].job] : w = Piece(up[k].cmd, p, "id")
    BY <2>1
  <2>3. up[k].cmd \in {"JOB_REQUEST", "JOB_RELEASE"} /\ up[k].job \in JobId
    BY <1>0, <2>1, WordFields, PieceOf
  <2>4. p \in JobId
    BY <2>3, SchedulerAssumption
  <2>5. w \in Word /\ w.part = "id"
    BY <2>2, <2>3, <2>4 DEF Word, Piece
  <2> QED
    BY <2>1, <2>5
<1> QED
  BY <1>1, <1>2

(* What is read: a slice of the text with its last piece changed, which is *)
(* the same piece of a line.                                               *)
LEMMA Recut ==
    ASSUME NEW s \in Seq(Word), HeadsFirst(s), Short(s), NEW k \in 1 .. Len(s),
           NEW w \in Word, w.part = s[k].part
    PROVE  LET t == [s EXCEPT ![k] = w] IN t \in Seq(Word) /\ HeadsFirst(t) /\ Short(t)
<1> DEFINE t == [s EXCEPT ![k] = w]
<1>1. t \in Seq(Word) /\ DOMAIN t = DOMAIN s /\ DOMAIN s = 1 .. Len(s) /\ Len(s) \in Nat
  <2>1. Len(s) \in Nat /\ s \in [1 .. Len(s) -> Word] /\ DOMAIN s = 1 .. Len(s)
    OBVIOUS
  <2>2. t \in [1 .. Len(s) -> Word]
    BY <2>1
  <2> HIDE DEF t
  <2>3. t \in Seq(Word)
    BY <2>1, <2>2
  <2> QED
    BY <2>1, <2>2, <2>3
<1>2. \A i \in DOMAIN s : t[i].part = s[i].part
  BY <1>1
<1> HIDE DEF t
<1>3. HeadsFirst(t)
  <2> SUFFICES ASSUME NEW i \in DOMAIN t, t[i].part = "head"
               PROVE  i = 1 \/ t[i - 1].part = "end"
    BY DEF HeadsFirst
  <2>1. i = 1 \/ s[i - 1].part = "end"
    BY <1>1, <1>2 DEF HeadsFirst
  <2>2. i # 1 => i - 1 \in DOMAIN s
    BY <1>1
  <2> QED
    BY <1>2, <2>1, <2>2
<1>4. Short(t)
  <2> SUFFICES ASSUME NEW i \in DOMAIN t, NEW n \in DOMAIN t, i <= n,
                      \A h \in i .. n : t[h].part # "end"
               PROVE  n - i < MaxSize + 2
    BY DEF Short
  <2>1. ASSUME NEW h \in i .. n PROVE s[h].part # "end"
    <3>1. h \in DOMAIN s /\ t[h].part # "end"
      BY <1>1
    <3> QED
      BY <1>2, <3>1
  <2> QED
    BY <1>1, <2>1 DEF Short
<1> QED
  BY <1>1, <1>3, <1>4 DEF t

LEMMA TReceiveTcp ==
    ASSUME TInv, receive_tcp_message
    PROVE  TInv'
<1> USE DEF TInv
<1>1a. PICK k \in 1 .. Len(up) : \E w \in LastPiece(k) :
         /\ buf' = [SubSeq(up, 1, k) EXCEPT ![k] = w]
         /\ up' = SubSeq(up, IF w = up[k] THEN k + 1 ELSE k, Len(up))
  BY DEF receive_tcp_message
<1>1. PICK w \in LastPiece(k) :
         /\ buf' = [SubSeq(up, 1, k) EXCEPT ![k] = w]
         /\ up' = SubSeq(up, IF w = up[k] THEN k + 1 ELSE k, Len(up))
  BY <1>1a
<1>2. up \in Seq(Word) /\ HeadsFirst(up) /\ Short(up) /\ Ended(up) /\ Len(up) \in Nat
  BY DEF StreamsOK
<1>3. w \in Word /\ w.part = up[k].part
  BY LastPieceFacts
<1>4. buf' \in Seq(Word) /\ HeadsFirst(buf') /\ Short(buf')
  <2> DEFINE s == SubSeq(up, 1, k)
  <2>1. s \in Seq(Word) /\ IsSlice(s, up, 0) /\ Len(s) = k
    BY ReadFacts
  <2>2. buf' = [s EXCEPT ![k] = w]
    BY <1>1
  <2> HIDE DEF s
  <2>3. HeadsFirst(s) /\ Short(s)
    BY <1>2, <2>1, SliceProps
  <2>4. k \in 1 .. Len(s) /\ s[k] = up[k]
    BY <1>2, <2>1 DEF IsSlice
  <2>5. LET t == [s EXCEPT ![k] = w] IN t \in Seq(Word) /\ HeadsFirst(t) /\ Short(t)
    BY <1>3, <2>1, <2>3, <2>4, Recut
  <2> QED
    BY <2>2, <2>5
<1>5. up' \in Seq(Word) /\ HeadsFirst(up') /\ Short(up') /\ Ended(up')
  <2> DEFINE c == IF w = up[k] THEN k ELSE k - 1
  <2>1. /\ c \in Nat /\ c + 1 \in 1 .. (Len(up) + 1) /\ Len(up) \in 0 .. Len(up)
        /\ c + 1 <= Len(up) + 1 /\ (c + 1) - 1 = c
        /\ c + (Len(up) - (c + 1) + 1) = Len(up)
    BY <1>2
  <2>2. up' = SubSeq(up, c + 1, Len(up))
    <3>1. (IF w = up[k] THEN k + 1 ELSE k) = c + 1
      BY <1>2
    <3> HIDE DEF c
    <3> QED
      BY <1>1, <3>1
  <2> HIDE DEF c
  <2> DEFINE a == c + 1
             v == SubSeq(up, a, Len(up))
  <2>3. /\ v \in Seq(Word) /\ IsSlice(v, up, a - 1) /\ Len(v) = Len(up) - a + 1
    <3> HIDE DEF a
    <3> QED
      BY <1>2, <2>1, SubSeqIsSlice DEF a
  <2>4. v \in Seq(Word) /\ IsSlice(v, up, c) /\ c + Len(v) = Len(up)
    BY <2>1, <2>3
  <2>5. up' = v
    BY <2>2
  <2> HIDE DEF v
  <2>6. HeadsFirst(v) /\ Short(v) /\ Ended(v)
    BY <1>2, <2>4, SliceProps
  <2> QED
    BY <2>4, <2>5, <2>6
<1>5a. conn \notin {"none", "closed"}
  BY DEF receive_tcp_message, StreamsOK
<1>6. StreamsOK'
  BY <1>4, <1>5, <1>5a DEF StreamsOK, receive_tcp_message
<1>7. ErlOK'
  BY DEF ErlOK, receive_tcp_message, erlVars
<1>8. AgentOK'
  BY DEF AgentOK, receive_tcp_message, agentVars
<1>9. Ends'
  BY DEF Ends, receive_tcp_message, agentVars, erlVars
<1> QED
  BY <1>6, <1>7, <1>8, <1>9

(* The number of a line is in it. *)
LEMMA NumberIs ==
    ASSUME TInv, buf # << >>, Parts("id") = 1
    PROVE  \E i \in 1 .. LineEnd : /\ Number = buf[i].job /\ buf[i].part = "id"
                                  /\ buf[i] \in Word
<1>0. buf \in Seq(Word)
  BY DEF TInv, StreamsOK
<1>1. /\ LineEnd \in 1 .. Len(buf) /\ DOMAIN Line = 1 .. LineEnd
      /\ \A i \in 1 .. LineEnd : Line[i] = buf[i]
  BY <1>0, LineFacts
<1> DEFINE I == {i \in DOMAIN Line : Line[i].part = "id"}
<1>2. I # {}
  <2>1. Cardinality(I) = 1 /\ Cardinality({}) = 0
    BY FS_EmptySet DEF Parts
  <2>2. ASSUME I = {} PROVE FALSE
    <3>1. Cardinality(I) = Cardinality({})
      BY <2>2, Zenon
    <3> HIDE DEF I
    <3> QED
      BY <2>1, <3>1
  <2> QED
    BY <2>2
<1> DEFINE n == CHOOSE i \in DOMAIN Line : Line[i].part = "id"
<1>3. n \in DOMAIN Line /\ Line[n].part = "id"
  BY <1>2
<1>4. Number = Line[n].job
  BY DEF Number
<1> HIDE DEF n
<1>5. n \in 1 .. LineEnd /\ n \in 1 .. Len(buf)
  BY <1>0, <1>1, <1>3
<1>6. Line[n] = buf[n] /\ buf[n] \in Word
  BY <1>0, <1>1, <1>5
<1> QED
  BY <1>3, <1>4, <1>5, <1>6

LEMMA NumberIsJob ==
    ASSUME TInv, buf # << >>, Parts("id") = 1
    PROVE  Number \in JobId
<1>1. PICK i \in 1 .. LineEnd : /\ Number = buf[i].job /\ buf[i].part = "id"
                               /\ buf[i] \in Word
  BY NumberIs
<1>2. buf[i].cmd # "GET_NODES"
  BY <1>1, WordFields
<1> QED
  BY <1>1, <1>2, PieceOf

(* What a line does to the jobs of the agent. *)
LineRecords(n) ==
    /\ Is("JOB_REQUEST") /\ Parts("id") = 1
    /\ n \in 0 .. MaxSize
    /\ Number \in JobId
    /\ owned' = With(owned, [j \in {Number} |->
                                [asked |-> n, granted |-> FALSE]])
    /\ UNCHANGED down

LineReleases ==
    /\ Is("JOB_RELEASE") /\ Parts("id") = 1
    /\ Number \in JobId
    /\ owned' = Without(owned, Released(Number))
    /\ UNCHANGED down

LineAsksNodes ==
    /\ Is("GET_NODES")
    /\ \E some \in BOOLEAN :
          down' = IF conn = "open" THEN Append(down, [tag |-> "NODES", some |-> some])
                  ELSE down
    /\ UNCHANGED owned

LineIsIgnored ==
    /\ Line[1].part # "head" \/ (~Is("GET_NODES") /\ Parts("id") = 0)
    /\ UNCHANGED <<owned, down>>

LEMMA LineCases ==
    ASSUME TInv, handle_line
    PROVE  \/ \E n \in 0 .. MaxSize : LineRecords(n)
           \/ LineReleases
           \/ LineAsksNodes
           \/ LineIsIgnored
<1>0. buf \in Seq(Word) /\ buf # << >> /\ Short(buf)
  BY DEF TInv, StreamsOK, handle_line
<1>2. ASSUME Parts("id") = 1 PROVE Number \in JobId
  BY <1>0, <1>2, NumberIsJob
<1>3. CASE Is("JOB_REQUEST") /\ Parts("id") = 1 /\ UNCHANGED down
           /\ \E n \in Parsed :
                owned' = With(owned, [j \in {Number} |->
                                         [asked |-> n, granted |-> FALSE]])
  <2>1. PICK n \in Parsed :
                owned' = With(owned, [j \in {Number} |->
                                         [asked |-> n, granted |-> FALSE]])
    BY <1>3
  <2>2. Parts("resource") \in 0 .. MaxSize /\ MaxSize \in Nat
    BY <1>0, <1>3, ResourcesBounded, SchedulerAssumption DEF Is
  <2>3. n \in 0 .. MaxSize
    BY <2>2 DEF Parsed
  <2>4. Number \in JobId
    BY <1>2, <1>3
  <2> QED
    BY <1>3, <2>1, <2>3, <2>4 DEF LineRecords
<1>4. CASE Is("JOB_RELEASE") /\ Parts("id") = 1 /\ UNCHANGED down
           /\ owned' = Without(owned, Released(Number))
  BY <1>2, <1>4 DEF LineReleases
<1> QED
  BY <1>3, <1>4 DEF handle_line, LineAsksNodes, LineIsIgnored

LEMMA THandleLine ==
    ASSUME TInv, handle_line
    PROVE  TInv'
<1> USE DEF TInv
<1>0. /\ buf \in Seq(Word) /\ buf # << >> /\ HeadsFirst(buf) /\ Short(buf)
      /\ conn \in {"open", "eof"}
      /\ buf' = SubSeq(buf, LineEnd + 1, Len(buf))
      /\ UNCHANGED <<erlVars, conn, up, agent, outbox>>
  BY DEF StreamsOK, handle_line
<1>1. buf' \in Seq(Word) /\ IsSlice(buf', buf, LineEnd)
  BY <1>0, RestFacts
<1>2. HeadsFirst(buf') /\ Short(buf')
  BY <1>0, <1>1, SliceProps
<1>3. down' \in Seq(DownLine)
  <2>1. CASE LineAsksNodes
    <3>1. PICK some \in BOOLEAN :
             down' = IF conn = "open" THEN Append(down, [tag |-> "NODES", some |-> some])
                     ELSE down
      BY <2>1 DEF LineAsksNodes
    <3> DEFINE x == [tag |-> "NODES", some |-> some]
    <3>2. x \in DownLine
      BY MailFacts
    <3> HIDE DEF x
    <3>3. down' = Append(down, x) \/ down' = down
      BY <3>1 DEF x
    <3> QED
      BY <3>2, <3>3, AppendProperties DEF StreamsOK
  <2>2. CASE UNCHANGED down
    BY <2>2 DEF StreamsOK
  <2> QED
    BY <2>1, <2>2, LineCases DEF LineRecords, LineReleases, LineIsIgnored
<1>4. StreamsOK'
  BY <1>0, <1>1, <1>2, <1>3 DEF StreamsOK
<1>5. ErlOK'
  BY <1>0 DEF ErlOK, erlVars
<1>6. AgentOK'
  <2>1. ASSUME NEW n \in 0 .. MaxSize, LineRecords(n)
        PROVE  AgentOK'
    <3> DEFINE y == Number
               r == [asked |-> n, granted |-> FALSE]
               g == [j \in {y} |-> r]
    <3>1. owned' = With(owned, g) /\ y \in JobId
      BY <2>1 DEF LineRecords
    <3>2. DOMAIN g = {y} /\ g[y] = r
      OBVIOUS
    <3>3. HoldOK(r)
      BY DEF HoldOK
    <3> HIDE DEF y, r, g
    <3>4. DOMAIN owned' = DOMAIN owned \cup {y}
      BY <3>1, <3>2, WithFacts
    <3>5. ASSUME NEW k \in DOMAIN owned' PROVE HoldOK(owned'[k])
      <4>1. k = y \/ (k \in DOMAIN owned /\ k # y)
        BY <3>4
      <4>2. CASE k = y
        <5>1. y \in DOMAIN g
          BY <3>2
        <5>2. With(owned, g)[y] = g[y]
          BY <5>1 DEF With
        <5> QED
          BY <3>1, <3>2, <3>3, <4>2, <5>2
      <4>3. CASE k \in DOMAIN owned /\ k # y
        BY <3>1, <3>2, <4>3, WithFacts DEF AgentOK
      <4> QED
        BY <4>1, <4>2, <4>3
    <3> QED
      BY <1>0, <3>1, <3>4, <3>5 DEF AgentOK
  <2>2. CASE LineReleases
    <3> DEFINE X == Released(Number)
    <3>1. owned' = Without(owned, X)
      BY <2>2 DEF LineReleases
    <3> HIDE DEF X
    <3>2. DOMAIN owned' = DOMAIN owned \ X
      BY <3>1, WithoutFacts
    <3>3. ASSUME NEW k \in DOMAIN owned' PROVE HoldOK(owned'[k])
      BY <3>1, <3>2, WithoutFacts DEF AgentOK
    <3> QED
      BY <1>0, <3>2, <3>3 DEF AgentOK
  <2>3. CASE UNCHANGED owned
    BY <1>0, <2>3 DEF AgentOK
  <2> QED
    BY <2>1, <2>2, <2>3, LineCases DEF LineAsksNodes, LineIsIgnored
<1>7. Ends'
  <2>1. conn # "open" => down' = down
    BY <1>0, LineCases DEF LineRecords, LineReleases, LineIsIgnored, LineAsksNodes
  <2> QED
    BY <1>0, <2>1 DEF Ends, erlVars
<1> QED
  BY <1>4, <1>5, <1>6, <1>7

(* A handler answers: it grants the job, or forgets it. *)
Grants1(j) ==
    /\ owned[j].asked > 0 /\ ~owned[j].granted
    /\ owned' = [owned EXCEPT ![j].granted = TRUE]
    /\ outbox' = outbox \cup {Answer(j, "JOB_GRANTED")}

Drops1(j, tag) ==
    /\ tag = "JOB_DENIED" \/ (tag = "JOB_TIMEOUT" /\ ~owned[j].granted)
    /\ owned' = Without(owned, {j})
    /\ outbox' = outbox \cup {Answer(j, tag)}

LEMMA AnswerCases ==
    ASSUME NEW j \in JobId, answer(j)
    PROVE  /\ j \in DOMAIN owned
           /\ Grants1(j) \/ Drops1(j, "JOB_DENIED") \/ Drops1(j, "JOB_TIMEOUT")
           /\ UNCHANGED <<erlVars, conn, up, buf, down, agent>>
<1>1. CASE /\ owned[j].asked > 0 /\ ~owned[j].granted
           /\ owned' = [owned EXCEPT ![j].granted = TRUE]
           /\ outbox' = outbox \cup {Answer(j, "JOB_GRANTED")}
  BY <1>1 DEF answer, Grants1
<1>2. CASE /\ ~owned[j].granted
           /\ owned' = Without(owned, {j})
           /\ outbox' = outbox \cup {Answer(j, "JOB_TIMEOUT")}
  BY <1>2 DEF answer, Drops1
<1>3. CASE /\ owned[j].asked > 0
           /\ owned' = Without(owned, {j})
           /\ outbox' = outbox \cup {Answer(j, "JOB_DENIED")}
  BY <1>3 DEF answer, Drops1
<1> QED
  BY <1>1, <1>2, <1>3 DEF answer

LEMMA AnswerIsMail ==
    ASSUME NEW j \in JobId, NEW tag \in Answers
    PROVE  Answer(j, tag) \in [tag : Answers, job : JobId]
BY DEF Answer

LEMMA GrantedHold ==
    ASSUME NEW g, HoldOK(g)
    PROVE  /\ HoldOK([g EXCEPT !.granted = TRUE])
           /\ [g EXCEPT !.granted = TRUE].granted = TRUE
BY DEF HoldOK

(* A grant changes nothing else of the table. *)
LEMMA GrantFacts ==
    ASSUME TInv, NEW j \in DOMAIN owned, owned' = [owned EXCEPT ![j].granted = TRUE]
    PROVE  /\ DOMAIN owned' = DOMAIN owned
           /\ \A k \in DOMAIN owned : HoldOK(owned'[k])
           /\ \A k \in DOMAIN owned : k # j => owned'[k] = owned[k]
           /\ owned'[j].granted = TRUE
<1>1. DOMAIN owned' = DOMAIN owned
  OBVIOUS
<1>2. \A k \in DOMAIN owned : k # j => owned'[k] = owned[k]
  OBVIOUS
<1>3. owned'[j] = [owned[j] EXCEPT !.granted = TRUE]
  OBVIOUS
<1>4. HoldOK(owned[j])
  BY DEF TInv, AgentOK
<1>6. HoldOK(owned'[j]) /\ owned'[j].granted = TRUE
  BY <1>3, <1>4, GrantedHold
<1>7. ASSUME NEW k \in DOMAIN owned PROVE HoldOK(owned'[k])
  <2>1. CASE k = j
    BY <1>6, <2>1
  <2>2. CASE k # j
    BY <1>2, <2>2 DEF TInv, AgentOK
  <2> QED
    BY <2>1, <2>2
<1> QED
  BY <1>1, <1>2, <1>6, <1>7

LEMMA TAnswer ==
    ASSUME TInv, NEW j \in JobId, answer(j)
    PROVE  TInv'
<1> USE DEF TInv
<1>0. j \in DOMAIN owned /\ UNCHANGED <<erlVars, conn, up, buf, down, agent>>
  BY AnswerCases
<1>1. ErlOK'
  BY <1>0 DEF ErlOK, erlVars
<1>2. StreamsOK'
  BY <1>0 DEF StreamsOK
<1>3. AgentOK'
  <2>1. CASE Grants1(j)
    <3>1. outbox' \subseteq [tag : Answers, job : JobId]
      BY <2>1, AnswerIsMail DEF Grants1, AgentOK, Answers
    <3>2. DOMAIN owned' = DOMAIN owned /\ \A k \in DOMAIN owned : HoldOK(owned'[k])
      BY <1>0, <2>1, GrantFacts DEF Grants1
    <3> QED
      BY <3>1, <3>2 DEF AgentOK
  <2>2. ASSUME NEW tag \in Answers, Drops1(j, tag)
        PROVE  AgentOK'
    <3>1. outbox' \subseteq [tag : Answers, job : JobId]
      BY <2>2, AnswerIsMail DEF Drops1, AgentOK
    <3>2. owned' = Without(owned, {j})
      BY <2>2 DEF Drops1
    <3>3. DOMAIN owned' = DOMAIN owned \ {j}
      BY <3>2, WithoutFacts
    <3>4. ASSUME NEW k \in DOMAIN owned' PROVE HoldOK(owned'[k])
      BY <3>2, <3>3, WithoutFacts DEF AgentOK
    <3> QED
      BY <3>1, <3>3, <3>4 DEF AgentOK
  <2> QED
    BY <2>1, <2>2, AnswerCases DEF Answers
<1>4. Ends'
  BY <1>0 DEF Ends, erlVars
<1> QED
  BY <1>1, <1>2, <1>3, <1>4

LEMMA TSendAnswer ==
    ASSUME TInv, NEW a \in [tag : Answers, job : JobId], send_answer(a)
    PROVE  TInv'
<1> USE DEF TInv
<1>0. UNCHANGED <<erlVars, conn, up, buf, agent, owned>> /\ a \in outbox
      /\ outbox' = outbox \ {a}
  BY DEF send_answer
<1>1. ErlOK'
  BY <1>0 DEF ErlOK, erlVars
<1>2. StreamsOK'
  <2>1. a \in DownLine
    BY MailFacts
  <2>2. down' = Append(down, a) \/ down' = down
    BY DEF send_answer
  <2>3. down' \in Seq(DownLine)
    <3>0. down \in Seq(DownLine)
      BY DEF StreamsOK
    <3>1. Append(down, a) \in Seq(DownLine)
      BY <2>1, <3>0, AppendIsJoin
    <3> QED
      BY <2>2, <3>0, <3>1
  <2> QED
    BY <1>0, <2>3 DEF StreamsOK
<1>3. AgentOK'
  BY <1>0 DEF AgentOK
<1>4. Ends'
  BY <1>0 DEF Ends, erlVars, send_answer
<1> QED
  BY <1>1, <1>2, <1>3, <1>4

LEMMA TAgent ==
    ASSUME TInv, client_disconnected \/ agent_dies \/ agent_starts
    PROVE  TInv'
<1> USE DEF TInv
<1>0. DOMAIN << >> = {}
  OBVIOUS
<1>1. ErlOK'
  BY DEF ErlOK, erlVars, client_disconnected, agent_dies, agent_starts
<1>2. StreamsOK'
  BY EmptyText DEF StreamsOK, client_disconnected, agent_dies, agent_starts
<1>3. AgentOK'
  BY <1>0 DEF AgentOK, client_disconnected, agent_dies, agent_starts
<1>4. Ends'
  <2>1. CASE client_disconnected
    BY <1>0, <2>1 DEF Ends, erlVars, client_disconnected
  <2>2. CASE agent_dies
    BY <1>0, <2>2 DEF Ends, erlVars, agent_dies, StreamsOK
  <2>3. CASE agent_starts
    BY <2>3 DEF Ends, erlVars, agent_starts
  <2> QED
    BY <2>1, <2>2, <2>3
<1> QED
  BY <1>1, <1>2, <1>3, <1>4

LEMMA TNext == TInv /\ [Next]_vars => TInv'
<1> SUFFICES ASSUME TInv, [Next]_vars PROVE TInv'
  OBVIOUS
<1>1. ASSUME start \/ connect PROVE TInv'
  BY <1>1, TStarts
<1>2. ASSUME crash PROVE TInv'
  <2>1. conn \in {"open", "closed"} /\ Stopped
    BY <1>2 DEF crash, TInv, Ends
  <2> QED
    BY <2>1, TStopped
<1>3. ASSUME receive_error PROVE TInv'
  <2>1. conn \in {"open", "closed"} /\ Stopped
    BY <1>3, ReceivingIsUp DEF receive_error, Received
  <2> QED
    BY <2>1, TStopped
<1>4. ASSUME NEW j \in JobId, simulate_load(j) \/ answer(j) PROVE TInv'
  BY <1>4, TSimulateLoad, TAnswer
<1>5. ASSUME NEW a \in [tag : Answers, job : JobId], send_answer(a) PROVE TInv'
  BY <1>5, TSendAnswer
<1>6. ASSUME UNCHANGED vars PROVE TInv'
  BY <1>6 DEF vars, erlVars, agentVars, TInv, ErlOK, StreamsOK, AgentOK, Ends
<1> QED
  BY <1>1, <1>2, <1>3, <1>4, <1>5, <1>6, TRequestNodes, TSender, TReceiver,
     TReceivePids, TReceiveNodes, TReceiveGranted, TReceiveRemoval, TReceiveTcp,
     THandleLine, TAgent DEF Next, Receive

LEMMA TypeHolds == Spec => []TInv
BY TInit, TNext, PTL DEF Spec

(* The attempts to connect stay within TRIES, no job is ever pending, and  *)
(* a request the agent takes, wherever a read cuts its text, inside its    *)
(* number too, and whatever strtok loses, asks for no more resources than  *)
(* a job may have.                                                         *)
THEOREM TypeCorrect == Spec => []TypeOK
<1>1. TInv => TypeOK
  <2> SUFFICES ASSUME TInv PROVE TypeOK
    OBVIOUS
  <2>1. Range(jobs) \subseteq {"dispatched", "granted"}
    BY DEF TInv, ErlOK, Range
  <2>2. \A j \in DOMAIN owned : owned[j].asked \in 0 .. MaxSize
    BY DEF TInv, AgentOK, HoldOK
  <2> QED
    BY <2>1, <2>2 DEF TypeOK, TInv, ErlOK, StreamsOK, AgentOK
<1> QED
  BY <1>1, TypeHolds, PTL

----------------------------------------------------------------------------
(* The steps of an identifier's life. *)

(* Messages that are gone do no harm, but a denial must arrive. *)
LEMMA LifeShrinks ==
    ASSUME NEW J, NEW D, NEW L, NEW Q, NEW R, NEW F, NEW N, NEW P, NEW G, NEW X,
           NEW Y, Life(J, D, L, Q, R, F, N, P, G, X, Y),
           NEW Q1 \in SUBSET Q, NEW R1 \in SUBSET R, NEW F1 \in SUBSET F,
           NEW G1 \in SUBSET G, NEW Y1 \in SUBSET Y
    PROVE  Life(J, D, L, Q1, R1, F1, N, P, G1, X, Y1)
BY DEF Life

(* New identifiers are dispatched. *)
LEMMA LifeNodes ==
    ASSUME NEW J, NEW D, NEW L, NEW Q, NEW R, NEW F, NEW N, NEW P, NEW G, NEW X,
           NEW Y, Life(J, D, L, Q, R, F, N, P, G, X, Y),
           NEW Z, Z \cap (J \cup L \cup Q \cup R \cup F \cup N \cup G \cup X \cup Y) = {}
    PROVE  Life(J \cup Z, D \cup Z, L, Q \cup Z, R, F, N, P, G, X, Y)
BY DEF Life

(* A grant is received. *)
LEMMA LifeGranted ==
    ASSUME NEW J, NEW D, NEW L, NEW Q, NEW R, NEW F, NEW N, NEW P, NEW G, NEW X,
           NEW Y, Life(J, D, L, Q, R, F, N, P, G, X, Y),
           NEW j \in G, NEW G1 \in SUBSET (G \ {j})
    PROVE  Life(J, D \ {j}, L \cup ({j} \cap D), Q, R, F, N, P, G1, X, Y)
BY DEF Life

(* A job is forgotten. *)
LEMMA LifeRemoval ==
    ASSUME NEW J, NEW D, NEW L, NEW Q, NEW R, NEW F, NEW N, NEW P, NEW G, NEW X,
           NEW Y, Life(J, D, L, Q, R, F, N, P, G, X, Y),
           NEW j \in X \cup Y \cup F, NEW X1 \in SUBSET X, X \ {j} \subseteq X1
    PROVE  Life(J \ {j}, D \ {j}, L, Q, R, F, N, P, G, X1, Y)
BY DEF Life

(* A load ends. *)
LEMMA LifeWakes ==
    ASSUME NEW J, NEW D, NEW L, NEW Q, NEW R, NEW F, NEW N, NEW P, NEW G, NEW X,
           NEW Y, Life(J, D, L, Q, R, F, N, P, G, X, Y),
           NEW j \in L
    PROVE  Life(J, D, L \ {j}, Q, R \cup {j}, F \cup {j}, N, P, G, X, Y)
BY DEF Life

(* The agent takes a request. *)
LEMMA LifeRecords ==
    ASSUME NEW J, NEW D, NEW L, NEW Q, NEW R, NEW F, NEW N, NEW P, NEW G, NEW X,
           NEW Y, Life(J, D, L, Q, R, F, N, P, G, X, Y),
           NEW j \in Q, NEW Q1 \in SUBSET (Q \ {j})
    PROVE  Life(J, D, L, Q1, R, F, N \cup {j}, P, G, X, Y)
BY DEF Life

(* The agent takes a release. *)
LEMMA LifeReleases ==
    ASSUME NEW J, NEW D, NEW L, NEW Q, NEW R, NEW F, NEW N, NEW P, NEW G, NEW X,
           NEW Y, Life(J, D, L, Q, R, F, N, P, G, X, Y),
           NEW j \in R
    PROVE  Life(J, D, L, Q, R, F, N \ {j}, P \ {j}, G, X, Y)
BY DEF Life

(* The agent grants a job. *)
LEMMA LifeGrants ==
    ASSUME NEW J, NEW D, NEW L, NEW Q, NEW R, NEW F, NEW N, NEW P, NEW G, NEW X,
           NEW Y, Life(J, D, L, Q, R, F, N, P, G, X, Y),
           NEW j \in N \ P
    PROVE  Life(J, D, L, Q, R, F, N, P \cup {j}, G \cup {j}, X, Y)
BY DEF Life

(* It denies one. *)
LEMMA LifeDenies ==
    ASSUME NEW J, NEW D, NEW L, NEW Q, NEW R, NEW F, NEW N, NEW P, NEW G, NEW X,
           NEW Y, Life(J, D, L, Q, R, F, N, P, G, X, Y),
           NEW j \in N
    PROVE  Life(J, D, L, Q, R, F, N \ {j}, P \ {j}, G, X \cup {j}, Y)
BY DEF Life

(* It lets one time out. *)
LEMMA LifeTimesOut ==
    ASSUME NEW J, NEW D, NEW L, NEW Q, NEW R, NEW F, NEW N, NEW P, NEW G, NEW X,
           NEW Y, Life(J, D, L, Q, R, F, N, P, G, X, Y),
           NEW j \in N \ P
    PROVE  Life(J, D, L, Q, R, F, N \ {j}, P \ {j}, G, X, Y \cup {j})
BY DEF Life

----------------------------------------------------------------------------
(* The messages in flight, as sets. *)

LEMMA HeadTailRange ==
    ASSUME NEW S, NEW s \in Seq(S), s # << >>
    PROVE  Range(s) = {Head(s)} \cup Range(Tail(s))
<1>1. /\ Tail(s) \in Seq(S) /\ IsSlice(Tail(s), s, 1)
      /\ Head(s) = s[1] /\ 1 \in DOMAIN s /\ 1 + Len(Tail(s)) = Len(s)
  BY TailIsSlice
<1>2. Range(Tail(s)) \subseteq Range(s)
  BY <1>1, SliceProps
<1>3. Head(s) \in Range(s)
  BY <1>1 DEF Range
<1>4. ASSUME NEW i \in DOMAIN s PROVE s[i] \in {Head(s)} \cup Range(Tail(s))
  <2>1. CASE i = 1
    BY <1>1, <2>1
  <2>2. CASE i # 1
    <3>1. i - 1 \in DOMAIN Tail(s) /\ 1 + (i - 1) = i
      BY <1>1, <2>2
    <3>2. Tail(s)[i - 1] = s[i]
      BY <1>1, <3>1 DEF IsSlice
    <3> QED
      BY <3>1, <3>2 DEF Range
  <2> QED
    BY <2>1, <2>2
<1> QED
  BY <1>2, <1>3, <1>4 DEF Range

LEMMA AppendRange ==
    ASSUME NEW S, NEW s \in Seq(S), NEW x \in S
    PROVE  /\ Range(Append(s, x)) = Range(s) \cup {x}
           /\ \A M : Once(s, M) /\ (x \in M => x \notin Range(s)) => Once(Append(s, x), M)
<1>1. /\ Append(s, x) \in Seq(S) /\ IsJoin(Append(s, x), s, <<x>>)
      /\ <<x>> \in Seq(S) /\ Range(<<x>>) = {x}
  BY AppendIsJoin
<1>2. Range(Append(s, x)) = Range(s) \cup {x}
  <2> DEFINE r == Append(s, x)
             t == <<x>>
  <2>1. r \in Seq(S) /\ t \in Seq(S) /\ IsJoin(r, s, t) /\ Range(t) = {x}
    BY <1>1
  <2> HIDE DEF r, t
  <2>2. Range(r) = Range(s) \cup Range(t)
    BY <2>1, JoinProps
  <2> QED
    BY <2>1, <2>2 DEF r
<1>3. ASSUME NEW M, Once(s, M), x \in M => x \notin Range(s)
      PROVE  Once(Append(s, x), M)
  <2>1. Once(<<x>>, M)
    BY DEF Once
  <2>2. Range(s) \cap Range(<<x>>) \cap M = {}
    BY <1>1, <1>3
  <2> QED
    BY <1>1, <1>3, <2>1, <2>2, JoinProps
<1> QED
  BY <1>2, <1>3

LEMMA TailOnce ==
    ASSUME NEW S, NEW s \in Seq(S), s # << >>, NEW M, Once(s, M)
    PROVE  Once(Tail(s), M)
BY TailIsSlice, SliceProps

(* Answers: of the agent, on the connection, in the mailbox. *)
LEMMA AnswerArrives ==
    ASSUME NEW x, NEW d \in Seq(DownLine), NEW m \in Seq(Mail), d # << >>
    PROVE  /\ \A tag : ToldOf(x, Tail(d), Append(m, Head(d)), tag) = ToldOf(x, d, m, tag)
           /\ GrantedOnce(x, d, m) => GrantedOnce(x, Tail(d), Append(m, Head(d)))
<1>0. Head(d) \in DownLine /\ Head(d) \in Mail
  BY TailIsSlice, MailFacts
<1>1. Range(d) = {Head(d)} \cup Range(Tail(d))
  BY HeadTailRange
<1>2. Range(Append(m, Head(d))) = Range(m) \cup {Head(d)}
  BY <1>0, AppendRange
<1>3. \A tag : ToldOf(x, Tail(d), Append(m, Head(d)), tag) = ToldOf(x, d, m, tag)
  BY <1>1, <1>2 DEF ToldOf
<1>4. ASSUME GrantedOnce(x, d, m)
      PROVE  GrantedOnce(x, Tail(d), Append(m, Head(d)))
  <2>1. Once(Tail(d), Grants)
    BY <1>4, TailOnce DEF GrantedOnce
  <2>2. Head(d) \in Grants => Head(d) \notin Range(Tail(d)) /\ Head(d) \notin Range(m)
    <3>1. Head(d) \in Grants => Head(d) \notin Range(Tail(d))
      BY <1>4, TailLoses DEF GrantedOnce
    <3> QED
      BY <1>1, <1>4, <3>1 DEF GrantedOnce
  <2>3. Once(Append(m, Head(d)), Grants)
    BY <1>0, <1>4, <2>2, AppendRange DEF GrantedOnce
  <2> QED
    BY <1>1, <1>2, <1>4, <2>1, <2>2, <2>3 DEF GrantedOnce
<1> QED
  BY <1>3, <1>4

LEMMA AnswerSent ==
    ASSUME NEW x, NEW d \in Seq(DownLine), NEW m, NEW a \in x, a \in DownLine
    PROVE  /\ \A tag : ToldOf(x \ {a}, Append(d, a), m, tag) = ToldOf(x, d, m, tag)
           /\ GrantedOnce(x, d, m) => GrantedOnce(x \ {a}, Append(d, a), m)
<1>1. Range(Append(d, a)) = Range(d) \cup {a}
  BY AppendRange
<1>2. \A tag : ToldOf(x \ {a}, Append(d, a), m, tag) = ToldOf(x, d, m, tag)
  BY <1>1 DEF ToldOf
<1>3. ASSUME GrantedOnce(x, d, m)
      PROVE  GrantedOnce(x \ {a}, Append(d, a), m)
  <2>1. a \in Grants => a \notin Range(d) /\ a \notin Range(m)
    BY <1>3 DEF GrantedOnce
  <2>2. Once(Append(d, a), Grants)
    BY <1>3, <2>1, AppendRange DEF GrantedOnce
  <2> QED
    BY <1>1, <1>3, <2>1, <2>2 DEF GrantedOnce
<1> QED
  BY <1>2, <1>3

LEMMA MailTaken ==
    ASSUME NEW x, NEW d, NEW m \in Seq(Mail), m # << >>
    PROVE  /\ \A tag : ToldOf(x, d, Tail(m), tag) \subseteq ToldOf(x, d, m, tag)
           /\ \A tag : \A j \in ToldOf(x, d, m, tag) :
                 Head(m) # Answer(j, tag) => j \in ToldOf(x, d, Tail(m), tag)
           /\ FinishedIn(Tail(m)) \subseteq FinishedIn(m)
           /\ \A j \in FinishedIn(m) : Head(m) # Finish(j) => j \in FinishedIn(Tail(m))
           /\ GrantedOnce(x, d, m) => GrantedOnce(x, d, Tail(m))
<1>1. Range(m) = {Head(m)} \cup Range(Tail(m))
  BY HeadTailRange
<1>2. GrantedOnce(x, d, m) => GrantedOnce(x, d, Tail(m))
  BY <1>1, TailOnce DEF GrantedOnce
<1> QED
  BY <1>1, <1>2 DEF ToldOf, FinishedIn

(* What is not an answer goes by unnoticed. *)
LEMMA OtherMail ==
    ASSUME NEW x, NEW d, NEW m \in Seq(Mail), NEW y \in Mail, y.tag \notin Answers
    PROVE  /\ \A tag \in Answers : ToldOf(x, d, Append(m, y), tag) = ToldOf(x, d, m, tag)
           /\ GrantedOnce(x, d, m) => GrantedOnce(x, d, Append(m, y))
           /\ FinishedIn(Append(m, y)) =
                 FinishedIn(m) \cup {j \in JobId : y = Finish(j)}
<1>1. Range(Append(m, y)) = Range(m) \cup {y}
  BY AppendRange
<1>2. \A j : \A tag \in Answers : y # Answer(j, tag)
  BY DEF Answer
<1>3. y \notin Grants
  BY <1>2 DEF Grants, Grant, Answers
<1>4. GrantedOnce(x, d, m) => GrantedOnce(x, d, Append(m, y))
  BY <1>1, <1>3, AppendRange DEF GrantedOnce
<1> QED
  BY <1>1, <1>2, <1>4 DEF ToldOf, FinishedIn

LEMMA OtherLine ==
    ASSUME NEW x, NEW d \in Seq(DownLine), NEW m, NEW y \in DownLine, y.tag \notin Answers
    PROVE  /\ \A tag \in Answers : ToldOf(x, Append(d, y), m, tag) = ToldOf(x, d, m, tag)
           /\ GrantedOnce(x, d, m) => GrantedOnce(x, Append(d, y), m)
<1>1. Range(Append(d, y)) = Range(d) \cup {y}
  BY AppendRange
<1>2. \A j : \A tag \in Answers : y # Answer(j, tag)
  BY DEF Answer
<1>3. y \notin Grants
  BY <1>2 DEF Grants, Grant, Answers
<1>4. GrantedOnce(x, d, m) => GrantedOnce(x, Append(d, y), m)
  BY <1>1, <1>3, AppendRange DEF GrantedOnce
<1> QED
  BY <1>1, <1>2, <1>4 DEF ToldOf

(* A new answer of the agent. *)
LEMMA AnswerMade ==
    ASSUME NEW x, NEW d, NEW m, NEW j \in JobId, NEW tag \in Answers
    PROVE  /\ ToldOf(x \cup {Answer(j, tag)}, d, m, tag) = ToldOf(x, d, m, tag) \cup {j}
           /\ \A t : t # tag => ToldOf(x \cup {Answer(j, tag)}, d, m, t) = ToldOf(x, d, m, t)
           /\ /\ GrantedOnce(x, d, m)
              /\ tag = "JOB_GRANTED" => j \notin ToldOf(x, d, m, tag)
              => GrantedOnce(x \cup {Answer(j, tag)}, d, m)
<1> DEFINE y == Answer(j, tag)
<1>1. \A i, t : y = Answer(i, t) <=> i = j /\ t = tag
  BY DEF Answer
<1>2. y \in Grants => tag = "JOB_GRANTED"
  BY <1>1 DEF Grants, Grant
<1> HIDE DEF y
<1>3. ToldOf(x \cup {y}, d, m, tag) = ToldOf(x, d, m, tag) \cup {j}
  BY <1>1 DEF ToldOf
<1>4. \A t : t # tag => ToldOf(x \cup {y}, d, m, t) = ToldOf(x, d, m, t)
  BY <1>1 DEF ToldOf
<1>5. ASSUME GrantedOnce(x, d, m), tag = "JOB_GRANTED" => j \notin ToldOf(x, d, m, tag)
      PROVE  GrantedOnce(x \cup {y}, d, m)
  <2>1. y \in Grants => y \notin Range(d) /\ y \notin Range(m)
    BY <1>1, <1>2, <1>5 DEF ToldOf
  <2> QED
    BY <1>5, <2>1 DEF GrantedOnce
<1> QED
  BY <1>3, <1>4, <1>5 DEF y

(* Requests and releases: with the sender, on the connection, in the buffer. *)
LEMMA PieceIsOne ==
    ASSUME NEW i, NEW j
    PROVE  /\ ReqHead(i) = ReqHead(j) <=> i = j
           /\ RelHead(i) = RelHead(j) <=> i = j
           /\ ReqHead(i) # RelHead(j)
           /\ [kind |-> "release", job |-> i] = [kind |-> "release", job |-> j] <=> i = j
<1>1. \A k : /\ ReqHead(k).cmd = "JOB_REQUEST" /\ RelHead(k).cmd = "JOB_RELEASE"
             /\ ReqHead(k).job = k /\ RelHead(k).job = k
  BY PieceFields DEF ReqHead, RelHead
<1>2. \A k : [kind |-> "release", job |-> k].job = k
  OBVIOUS
<1>3. ReqHead(i) # RelHead(j)
  BY <1>1
<1>4. ReqHead(i) = ReqHead(j) <=> i = j
  BY <1>1
<1>5. RelHead(i) = RelHead(j) <=> i = j
  BY <1>1
<1> QED
  BY <1>2, <1>3, <1>4, <1>5

(* The sender takes a directive. *)
LEMMA DirectedTail ==
    ASSUME NEW o \in Seq(DirectiveSet), o # << >>
    PROVE  /\ Directed(Tail(o)) \subseteq Directed(o)
           /\ DirectedOnce(o) => DirectedOnce(Tail(o))
           /\ Head(o).kind = "request" => Head(o).job \in Directed(o)
           /\ DirectedOnce(o) /\ Head(o).kind = "request" =>
                 Head(o).job \notin Directed(Tail(o))
<1>1. /\ Tail(o) \in Seq(DirectiveSet) /\ IsSlice(Tail(o), o, 1)
      /\ Head(o) = o[1] /\ 1 \in DOMAIN o /\ Head(o) \in DirectiveSet
  BY TailIsSlice
<1>2. \A i \in DOMAIN Tail(o) : 1 + i \in DOMAIN o /\ Tail(o)[i] = o[1 + i] /\ 1 + i # 1
  BY <1>1 DEF IsSlice
<1> DEFINE t == Tail(o)
<1> HIDE DEF t
<1>3. Directed(t) \subseteq Directed(o)
  BY <1>2 DEF Directed, t
<1>4. ASSUME DirectedOnce(o) PROVE DirectedOnce(t)
  <2> SUFFICES ASSUME NEW i \in DOMAIN t, NEW k \in DOMAIN t,
                      t[i].kind = "request", t[k].kind = "request", t[i].job = t[k].job
               PROVE  i = k
    BY DEF DirectedOnce
  <2>1. 1 + i = 1 + k
    BY <1>2, <1>4 DEF DirectedOnce, t
  <2>2. i \in Nat /\ k \in Nat
    BY <1>1 DEF t
  <2> QED
    BY <2>1, <2>2
<1>5. ASSUME Head(o).kind = "request" PROVE Head(o).job \in Directed(o)
  BY <1>1, <1>5, DirectiveFields DEF Directed
<1>6. ASSUME DirectedOnce(o), Head(o).kind = "request", Head(o).job \in Directed(t)
      PROVE  FALSE
  <2>1. PICK i \in DOMAIN t : t[i].kind = "request" /\ t[i].job = Head(o).job
    BY <1>6 DEF Directed
  <2>2. 1 + i = 1
    BY <1>1, <1>2, <1>6, <2>1 DEF DirectedOnce, t
  <2> QED
    BY <1>2, <2>2 DEF t
<1> QED
  BY <1>3, <1>4, <1>5, <1>6 DEF t

LEMMA RequestWritten ==
    ASSUME NEW o \in Seq(DirectiveSet), NEW u \in Seq(Word), NEW b, o # << >>,
           NEW v, v = u \o TextOf(Head(o))
    PROVE  /\ Requested(Tail(o), v, b) \subseteq Requested(o, u, b)
           /\ ReleasedIn(Tail(o), v, b) = ReleasedIn(o, u, b)
           /\ RequestedOnce(o, u, b) => RequestedOnce(Tail(o), v, b)
<1> DEFINE d == Head(o)
           t == TextOf(d)
<1>0. d \in DirectiveSet
  BY TailIsSlice
<1>1. /\ t \in Seq(Word) /\ Once(t, ReqHeads)
      /\ \A j \in JobId : ReqHead(j) \in Range(t) => d.kind = "request" /\ d.job = j
      /\ \A j \in JobId : RelHead(j) \in Range(t) <=> d = [kind |-> "release", job |-> j]
  BY <1>0, TextOfShape
<1>2. Range(o) = {d} \cup Range(Tail(o))
  BY HeadTailRange
<1>3. v \in Seq(Word) /\ IsJoin(v, u, t)
  <2> HIDE DEF t
  <2> QED
    BY <1>1, ConcatIsJoin DEF t
<1>4. Range(v) = Range(u) \cup Range(t)
  <2> HIDE DEF t
  <2>1. ASSUME NEW w \in Seq(Word), IsJoin(w, u, t)
        PROVE  Range(w) = Range(u) \cup Range(t)
    BY <1>1, <2>1, JoinProps
  <2> QED
    BY <1>3, <2>1, Zenon
<1> HIDE DEF t, d
<1>5. Texted(v) = Texted(u) \cup Texted(t)
  BY <1>4 DEF Texted
<1>6. \A j \in Texted(t) : d.kind = "request" /\ d.job = j
  BY <1>1 DEF Texted
<1>7. Texted(t) \subseteq Directed(o)
  BY <1>6, DirectedTail DEF d
<1>8. Requested(Tail(o), v, b) \subseteq Requested(o, u, b)
  BY <1>5, <1>7, DirectedTail DEF Requested
<1>9. ReleasedIn(Tail(o), v, b) = ReleasedIn(o, u, b)
  BY <1>1, <1>2, <1>4 DEF ReleasedIn
<1>10. ASSUME RequestedOnce(o, u, b)
       PROVE  RequestedOnce(Tail(o), v, b)
  <2>1. DirectedOnce(Tail(o)) /\ Directed(Tail(o)) \subseteq Directed(o)
    BY <1>10, DirectedTail DEF RequestedOnce
  <2>2. Directed(Tail(o)) \cap Texted(t) = {}
    BY <1>6, <1>10, DirectedTail DEF RequestedOnce, d
  <2>3. Once(v, ReqHeads)
    <3>1. Range(u) \cap Range(t) \cap ReqHeads = {}
      BY <1>7, <1>10 DEF RequestedOnce, Texted, ReqHeads
    <3> QED
      BY <1>1, <1>3, <1>10, <3>1, JoinProps DEF RequestedOnce
  <2> QED
    BY <1>5, <1>7, <1>10, <2>1, <2>2, <2>3 DEF RequestedOnce
<1> QED
  BY <1>8, <1>9, <1>10

(* A directive that asks for nothing. *)
LEMMA OtherDirective ==
    ASSUME NEW o \in Seq(DirectiveSet), NEW u, NEW b,
           NEW y \in DirectiveSet, y.kind # "request"
    PROVE  /\ Requested(Append(o, y), u, b) = Requested(o, u, b)
           /\ RequestedOnce(o, u, b) => RequestedOnce(Append(o, y), u, b)
           /\ ReleasedIn(Append(o, y), u, b) = ReleasedIn(o, u, b) \cup
                 {j \in JobId : y = [kind |-> "release", job |-> j]}
<1> DEFINE r == Append(o, y)
           n == Len(o)
<1>1. Range(r) = Range(o) \cup {y}
  BY AppendRange
<1>2. /\ n \in Nat /\ DOMAIN o = 1 .. n /\ DOMAIN r = 1 .. (n + 1)
      /\ \A i \in 1 .. n : r[i] = o[i]
      /\ r[n + 1] = y
  OBVIOUS
<1> HIDE DEF r, n
<1>3. \A i \in DOMAIN r : r[i].kind = "request" => i \in DOMAIN o /\ r[i] = o[i]
  BY <1>2
<1>4. \A i \in DOMAIN o : i \in DOMAIN r /\ r[i] = o[i]
  BY <1>2
<1>5. Directed(r) = Directed(o)
  BY <1>3, <1>4 DEF Directed
<1>6. DirectedOnce(o) => DirectedOnce(r)
  BY <1>3 DEF DirectedOnce
<1>7. ReleasedIn(r, u, b) = ReleasedIn(o, u, b) \cup
                 {j \in JobId : y = [kind |-> "release", job |-> j]}
  BY <1>1 DEF ReleasedIn
<1> QED
  BY <1>5, <1>6, <1>7 DEF Requested, RequestedOnce, r

(* The directives for the jobs of a NODES message. *)
LEMMA RequestsAdded ==
    ASSUME NEW o \in Seq(DirectiveSet), NEW u, NEW b, NEW q \in Seq(DirectiveSet),
           NEW Z \in SUBSET JobId, AllRequests(q, Z), DirectedOnce(q)
    PROVE  /\ Requested(o \o q, u, b) \subseteq Requested(o, u, b) \cup Z
           /\ RequestedOnce(o, u, b) /\ Z \cap Requested(o, u, b) = {} =>
                 RequestedOnce(o \o q, u, b)
           /\ ReleasedIn(o \o q, u, b) = ReleasedIn(o, u, b)
<1> DEFINE r == o \o q
           n == Len(o)
           h == Len(q)
<1>1. /\ n \in Nat /\ h \in Nat /\ DOMAIN o = 1 .. n /\ DOMAIN q = 1 .. h
      /\ DOMAIN r = 1 .. (n + h)
      /\ \A i \in 1 .. n : r[i] = o[i]
      /\ \A i \in DOMAIN r : i \notin 1 .. n => i - n \in DOMAIN q /\ r[i] = q[i - n]
      /\ Range(r) = Range(o) \cup Range(q)
  <2>1. r \in Seq(DirectiveSet) /\ IsJoin(r, o, q)
    BY ConcatIsJoin
  <2>2. Range(r) = Range(o) \cup Range(q)
    <3> HIDE DEF r
    <3> QED
      BY <2>1, JoinProps
  <2>3. Len(r) = n + h
    BY ConcatProperties
  <2> QED
    BY <2>2, <2>3
<1> HIDE DEF r, n, h
<1>2. Directed(r) \subseteq Directed(o) \cup Z
  <2> SUFFICES ASSUME NEW j \in JobId, NEW i \in DOMAIN r, r[i].kind = "request",
                      r[i].job = j
               PROVE  j \in Directed(o) \cup Z
    BY DEF Directed
  <2>1. CASE i \in 1 .. n
    BY <1>1, <2>1 DEF Directed
  <2>2. CASE i \notin 1 .. n
    BY <1>1, <2>2 DEF AllRequests
  <2> QED
    BY <2>1, <2>2
<1>3. ASSUME DirectedOnce(o), Z \cap Directed(o) = {}
      PROVE  DirectedOnce(r)
  <2> SUFFICES ASSUME NEW i \in DOMAIN r, NEW k \in DOMAIN r,
                      r[i].kind = "request", r[k].kind = "request", r[i].job = r[k].job
               PROVE  i = k
    BY DEF DirectedOnce
  <2>0. i \in Int /\ k \in Int
    BY <1>1
  <2>1. CASE i \in 1 .. n /\ k \in 1 .. n
    BY <1>1, <1>3, <2>1 DEF DirectedOnce
  <2>2. CASE i \notin 1 .. n /\ k \notin 1 .. n
    <3>1. i - n = k - n
      BY <1>1, <2>2 DEF DirectedOnce
    <3> QED
      BY <1>1, <2>0, <3>1
  <2>3. ASSUME NEW e \in DOMAIN o, NEW f \in DOMAIN q, o[e].kind = "request",
               o[e].job = q[f].job
        PROVE  FALSE
    <3>1. q[f].job \in Z
      BY DEF AllRequests
    <3>2. o[e].job \in Directed(o)
      BY <2>3, <3>1 DEF Directed
    <3> QED
      BY <1>3, <2>3, <3>1, <3>2
  <2>4. CASE i \in 1 .. n /\ k \notin 1 .. n
    BY <1>1, <2>3, <2>4
  <2>5. CASE i \notin 1 .. n /\ k \in 1 .. n
    BY <1>1, <2>3, <2>5
  <2> QED
    BY <2>1, <2>2, <2>4, <2>5
<1>4. ReleasedIn(r, u, b) = ReleasedIn(o, u, b)
  <2>1. \A j : [kind |-> "release", job |-> j] \notin Range(q)
    <3>1. \A y \in Range(q) : y.kind = "request"
      BY DEF AllRequests, Range
    <3> QED
      BY <3>1
  <2> QED
    BY <1>1, <2>1 DEF ReleasedIn
<1>5. Requested(r, u, b) \subseteq Requested(o, u, b) \cup Z
  BY <1>2 DEF Requested
<1>6. ASSUME RequestedOnce(o, u, b), Z \cap Requested(o, u, b) = {}
      PROVE  RequestedOnce(r, u, b)
  BY <1>2, <1>3, <1>6 DEF RequestedOnce, Requested
<1> QED
  BY <1>4, <1>5, <1>6 DEF r

(* The agent reads some of the text. *)
LEMMA TextRead ==
    ASSUME NEW o, NEW u \in Seq(Word), NEW v \in Seq(Word), NEW b \in Seq(Word),
           NEW k, IsSlice(b, u, 0), Len(b) <= k, IsSlice(v, u, k)
    PROVE  /\ Requested(o, v, b) \subseteq Requested(o, u, << >>)
           /\ ReleasedIn(o, v, b) \subseteq ReleasedIn(o, u, << >>)
           /\ RequestedOnce(o, u, << >>) => RequestedOnce(o, v, b)
<1>1. Range(v) \subseteq Range(u) /\ Range(b) \subseteq Range(u)
  BY SliceProps
<1>2. Requested(o, v, b) \subseteq Requested(o, u, << >>)
  BY <1>1 DEF Requested, Texted
<1>3. ReleasedIn(o, v, b) \subseteq ReleasedIn(o, u, << >>)
  BY <1>1 DEF ReleasedIn
<1>4. ASSUME RequestedOnce(o, u, << >>)
      PROVE  RequestedOnce(o, v, b)
  <2>1. Once(u, ReqHeads)
    BY <1>4 DEF RequestedOnce
  <2>2. Once(v, ReqHeads) /\ Once(b, ReqHeads)
    BY <2>1, SliceProps
  <2>3. Range(b) \cap Range(v) \cap ReqHeads = {}
    BY <2>1, SlicesDisjoint
  <2>4. Texted(v) \cap Texted(b) = {}
    BY <2>3 DEF Texted, ReqHeads
  <2>5. Texted(v) \subseteq Texted(u) /\ Texted(b) \subseteq Texted(u)
    BY <1>1 DEF Texted
  <2> QED
    BY <1>4, <2>2, <2>4, <2>5 DEF RequestedOnce
<1> QED
  BY <1>2, <1>3, <1>4

(* It handles the first line of its buffer. *)
LEMMA TextHandled ==
    ASSUME NEW o, NEW u, NEW b \in Seq(Word), b # << >>, NEW c \in Seq(Word),
           NEW k \in Nat \ {0}, IsSlice(c, b, k)
    PROVE  /\ Requested(o, u, c) \subseteq Requested(o, u, b)
           /\ ReleasedIn(o, u, c) \subseteq ReleasedIn(o, u, b)
           /\ RequestedOnce(o, u, b) => RequestedOnce(o, u, c)
           /\ \A j \in JobId : b[1] = ReqHead(j) =>
                 /\ j \in Requested(o, u, b)
                 /\ RequestedOnce(o, u, b) => j \notin Requested(o, u, c)
           /\ \A j \in JobId : b[1] = RelHead(j) => j \in ReleasedIn(o, u, b)
<1>1. Range(c) \subseteq Range(b)
  BY SliceProps
<1>1a. 1 \in DOMAIN b /\ b[1] \in Range(b)
  BY DEF Range
<1>1b. Texted(c) \subseteq Texted(b)
  BY <1>1 DEF Texted
<1>2. Requested(o, u, c) \subseteq Requested(o, u, b)
  BY <1>1b DEF Requested
<1>3. ReleasedIn(o, u, c) \subseteq ReleasedIn(o, u, b)
  BY <1>1 DEF ReleasedIn
<1>4. ASSUME RequestedOnce(o, u, b)
      PROVE  RequestedOnce(o, u, c)
  <2>1. Once(c, ReqHeads)
    BY <1>4, SliceProps DEF RequestedOnce
  <2> QED
    BY <1>1b, <1>4, <2>1 DEF RequestedOnce
<1>5. ASSUME NEW j \in JobId, b[1] = ReqHead(j)
      PROVE  /\ j \in Requested(o, u, b)
             /\ RequestedOnce(o, u, b) => j \notin Requested(o, u, c)
  <2>1. j \in Texted(b)
    BY <1>1a, <1>5 DEF Texted
  <2>2. ASSUME RequestedOnce(o, u, b), j \in Texted(c)
        PROVE  FALSE
    <3>1. PICK i \in DOMAIN c : c[i] = ReqHead(j)
      BY <2>2 DEF Texted, Range
    <3>2. k + i \in DOMAIN b /\ b[k + i] = ReqHead(j) /\ i \in Nat \ {0}
      BY <3>1 DEF IsSlice
    <3>3. ReqHead(j) \in ReqHeads
      BY DEF ReqHeads
    <3>4. k + i = 1
      BY <1>1a, <1>5, <2>2, <3>2, <3>3 DEF RequestedOnce, Once
    <3> QED
      BY <3>2, <3>4
  <2> QED
    BY <2>1, <2>2 DEF Requested, RequestedOnce
<1>6. ASSUME NEW j \in JobId, b[1] = RelHead(j)
      PROVE  j \in ReleasedIn(o, u, b)
  BY <1>1a, <1>6 DEF ReleasedIn
<1> QED
  BY <1>2, <1>3, <1>4, <1>5, <1>6

----------------------------------------------------------------------------
(* Whole lines. *)

LEMMA EmptyIsWhole == Whole(<< >>)
BY EmptyText DEF Whole

LEMMA WholeJoin ==
    ASSUME NEW u \in Seq(Word), NEW t \in Seq(Word), t # << >>, Whole(u), Whole(t)
    PROVE  Whole(u \o t)
<1> DEFINE r == u \o t
           n == Len(u)
           m == Len(t)
<1>1. /\ n \in Nat /\ m \in Nat /\ DOMAIN u = 1 .. n /\ DOMAIN t = 1 .. m
      /\ DOMAIN r = 1 .. (n + m)
      /\ \A i \in 1 .. n : r[i] = u[i]
      /\ \A i \in 1 .. m : r[n + i] = t[i]
      /\ r \in Seq(Word) /\ IsJoin(r, u, t)
  BY ConcatProperties, ConcatIsJoin
<1>2. Ended(r)
  <2>1. Ended(t)
    BY DEF Whole
  <2> HIDE DEF r
  <2> QED
    BY <1>1, <2>1, JoinProps
<1> HIDE DEF r, n, m
<1>1a. n \in Nat /\ m \in Nat /\ DOMAIN r = 1 .. (n + m)
  BY <1>1
<1>1b. \A i \in 1 .. m : r[n + i] = t[i]
  BY <1>1
<1>3. \A i \in DOMAIN u :
         /\ u[i].part = "head" /\ u[i].cmd = "JOB_RELEASE" =>
               i + 1 \in DOMAIN u /\ u[i + 1].part = "id"
         /\ u[i].part = "id" =>
               i > 1 /\ u[i - 1].part = "head" /\ u[i - 1].job = u[i].job
  BY DEF Whole
<1>4. \A i \in DOMAIN t :
         /\ t[i].part = "head" /\ t[i].cmd = "JOB_RELEASE" =>
               i + 1 \in DOMAIN t /\ t[i + 1].part = "id"
         /\ t[i].part = "id" =>
               i > 1 /\ t[i - 1].part = "head" /\ t[i - 1].job = t[i].job
  BY DEF Whole
<1>5. ASSUME NEW i \in DOMAIN r, r[i].part = "head", r[i].cmd = "JOB_RELEASE"
      PROVE  i + 1 \in DOMAIN r /\ r[i + 1].part = "id"
  <2>1. CASE i \in 1 .. n
    BY <1>1, <1>3, <1>5, <2>1
  <2>2. CASE i \notin 1 .. n
    <3>1. i - n \in 1 .. m /\ n + (i - n) = i
      BY <1>1, <2>2
    <3>2. i - n + 1 \in 1 .. m /\ t[i - n + 1].part = "id"
      BY <1>1, <1>4, <1>5, <3>1
    <3>3. n + (i - n + 1) = i + 1 /\ i + 1 \in 1 .. (n + m)
      BY <1>1a, <3>2
    <3>4. r[n + (i - n + 1)] = t[i - n + 1]
      BY <1>1b, <3>2
    <3> QED
      BY <1>1a, <3>2, <3>3, <3>4
  <2> QED
    BY <2>1, <2>2
<1>6. ASSUME NEW i \in DOMAIN r, r[i].part = "id"
      PROVE  i > 1 /\ r[i - 1].part = "head" /\ r[i - 1].job = r[i].job
  <2>1. CASE i \in 1 .. n
    BY <1>1, <1>3, <1>6, <2>1
  <2>2. CASE i \notin 1 .. n
    <3>1. i - n \in 1 .. m /\ n + (i - n) = i
      BY <1>1, <2>2
    <3>2. i - n > 1 /\ t[i - n - 1].part = "head" /\ t[i - n - 1].job = t[i - n].job
      BY <1>1, <1>4, <1>6, <3>1
    <3>3. n + (i - n - 1) = i - 1 /\ i - n - 1 \in 1 .. m
      <4>1. i \in Int /\ n \in Int /\ m \in Int /\ i - n <= m /\ i - n > 1
        BY <1>1a, <3>1, <3>2
      <4> QED
        BY <4>1
    <3>4. r[n + (i - n - 1)] = t[i - n - 1] /\ r[n + (i - n)] = t[i - n]
      BY <1>1b, <3>1, <3>3
    <3>5. i > 1
      BY <1>1a, <3>2
    <3> QED
      BY <3>1, <3>2, <3>3, <3>4, <3>5
  <2> QED
    BY <2>1, <2>2
<1> QED
  BY <1>2, <1>5, <1>6 DEF Whole, r

LEMMA SliceIndex ==
    ASSUME NEW s \in Seq(Word), NEW t \in Seq(Word), NEW c, IsSlice(t, s, c)
    PROVE  /\ c \in Nat /\ Len(t) \in Nat /\ Len(s) \in Nat
           /\ DOMAIN t = 1 .. Len(t) /\ DOMAIN s = 1 .. Len(s)
           /\ \A i \in DOMAIN t : c + i \in DOMAIN s /\ t[i] = s[c + i]
BY DEF IsSlice

(* What is left after an end. *)
LEMMA WholeRest ==
    ASSUME NEW s \in Seq(Word), NEW t \in Seq(Word), NEW c, IsSlice(t, s, c),
           c + Len(t) = Len(s), c \in 1 .. Len(s), s[c].part = "end", Whole(s)
    PROVE  Whole(t)
<1>0. /\ c \in Nat /\ Len(t) \in Nat /\ Len(s) \in Nat
      /\ DOMAIN t = 1 .. Len(t) /\ DOMAIN s = 1 .. Len(s)
      /\ \A i \in DOMAIN t : c + i \in DOMAIN s /\ t[i] = s[c + i]
  BY SliceIndex
<1>1. Ended(t)
  BY SliceProps DEF Whole
<1>2. ASSUME NEW i \in DOMAIN t, t[i].part = "head", t[i].cmd = "JOB_RELEASE"
      PROVE  i + 1 \in DOMAIN t /\ t[i + 1].part = "id"
  <2>1. c + i + 1 \in DOMAIN s /\ s[c + i + 1].part = "id"
    BY <1>0, <1>2 DEF Whole
  <2>2. i + 1 \in DOMAIN t /\ c + (i + 1) = c + i + 1
    BY <1>0, <2>1
  <2> QED
    BY <1>0, <2>1, <2>2
<1>3. ASSUME NEW i \in DOMAIN t, t[i].part = "id"
      PROVE  i > 1 /\ t[i - 1].part = "head" /\ t[i - 1].job = t[i].job
  <2>0. c + i \in DOMAIN s /\ s[c + i].part = "id"
    BY <1>0, <1>3
  <2>1. s[c + i - 1].part = "head" /\ s[c + i - 1].job = s[c + i].job
    BY <2>0 DEF Whole
  <2>2. i # 1
    BY <1>0, <2>1
  <2>3. i > 1 /\ i - 1 \in DOMAIN t /\ c + (i - 1) = c + i - 1
    BY <1>0, <2>2
  <2> QED
    BY <1>0, <2>1, <2>3
<1> QED
  BY <1>1, <1>2, <1>3 DEF Whole

(* A line that ends is one command, and its number is its job's. *)
LEMMA WholeLine ==
    ASSUME TInv, buf # << >>, Whole(buf)
    PROVE  /\ buf[LineEnd].part = "end"
           /\ \A i \in 1 .. LineEnd : buf[i].part = "id" => i = 2 /\ buf[i].job = buf[1].job
           /\ \A j \in JobId : buf[1] = RelHead(j) => Is("JOB_RELEASE") /\ Parts("id") = 1
<1>0. buf \in Seq(Word) /\ HeadsFirst(buf) /\ DOMAIN buf = 1 .. Len(buf) /\ Len(buf) \in Nat
  BY DEF TInv, StreamsOK
<1>1. /\ LineEnd \in 1 .. Len(buf) /\ FirstEnd(buf, LineEnd) /\ Len(Line) = LineEnd
      /\ Line \in Seq(Word) /\ \A i \in 1 .. LineEnd : Line[i] = buf[i]
  BY <1>0, LineFacts
<1>2. buf[LineEnd].part = "end"
  <2>1. buf[Len(buf)].part = "end"
    BY DEF Whole, Ended
  <2>2. buf[LineEnd].part = "end" \/ LineEnd = Len(buf)
    BY <1>1 DEF FirstEnd
  <2> QED
    BY <2>1, <2>2
<1>3. ASSUME NEW i \in 1 .. LineEnd, buf[i].part = "id"
      PROVE  i = 2 /\ buf[i].job = buf[1].job
  <2>1. i \in DOMAIN buf
    BY <1>0, <1>1
  <2>2. i > 1 /\ buf[i - 1].part = "head" /\ buf[i - 1].job = buf[i].job
    BY <1>3, <2>1 DEF Whole
  <2>3. i - 1 \in DOMAIN buf
    BY <1>0, <2>1, <2>2
  <2>4. i - 1 = 1 \/ buf[i - 1 - 1].part = "end"
    BY <1>0, <2>2, <2>3 DEF HeadsFirst
  <2>5. ASSUME i - 1 # 1 PROVE buf[i - 1 - 1].part # "end"
    <3>1. i - 1 - 1 \in 1 .. (LineEnd - 1)
      BY <1>1, <2>2, <2>5
    <3> QED
      BY <1>1, <3>1 DEF FirstEnd
  <2>6. i - 1 = 1
    BY <2>4, <2>5
  <2> QED
    BY <2>2, <2>6
<1>4. ASSUME NEW j \in JobId, buf[1] = RelHead(j)
      PROVE  Is("JOB_RELEASE") /\ Parts("id") = 1
  <2>0. 1 \in DOMAIN buf /\ DOMAIN Line = 1 .. LineEnd
    BY <1>0, <1>1
  <2>1. buf[1].part = "head" /\ buf[1].cmd = "JOB_RELEASE"
    BY <1>4, PieceFields DEF RelHead
  <2>2. 1 \in 1 .. LineEnd /\ Line[1] = buf[1]
    BY <1>1
  <2>3. Is("JOB_RELEASE")
    BY <2>1, <2>2 DEF Is
  <2>4. 2 \in DOMAIN buf /\ buf[2].part = "id"
    <3>1. 1 + 1 \in DOMAIN buf /\ buf[1 + 1].part = "id"
      BY <2>0, <2>1 DEF Whole
    <3> QED
      BY <3>1
  <2>5. 2 \in 1 .. LineEnd
    <3>1. LineEnd # 1
      BY <1>2, <2>1
    <3> QED
      BY <1>0, <1>1, <2>4, <3>1
  <2> DEFINE I == {i \in DOMAIN Line : Line[i].part = "id"}
  <2>6. I = {2}
    BY <1>1, <1>3, <2>0, <2>4, <2>5
  <2>7. Parts("id") = Cardinality(I)
    BY DEF Parts
  <2> HIDE DEF I
  <2>8. Parts("id") = 1
    BY <2>6, <2>7, FS_Singleton
  <2> QED
    BY <2>3, <2>8
<1> QED
  BY <1>2, <1>3, <1>4

(* A release is lost from the buffer only when it is handled. *)
LEMMA ReleaseStays ==
    ASSUME TInv, buf # << >>, NEW c \in Seq(Word), IsSlice(c, buf, LineEnd),
           LineEnd + Len(c) = Len(buf), NEW j, RelHead(j) \in Range(buf), buf[1] # RelHead(j)
    PROVE  RelHead(j) \in Range(c)
<1>0. buf \in Seq(Word) /\ HeadsFirst(buf)
  BY DEF TInv, StreamsOK
<1>1. LineEnd \in 1 .. Len(buf) /\ FirstEnd(buf, LineEnd)
  BY <1>0, LineFacts
<1>2. PICK i \in DOMAIN buf : buf[i] = RelHead(j)
  BY DEF Range
<1>3. buf[i].part = "head" /\ i # 1 /\ i \in 1 .. Len(buf) /\ Len(buf) \in Nat
  BY <1>0, <1>2, PieceFields DEF RelHead
<1>4. buf[i - 1].part = "end"
  BY <1>0, <1>3 DEF HeadsFirst
<1>5. ~(i <= LineEnd)
  <2> SUFFICES ASSUME i <= LineEnd PROVE FALSE
    OBVIOUS
  <2>1. i - 1 \in 1 .. (LineEnd - 1)
    BY <1>1, <1>3
  <2> QED
    BY <1>1, <1>4, <2>1 DEF FirstEnd
<1>6. i - LineEnd \in 1 .. Len(c) /\ LineEnd + (i - LineEnd) = i /\ DOMAIN c = 1 .. Len(c)
  BY <1>1, <1>3, <1>5
<1>7. c[i - LineEnd] = buf[i]
  BY <1>6 DEF IsSlice
<1> QED
  BY <1>2, <1>6, <1>7 DEF Range

(* Everything on its way to the agent fits in its buffer. *)
TextFits == Len(up) <= Buffer

(* Without fragments, a read takes all there is. *)
LEMMA ReadsAll ==
    ASSUME "fragment" \notin Faults, TInv, TextFits, receive_tcp_message
    PROVE  buf' = up /\ up' = << >>
<1>0. up \in Seq(Word) /\ Len(up) \in Nat /\ Ended(up) /\ up # << >>
  BY DEF TInv, StreamsOK, receive_tcp_message
<1>1a. PICK k \in 1 .. Len(up) :
         /\ k <= Buffer
         /\ k = Buffer \/ k = Len(up)
         /\ \E w \in LastPiece(k) :
               /\ buf' = [SubSeq(up, 1, k) EXCEPT ![k] = w]
               /\ up' = SubSeq(up, IF w = up[k] THEN k + 1 ELSE k, Len(up))
  BY DEF receive_tcp_message
<1>1. PICK w \in LastPiece(k) :
         /\ buf' = [SubSeq(up, 1, k) EXCEPT ![k] = w]
         /\ up' = SubSeq(up, IF w = up[k] THEN k + 1 ELSE k, Len(up))
  BY <1>1a
<1>2. k = Len(up)
  BY <1>0, <1>1a, SchedulerAssumption DEF TextFits
<1>2a. w = up[k]
  BY <1>0, <1>2, LastPieceFacts DEF Ended
<1> DEFINE b == SubSeq(up, 1, k)
           v == SubSeq(up, k + 1, Len(up))
<1>3. /\ b \in Seq(Word) /\ IsSlice(b, up, 0) /\ Len(b) = Len(up)
      /\ v \in Seq(Word) /\ Len(up) + Len(v) = Len(up)
  BY <1>2, ReadFacts
<1>3a. buf' = [b EXCEPT ![k] = up[k]] /\ up' = v
  BY <1>1, <1>2a
<1> HIDE DEF b, v
<1>4. Len(v) = 0
  BY <1>0, <1>3
<1>5. v = << >>
  BY <1>3, <1>4
<1>6. \A i \in 1 .. Len(up) : b[i] = up[i]
  BY <1>0, <1>3 DEF IsSlice
<1>7. b = up
  BY <1>0, <1>3, <1>6
<1>8. [up EXCEPT ![k] = up[k]] = up
  BY <1>0
<1> QED
  BY <1>3a, <1>5, <1>7, <1>8

LEMMA WholeStep ==
    ASSUME "fragment" \notin Faults, TInv, TextFits, Whole(up), Whole(buf), [Next]_vars
    PROVE  Whole(up)' /\ Whole(buf)'
<1>1. ASSUME sender PROVE Whole(up)' /\ Whole(buf)'
  <2>1. outgoing # << >> /\ Head(outgoing) \in DirectiveSet /\ up \in Seq(Word) /\ UNCHANGED buf
    BY <1>1, HeadTailProperties DEF sender, TInv, ErlOK, StreamsOK
  <2>2. UNCHANGED up \/ up' = up \o TextOf(Head(outgoing))
    BY <1>1 DEF sender
  <2> DEFINE t == TextOf(Head(outgoing))
  <2>3. t \in Seq(Word) /\ t # << >> /\ Whole(t)
    BY <2>1, TextOfShape
  <2> HIDE DEF t
  <2>4. Whole(up \o t)
    BY <2>1, <2>3, WholeJoin
  <2>5. Whole(up')
    <3>1. CASE UNCHANGED up
      BY <3>1
    <3>2. CASE up' = up \o t
      BY <2>4, <3>2
    <3> QED
      BY <2>2, <3>1, <3>2 DEF t
  <2>6. Whole(buf')
    BY <2>1
  <2> QED
    BY <2>5, <2>6
<1>2. ASSUME receive_tcp_message PROVE Whole(up)' /\ Whole(buf)'
  <2>1. buf' = up /\ up' = << >>
    BY <1>2, ReadsAll
  <2> QED
    BY <2>1, EmptyIsWhole
<1>3. ASSUME handle_line PROVE Whole(up)' /\ Whole(buf)'
  <2>1. buf \in Seq(Word) /\ buf # << >> /\ UNCHANGED up
    BY <1>3 DEF handle_line, TInv, StreamsOK
  <2>2. buf' = SubSeq(buf, LineEnd + 1, Len(buf))
    BY <1>3 DEF handle_line
  <2>3. buf' \in Seq(Word) /\ IsSlice(buf', buf, LineEnd) /\ LineEnd + Len(buf') = Len(buf)
    BY <2>1, <2>2, RestFacts
  <2>4. LineEnd \in 1 .. Len(buf) /\ buf[LineEnd].part = "end"
    BY <2>1, LineFacts, WholeLine
  <2>5. Whole(buf')
    <3>1. ASSUME NEW c \in Seq(Word), IsSlice(c, buf, LineEnd), LineEnd + Len(c) = Len(buf)
          PROVE  Whole(c)
      BY <2>1, <2>4, <3>1, WholeRest
    <3> QED
      BY <2>3, <3>1, Zenon
  <2> QED
    BY <2>1, <2>5
<1>4. ASSUME agent_dies PROVE Whole(up)' /\ Whole(buf)'
  BY <1>4, EmptyIsWhole DEF agent_dies
<1>5. ASSUME UNCHANGED <<up, buf>> PROVE Whole(up)' /\ Whole(buf)'
  BY <1>5
<1>6. ASSUME start \/ connect \/ crash \/ request_nodes \/ receiver \/ receive_pids
             \/ receive_nodes \/ receive_granted \/ receive_removal \/ receive_error
             \/ client_disconnected \/ agent_starts \/ UNCHANGED vars
      PROVE  UNCHANGED <<up, buf>>
  BY <1>6 DEF start, connect, crash, request_nodes, receiver, receive_pids,
     receive_nodes, receive_granted, receive_removal, receive_error, Stopped,
     client_disconnected, agent_starts, vars
<1>7. ASSUME NEW j \in JobId, simulate_load(j) \/ answer(j) PROVE UNCHANGED <<up, buf>>
  BY <1>7 DEF simulate_load, answer
<1>8. ASSUME NEW a \in [tag : Answers, job : JobId], send_answer(a) PROVE UNCHANGED <<up, buf>>
  BY <1>8 DEF send_answer
<1> QED
  BY <1>1, <1>2, <1>3, <1>4, <1>5, <1>6, <1>7, <1>8 DEF Next, Receive

----------------------------------------------------------------------------
(* RunningIsHeld: the life of every identifier, step by step. *)

(* A step that moves messages and changes nothing else. *)
LEMMA LQuiet ==
    ASSUME LifeOK, UNCHANGED <<jobs, loads, owned>>,
           RequestsOut' \subseteq RequestsOut, ReleasesOut' \subseteq ReleasesOut,
           FinishesOut' \subseteq FinishesOut, GrantsOut' \subseteq GrantsOut,
           DenialsOut' = DenialsOut, TimeoutsOut' \subseteq TimeoutsOut
    PROVE  LifeOK'
<1>1. Dispatched' = Dispatched /\ HeldAll' = HeldAll
  BY DEF Dispatched, HeldAll
<1> QED
  BY <1>1, LifeShrinks DEF LifeOK

LEMMA SameMail ==
    ASSUME UNCHANGED <<outbox, down, mailbox>>
    PROVE  /\ FinishesOut' = FinishesOut /\ GrantsOut' = GrantsOut
           /\ DenialsOut' = DenialsOut /\ TimeoutsOut' = TimeoutsOut
           /\ OnceOK => GrantedOnce(outbox', down', mailbox')
BY DEF FinishesOut, GrantsOut, DenialsOut, TimeoutsOut, OnceOK

LEMMA SameText ==
    ASSUME UNCHANGED <<outgoing, up, buf>>
    PROVE  /\ RequestsOut' = RequestsOut /\ ReleasesOut' = ReleasesOut
           /\ OnceOK => RequestedOnce(outgoing', up', buf')
BY DEF RequestsOut, ReleasesOut, OnceOK

LEMMA NotRelease == \A j : [kind |-> "get_nodes"] # [kind |-> "release", job |-> j]
<1>1. \A j : [kind |-> "release", job |-> j].kind = "release"
  OBVIOUS
<1>2. [kind |-> "get_nodes"].kind = "get_nodes"
  OBVIOUS
<1> QED
  BY <1>1, <1>2

LEMMA LRequestNodes ==
    ASSUME TInv, OnceOK, LifeOK, request_nodes
    PROVE  OnceOK' /\ LifeOK'
<1> DEFINE y == [kind |-> "get_nodes"]
<1>0. outgoing \in Seq(DirectiveSet)
  BY DEF TInv, ErlOK
<1>1. y \in DirectiveSet /\ y.kind # "request" /\ \A j : y # [kind |-> "release", job |-> j]
  BY MailFacts, NotRelease
<1>2. /\ outgoing' = Append(outgoing, y)
      /\ UNCHANGED <<jobs, loads, mailbox, up, buf, down, owned, outbox>>
  BY DEF request_nodes, agentVars
<1> HIDE DEF y
<1>3. /\ RequestsOut' = RequestsOut
      /\ RequestedOnce(outgoing', up', buf')
      /\ ReleasesOut' = ReleasesOut
  <2>1. {j \in JobId : y = [kind |-> "release", job |-> j]} = {}
    BY <1>1
  <2> DEFINE o == Append(outgoing, y)
             none == {j \in JobId : y = [kind |-> "release", job |-> j]}
  <2>2. /\ Requested(o, up, buf) = Requested(outgoing, up, buf)
        /\ RequestedOnce(outgoing, up, buf) => RequestedOnce(o, up, buf)
        /\ ReleasedIn(o, up, buf) = ReleasedIn(outgoing, up, buf) \cup none
    BY <1>0, <1>1, OtherDirective
  <2>3. outgoing' = o /\ none = {}
    BY <1>2, <2>1
  <2> HIDE DEF o, none
  <2> QED
    BY <1>2, <2>2, <2>3 DEF RequestsOut, ReleasesOut, OnceOK
<1>4. LifeOK'
  BY <1>2, <1>3, SameMail, LQuiet
<1> QED
  BY <1>2, <1>3, <1>4, SameMail DEF OnceOK

LEMMA LSender ==
    ASSUME TInv, OnceOK, LifeOK, conn = "open", sender
    PROVE  OnceOK' /\ LifeOK'
<1>0. outgoing \in Seq(DirectiveSet) /\ up \in Seq(Word) /\ outgoing # << >>
  BY DEF TInv, ErlOK, StreamsOK, sender
<1>1. /\ outgoing' = Tail(outgoing) /\ up' = up \o TextOf(Head(outgoing))
      /\ UNCHANGED <<jobs, loads, mailbox, buf, down, owned, outbox>>
  BY DEF sender, agentVars
<1>2. /\ Requested(outgoing', up', buf) \subseteq RequestsOut
      /\ RequestedOnce(outgoing', up', buf)
      /\ ReleasedIn(outgoing', up', buf) = ReleasesOut
  BY <1>0, <1>1, RequestWritten DEF OnceOK, RequestsOut, ReleasesOut
<1>3. /\ RequestsOut' \subseteq RequestsOut /\ ReleasesOut' = ReleasesOut
      /\ RequestedOnce(outgoing', up', buf')
  BY <1>1, <1>2 DEF RequestsOut, ReleasesOut
<1>4. LifeOK'
  BY <1>1, <1>3, SameMail, LQuiet
<1> QED
  BY <1>1, <1>3, <1>4, SameMail DEF OnceOK

LEMMA LReceiver ==
    ASSUME TInv, OnceOK, LifeOK, conn = "open", receiver
    PROVE  OnceOK' /\ LifeOK'
<1>0. down \in Seq(DownLine) /\ mailbox \in Seq(Mail) /\ down # << >>
  BY DEF TInv, ErlOK, StreamsOK, receiver
<1>1. /\ mailbox' = Append(mailbox, Head(down)) /\ down' = Tail(down)
      /\ UNCHANGED <<jobs, loads, outgoing, up, buf, owned, outbox>>
  BY DEF receiver, agentVars
<1>2. /\ \A tag : ToldOf(outbox, down', mailbox', tag) = ToldOf(outbox, down, mailbox, tag)
      /\ GrantedOnce(outbox, down', mailbox')
  BY <1>0, <1>1, AnswerArrives DEF OnceOK
<1>3. GrantsOut' = GrantsOut /\ DenialsOut' = DenialsOut /\ TimeoutsOut' = TimeoutsOut
  BY <1>1, <1>2 DEF GrantsOut, DenialsOut, TimeoutsOut
<1>4. FinishesOut' = FinishesOut
  <2>1. Head(down) \in DownLine /\ Head(down) \in Mail
    BY <1>0, TailIsSlice, MailFacts
  <2>2. Range(mailbox') = Range(mailbox) \cup {Head(down)}
    BY <1>0, <1>1, <2>1, AppendRange
  <2>3. ASSUME NEW z \in DownLine PROVE z.tag # "job_release"
    BY DEF DownLine, Answers
  <2>4. \A j : Head(down) # Finish(j)
    BY <2>1, <2>3 DEF Finish
  <2> QED
    BY <2>2, <2>4 DEF FinishesOut, FinishedIn
<1>5. LifeOK'
  BY <1>1, <1>3, <1>4, SameText, LQuiet
<1> QED
  BY <1>1, <1>2, <1>5, SameText DEF OnceOK

(* A message is taken out of the mailbox. *)
LEMMA MailGone ==
    ASSUME TInv, OnceOK, mailbox # << >>, mailbox' = Tail(mailbox), UNCHANGED <<outbox, down>>
    PROVE  /\ GrantsOut' \subseteq GrantsOut /\ DenialsOut' \subseteq DenialsOut
           /\ TimeoutsOut' \subseteq TimeoutsOut /\ FinishesOut' \subseteq FinishesOut
           /\ GrantedOnce(outbox', down', mailbox')
           /\ \A j \in DenialsOut : Head(mailbox) # Answer(j, "JOB_DENIED") => j \in DenialsOut'
           /\ \A j \in FinishesOut : Head(mailbox) # Finish(j) => j \in FinishesOut'
<1>1. mailbox \in Seq(Mail)
  BY DEF TInv, ErlOK
<1> DEFINE t == Tail(mailbox)
<1>2. /\ \A tag : ToldOf(outbox, down, t, tag) \subseteq ToldOf(outbox, down, mailbox, tag)
      /\ \A tag : \A j \in ToldOf(outbox, down, mailbox, tag) :
            Head(mailbox) # Answer(j, tag) => j \in ToldOf(outbox, down, t, tag)
      /\ FinishedIn(t) \subseteq FinishedIn(mailbox)
      /\ \A j \in FinishedIn(mailbox) : Head(mailbox) # Finish(j) => j \in FinishedIn(t)
      /\ GrantedOnce(outbox, down, t)
  BY <1>1, MailTaken DEF OnceOK
<1>3. mailbox' = t
  OBVIOUS
<1> HIDE DEF t
<1>4. GrantsOut' \subseteq GrantsOut /\ TimeoutsOut' \subseteq TimeoutsOut
  BY <1>2, <1>3 DEF GrantsOut, TimeoutsOut
<1>5. /\ DenialsOut' \subseteq DenialsOut
      /\ \A j \in DenialsOut : Head(mailbox) # Answer(j, "JOB_DENIED") => j \in DenialsOut'
  BY <1>2, <1>3 DEF DenialsOut
<1>6. /\ FinishesOut' \subseteq FinishesOut
      /\ \A j \in FinishesOut : Head(mailbox) # Finish(j) => j \in FinishesOut'
  BY <1>2, <1>3 DEF FinishesOut
<1>7. GrantedOnce(outbox', down', mailbox')
  BY <1>2, <1>3
<1> QED
  BY <1>4, <1>5, <1>6, <1>7

LEMMA LReceivePids ==
    ASSUME TInv, OnceOK, LifeOK, receive_pids
    PROVE  OnceOK' /\ LifeOK'
<1>0. mailbox \in Seq(Mail) /\ mailbox # << >> /\ Head(mailbox).tag = "sender_pid"
  BY DEF TInv, ErlOK, receive_pids, Received
<1>1. /\ mailbox' = Tail(mailbox)
      /\ UNCHANGED <<jobs, loads, outgoing, up, buf, owned, outbox, down>>
  BY DEF receive_pids, agentVars
<1>2. /\ GrantsOut' \subseteq GrantsOut /\ DenialsOut' \subseteq DenialsOut
      /\ TimeoutsOut' \subseteq TimeoutsOut /\ FinishesOut' \subseteq FinishesOut
      /\ GrantedOnce(outbox', down', mailbox')
  BY <1>0, <1>1, MailGone
<1>3. \A j : Head(mailbox) # Answer(j, "JOB_DENIED")
  BY <1>0 DEF Answer
<1>4. DenialsOut \subseteq DenialsOut'
  BY <1>0, <1>1, <1>3, MailGone
<1>5. LifeOK'
  BY <1>1, <1>2, <1>4, SameText, LQuiet
<1> QED
  BY <1>1, <1>2, <1>5, SameText DEF OnceOK

(* A fresh identifier is in no message. *)
LEMMA AboutIs ==
    ASSUME NEW s, NEW x \in Range(s), "job" \in DOMAIN x
    PROVE  About(s, x.job)
BY DEF About, Range

LEMMA HasJob ==
    ASSUME NEW j
    PROVE  /\ \A tag : "job" \in DOMAIN Answer(j, tag) /\ Answer(j, tag).job = j
           /\ "job" \in DOMAIN Finish(j) /\ Finish(j).job = j
           /\ "job" \in DOMAIN ReqHead(j) /\ ReqHead(j).job = j
           /\ "job" \in DOMAIN RelHead(j) /\ RelHead(j).job = j
           /\ "job" \in DOMAIN [kind |-> "release", job |-> j]
           /\ [kind |-> "release", job |-> j].job = j
<1>1. \A tag : "job" \in DOMAIN Answer(j, tag) /\ Answer(j, tag).job = j
  BY DEF Answer
<1>2. "job" \in DOMAIN Finish(j) /\ Finish(j).job = j
  BY DEF Finish
<1>3. \A c, p : "job" \in DOMAIN Piece(c, j, p) /\ Piece(c, j, p).job = j
  BY DEF Piece
<1> QED
  BY <1>1, <1>2, <1>3 DEF ReqHead, RelHead

LEMMA FreshIsUnused ==
    ASSUME TInv, NEW j \in Fresh
    PROVE  /\ j \notin DOMAIN jobs /\ j \notin loads /\ j \notin DOMAIN owned
           /\ j \notin RequestsOut /\ j \notin ReleasesOut /\ j \notin FinishesOut
           /\ j \notin GrantsOut /\ j \notin DenialsOut /\ j \notin TimeoutsOut
<1>1. j \notin DOMAIN jobs /\ j \notin loads /\ j \notin DOMAIN owned
  BY DEF Fresh
<1>2. /\ ~About(mailbox, j) /\ ~About(outgoing, j) /\ ~About(up, j)
      /\ ~About(buf, j) /\ ~About(down, j)
      /\ \A a \in outbox : a.job # j
  BY DEF Fresh
<1>3. \A tag : j \notin ToldOf(outbox, down, mailbox, tag)
  <2> SUFFICES ASSUME NEW tag, Answer(j, tag) \in outbox \cup Range(down) \cup Range(mailbox)
               PROVE  FALSE
    BY DEF ToldOf
  <2>1. "job" \in DOMAIN Answer(j, tag) /\ Answer(j, tag).job = j
    BY HasJob
  <2> QED
    BY <1>2, <2>1, AboutIs
<1>4. j \notin FinishesOut
  BY <1>2, HasJob, AboutIs DEF FinishesOut, FinishedIn
<1>5. j \notin ReleasesOut
  BY <1>2, HasJob, AboutIs DEF ReleasesOut, ReleasedIn
<1>6. j \notin Texted(up) /\ j \notin Texted(buf)
  BY <1>2, HasJob, AboutIs DEF Texted
<1>7. j \notin Directed(outgoing)
  <2> SUFFICES ASSUME NEW i \in DOMAIN outgoing, outgoing[i].kind = "request",
                      outgoing[i].job = j
               PROVE  FALSE
    BY DEF Directed
  <2>1. outgoing[i] \in DirectiveSet
    BY DEF TInv, ErlOK
  <2>2. ASSUME NEW d \in DirectiveSet, d.kind = "request" PROVE "job" \in DOMAIN d
    BY <2>2 DEF DirectiveSet
  <2> QED
    BY <1>2, <2>1, <2>2 DEF About
<1> QED
  BY <1>1, <1>3, <1>4, <1>5, <1>6, <1>7 DEF RequestsOut, Requested, GrantsOut,
     DenialsOut, TimeoutsOut

LEMMA LReceiveNodes ==
    ASSUME TInv, OnceOK, LifeOK, receive_nodes
    PROVE  OnceOK' /\ LifeOK'
<1>0. mailbox \in Seq(Mail) /\ mailbox # << >> /\ Head(mailbox).tag = "NODES"
  BY DEF TInv, ErlOK, receive_nodes, Received
<1>1. /\ mailbox' = Tail(mailbox)
      /\ UNCHANGED <<loads, up, buf, owned, outbox, down>>
  BY DEF receive_nodes, agentVars
<1>2. /\ GrantsOut' \subseteq GrantsOut /\ DenialsOut' \subseteq DenialsOut
      /\ TimeoutsOut' \subseteq TimeoutsOut /\ FinishesOut' \subseteq FinishesOut
      /\ GrantedOnce(outbox', down', mailbox')
  BY <1>0, <1>1, MailGone
<1>3. \A j : Head(mailbox) # Answer(j, "JOB_DENIED")
  BY <1>0 DEF Answer
<1>4. DenialsOut' = DenialsOut
  <2>1. DenialsOut \subseteq DenialsOut'
    BY <1>0, <1>1, <1>3, MailGone
  <2> QED
    BY <1>2, <2>1
<1>5. CASE UNCHANGED <<jobs, wanted, outgoing>>
  <2>1. LifeOK'
    BY <1>1, <1>2, <1>4, <1>5, SameText, LQuiet
  <2> QED
    BY <1>1, <1>2, <1>5, <2>1, SameText DEF OnceOK
<1>6. ASSUME NEW Z \in SUBSET Fresh, NEW size \in [Z -> 0 .. MaxSize],
             jobs' = With(jobs, [j \in Z |-> "dispatched"]),
             outgoing' = outgoing \o
                 SetToSeq({[kind |-> "request", job |-> j, size |-> size[j]] : j \in Z})
      PROVE  OnceOK' /\ LifeOK'
  <2> DEFINE S == {[kind |-> "request", job |-> j, size |-> size[j]] : j \in Z}
             q == SetToSeq(S)
             disp == [j \in Z |-> "dispatched"]
  <2>1. Z \in SUBSET JobId
    BY FreshIsJob
  <2>2. q \in Seq(DirectiveSet) /\ AllRequests(q, Z) /\ DirectedOnce(q)
    BY <2>1, RequestsFacts
  <2>3. outgoing' = outgoing \o q /\ outgoing \in Seq(DirectiveSet)
    BY <1>6 DEF TInv, ErlOK
  <2>4. DOMAIN disp = Z /\ (\A j \in Z : disp[j] = "dispatched") /\ jobs' = With(jobs, disp)
    BY <1>6
  <2> HIDE DEF q, disp
  <2>5. Z \cap (DOMAIN jobs \cup loads \cup RequestsOut \cup ReleasesOut \cup FinishesOut
                \cup DOMAIN owned \cup GrantsOut \cup DenialsOut \cup TimeoutsOut) = {}
    BY FreshIsUnused
  <2>6. /\ Requested(outgoing', up, buf) \subseteq RequestsOut \cup Z
        /\ RequestedOnce(outgoing', up, buf)
        /\ ReleasedIn(outgoing', up, buf) = ReleasesOut
    BY <2>1, <2>2, <2>3, <2>5, RequestsAdded DEF RequestsOut, ReleasesOut, OnceOK
  <2>7. /\ RequestsOut' \subseteq RequestsOut \cup Z /\ ReleasesOut' = ReleasesOut
        /\ RequestedOnce(outgoing', up', buf')
    BY <1>1, <2>6 DEF RequestsOut, ReleasesOut
  <2>8. DOMAIN jobs' = DOMAIN jobs \cup Z
    BY <2>4, WithFacts
  <2>9. Dispatched' = Dispatched \cup Z
    <3>0. \A j \in DOMAIN disp : With(jobs, disp)[j] = disp[j]
      BY DEF With
    <3>1. \A j \in Z : jobs'[j] = "dispatched"
      BY <2>4, <3>0
    <3>2. \A j \in DOMAIN jobs \ Z : jobs'[j] = jobs[j]
      BY <2>4, WithFacts
    <3>3. Z \cap DOMAIN jobs = {}
      BY <2>5
    <3> QED
      BY <2>8, <3>1, <3>2, <3>3 DEF Dispatched
  <2>10. HeldAll' = HeldAll
    BY <1>1 DEF HeldAll
  <2>11. Life(DOMAIN jobs \cup Z, Dispatched \cup Z, loads, RequestsOut \cup Z,
              ReleasesOut, FinishesOut, DOMAIN owned, HeldAll, GrantsOut, DenialsOut,
              TimeoutsOut)
    BY <2>5, LifeNodes DEF LifeOK
  <2>12. Life(DOMAIN jobs', Dispatched', loads, RequestsOut', ReleasesOut', FinishesOut',
              DOMAIN owned, HeldAll, GrantsOut', DenialsOut, TimeoutsOut')
    BY <1>2, <2>7, <2>8, <2>9, <2>11, LifeShrinks
  <2>13. LifeOK'
    BY <1>1, <1>4, <2>10, <2>12 DEF LifeOK
  <2> QED
    BY <1>2, <2>7, <2>13 DEF OnceOK
<1> QED
  BY <1>5, <1>6 DEF receive_nodes

(* What is at the head of the mailbox. *)
LEMMA HeadIsAnswer ==
    ASSUME TInv, mailbox # << >>, NEW tag \in Answers, Head(mailbox).tag = tag
    PROVE  /\ Head(mailbox).job \in JobId
           /\ Head(mailbox) = Answer(Head(mailbox).job, tag)
           /\ Head(mailbox).job \in ToldOf(outbox, down, mailbox, tag)
<1>1. Head(mailbox) \in Mail /\ Head(mailbox) \in Range(mailbox)
  BY TailIsSlice DEF TInv, ErlOK, Range
<1>2. ASSUME NEW m \in Mail, m.tag = tag
      PROVE  m.job \in JobId /\ m = Answer(m.job, tag)
  BY <1>2 DEF Mail, Answers, Answer
<1> QED
  BY <1>1, <1>2 DEF ToldOf

LEMMA HeadIsFinish ==
    ASSUME TInv, mailbox # << >>, Head(mailbox).tag = "job_release"
    PROVE  /\ Head(mailbox).job \in JobId
           /\ Head(mailbox) = Finish(Head(mailbox).job)
           /\ Head(mailbox).job \in FinishesOut
<1>1. Head(mailbox) \in Mail /\ Head(mailbox) \in Range(mailbox)
  BY TailIsSlice DEF TInv, ErlOK, Range
<1>2. ASSUME NEW m \in Mail, m.tag = "job_release"
      PROVE  m.job \in JobId /\ m = Finish(m.job)
  BY <1>2 DEF Mail, Answers, Finish
<1> QED
  BY <1>1, <1>2 DEF FinishesOut, FinishedIn

LEMMA LReceiveGranted ==
    ASSUME TInv, OnceOK, LifeOK, receive_granted
    PROVE  OnceOK' /\ LifeOK'
<1> DEFINE j == Head(mailbox).job
           S == {j} \cap Grantable
           gr == [k \in S |-> "granted"]
<1>0. mailbox \in Seq(Mail) /\ mailbox # << >> /\ Head(mailbox).tag = "JOB_GRANTED"
  BY DEF TInv, ErlOK, receive_granted, Received
<1>1. /\ mailbox' = Tail(mailbox) /\ jobs' = With(jobs, gr) /\ loads' = loads \cup S
      /\ UNCHANGED <<outgoing, up, buf, owned, outbox, down>>
  BY DEF receive_granted, agentVars
<1>2. S = {j} \cap Dispatched
  BY DEF Grantable, Dispatched, TInv, ErlOK
<1>3. DOMAIN gr = S /\ \A k \in S : gr[k] = "granted"
  OBVIOUS
<1>4. j \in JobId /\ Head(mailbox) = Answer(j, "JOB_GRANTED") /\ j \in GrantsOut
  BY <1>0, HeadIsAnswer DEF GrantsOut, Answers
<1> HIDE DEF j, S, gr
<1>5. /\ GrantsOut' \subseteq GrantsOut /\ DenialsOut' \subseteq DenialsOut
      /\ TimeoutsOut' \subseteq TimeoutsOut /\ FinishesOut' \subseteq FinishesOut
      /\ GrantedOnce(outbox', down', mailbox')
  BY <1>0, <1>1, MailGone
<1>6. DenialsOut' = DenialsOut
  <2>1. \A k : Head(mailbox) # Answer(k, "JOB_DENIED")
    BY <1>0 DEF Answer
  <2>2. DenialsOut \subseteq DenialsOut'
    BY <1>0, <1>1, <2>1, MailGone
  <2> QED
    BY <1>5, <2>2
<1>7. j \notin GrantsOut'
  <2>1. Head(mailbox) \in Grants
    BY <1>4 DEF Grants, Grant
  <2>2. Head(mailbox) \notin Range(Tail(mailbox))
    BY <1>0, <2>1, TailLoses DEF OnceOK, GrantedOnce
  <2>3. Head(mailbox) \in Range(mailbox)
    BY <1>0, HeadTailRange
  <2>4. Head(mailbox) \notin outbox \cup Range(down)
    BY <2>1, <2>3 DEF OnceOK, GrantedOnce
  <2> QED
    BY <1>1, <1>4, <2>2, <2>4 DEF GrantsOut, ToldOf
<1>8. S \subseteq DOMAIN jobs
  BY <1>2 DEF Dispatched
<1>9. DOMAIN jobs' = DOMAIN jobs
  BY <1>1, <1>3, <1>8, WithFacts
<1>10. Dispatched' = Dispatched \ {j}
  <2>0. \A k \in DOMAIN gr : With(jobs, gr)[k] = gr[k]
    BY DEF With
  <2>1. \A k \in S : jobs'[k] = "granted"
    BY <1>1, <1>3, <2>0
  <2>2. \A k \in DOMAIN jobs \ S : jobs'[k] = jobs[k]
    BY <1>1, <1>3, WithFacts
  <2> QED
    BY <1>2, <1>8, <1>9, <2>1, <2>2 DEF Dispatched
<1>11. RequestsOut' = RequestsOut /\ ReleasesOut' = ReleasesOut
       /\ RequestedOnce(outgoing', up', buf')
  BY <1>1, SameText
<1>12. HeldAll' = HeldAll
  BY <1>1 DEF HeldAll
<1>13. Life(DOMAIN jobs, Dispatched \ {j}, loads \cup ({j} \cap Dispatched), RequestsOut,
            ReleasesOut, FinishesOut, DOMAIN owned, HeldAll, GrantsOut', DenialsOut,
            TimeoutsOut)
  <2>1. GrantsOut' \in SUBSET (GrantsOut \ {j})
    BY <1>5, <1>7
  <2> QED
    BY <1>4, <2>1, LifeGranted DEF LifeOK
<1>14. Life(DOMAIN jobs, Dispatched \ {j}, loads \cup ({j} \cap Dispatched), RequestsOut,
            ReleasesOut, FinishesOut', DOMAIN owned, HeldAll, GrantsOut', DenialsOut,
            TimeoutsOut')
  BY <1>5, <1>13, LifeShrinks
<1>15. LifeOK'
  BY <1>1, <1>2, <1>6, <1>9, <1>10, <1>11, <1>12, <1>14 DEF LifeOK
<1> QED
  BY <1>5, <1>11, <1>15 DEF OnceOK

LEMMA LReceiveRemoval ==
    ASSUME TInv, OnceOK, LifeOK, receive_removal
    PROVE  OnceOK' /\ LifeOK'
<1> DEFINE j == Head(mailbox).job
           X == Forgotten(j)
<1>0. /\ mailbox \in Seq(Mail) /\ mailbox # << >>
      /\ Head(mailbox).tag \in {"JOB_DENIED", "JOB_TIMEOUT", "job_release"}
  BY DEF TInv, ErlOK, receive_removal, Received
<1>1. /\ mailbox' = Tail(mailbox) /\ jobs' = Without(jobs, X)
      /\ UNCHANGED <<loads, outgoing, up, buf, owned, outbox, down>>
  BY DEF receive_removal, agentVars
<1>2. DOMAIN jobs' = DOMAIN jobs \ {j} /\ \A k \in DOMAIN jobs' : jobs'[k] = jobs[k]
  <2>0. X = {j} \cap DOMAIN jobs
    BY DEF Forgotten
  <2> HIDE DEF j, X
  <2>1. DOMAIN jobs' = DOMAIN jobs \ X
    BY <1>1, WithoutFacts
  <2>2. \A k \in DOMAIN jobs \ X : jobs'[k] = jobs[k]
    BY <1>1, WithoutFacts
  <2> QED
    BY <2>0, <2>1, <2>2
<1>3. j \in DenialsOut \cup TimeoutsOut \cup FinishesOut
  <2>1. CASE Head(mailbox).tag = "JOB_DENIED"
    BY <1>0, <2>1, HeadIsAnswer DEF DenialsOut, Answers
  <2>2. CASE Head(mailbox).tag = "JOB_TIMEOUT"
    BY <1>0, <2>2, HeadIsAnswer DEF TimeoutsOut, Answers
  <2>3. CASE Head(mailbox).tag = "job_release"
    BY <1>0, <2>3, HeadIsFinish
  <2> QED
    BY <1>0, <2>1, <2>2, <2>3
<1>4. \A k : Head(mailbox) = Answer(k, "JOB_DENIED") => k = j
  BY DEF Answer
<1> HIDE DEF j, X
<1>5. /\ GrantsOut' \subseteq GrantsOut /\ DenialsOut' \subseteq DenialsOut
      /\ TimeoutsOut' \subseteq TimeoutsOut /\ FinishesOut' \subseteq FinishesOut
      /\ GrantedOnce(outbox', down', mailbox')
  BY <1>0, <1>1, MailGone
<1>6. DenialsOut \ {j} \subseteq DenialsOut'
  BY <1>0, <1>1, <1>4, MailGone
<1>7. Dispatched' = Dispatched \ {j} /\ HeldAll' = HeldAll
  BY <1>1, <1>2 DEF Dispatched, HeldAll
<1>8. RequestsOut' = RequestsOut /\ ReleasesOut' = ReleasesOut
      /\ RequestedOnce(outgoing', up', buf')
  BY <1>1, SameText
<1>9. Life(DOMAIN jobs \ {j}, Dispatched \ {j}, loads, RequestsOut, ReleasesOut,
           FinishesOut, DOMAIN owned, HeldAll, GrantsOut, DenialsOut', TimeoutsOut)
  BY <1>3, <1>5, <1>6, LifeRemoval DEF LifeOK
<1>10. Life(DOMAIN jobs \ {j}, Dispatched \ {j}, loads, RequestsOut, ReleasesOut,
           FinishesOut', DOMAIN owned, HeldAll, GrantsOut', DenialsOut', TimeoutsOut')
  BY <1>5, <1>9, LifeShrinks
<1>11. LifeOK'
  BY <1>1, <1>2, <1>7, <1>8, <1>10 DEF LifeOK
<1> QED
  BY <1>5, <1>8, <1>11 DEF OnceOK

LEMMA LSimulateLoad ==
    ASSUME TInv, OnceOK, LifeOK, NEW j \in JobId, simulate_load(j)
    PROVE  /\ OnceOK' /\ LifeOK'
           /\ ReleasesOut' = ReleasesOut \cup {j}
           /\ FinishesOut' = FinishesOut \cup {j}
<1> DEFINE r == [kind |-> "release", job |-> j]
           f == Finish(j)
<1>0. mailbox \in Seq(Mail) /\ outgoing \in Seq(DirectiveSet) /\ j \in loads
  BY DEF TInv, ErlOK, simulate_load
<1>1. /\ r \in DirectiveSet /\ r.kind # "request"
      /\ f \in Mail /\ f.tag \notin Answers
  BY MailFacts DEF Finish, Answers
<1>2. {k \in JobId : r = [kind |-> "release", job |-> k]} = {j}
  BY PieceIsOne
<1>3. {k \in JobId : f = Finish(k)} = {j}
  BY DEF Finish
<1>4. /\ outgoing' = outgoing \o <<r>> /\ mailbox' = Append(mailbox, f)
      /\ loads' = loads \ {j}
      /\ UNCHANGED <<jobs, up, buf, owned, outbox, down>>
  BY DEF simulate_load, Directive, agentVars, Finish
<1> HIDE DEF r, f
<1>5. outgoing' = Append(outgoing, r)
  BY <1>0, <1>1, <1>4
<1>6. /\ RequestsOut' = RequestsOut /\ ReleasesOut' = ReleasesOut \cup {j}
      /\ RequestedOnce(outgoing', up', buf')
  <2> DEFINE o == Append(outgoing, r)
  <2>1. /\ Requested(o, up, buf) = Requested(outgoing, up, buf)
        /\ RequestedOnce(outgoing, up, buf) => RequestedOnce(o, up, buf)
        /\ ReleasedIn(o, up, buf) = ReleasedIn(outgoing, up, buf) \cup
              {k \in JobId : r = [kind |-> "release", job |-> k]}
    BY <1>0, <1>1, OtherDirective
  <2>2. outgoing' = o
    BY <1>5
  <2> HIDE DEF o
  <2> QED
    BY <1>2, <1>4, <2>1, <2>2 DEF RequestsOut, ReleasesOut, OnceOK
<1>7. /\ GrantsOut' = GrantsOut /\ DenialsOut' = DenialsOut /\ TimeoutsOut' = TimeoutsOut
      /\ FinishesOut' = FinishesOut \cup {j}
      /\ GrantedOnce(outbox', down', mailbox')
  <2> DEFINE m == Append(mailbox, f)
  <2>1. /\ \A tag \in Answers : ToldOf(outbox, down, m, tag) = ToldOf(outbox, down, mailbox, tag)
        /\ GrantedOnce(outbox, down, mailbox) => GrantedOnce(outbox, down, m)
        /\ FinishedIn(m) = FinishedIn(mailbox) \cup {k \in JobId : f = Finish(k)}
    BY <1>0, <1>1, OtherMail
  <2>2. mailbox' = m
    BY <1>4
  <2> HIDE DEF m
  <2>3. GrantsOut' = GrantsOut /\ DenialsOut' = DenialsOut /\ TimeoutsOut' = TimeoutsOut
    BY <1>4, <2>1, <2>2 DEF GrantsOut, DenialsOut, TimeoutsOut, Answers
  <2>4. FinishesOut' = FinishesOut \cup {j}
    BY <1>3, <2>1, <2>2 DEF FinishesOut
  <2>5. GrantedOnce(outbox', down', mailbox')
    BY <1>4, <2>1, <2>2 DEF OnceOK
  <2> QED
    BY <2>3, <2>4, <2>5
<1>8. Dispatched' = Dispatched /\ HeldAll' = HeldAll
  BY <1>4 DEF Dispatched, HeldAll
<1>9. LifeOK'
  BY <1>0, <1>4, <1>6, <1>7, <1>8, LifeWakes DEF LifeOK
<1> QED
  BY <1>6, <1>7, <1>9 DEF OnceOK

LEMMA LReceiveTcp ==
    ASSUME "fragment" \notin Faults, TextFits, TInv, OnceOK, LifeOK, receive_tcp_message
    PROVE  OnceOK' /\ LifeOK'
<1>1. buf' = up /\ up' = << >>
  BY ReadsAll
<1>2. up \in Seq(Word) /\ buf = << >> /\ Len(up) \in Nat
  BY DEF receive_tcp_message, TInv, StreamsOK
<1>3. /\ IsSlice(up, up, 0) /\ << >> \in Seq(Word) /\ IsSlice(<< >>, up, Len(up))
  BY <1>2 DEF IsSlice
<1>4. UNCHANGED <<jobs, loads, mailbox, outgoing, down, owned, outbox>>
  BY DEF receive_tcp_message, erlVars, agentVars
<1>5. /\ Requested(outgoing, up', buf') \subseteq Requested(outgoing, up, << >>)
      /\ ReleasedIn(outgoing, up', buf') \subseteq ReleasedIn(outgoing, up, << >>)
      /\ RequestedOnce(outgoing, up, << >>) => RequestedOnce(outgoing, up', buf')
  <2>1. /\ Requested(outgoing, << >>, up) \subseteq Requested(outgoing, up, << >>)
        /\ ReleasedIn(outgoing, << >>, up) \subseteq ReleasedIn(outgoing, up, << >>)
        /\ RequestedOnce(outgoing, up, << >>) => RequestedOnce(outgoing, << >>, up)
    <3>1. Len(up) <= Len(up)
      BY <1>2
    <3> QED
      BY <1>2, <1>3, <3>1, TextRead
  <2> QED
    BY <1>1, <2>1
<1>6. /\ RequestsOut' \subseteq RequestsOut /\ ReleasesOut' \subseteq ReleasesOut
      /\ RequestedOnce(outgoing', up', buf')
  BY <1>2, <1>4, <1>5 DEF RequestsOut, ReleasesOut, OnceOK
<1>7. LifeOK'
  BY <1>4, <1>6, SameMail, LQuiet
<1> QED
  BY <1>4, <1>6, <1>7, SameMail DEF OnceOK

(* A line the agent takes is the head of a command, and names its job. *)
LEMMA LineHead ==
    ASSUME TInv, buf # << >>, Whole(buf),
           NEW c \in {"JOB_REQUEST", "JOB_RELEASE"}, Is(c), Parts("id") = 1
    PROVE  buf[1] = Piece(c, Number, "head")
<1>1. Line[1] = buf[1] /\ buf[1] \in Word
  BY LineFacts DEF TInv, StreamsOK
<1>2. buf[1].part = "head" /\ buf[1].cmd = c
  BY <1>1 DEF Is
<1>3. PICK i \in 1 .. LineEnd : Number = buf[i].job /\ buf[i].part = "id"
  BY NumberIs
<1>4. Number = buf[1].job
  BY <1>3, WholeLine
<1>5. buf[1] = Piece(buf[1].cmd, buf[1].job, buf[1].part)
  BY <1>1, <1>2, PieceOf
<1> QED
  BY <1>2, <1>4, <1>5

LEMMA LHandleLine ==
    ASSUME TInv, Whole(buf), OnceOK, LifeOK, handle_line
    PROVE  OnceOK' /\ LifeOK'
<1>0. /\ buf \in Seq(Word) /\ buf # << >>
      /\ buf' = SubSeq(buf, LineEnd + 1, Len(buf))
      /\ UNCHANGED <<jobs, loads, mailbox, outgoing, up, outbox>>
  BY DEF TInv, StreamsOK, handle_line, erlVars
<1>1. buf' \in Seq(Word) /\ IsSlice(buf', buf, LineEnd) /\ LineEnd \in Nat \ {0}
  <2>1. LineEnd \in 1 .. Len(buf)
    BY <1>0, LineFacts
  <2>2. LineEnd \in Nat \ {0}
    BY <2>1
  <2> QED
    BY <1>0, <2>2, RestFacts
<1>2. /\ Requested(outgoing, up, buf') \subseteq Requested(outgoing, up, buf)
      /\ ReleasedIn(outgoing, up, buf') \subseteq ReleasedIn(outgoing, up, buf)
      /\ RequestedOnce(outgoing, up, buf) => RequestedOnce(outgoing, up, buf')
      /\ \A j \in JobId : buf[1] = ReqHead(j) =>
            /\ j \in Requested(outgoing, up, buf)
            /\ RequestedOnce(outgoing, up, buf) => j \notin Requested(outgoing, up, buf')
      /\ \A j \in JobId : buf[1] = RelHead(j) => j \in ReleasedIn(outgoing, up, buf)
  <2>1. buf \in Seq(Word) /\ buf # << >>
    BY <1>0
  <2> QED
    BY <1>1, <2>1, TextHandled
<1>3. /\ RequestsOut' \subseteq RequestsOut /\ ReleasesOut' \subseteq ReleasesOut
      /\ RequestedOnce(outgoing', up', buf')
      /\ \A j \in JobId : buf[1] = ReqHead(j) => j \in RequestsOut /\ j \notin RequestsOut'
      /\ \A j \in JobId : buf[1] = RelHead(j) => j \in ReleasesOut
  BY <1>0, <1>2 DEF RequestsOut, ReleasesOut, OnceOK
<1> HIDE DEF RequestsOut, ReleasesOut
<1>4. Dispatched' = Dispatched
  BY <1>0 DEF Dispatched
<1>5. ASSUME NEW n \in 0 .. MaxSize, LineRecords(n)
      PROVE  OnceOK' /\ LifeOK'
  <2> DEFINE y == Number
             r == [asked |-> n, granted |-> FALSE]
             g == [j \in {y} |-> r]
  <2>1. owned' = With(owned, g) /\ y \in JobId /\ UNCHANGED down
    BY <1>5 DEF LineRecords
  <2>2. buf[1] = ReqHead(y)
    BY <1>0, <1>5, LineHead DEF LineRecords, ReqHead
  <2>3. DOMAIN g = {y} /\ g[y] = r
    OBVIOUS
  <2>4. r.granted # TRUE
    OBVIOUS
  <2> HIDE DEF y, r, g
  <2>5. y \in RequestsOut /\ RequestsOut' \in SUBSET (RequestsOut \ {y})
    BY <1>3, <2>1, <2>2
  <2>6. DOMAIN owned' = DOMAIN owned \cup {y}
    BY <2>1, <2>3, WithFacts
  <2>7. HeldAll' = HeldAll
    <3>1. With(owned, g)[y] = g[y]
      BY <2>3 DEF With
    <3>2. \A k \in DOMAIN owned \ {y} : owned'[k] = owned[k]
      BY <2>1, <2>3, WithFacts
    <3>3. y \notin DOMAIN owned
      BY <2>5 DEF LifeOK, Life
    <3>4. owned'[y].granted # TRUE
      BY <2>1, <2>3, <2>4, <3>1
    <3> QED
      BY <2>6, <3>2, <3>3, <3>4 DEF HeldAll
  <2>8. Life(DOMAIN jobs, Dispatched, loads, RequestsOut', ReleasesOut, FinishesOut,
             DOMAIN owned \cup {y}, HeldAll, GrantsOut, DenialsOut, TimeoutsOut)
    BY <2>5, LifeRecords DEF LifeOK
  <2>9. /\ FinishesOut' = FinishesOut /\ GrantsOut' = GrantsOut
        /\ DenialsOut' = DenialsOut /\ TimeoutsOut' = TimeoutsOut
        /\ GrantedOnce(outbox', down', mailbox')
    BY <1>0, <2>1, SameMail
  <2>10. Life(DOMAIN jobs, Dispatched, loads, RequestsOut', ReleasesOut', FinishesOut,
              DOMAIN owned \cup {y}, HeldAll, GrantsOut, DenialsOut, TimeoutsOut)
    BY <1>3, <2>8, LifeShrinks
  <2>11. LifeOK'
    BY <1>0, <1>4, <2>6, <2>7, <2>9, <2>10 DEF LifeOK
  <2> QED
    BY <1>3, <2>9, <2>11 DEF OnceOK
<1>6. CASE LineReleases
  <2> DEFINE y == Number
             X == Released(y)
  <2>1. owned' = Without(owned, X) /\ y \in JobId /\ UNCHANGED down
    BY <1>6 DEF LineReleases
  <2>2. buf[1] = RelHead(y)
    BY <1>0, <1>6, LineHead DEF LineReleases, RelHead
  <2>3. X = {y} \cap DOMAIN owned
    BY DEF Released
  <2> HIDE DEF y, X
  <2>4. y \in ReleasesOut
    BY <1>3, <2>1, <2>2
  <2>5. DOMAIN owned' = DOMAIN owned \ X
    BY <2>1, WithoutFacts
  <2>6. \A k \in DOMAIN owned \ X : owned'[k] = owned[k]
    BY <2>1, WithoutFacts
  <2>7. DOMAIN owned' = DOMAIN owned \ {y} /\ HeldAll' = HeldAll \ {y}
    BY <2>3, <2>5, <2>6 DEF HeldAll
  <2>8. Life(DOMAIN jobs, Dispatched, loads, RequestsOut, ReleasesOut, FinishesOut,
             DOMAIN owned \ {y}, HeldAll \ {y}, GrantsOut, DenialsOut, TimeoutsOut)
    BY <2>4, LifeReleases DEF LifeOK
  <2>9. /\ FinishesOut' = FinishesOut /\ GrantsOut' = GrantsOut
        /\ DenialsOut' = DenialsOut /\ TimeoutsOut' = TimeoutsOut
        /\ GrantedOnce(outbox', down', mailbox')
    BY <1>0, <2>1, SameMail
  <2>10. Life(DOMAIN jobs, Dispatched, loads, RequestsOut', ReleasesOut', FinishesOut,
              DOMAIN owned \ {y}, HeldAll \ {y}, GrantsOut, DenialsOut, TimeoutsOut)
    BY <1>3, <2>8, LifeShrinks
  <2>11. LifeOK'
    BY <1>0, <1>4, <2>7, <2>9, <2>10 DEF LifeOK
  <2> QED
    BY <1>3, <2>9, <2>11 DEF OnceOK
<1>7. CASE LineAsksNodes
  <2>1. PICK some \in BOOLEAN :
           down' = IF conn = "open" THEN Append(down, [tag |-> "NODES", some |-> some])
                   ELSE down
    BY <1>7 DEF LineAsksNodes
  <2> DEFINE x == [tag |-> "NODES", some |-> some]
  <2>2. x \in DownLine /\ x.tag \notin Answers
    BY MailFacts DEF Answers
  <2> HIDE DEF x
  <2>3. down' = Append(down, x) \/ down' = down
    BY <2>1 DEF x
  <2>3a. UNCHANGED owned /\ down \in Seq(DownLine)
    BY <1>7 DEF LineAsksNodes, TInv, StreamsOK
  <2>4. /\ \A tag \in Answers : ToldOf(outbox, down', mailbox, tag) = ToldOf(outbox, down, mailbox, tag)
        /\ GrantedOnce(outbox, down', mailbox)
    <3>1. CASE down' = down
      BY <3>1 DEF OnceOK
    <3>2. CASE down' = Append(down, x)
      BY <2>2, <2>3a, <3>2, OtherLine DEF OnceOK
    <3> QED
      BY <2>3, <3>1, <3>2
  <2>5. GrantsOut' = GrantsOut /\ DenialsOut' = DenialsOut /\ TimeoutsOut' = TimeoutsOut
        /\ FinishesOut' = FinishesOut
    BY <1>0, <2>4 DEF GrantsOut, DenialsOut, TimeoutsOut, FinishesOut, Answers
  <2>6. LifeOK'
    BY <1>0, <1>3, <2>3a, <2>5, LQuiet
  <2> QED
    BY <1>0, <1>3, <2>4, <2>6 DEF OnceOK
<1>8. CASE LineIsIgnored
  <2>1. UNCHANGED <<owned, down>>
    BY <1>8 DEF LineIsIgnored
  <2>2. LifeOK'
    BY <1>0, <1>3, <2>1, SameMail, LQuiet
  <2> QED
    BY <1>0, <1>3, <2>1, <2>2, SameMail DEF OnceOK
<1> QED
  BY <1>5, <1>6, <1>7, <1>8, LineCases

LEMMA LAnswer ==
    ASSUME TInv, OnceOK, LifeOK, NEW j \in JobId, answer(j)
    PROVE  OnceOK' /\ LifeOK'
<1>0. /\ j \in DOMAIN owned
      /\ UNCHANGED <<jobs, loads, mailbox, outgoing, up, buf, down>>
  BY AnswerCases DEF erlVars
<1>1. RequestsOut' = RequestsOut /\ ReleasesOut' = ReleasesOut
      /\ RequestedOnce(outgoing', up', buf')
  BY <1>0, SameText
<1>2. Dispatched' = Dispatched /\ FinishesOut' = FinishesOut
  BY <1>0 DEF Dispatched, FinishesOut
<1>3. ASSUME NEW tag \in Answers, outbox' = outbox \cup {Answer(j, tag)},
             tag = "JOB_GRANTED" => j \notin GrantsOut
      PROVE  /\ GrantedOnce(outbox', down', mailbox')
             /\ GrantsOut' = IF tag = "JOB_GRANTED" THEN GrantsOut \cup {j} ELSE GrantsOut
             /\ DenialsOut' = IF tag = "JOB_DENIED" THEN DenialsOut \cup {j} ELSE DenialsOut
             /\ TimeoutsOut' = IF tag = "JOB_TIMEOUT" THEN TimeoutsOut \cup {j} ELSE TimeoutsOut
  <2> DEFINE x == outbox \cup {Answer(j, tag)}
  <2>1. /\ ToldOf(x, down, mailbox, tag) = ToldOf(outbox, down, mailbox, tag) \cup {j}
        /\ \A t : t # tag => ToldOf(x, down, mailbox, t) = ToldOf(outbox, down, mailbox, t)
        /\ /\ GrantedOnce(outbox, down, mailbox)
           /\ tag = "JOB_GRANTED" => j \notin ToldOf(outbox, down, mailbox, tag)
           => GrantedOnce(x, down, mailbox)
    BY AnswerMade
  <2>2. outbox' = x
    BY <1>3
  <2> HIDE DEF x
  <2>3. GrantedOnce(outbox', down', mailbox')
    BY <1>0, <1>3, <2>1, <2>2 DEF GrantsOut, OnceOK
  <2>4. GrantsOut' = IF tag = "JOB_GRANTED" THEN GrantsOut \cup {j} ELSE GrantsOut
    BY <1>0, <2>1, <2>2 DEF GrantsOut
  <2>5. DenialsOut' = IF tag = "JOB_DENIED" THEN DenialsOut \cup {j} ELSE DenialsOut
    BY <1>0, <2>1, <2>2 DEF DenialsOut
  <2>6. TimeoutsOut' = IF tag = "JOB_TIMEOUT" THEN TimeoutsOut \cup {j} ELSE TimeoutsOut
    BY <1>0, <2>1, <2>2 DEF TimeoutsOut
  <2> QED
    BY <2>3, <2>4, <2>5, <2>6
<1>4. HeldAll \subseteq DOMAIN owned
  BY DEF HeldAll
<1>5. CASE Grants1(j)
  <2>1. j \in DOMAIN owned \ HeldAll
    BY <1>0, <1>5 DEF Grants1, HeldAll
  <2>2. j \notin GrantsOut
    BY <2>1 DEF LifeOK, Life
  <2>3. outbox' = outbox \cup {Answer(j, "JOB_GRANTED")}
    BY <1>5 DEF Grants1
  <2>4. /\ GrantedOnce(outbox', down', mailbox') /\ GrantsOut' = GrantsOut \cup {j}
        /\ DenialsOut' = DenialsOut /\ TimeoutsOut' = TimeoutsOut
    BY <1>3, <2>2, <2>3 DEF Answers
  <2>5. /\ DOMAIN owned' = DOMAIN owned
        /\ \A k \in DOMAIN owned : k # j => owned'[k] = owned[k]
        /\ owned'[j].granted = TRUE
    BY <1>0, <1>5, GrantFacts DEF Grants1
  <2>6. HeldAll' = HeldAll \cup {j}
    BY <1>0, <2>5 DEF HeldAll
  <2>7. LifeOK'
    BY <1>0, <1>1, <1>2, <2>1, <2>4, <2>5, <2>6, LifeGrants DEF LifeOK
  <2> QED
    BY <1>1, <2>4, <2>7 DEF OnceOK
<1>6. ASSUME NEW tag, Drops1(j, tag)
      PROVE  DOMAIN owned' = DOMAIN owned \ {j} /\ HeldAll' = HeldAll \ {j}
  <2>1. owned' = Without(owned, {j})
    BY <1>6 DEF Drops1
  <2>2. DOMAIN owned' = DOMAIN owned \ {j}
    BY <2>1, WithoutFacts
  <2>3. \A k \in DOMAIN owned \ {j} : owned'[k] = owned[k]
    BY <2>1, WithoutFacts
  <2> QED
    BY <2>2, <2>3 DEF HeldAll
<1>7. CASE Drops1(j, "JOB_DENIED")
  <2>1. outbox' = outbox \cup {Answer(j, "JOB_DENIED")}
    BY <1>7 DEF Drops1
  <2>2. /\ GrantedOnce(outbox', down', mailbox') /\ GrantsOut' = GrantsOut
        /\ DenialsOut' = DenialsOut \cup {j} /\ TimeoutsOut' = TimeoutsOut
    BY <1>3, <2>1 DEF Answers
  <2>3. DOMAIN owned' = DOMAIN owned \ {j} /\ HeldAll' = HeldAll \ {j}
    BY <1>6, <1>7
  <2>4. LifeOK'
    BY <1>0, <1>1, <1>2, <2>2, <2>3, LifeDenies DEF LifeOK
  <2> QED
    BY <1>1, <2>2, <2>4 DEF OnceOK
<1>8. CASE Drops1(j, "JOB_TIMEOUT")
  <2>0. j \in DOMAIN owned \ HeldAll
    BY <1>0, <1>8 DEF Drops1, HeldAll
  <2>1. outbox' = outbox \cup {Answer(j, "JOB_TIMEOUT")}
    BY <1>8 DEF Drops1
  <2>2. /\ GrantedOnce(outbox', down', mailbox') /\ GrantsOut' = GrantsOut
        /\ DenialsOut' = DenialsOut /\ TimeoutsOut' = TimeoutsOut \cup {j}
    BY <1>3, <2>1 DEF Answers
  <2>3. DOMAIN owned' = DOMAIN owned \ {j} /\ HeldAll' = HeldAll \ {j}
    BY <1>6, <1>8
  <2>4. LifeOK'
    BY <1>0, <1>1, <1>2, <2>0, <2>2, <2>3, LifeTimesOut DEF LifeOK
  <2> QED
    BY <1>1, <2>2, <2>4 DEF OnceOK
<1> QED
  BY <1>5, <1>7, <1>8, AnswerCases

LEMMA LSendAnswer ==
    ASSUME TInv, OnceOK, LifeOK, conn = "open",
           NEW a \in [tag : Answers, job : JobId], send_answer(a)
    PROVE  OnceOK' /\ LifeOK'
<1>0. down \in Seq(DownLine) /\ a \in outbox /\ a \in DownLine
  BY MailFacts DEF send_answer, TInv, StreamsOK
<1>1. /\ outbox' = outbox \ {a} /\ down' = Append(down, a)
      /\ UNCHANGED <<jobs, loads, mailbox, outgoing, up, buf, owned>>
  BY DEF send_answer, erlVars
<1>2. /\ \A tag : ToldOf(outbox', down', mailbox, tag) = ToldOf(outbox, down, mailbox, tag)
      /\ GrantedOnce(outbox', down', mailbox)
  BY <1>0, <1>1, AnswerSent DEF OnceOK
<1>3. /\ GrantsOut' = GrantsOut /\ DenialsOut' = DenialsOut /\ TimeoutsOut' = TimeoutsOut
      /\ FinishesOut' = FinishesOut
  BY <1>1, <1>2 DEF GrantsOut, DenialsOut, TimeoutsOut, FinishesOut
<1>4. LifeOK'
  BY <1>1, <1>3, SameText, LQuiet
<1> QED
  BY <1>1, <1>2, <1>4, SameText DEF OnceOK

(* A new connection starts with nothing. *)
LEMMA LConnect ==
    ASSUME TInv, connect, conn' = "open"
    PROVE  OnceOK' /\ LifeOK'
<1>0. /\ conn = "none" /\ proc = "connect"
      /\ DOMAIN jobs = {} /\ loads = {} /\ DOMAIN owned = {} /\ outbox = {}
      /\ outgoing = << >> /\ down = << >> /\ up = << >> /\ buf = << >>
  BY DEF TInv, Ends, StreamsOK, connect
<1>1. /\ mailbox' = <<[tag |-> "sender_pid"]>>
      /\ UNCHANGED <<jobs, loads, outgoing, up, buf, down, owned, outbox>>
  BY <1>0 DEF connect, agentVars
<1>2. DOMAIN << >> = {}
  OBVIOUS
<1> DEFINE m == <<[tag |-> "sender_pid"]>>
           w == [tag |-> "sender_pid"]
<1>3. DOMAIN m = {1} /\ m[1] = w /\ w.tag = "sender_pid"
  OBVIOUS
<1> HIDE DEF m, w
<1>4. \A j : w # Finish(j) /\ \A tag \in Answers : w # Answer(j, tag)
  BY <1>3 DEF Finish, Answer, Answers
<1>5. Range(m) = {w} /\ \A M : Once(m, M)
  BY <1>3 DEF Range, Once
<1>6. mailbox' = m
  BY <1>1 DEF m
<1>7. Range(<< >>) = {} /\ \A M : Once(<< >>, M)
  BY <1>2 DEF Range, Once
<1>8. OnceOK'
  <2>1. DirectedOnce(<< >>) /\ Directed(<< >>) = {} /\ Texted(<< >>) = {}
    BY <1>2, <1>7 DEF DirectedOnce, Directed, Texted
  <2>2. RequestedOnce(outgoing', up', buf')
    BY <1>0, <1>1, <1>7, <2>1 DEF RequestedOnce
  <2>3. w \notin Grants
    BY <1>4 DEF Grants, Grant, Answers
  <2>4. GrantedOnce(outbox', down', mailbox')
    BY <1>0, <1>1, <1>5, <1>6, <1>7, <2>3 DEF GrantedOnce
  <2> QED
    BY <2>2, <2>4 DEF OnceOK
<1>9. RequestsOut' = {} /\ ReleasesOut' = {} /\ FinishesOut' = {}
      /\ GrantsOut' = {} /\ DenialsOut' = {} /\ TimeoutsOut' = {}
  <2>1. RequestsOut' = {}
    BY <1>0, <1>1, <1>2, <1>7 DEF RequestsOut, Requested, Directed, Texted
  <2>2. ReleasesOut' = {}
    BY <1>0, <1>1, <1>7 DEF ReleasesOut, ReleasedIn
  <2>3. FinishesOut' = {}
    BY <1>4, <1>5, <1>6 DEF FinishesOut, FinishedIn
  <2>4. \A tag \in Answers : ToldOf({}, << >>, m, tag) = {}
    BY <1>4, <1>5, <1>7 DEF ToldOf
  <2>5. outbox' = {} /\ down' = << >>
    BY <1>0, <1>1
  <2>6. GrantsOut' = {} /\ DenialsOut' = {} /\ TimeoutsOut' = {}
    BY <1>6, <2>4, <2>5 DEF GrantsOut, DenialsOut, TimeoutsOut, Answers
  <2> QED
    BY <2>1, <2>2, <2>3, <2>6
<1>10. DOMAIN jobs' = {} /\ loads' = {} /\ DOMAIN owned' = {} /\ Dispatched' = {} /\ HeldAll' = {}
  BY <1>0, <1>1 DEF Dispatched, HeldAll
<1>11. LifeOK'
  BY <1>9, <1>10 DEF LifeOK, Life
<1> QED
  BY <1>8, <1>11

(* Only connect opens a connection. *)
LEMMA OpensByConnect ==
    ASSUME [Next]_vars, conn' = "open", conn # "open"
    PROVE  connect
<1>0. conn' # conn
  OBVIOUS
<1>1. ASSUME start \/ crash \/ receive_error \/ client_disconnected \/ agent_dies PROVE FALSE
  BY <1>1 DEF start, crash, receive_error, Stopped, client_disconnected, agent_dies
<1>2. ASSUME request_nodes \/ sender \/ receiver \/ receive_pids \/ receive_nodes
             \/ receive_granted \/ receive_removal \/ receive_tcp_message
             \/ handle_line \/ agent_starts \/ UNCHANGED vars
      PROVE  FALSE
  BY <1>0, <1>2 DEF request_nodes, sender, receiver, receive_pids, receive_nodes,
     receive_granted, receive_removal, receive_tcp_message, handle_line,
     agent_starts, vars
<1>3. ASSUME NEW j \in JobId, simulate_load(j) \/ answer(j) PROVE FALSE
  BY <1>0, <1>3 DEF simulate_load, answer
<1>4. ASSUME NEW a \in [tag : Answers, job : JobId], send_answer(a) PROVE FALSE
  BY <1>0, <1>4 DEF send_answer
<1> QED
  BY <1>1, <1>2, <1>3, <1>4 DEF Next, Receive

LEMMA LNext ==
    ASSUME "fragment" \notin Faults, LInv, TextFits, [Next]_vars
    PROVE  LInv'
<1>0. TInv /\ TInv' /\ Whole(buf) /\ Whole(up)' /\ Whole(buf)'
  BY TNext, WholeStep DEF LInv
<1> SUFFICES ASSUME conn' = "open" PROVE OnceOK' /\ LifeOK'
  BY <1>0 DEF LInv
<1>1. ASSUME start PROVE FALSE
  BY <1>1 DEF start
<1>2. ASSUME connect PROVE OnceOK' /\ LifeOK'
  BY <1>0, <1>2, LConnect
<1>3. ASSUME crash \/ receive_error PROVE FALSE
  BY <1>3 DEF crash, receive_error, Stopped
<1>4. ASSUME client_disconnected \/ agent_dies PROVE FALSE
  BY <1>4 DEF client_disconnected, agent_dies
<1>5. CASE conn = "open"
  <2>0. OnceOK /\ LifeOK
    BY <1>5 DEF LInv
  <2>1. ASSUME NEW j \in JobId, simulate_load(j) \/ answer(j) PROVE OnceOK' /\ LifeOK'
    BY <1>0, <2>0, <2>1, LSimulateLoad, LAnswer
  <2>2. ASSUME NEW a \in [tag : Answers, job : JobId], send_answer(a)
        PROVE  OnceOK' /\ LifeOK'
    BY <1>0, <1>5, <2>0, <2>2, LSendAnswer
  <2>3. ASSUME agent_starts \/ UNCHANGED vars PROVE OnceOK' /\ LifeOK'
    <3>1. UNCHANGED <<jobs, loads, mailbox, outgoing, up, buf, down, owned, outbox>>
      BY <2>3 DEF agent_starts, vars, erlVars, agentVars
    <3>2. LifeOK'
      BY <2>0, <3>1, SameText, SameMail, LQuiet
    <3> QED
      BY <2>0, <3>1, <3>2, SameText, SameMail DEF OnceOK
  <2>4. ASSUME request_nodes \/ sender \/ receiver PROVE OnceOK' /\ LifeOK'
    BY <1>0, <1>5, <2>0, <2>4, LRequestNodes, LSender, LReceiver
  <2>5. ASSUME receive_pids \/ receive_nodes \/ receive_granted \/ receive_removal
        PROVE  OnceOK' /\ LifeOK'
    BY <1>0, <2>0, <2>5, LReceivePids, LReceiveNodes, LReceiveGranted, LReceiveRemoval
  <2>6. ASSUME receive_tcp_message \/ handle_line PROVE OnceOK' /\ LifeOK'
    BY <1>0, <2>0, <2>6, LReceiveTcp, LHandleLine
  <2> QED
    BY <1>1, <1>2, <1>3, <1>4, <2>1, <2>2, <2>3, <2>4, <2>5, <2>6 DEF Next, Receive
<1>6. CASE conn # "open"
  <2>1. connect
    BY <1>6, OpensByConnect
  <2> QED
    BY <1>2, <2>1
<1> QED
  BY <1>5, <1>6

LEMMA LInit == Init => LInv
<1>1. Init => TInv /\ conn = "none" /\ up = << >> /\ buf = << >>
  BY TInit DEF Init
<1> QED
  BY <1>1, EmptyIsWhole DEF LInv

(* The scheduler runs no job it does not hold: if the text reaches the     *)
(* agent in whole lines - no read ends inside one and no more is sent than *)
(* a bufferful - then, whatever the order in which grants, denials,        *)
(* timeouts and releases cross and whoever crashes, a job whose load runs  *)
(* is granted at the agent or its JOB_DENIED has not been read yet.  (A    *)
(* JOB_RELEASE cut inside its number may release another job.)             *)
THEOREM NothingRunsUnheld ==
    ASSUME "fragment" \notin Faults
    PROVE  Spec /\ []TextFits => []RunningIsHeld
<1>0. LInv /\ TextFits /\ [Next]_vars => LInv'
  BY LNext
<1>1. LInv => RunningIsHeld
  <2> SUFFICES ASSUME LInv, conn = "open", NEW j \in loads \cap DOMAIN jobs
               PROVE  \/ j \in DOMAIN owned /\ owned[j].granted
                      \/ Told(j, "JOB_DENIED")
    BY DEF RunningIsHeld
  <2>1. j \in HeldAll \/ j \in DenialsOut
    BY DEF LInv, LifeOK, Life
  <2>2. j \in HeldAll => j \in DOMAIN owned /\ owned[j].granted
    BY DEF HeldAll
  <2>3. j \in DenialsOut => Told(j, "JOB_DENIED")
    BY DEF DenialsOut, ToldOf, Told
  <2> QED
    BY <2>1, <2>2, <2>3
<1> QED
  BY <1>0, <1>1, LInit, PTL DEF Spec

----------------------------------------------------------------------------
(* AgentJobHasOwner: jobs that have an owner. *)

(* The part of LifeOK the ownership of jobs rests on. *)
LEMMA LifeGives ==
    ASSUME LifeOK
    PROVE  /\ RequestsOut \subseteq DOMAIN jobs
           /\ RequestsOut \cap FinishesOut = {}
           /\ (DenialsOut \cup TimeoutsOut) \cap DOMAIN owned = {}
BY DEF LifeOK, Life, Dispatched

LEMMA OQuiet ==
    ASSUME OwnedNow, DOMAIN jobs \subseteq DOMAIN jobs', ReleasesOut \subseteq ReleasesOut',
           FinishesOut' \subseteq FinishesOut, DOMAIN owned' \subseteq DOMAIN owned
    PROVE  OwnedNow'
BY DEF OwnedNow, OwnedOK

(* The agent handles a line. *)
LEMMA OHandleLine ==
    ASSUME TInv, OnceOK, LifeOK, OwnedNow, Whole(buf), handle_line
    PROVE  OwnedNow'
<1>0. /\ buf \in Seq(Word) /\ buf # << >> /\ UNCHANGED <<jobs, mailbox, outgoing, up>>
  BY DEF TInv, StreamsOK, handle_line, erlVars
<1>1. buf' = SubSeq(buf, LineEnd + 1, Len(buf))
  BY DEF handle_line
<1>2. buf' \in Seq(Word) /\ IsSlice(buf', buf, LineEnd) /\ LineEnd + Len(buf') = Len(buf)
  BY <1>0, <1>1, RestFacts
<1>3. FinishesOut' = FinishesOut /\ DOMAIN jobs' = DOMAIN jobs
  BY <1>0 DEF FinishesOut
<1>4. \A j \in ReleasesOut : buf[1] = RelHead(j) \/ j \in ReleasesOut'
  <2> SUFFICES ASSUME NEW j \in ReleasesOut, buf[1] # RelHead(j) PROVE j \in ReleasesOut'
    OBVIOUS
  <2>1. ASSUME NEW c \in Seq(Word), IsSlice(c, buf, LineEnd), LineEnd + Len(c) = Len(buf),
               RelHead(j) \in Range(buf)
        PROVE  RelHead(j) \in Range(c)
    BY <1>0, <2>1, ReleaseStays
  <2>2. RelHead(j) \in Range(buf) => RelHead(j) \in Range(buf')
    BY <1>2, <2>1, Zenon
  <2> QED
    BY <1>0, <2>2 DEF ReleasesOut, ReleasedIn
<1>5. ASSUME \A j \in JobId : buf[1] # RelHead(j)
      PROVE  ReleasesOut \subseteq ReleasesOut'
  BY <1>4, <1>5 DEF ReleasesOut, ReleasedIn
<1>6. Line[1] = buf[1] /\ buf[1] \in Word
  BY <1>0, LineFacts
<1>6a. \A j : RelHead(j).cmd = "JOB_RELEASE" /\ RelHead(j).part = "head"
  BY PieceFields DEF RelHead
<1>7. ASSUME NEW n \in 0 .. MaxSize, LineRecords(n) PROVE OwnedNow'
  <2> DEFINE y == Number
             g == [j \in {y} |-> [asked |-> n, granted |-> FALSE]]
  <2>1. owned' = With(owned, g) /\ DOMAIN g = {y} /\ y \in JobId
    BY <1>7 DEF LineRecords
  <2>2. buf[1] = ReqHead(y)
    BY <1>0, <1>7, LineHead DEF LineRecords, ReqHead
  <2> HIDE DEF y, g
  <2>3. DOMAIN owned' = DOMAIN owned \cup {y}
    BY <2>1, WithFacts
  <2>4. ReleasesOut \subseteq ReleasesOut'
    BY <1>5, <2>2, PieceIsOne
  <2>5. y \in RequestsOut
    <3>1. 1 \in DOMAIN buf
      BY <1>0
    <3>2. ReqHead(y) \in Range(buf)
      BY <2>2, <3>1 DEF Range
    <3> QED
      BY <2>1, <3>2 DEF RequestsOut, Requested, Texted
  <2>6. y \in DOMAIN jobs /\ y \notin FinishesOut
    BY <2>5, LifeGives
  <2> QED
    BY <1>3, <2>3, <2>4, <2>6 DEF OwnedNow, OwnedOK
<1>8. CASE LineReleases
  <2> DEFINE y == Number
  <2>1. owned' = Without(owned, Released(y)) /\ y \in JobId
    BY <1>8 DEF LineReleases
  <2>2. buf[1] = RelHead(y)
    BY <1>0, <1>8, LineHead DEF LineReleases, RelHead
  <2> HIDE DEF y
  <2>3. DOMAIN owned' = DOMAIN owned \ {y}
    BY <2>1, WithoutFacts DEF Released
  <2>4. ReleasesOut \ {y} \subseteq ReleasesOut'
    BY <1>4, <2>2, PieceIsOne
  <2> QED
    BY <1>3, <2>3, <2>4 DEF OwnedNow, OwnedOK
<1>9. CASE LineAsksNodes
  <2>1. buf[1].cmd = "GET_NODES" /\ UNCHANGED owned
    BY <1>6, <1>9 DEF LineAsksNodes, Is
  <2>2. ReleasesOut \subseteq ReleasesOut'
    BY <1>5, <1>6a, <2>1
  <2> QED
    BY <1>3, <2>1, <2>2, OQuiet
<1>10. CASE LineIsIgnored
  <2>1. UNCHANGED owned
    BY <1>10 DEF LineIsIgnored
  <2>2. ASSUME NEW j \in JobId, buf[1] = RelHead(j) PROVE FALSE
    <3>1. Is("JOB_RELEASE") /\ Parts("id") = 1
      BY <1>0, <2>2, WholeLine
    <3>2. Line[1].part = "head"
      BY <3>1 DEF Is
    <3> QED
      BY <1>10, <3>1, <3>2 DEF LineIsIgnored
  <2>3. ReleasesOut \subseteq ReleasesOut'
    BY <1>5, <2>2
  <2> QED
    BY <1>3, <2>1, <2>3, OQuiet
<1> QED
  BY <1>7, <1>8, <1>9, <1>10, LineCases

(* The messages that move and change neither table. *)
LEMMA OMoves ==
    ASSUME "fragment" \notin Faults, TInv, OnceOK, TextFits, OwnedNow, conn = "open",
           request_nodes \/ sender \/ receiver \/ receive_tcp_message
    PROVE  OwnedNow'
<1>1. ASSUME request_nodes PROVE OwnedNow'
  <2>0. outgoing \in Seq(DirectiveSet) /\ [kind |-> "get_nodes"] \in DirectiveSet
    BY MailFacts DEF TInv, ErlOK
  <2>1. UNCHANGED <<jobs, owned, mailbox, up, buf>>
    BY <1>1 DEF request_nodes, agentVars
  <2> DEFINE y == [kind |-> "get_nodes"]
  <2>2. outgoing' = Append(outgoing, y)
    BY <1>1 DEF request_nodes
  <2> HIDE DEF y
  <2>3. Range(outgoing') = Range(outgoing) \cup {y}
    BY <2>0, <2>2, AppendRange DEF y
  <2>4. ReleasesOut \subseteq ReleasesOut' /\ FinishesOut' = FinishesOut
    BY <2>1, <2>3 DEF ReleasesOut, ReleasedIn, FinishesOut
  <2> QED
    BY <2>1, <2>4, OQuiet
<1>2. ASSUME sender PROVE OwnedNow'
  <2>0. outgoing \in Seq(DirectiveSet) /\ up \in Seq(Word) /\ outgoing # << >>
    BY <1>2 DEF TInv, ErlOK, StreamsOK, sender
  <2>1. /\ outgoing' = Tail(outgoing) /\ up' = up \o TextOf(Head(outgoing))
        /\ UNCHANGED <<jobs, mailbox, buf, owned>>
    BY <1>2 DEF sender, agentVars
  <2>2. ReleasedIn(outgoing', up', buf) = ReleasedIn(outgoing, up, buf)
    BY <2>0, <2>1, RequestWritten
  <2>3. ReleasesOut \subseteq ReleasesOut' /\ FinishesOut' = FinishesOut
    BY <2>1, <2>2 DEF ReleasesOut, FinishesOut
  <2> QED
    BY <2>1, <2>3, OQuiet
<1>3. ASSUME receiver PROVE OwnedNow'
  <2>0. down \in Seq(DownLine) /\ mailbox \in Seq(Mail) /\ down # << >>
    BY <1>3 DEF TInv, ErlOK, StreamsOK, receiver
  <2>1. /\ mailbox' = Append(mailbox, Head(down))
        /\ UNCHANGED <<jobs, outgoing, up, buf, owned>>
    BY <1>3, <2>0 DEF receiver, agentVars
  <2>2. Head(down) \in DownLine /\ Head(down) \in Mail
    BY <2>0, TailIsSlice, MailFacts
  <2>3. Range(mailbox') = Range(mailbox) \cup {Head(down)}
    BY <2>0, <2>1, <2>2, AppendRange
  <2>4. ASSUME NEW z \in DownLine PROVE z.tag # "job_release"
    BY DEF DownLine, Answers
  <2>5. \A j : Head(down) # Finish(j)
    BY <2>2, <2>4 DEF Finish
  <2>6. FinishesOut' \subseteq FinishesOut /\ ReleasesOut' = ReleasesOut
    BY <2>1, <2>3, <2>5 DEF FinishesOut, FinishedIn, ReleasesOut
  <2> QED
    BY <2>1, <2>6, OQuiet
<1>4. ASSUME receive_tcp_message PROVE OwnedNow'
  <2>1. buf' = up /\ up' = << >>
    BY <1>4, ReadsAll
  <2>2. UNCHANGED <<jobs, mailbox, outgoing, owned>> /\ buf = << >>
    BY <1>4 DEF receive_tcp_message, erlVars, agentVars
  <2>3. ReleasesOut \subseteq ReleasesOut' /\ FinishesOut' = FinishesOut
    BY <2>1, <2>2, EmptyText DEF ReleasesOut, ReleasedIn, FinishesOut
  <2> QED
    BY <2>2, <2>3, OQuiet
<1> QED
  BY <1>1, <1>2, <1>3, <1>4

LEMMA OReceive ==
    ASSUME TInv, OnceOK, LifeOK, OwnedNow,
           receive_pids \/ receive_nodes \/ receive_granted \/ receive_removal
    PROVE  OwnedNow'
<1>0. /\ mailbox # << >> /\ mailbox' = Tail(mailbox)
      /\ UNCHANGED <<outbox, down, owned, up, buf>>
  BY DEF receive_pids, receive_nodes, receive_granted, receive_removal, Received, agentVars
<1>1. FinishesOut' \subseteq FinishesOut
  BY <1>0, MailGone
<1>2. ReleasesOut \subseteq ReleasesOut'
  <2>1. CASE UNCHANGED outgoing
    BY <1>0, <2>1 DEF ReleasesOut
  <2>2. ASSUME NEW Z \in SUBSET Fresh, NEW size \in [Z -> 0 .. MaxSize],
               outgoing' = outgoing \o
                 SetToSeq({[kind |-> "request", job |-> j, size |-> size[j]] : j \in Z})
        PROVE  ReleasesOut \subseteq ReleasesOut'
    <3> DEFINE q == SetToSeq({[kind |-> "request", job |-> j, size |-> size[j]] : j \in Z})
    <3>0. outgoing \in Seq(DirectiveSet) /\ outgoing' = outgoing \o q /\ Z \in SUBSET JobId
      BY <2>2, FreshIsJob DEF TInv, ErlOK
    <3>1. q \in Seq(DirectiveSet) /\ AllRequests(q, Z) /\ DirectedOnce(q)
      BY <3>0, RequestsFacts
    <3> HIDE DEF q
    <3>2. ReleasedIn(outgoing', up, buf) = ReleasedIn(outgoing, up, buf)
      BY <3>0, <3>1, RequestsAdded
    <3> QED
      BY <1>0, <3>2 DEF ReleasesOut
  <2> QED
    BY <2>1, <2>2 DEF receive_pids, receive_nodes, receive_granted, receive_removal
<1>3. CASE receive_pids
  BY <1>0, <1>1, <1>2, <1>3, OQuiet DEF receive_pids
<1>4. CASE receive_nodes
  <2>1. DOMAIN jobs \subseteq DOMAIN jobs'
    <3>1. jobs' = jobs \/ \E g : jobs' = With(jobs, g)
      BY <1>4 DEF receive_nodes
    <3>2. ASSUME NEW g PROVE DOMAIN jobs \subseteq DOMAIN With(jobs, g)
      BY DEF With
    <3> QED
      BY <3>1, <3>2, Zenon
  <2> QED
    BY <1>0, <1>1, <1>2, <2>1, OQuiet
<1>5. CASE receive_granted
  <2>1. DOMAIN jobs \subseteq DOMAIN jobs'
    <3>1. \E g : jobs' = With(jobs, g)
      BY <1>5 DEF receive_granted
    <3>2. ASSUME NEW g PROVE DOMAIN jobs \subseteq DOMAIN With(jobs, g)
      BY DEF With
    <3> QED
      BY <3>1, <3>2, Zenon
  <2> QED
    BY <1>0, <1>1, <1>2, <2>1, OQuiet
<1>6. CASE receive_removal
  <2> DEFINE j == Head(mailbox).job
  <2>1. Head(mailbox).tag \in {"JOB_DENIED", "JOB_TIMEOUT", "job_release"}
    BY <1>6 DEF receive_removal, Received
  <2>2. DOMAIN jobs \ {j} \subseteq DOMAIN jobs'
    <3> DEFINE X == Forgotten(j)
    <3>1. jobs' = Without(jobs, X) /\ X \subseteq {j}
      BY <1>6 DEF receive_removal, Forgotten
    <3> HIDE DEF X, j
    <3>2. DOMAIN jobs' = DOMAIN jobs \ X
      BY <3>1, WithoutFacts
    <3> QED
      BY <3>1, <3>2
  <2>3. j \in DOMAIN owned => j \in ReleasesOut
    <3>1. CASE Head(mailbox).tag = "JOB_DENIED"
      <4>1. j \in DenialsOut
        BY <1>0, <3>1, HeadIsAnswer DEF DenialsOut, Answers
      <4> QED
        BY <4>1, LifeGives
    <3>2. CASE Head(mailbox).tag = "JOB_TIMEOUT"
      <4>1. j \in TimeoutsOut
        BY <1>0, <3>2, HeadIsAnswer DEF TimeoutsOut, Answers
      <4> QED
        BY <4>1, LifeGives
    <3>3. CASE Head(mailbox).tag = "job_release"
      <4>1. j \in FinishesOut
        BY <1>0, <3>3, HeadIsFinish
      <4> QED
        BY <4>1 DEF OwnedNow, OwnedOK
    <3> QED
      BY <2>1, <3>1, <3>2, <3>3
  <2> HIDE DEF j
  <2> QED
    BY <1>0, <1>1, <1>2, <2>2, <2>3 DEF OwnedNow, OwnedOK
<1> QED
  BY <1>3, <1>4, <1>5, <1>6

LEMMA OOthers ==
    ASSUME TInv, OnceOK, LifeOK, OwnedNow, NEW j \in JobId,
           simulate_load(j) \/ answer(j) \/ agent_starts \/ UNCHANGED vars
           \/ \E a \in [tag : Answers, job : JobId] : send_answer(a)
    PROVE  OwnedNow'
<1>1. CASE simulate_load(j)
  <2>1. ReleasesOut' = ReleasesOut \cup {j} /\ FinishesOut' = FinishesOut \cup {j}
    BY <1>1, LSimulateLoad
  <2>2. UNCHANGED <<jobs, owned>>
    BY <1>1 DEF simulate_load, agentVars
  <2> QED
    BY <2>1, <2>2 DEF OwnedNow, OwnedOK
<1>2. CASE answer(j)
  <2>1. UNCHANGED <<jobs, mailbox, outgoing, up, buf>>
    BY <1>2, AnswerCases DEF erlVars
  <2>2. DOMAIN owned' \subseteq DOMAIN owned
    <3>0. j \in DOMAIN owned /\ (Grants1(j) \/ Drops1(j, "JOB_DENIED") \/ Drops1(j, "JOB_TIMEOUT"))
      BY <1>2, AnswerCases
    <3>1. CASE Grants1(j)
      BY <3>0, <3>1, GrantFacts DEF Grants1
    <3>2. ASSUME NEW tag, Drops1(j, tag) PROVE DOMAIN owned' \subseteq DOMAIN owned
      <4>1. owned' = Without(owned, {j})
        BY <3>2 DEF Drops1
      <4>2. DOMAIN owned' = DOMAIN owned \ {j}
        BY <4>1, WithoutFacts
      <4> QED
        BY <4>2
    <3> QED
      BY <3>0, <3>1, <3>2
  <2>3. ReleasesOut' = ReleasesOut /\ FinishesOut' = FinishesOut
    BY <2>1 DEF ReleasesOut, FinishesOut
  <2> QED
    BY <2>1, <2>2, <2>3, OQuiet
<1>3. CASE UNCHANGED <<jobs, mailbox, outgoing, up, buf, owned>>
  <2>1. ReleasesOut' = ReleasesOut /\ FinishesOut' = FinishesOut
    BY <1>3 DEF ReleasesOut, FinishesOut
  <2> QED
    BY <1>3, <2>1, OQuiet
<1>4. ASSUME NEW a \in [tag : Answers, job : JobId], send_answer(a)
      PROVE  UNCHANGED <<jobs, mailbox, outgoing, up, buf, owned>>
  BY <1>4 DEF send_answer, erlVars
<1>5. ASSUME agent_starts \/ UNCHANGED vars
      PROVE  UNCHANGED <<jobs, mailbox, outgoing, up, buf, owned>>
  BY <1>5 DEF agent_starts, vars, erlVars, agentVars
<1> QED
  BY <1>1, <1>2, <1>3, <1>4, <1>5

LEMMA ONext ==
    ASSUME "fragment" \notin Faults, OInv, TextFits, [Next]_vars
    PROVE  OInv'
<1>0. TInv /\ LInv /\ LInv'
  BY LNext DEF OInv, LInv
<1> SUFFICES ASSUME conn' = "open" PROVE OwnedNow'
  BY <1>0 DEF OInv
<1>1. CASE conn = "open"
  <2>0. OnceOK /\ LifeOK /\ OwnedNow /\ Whole(buf)
    BY <1>1 DEF OInv, LInv
  <2>1. ASSUME start \/ crash \/ receive_error \/ client_disconnected \/ agent_dies PROVE FALSE
    BY <2>1 DEF start, crash, receive_error, Stopped, client_disconnected, agent_dies
  <2>2. ASSUME connect PROVE FALSE
    BY <1>0, <1>1, <2>2 DEF connect, TInv, Ends
  <2>3. ASSUME NEW j \in JobId, simulate_load(j) \/ answer(j) PROVE OwnedNow'
    BY <1>0, <2>0, <2>3, OOthers
  <2>4. ASSUME NEW a \in [tag : Answers, job : JobId], send_answer(a) PROVE OwnedNow'
    <3>1. a.job \in JobId
      OBVIOUS
    <3> QED
      BY <1>0, <2>0, <2>4, <3>1, OOthers
  <2>5. ASSUME agent_starts \/ UNCHANGED vars PROVE OwnedNow'
    <3>1. UNCHANGED <<jobs, mailbox, outgoing, up, buf, owned>>
      BY <2>5 DEF agent_starts, vars, erlVars, agentVars
    <3>2. ReleasesOut' = ReleasesOut /\ FinishesOut' = FinishesOut
      BY <3>1 DEF ReleasesOut, FinishesOut
    <3> QED
      BY <2>0, <3>1, <3>2, OQuiet
  <2>6. ASSUME request_nodes \/ sender \/ receiver \/ receive_tcp_message PROVE OwnedNow'
    BY <1>0, <1>1, <2>0, <2>6, OMoves
  <2>7. ASSUME receive_pids \/ receive_nodes \/ receive_granted \/ receive_removal
        PROVE  OwnedNow'
    BY <1>0, <2>0, <2>7, OReceive
  <2>8. ASSUME handle_line PROVE OwnedNow'
    BY <1>0, <2>0, <2>8, OHandleLine
  <2> QED
    BY <2>1, <2>2, <2>3, <2>4, <2>5, <2>6, <2>7, <2>8 DEF Next, Receive
<1>2. CASE conn # "open"
  <2>1. conn' # conn
    BY <1>2
  <2>2. connect
    BY <2>1, OpensByConnect
  <2>3. conn = "none" /\ UNCHANGED owned
    BY <1>0, <2>2 DEF connect, TInv, Ends, agentVars
  <2>4. DOMAIN owned' = {}
    BY <1>0, <2>3 DEF TInv, Ends
  <2> QED
    BY <2>4 DEF OwnedNow, OwnedOK
<1> QED
  BY <1>1, <1>2

(* No job is left behind with the agent: if the text reaches the agent in  *)
(* whole lines - no read ends inside one and no more is sent than a        *)
(* bufferful - then a job of the agent is known to its scheduler or its    *)
(* JOB_RELEASE is on the way, whatever crosses it and whoever crashes.     *)
THEOREM NoJobIsOrphaned ==
    ASSUME "fragment" \notin Faults
    PROVE  Spec /\ []TextFits => []AgentJobHasOwner
<1>1. Init => OInv
  BY LInit DEF Init, OInv
<1>2. OInv /\ TextFits /\ [Next]_vars => OInv'
  BY ONext
<1>3. OInv => AgentJobHasOwner
  <2> SUFFICES ASSUME OInv, NEW j \in DOMAIN owned, conn = "open"
               PROVE  j \in DOMAIN jobs \/ Releasing(j)
    BY DEF AgentJobHasOwner
  <2>1. j \in DOMAIN jobs \/ j \in ReleasesOut
    BY DEF OInv, OwnedNow, OwnedOK
  <2>2. j \in ReleasesOut => Releasing(j)
    BY DEF ReleasesOut, ReleasedIn, Releasing, RelHead, Range
  <2> QED
    BY <2>1, <2>2
<1> QED
  BY <1>1, <1>2, <1>3, PTL DEF Spec
=============================================================================
