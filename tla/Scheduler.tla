----------------------------- MODULE Scheduler -----------------------------
(***************************************************************************)
(* The Erlang side of a node, job_scheduler.erl and erlang_c_bridge.erl,   *)
(* and its connection to the local agent.                                  *)
(*                                                                         *)
(* The scheduler, the sender, the receiver, the poll timer and one process *)
(* per running job exchange messages; the scheduler takes its mailbox in   *)
(* order.  The acknowledgements of the sender ({ok, JobId, Kind} and       *)
(* {error, JobId, Kind, Packet}) match no clause of its receive, so they   *)
(* stay in the mailbox for ever, no job ever becomes pending and no        *)
(* JOB_RELEASE is ever retried; they are left out, with dump_state.        *)
(*                                                                         *)
(* Towards the agent the connection is a stream of text.  A line is its    *)
(* command, a job, one piece per resource asked for and an end; the agent  *)
(* reads a bufferful at a time, cuts it into lines and handles each one,   *)
(* the last one even if its end has not arrived.  A read that ends inside  *)
(* the number of a job leaves a shorter number, maybe another job's; one   *)
(* that ends inside a command or a resource is like one that ends before   *)
(* or after it.  Towards the scheduler {packet, line} keeps lines whole.   *)
(*                                                                         *)
(* The agent is reduced to what JobCoordinator shows of it: every job it   *)
(* owns is answered, once, or granted and later revoked by JOB_DENIED;     *)
(* workers write the answers in any order; the jobs of a scheduler that    *)
(* disconnects are dropped.                                                *)
(***************************************************************************)
EXTENDS Integers, FiniteSets, SequencesExt

CONSTANTS
    JobId,      \* numbers: values of unique_integer, used again once
                \* forgotten, and what is read of one that is cut
    Prefix,     \* the numbers a cut may leave of each number
    N_REQUESTS, \* jobs per NODES message
    MaxSize,    \* bound: resources one job asks for
    Buffer,     \* pieces of text one recv returns (BUFFER_SIZE - 1 bytes)
    TRIES,      \* attempts to connect
    Faults      \* what may go wrong

ASSUME SchedulerAssumption ==
    /\ N_REQUESTS \in Nat \ {0} /\ MaxSize \in Nat /\ TRIES \in Nat
    /\ Buffer \in Nat \ {0}
    /\ IsFiniteSet(JobId)
    /\ Prefix \in [JobId -> SUBSET JobId]
    /\ Faults \subseteq {"fragment", "race", "crash", "agent"}

VARIABLES
    proc,       \* "down", "connect", "starting" or "run"
    tries,      \* attempts left
    jobs,       \* State, without the pids
    wanted,     \* history: what each job of State asked for
    loads,      \* jobs whose simulate_load is asleep
    mailbox,    \* of the scheduler
    outgoing,   \* mailbox of the sender
    conn,       \* "none", "open", "closed" by the agent, "eof" for the agent
    up,         \* text on its way to the agent
    buf,        \* recv_buffer: text the agent has read and not handled
    down,       \* lines on their way to the scheduler
    agent,      \* the agent is running
    owned,      \* its jobs: pieces recorded, and whether all are granted
    outbox      \* answers its workers have not written yet

erlVars   == <<proc, tries, jobs, wanted, loads, mailbox, outgoing>>
agentVars == <<agent, owned, outbox>>
vars      == <<erlVars, conn, up, buf, down, agentVars>>

Answers == {"JOB_GRANTED", "JOB_DENIED", "JOB_TIMEOUT"}

Piece(cmd, j, part) == [cmd |-> cmd, job |-> j, part |-> part]

(* The text of a command; GET_NODES has no job. *)
GetNodes == <<[cmd |-> "GET_NODES", part |-> "head"],
              [cmd |-> "GET_NODES", part |-> "end"]>>

Text(cmd, j, n) ==
    <<Piece(cmd, j, "head"), Piece(cmd, j, "id")>>
    \o [i \in 1 .. n |-> Piece(cmd, j, "resource")]
    \o <<Piece(cmd, j, "end")>>

About(s, j) == \E i \in DOMAIN s : "job" \in DOMAIN s[i] /\ s[i].job = j

(* erlang:unique_integer: an identifier no part of the system still uses. *)
Fresh ==
    {j \in JobId : ~ \/ j \in DOMAIN jobs \cup DOMAIN owned \cup loads
                     \/ About(mailbox, j) \/ About(outgoing, j) \/ About(up, j)
                     \/ About(buf, j) \/ About(down, j)
                     \/ \E a \in outbox : a.job = j}

Without(f, X) == [k \in DOMAIN f \ X |-> f[k]]

With(f, g) == [k \in DOMAIN f \cup DOMAIN g |->
                  IF k \in DOMAIN g THEN g[k] ELSE f[k]]

----------------------------------------------------------------------------
Init ==
    /\ proc = "down" /\ tries = 0
    /\ jobs = << >> /\ wanted = << >> /\ loads = {}
    /\ mailbox = << >> /\ outgoing = << >>
    /\ conn = "none" /\ up = << >> /\ buf = << >> /\ down = << >>
    /\ agent = TRUE /\ owned = << >> /\ outbox = {}

(* erlang_c_bridge:init *)
start ==
    /\ proc = "down" /\ conn = "none"
    /\ proc' = "connect"
    /\ tries' = TRIES
    /\ UNCHANGED <<jobs, wanted, loads, mailbox, outgoing, conn, up,
                   buf, down, agentVars>>

(* Mutation: the attempts are counted and the count is not looked at. *)
OutOfTries_Never == FALSE

OutOfTries == tries = 0

(* connect, then conn_handler, which announces the two processes. *)
connect ==
    /\ proc = "connect"
    /\ \/ /\ ~OutOfTries /\ agent
          /\ proc' = "starting"
          /\ conn' = "open"
          /\ mailbox' = <<[tag |-> "sender_pid"]>>
          /\ UNCHANGED tries
       \/ /\ ~OutOfTries /\ ~agent
          /\ tries' = tries - 1
          /\ UNCHANGED <<proc, conn, mailbox>>
       \/ /\ OutOfTries
          /\ proc' = "down"
          /\ UNCHANGED <<tries, conn, mailbox>>
    /\ UNCHANGED <<jobs, wanted, loads, outgoing, up, buf, down,
                   agentVars>>

(* The virtual machine stops: halt, or a crash. *)
Stopped ==
    /\ proc' = "down"
    /\ tries' = 0
    /\ jobs' = << >> /\ wanted' = << >> /\ loads' = {}
    /\ mailbox' = << >> /\ outgoing' = << >> /\ down' = << >>
    /\ conn' = IF conn = "open" THEN "eof" ELSE "none"
    /\ UNCHANGED <<up, buf, agentVars>>

crash ==
    /\ "crash" \in Faults
    /\ proc \in {"starting", "run"}
    /\ Stopped

----------------------------------------------------------------------------
(* request_nodes.  Bound: one poll at a time, with identifiers for it. *)
Polling ==
    \/ \E i \in DOMAIN outgoing : outgoing[i].kind = "get_nodes"
    \/ \E i \in DOMAIN up : up[i].cmd = "GET_NODES"
    \/ \E i \in DOMAIN buf : buf[i].cmd = "GET_NODES"
    \/ \E i \in DOMAIN down : down[i].tag = "NODES"
    \/ \E i \in DOMAIN mailbox : mailbox[i].tag = "NODES"

request_nodes ==
    /\ proc = "run"
    /\ ~Polling
    /\ Cardinality(Fresh) >= N_REQUESTS
    /\ outgoing' = Append(outgoing, [kind |-> "get_nodes"])
    /\ UNCHANGED <<proc, tries, jobs, wanted, loads, mailbox, conn,
                   up, buf, down, agentVars>>

(* What the sender writes for a directive. *)
TextOf(d) ==
    CASE d.kind = "get_nodes" -> GetNodes
      [] d.kind = "request"   -> Text("JOB_REQUEST", d.job, d.size)
      [] d.kind = "release"   -> Text("JOB_RELEASE", d.job, 0)

(* {error, Reason}, which stops the scheduler; a second one changes nothing. *)
WithError(box) ==
    IF [tag |-> "error"] \in Range(box) THEN box
    ELSE Append(box, [tag |-> "error"])

(* sender.  The kernel may accept what it writes to a connection that the  *)
(* agent has closed; only the failure of GET_NODES is heard.               *)
sender ==
    LET d == Head(outgoing)
    IN  /\ outgoing # << >>
        /\ outgoing' = Tail(outgoing)
        /\ \/ /\ conn = "open"
              /\ up' = up \o TextOf(d)
              /\ UNCHANGED mailbox
           \/ /\ conn = "closed"
              /\ UNCHANGED <<up, mailbox>>
           \/ /\ conn = "closed" /\ d.kind = "get_nodes"
              /\ mailbox' = WithError(mailbox)
              /\ UNCHANGED up
        /\ UNCHANGED <<proc, tries, jobs, wanted, loads, conn, buf,
                       down, agentVars>>

(* receiver: a line, which handle_packet turns into a message, or the end   *)
(* of the connection.                                                       *)
receiver ==
    /\ proc \in {"starting", "run"}
    /\ \/ /\ down # << >>
          /\ mailbox' = Append(mailbox, Head(down))
          /\ down' = Tail(down)
       \/ /\ down = << >> /\ conn = "closed"
          /\ mailbox' = WithError(mailbox)
          /\ UNCHANGED down
    /\ UNCHANGED <<proc, tries, jobs, wanted, loads, outgoing, conn,
                   up, buf, agentVars>>

----------------------------------------------------------------------------
(* The scheduler's receive. *)
Received(tag) == mailbox # << >> /\ Head(mailbox).tag = tag

receive_pids ==
    /\ Received("sender_pid")
    /\ proc' = "run"
    /\ mailbox' = Tail(mailbox)
    /\ UNCHANGED <<tries, jobs, wanted, loads, outgoing, conn, up,
                   buf, down, agentVars>>

(* NODES: N_REQUESTS jobs over random nodes; an empty list is skipped.  A  *)
(* job whose nodes have nothing to offer asks for nothing.                 *)
receive_nodes ==
    /\ Received("NODES")
    /\ mailbox' = Tail(mailbox)
    /\ \/ /\ Head(mailbox).some
          /\ \E X \in SUBSET Fresh : \E size \in [X -> 0 .. MaxSize] :
                /\ Cardinality(X) = N_REQUESTS
                /\ jobs' = With(jobs, [j \in X |-> "dispatched"])
                /\ wanted' = With(wanted, size)
                /\ outgoing' = outgoing \o
                      SetToSeq({[kind |-> "request", job |-> j, size |-> size[j]] : j \in X})
       \/ /\ ~Head(mailbox).some
          /\ UNCHANGED <<jobs, wanted, outgoing>>
    /\ UNCHANGED <<proc, tries, loads, conn, up, buf, down, agentVars>>

(* Mutation: a job is granted only once its request is acknowledged. *)
Grantable_Pending == {j \in DOMAIN jobs : jobs[j] = "pending"}

Grantable == {j \in DOMAIN jobs : jobs[j] \in {"pending", "dispatched"}}

(* JOB_GRANTED: the job runs; a second grant and one for a job that is not *)
(* known are ignored.                                                      *)
receive_granted ==
    LET G == {Head(mailbox).job} \cap Grantable
    IN  /\ Received("JOB_GRANTED")
        /\ mailbox' = Tail(mailbox)
        /\ jobs' = With(jobs, [j \in G |-> "granted"])
        /\ loads' = loads \cup G
        /\ UNCHANGED <<proc, tries, wanted, outgoing, conn, up, buf,
                       down, agentVars>>

(* Mutation: a job that is running is kept. *)
Forgotten_Dispatched(j) == {j} \cap Grantable

(* What maps:remove takes out of the state. *)
Forgotten(j) == {j} \cap DOMAIN jobs

(* JOB_DENIED, JOB_TIMEOUT and {job_release, JobId}: the job is forgotten. *)
(* If it was running its process goes on.                                  *)
receive_removal ==
    LET j == Head(mailbox).job
    IN  /\ \/ Received("JOB_DENIED") \/ Received("JOB_TIMEOUT")
           \/ Received("job_release")
        /\ mailbox' = Tail(mailbox)
        /\ jobs' = Without(jobs, Forgotten(j))
        /\ wanted' = Without(wanted, Forgotten(j))
        /\ UNCHANGED <<proc, tries, loads, outgoing, conn, up, buf,
                       down, agentVars>>

(* {error, Reason}: halt *)
receive_error ==
    /\ Received("error")
    /\ Stopped

(* Mutation: the scheduler is told and the agent is not. *)
Directive_None(j) == << >>

Directive(j) == <<[kind |-> "release", job |-> j]>>

(* simulate_load wakes up: JOB_RELEASE goes to the sender, and the         *)
(* scheduler is told.                                                      *)
simulate_load(j) ==
    /\ j \in loads
    /\ loads' = loads \ {j}
    /\ outgoing' = outgoing \o Directive(j)
    /\ mailbox' = Append(mailbox, [tag |-> "job_release", job |-> j])
    /\ UNCHANGED <<proc, tries, jobs, wanted, conn, up, buf, down, agentVars>>

----------------------------------------------------------------------------
(* The agent. *)

(* The last piece of a read that ends at piece k of the text: all of it,   *)
(* or the first digits of a number that comes with its command.            *)
LastPiece(k) ==
    {up[k]} \cup {Piece(up[k].cmd, p, "id") :
                     p \in IF k > 1 /\ up[k].part = "id" THEN Prefix[up[k].job]
                           ELSE {}}

(* receive_tcp_message: what there is, at most a bufferful.  A fragment is *)
(* the part of it that has arrived.  The digits that are left of a number  *)
(* are read next, and are no command.                                      *)
receive_tcp_message ==
    /\ agent
    /\ buf = << >> /\ up # << >>
    /\ \E k \in 1 .. Len(up) :
          /\ k <= Buffer
          /\ "fragment" \in Faults \/ k = Buffer \/ k = Len(up)
          /\ \E w \in LastPiece(k) :
                /\ buf' = [SubSeq(up, 1, k) EXCEPT ![k] = w]
                /\ up' = SubSeq(up, IF w = up[k] THEN k + 1 ELSE k, Len(up))
    /\ UNCHANGED <<erlVars, conn, down, agentVars>>

(* strtok_r: the text up to the first end, or all there is. *)
LineEnd ==
    LET E == {i \in DOMAIN buf : buf[i].part = "end"}
    IN  IF E = {} THEN Len(buf) ELSE Min(E)

Line == SubSeq(buf, 1, LineEnd)

Parts(part) == Cardinality({i \in DOMAIN Line : Line[i].part = part})

(* resource_adapter_patch recognises the line, and sscanf reads the job. *)
Is(cmd) == Line[1].part = "head" /\ Line[1].cmd = cmd

Number == LET i == CHOOSE i \in DOMAIN Line : Line[i].part = "id" IN Line[i].job

(* The resources handle_job_request records.  strtok keeps its place in a  *)
(* variable of the process, so an ANNOUNCE parsed at the same time may end *)
(* the list early.                                                         *)
Parsed == IF "race" \in Faults THEN 0 .. Parts("resource") ELSE {Parts("resource")}

(* Mutation: a granted job is not found. *)
Released_Reserving(j) == {k \in {j} \cap DOMAIN owned : ~owned[k].granted}

Released(j) == {j} \cap DOMAIN owned

(* The worker handles the next line of the buffer. *)
handle_line ==
    /\ buf # << >>
    /\ buf' = SubSeq(buf, LineEnd + 1, Len(buf))
    /\ \/ /\ Is("GET_NODES")
          /\ \E some \in BOOLEAN :
                down' = IF conn = "open" THEN Append(down, [tag |-> "NODES", some |-> some])
                        ELSE down
          /\ UNCHANGED owned
       \/ /\ Is("JOB_REQUEST") /\ Parts("id") = 1
          /\ \E n \in Parsed :
                owned' = With(owned, [j \in {Number} |->
                                      [asked |-> n, granted |-> FALSE]])
          /\ UNCHANGED down
       \/ /\ Is("JOB_RELEASE") /\ Parts("id") = 1
          /\ owned' = Without(owned, Released(Number))
          /\ UNCHANGED down
       \/ /\ Line[1].part # "head" \/ (~Is("GET_NODES") /\ Parts("id") = 0)
          /\ UNCHANGED <<owned, down>>
    /\ UNCHANGED <<erlVars, conn, up, agent, outbox>>

Answer(j, tag) == [tag |-> tag, job |-> j]

(* A handler of the agent answers job j. *)
answer(j) ==
    /\ j \in DOMAIN owned
    /\ \/ /\ owned[j].asked > 0 /\ ~owned[j].granted
          /\ owned' = [owned EXCEPT ![j].granted = TRUE]
          /\ outbox' = outbox \cup {Answer(j, "JOB_GRANTED")}
       \/ /\ ~owned[j].granted
          /\ owned' = Without(owned, {j})
          /\ outbox' = outbox \cup {Answer(j, "JOB_TIMEOUT")}
       \/ /\ owned[j].asked > 0
          /\ owned' = Without(owned, {j})
          /\ outbox' = outbox \cup {Answer(j, "JOB_DENIED")}
    /\ UNCHANGED <<erlVars, conn, up, buf, down, agent>>

(* send_outbox, of some worker. *)
send_answer(a) ==
    /\ a \in outbox
    /\ outbox' = outbox \ {a}
    /\ down' = IF conn = "open" THEN Append(down, a) ELSE down
    /\ UNCHANGED <<erlVars, conn, up, buf, agent, owned>>

(* The agent reads the end of the connection: ACTION_DISCONNECTED.  The    *)
(* workers are taken to have written their answers by then.  The code      *)
(* collects at most 50 of the jobs the scheduler leaves, a limit that      *)
(* JobCoordinator has (MAX_ORPHANS) and that the one job per NODES message *)
(* of this scheduler does not reach; here every job is dropped.            *)
client_disconnected ==
    /\ conn = "eof"
    /\ up = << >> /\ buf = << >> /\ outbox = {}
    /\ conn' = "none"
    /\ owned' = << >>
    /\ UNCHANGED <<erlVars, up, buf, down, agent, outbox>>

(* The agent dies, with its table, and is started again. *)
agent_dies ==
    /\ "agent" \in Faults
    /\ agent
    /\ agent' = FALSE
    /\ owned' = << >> /\ outbox' = {} /\ up' = << >> /\ buf' = << >>
    /\ conn' = IF conn \in {"open", "closed"} THEN "closed" ELSE "none"
    /\ UNCHANGED <<erlVars, down>>

agent_starts ==
    /\ ~agent
    /\ agent' = TRUE
    /\ UNCHANGED <<erlVars, conn, up, buf, down, owned, outbox>>

----------------------------------------------------------------------------
Receive ==
    \/ receive_pids \/ receive_nodes \/ receive_granted \/ receive_removal
    \/ receive_error

Next ==
    \/ start \/ connect \/ crash
    \/ request_nodes \/ sender \/ receiver \/ Receive
    \/ \E j \in JobId : simulate_load(j) \/ answer(j)
    \/ receive_tcp_message \/ handle_line
    \/ \E a \in [tag : Answers, job : JobId] : send_answer(a)
    \/ client_disconnected \/ agent_dies \/ agent_starts

Spec == Init /\ [][Next]_vars

(* Fairness: the processes of the virtual machine run, a load wakes up,    *)
(* and the agent reads its connection, handles what it has read, answers   *)
(* every job that is not granted (JobCoordinator) and writes its answers.  *)
LiveSpec ==
    /\ Spec
    /\ WF_vars(start) /\ WF_vars(connect) /\ WF_vars(request_nodes)
    /\ WF_vars(sender) /\ WF_vars(receiver) /\ WF_vars(Receive)
    /\ \A j \in JobId :
          /\ WF_vars(simulate_load(j))
          /\ WF_vars(j \in DOMAIN owned /\ ~owned[j].granted /\ answer(j))
    /\ WF_vars(receive_tcp_message) /\ WF_vars(handle_line)
    /\ \A a \in [tag : Answers, job : JobId] : WF_vars(send_answer(a))
    /\ WF_vars(client_disconnected) /\ WF_vars(agent_starts)

----------------------------------------------------------------------------
(* Type correctness: the attempts to connect stay within TRIES, no job is  *)
(* ever pending, and there is text in flight only on a connection.         *)
TypeOK ==
    /\ proc \in {"down", "connect", "starting", "run"}
    /\ tries \in 0 .. TRIES
    /\ DOMAIN jobs \subseteq JobId /\ Range(jobs) \subseteq {"dispatched", "granted"}
    /\ wanted \in [DOMAIN jobs -> 0 .. MaxSize]
    /\ loads \subseteq JobId
    /\ conn \in {"none", "open", "closed", "eof"}
    /\ conn \in {"none", "closed"} => up = << >> /\ buf = << >>
    /\ DOMAIN owned \subseteq JobId
    /\ \A j \in DOMAIN owned : owned[j].asked \in 0 .. MaxSize

Releasing(j) ==
    \/ \E i \in DOMAIN outgoing : outgoing[i] = [kind |-> "release", job |-> j]
    \/ \E i \in DOMAIN up : up[i] = Piece("JOB_RELEASE", j, "head")
    \/ \E i \in DOMAIN buf : buf[i] = Piece("JOB_RELEASE", j, "head")

Told(j, tag) == Answer(j, tag) \in outbox \cup Range(down) \cup Range(mailbox)

(* No job is orphaned: a job the agent holds is one its scheduler still    *)
(* has, or its JOB_RELEASE is on the way, or the scheduler is gone and the *)
(* agent has yet to see it.  Grants, denials and releases cross.           *)
AgentJobHasOwner ==
    \A j \in DOMAIN owned :
        conn = "open" => j \in DOMAIN jobs \/ Releasing(j)

(* The scheduler counts on nothing it does not have: a job it runs is held *)
(* for it, or the denial that revokes it is on the way.                    *)
RunningIsHeld ==
    conn = "open" =>
        \A j \in loads \cap DOMAIN jobs :
            \/ j \in DOMAIN owned /\ owned[j].granted
            \/ Told(j, "JOB_DENIED")

(* Every job the scheduler has dispatched is granted and finished, or      *)
(* denied, or timed out: none stays in its state for ever.                 *)
EveryJobLeaves == \A j \in JobId : j \in DOMAIN jobs ~> j \notin DOMAIN jobs

(* The agent gives back what every job holds, whether the job finishes or  *)
(* the scheduler crashes at any point and comes back.                      *)
EveryJobReleased == \A j \in JobId : j \in DOMAIN owned ~> j \notin DOMAIN owned

(* No command is understood in part: a job that is granted holds all the   *)
(* resources its JOB_REQUEST asked for.                                    *)
GrantCoversRequest ==
    \A j \in DOMAIN owned \cap DOMAIN wanted :
        owned[j].granted => owned[j].asked = wanted[j]
=============================================================================
