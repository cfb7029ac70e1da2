---------------------------- MODULE NestedBench ----------------------------
(***************************************************************************)
(* The benchmark of a nested call (src/extra/server.cpp and client.cpp):   *)
(* the clients send to server 0 alone, which asks its peers and answers at *)
(* the first peer's reply.  Nothing is kept: what it knows of its clients  *)
(* is gone when it restarts, while its peers still answer questions it     *)
(* asked before, and the numbers of its questions start from 0 again.      *)
(*                                                                         *)
(* Every address is 127.0.0.1, so a socket is a queue: a datagram is       *)
(* dropped when a server's buffer is full, never overtaken or duplicated.  *)
(* The latency gauges are left out.                                        *)
(***************************************************************************)
EXTENDS Integers, FiniteSets, SequencesExt, FiniteSetsExt

CONSTANTS
  Peers,        \* the other servers
  CommandLines, \* ways to start the client program, see CommandLine
  SeqLimit,     \* size of m_seq_finished: 1000000 in the code
  MaxDropped,   \* bound on the datagrams dropped
  MaxRestarts   \* bound on the restarts of server 0

\* --lt: requests of a thread; --t: threads; --ct: connections of a thread
CommandLine == [lt: Nat, t: Nat, ct: Nat]

ASSUME BenchAssumption ==
  /\ IsFiniteSet(Peers) /\ CommandLines \subseteq CommandLine
  /\ SeqLimit \in Nat /\ MaxDropped \in Nat /\ MaxRestarts \in Nat

VARIABLES
  cfg,      \* the command line, never changed
  up,       \* server 0: "up", "stopped" or "crashed"
  era,      \* starts of server 0 after the first; a history value
  seq,      \* m_seq
  finished, \* the numbers set in m_seq_finished
  pending,  \* m_pending_client: number -> connection
  inbox,    \* the datagrams in server 0's socket buffer
  asked,    \* asked[p]: the questions in peer p's socket buffer
  answers,  \* answers[c]: the answers in the buffer of connection c
  status,   \* status[c]: 1 while c waits for an answer
  count,    \* count[t]: send_count
  pc,       \* pc[t]: "loop" or "done"
  seen,     \* the questions some peer has received; a history value
  left,     \* those in a peer's buffer at the last restart; a history value
  dropped   \* dropped[leg]: datagrams dropped on each leg

serverVars == <<up, era, seq, finished, pending>>
threadVars == <<status, count, pc>>
vars == <<cfg, serverVars, threadVars, inbox, asked, answers, seen, left,
          dropped>>

Thread  == 1..cfg.t
Conn    == Thread \X (1..cfg.ct)
Conns(t) == {t} \X (1..cfg.ct)
Leg == {"request", "question", "reply"}

ClientMessage(c)      == [type |-> "Client", conn |-> c]
NestedReplyMessage(q) == [type |-> "NestedReply", data |-> q.data, era |-> q.era]
NestedMessage         == [data |-> seq, era |-> era]

Init ==
  /\ cfg \in CommandLines
  /\ up = "up" /\ era = 0
  /\ seq = 0 /\ finished = {} /\ pending = << >>
  /\ inbox = << >>
  /\ asked = [p \in Peers |-> << >>]
  /\ answers = [c \in Conn |-> << >>]
  /\ status = [c \in Conn |-> 0]
  /\ count = [t \in Thread |-> 0]
  /\ pc = [t \in Thread |-> "loop"]
  /\ seen = {} /\ left = {}
  /\ dropped = [l \in Leg |-> 0]

Drop(leg, n) ==
  /\ dropped.request + dropped.question + dropped.reply + n <= MaxDropped
  /\ dropped' = [dropped EXCEPT ![leg] = @ + n]

\* Datagram m reaches the socket of server 0 or is dropped; one for a server
\* that is not there is refused.
ToServer(leg, m) ==
  \/ inbox' = (IF up = "up" THEN Append(inbox, m) ELSE inbox) /\ UNCHANGED dropped
  \/ up = "up" /\ Drop(leg, 1) /\ UNCHANGED inbox

-----------------------------------------------------------------------------
(* The client program: send_multiple *)

\* A slip for comparison: the pass does not look at the status
IdleOrNot(t) == 1..cfg.ct
\* the places in conn_ctxs of the connections that wait for nothing
Idle(t) == {i \in 1..cfg.ct : status[<<t, i>>] = 0}

\* A pass over conn_ctxs sends on the first idle connection as long as there is
\* one and a request to send: nothing becomes idle before event_base_loop.
Sends(t) == pc[t] = "loop" /\ Idle(t) # {} /\ count[t] < cfg.lt

\* (The return on an error of sendto is left out: no datagram to this host
\* meets one.)
Send(t) ==
  /\ Sends(t)
  /\ \E i \in Idle(t) :
       /\ \A j \in Idle(t) : i <= j
       /\ status' = [status EXCEPT ![<<t, i>>] = 1]
       /\ ToServer("request", ClientMessage(<<t, i>>))
  /\ count' = [count EXCEPT ![t] = @ + 1]
  /\ UNCHANGED <<cfg, serverVars, pc, asked, answers, seen, left>>

\* A slip for comparison: one request too many is waited for
SendAllAfter(t) == count[t] > cfg.lt
\* send_all is set by the request that brings send_count to cfg_loop_times.
SendAll(t) == count[t] > 0 /\ count[t] >= cfg.lt

\* event_base_loop returns after one datagram of every readable connection.
\* (Without connections it returns at once, for ever.)
Wake(t) ==
  LET ready == {c \in Conns(t) : answers[c] # << >>}
      busy  == {c \in Conns(t) \ ready : status[c] = 1}
  IN  /\ pc[t] = "loop" /\ ~Sends(t)
      /\ ready # {}
      /\ answers' = [c \in Conn |-> IF c \in ready THEN Tail(answers[c])
                                                   ELSE answers[c]]
      /\ status' = [c \in Conn |-> IF c \in ready THEN 0 ELSE status[c]]
      /\ pc' = [pc EXCEPT ![t] = IF busy = {} /\ SendAll(t) THEN "done" ELSE @]
      /\ UNCHANGED <<cfg, serverVars, count, inbox, asked, seen, left, dropped>>

-----------------------------------------------------------------------------
(* Server 0: handle_msg reads one datagram for each event of its socket *)

Read(type) == up = "up" /\ inbox # << >> /\ Head(inbox).type = type

OnClientMsg ==
  /\ Read("Client")
  /\ inbox' = Tail(inbox)
  /\ pending' = [n \in DOMAIN pending \cup {seq} |->
                   IF n = seq THEN Head(inbox).conn ELSE pending[n]]
  /\ \E lost \in SUBSET Peers :
       /\ Drop("question", Cardinality(lost))
       /\ asked' = [p \in Peers |-> IF p \in lost THEN asked[p]
                                    ELSE Append(asked[p], NestedMessage)]
  /\ seq' = seq + 1
  /\ UNCHANGED <<cfg, up, era, finished, threadVars, answers, seen, left>>

\* A slip for comparison: every reply to a question answers the client
FinishedNever(n, b) == ~b
\* The bit of number n may be read as b: past the end of m_seq_finished it may
\* be anything.
Finished(n, b) == n < SeqLimit => (b <=> n \in finished)

\* A slip for comparison: the socket outlives the server
EndButSocket(how) ==
  /\ up' = how
  /\ finished' = {} /\ pending' = << >> /\ seq' = 0
  /\ UNCHANGED <<inbox, era>>
\* The server is gone and its socket with it.
End(how) ==
  /\ up' = how
  /\ finished' = {} /\ pending' = << >> /\ seq' = 0
  /\ inbox' = << >>
  /\ UNCHANGED era

\* The first reply to a question answers the client.  No client waits for a
\* number that was given out before a restart: its entry is a null pointer.
OnNestedReplyMsg ==
  /\ Read("NestedReply")
  /\ LET n == Head(inbox).data IN
     \/ /\ Finished(n, TRUE)
        /\ inbox' = Tail(inbox)
        /\ UNCHANGED <<serverVars, answers>>
     \/ /\ Finished(n, FALSE) /\ n \in DOMAIN pending
        /\ inbox' = Tail(inbox)
        /\ finished' = finished \cup {n}
        /\ answers' = [answers EXCEPT ![pending[n]] = Append(@, n)]
        /\ pending' = [k \in DOMAIN pending \ {n} |-> pending[k]]
        /\ UNCHANGED <<up, era, seq>>
     \/ /\ Finished(n, FALSE)
        /\ n >= SeqLimit \/ n \notin DOMAIN pending
        /\ End("crashed")
        /\ UNCHANGED answers
  /\ UNCHANGED <<cfg, threadVars, asked, seen, left, dropped>>

Stop ==
  /\ up = "up" /\ era < MaxRestarts
  /\ End("stopped")
  /\ UNCHANGED <<cfg, threadVars, asked, answers, seen, left, dropped>>

Start ==
  /\ up # "up" /\ era < MaxRestarts
  /\ up' = "up" /\ era' = era + 1
  /\ left' = UNION {Range(asked[p]) : p \in Peers}
  /\ UNCHANGED <<cfg, seq, finished, pending, inbox, threadVars, asked,
                 answers, seen, dropped>>

-----------------------------------------------------------------------------
(* A peer *)

OnNestedMsg(p) ==
  /\ asked[p] # << >>
  /\ seen' = seen \cup {Head(asked[p])}
  /\ asked' = [asked EXCEPT ![p] = Tail(@)]
  /\ ToServer("reply", NestedReplyMessage(Head(asked[p])))
  /\ UNCHANGED <<cfg, serverVars, threadVars, answers, left>>

-----------------------------------------------------------------------------

Next ==
  \/ \E t \in Thread : Send(t) \/ Wake(t)
  \/ OnClientMsg \/ OnNestedReplyMsg \/ Stop \/ Start
  \/ \E p \in Peers : OnNestedMsg(p)

Spec == Init /\ [][Next]_vars

\* The loops of the client's threads and of the servers go on as long as
\* there is an event; nobody has to start a server again.
Fairness ==
  /\ \A t \in 1..Max({c.t : c \in CommandLines}) :
       WF_vars(t \in Thread /\ (Send(t) \/ Wake(t)))
  /\ WF_vars(OnClientMsg \/ OnNestedReplyMsg)
  /\ \A p \in Peers : WF_vars(OnNestedMsg(p))

LiveSpec == Spec /\ Fairness
-----------------------------------------------------------------------------
(* Properties *)

Question == [data: Nat, era: 0..MaxRestarts]
Datagram == [type: {"Client"}, conn: Conn]
              \cup [type: {"NestedReply"}, data: Nat, era: 0..MaxRestarts]

\* Every variable has its type, a finished number was given out by this
\* start of server 0, and a waiting client has a number that was.
TypeOK ==
  /\ cfg \in CommandLines
  /\ up \in {"up", "stopped", "crashed"} /\ era \in 0..MaxRestarts
  /\ seq \in Nat /\ finished \subseteq Nat
  /\ DOMAIN pending \subseteq 0..(seq - 1) /\ Range(pending) \subseteq Conn
  /\ inbox \in Seq(Datagram)
  /\ asked \in [Peers -> Seq(Question)]
  /\ answers \in [Conn -> Seq(Nat)]
  /\ status \in [Conn -> {0, 1}]
  /\ count \in [Thread -> 0..cfg.lt]
  /\ pc \in [Thread -> {"loop", "done"}]
  /\ seen \subseteq Question /\ left \subseteq Question
  /\ dropped \in [Leg -> 0..MaxDropped]

\* The requests of connection c in server 0's buffer.
Requests(c) == {i \in DOMAIN inbox : inbox[i] = ClientMessage(c)}
\* The numbers under which server 0 remembers c.
Numbers(c) == {n \in DOMAIN pending : pending[n] = c}

\* The client takes any datagram for the answer to its last request
\* (new_udp_event does not look into it).  That is right because, whatever is
\* dropped and however often server 0 is restarted, an idle connection has
\* nothing under way and a busy one at most one request, number or answer.
\* (The types of all variables are part of it.)
OneUnderWay ==
  /\ TypeOK
  /\ \A c \in Conn :
       Cardinality(Requests(c)) + Cardinality(Numbers(c)) + Len(answers[c])
         <= status[c]

\* Server 0 dereferences the entry of a number without looking whether there
\* is one.  Only a reply to a question of an earlier start, or more requests
\* than m_seq_finished has bits, can find none: every number given out since
\* the start has either its entry or its bit.
CrashNeedsCause ==
  /\ up = "crashed" => era > 0 \/ \E q \in seen : q.data >= SeqLimit
  /\ DOMAIN pending = (0..(seq - 1)) \ finished

\* A client is answered only when a peer has received its question, or, after
\* a restart of server 0, a question of an earlier start with the same number
\* which that peer had still to read when server 0 came back: what had been
\* answered by then died with the socket of the former life.
AnswersAreAsked ==
  [][\A n \in DOMAIN pending : up' = "up" /\ n \notin DOMAIN pending'
       => \E q \in seen : q.data = n /\ (q.era = era \/ q \in left)]_vars

\* No request and no more datagrams than a second peer makes up for were
\* dropped, server 0 was not restarted and has bits enough, and the client has
\* requests to send and connections to send them on.
Spared ==
  /\ cfg.lt > 0 /\ cfg.ct > 0
  /\ dropped.request = 0
  /\ dropped.question + dropped.reply < Cardinality(Peers)
  /\ up = "up" /\ era = 0 /\ seq <= SeqLimit

\* Then every thread of the client ends.
AllThreadsEnd == []Spared => <>(\A t \in Thread : pc[t] = "done")

=============================================================================
