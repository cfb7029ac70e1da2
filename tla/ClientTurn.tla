----------------------------- MODULE ClientTurn -----------------------------
(***************************************************************************)
(* The benchmark client over TCP (src/app/client2.cpp): the status of each *)
(* client, its connections, the guidances it collects, and the event loop  *)
(* of the thread that drives a group of them.                              *)
(*                                                                         *)
(* In a turn a client sends one operation to the owner of the key.  It is  *)
(* idle again after the reply; a replicated read in addition asks all      *)
(* other replicas for their guidance and waits until a quorum has the      *)
(* epoch it works with.  Nothing in a message says which turn it is of:    *)
(* the turn in a message, and in a collected guidance, is a history value. *)
(*                                                                         *)
(* What the replicas do is the subject of Morphling.  Here a request and   *)
(* the answer to it are one message that travels to the replica and back.  *)
(* Every replica is in epoch 1 for ever (Morphling::init_local_guidance).  *)
(* Messages arrive in portions of one or more; a callback handles the      *)
(* oldest that is there, and the rest stays until the next portion comes.  *)
(***************************************************************************)
EXTENDS Naturals, FiniteSets, SequencesExt

CONSTANTS
  Replica,      \* the replicas
  Owner,        \* the one that owns the key the clients use, 0x5499
  Thread,       \* the threads of the client process
  Client,       \* its clients
  CommandLines, \* ways to start it, see CommandLine
  MaxFailures   \* bound on the connections that fail

(***************************************************************************)
(* mode:  "write", "read" (--ro), "ur" (--ro --ur, unreplicated reads)     *)
(* group: the clients of each thread, in the vector's order (--group);     *)
(*        no clients for a thread that is not there                        *)
(* nums:  cfg_msg_nums, the operations the process is to send              *)
(***************************************************************************)
CommandLine ==
  [mode: {"write", "read", "ur"}, group: [Thread -> Seq(Client)], nums: Nat]

ASSUME ReplicaAssumption == IsFiniteSet(Replica) /\ Owner \in Replica
ASSUME FailureAssumption == MaxFailures \in Nat
ASSUME CommandLineAssumption ==
  /\ CommandLines \subseteq CommandLine
  /\ \A cmd \in CommandLines : \A c \in Client :
       \E t \in Thread : {u \in Thread : c \in ToSet(cmd.group[u])} = {t}

Epoch  == 1
Quorum == Cardinality(Replica) \div 2 + 1
Status == {"init", "reading", "waiting_guidance", "writing", "idle"}

VARIABLES
  cfg,        \* the command line, never changed
  status,     \* status[c]
  leading,    \* leading[c]: the epoch of m_leading_guidance, 0 for none
  collection, \* collection[c][r]: m_one_turn_collection
  sent,       \* g_sent_nums, shared by all threads
  finish,     \* the clients with finish_all_msg
  pc,         \* pc[t]: where thread t is, see TypeOK
  setup,      \* the threads past the first loop of thread_run
  conn,       \* conn[c][r]: "connecting", "open", or "freed", when m_sock_bev
              \* of the connection points to a bufferevent that is no more
  link,       \* link[c][r]: requests of c to r whose answers are under way
  buffer,     \* buffer[c][r]: answers that have arrived but were not handled
  turn,       \* turn[c]: the operations c has sent
  \* history variables
  failed,     \* <<client, replica, answered>> of each connection that failed,
              \* answered if a guidance had come over it
  misused     \* the <<client, replica>> written to after they were freed

clientVars == <<status, leading, collection, turn>>
threadVars == <<sent, finish, setup>>
linkVars   == <<conn, link, buffer, failed>>
vars == <<cfg, clientVars, threadVars, pc, linkVars, misused>>

ClientsOf(t) == ToSet(cfg.group[t])
Running == {t \in Thread : cfg.group[t] # << >>}
ThreadOf(c) == CHOOSE t \in Thread : c \in ClientsOf(t)

NoGuidance   == [epoch |-> 0, turn |-> 0]
NoCollection == [r \in Replica |-> NoGuidance]
Operation(n)   == [type |-> "operation", turn |-> n]
GetGuidance(n) == [type |-> "guidance", turn |-> n]

(* Client::Client and build_comm *)
Init ==
  /\ cfg \in CommandLines
  /\ status     = [c \in Client |-> "init"]
  /\ leading    = [c \in Client |-> 0]
  /\ collection = [c \in Client |-> NoCollection]
  /\ sent = 0
  /\ finish = {}
  /\ pc = [t \in Thread |-> "blocked"]
  /\ setup = {}
  /\ conn   = [c \in Client |-> [r \in Replica |-> "connecting"]]
  /\ link   = [c \in Client |-> [r \in Replica |-> << >>]]
  /\ buffer = [c \in Client |-> [r \in Replica |-> << >>]]
  /\ turn = [c \in Client |-> 0]
  /\ failed = {}
  /\ misused = {}

---------------------------------------------------------------------------
(* The collection of guidances                                             *)

Newest(coll) == Max({coll[r].epoch : r \in Replica})
Votes(coll, e) == {r \in Replica : coll[r].epoch = e}

(* check_guidance_quorum *)
GuidanceQuorum(coll, lead) ==
  /\ lead # 0
  /\ Newest(coll) = lead
  /\ Cardinality(Votes(coll, lead)) >= Quorum

(* has_uniform_guidance *)
Uniform(coll) ==
  \E e \in {coll[r].epoch : r \in Replica} : e # 0 /\ Votes(coll, e) = Replica

---------------------------------------------------------------------------
(* Callbacks, run by the event loop of the thread                          *)

InLoop(t) == pc[t] \in {"blocked", "handling"}

(* on_connection_event with BEV_EVENT_CONNECTED *)
Connect(c, r) ==
  /\ InLoop(ThreadOf(c))
  /\ conn[c][r] = "connecting"
  /\ conn' = [conn EXCEPT ![c][r] = "open"]
  /\ link' = [link EXCEPT ![c][r] = Append(@, GetGuidance(0))]
  /\ pc' = [pc EXCEPT ![ThreadOf(c)] = "handling"]
  /\ UNCHANGED <<cfg, clientVars, threadVars, buffer, failed, misused>>

(* on_connection_event with an error, refused connections included, or the *)
(* end of the stream: the bufferevent is freed with all it holds, nothing  *)
(* else happens, and nobody connects again                                 *)
ConnectionFails(c, r) ==
  /\ InLoop(ThreadOf(c))
  /\ conn[c][r] # "freed"
  /\ Cardinality(failed) < MaxFailures
  /\ conn'   = [conn EXCEPT ![c][r] = "freed"]
  /\ link'   = [link EXCEPT ![c][r] = << >>]
  /\ buffer' = [buffer EXCEPT ![c][r] = << >>]
  /\ failed' = failed \cup
       {<<c, r, turn[c] > 0 \/ collection[c][r] # NoGuidance>>}
  /\ pc' = [pc EXCEPT ![ThreadOf(c)] = "handling"]
  /\ UNCHANGED <<cfg, clientVars, threadVars, misused>>

\* set_guidance, with the turn the guidance was asked for
Collected(c, r, m) ==
  [collection[c] EXCEPT ![r] = [epoch |-> Epoch, turn |-> m.turn]]

\* a turn with the collection coll ends, or the client goes on to status s
EndTurnIf(done, c, coll, s) ==
  /\ collection' = [collection EXCEPT ![c] = IF done THEN NoCollection ELSE coll]
  /\ status' = [status EXCEPT ![c] = IF done THEN "idle" ELSE s]

\* A slip for comparison: a read may also end before the owner's reply
EndsOnGuidanceEarly(c, coll) ==
  /\ status[c] \in {"waiting_guidance", "reading"}
  /\ GuidanceQuorum(coll, leading[c])

\* whether a guidance that completes coll ends the turn of c
EndsOnGuidance(c, coll) ==
  /\ status[c] = "waiting_guidance"
  /\ GuidanceQuorum(coll, leading[c])

\* handle_reply, MsgTypeGuidance
GuidanceArrives(c, r, m) ==
  LET coll == Collected(c, r, m) IN
  EndTurnIf(EndsOnGuidance(c, coll), c, coll, status[c])

\* Slips for comparison: a reader that does not start to wait, and a turn
\* that ends with the owner's reply
StaysReading(c, coll) ==
  EndTurnIf(GuidanceQuorum(coll, leading[c]), c, coll, "reading")
EndsUnconfirmed(c, coll) == EndTurnIf(TRUE, c, coll, "idle")

\* the owner's reply to a replicated read
ReadReplyArrives(c, coll) ==
  EndTurnIf(GuidanceQuorum(coll, leading[c]), c, coll, "waiting_guidance")

\* handle_reply, MsgTypeClientReply: taken for the answer, whatever it is
ReplyArrives(c, r, m) ==
  CASE status[c] = "reading" -> ReadReplyArrives(c, Collected(c, r, m))
    [] status[c] = "writing" -> EndTurnIf(TRUE, c, collection[c], "idle")
    [] OTHER -> UNCHANGED <<collection, status>>

\* handle_ur_reply
UnreplicatedArrives(c, r, m) ==
  IF m.type = "guidance"
  THEN /\ collection' = [collection EXCEPT ![c] = Collected(c, r, m)]
       /\ UNCHANGED status
  ELSE /\ status' = [status EXCEPT ![c] = IF @ = "reading" THEN "idle" ELSE @]
       /\ UNCHANGED collection

\* how many answers a portion may bring: the socket is read whole
Portions(q) == DOMAIN q

(* A portion of n answers arrives from r and wakes the callback.  It calls *)
(* recv_msg once: the oldest answer in the buffer is handled.              *)
Handle(c, r) ==
  /\ InLoop(ThreadOf(c))
  /\ \E n \in Portions(link[c][r]) :
       LET arrived == buffer[c][r] \o SubSeq(link[c][r], 1, n)
           m == Head(arrived)
       IN /\ link' = [link EXCEPT ![c][r] = SubSeq(@, n + 1, Len(@))]
          /\ buffer' = [buffer EXCEPT ![c][r] = Tail(arrived)]
          /\ \/ cfg.mode = "ur" /\ UnreplicatedArrives(c, r, m)
             \/ /\ cfg.mode # "ur" /\ m.type = "guidance"
                /\ GuidanceArrives(c, r, m)
             \/ /\ cfg.mode # "ur" /\ m.type # "guidance"
                /\ ReplyArrives(c, r, m)
  /\ pc' = [pc EXCEPT ![ThreadOf(c)] = "handling"]
  /\ UNCHANGED <<cfg, leading, turn, threadVars, conn, failed, misused>>

---------------------------------------------------------------------------
(* The loops of thread_run                                                 *)

\* A slip for comparison: the setup does not wait for the guidances
ReadyForSetupAny(t) == ClientsOf(t)

\* The clients check_setup makes idle: it stops at the first that lacks a
\* guidance of some replica
ReadyForSetup(t) ==
  LET g == cfg.group[t] IN
  {g[i] : i \in {j \in DOMAIN g : \A k \in 1..j : Uniform(collection[g[k]])}}

\* event_base_loop(EVLOOP_ONCE) returns in the first loop; check_setup
CheckSetup(t) ==
  LET ready == ReadyForSetup(t) IN
  /\ pc[t] = "handling" /\ t \notin setup
  /\ status'  = [c \in Client |-> IF c \in ready THEN "idle" ELSE status[c]]
  /\ leading' = [c \in Client |-> IF c \in ready THEN Newest(collection[c])
                                  ELSE leading[c]]
  /\ IF ready = ClientsOf(t)
     THEN setup' = setup \cup {t} /\ pc' = [pc EXCEPT ![t] = "top"]
     ELSE UNCHANGED setup /\ pc' = [pc EXCEPT ![t] = "blocked"]
  /\ UNCHANGED <<cfg, collection, turn, sent, finish, linkVars, misused>>

\* it returns in the second loop
LoopOnce(t) ==
  /\ pc[t] = "handling" /\ t \in setup
  /\ pc' = [pc EXCEPT ![t] = "top"]
  /\ UNCHANGED <<cfg, clientVars, threadVars, linkVars, misused>>

\* The requests of one turn: the operation to the owner, and for a replicated
\* read a request for guidance to every other replica
Addressed == IF cfg.mode = "read" THEN Replica ELSE {Owner}
RequestOf(r, n) == IF r = Owner THEN Operation(n) ELSE GetGuidance(n)

(* Connection::send looks at nothing.  A bufferevent that is still         *)
(* connecting keeps what is written; through one that was freed the write  *)
(* is lost, or the process ends there and then.                            *)
SendTurn(c, n) ==
  /\ link' = [link EXCEPT ![c] = [r \in Replica |->
       IF r \in Addressed /\ conn[c][r] # "freed"
         THEN Append(@[r], RequestOf(r, n)) ELSE @[r]]]
  /\ misused' = misused \cup
       {<<c, r>> : r \in {s \in Addressed : conn[c][s] = "freed"}}

(* The top of the second loop: one_ready_client, one_send with can_send,   *)
(* and the test whether the thread is done.  g_sent_nums counts on after   *)
(* the last message; here it stops one beyond.                             *)

\* A slip for comparison: ++g_sent_nums < cfg_msg_nums
CanSendOneLess == sent + 1 < cfg.nums

\* can_send, before it counts
CanSend == sent < cfg.nums

\* one_ready_client: c is the first idle client of the thread
FirstIdle(t, c) ==
  \E i \in DOMAIN cfg.group[t] :
    /\ cfg.group[t][i] = c /\ status[c] = "idle"
    /\ \A j \in 1..i - 1 : status[cfg.group[t][j]] # "idle"

NobodyReady(t) ==
  /\ pc[t] = "top"
  /\ \A c \in ClientsOf(t) : status[c] # "idle"
  /\ pc' = [pc EXCEPT ![t] = "blocked"]
  /\ UNCHANGED <<cfg, clientVars, threadVars, linkVars, misused>>

Send(t) ==
  /\ pc[t] = "top" /\ CanSend
  /\ \E c \in ClientsOf(t) :
       /\ FirstIdle(t, c)
       /\ turn' = [turn EXCEPT ![c] = @ + 1]
       /\ SendTurn(c, turn[c] + 1)
       /\ status' = [status EXCEPT ![c] =
                       IF cfg.mode = "write" THEN "writing" ELSE "reading"]
       /\ \/ pc' = [pc EXCEPT ![t] = "blocked"]
          \/ /\ \E r \in Addressed : conn[c][r] = "freed"
             /\ pc' = [s \in Thread |-> "crashed"]
  /\ sent' = sent + 1
  /\ UNCHANGED <<cfg, leading, collection, finish, setup, conn, buffer, failed>>

\* A slip for comparison: the loop ends when nobody can send any more
MayLeaveEarly(t) == TRUE

\* whether all clients of a thread have their answers
MayLeave(t) == \A c \in ClientsOf(t) : status[c] = "idle"

NothingToSend(t) ==
  /\ pc[t] = "top" /\ ~CanSend
  /\ \E c \in ClientsOf(t) : FirstIdle(t, c) /\ finish' = finish \cup {c}
  /\ sent' = cfg.nums + 1
  /\ pc' = [pc EXCEPT ![t] = IF MayLeave(t) THEN "done" ELSE "blocked"]
  /\ UNCHANGED <<cfg, clientVars, setup, linkVars, misused>>

(***************************************************************************)
(* A thread that can go on does: its event loop sees a socket with         *)
(* something to read, the replicas answer (see Morphling) and connections  *)
(* come up.  Which of several sockets comes first is left open.            *)
(***************************************************************************)
ThreadStep(t) ==
  \/ \E c \in ClientsOf(t), r \in Replica : Connect(c, r) \/ Handle(c, r)
  \/ CheckSetup(t) \/ LoopOnce(t) \/ NobodyReady(t) \/ Send(t) \/ NothingToSend(t)

Next ==
  \/ \E t \in Thread : ThreadStep(t)
  \/ \E c \in Client, r \in Replica : ConnectionFails(c, r)

Spec == Init /\ [][Next]_vars

Fairness == \A t \in Thread : WF_vars(ThreadStep(t))

LiveSpec == Spec /\ Fairness

---------------------------------------------------------------------------
\* Answers client c will read from r, the next one first
Unread(c, r) == buffer[c][r] \o link[c][r]

\* Types.  pc[t] is "blocked" in event_base_loop with no callback run yet,
\* "handling" when one was run, "top" at the top of the second loop, "done", or
\* "crashed".
Message == [type: {"operation", "guidance"}, turn: 0..cfg.nums]

TypeOK ==
  /\ cfg \in CommandLines
  /\ status \in [Client -> Status]
  /\ leading \in [Client -> 0..Epoch]
  /\ collection \in [Client -> [Replica -> [epoch: 0..Epoch, turn: 0..cfg.nums]]]
  /\ sent \in 0..cfg.nums + 1
  /\ finish \subseteq Client
  /\ pc \in [Thread -> {"blocked", "handling", "top", "done", "crashed"}]
  /\ setup \subseteq Thread
  /\ conn \in [Client -> [Replica -> {"connecting", "open", "freed"}]]
  /\ link \in [Client -> [Replica -> Seq(Message)]]
  /\ buffer \in [Client -> [Replica -> Seq(Message)]]
  /\ turn \in [Client -> 0..cfg.nums]
  /\ failed \subseteq Client \X Replica \X BOOLEAN
  /\ misused \subseteq Client \X Replica

OperationsOf(c) ==
  {p \in Replica \X (1..2 * cfg.nums + 1) :
     /\ p[2] \in DOMAIN Unread(c, p[1])
     /\ Unread(c, p[1])[p[2]].type = "operation"}

(***************************************************************************)
(* handle_reply takes any reply for the answer to the outstanding          *)
(* operation.  It is: an operation under way is the client's last one, it  *)
(* is the only one, and the client is waiting for it.                      *)
(***************************************************************************)
ReplyIsForThisTurn ==
  \A c \in Client :
    /\ Cardinality(OperationsOf(c)) <= 1
    /\ \A p \in OperationsOf(c) :
         /\ Unread(c, p[1])[p[2]].turn = turn[c]
         /\ status[c] \in {"reading", "writing"}

(***************************************************************************)
(* A turn that a replicated read ends was confirmed: a quorum of guidances *)
(* was there, and among them the owner's, given in this very turn.  (The   *)
(* others may be left over from earlier turns, see the README.)            *)
(***************************************************************************)
ReadsAreConfirmed ==
  [][\A c \in Client :
       (cfg.mode = "read" /\ turn[c] > 0 /\ status[c] # "idle" /\ status'[c] = "idle") =>
         \E r \in {s \in Replica : Unread(c, s) # << >>} :
           LET coll == Collected(c, r, Head(Unread(c, r))) IN
           /\ Unread(c, r)' = Tail(Unread(c, r))
           /\ conn'[c][r] # "freed"
           /\ Cardinality(Votes(coll, leading[c])) >= Quorum
           /\ coll[Owner].turn = turn[c]
    ]_vars

\* the operations sent, as pairs of a client and its turn
OperationsSent ==
  {p \in Client \X (1..cfg.nums) : p[2] <= turn[p[1]]}

(***************************************************************************)
(* "break the loop only when all clients receive reply" (client2.cpp:634): *)
(* a thread that is done leaves no operation unanswered, although it looks *)
(* at the counter the threads share and at the first idle client only, and *)
(* it has set up all its clients.  No client sends before it knows the     *)
(* owner of the key, where one_send would end the process (LOG_F(FATAL)).  *)
(* The types of all variables are part of it.                              *)
(***************************************************************************)
DoneIsAnswered ==
  /\ TypeOK
  /\ \A t \in Thread : pc[t] = "done" =>
       \A c \in ClientsOf(t) : OperationsOf(c) = {} /\ leading[c] = Epoch
  /\ \A c \in Client : turn[c] > 0 => leading[c] = Epoch

(***************************************************************************)
(* g_sent_nums is shared by the threads and counts on when all is sent:    *)
(* the process still sends what it was to send and no more, and has sent   *)
(* all of it when the last thread is done.                                 *)
(***************************************************************************)
SendsAsAsked ==
  /\ IsFiniteSet(OperationsSent) /\ Cardinality(OperationsSent) <= cfg.nums
  /\ (Running # {} /\ \A t \in Running : pc[t] = "done") =>
       Cardinality(OperationsSent) = cfg.nums

(***************************************************************************)
(* A connection that fails leaves m_sock_bev of the client pointing to a   *)
(* bufferevent that was freed.  The client writes to it only if a guidance *)
(* came over the connection before, and only where its turns need it: a    *)
(* replica that cannot be reached when the program starts keeps all of the *)
(* thread from its turns instead.                                          *)
(***************************************************************************)
MisusedWereUsable ==
  \A p \in misused : <<p[1], p[2], TRUE>> \in failed /\ p[2] \in Addressed

(***************************************************************************)
(* Every thread comes to its end: a loop that waits for an event always    *)
(* has one to come, although answers can be left over in a buffer that     *)
(* wakes nobody.  A connection that fails does not change that, unless no  *)
(* guidance had come over it yet or the clients need it in their turns.    *)
(***************************************************************************)
AllThreadsFinish ==
  <>(\/ \A t \in Running : pc[t] = "done"
     \/ \E f \in failed : ~f[3] \/ f[2] \in Addressed)

=============================================================================
