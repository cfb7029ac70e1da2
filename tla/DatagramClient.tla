--------------------------- MODULE DatagramClient ---------------------------
(***************************************************************************)
(* The benchmark client over UDP (src/app/client3.cpp): its threads, the   *)
(* turns of its clients, and the datagrams under way.  A datagram may be   *)
(* lost, overtaken or duplicated on either leg of its round trip; nothing  *)
(* is ever sent again.                                                     *)
(*                                                                         *)
(* A request and the answer to it are one datagram of a round trip; what   *)
(* the replicas do with it is the subject of Morphling, and all of them    *)
(* are in epoch 1 for ever.  Nothing in an answer says which turn it is    *)
(* of: the turn in a datagram or a guidance is a history value.            *)
(***************************************************************************)
EXTENDS Guidance, FiniteSets, SequencesExt, Bags

CONSTANTS
  CommandLines,  \* ways to start the program, see CommandLine
  MaxLost,       \* bound on the datagrams the network loses
  MaxDuplicated  \* bound on the datagrams the network duplicates

(***************************************************************************)
(* mode:     "write", "read" (--ro), "ur" (--ro --ur)                      *)
(* total:    cfg_total_clients                                             *)
(* grouping: cfg_client_grouping; 0 would divide by zero in main           *)
(* nums:     cfg_msg_nums                                                  *)
(***************************************************************************)
CommandLine == [mode: {"write", "read", "ur"}, total: Nat,
                grouping: Nat \ {0}, nums: Nat]

ASSUME CommandLineAssumption == CommandLines \subseteq CommandLine
ASSUME NetworkAssumption == MaxLost \in Nat /\ MaxDuplicated \in Nat

\* The replica that has the position of the key 0x5499 all operations use
Owner == MapNodeId(InitCluster, CalcKeyPos(21657))
Quorum == Cardinality(Node) \div 2 + 1
Epoch == 1

ASSUME OwnerAssumption == Owner \in Node

VARIABLES
  cfg,        \* the command line, never changed
  status,     \* status[c]
  leading,    \* leading[c]: the epoch of m_leading_guidance, 0 for none
  collection, \* collection[c][r]: m_one_turn_collection
  sent,       \* g_sent_nums, shared by all threads
  finish,     \* the clients with finish_all_msg
  pc,         \* pc[t]: where thread t is, see TypeOK
  setup,      \* the threads past the first loop of thread_run
  net,        \* net[c][r]: bag of the datagrams between client c and replica r
  turn,       \* turn[c]: the operations c has sent
  lost,       \* datagrams lost so far
  duplicated  \* duplicated[c]: datagrams of c duplicated so far

clientVars == <<status, leading, collection, turn>>
threadVars == <<sent, finish, pc, setup>>
vars == <<cfg, clientVars, threadVars, net, lost, duplicated>>

-----------------------------------------------------------------------------
(* Clients and threads are numbered from 0; the clients that do not fill a  *)
(* whole thread are never made.                                             *)

ThreadNums == cfg.total \div cfg.grouping
Thread == 0..(ThreadNums - 1)
Client == 0..(ThreadNums * cfg.grouping - 1)

ClientsOf(t) ==
  [i \in 1..cfg.grouping |-> t * cfg.grouping + i - 1]
ThreadOf(c) == c \div cfg.grouping

NoGuidance   == [epoch |-> 0, turn |-> 0]
NoCollection == [r \in Node |-> NoGuidance]

Operation(n)   == [type |-> "operation", turn |-> n]
GetGuidance(n) == [type |-> "guidance", turn |-> n]

\* build_comm: each client registers its sockets and asks every replica for
\* its guidance before the thread enters its event loop.
Init ==
  /\ cfg \in CommandLines
  /\ status = [c \in Client |-> "init"]
  /\ leading = [c \in Client |-> 0]
  /\ collection = [c \in Client |-> NoCollection]
  /\ sent = 0 /\ finish = {}
  /\ pc = [t \in Thread |-> "blocked"]
  /\ setup = {}
  /\ net = [c \in Client |-> [r \in Node |-> SetToBag({GetGuidance(0)})]]
  /\ turn = [c \in Client |-> 0]
  /\ lost = 0
  /\ duplicated = [c \in Client |-> 0]

-----------------------------------------------------------------------------
(* The network *)

One(m) == SetToBag({m})

Lose(c, r, m) ==
  /\ lost < MaxLost
  /\ lost' = lost + 1
  /\ net' = [net EXCEPT ![c][r] = @ (-) One(m)]
  /\ UNCHANGED <<cfg, clientVars, threadVars, duplicated>>

\* the duplicates made so far, numbered for each client
Duplicates == {p \in Client \X (1..MaxDuplicated) : p[2] <= duplicated[p[1]]}

Duplicate(c, r, m) ==
  /\ Cardinality(Duplicates) < MaxDuplicated
  /\ duplicated' = [duplicated EXCEPT ![c] = @ + 1]
  /\ net' = [net EXCEPT ![c][r] = @ (+) One(m)]
  /\ UNCHANGED <<cfg, clientVars, threadVars, lost>>

-----------------------------------------------------------------------------
(* The collection of guidances *)

Newest(coll) == Max({coll[r].epoch : r \in Node})
Votes(coll, e) == {r \in Node : coll[r].epoch = e}

\* check_guidance_quorum
GuidanceQuorum(coll, lead) ==
  /\ lead # 0
  /\ Newest(coll) = lead
  /\ Cardinality(Votes(coll, lead)) >= Quorum

\* has_uniform_guidance
Uniform(coll) ==
  coll[0].epoch # 0 /\ Votes(coll, coll[0].epoch) = Node

\* update_leading_guidance, called after has_uniform_guidance only
Leading(coll) == Newest(coll)

\* set_guidance
Collected(c, r, m) ==
  [collection[c] EXCEPT ![r] = [epoch |-> Epoch, turn |-> m.turn]]

-----------------------------------------------------------------------------
(* The callbacks, run by the event loop of a thread *)

\* A turn ends with an empty collection, or the client goes on with coll.
EndTurnIf(done, c, coll, s) ==
  /\ collection' = [collection EXCEPT ![c] = IF done THEN NoCollection ELSE coll]
  /\ status' = [status EXCEPT ![c] = IF done THEN "idle" ELSE s]

\* A slip for comparison: a read may end before the reply to its operation
EndsOnGuidanceEarly(c, coll) ==
  status[c] \in {"waiting_guidance", "reading"} /\ GuidanceQuorum(coll, leading[c])

EndsOnGuidance(c, coll) ==
  status[c] = "waiting_guidance" /\ GuidanceQuorum(coll, leading[c])

GuidanceArrives(c, r, m) ==
  LET coll == Collected(c, r, m)
  IN EndTurnIf(EndsOnGuidance(c, coll), c, coll, status[c])

\* A slip for comparison: a reader never waits for guidances
StaysReading(c, coll) == EndTurnIf(GuidanceQuorum(coll, leading[c]), c, coll, "reading")

ReadReplyArrives(c, coll) ==
  EndTurnIf(GuidanceQuorum(coll, leading[c]), c, coll, "waiting_guidance")

\* handle_reply, MsgTypeClientReply: taken for the answer, whatever it is
ReplyArrives(c, r, m) ==
  CASE status[c] = "reading" -> ReadReplyArrives(c, Collected(c, r, m))
    [] status[c] = "writing" -> EndTurnIf(TRUE, c, collection[c], "idle")
    [] OTHER -> UNCHANGED <<collection, status>>

HandleReply(c, r, m) ==
  IF m.type = "guidance" THEN GuidanceArrives(c, r, m) ELSE ReplyArrives(c, r, m)

HandleUrReply(c, r, m) ==
  IF m.type = "guidance"
  THEN /\ collection' = [collection EXCEPT ![c] = Collected(c, r, m)]
       /\ UNCHANGED status
  ELSE /\ status' = [status EXCEPT ![c] = IF @ = "reading" THEN "idle" ELSE @]
       /\ UNCHANGED collection

\* build_event chose the callback
Callback(c, r, m) ==
  IF cfg.mode = "ur" THEN HandleUrReply(c, r, m) ELSE HandleReply(c, r, m)

InLoop(t) == pc[t] \in {"blocked", "handling"}

\* A socket is readable and its callback reads one whole datagram.
Recv(c, r, m) ==
  /\ InLoop(ThreadOf(c))
  /\ net' = [net EXCEPT ![c][r] = @ (-) One(m)]
  /\ Callback(c, r, m)
  /\ pc' = [pc EXCEPT ![ThreadOf(c)] = "handling"]
  /\ UNCHANGED <<cfg, leading, turn, sent, finish, setup, lost, duplicated>>

-----------------------------------------------------------------------------
(* thread_run *)

\* check_setup makes the clients idle one by one, up to the first that lacks a
\* guidance; it does so again after each return of the event loop.
ReadyForSetup(t) ==
  LET g == ClientsOf(t)
  IN {g[i] : i \in {j \in DOMAIN g : \A k \in 1..j : Uniform(collection[g[k]])}}

CheckSetup(t) ==
  LET ready == ReadyForSetup(t)
      complete == ready = ToSet(ClientsOf(t))
  IN /\ pc[t] = "handling" /\ t \notin setup
     /\ status' = [c \in Client |-> IF c \in ready THEN "idle" ELSE status[c]]
     /\ leading' = [c \in Client |->
          IF c \in ready THEN Leading(collection[c]) ELSE leading[c]]
     /\ setup' = IF complete THEN setup \cup {t} ELSE setup
     /\ pc' = [pc EXCEPT ![t] = IF complete THEN "top" ELSE "blocked"]
     /\ UNCHANGED <<cfg, collection, turn, sent, finish, net, lost, duplicated>>

\* event_base_loop(EVLOOP_ONCE) returns in the second loop
LoopOnce(t) ==
  /\ pc[t] = "handling" /\ t \in setup
  /\ pc' = [pc EXCEPT ![t] = "top"]
  /\ UNCHANGED <<cfg, clientVars, sent, finish, setup, net, lost, duplicated>>

\* one_ready_client: c is the first idle client of the thread
FirstIdle(t, c) ==
  \E i \in DOMAIN ClientsOf(t) :
    /\ c = ClientsOf(t)[i] /\ status[c] = "idle"
    /\ \A j \in 1..i - 1 : status[ClientsOf(t)[j]] # "idle"

NobodyReady(t) ==
  /\ pc[t] = "top" /\ \A c \in ToSet(ClientsOf(t)) : status[c] # "idle"
  /\ pc' = [pc EXCEPT ![t] = "blocked"]
  /\ UNCHANGED <<cfg, clientVars, sent, finish, setup, net, lost, duplicated>>

\* The datagrams of a turn: the operation to the owner and, for a replicated
\* read, requests for guidance to the other replicas
SendTurn(q, n) ==
  [r \in Node |-> IF r = Owner THEN q[r] (+) One(Operation(n))
                  ELSE IF cfg.mode = "read" THEN q[r] (+) One(GetGuidance(n))
                  ELSE q[r]]

OneSend(t) ==
  /\ pc[t] = "top" /\ sent < cfg.nums
  /\ \E c \in ToSet(ClientsOf(t)) :
       /\ FirstIdle(t, c)
       /\ turn' = [turn EXCEPT ![c] = @ + 1]
       /\ net' = [net EXCEPT ![c] = SendTurn(@, turn[c] + 1)]
       /\ status' = [status EXCEPT ![c] =
            IF cfg.mode = "write" THEN "writing" ELSE "reading"]
  /\ sent' = sent + 1
  /\ pc' = [pc EXCEPT ![t] = "blocked"]
  /\ UNCHANGED <<cfg, leading, collection, finish, setup, lost, duplicated>>

MayLeave(t) == \A c \in ToSet(ClientsOf(t)) : status[c] = "idle"

\* can_send refuses; g_sent_nums, which counts on, stops here one beyond.
NothingToSend(t) ==
  /\ pc[t] = "top" /\ sent >= cfg.nums
  /\ \E c \in ToSet(ClientsOf(t)) :
       FirstIdle(t, c) /\ finish' = finish \cup {c}
  /\ sent' = cfg.nums + 1
  /\ pc' = [pc EXCEPT ![t] = IF MayLeave(t) THEN "done" ELSE "blocked"]
  /\ UNCHANGED <<cfg, clientVars, setup, net, lost, duplicated>>

ThreadStep(t) ==
  \/ \E c \in ToSet(ClientsOf(t)), r \in Node :
       \E m \in BagToSet(net[c][r]) : Recv(c, r, m)
  \/ CheckSetup(t) \/ LoopOnce(t) \/ NobodyReady(t) \/ OneSend(t) \/ NothingToSend(t)

Next ==
  \/ \E t \in Thread : ThreadStep(t)
  \/ \E c \in Client, r \in Node : \E m \in BagToSet(net[c][r]) :
       Lose(c, r, m) \/ Duplicate(c, r, m)

Spec == Init /\ [][Next]_vars

(***************************************************************************)
(* A thread that can go on does: its event loop sees a readable socket,    *)
(* and a datagram that is not lost arrives.  Which of several comes first  *)
(* is left open.                                                           *)
(***************************************************************************)
AThreadSteps == \E t \in Thread : ThreadStep(t)
LiveSpec == Spec /\ WF_vars(AThreadSteps)

-----------------------------------------------------------------------------

\* Types.  pc[t] is "blocked" in event_base_loop with no callback run yet,
\* "handling" when one was run, "top" at the top of the second loop, "done".
TypeOK ==
  /\ cfg \in CommandLines
  /\ status \in [Client -> {"init", "reading", "waiting_guidance", "writing", "idle"}]
  /\ leading \in [Client -> 0..Epoch]
  /\ collection \in [Client -> [Node -> [epoch: 0..Epoch, turn: 0..cfg.nums]]]
  /\ sent \in 0..(cfg.nums + 1)
  /\ finish \subseteq Client
  /\ pc \in [Thread -> {"blocked", "handling", "top", "done"}]
  /\ setup \subseteq Thread
  /\ turn \in [Client -> 0..cfg.nums]
  /\ \A c \in Client, r \in Node :
       /\ IsABag(net[c][r])
       /\ BagToSet(net[c][r]) \subseteq [type: {"operation", "guidance"}, turn: 0..cfg.nums]
  /\ lost \in 0..MaxLost
  /\ duplicated \in [Client -> 0..MaxDuplicated]

Busy(c) == status[c] \in {"reading", "writing"}

CopiesOf(m, q) == IF BagIn(m, q) THEN q[m] ELSE 0

\* The operations in bag q, which may hold several copies of one
Copies(q) ==
  UNION {{n} \X (1..CopiesOf(Operation(n), q)) : n \in 0..cfg.nums}

\* How many operations of c are under way
Operations(c) == Cardinality(Copies(net[c][Owner]))

\* The operations sent, as pairs of a client and its turn
OperationsSent ==
  {p \in Client \X (1..cfg.nums) : p[2] <= turn[p[1]]}

(***************************************************************************)
(* Nothing in a reply is compared with the operation it is taken to answer *)
(* (client3.cpp:434).  Beyond the answer a client waits for there are      *)
(* never more answers to it under way than datagrams of its were           *)
(* duplicated: a client none of whose datagrams was duplicated only ever   *)
(* takes the right one.  A thread that is done has answers for all it      *)
(* sent, although duplicates may stand for answers, and all its clients    *)
(* were set up.  The program sends what it was to send, except that it     *)
(* sends nothing when there are fewer clients than a thread takes (main's  *)
(* division).  The types of all variables are part of it.                  *)
(***************************************************************************)
SurplusIsDuplicates ==
  /\ TypeOK
  /\ \A c \in Client :
       /\ Operations(c) <= duplicated[c] + IF Busy(c) THEN 1 ELSE 0
       /\ duplicated[c] = 0 =>
            \A n \in 0..cfg.nums :
              BagIn(Operation(n), net[c][Owner]) => Busy(c) /\ n = turn[c]
  /\ \A t \in Thread : pc[t] = "done" =>
       \A c \in ToSet(ClientsOf(t)) :
         leading[c] = Epoch /\ Operations(c) <= duplicated[c]
  /\ IsFiniteSet(OperationsSent) /\ Cardinality(OperationsSent) <= cfg.nums
  /\ (Thread # {} /\ \A t \in Thread : pc[t] = "done") =>
       Cardinality(OperationsSent) = cfg.nums

(***************************************************************************)
(* Duplicates and overtaking stop nobody: as long as no datagram is lost,  *)
(* every thread comes to its end.                                          *)
(***************************************************************************)
FinishUnlessLost == <>(lost > 0 \/ \A t \in Thread : pc[t] = "done")
=============================================================================
