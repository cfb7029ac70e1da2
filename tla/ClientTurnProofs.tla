-------------------------- MODULE ClientTurnProofs --------------------------
(***************************************************************************)
(* Proofs about ClientTurn, for every number of replicas, threads, clients *)
(* and operations, and any number of failing connections.  That a reply is *)
(* for the turn it ends is not inductive: the invariant adds what may be   *)
(* under way between a client and the owner, before and after the setup.   *)
(***************************************************************************)
EXTENDS ClientTurn, SequenceTheorems, FiniteSetTheorems, TLAPS

\* A client whose thread is in the first loop: it has asked nobody for more
\* than one guidance, and nobody whose guidance it has is still to answer.
SettingUp(c) ==
  /\ turn[c] = 0 /\ status[c] \in {"init", "idle"}
  /\ \A r \in Replica :
       /\ Unread(c, r) = << >> \/ Unread(c, r) = <<GetGuidance(0)>>
       /\ conn[c][r] = "connecting" => Unread(c, r) = << >>
       /\ collection[c][r] # NoGuidance =>
            Unread(c, r) = << >> /\ conn[c][r] # "connecting"

\* A client whose thread is in the second loop: the owner is to answer the
\* operation of this turn or nothing, the other replicas no operation at all.
Going(c) ==
  /\ leading[c] = Epoch /\ status[c] # "init"
  /\ status[c] = "writing" => cfg.mode = "write"
  /\ \A r \in Replica : conn[c][r] # "connecting"
  /\ turn[c] = 0 =>
       /\ status[c] = "idle"
       /\ \A r \in Replica : collection[c][r] # NoGuidance /\ Unread(c, r) = << >>
  /\ Unread(c, Owner) # << >> =>
       /\ Unread(c, Owner) = <<Operation(turn[c])>>
       /\ status[c] \in {"reading", "writing"}
  /\ \A r \in Replica \ {Owner} : \A i \in DOMAIN Unread(c, r) :
       Unread(c, r)[i].type = "guidance"
  /\ status[c] = "waiting_guidance" => collection[c][Owner].turn = turn[c]

ClientsInStep ==
  \A c \in Client : IF ThreadOf(c) \in setup THEN Going(c) ELSE SettingUp(c)

\* A thread leaves only when its clients are idle.
ThreadsInStep ==
  \A t \in Thread :
    /\ pc[t] \in {"top", "done"} => t \in setup
    /\ pc[t] = "done" => \A c \in ClientsOf(t) : status[c] = "idle"

\* Nothing is to come over a connection that failed; it failed after a guidance
\* had come over it, or none will ever come.
FailuresKnown ==
  \A c \in Client, r \in Replica :
    conn[c][r] = "freed" =>
      /\ Unread(c, r) = << >>
      /\ \/ <<c, r, TRUE>> \in failed
         \/ turn[c] = 0 /\ collection[c][r] = NoGuidance

\* No client has sent more than all of them together.
TurnsCounted == \A c \in Client : turn[c] <= sent

TurnInv ==
  /\ TypeOK /\ ClientsInStep /\ ThreadsInStep /\ FailuresKnown /\ TurnsCounted
  /\ MisusedWereUsable

-----------------------------------------------------------------------------
(* Sequences *)

\* Taking the first of an arrived portion takes the first that is unread.
LEMMA PortionTaken ==
  ASSUME NEW S, NEW b \in Seq(S), NEW l \in Seq(S), NEW n \in DOMAIN l
  PROVE  /\ b \o l # << >> /\ Head(b \o l) \in S
         /\ Head(b \o SubSeq(l, 1, n)) = Head(b \o l)
         /\ Tail(b \o SubSeq(l, 1, n)) \in Seq(S)
         /\ SubSeq(l, n + 1, Len(l)) \in Seq(S)
         /\ Tail(b \o SubSeq(l, 1, n)) \o SubSeq(l, n + 1, Len(l)) = Tail(b \o l)
<1>1. /\ Len(l) \in Nat /\ Len(b) \in Nat /\ n \in 1..Len(l)
  BY LenProperties
<1>2. PICK x : x = SubSeq(l, 1, n)
  OBVIOUS
<1>3. PICK y : y = SubSeq(l, n + 1, Len(l))
  OBVIOUS
<1>4. /\ x \in Seq(S) /\ Len(x) = n /\ \A i \in 1..n : x[i] = l[i]
      /\ y \in Seq(S) /\ Len(y) = Len(l) - n
      /\ \A i \in 1..Len(l) - n : y[i] = l[n + i]
  BY <1>1, <1>2, <1>3
<1>5. x \o y = l
  <2>1. x \o y \in Seq(S) /\ Len(x \o y) = Len(l)
    BY <1>1, <1>4
  <2>2. \A i \in 1..Len(l) : (x \o y)[i] = l[i]
    BY <1>1, <1>4
  <2> QED BY <2>1, <2>2, SeqEqual
<1>6. /\ b \o x \in Seq(S) /\ b \o x # << >> /\ b \o l \in Seq(S)
      /\ b \o l = (b \o x) \o y
  <2>1. b \o l = (b \o x) \o y
    <3>1. x \in Seq(S) /\ y \in Seq(S)
      BY <1>4
    <3>2. (b \o x) \o y = b \o (x \o y)
      BY <3>1, ConcatAssociative
    <3> QED BY <3>2, <1>5
  <2> QED BY <2>1, <1>1, <1>4, ConcatProperties
<1>7. PICK z : z = b \o x
  OBVIOUS
<1>8. /\ Head(z \o y) = Head(z) /\ Tail(z) \in Seq(S) /\ Head(z) \in S
      /\ z \o y # << >>
  BY <1>4, <1>6, <1>7
<1>9. Tail(z) \o y = Tail(z \o y)
  <2>1. /\ Tail(z) \o y \in Seq(S) /\ Tail(z \o y) \in Seq(S)
        /\ Len(Tail(z) \o y) = Len(Tail(z \o y))
    BY <1>4, <1>6, <1>7
  <2>2. \A i \in 1..Len(Tail(z) \o y) : (Tail(z) \o y)[i] = Tail(z \o y)[i]
    BY <1>4, <1>6, <1>7
  <2> QED BY <2>1, <2>2, SeqEqual
<1> QED BY <1>2, <1>3, <1>4, <1>6, <1>7, <1>8, <1>9

\* Sending one more to an empty queue, and to any queue
LEMMA OneSent ==
  ASSUME NEW S, NEW b \in Seq(S), NEW l \in Seq(S), NEW m \in S
  PROVE  /\ Append(l, m) \in Seq(S)
         /\ b \o l = << >> => b \o Append(l, m) = <<m>>
         /\ \A P : (/\ \A i \in DOMAIN (b \o l) : (b \o l)[i].type = P
                    /\ m.type = P)
                   => \A i \in DOMAIN (b \o Append(l, m)) :
                        (b \o Append(l, m))[i].type = P
<1>1. Append(l, m) = l \o <<m>> /\ <<m>> \in Seq(S) /\ Append(l, m) \in Seq(S)
  OBVIOUS
<1>2. PICK u : u = b \o l
  OBVIOUS
<1>3. u \in Seq(S) /\ b \o Append(l, m) = u \o <<m>>
  BY <1>1, <1>2, ConcatAssociative, ConcatProperties
<1>4. u = << >> => u \o <<m>> = <<m>>
  BY <1>1, ConcatEmptySeq
<1>5. ASSUME NEW P, \A i \in DOMAIN u : u[i].type = P, m.type = P,
             NEW i \in DOMAIN (u \o <<m>>)
      PROVE  (u \o <<m>>)[i].type = P
  BY <1>3, <1>5
<1> QED BY <1>1, <1>2, <1>3, <1>4, <1>5

-----------------------------------------------------------------------------
(* Threads and their clients *)

\* Every client is driven by one thread.
LEMMA ThreadOfClient ==
  ASSUME TypeOK, NEW c \in Client
  PROVE  /\ ThreadOf(c) \in Thread /\ c \in ClientsOf(ThreadOf(c))
         /\ \A t \in Thread : c \in ClientsOf(t) => t = ThreadOf(c)
<1>1. PICK t \in Thread : {u \in Thread : c \in ToSet(cfg.group[u])} = {t}
  BY CommandLineAssumption DEF TypeOK
<1>2. \A u \in Thread : c \in ClientsOf(u) <=> u = t
  BY <1>1 DEF ClientsOf
<1> QED BY <1>2 DEF ThreadOf

\* What a thread drives are clients.
LEMMA ClientsOfThread ==
  ASSUME TypeOK, NEW t \in Thread
  PROVE  ClientsOf(t) \subseteq Client
<1>1. cfg.group[t] \in Seq(Client)
  BY CommandLineAssumption DEF TypeOK, CommandLine
<1> QED BY <1>1 DEF ClientsOf, ToSet

\* The number of operations is a number.
LEMMA Numbers ==
  ASSUME TypeOK
  PROVE  /\ cfg.nums \in Nat /\ Owner \in Replica /\ 0 \in 0..cfg.nums
         /\ \A c \in Client : turn[c] \in 0..cfg.nums
         /\ \A n \in 0..cfg.nums : /\ GetGuidance(n) \in Message
                                   /\ Operation(n) \in Message
         /\ NoCollection \in [Replica -> [epoch: 0..Epoch, turn: 0..cfg.nums]]
<1>1. cfg.nums \in Nat
  BY CommandLineAssumption DEF TypeOK, CommandLine
<1> QED BY <1>1, ReplicaAssumption
        DEF TypeOK, Message, GetGuidance, Operation, NoCollection, NoGuidance, Epoch

\* What is unread is a sequence of messages.
LEMMA UnreadTypes ==
  ASSUME TypeOK, NEW c \in Client, NEW r \in Replica
  PROVE  /\ link[c][r] \in Seq(Message) /\ buffer[c][r] \in Seq(Message)
         /\ Unread(c, r) \in Seq(Message)
         /\ Unread(c, r) = << >> => link[c][r] = << >> /\ buffer[c][r] = << >>
<1>1. link[c][r] \in Seq(Message) /\ buffer[c][r] \in Seq(Message)
  BY DEF TypeOK
<1> QED BY <1>1, ConcatProperties, ConcatEqualIffEmpty DEF Unread

-----------------------------------------------------------------------------
(* Handling an answer *)

\* The oldest answer that came from r to c, message m, is taken off.
Taken(c, r, m) ==
  /\ InLoop(ThreadOf(c))
  /\ Unread(c, r) # << >> /\ m = Head(Unread(c, r)) /\ m \in Message
  /\ link' \in [Client -> [Replica -> Seq(Message)]]
  /\ buffer' \in [Client -> [Replica -> Seq(Message)]]
  /\ Unread(c, r)' = Tail(Unread(c, r))
  /\ \A s \in Replica \ {r} : Unread(c, s)' = Unread(c, s)
  /\ \A d \in Client \ {c} : link'[d] = link[d] /\ buffer'[d] = buffer[d]
  /\ pc' = [pc EXCEPT ![ThreadOf(c)] = "handling"]
  /\ UNCHANGED <<cfg, leading, turn, threadVars, conn, failed, misused>>

\* The status and collection of c become s and coll, those of others stay.
Becomes(c, s, coll) ==
  /\ status' = [status EXCEPT ![c] = s]
  /\ collection' = [collection EXCEPT ![c] = coll]

\* What the answer m of r does to c
GuidanceEffect(c, r, m) ==
  /\ m.type = "guidance"
  /\ \/ Becomes(c, status[c], Collected(c, r, m))
     \/ /\ cfg.mode # "ur" /\ status[c] = "waiting_guidance"
        /\ GuidanceQuorum(Collected(c, r, m), leading[c])
        /\ Becomes(c, "idle", NoCollection)
ReadEffect(c, r, m) ==
  /\ m.type # "guidance" /\ status[c] = "reading"
  /\ \/ cfg.mode = "ur" /\ Becomes(c, "idle", collection[c])
     \/ /\ cfg.mode # "ur" /\ GuidanceQuorum(Collected(c, r, m), leading[c])
        /\ Becomes(c, "idle", NoCollection)
     \/ cfg.mode # "ur" /\ Becomes(c, "waiting_guidance", Collected(c, r, m))
WriteEffect(c, m) ==
  /\ m.type # "guidance" /\ status[c] = "writing"
  /\ \/ cfg.mode # "ur" /\ Becomes(c, "idle", NoCollection)
     \/ cfg.mode = "ur" /\ Becomes(c, "writing", collection[c])
NoEffect(c, m) ==
  /\ m.type # "guidance" /\ status[c] \notin {"reading", "writing"}
  /\ Becomes(c, status[c], collection[c])

\* Handle takes one answer and has one of these effects.
LEMMA HandleTakes ==
  ASSUME TypeOK, NEW c \in Client, NEW r \in Replica, Handle(c, r)
  PROVE  \E m : /\ Taken(c, r, m)
                /\ \/ GuidanceEffect(c, r, m) \/ ReadEffect(c, r, m)
                   \/ WriteEffect(c, m) \/ NoEffect(c, m)
<1>1. PICK b, l : b = buffer[c][r] /\ l = link[c][r]
  OBVIOUS
<1>2. b \in Seq(Message) /\ l \in Seq(Message) /\ Unread(c, r) = b \o l
  BY <1>1, UnreadTypes DEF Unread
<1>3. PICK n, m :
        /\ n \in DOMAIN l
        /\ m = Head(b \o SubSeq(l, 1, n))
        /\ link' = [link EXCEPT ![c][r] = SubSeq(l, n + 1, Len(l))]
        /\ buffer' = [buffer EXCEPT ![c][r] = Tail(b \o SubSeq(l, 1, n))]
        /\ \/ cfg.mode = "ur" /\ UnreplicatedArrives(c, r, m)
           \/ cfg.mode # "ur" /\ m.type = "guidance" /\ GuidanceArrives(c, r, m)
           \/ cfg.mode # "ur" /\ m.type # "guidance" /\ ReplyArrives(c, r, m)
  BY <1>1 DEF Handle, Portions
<1>4. /\ InLoop(ThreadOf(c)) /\ pc' = [pc EXCEPT ![ThreadOf(c)] = "handling"]
      /\ UNCHANGED <<cfg, leading, turn, threadVars, conn, failed, misused>>
  BY DEF Handle
<1>5. /\ b \o l # << >> /\ m = Head(b \o l) /\ m \in Message
      /\ Tail(b \o SubSeq(l, 1, n)) \in Seq(Message)
      /\ SubSeq(l, n + 1, Len(l)) \in Seq(Message)
      /\ Tail(b \o SubSeq(l, 1, n)) \o SubSeq(l, n + 1, Len(l)) = Tail(b \o l)
  <2>1. PICK S : S = Message
    OBVIOUS
  <2>2. /\ n \in DOMAIN l /\ m = Head(b \o SubSeq(l, 1, n))
        /\ b \in Seq(S) /\ l \in Seq(S)
    BY <2>1, <1>2, <1>3
  <2>3. /\ b \o l # << >> /\ Head(b \o l) \in S
        /\ Head(b \o SubSeq(l, 1, n)) = Head(b \o l)
        /\ Tail(b \o SubSeq(l, 1, n)) \in Seq(S)
        /\ SubSeq(l, n + 1, Len(l)) \in Seq(S)
        /\ Tail(b \o SubSeq(l, 1, n)) \o SubSeq(l, n + 1, Len(l)) = Tail(b \o l)
    BY <2>2, PortionTaken
  <2> QED BY <2>1, <2>2, <2>3
<1>6. PICK x, y : /\ x \in Seq(Message) /\ y \in Seq(Message)
                  /\ x \o y = Tail(b \o l)
                  /\ link' = [link EXCEPT ![c][r] = y]
                  /\ buffer' = [buffer EXCEPT ![c][r] = x]
  BY <1>3, <1>5
<1>7. /\ link \in [Client -> [Replica -> Seq(Message)]]
      /\ buffer \in [Client -> [Replica -> Seq(Message)]]
  BY DEF TypeOK
<1>8. /\ link' \in [Client -> [Replica -> Seq(Message)]]
      /\ buffer' \in [Client -> [Replica -> Seq(Message)]]
      /\ link'[c][r] = y /\ buffer'[c][r] = x
      /\ \A s \in Replica \ {r} :
           link'[c][s] = link[c][s] /\ buffer'[c][s] = buffer[c][s]
      /\ \A d \in Client \ {c} : link'[d] = link[d] /\ buffer'[d] = buffer[d]
  BY <1>6, <1>7
<1>9. /\ Unread(c, r)' = Tail(Unread(c, r))
      /\ \A s \in Replica \ {r} : Unread(c, s)' = Unread(c, s)
  BY <1>2, <1>6, <1>8 DEF Unread
<1>10. Taken(c, r, m)
  BY <1>2, <1>4, <1>5, <1>8, <1>9 DEF Taken
<1>11. /\ status \in [Client -> Status]
       /\ collection \in [Client ->
                            [Replica -> [epoch: 0..Epoch, turn: 0..cfg.nums]]]
  BY DEF TypeOK
<1>12. /\ UNCHANGED status => status' = [status EXCEPT ![c] = status[c]]
       /\ UNCHANGED collection =>
            collection' = [collection EXCEPT ![c] = collection[c]]
  BY <1>11
<1>13. CASE cfg.mode = "ur" /\ UnreplicatedArrives(c, r, m)
  BY <1>10, <1>12, <1>13
     DEF UnreplicatedArrives, GuidanceEffect, ReadEffect, WriteEffect, NoEffect,
         Becomes
<1>14. CASE cfg.mode # "ur" /\ m.type = "guidance" /\ GuidanceArrives(c, r, m)
  BY <1>10, <1>12, <1>14
     DEF GuidanceArrives, EndTurnIf, EndsOnGuidance, GuidanceEffect, Becomes
<1>15. CASE cfg.mode # "ur" /\ m.type # "guidance" /\ ReplyArrives(c, r, m)
  BY <1>10, <1>12, <1>15
     DEF ReplyArrives, ReadReplyArrives, EndTurnIf, ReadEffect, WriteEffect,
         NoEffect, Becomes
<1> QED BY <1>3, <1>13, <1>14, <1>15

-----------------------------------------------------------------------------
(* One client *)

\* A step that leaves client c alone
SameClient(c) ==
  /\ status'[c] = status[c] /\ leading'[c] = leading[c]
  /\ collection'[c] = collection[c] /\ turn'[c] = turn[c]
  /\ conn'[c] = conn[c] /\ link'[c] = link[c] /\ buffer'[c] = buffer[c]

\* What TurnInv says of one client
InStep(c) == IF ThreadOf(c) \in setup THEN Going(c) ELSE SettingUp(c)
Known(c) ==
  \A r \in Replica :
    conn[c][r] = "freed" =>
      /\ Unread(c, r) = << >>
      /\ \/ <<c, r, TRUE>> \in failed
         \/ turn[c] = 0 /\ collection[c][r] = NoGuidance

\* Such a step keeps what TurnInv says of the client.
LEMMA SameKept ==
  ASSUME NEW c \in Client, SameClient(c), cfg' = cfg, failed \subseteq failed',
         ThreadOf(c) \in setup' <=> ThreadOf(c) \in setup,
         InStep(c), Known(c)
  PROVE  InStep(c)' /\ Known(c)'
<1>1. \A r : Unread(c, r)' = Unread(c, r)
  BY DEF SameClient, Unread
<1>2. ThreadOf(c)' = ThreadOf(c)
  BY DEF ThreadOf, ClientsOf
<1>3. Going(c) => Going(c)'
  BY <1>1 DEF SameClient, Going
<1>4. SettingUp(c) => SettingUp(c)'
  BY <1>1 DEF SameClient, SettingUp
<1>5. Known(c)'
  BY <1>1 DEF SameClient, Known
<1> QED BY <1>2, <1>3, <1>4, <1>5 DEF InStep

\* The parts of TurnInv
LEMMA TurnParts ==
  ASSUME TurnInv
  PROVE  /\ TypeOK /\ ThreadsInStep /\ TurnsCounted /\ MisusedWereUsable
         /\ \A c \in Client : InStep(c) /\ Known(c)
BY DEF TurnInv, ClientsInStep, FailuresKnown, InStep, Known

\* Putting them together
LEMMA TurnWhole ==
  ASSUME TypeOK', ThreadsInStep', TurnsCounted', MisusedWereUsable',
         \A c \in Client : InStep(c)' /\ Known(c)'
  PROVE  TurnInv'
BY DEF TurnInv, ClientsInStep, FailuresKnown, InStep, Known

\* A connection that comes up is that of a client being set up.
LEMMA ConnectKeepsInv ==
  ASSUME TurnInv, NEW c \in Client, NEW r \in Replica, Connect(c, r)
  PROVE  TurnInv'
<1>1. /\ TypeOK /\ ThreadsInStep /\ TurnsCounted /\ MisusedWereUsable
      /\ \A d \in Client : InStep(d) /\ Known(d)
  BY TurnParts
<1>2. /\ InLoop(ThreadOf(c)) /\ conn[c][r] = "connecting"
      /\ conn' = [conn EXCEPT ![c][r] = "open"]
      /\ link' = [link EXCEPT ![c][r] = Append(@, GetGuidance(0))]
      /\ pc' = [pc EXCEPT ![ThreadOf(c)] = "handling"]
      /\ UNCHANGED <<cfg, clientVars, threadVars, buffer, failed, misused>>
  BY DEF Connect
<1>3. /\ cfg' = cfg /\ status' = status /\ leading' = leading /\ turn' = turn
      /\ collection' = collection /\ sent' = sent /\ finish' = finish
      /\ setup' = setup /\ buffer' = buffer /\ failed' = failed
      /\ misused' = misused
  BY <1>2 DEF clientVars, threadVars
<1>4. GetGuidance(0) \in Message /\ link[c][r] \in Seq(Message)
  BY <1>1, Numbers, UnreadTypes
<1>5. PICK q : q = Append(link[c][r], GetGuidance(0))
  OBVIOUS
<1>6. q \in Seq(Message)
  BY <1>4, <1>5
<1>7. /\ link' \in [Client -> [Replica -> Seq(Message)]] /\ link'[c][r] = q
      /\ \A s \in Replica \ {r} : link'[c][s] = link[c][s]
      /\ \A d \in Client \ {c} : link'[d] = link[d]
  BY <1>1, <1>2, <1>5, <1>6 DEF TypeOK
<1>8. /\ conn' \in [Client -> [Replica -> {"connecting", "open", "freed"}]]
      /\ conn'[c][r] = "open"
      /\ \A s \in Replica \ {r} : conn'[c][s] = conn[c][s]
      /\ \A d \in Client \ {c} : conn'[d] = conn[d]
  BY <1>1, <1>2 DEF TypeOK
<1>9. /\ pc' \in [Thread -> {"blocked", "handling", "top", "done", "crashed"}]
      /\ \A t \in Thread : pc'[t] = pc[t] \/ pc'[t] = "handling"
  BY <1>1, <1>2 DEF TypeOK
<1>10. TypeOK'
  BY <1>1, <1>3, <1>7, <1>8, <1>9 DEF TypeOK, Message
<1>11. SettingUp(c) /\ ThreadOf(c) \notin setup
  BY <1>1, <1>2 DEF InStep, Going
<1>12. Unread(c, r) = << >> /\ collection[c][r] = NoGuidance
  BY <1>2, <1>11 DEF SettingUp
<1>13. /\ Unread(c, r)' = <<GetGuidance(0)>>
       /\ \A s \in Replica \ {r} : Unread(c, s)' = Unread(c, s)
  <2>1. link[c][r] = << >> /\ buffer[c][r] = << >>
    BY <1>1, <1>12, UnreadTypes
  <2>2. q = <<GetGuidance(0)>> /\ << >> \o q = q
    BY <2>1, <1>4, <1>5, <1>6, ConcatEmptySeq
  <2> QED BY <2>1, <2>2, <1>3, <1>7 DEF Unread
<1>14. ThreadOf(c)' = ThreadOf(c)
  BY <1>3 DEF ThreadOf, ClientsOf
<1>15. InStep(c)'
  <2>1. SettingUp(c)'
    BY <1>3, <1>8, <1>11, <1>12, <1>13 DEF SettingUp, GetGuidance
  <2> QED BY <2>1, <1>3, <1>11, <1>14 DEF InStep
<1>16. Known(c)'
  BY <1>1, <1>3, <1>8, <1>13 DEF Known
<1>17. \A d \in Client : InStep(d)' /\ Known(d)'
  <2>1. ASSUME NEW d \in Client, d # c
        PROVE  InStep(d)' /\ Known(d)'
    BY <2>1, <1>1, <1>3, <1>7, <1>8, SameKept DEF SameClient
  <2> QED BY <2>1, <1>15, <1>16
<1>18. ThreadsInStep'
  BY <1>1, <1>3, <1>9 DEF ThreadsInStep, ClientsOf
<1>19. TurnsCounted' /\ MisusedWereUsable'
  BY <1>1, <1>3 DEF TurnsCounted, MisusedWereUsable, Addressed
<1> QED BY <1>10, <1>17, <1>18, <1>19, TurnWhole

\* Over a connection that fails nothing is to come any more.
LEMMA FailureKeepsInv ==
  ASSUME TurnInv, NEW c \in Client, NEW r \in Replica, ConnectionFails(c, r)
  PROVE  TurnInv'
<1>1. /\ TypeOK /\ ThreadsInStep /\ TurnsCounted /\ MisusedWereUsable
      /\ \A d \in Client : InStep(d) /\ Known(d)
  BY TurnParts
<1>2. PICK f \in Client \X Replica \X BOOLEAN :
        /\ failed' = failed \cup {f}
        /\ \/ f = <<c, r, TRUE>>
           \/ ~(turn[c] > 0 \/ collection[c][r] # NoGuidance)
  <2>1. CASE turn[c] > 0 \/ collection[c][r] # NoGuidance
    <3>1. (turn[c] > 0 \/ collection[c][r] # NoGuidance) = TRUE
      BY <2>1
    <3> QED BY <3>1 DEF ConnectionFails
  <2>2. CASE ~(turn[c] > 0 \/ collection[c][r] # NoGuidance)
    <3>1. (turn[c] > 0 \/ collection[c][r] # NoGuidance) = FALSE
      BY <2>2
    <3> QED BY <3>1, <2>2 DEF ConnectionFails
  <2> QED BY <2>1, <2>2
<1>3. /\ conn' = [conn EXCEPT ![c][r] = "freed"]
      /\ link' = [link EXCEPT ![c][r] = << >>]
      /\ buffer' = [buffer EXCEPT ![c][r] = << >>]
      /\ pc' = [pc EXCEPT ![ThreadOf(c)] = "handling"]
      /\ UNCHANGED <<cfg, clientVars, threadVars, misused>>
  BY DEF ConnectionFails
<1>4. /\ cfg' = cfg /\ status' = status /\ leading' = leading /\ turn' = turn
      /\ collection' = collection /\ sent' = sent /\ finish' = finish
      /\ setup' = setup /\ misused' = misused
  BY <1>3 DEF clientVars, threadVars
<1>5. << >> \in Seq(Message)
  BY EmptySeq
<1>6. /\ link' \in [Client -> [Replica -> Seq(Message)]] /\ link'[c][r] = << >>
      /\ \A s \in Replica \ {r} : link'[c][s] = link[c][s]
      /\ \A d \in Client \ {c} : link'[d] = link[d]
  BY <1>1, <1>3, <1>5 DEF TypeOK
<1>7. /\ buffer' \in [Client -> [Replica -> Seq(Message)]]
      /\ buffer'[c][r] = << >>
      /\ \A s \in Replica \ {r} : buffer'[c][s] = buffer[c][s]
      /\ \A d \in Client \ {c} : buffer'[d] = buffer[d]
  BY <1>1, <1>3, <1>5 DEF TypeOK
<1>8. /\ conn' \in [Client -> [Replica -> {"connecting", "open", "freed"}]]
      /\ conn'[c][r] = "freed"
      /\ \A s \in Replica \ {r} : conn'[c][s] = conn[c][s]
      /\ \A d \in Client \ {c} : conn'[d] = conn[d]
  BY <1>1, <1>3 DEF TypeOK
<1>9. /\ pc' \in [Thread -> {"blocked", "handling", "top", "done", "crashed"}]
      /\ \A t \in Thread : pc'[t] = pc[t] \/ pc'[t] = "handling"
  BY <1>1, <1>3 DEF TypeOK
<1>10. failed \subseteq failed'
       /\ failed' \subseteq Client \X Replica \X BOOLEAN
  BY <1>1, <1>2 DEF TypeOK
<1>11. TypeOK'
  BY <1>1, <1>4, <1>6, <1>7, <1>8, <1>9, <1>10 DEF TypeOK, Message
<1>12. /\ Unread(c, r)' = << >>
       /\ \A s \in Replica \ {r} : Unread(c, s)' = Unread(c, s)
  <2>1. << >> \o << >> = << >>
    BY EmptySeq, ConcatEmptySeq
  <2> QED BY <2>1, <1>6, <1>7 DEF Unread
<1>13. ThreadOf(c)' = ThreadOf(c)
  BY <1>4 DEF ThreadOf, ClientsOf
<1>14. InStep(c)'
  <2>1. SettingUp(c) => SettingUp(c)'
    BY <1>4, <1>8, <1>12 DEF SettingUp, GetGuidance
  <2>2. Going(c) => Going(c)'
    <3>1. Owner \in Replica /\ DOMAIN << >> = {}
      BY <1>1, Numbers
    <3> QED BY <3>1, <1>4, <1>8, <1>12 DEF Going, Operation
  <2> QED BY <2>1, <2>2, <1>1, <1>4, <1>13 DEF InStep
<1>15. Known(c)'
  <2>1. <<c, r, TRUE>> \in failed' \/ (turn[c] = 0 /\ collection[c][r] = NoGuidance)
    <3>1. turn[c] \in Nat
      BY <1>1, Numbers
    <3>2. CASE f = <<c, r, TRUE>>
      BY <3>2, <1>2, Zenon
    <3>3. CASE ~(turn[c] > 0 \/ collection[c][r] # NoGuidance)
      BY <3>1, <3>3
    <3> QED BY <3>2, <3>3, <1>2, Zenon
  <2> QED BY <2>1, <1>1, <1>4, <1>8, <1>10, <1>12 DEF Known
<1>16. \A d \in Client : InStep(d)' /\ Known(d)'
  <2>1. ASSUME NEW d \in Client, d # c
        PROVE  InStep(d)' /\ Known(d)'
    BY <2>1, <1>1, <1>4, <1>6, <1>7, <1>8, <1>10, SameKept DEF SameClient
  <2> QED BY <2>1, <1>14, <1>15
<1>17. ThreadsInStep'
  BY <1>1, <1>4, <1>9 DEF ThreadsInStep, ClientsOf
<1>18. TurnsCounted' /\ MisusedWereUsable'
  BY <1>1, <1>4, <1>10 DEF TurnsCounted, MisusedWereUsable, Addressed
<1> QED BY <1>11, <1>16, <1>17, <1>18, TurnWhole

\* The status s and the collection coll of a client after an answer
Effect(c, r, m, s, coll) ==
  \/ m.type = "guidance" /\ s = status[c] /\ coll = Collected(c, r, m)
  \/ /\ m.type = "guidance" /\ cfg.mode # "ur" /\ status[c] = "waiting_guidance"
     /\ GuidanceQuorum(Collected(c, r, m), leading[c])
     /\ s = "idle" /\ coll = NoCollection
  \/ /\ m.type # "guidance" /\ status[c] = "reading"
     /\ cfg.mode = "ur" \/ GuidanceQuorum(Collected(c, r, m), leading[c])
     /\ s = "idle" /\ coll \in {collection[c], NoCollection}
  \/ /\ m.type # "guidance" /\ status[c] = "reading"
     /\ s = "waiting_guidance" /\ coll = Collected(c, r, m)
  \/ /\ m.type # "guidance" /\ status[c] = "writing"
     /\ \/ s = "idle" /\ cfg.mode # "ur"
        \/ s = "writing"
     /\ coll \in {collection[c], NoCollection}
  \/ /\ m.type # "guidance" /\ status[c] \notin {"reading", "writing"}
     /\ s = status[c] /\ coll = collection[c]

\* Handle in terms of them
LEMMA HandleEffect ==
  ASSUME TypeOK, NEW c \in Client, NEW r \in Replica, Handle(c, r)
  PROVE  \E m, s, coll :
           /\ Taken(c, r, m) /\ Becomes(c, s, coll) /\ Effect(c, r, m, s, coll)
           /\ s \in Status
           /\ coll \in [Replica -> [epoch: 0..Epoch, turn: 0..cfg.nums]]
           /\ \A x \in Replica \ {r} :
                coll[x] = collection[c][x] \/ coll[x] = NoGuidance
<1>1. PICK m : /\ Taken(c, r, m)
               /\ \/ GuidanceEffect(c, r, m) \/ ReadEffect(c, r, m)
                  \/ WriteEffect(c, m) \/ NoEffect(c, m)
  BY HandleTakes
<1>2. PICK s, coll : Becomes(c, s, coll) /\ Effect(c, r, m, s, coll)
  <2>1. CASE GuidanceEffect(c, r, m)
    BY <2>1 DEF GuidanceEffect, Effect
  <2>2. CASE ReadEffect(c, r, m)
    BY <2>2 DEF ReadEffect, Effect
  <2>3. CASE WriteEffect(c, m)
    BY <2>3 DEF WriteEffect, Effect
  <2>4. CASE NoEffect(c, m)
    BY <2>4 DEF NoEffect, Effect
  <2> QED BY <1>1, <2>1, <2>2, <2>3, <2>4
<1>3. /\ collection[c] \in [Replica -> [epoch: 0..Epoch, turn: 0..cfg.nums]]
      /\ status[c] \in Status /\ m.turn \in 0..cfg.nums
  BY <1>1 DEF TypeOK, Taken, Message
<1>4. /\ NoCollection \in [Replica -> [epoch: 0..Epoch, turn: 0..cfg.nums]]
      /\ \A x \in Replica : NoCollection[x] = NoGuidance
  BY Numbers DEF NoCollection
<1>5. /\ Collected(c, r, m)
           \in [Replica -> [epoch: 0..Epoch, turn: 0..cfg.nums]]
      /\ \A x \in Replica \ {r} : Collected(c, r, m)[x] = collection[c][x]
  BY <1>3 DEF Collected, Epoch
<1>6. {"idle", "waiting_guidance", "writing"} \subseteq Status
  BY DEF Status
<1>7. s \in Status /\ coll \in {collection[c], NoCollection, Collected(c, r, m)}
  BY <1>2, <1>3, <1>6 DEF Effect
<1> QED BY <1>1, <1>2, <1>3, <1>4, <1>5, <1>7

\* An answer keeps the invariant: one from the owner is that of the present
\* turn, or the guidance of the setup.
LEMMA HandleKeepsInv ==
  ASSUME TurnInv, NEW c \in Client, NEW r \in Replica, Handle(c, r)
  PROVE  TurnInv'
<1>1. /\ TypeOK /\ ThreadsInStep /\ TurnsCounted /\ MisusedWereUsable
      /\ \A d \in Client : InStep(d) /\ Known(d)
  BY TurnParts
<1>2. PICK m, s, coll :
        /\ Taken(c, r, m) /\ Becomes(c, s, coll) /\ Effect(c, r, m, s, coll)
        /\ s \in Status
        /\ coll \in [Replica -> [epoch: 0..Epoch, turn: 0..cfg.nums]]
        /\ \A x \in Replica \ {r} :
             coll[x] = collection[c][x] \/ coll[x] = NoGuidance
  BY <1>1, HandleEffect
<1>3. /\ cfg' = cfg /\ leading' = leading /\ turn' = turn /\ sent' = sent
      /\ finish' = finish /\ setup' = setup /\ conn' = conn
      /\ failed' = failed /\ misused' = misused
  BY <1>2 DEF Taken, threadVars
<1>4. /\ status' \in [Client -> Status] /\ status'[c] = s
      /\ \A d \in Client \ {c} : status'[d] = status[d]
  BY <1>1, <1>2 DEF Becomes, TypeOK
<1>5. /\ collection' \in
           [Client -> [Replica -> [epoch: 0..Epoch, turn: 0..cfg.nums]]]
      /\ collection'[c] = coll
      /\ \A d \in Client \ {c} : collection'[d] = collection[d]
  BY <1>1, <1>2 DEF Becomes, TypeOK
<1>6. /\ Unread(c, r) # << >> /\ m = Head(Unread(c, r)) /\ m \in Message
      /\ link' \in [Client -> [Replica -> Seq(Message)]]
      /\ buffer' \in [Client -> [Replica -> Seq(Message)]]
      /\ Unread(c, r)' = Tail(Unread(c, r))
      /\ \A x \in Replica \ {r} : Unread(c, x)' = Unread(c, x)
      /\ \A d \in Client \ {c} : link'[d] = link[d] /\ buffer'[d] = buffer[d]
  BY <1>2 DEF Taken
<1>7. /\ pc' \in [Thread -> {"blocked", "handling", "top", "done", "crashed"}]
      /\ \A t \in Thread \ {ThreadOf(c)} : pc'[t] = pc[t]
      /\ pc'[ThreadOf(c)] = "handling"
  <2>1. pc' = [pc EXCEPT ![ThreadOf(c)] = "handling"]
    BY <1>2 DEF Taken
  <2> QED BY <2>1, <1>1, ThreadOfClient DEF TypeOK
<1>8. TypeOK'
  BY <1>1, <1>3, <1>4, <1>5, <1>6, <1>7 DEF TypeOK, Message
<1>9. ThreadOf(c)' = ThreadOf(c)
  BY <1>3 DEF ThreadOf, ClientsOf
<1>10. Unread(c, r) \in Seq(Message) /\ Owner \in Replica
  BY <1>1, UnreadTypes, Numbers
<1>11. ASSUME SettingUp(c)
       PROVE  SettingUp(c)'
  <2>1. Unread(c, r) = <<GetGuidance(0)>> /\ turn[c] = 0
        /\ status[c] \in {"init", "idle"} /\ conn[c][r] # "connecting"
    BY <1>6, <1>11 DEF SettingUp
  <2>2. m = GetGuidance(0) /\ m.type = "guidance" /\ Unread(c, r)' = << >>
    BY <2>1, <1>6 DEF GetGuidance
  <2>3. s = status[c] /\ coll = Collected(c, r, m)
    BY <2>1, <2>2, <1>2 DEF Effect
  <2>4. \A x \in Replica \ {r} : coll[x] = collection[c][x]
    BY <2>3, <1>1 DEF Collected, TypeOK
  <2>5. turn'[c] = 0 /\ status'[c] \in {"init", "idle"}
    BY <2>1, <2>3, <1>3, <1>4
  <2>6. ASSUME NEW x \in Replica
        PROVE  /\ Unread(c, x)' = << >> \/ Unread(c, x)' = <<GetGuidance(0)>>
               /\ conn'[c][x] = "connecting" => Unread(c, x)' = << >>
               /\ collection'[c][x] # NoGuidance =>
                    Unread(c, x)' = << >> /\ conn'[c][x] # "connecting"
    <3>1. CASE x = r
      BY <3>1, <2>1, <2>2, <1>3
    <3>2. CASE x # r
      <4>1. Unread(c, x)' = Unread(c, x) /\ collection'[c][x] = collection[c][x]
        BY <3>2, <2>4, <1>5, <1>6
      <4> QED BY <4>1, <1>3, <1>11 DEF SettingUp
    <3> QED BY <3>1, <3>2
  <2> QED BY <2>5, <2>6 DEF SettingUp, GetGuidance
<1>12. ASSUME Going(c)
       PROVE  Going(c)'
  <2>1. /\ turn[c] # 0 /\ leading[c] = Epoch /\ status[c] # "init"
        /\ \A x \in Replica : conn[c][x] # "connecting"
        /\ s = "writing" => cfg.mode = "write"
    <3>1. s = "writing" => status[c] = "writing"
      BY <1>2 DEF Effect
    <3> QED BY <3>1, <1>6, <1>12 DEF Going
  <2>2. CASE r = Owner
    <3>1. /\ Unread(c, Owner) = <<Operation(turn[c])>>
          /\ status[c] \in {"reading", "writing"}
      BY <2>2, <1>6, <1>12 DEF Going
    <3>2. /\ m = Operation(turn[c]) /\ m.type # "guidance"
          /\ m.turn = turn[c] /\ Unread(c, Owner)' = << >>
      BY <3>1, <2>2, <1>6 DEF Operation
    <3>3. /\ s # "init"
          /\ s = "waiting_guidance" => coll = Collected(c, r, m)
      BY <3>1, <3>2, <1>2 DEF Effect
    <3>4. s = "waiting_guidance" => coll[Owner].turn = turn[c]
      <4>1. collection[c] \in [Replica -> [epoch: 0..Epoch, turn: 0..cfg.nums]]
        BY <1>1 DEF TypeOK
      <4> QED BY <4>1, <3>2, <3>3, <2>2, <1>10 DEF Collected
    <3> QED BY <3>2, <3>3, <3>4, <2>1, <2>2, <1>3, <1>4, <1>5, <1>6, <1>12
            DEF Going
  <2>3. CASE r # Owner
    <3>1. \A i \in DOMAIN Unread(c, r) : Unread(c, r)[i].type = "guidance"
      BY <2>3, <1>12 DEF Going
    <3>2. m.type = "guidance"
      BY <3>1, <1>6, <1>10
    <3>3. \A i \in DOMAIN Tail(Unread(c, r)) :
            Tail(Unread(c, r))[i].type = "guidance"
      BY <3>1, <1>6, <1>10
    <3>4. Unread(c, Owner)' = Unread(c, Owner)
      BY <2>3, <1>6, <1>10
    <3>5. \/ s = status[c] /\ coll = Collected(c, r, m)
          \/ s = "idle" /\ status[c] = "waiting_guidance"
      BY <3>2, <1>2 DEF Effect
    <3>6. s = status[c] => coll[Owner] = collection[c][Owner]
      <4>1. status[c] = "waiting_guidance" => status[c] # "idle"
        OBVIOUS
      <4>2. coll = Collected(c, r, m) => coll[Owner] = collection[c][Owner]
        BY <2>3, <1>1, <1>10 DEF Collected, TypeOK
      <4> QED BY <4>1, <4>2, <3>5
    <3>7. s # "init" /\ (s \in {"reading", "writing"} \/ Unread(c, Owner) = << >>)
      BY <3>5, <2>1, <1>12 DEF Going
    <3>8. s = "waiting_guidance" => coll[Owner].turn = turn[c]
      BY <3>5, <3>6, <1>12 DEF Going
    <3>9. ASSUME NEW x \in Replica \ {Owner}, NEW i \in DOMAIN Unread(c, x)'
          PROVE  Unread(c, x)'[i].type = "guidance"
      <4>1. CASE x = r
        BY <4>1, <3>3, <3>9, <1>6
      <4>2. CASE x # r
        <5>1. Unread(c, x)' = Unread(c, x)
          BY <4>2, <1>6
        <5> QED BY <5>1, <3>9, <1>12 DEF Going
      <4> QED BY <4>1, <4>2
    <3>10. Unread(c, Owner)' # << >> =>
             /\ Unread(c, Owner)' = <<Operation(turn[c])>>
             /\ s \in {"reading", "writing"}
      BY <3>4, <3>7, <1>12 DEF Going
    <3> QED BY <3>7, <3>8, <3>9, <3>10, <2>1, <1>3, <1>4, <1>5
            DEF Going, Operation
  <2> QED BY <2>2, <2>3
<1>13. InStep(c)'
  BY <1>1, <1>3, <1>9, <1>11, <1>12 DEF InStep
<1>14. Known(c)'
  <2> SUFFICES ASSUME NEW x \in Replica, conn[c][x] = "freed"
               PROVE  /\ Unread(c, x)' = << >>
                      /\ \/ <<c, x, TRUE>> \in failed
                         \/ turn[c] = 0 /\ collection'[c][x] = NoGuidance
    BY <1>3 DEF Known
  <2>1. /\ Unread(c, x) = << >>
        /\ \/ <<c, x, TRUE>> \in failed
           \/ turn[c] = 0 /\ collection[c][x] = NoGuidance
    BY <1>1 DEF Known
  <2>2. x # r /\ Unread(c, x)' = Unread(c, x)
    BY <2>1, <1>6
  <2>3. collection'[c][x] \in {collection[c][x], NoGuidance}
    BY <2>2, <1>2, <1>5
  <2> QED BY <2>1, <2>2, <2>3
<1>15. \A d \in Client : InStep(d)' /\ Known(d)'
  <2>1. ASSUME NEW d \in Client, d # c
        PROVE  InStep(d)' /\ Known(d)'
    BY <2>1, <1>1, <1>3, <1>4, <1>5, <1>6, SameKept DEF SameClient
  <2> QED BY <2>1, <1>13, <1>14
<1>16. ThreadsInStep'
  <2> SUFFICES ASSUME NEW t \in Thread
               PROVE  /\ pc'[t] \in {"top", "done"} => t \in setup'
                      /\ pc'[t] = "done" =>
                           \A d \in ClientsOf(t)' : status'[d] = "idle"
    BY DEF ThreadsInStep
  <2>1. CASE t = ThreadOf(c)
    BY <2>1, <1>7
  <2>2. CASE t # ThreadOf(c)
    <3>1. ClientsOf(t)' = ClientsOf(t) /\ ClientsOf(t) \subseteq Client \ {c}
      BY <2>2, <1>1, <1>3, ThreadOfClient, ClientsOfThread DEF ClientsOf
    <3> QED BY <3>1, <2>2, <1>1, <1>3, <1>4, <1>7 DEF ThreadsInStep
  <2> QED BY <2>1, <2>2
<1>17. TurnsCounted' /\ MisusedWereUsable'
  BY <1>1, <1>3 DEF TurnsCounted, MisusedWereUsable, Addressed
<1> QED BY <1>8, <1>15, <1>16, <1>17, TurnWhole

\* Sending nothing and looping change neither clients nor connections.
LEMMA LoopKeepsInv ==
  ASSUME TurnInv, NEW t \in Thread,
         LoopOnce(t) \/ NobodyReady(t) \/ NothingToSend(t)
  PROVE  TurnInv'
<1>1. /\ TypeOK /\ ThreadsInStep /\ TurnsCounted /\ MisusedWereUsable
      /\ \A d \in Client : InStep(d) /\ Known(d)
  BY TurnParts
<1>2. /\ cfg' = cfg /\ status' = status /\ leading' = leading /\ turn' = turn
      /\ collection' = collection /\ setup' = setup /\ conn' = conn
      /\ link' = link /\ buffer' = buffer /\ failed' = failed
      /\ misused' = misused
  BY DEF LoopOnce, NobodyReady, NothingToSend, clientVars, threadVars, linkVars
<1>3. /\ sent' \in 0..cfg.nums + 1 /\ sent' >= sent /\ finish' \subseteq Client
  <2>1. CASE LoopOnce(t) \/ NobodyReady(t)
    BY <2>1, <1>1 DEF LoopOnce, NobodyReady, threadVars, TypeOK
  <2>2. CASE NothingToSend(t)
    <3>1. sent' = cfg.nums + 1 /\ finish' \subseteq Client
      BY <2>2, <1>1, ClientsOfThread DEF NothingToSend, TypeOK
    <3>2. cfg.nums \in Nat /\ sent \in 0..cfg.nums + 1
      BY <1>1, Numbers DEF TypeOK
    <3>3. PICK n : n = cfg.nums
      OBVIOUS
    <3> QED BY <3>1, <3>2, <3>3
  <2> QED BY <2>1, <2>2
<1>4. /\ \A u \in Thread \ {t} : pc'[u] = pc[u]
      /\ pc' \in [Thread -> {"blocked", "handling", "top", "done", "crashed"}]
      /\ \/ pc'[t] = "blocked"
         \/ pc'[t] = "top" /\ t \in setup
         \/ pc'[t] = "done" /\ t \in setup /\ MayLeave(t)
  <2>1. CASE LoopOnce(t)
    BY <2>1, <1>1 DEF LoopOnce, TypeOK
  <2>2. CASE NobodyReady(t)
    BY <2>2, <1>1 DEF NobodyReady, TypeOK
  <2>3. CASE NothingToSend(t)
    <3>1. t \in setup
      BY <2>3, <1>1 DEF NothingToSend, ThreadsInStep
    <3> QED BY <3>1, <2>3, <1>1 DEF NothingToSend, TypeOK
  <2> QED BY <2>1, <2>2, <2>3
<1>5. TypeOK'
  BY <1>1, <1>2, <1>3, <1>4 DEF TypeOK, Message
<1>6. \A d \in Client : InStep(d)' /\ Known(d)'
  BY <1>1, <1>2, SameKept DEF SameClient
<1>7. ThreadsInStep'
  BY <1>1, <1>2, <1>4 DEF ThreadsInStep, MayLeave, ClientsOf
<1>8. TurnsCounted'
  <2>1. sent \in Nat /\ sent' \in Nat /\ \A c \in Client : turn[c] \in Nat
    BY <1>1, <1>3, Numbers DEF TypeOK
  <2> QED BY <2>1, <1>1, <1>2, <1>3 DEF TurnsCounted
<1>9. MisusedWereUsable'
  BY <1>1, <1>2 DEF MisusedWereUsable, Addressed
<1> QED BY <1>5, <1>6, <1>7, <1>8, <1>9, TurnWhole

\* When all guidances are there, they are of the one epoch.
LEMMA UniformIsNewest ==
  ASSUME TypeOK, NEW c \in Client, Uniform(collection[c])
  PROVE  /\ Newest(collection[c]) = Epoch
         /\ \A r \in Replica : collection[c][r] # NoGuidance
<1>1. PICK e : e # 0 /\ Votes(collection[c], e) = Replica
  BY DEF Uniform
<1>2. \A r \in Replica : collection[c][r].epoch = Epoch
  <2>1. \A r \in Replica : collection[c][r].epoch = e
    BY <1>1 DEF Votes
  <2>2. \A r \in Replica : collection[c][r].epoch \in 0..1
    BY DEF TypeOK, Epoch
  <2> QED BY <2>1, <2>2, <1>1 DEF Epoch
<1>3. PICK S : S = {collection[c][r].epoch : r \in Replica}
  OBVIOUS
<1>4. S = {1}
  BY <1>2, <1>3, ReplicaAssumption DEF Epoch
<1>5. Max(S) = 1
  BY <1>4 DEF Max
<1> QED BY <1>2, <1>3, <1>5 DEF Newest, NoGuidance, Epoch

\* check_setup makes clients idle, and lets the thread go on only when all of
\* its clients have all guidances.
LEMMA SetupKeepsInv ==
  ASSUME TurnInv, NEW t \in Thread, CheckSetup(t)
  PROVE  TurnInv'
<1>1. /\ TypeOK /\ ThreadsInStep /\ TurnsCounted /\ MisusedWereUsable
      /\ \A d \in Client : InStep(d) /\ Known(d)
  BY TurnParts
<1>2. PICK R : R = ReadyForSetup(t)
  OBVIOUS
<1>3. /\ pc[t] = "handling" /\ t \notin setup
      /\ status' = [c \in Client |-> IF c \in R THEN "idle" ELSE status[c]]
      /\ leading' = [c \in Client |-> IF c \in R THEN Newest(collection[c])
                                      ELSE leading[c]]
      /\ \/ R = ClientsOf(t) /\ setup' = setup \cup {t}
            /\ pc' = [pc EXCEPT ![t] = "top"]
         \/ setup' = setup /\ pc' = [pc EXCEPT ![t] = "blocked"]
      /\ UNCHANGED <<cfg, collection, turn, sent, finish, linkVars, misused>>
  BY <1>2 DEF CheckSetup
<1>4. /\ cfg' = cfg /\ collection' = collection /\ turn' = turn /\ sent' = sent
      /\ finish' = finish /\ conn' = conn /\ link' = link /\ buffer' = buffer
      /\ failed' = failed /\ misused' = misused
  BY <1>3 DEF linkVars
<1>5. ASSUME NEW c \in R
      PROVE  c \in Client /\ t = ThreadOf(c) /\ Uniform(collection[c])
  <2>1. PICK j \in DOMAIN cfg.group[t] :
          /\ c = cfg.group[t][j]
          /\ \A k \in 1..j : Uniform(collection[cfg.group[t][k]])
    BY <1>2 DEF ReadyForSetup
  <2>2. c \in ClientsOf(t)
    BY <2>1 DEF ClientsOf, ToSet
  <2>3. j \in 1..j
    <3>1. cfg.group[t] \in Seq(Client)
      BY <1>1, CommandLineAssumption DEF TypeOK, CommandLine
    <3> QED BY <3>1
  <2> QED BY <2>1, <2>2, <2>3, <1>1, ClientsOfThread, ThreadOfClient
<1>6. \A c \in R : /\ Newest(collection[c]) = Epoch
                   /\ \A r \in Replica : collection[c][r] # NoGuidance
  BY <1>1, <1>5, UniformIsNewest
<1>7. /\ status' \in [Client -> Status] /\ leading' \in [Client -> 0..Epoch]
      /\ \A c \in Client :
           /\ c \in R => status'[c] = "idle" /\ leading'[c] = Epoch
           /\ c \notin R => status'[c] = status[c] /\ leading'[c] = leading[c]
  <2>1. "idle" \in Status /\ Epoch \in 0..Epoch
    BY DEF Status, Epoch
  <2>2. \A c \in Client : status'[c] = IF c \in R THEN "idle" ELSE status[c]
    BY <1>3
  <2>3. \A c \in Client :
          leading'[c] = IF c \in R THEN Newest(collection[c]) ELSE leading[c]
    BY <1>3
  <2>4. status' \in [Client -> Status]
    BY <2>1, <1>1, <1>3 DEF TypeOK
  <2>5. leading' \in [Client -> 0..Epoch]
    <3>1. \A c \in Client : leading'[c] \in 0..Epoch
      BY <2>1, <2>3, <1>1, <1>6 DEF TypeOK
    <3> QED BY <3>1, <1>3
  <2> QED BY <2>2, <2>3, <2>4, <2>5, <1>6
<1>8. /\ pc' \in [Thread -> {"blocked", "handling", "top", "done", "crashed"}]
      /\ \A u \in Thread \ {t} : pc'[u] = pc[u]
      /\ pc'[t] # "done" /\ (pc'[t] = "top" => t \in setup')
      /\ setup \subseteq setup' /\ setup' \subseteq setup \cup {t}
      /\ t \in setup' => R = ClientsOf(t)
  BY <1>1, <1>3 DEF TypeOK
<1>9. TypeOK'
  BY <1>1, <1>4, <1>7, <1>8 DEF TypeOK, Message
<1>10. \A c, r : Unread(c, r)' = Unread(c, r)
  BY <1>4 DEF Unread
<1>11. \A c : ThreadOf(c)' = ThreadOf(c)
  BY <1>4 DEF ThreadOf, ClientsOf
<1>12. ASSUME NEW c \in Client, c \in R
       PROVE  InStep(c)' /\ Known(c)'
  <2>1. SettingUp(c)
    BY <1>1, <1>3, <1>5, <1>12 DEF InStep
  <2>2. CASE ThreadOf(c) \in setup'
    <3>1. \A r \in Replica : /\ collection[c][r] # NoGuidance
                             /\ conn[c][r] # "connecting"
                             /\ Unread(c, r) = << >>
      BY <2>1, <1>6, <1>12 DEF SettingUp
    <3>2. turn[c] = 0 /\ DOMAIN << >> = {} /\ Owner \in Replica
      BY <2>1, <1>1, Numbers DEF SettingUp
    <3>3. Going(c)'
      BY <3>1, <3>2, <1>4, <1>7, <1>10, <1>12 DEF Going
    <3> QED BY <3>3, <2>2, <1>1, <1>4, <1>10, <1>11 DEF InStep, Known
  <2>3. CASE ThreadOf(c) \notin setup'
    <3>1. SettingUp(c)'
      BY <2>1, <1>4, <1>7, <1>10, <1>12 DEF SettingUp, GetGuidance
    <3> QED BY <3>1, <2>3, <1>1, <1>4, <1>10, <1>11 DEF InStep, Known
  <2> QED BY <2>2, <2>3
<1>13. ASSUME NEW c \in Client, c \notin R
       PROVE  InStep(c)' /\ Known(c)'
  <2>1. ThreadOf(c) \in setup' <=> ThreadOf(c) \in setup
    <3>1. ThreadOf(c) = t => t \notin setup'
      BY <1>1, <1>8, <1>13, ThreadOfClient
    <3> QED BY <3>1, <1>3, <1>8
  <2> QED BY <2>1, <1>1, <1>4, <1>7, <1>13, SameKept DEF SameClient
<1>14. ThreadsInStep'
  <2> SUFFICES ASSUME NEW u \in Thread
               PROVE  /\ pc'[u] \in {"top", "done"} => u \in setup'
                      /\ pc'[u] = "done" =>
                           \A d \in ClientsOf(u)' : status'[d] = "idle"
    BY DEF ThreadsInStep
  <2>1. CASE u = t
    BY <2>1, <1>8
  <2>2. CASE u # t
    <3>1. ClientsOf(u)' = ClientsOf(u) /\ ClientsOf(u) \subseteq Client
      BY <1>1, <1>4, ClientsOfThread DEF ClientsOf
    <3>2. \A d \in Client : status[d] = "idle" => status'[d] = "idle"
      BY <1>7
    <3> QED BY <3>1, <3>2, <2>2, <1>1, <1>8 DEF ThreadsInStep
  <2> QED BY <2>1, <2>2
<1>15. TurnsCounted' /\ MisusedWereUsable'
  BY <1>1, <1>4 DEF TurnsCounted, MisusedWereUsable, Addressed
<1> QED BY <1>9, <1>12, <1>13, <1>14, <1>15, TurnWhole

\* Sending: the client was idle and nothing of the owner was unread; a freed
\* connection that a turn needs had brought a guidance.
LEMMA SendKeepsInv ==
  ASSUME TurnInv, NEW t \in Thread, Send(t)
  PROVE  TurnInv'
<1>1. /\ TypeOK /\ ThreadsInStep /\ TurnsCounted /\ MisusedWereUsable
      /\ \A d \in Client : InStep(d) /\ Known(d)
  BY TurnParts
<1>2. PICK c \in ClientsOf(t) :
        /\ FirstIdle(t, c)
        /\ turn' = [turn EXCEPT ![c] = @ + 1]
        /\ SendTurn(c, turn[c] + 1)
        /\ status' = [status EXCEPT ![c] =
                        IF cfg.mode = "write" THEN "writing" ELSE "reading"]
        /\ \/ pc' = [pc EXCEPT ![t] = "blocked"]
           \/ pc' = [s \in Thread |-> "crashed"]
  BY DEF Send
<1>3. /\ pc[t] = "top" /\ sent < cfg.nums /\ sent' = sent + 1
      /\ cfg' = cfg /\ leading' = leading /\ collection' = collection
      /\ finish' = finish /\ setup' = setup /\ conn' = conn
      /\ buffer' = buffer /\ failed' = failed
  BY DEF Send, CanSend
<1>4. c \in Client /\ t = ThreadOf(c) /\ t \in setup /\ status[c] = "idle"
  BY <1>1, <1>2, <1>3, ClientsOfThread, ThreadOfClient
     DEF FirstIdle, ThreadsInStep
<1>5. Going(c) /\ Known(c)
  BY <1>1, <1>4 DEF InStep
<1>6. PICK n : n = turn[c] + 1
  OBVIOUS
<1>7. /\ cfg.nums \in Nat /\ sent \in Nat /\ turn[c] \in Nat /\ turn[c] <= sent
      /\ n \in 0..cfg.nums /\ n # 0 /\ n <= sent'
      /\ sent' \in 0..cfg.nums + 1
  <2>1. cfg.nums \in Nat /\ sent \in Nat /\ turn[c] \in Nat /\ turn[c] <= sent
    <3>1. /\ cfg.nums \in Nat /\ turn[c] \in 0..cfg.nums
          /\ sent \in 0..cfg.nums + 1
      BY <1>1, <1>4, Numbers DEF TypeOK
    <3>2. turn[c] <= sent
      BY <1>1, <1>4 DEF TurnsCounted
    <3>3. PICK k : k = cfg.nums
      OBVIOUS
    <3> QED BY <3>1, <3>2, <3>3
  <2>2. PICK k : k = cfg.nums
    OBVIOUS
  <2> QED BY <2>1, <2>2, <1>3, <1>6
<1>8. /\ turn' \in [Client -> 0..cfg.nums] /\ turn'[c] = n
      /\ \A d \in Client \ {c} : turn'[d] = turn[d]
  <2>1. turn \in [Client -> 0..cfg.nums] /\ turn' = [turn EXCEPT ![c] = n]
    BY <1>1, <1>2, <1>6 DEF TypeOK
  <2> QED BY <2>1, <1>4, <1>7
<1>9. /\ status' \in [Client -> Status] /\ status'[c] \in {"reading", "writing"}
      /\ status'[c] = "writing" => cfg.mode = "write"
      /\ \A d \in Client \ {c} : status'[d] = status[d]
  BY <1>1, <1>2, <1>4 DEF TypeOK, Status
<1>10. /\ pc' \in [Thread -> {"blocked", "handling", "top", "done", "crashed"}]
       /\ pc'[t] \in {"blocked", "crashed"}
       /\ \A u \in Thread \ {t} : pc'[u] = pc[u] \/ pc'[u] = "crashed"
  BY <1>1, <1>2 DEF TypeOK
<1>11. /\ link' = [link EXCEPT ![c] = [r \in Replica |->
            IF r \in Addressed /\ conn[c][r] # "freed"
              THEN Append(link[c][r], RequestOf(r, n)) ELSE link[c][r]]]
       /\ misused' = misused \cup
            {<<c, r>> : r \in {s \in Addressed : conn[c][s] = "freed"}}
  BY <1>1, <1>2, <1>4, <1>6 DEF SendTurn, TypeOK
<1>12. /\ \A r \in Replica : link'[c][r] =
            IF r \in Addressed /\ conn[c][r] # "freed"
              THEN Append(link[c][r], RequestOf(r, n)) ELSE link[c][r]
       /\ \A d \in Client \ {c} : link'[d] = link[d]
  BY <1>1, <1>4, <1>11 DEF TypeOK
<1>13. \A r \in Replica : RequestOf(r, n) \in Message
  BY <1>1, <1>7, Numbers DEF RequestOf
<1>14. link' \in [Client -> [Replica -> Seq(Message)]]
  <2>1. \A r \in Replica : link[c][r] \in Seq(Message)
    BY <1>1, <1>4 DEF TypeOK
  <2>2. \A r \in Replica : Append(link[c][r], RequestOf(r, n)) \in Seq(Message)
    BY <2>1, <1>13
  <2>3. [r \in Replica |-> IF r \in Addressed /\ conn[c][r] # "freed"
                           THEN Append(link[c][r], RequestOf(r, n))
                           ELSE link[c][r]] \in [Replica -> Seq(Message)]
    BY <2>1, <2>2
  <2> QED BY <2>3, <1>1, <1>4, <1>11 DEF TypeOK
<1>15. Addressed \subseteq Replica /\ Owner \in Addressed /\ Owner \in Replica
  BY ReplicaAssumption DEF Addressed
<1>16. misused' \subseteq Client \X Replica
  BY <1>1, <1>4, <1>11, <1>15 DEF TypeOK
<1>17. TypeOK'
  BY <1>1, <1>3, <1>7, <1>8, <1>9, <1>10, <1>14, <1>16 DEF TypeOK, Message
<1>18. ThreadOf(c)' = ThreadOf(c) /\ \A u : ClientsOf(u)' = ClientsOf(u)
  BY <1>3 DEF ThreadOf, ClientsOf
<1>19. ASSUME NEW r \in Replica
       PROVE  \/ /\ Unread(c, r)' = Unread(c, r)
                 /\ link'[c][r] = link[c][r]
              \/ /\ conn[c][r] # "freed"
                 /\ Unread(c, r) = << >> => Unread(c, r)' = <<RequestOf(r, n)>>
                 /\ r # Owner =>
                      \A i \in DOMAIN Unread(c, r)' :
                        Unread(c, r)'[i].type = "guidance"
  <2>1. CASE link'[c][r] = link[c][r]
    BY <2>1, <1>3 DEF Unread
  <2>2. CASE link'[c][r] # link[c][r]
    <3>1. PICK b, l, m : b = buffer[c][r] /\ l = link[c][r] /\ m = RequestOf(r, n)
      OBVIOUS
    <3>2. /\ conn[c][r] # "freed" /\ Unread(c, r) = b \o l
          /\ Unread(c, r)' = b \o Append(l, m)
      BY <2>2, <3>1, <1>3, <1>12 DEF Unread
    <3>3. PICK S : S = Message
      OBVIOUS
    <3>4. b \in Seq(S) /\ l \in Seq(S) /\ m \in S
      BY <3>1, <3>3, <1>1, <1>4, <1>13, UnreadTypes
    <3>5. /\ b \o l = << >> => b \o Append(l, m) = <<m>>
          /\ (/\ \A i \in DOMAIN (b \o l) : (b \o l)[i].type = "guidance"
              /\ m.type = "guidance")
             => \A i \in DOMAIN (b \o Append(l, m)) :
                  (b \o Append(l, m))[i].type = "guidance"
      BY <3>4, OneSent
    <3>6. r # Owner =>
            /\ m.type = "guidance"
            /\ \A i \in DOMAIN (b \o l) : (b \o l)[i].type = "guidance"
      BY <3>1, <3>2, <1>5 DEF Going, RequestOf, GetGuidance
    <3> QED BY <3>1, <3>2, <3>5, <3>6
  <2> QED BY <2>1, <2>2
<1>20. Going(c)'
  <2>1. Unread(c, Owner) = << >>
    BY <1>4, <1>5 DEF Going
  <2>2. Unread(c, Owner)' # << >> => Unread(c, Owner)' = <<Operation(n)>>
    BY <2>1, <1>15, <1>19 DEF RequestOf
  <2>3. ASSUME NEW r \in Replica \ {Owner}, NEW i \in DOMAIN Unread(c, r)'
        PROVE  Unread(c, r)'[i].type = "guidance"
    BY <2>3, <1>5, <1>19 DEF Going
  <2>4. turn'[c] # 0 /\ status'[c] \notin {"init", "waiting_guidance"}
    BY <1>7, <1>8, <1>9
  <2>5. /\ leading'[c] = Epoch /\ \A r \in Replica : conn'[c][r] # "connecting"
        /\ status'[c] = "writing" => cfg'.mode = "write"
    BY <1>3, <1>5, <1>9 DEF Going
  <2>6. Unread(c, Owner)' # << >> =>
          /\ Unread(c, Owner)' = <<Operation(turn'[c])>>
          /\ status'[c] \in {"reading", "writing"}
    BY <2>2, <1>8, <1>9
  <2> QED BY <2>3, <2>4, <2>5, <2>6 DEF Going, Operation
<1>21. ASSUME NEW r \in Replica, conn[c][r] = "freed"
       PROVE  <<c, r, TRUE>> \in failed
  BY <1>5, <1>21 DEF Known, Going
<1>22. Known(c)'
  <2> SUFFICES ASSUME NEW r \in Replica, conn[c][r] = "freed"
               PROVE  Unread(c, r)' = << >> /\ <<c, r, TRUE>> \in failed
    BY <1>3 DEF Known
  <2> QED BY <1>5, <1>19, <1>21 DEF Known
<1>23. \A d \in Client : InStep(d)' /\ Known(d)'
  <2>1. ASSUME NEW d \in Client, d # c
        PROVE  InStep(d)' /\ Known(d)'
    BY <2>1, <1>1, <1>3, <1>8, <1>9, <1>12, SameKept DEF SameClient
  <2> QED BY <2>1, <1>3, <1>4, <1>18, <1>20, <1>22 DEF InStep
<1>24. ThreadsInStep'
  <2> SUFFICES ASSUME NEW u \in Thread
               PROVE  /\ pc'[u] \in {"top", "done"} => u \in setup'
                      /\ pc'[u] = "done" =>
                           \A d \in ClientsOf(u)' : status'[d] = "idle"
    BY DEF ThreadsInStep
  <2>1. CASE u = t
    BY <2>1, <1>10
  <2>2. CASE u # t
    <3>1. ClientsOf(u) \subseteq Client \ {c}
      BY <2>2, <1>1, <1>4, ThreadOfClient, ClientsOfThread
    <3> QED BY <3>1, <2>2, <1>1, <1>3, <1>9, <1>10, <1>18 DEF ThreadsInStep
  <2> QED BY <2>1, <2>2
<1>25. TurnsCounted'
  <2>1. ASSUME NEW d \in Client, d # c
        PROVE  turn'[d] <= sent'
    <3>1. turn[d] \in Nat /\ turn[d] <= sent
      BY <1>1, Numbers DEF TurnsCounted
    <3> QED BY <3>1, <2>1, <1>3, <1>7, <1>8
  <2> QED BY <2>1, <1>7, <1>8 DEF TurnsCounted
<1>26. MisusedWereUsable'
  <2>1. Addressed' = Addressed
    BY <1>3 DEF Addressed
  <2>2. ASSUME NEW p \in misused'
        PROVE  <<p[1], p[2], TRUE>> \in failed /\ p[2] \in Addressed
    <3>1. CASE p \in misused
      BY <3>1, <1>1, Zenon DEF MisusedWereUsable
    <3>2. CASE p \notin misused
      <4>1. PICK r \in Addressed : conn[c][r] = "freed" /\ p = <<c, r>>
        BY <3>2, <2>2, <1>11
      <4>2. r \in Replica /\ p[1] = c /\ p[2] = r
        BY <4>1, <1>15
      <4>3. <<c, r, TRUE>> \in failed
        BY <4>1, <4>2, <1>21, Zenon
      <4> QED BY <4>1, <4>2, <4>3, Zenon
    <3> QED BY <3>1, <3>2, Zenon
  <2> QED BY <2>1, <2>2, <1>3 DEF MisusedWereUsable
<1> QED BY <1>17, <1>23, <1>24, <1>25, <1>26, TurnWhole

\* At first nothing is under way.
LEMMA TurnInvInit == Init => TurnInv
<1> SUFFICES ASSUME Init PROVE TurnInv
  OBVIOUS
<1>1. /\ cfg \in CommandLines /\ status = [c \in Client |-> "init"]
      /\ leading = [c \in Client |-> 0]
      /\ collection = [c \in Client |-> NoCollection]
      /\ sent = 0 /\ finish = {} /\ pc = [t \in Thread |-> "blocked"]
      /\ setup = {} /\ failed = {} /\ misused = {}
      /\ conn   = [c \in Client |-> [r \in Replica |-> "connecting"]]
      /\ link   = [c \in Client |-> [r \in Replica |-> << >>]]
      /\ buffer = [c \in Client |-> [r \in Replica |-> << >>]]
      /\ turn = [c \in Client |-> 0]
  BY DEF Init
<1>2. cfg.nums \in Nat
  BY <1>1, CommandLineAssumption DEF CommandLine
<1>3. /\ NoCollection \in [Replica -> [epoch: 0..Epoch, turn: 0..cfg.nums]]
      /\ \A r \in Replica : NoCollection[r] = NoGuidance
  BY <1>2 DEF NoCollection, NoGuidance, Epoch
<1>4. << >> \in Seq(Message) /\ << >> \o << >> = << >>
  BY EmptySeq, ConcatEmptySeq
<1>5. TypeOK
  <2>1. collection \in [Client ->
                          [Replica -> [epoch: 0..Epoch, turn: 0..cfg.nums]]]
    BY <1>1, <1>3
  <2>2. /\ link \in [Client -> [Replica -> Seq(Message)]]
        /\ buffer \in [Client -> [Replica -> Seq(Message)]]
    BY <1>1, <1>4
  <2>3. /\ leading \in [Client -> 0..Epoch] /\ sent \in 0..cfg.nums + 1
        /\ turn \in [Client -> 0..cfg.nums]
    <3>1. PICK k : k = cfg.nums
      OBVIOUS
    <3> QED BY <3>1, <1>1, <1>2 DEF Epoch
  <2>4. /\ cfg \in CommandLines /\ status \in [Client -> Status]
        /\ finish \subseteq Client /\ setup \subseteq Thread
        /\ pc \in [Thread -> {"blocked", "handling", "top", "done", "crashed"}]
        /\ conn \in [Client -> [Replica -> {"connecting", "open", "freed"}]]
        /\ failed \subseteq Client \X Replica \X BOOLEAN
        /\ misused \subseteq Client \X Replica
    BY <1>1 DEF Status
  <2> QED BY <2>1, <2>2, <2>3, <2>4 DEF TypeOK
<1>6. \A c \in Client, r \in Replica :
        Unread(c, r) = << >> /\ collection[c][r] = NoGuidance
  BY <1>1, <1>3, <1>4 DEF Unread
<1>7. ClientsInStep /\ FailuresKnown
  BY <1>1, <1>6 DEF ClientsInStep, FailuresKnown, SettingUp
<1>8. ThreadsInStep /\ TurnsCounted /\ MisusedWereUsable
  BY <1>1 DEF ThreadsInStep, TurnsCounted, MisusedWereUsable
<1> QED BY <1>5, <1>7, <1>8 DEF TurnInv

\* Every step keeps the invariant.
LEMMA TurnInvStep == TurnInv /\ [Next]_vars => TurnInv'
<1> SUFFICES ASSUME TurnInv, [Next]_vars
             PROVE  TurnInv'
  OBVIOUS
<1>1. ASSUME NEW t \in Thread, ThreadStep(t)
      PROVE  TurnInv'
  <2>1. ClientsOf(t) \subseteq Client
    BY TurnParts, ClientsOfThread
  <2>2. ASSUME NEW c \in ClientsOf(t), NEW r \in Replica,
               Connect(c, r) \/ Handle(c, r)
        PROVE  TurnInv'
    BY <2>1, <2>2, ConnectKeepsInv, HandleKeepsInv
  <2> QED BY <2>2, <1>1, SetupKeepsInv, LoopKeepsInv, SendKeepsInv DEF ThreadStep
<1>2. ASSUME NEW c \in Client, NEW r \in Replica, ConnectionFails(c, r)
      PROVE  TurnInv'
  BY <1>2, FailureKeepsInv
<1>3. ASSUME UNCHANGED vars
      PROVE  TurnInv'
  <2>1. /\ cfg' = cfg /\ status' = status /\ leading' = leading /\ turn' = turn
        /\ collection' = collection /\ sent' = sent /\ finish' = finish
        /\ setup' = setup /\ pc' = pc /\ conn' = conn /\ link' = link
        /\ buffer' = buffer /\ failed' = failed /\ misused' = misused
    BY <1>3 DEF vars, clientVars, threadVars, linkVars
  <2> QED BY <2>1, TurnParts, TurnWhole, SameKept
          DEF SameClient, TypeOK, Message, ThreadsInStep, TurnsCounted,
              MisusedWereUsable, ClientsOf, Addressed
<1> QED BY <1>1, <1>2, <1>3 DEF Next

\* TurnInv is an invariant of the client process.
THEOREM ClientsStayInStep == Spec => []TurnInv
<1> QED BY TurnInvInit, TurnInvStep, PTL DEF Spec

-----------------------------------------------------------------------------
(* What follows from it *)

\* An operation is under way to the owner alone, for this turn.
LEMMA OperationsAre ==
  ASSUME TurnInv, NEW c \in Client, NEW p \in OperationsOf(c)
  PROVE  /\ p = <<Owner, 1>> /\ status[c] \in {"reading", "writing"}
         /\ Unread(c, Owner) = <<Operation(turn[c])>>
<1>1. /\ TypeOK /\ InStep(c)
      /\ p \in Replica \X (1..2 * cfg.nums + 1) /\ p[1] \in Replica
      /\ p[2] \in DOMAIN Unread(c, p[1])
      /\ Unread(c, p[1])[p[2]].type = "operation"
  BY TurnParts DEF OperationsOf
<1>2. ~SettingUp(c)
  <2> SUFFICES ASSUME SettingUp(c) PROVE FALSE
    OBVIOUS
  <2>1. Unread(c, p[1]) = <<GetGuidance(0)>>
    <3>1. DOMAIN << >> = {}
      OBVIOUS
    <3> QED BY <3>1, <1>1 DEF SettingUp
  <2>2. p[2] = 1
    BY <2>1, <1>1
  <2> QED BY <2>1, <2>2, <1>1 DEF GetGuidance
<1>3. Going(c)
  BY <1>1, <1>2 DEF InStep
<1>4. p[1] = Owner
  BY <1>1, <1>3 DEF Going
<1>5. Unread(c, Owner) # << >>
  <2>1. DOMAIN << >> = {}
    OBVIOUS
  <2> QED BY <2>1, <1>1, <1>4
<1>6. /\ Unread(c, Owner) = <<Operation(turn[c])>>
      /\ status[c] \in {"reading", "writing"}
  BY <1>3, <1>5 DEF Going
<1>7. p[2] = 1
  BY <1>1, <1>4, <1>6
<1> QED BY <1>1, <1>4, <1>6, <1>7

\* A reply carries nothing that tells its request. Still the one that a client
\* takes for the answer to its operation is the answer to it.
THEOREM RepliesAreAnswers == Spec => []ReplyIsForThisTurn
<1>1. TurnInv => ReplyIsForThisTurn
  <2> SUFFICES ASSUME TurnInv, NEW c \in Client
               PROVE  /\ Cardinality(OperationsOf(c)) <= 1
                      /\ \A p \in OperationsOf(c) :
                           /\ Unread(c, p[1])[p[2]].turn = turn[c]
                           /\ status[c] \in {"reading", "writing"}
    BY DEF ReplyIsForThisTurn
  <2>1. \A p \in OperationsOf(c) :
          /\ p = <<Owner, 1>> /\ status[c] \in {"reading", "writing"}
          /\ Unread(c, Owner) = <<Operation(turn[c])>>
    BY OperationsAre
  <2>2. OperationsOf(c) = {} \/ OperationsOf(c) = {<<Owner, 1>>}
    BY <2>1
  <2>3. Cardinality(OperationsOf(c)) <= 1
    <3>1. CASE OperationsOf(c) = {}
      <4>1. Cardinality(OperationsOf(c)) = 0
        BY <3>1, FS_EmptySet
      <4> QED BY <4>1
    <3>2. CASE OperationsOf(c) = {<<Owner, 1>>}
      <4>1. Cardinality(OperationsOf(c)) = 1
        BY <3>2, FS_Singleton
      <4> QED BY <4>1
    <3> QED BY <2>2, <3>1, <3>2
  <2>4. \A p \in OperationsOf(c) : Unread(c, p[1])[p[2]].turn = turn[c]
    BY <2>1 DEF Operation
  <2> QED BY <2>1, <2>3, <2>4
<1> QED BY <1>1, ClientsStayInStep, PTL

\* The "todo" of client2.cpp:634: a thread that leaves its loop leaves nothing
\* unanswered, and nobody sends without a guidance.
THEOREM NothingIsLeft == Spec => []DoneIsAnswered
<1>1. TurnInv => DoneIsAnswered
  <2> SUFFICES ASSUME TurnInv PROVE DoneIsAnswered
    OBVIOUS
  <2>1. TypeOK /\ ThreadsInStep /\ \A c \in Client : InStep(c)
    BY TurnParts
  <2>2. ASSUME NEW t \in Thread, pc[t] = "done", NEW c \in ClientsOf(t)
        PROVE  OperationsOf(c) = {} /\ leading[c] = Epoch
    <3>1. c \in Client /\ t = ThreadOf(c) /\ t \in setup /\ status[c] = "idle"
      BY <2>1, <2>2, ClientsOfThread, ThreadOfClient DEF ThreadsInStep
    <3>2. leading[c] = Epoch
      BY <2>1, <3>1 DEF InStep, Going
    <3>3. OperationsOf(c) = {}
      BY <3>1, OperationsAre
    <3> QED BY <3>2, <3>3
  <2>3. ASSUME NEW c \in Client, turn[c] > 0
        PROVE  leading[c] = Epoch
    BY <2>1, <2>3 DEF InStep, SettingUp, Going
  <2> QED BY <2>1, <2>2, <2>3 DEF DoneIsAnswered
<1> QED BY <1>1, ClientsStayInStep, PTL

\* A client writes to a connection that failed only where a guidance had come
\* over it and its turns need it.
THEOREM OnlyUsableIsMisused == Spec => []MisusedWereUsable
<1>1. TurnInv => MisusedWereUsable
  BY TurnParts
<1> QED BY <1>1, ClientsStayInStep, PTL

\* The turn of a replicated read ends with a quorum of guidances, the owner's
\* of this very turn among them.
THEOREM ReadsEndConfirmed == Spec => ReadsAreConfirmed
<1> DEFINE Confirmed ==
      \A c \in Client :
        (cfg.mode = "read" /\ turn[c] > 0 /\ status[c] # "idle" /\ status'[c] = "idle") =>
          \E r \in {s \in Replica : Unread(c, s) # << >>} :
            LET coll == Collected(c, r, Head(Unread(c, r))) IN
            /\ Unread(c, r)' = Tail(Unread(c, r))
            /\ conn'[c][r] # "freed"
            /\ Cardinality(Votes(coll, leading[c])) >= Quorum
            /\ coll[Owner].turn = turn[c]
<1>1. TurnInv /\ [Next]_vars => [Confirmed]_vars
  <2> SUFFICES ASSUME TurnInv, Next, NEW d \in Client, cfg.mode = "read",
                      turn[d] > 0, status[d] # "idle", status'[d] = "idle"
               PROVE  \E r \in {s \in Replica : Unread(d, s) # << >>} :
                        /\ Unread(d, r)' = Tail(Unread(d, r))
                        /\ conn'[d][r] # "freed"
                        /\ Cardinality(Votes(Collected(d, r, Head(Unread(d, r))),
                                             leading[d])) >= Quorum
                        /\ Collected(d, r, Head(Unread(d, r)))[Owner].turn = turn[d]
    OBVIOUS
  <2>1. TypeOK /\ InStep(d) /\ Known(d) /\ ThreadsInStep
    BY TurnParts
  <2>2. Going(d)
    BY <2>1 DEF InStep, SettingUp
  <2>3. ASSUME NEW c \in Client, NEW r \in Replica, Handle(c, r)
        PROVE  \E x \in {s \in Replica : Unread(d, s) # << >>} :
                 /\ Unread(d, x)' = Tail(Unread(d, x))
                 /\ conn'[d][x] # "freed"
                 /\ Cardinality(Votes(Collected(d, x, Head(Unread(d, x))),
                                      leading[d])) >= Quorum
                 /\ Collected(d, x, Head(Unread(d, x)))[Owner].turn = turn[d]
    <3>1. PICK m, s, coll :
            Taken(c, r, m) /\ Becomes(c, s, coll) /\ Effect(c, r, m, s, coll)
      BY <2>1, <2>3, HandleEffect
    <3>2. c = d /\ s = "idle"
      BY <2>1, <3>1 DEF Becomes, TypeOK
    <3>3. /\ Unread(d, r) # << >> /\ m = Head(Unread(d, r))
          /\ Unread(d, r)' = Tail(Unread(d, r)) /\ conn' = conn /\ m \in Message
      BY <3>1, <3>2 DEF Taken
    <3>4. conn'[d][r] # "freed"
      BY <2>1, <3>3 DEF Known
    <3>5. status[d] # "writing" /\ cfg.mode # "ur"
      BY <2>2 DEF Going
    <3>6. /\ GuidanceQuorum(Collected(d, r, m), leading[d])
          /\ \/ m.type = "guidance" /\ status[d] = "waiting_guidance"
             \/ m.type # "guidance" /\ status[d] = "reading"
      BY <3>1, <3>2, <3>5 DEF Effect
    <3>7. Cardinality(Votes(Collected(d, r, m), leading[d])) >= Quorum
      BY <3>6 DEF GuidanceQuorum
    <3>8. /\ collection[d] \in [Replica -> [epoch: 0..Epoch, turn: 0..cfg.nums]]
          /\ Owner \in Replica
      BY <2>1, Numbers DEF TypeOK
    <3>9. Collected(d, r, m)[Owner].turn = turn[d]
      <4>1. CASE r = Owner
        <5>1. m = Operation(turn[d])
          BY <4>1, <3>3, <2>2 DEF Going
        <5> QED BY <5>1, <4>1, <3>8 DEF Operation, Collected
      <4>2. CASE r # Owner
        <5>1. m.type = "guidance"
          <6>1. \A i \in DOMAIN Unread(d, r) : Unread(d, r)[i].type = "guidance"
            BY <4>2, <2>2 DEF Going
          <6>2. Unread(d, r) \in Seq(Message)
            BY <2>1, UnreadTypes
          <6> QED BY <6>1, <6>2, <3>3
        <5>2. collection[d][Owner].turn = turn[d]
          BY <5>1, <3>6, <2>2 DEF Going
        <5> QED BY <5>2, <4>2, <3>8 DEF Collected
      <4> QED BY <4>1, <4>2
    <3> QED BY <3>3, <3>4, <3>7, <3>9
  <2>4. ASSUME NEW t \in Thread, CheckSetup(t)
        PROVE  FALSE
    <3>1. ThreadOf(d) \in setup /\ t \notin setup
      BY <2>1, <2>4 DEF InStep, SettingUp, CheckSetup
    <3>2. d \in ReadyForSetup(t)
      BY <2>4 DEF CheckSetup
    <3>3. d \in ClientsOf(t)
      BY <3>2 DEF ReadyForSetup, ClientsOf, ToSet
    <3> QED BY <3>1, <3>3, <2>1, ThreadOfClient
  <2>5. ASSUME NEW t \in Thread, Send(t)
        PROVE  FALSE
    <3>1. PICK c \in ClientsOf(t) :
            status' = [status EXCEPT ![c] =
                         IF cfg.mode = "write" THEN "writing" ELSE "reading"]
      BY <2>5 DEF Send
    <3> QED BY <3>1, <2>1 DEF TypeOK
  <2>6. ASSUME NEW t \in Thread, LoopOnce(t) \/ NobodyReady(t) \/ NothingToSend(t)
        PROVE  FALSE
    BY <2>6 DEF LoopOnce, NobodyReady, NothingToSend, clientVars
  <2>7. ASSUME NEW c \in Client, NEW r \in Replica,
               Connect(c, r) \/ ConnectionFails(c, r)
        PROVE  FALSE
    BY <2>7 DEF Connect, ConnectionFails, clientVars
  <2>8. \A t \in Thread : ClientsOf(t) \subseteq Client
    BY <2>1, ClientsOfThread
  <2>9. CASE \E t \in Thread : ThreadStep(t)
    <3>1. PICK t \in Thread : ThreadStep(t)
      BY <2>9
    <3>2. PICK c \in ClientsOf(t), r \in Replica : Handle(c, r)
      BY <3>1, <2>4, <2>5, <2>6, <2>7, <2>8 DEF ThreadStep
    <3> QED BY <3>2, <2>3, <2>8
  <2> QED BY <2>7, <2>9 DEF Next
<1> QED BY <1>1, ClientsStayInStep, PTL DEF Spec, ReadsAreConfirmed

-----------------------------------------------------------------------------
(* The shared counter *)

\* g_sent_nums counts the operations sent, until it is beyond the last one; a
\* thread that is done found it there.
SentIsCounted ==
  /\ IsFiniteSet(OperationsSent)
  /\ sent <= cfg.nums => Cardinality(OperationsSent) = sent
  /\ sent = cfg.nums + 1 => Cardinality(OperationsSent) = cfg.nums
  /\ \A t \in Thread : pc[t] = "done" => sent = cfg.nums + 1

\* Steps that send nothing, and leave the counter alone
LEMMA CountKept ==
  ASSUME SentIsCounted, cfg' = cfg, turn' = turn, sent' = sent,
         \A t \in Thread : pc'[t] = "done" => pc[t] = "done"
  PROVE  SentIsCounted'
<1>1. OperationsSent' = OperationsSent
  BY DEF OperationsSent
<1> QED BY <1>1 DEF SentIsCounted

\* One more is sent: the turn after the client's last one.
LEMMA SendCounts ==
  ASSUME TurnInv, SentIsCounted, NEW t \in Thread, Send(t)
  PROVE  SentIsCounted'
<1>1. TypeOK /\ TurnsCounted
  BY TurnParts
<1>2. PICK c \in ClientsOf(t) :
        /\ turn' = [turn EXCEPT ![c] = @ + 1]
        /\ \/ pc' = [pc EXCEPT ![t] = "blocked"]
           \/ pc' = [s \in Thread |-> "crashed"]
  BY DEF Send
<1>3. sent < cfg.nums /\ sent' = sent + 1 /\ cfg' = cfg
  BY DEF Send, CanSend
<1>4. PICK k : k = cfg.nums
  OBVIOUS
<1>5. PICK n : n = turn[c] + 1
  OBVIOUS
<1>6. /\ c \in Client /\ k \in Nat /\ sent \in Nat /\ sent < k
      /\ n \in 1..k /\ turn[c] = n - 1
      /\ \A d \in Client : turn[d] \in Nat
  <2>1. c \in Client
    BY <1>1, <1>2, ClientsOfThread
  <2>2. /\ k \in Nat /\ \A d \in Client : turn[d] \in 0..k
        /\ sent \in 0..k + 1
    BY <1>1, <1>4, Numbers DEF TypeOK
  <2>3. turn[c] <= sent
    BY <1>1, <2>1 DEF TurnsCounted
  <2> QED BY <2>1, <2>2, <2>3, <1>3, <1>4, <1>5
<1>7. /\ turn'[c] = n
      /\ \A d \in Client \ {c} : turn'[d] = turn[d]
  BY <1>1, <1>2, <1>5, <1>6 DEF TypeOK
<1>8. PICK S : S = OperationsSent
  OBVIOUS
<1>9. S = {p \in Client \X (1..k) : p[2] <= turn[p[1]]}
  BY <1>4, <1>8 DEF OperationsSent
<1>10. OperationsSent' = S \cup {<<c, n>>}
  <2>1. OperationsSent' = {p \in Client \X (1..k) : p[2] <= turn'[p[1]]}
    BY <1>3, <1>4 DEF OperationsSent
  <2>2. ASSUME NEW p \in Client \X (1..k)
        PROVE  p[2] <= turn'[p[1]] <=> p \in S \/ p = <<c, n>>
    <3>1. PICK d \in Client, i \in 1..k : p = <<d, i>>
      BY <2>2
    <3>2. p \in S <=> i <= turn[d]
      BY <3>1, <1>9
    <3>3. CASE d = c
      <4>1. turn'[d] = n /\ turn[d] = n - 1 /\ (p = <<c, n>> <=> i = n)
        BY <3>1, <3>3, <1>6, <1>7
      <4>2. i <= n <=> i <= n - 1 \/ i = n
        BY <1>6
      <4> QED BY <4>1, <4>2, <3>1, <3>2
    <3>4. CASE d # c
      <4>1. turn'[d] = turn[d] /\ p # <<c, n>>
        BY <3>1, <3>4, <1>7
      <4> QED BY <4>1, <3>1, <3>2
    <3> QED BY <3>3, <3>4
  <2>3. S \subseteq Client \X (1..k) /\ <<c, n>> \in Client \X (1..k)
    BY <1>6, <1>9
  <2> QED BY <2>1, <2>2, <2>3
<1>11. <<c, n>> \notin S
  BY <1>6, <1>9
<1>12. IsFiniteSet(S) /\ Cardinality(S) = sent
  BY <1>3, <1>4, <1>6, <1>8 DEF SentIsCounted
<1>13. PICK T : T = S \cup {<<c, n>>}
  OBVIOUS
<1>14. IsFiniteSet(T) /\ Cardinality(T) = sent + 1
  BY <1>11, <1>12, <1>13, FS_AddElement
<1>15. \A u \in Thread : pc[u] # "done" /\ pc'[u] # "done"
  <2>1. \A u \in Thread : pc[u] # "done"
    BY <1>3, <1>4, <1>6 DEF SentIsCounted
  <2> QED BY <2>1, <1>1, <1>2 DEF TypeOK
<1>16. OperationsSent' = T /\ sent' <= k /\ sent' # k + 1
  BY <1>3, <1>6, <1>10, <1>13
<1>17. cfg.nums' = k
  BY <1>3, <1>4
<1> QED BY <1>3, <1>14, <1>15, <1>16, <1>17 DEF SentIsCounted

\* A thread that finds all sent moves the counter beyond the last one.
LEMMA NothingSentCounts ==
  ASSUME TurnInv, SentIsCounted, NEW t \in Thread, NothingToSend(t)
  PROVE  SentIsCounted'
<1>1. TypeOK
  BY TurnParts
<1>2. /\ ~(sent < cfg.nums) /\ sent' = cfg.nums + 1 /\ cfg' = cfg /\ turn' = turn
  BY DEF NothingToSend, CanSend, clientVars
<1>3. PICK k : k = cfg.nums
  OBVIOUS
<1>4. k \in Nat /\ sent \in 0..k + 1
  BY <1>1, <1>3, Numbers DEF TypeOK
<1>5. sent = k \/ sent = k + 1
  BY <1>2, <1>3, <1>4
<1>6. IsFiniteSet(OperationsSent) /\ Cardinality(OperationsSent) = k
  BY <1>3, <1>4, <1>5 DEF SentIsCounted
<1>7. OperationsSent' = OperationsSent /\ cfg.nums' = k
  BY <1>2, <1>3 DEF OperationsSent
<1>8. sent' = k + 1 /\ ~(sent' <= k)
  BY <1>2, <1>3, <1>4
<1> QED BY <1>6, <1>7, <1>8 DEF SentIsCounted

\* Every step keeps the count.
LEMMA SentIsCountedStep == TurnInv /\ SentIsCounted /\ [Next]_vars => SentIsCounted'
<1> SUFFICES ASSUME TurnInv, SentIsCounted, [Next]_vars
             PROVE  SentIsCounted'
  OBVIOUS
<1>1. pc \in [Thread -> {"blocked", "handling", "top", "done", "crashed"}]
  BY TurnParts DEF TypeOK
<1>2. ASSUME NEW c, NEW r, Connect(c, r) \/ Handle(c, r) \/ ConnectionFails(c, r)
      PROVE  SentIsCounted'
  <2>1. /\ cfg' = cfg /\ turn' = turn /\ sent' = sent
        /\ pc' = [pc EXCEPT ![ThreadOf(c)] = "handling"]
    BY <1>2 DEF Connect, Handle, ConnectionFails, clientVars, threadVars
  <2>2. \A t \in Thread : pc'[t] = "done" => pc[t] = "done"
    BY <2>1, <1>1
  <2> QED BY <2>1, <2>2, CountKept
<1>3. ASSUME NEW t \in Thread, CheckSetup(t) \/ LoopOnce(t) \/ NobodyReady(t)
      PROVE  SentIsCounted'
  <2>1. /\ cfg' = cfg /\ turn' = turn /\ sent' = sent
        /\ \/ pc' = [pc EXCEPT ![t] = "top"]
           \/ pc' = [pc EXCEPT ![t] = "blocked"]
    BY <1>3 DEF CheckSetup, LoopOnce, NobodyReady, clientVars, threadVars
  <2>2. \A u \in Thread : pc'[u] = "done" => pc[u] = "done"
    BY <2>1, <1>1
  <2> QED BY <2>1, <2>2, CountKept
<1>4. CASE UNCHANGED vars
  <2>1. cfg' = cfg /\ turn' = turn /\ sent' = sent /\ pc' = pc
    BY <1>4 DEF vars, clientVars, threadVars
  <2> QED BY <2>1, CountKept
<1> QED BY <1>2, <1>3, <1>4, SendCounts, NothingSentCounts DEF Next, ThreadStep

\* Although the threads share the counter and it counts on, the process sends
\* what it was to send and no more, and all of it before its threads are done.
THEOREM AllIsSent == Spec => []SendsAsAsked
<1>1. Init => SentIsCounted
  <2> SUFFICES ASSUME Init PROVE SentIsCounted
    OBVIOUS
  <2>1. TypeOK
    BY TurnInvInit, TurnParts
  <2>2. /\ sent = 0 /\ turn = [c \in Client |-> 0]
        /\ pc = [t \in Thread |-> "blocked"]
    BY DEF Init
  <2>3. PICK k : k = cfg.nums
    OBVIOUS
  <2>4. k \in Nat
    BY <2>1, <2>3, Numbers
  <2>5. OperationsSent = {}
    BY <2>2, <2>3, <2>4 DEF OperationsSent
  <2>6. IsFiniteSet(OperationsSent) /\ Cardinality(OperationsSent) = 0
    BY <2>5, FS_EmptySet
  <2> QED BY <2>2, <2>3, <2>4, <2>6 DEF SentIsCounted
<1>2. TurnInv /\ SentIsCounted => SendsAsAsked
  <2> SUFFICES ASSUME TurnInv, SentIsCounted
               PROVE  SendsAsAsked
    OBVIOUS
  <2>1. PICK k : k = cfg.nums
    OBVIOUS
  <2>2. k \in Nat /\ sent \in 0..k + 1
    BY <2>1, TurnParts, Numbers DEF TypeOK
  <2>3. sent <= k \/ sent = k + 1
    BY <2>2
  <2>4. IsFiniteSet(OperationsSent) /\ Cardinality(OperationsSent) <= k
    <3>1. PICK m : m = Cardinality(OperationsSent)
      OBVIOUS
    <3> QED BY <2>1, <2>2, <2>3, <3>1 DEF SentIsCounted
  <2>5. ASSUME NEW t \in Running, pc[t] = "done"
        PROVE  Cardinality(OperationsSent) = k
    BY <2>1, <2>5 DEF SentIsCounted, Running
  <2> QED BY <2>1, <2>4, <2>5 DEF SendsAsAsked
<1> QED BY <1>1, <1>2, SentIsCountedStep, ClientsStayInStep, PTL DEF Spec

=============================================================================
