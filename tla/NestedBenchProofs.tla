------------------------- MODULE NestedBenchProofs -------------------------
(***************************************************************************)
(* Proofs about NestedBench, for any number of peers, threads, connections *)
(* and requests, and however often datagrams are dropped or server 0 is    *)
(* restarted.  The one request of a connection is in one place: in server  *)
(* 0's buffer, among its numbers, or in the answer.  What a peer answers   *)
(* was asked: in this life of server 0 under a number it has given out, or *)
(* by a question that a peer had still to read when server 0 came back.    *)
(***************************************************************************)
EXTENDS NestedBench, SequenceTheorems, FiniteSetTheorems, TLAPS

Nowhere(c) == Requests(c) = {} /\ Numbers(c) = {} /\ answers[c] = << >>

\* The one request of a busy connection has one place, or was dropped.
Place(c) ==
  \/ Nowhere(c)
  \/ /\ status[c] = 1
     /\ \/ /\ \E i : Requests(c) = {i}
           /\ Numbers(c) = {} /\ answers[c] = << >>
        \/ /\ \E n : Numbers(c) = {n}
           /\ Requests(c) = {} /\ answers[c] = << >>
        \/ /\ \E n : answers[c] = <<n>>
           /\ Requests(c) = {} /\ Numbers(c) = {}
Places == \A c \in Conn : Place(c)

\* A question of the present life of server 0 has a number that was given out.
Old(q) == q.era <= era /\ (up = "up" /\ q.era = era => q.data < seq)
QuestionsOld ==
  /\ \A p \in Peers : \A i \in DOMAIN asked[p] : Old(asked[p][i])
  /\ \A q \in seen : Old(q)

\* A question of the present life of server 0, or one it found unread when it
\* came back
Current(q) == q.era = era \/ q \in left

\* Some peer has received the question of every reply.
Seen(m) == m.type = "NestedReply" =>
             \E q \in seen : q.data = m.data /\ q.era = m.era /\ Current(q)
RepliesSeen == \A i \in DOMAIN inbox : Seen(inbox[i])

NumbersKept == finished \subseteq 0..(seq - 1)

Matched ==
  TypeOK /\ Places /\ QuestionsOld /\ RepliesSeen /\ NumbersKept /\ CrashNeedsCause

\* A server that is gone has no socket; what its peers have still to read is
\* of its present life or was unread at its last start.
SocketOfThisLife ==
  /\ up # "up" => inbox = << >>
  /\ \A p \in Peers : \A i \in DOMAIN asked[p] : Current(asked[p][i])

BenchInv == Matched /\ SocketOfThisLife

-----------------------------------------------------------------------------
(* The buffer of server 0 *)

\* The requests of connection c in a buffer q
RequestsIn(q, c) == {i \in DOMAIN q : q[i] = ClientMessage(c)}

\* Requests of different connections differ.
LEMMA MessagesDiffer ==
  ASSUME NEW c, NEW d, ClientMessage(c) = ClientMessage(d)
  PROVE  c = d
<1>1. ClientMessage(c).conn = c /\ ClientMessage(d).conn = d
  BY DEF ClientMessage
<1> QED BY <1>1

\* What is left when the first datagram is read
LEMMA TailOf ==
  ASSUME NEW S, NEW q \in Seq(S), q # << >>
  PROVE  /\ Head(q) \in S /\ Tail(q) \in Seq(S)
         /\ 1 \in DOMAIN q /\ q[1] = Head(q)
         /\ \A i \in DOMAIN Tail(q) : i + 1 \in DOMAIN q /\ Tail(q)[i] = q[i + 1]
         /\ \A i \in DOMAIN q : i # 1 =>
              i - 1 \in DOMAIN Tail(q) /\ Tail(q)[i - 1] = q[i]
OBVIOUS

\* Nothing is behind a single answer.
LEMMA TailOfOne ==
  ASSUME NEW n, <<n>> \in Seq(Nat)
  PROVE  Tail(<<n>>) = << >>
<1>1. <<n>> # << >> /\ Len(<<n>>) = 1
  OBVIOUS
<1>2. Tail(<<n>>) \in Seq(Nat) /\ Len(Tail(<<n>>)) = 0
  BY <1>1, HeadTailProperties
<1> QED BY <1>2, EmptySeq

\* Reading a datagram moves the requests in the buffer up, or takes one.
LEMMA TailRequests ==
  ASSUME NEW S, NEW q \in Seq(S), q # << >>, NEW c
  PROVE  /\ RequestsIn(q, c) = {} => RequestsIn(Tail(q), c) = {}
         /\ \A i : RequestsIn(q, c) = {i} =>
              RequestsIn(Tail(q), c) =
                IF Head(q) = ClientMessage(c) THEN {} ELSE {i - 1}
         /\ Head(q) = ClientMessage(c) => 1 \in RequestsIn(q, c)
<1>1. /\ 1 \in DOMAIN q /\ q[1] = Head(q)
      /\ \A i \in DOMAIN Tail(q) : i + 1 \in DOMAIN q /\ Tail(q)[i] = q[i + 1]
      /\ \A i \in DOMAIN q : i # 1 =>
           i - 1 \in DOMAIN Tail(q) /\ Tail(q)[i - 1] = q[i]
  BY TailOf
<1>2. \A i \in RequestsIn(Tail(q), c) : i + 1 \in RequestsIn(q, c) /\ i \in Nat \ {0}
  <2>1. DOMAIN Tail(q) \subseteq Nat \ {0}
    BY TailOf
  <2> QED BY <2>1, <1>1 DEF RequestsIn
<1>3. \A i \in RequestsIn(q, c) :
        /\ i \in Nat
        /\ i # 1 => i - 1 \in RequestsIn(Tail(q), c)
        /\ i = 1 => Head(q) = ClientMessage(c)
  <2>1. DOMAIN q \subseteq Nat
    OBVIOUS
  <2> QED BY <2>1, <1>1 DEF RequestsIn
<1>4. Head(q) = ClientMessage(c) => 1 \in RequestsIn(q, c)
  BY <1>1 DEF RequestsIn
<1>5. ASSUME NEW i, RequestsIn(q, c) = {i}
      PROVE  RequestsIn(Tail(q), c) =
               IF Head(q) = ClientMessage(c) THEN {} ELSE {i - 1}
  <2>1. i \in Nat /\ \A j \in RequestsIn(Tail(q), c) : j = i - 1 /\ j \in Nat \ {0}
    BY <1>2, <1>3, <1>5
  <2>2. CASE Head(q) = ClientMessage(c)
    BY <2>1, <2>2, <1>4, <1>5
  <2>3. CASE Head(q) # ClientMessage(c)
    BY <2>1, <2>3, <1>3, <1>5
  <2> QED BY <2>2, <2>3
<1> QED BY <1>2, <1>4, <1>5

\* A buffer with the datagram that arrives behind it
LEMMA AppendedFacts ==
  ASSUME NEW S, NEW q \in Seq(S), NEW m \in S, NEW u, u = Append(q, m)
  PROVE  /\ u \in Seq(S) /\ Len(q) \in Nat /\ Len(q) + 1 \notin DOMAIN q
         /\ \A i \in DOMAIN u : \/ i \in DOMAIN q /\ u[i] = q[i]
                                \/ i = Len(q) + 1 /\ u[i] = m
         /\ \A i \in DOMAIN q : i \in DOMAIN u /\ u[i] = q[i]
         /\ Len(q) + 1 \in DOMAIN u /\ u[Len(q) + 1] = m
OBVIOUS

\* The datagram that arrives is no request of c.
LEMMA NoneArrives ==
  ASSUME NEW S, NEW q \in Seq(S), NEW m \in S, NEW c, m # ClientMessage(c)
  PROVE  RequestsIn(Append(q, m), c) = RequestsIn(q, c)
<1>1. PICK u : u = Append(q, m)
  OBVIOUS
<1>2. /\ \A i \in DOMAIN u : \/ i \in DOMAIN q /\ u[i] = q[i]
                             \/ u[i] = m
      /\ \A i \in DOMAIN q : i \in DOMAIN u /\ u[i] = q[i]
  BY <1>1, AppendedFacts
<1> QED BY <1>1, <1>2 DEF RequestsIn

Single(S) == \E i : S = {i}

\* The datagram that arrives is the request of c.
LEMMA OneArrives ==
  ASSUME NEW S, NEW q \in Seq(S), NEW m \in S, NEW c,
         RequestsIn(q, c) = {}, m = ClientMessage(c)
  PROVE  Single(RequestsIn(Append(q, m), c))
<1>1. PICK u : u = Append(q, m)
  OBVIOUS
<1>2. PICK n : n = Len(q) + 1
  OBVIOUS
<1>3. /\ \A i \in DOMAIN u : (i \in DOMAIN q /\ u[i] = q[i]) \/ i = n
      /\ n \in DOMAIN u /\ u[n] = m
  BY <1>1, <1>2, AppendedFacts
<1>4. \A i \in DOMAIN q : q[i] # ClientMessage(c)
  BY DEF RequestsIn
<1>5. RequestsIn(u, c) = {n}
  BY <1>3, <1>4 DEF RequestsIn
<1> QED BY <1>1, <1>5 DEF Single

-----------------------------------------------------------------------------
(* Types *)

\* The types that hang on the command line stay what they are.
LEMMA SameConns ==
  ASSUME cfg' = cfg
  PROVE  Conn' = Conn /\ Thread' = Thread /\ Datagram' = Datagram
BY DEF Conn, Thread, Datagram

\* A connection is that of a thread.
LEMMA ConnFacts ==
  ASSUME TypeOK
  PROVE  /\ cfg.ct \in Nat /\ cfg.lt \in Nat
         /\ \A t \in Thread, i \in 1..cfg.ct : <<t, i>> \in Conn
         /\ \A c \in Conn : /\ c[1] \in Thread /\ c[2] \in 1..cfg.ct
                            /\ c = <<c[1], c[2]>> /\ ClientMessage(c) \in Datagram
                            /\ ClientMessage(c).type = "Client"
         /\ \A m \in Datagram :
              /\ m.type \in {"Client", "NestedReply"}
              /\ m.type = "Client" => m.conn \in Conn /\ m = ClientMessage(m.conn)
              /\ m.type = "NestedReply" => m.data \in Nat /\ m.era \in 0..MaxRestarts
<1>1. cfg.ct \in Nat /\ cfg.lt \in Nat
  BY BenchAssumption DEF TypeOK, CommandLine
<1>2. \A c \in Conn : /\ c[1] \in Thread /\ c[2] \in 1..cfg.ct
                     /\ c = <<c[1], c[2]>> /\ ClientMessage(c) \in Datagram
                     /\ ClientMessage(c).type = "Client"
  BY DEF Conn, Datagram, ClientMessage
<1>3. ASSUME NEW m \in Datagram
      PROVE  /\ m.type \in {"Client", "NestedReply"}
             /\ m.type = "Client" => m.conn \in Conn /\ m = ClientMessage(m.conn)
             /\ m.type = "NestedReply" => m.data \in Nat /\ m.era \in 0..MaxRestarts
  BY <1>3 DEF Datagram, ClientMessage
<1> QED BY <1>1, <1>2, <1>3 DEF Conn

\* The bound on the datagrams dropped is kept.
LEMMA DropTyped ==
  ASSUME TypeOK, NEW leg \in Leg, NEW n \in Nat, Drop(leg, n)
  PROVE  dropped' \in [Leg -> 0..MaxDropped]
<1>1. /\ dropped \in [Leg -> 0..MaxDropped] /\ MaxDropped \in Nat
      /\ "request" \in Leg /\ "question" \in Leg /\ "reply" \in Leg
  BY BenchAssumption DEF TypeOK, Leg
<1>2. /\ dropped.request \in Nat /\ dropped.question \in Nat /\ dropped.reply \in Nat
      /\ \A l \in Leg : dropped[l] \in Nat
  BY <1>1
<1>3. dropped[leg] + n \in 0..MaxDropped
  BY <1>1, <1>2 DEF Drop, Leg
<1> QED BY <1>1, <1>3 DEF Drop

\* What arrives is added to the buffer, or nothing is.
LEMMA ToServerInbox ==
  ASSUME TypeOK, NEW leg \in Leg, NEW m \in Datagram, ToServer(leg, m)
  PROVE  /\ inbox' \in Seq(Datagram) /\ dropped' \in [Leg -> 0..MaxDropped]
         /\ inbox' = inbox \/ inbox' = Append(inbox, m)
         /\ up # "up" => inbox' = inbox
<1>1. inbox \in Seq(Datagram) /\ dropped \in [Leg -> 0..MaxDropped]
  BY DEF TypeOK
<1>2. Append(inbox, m) \in Seq(Datagram)
  BY <1>1
<1>3. CASE inbox' = (IF up = "up" THEN Append(inbox, m) ELSE inbox) /\ UNCHANGED dropped
  BY <1>1, <1>2, <1>3
<1>4. CASE Drop(leg, 1) /\ UNCHANGED inbox
  <2>1. dropped' \in [Leg -> 0..MaxDropped]
    BY <1>4, DropTyped
  <2> QED BY <1>1, <1>4, <2>1
<1> QED BY <1>3, <1>4 DEF ToServer

\* Replies that arrive were seen if the one that is new was.
LEMMA RepliesArrive ==
  ASSUME TypeOK, RepliesSeen, seen \subseteq seen', UNCHANGED <<era, left>>,
         NEW m \in Datagram, inbox' = inbox \/ inbox' = Append(inbox, m),
         Seen(m)'
  PROVE  RepliesSeen'
<1>1. inbox \in Seq(Datagram)
  BY DEF TypeOK
<1>2. \A i \in DOMAIN inbox' : \/ i \in DOMAIN inbox /\ inbox'[i] = inbox[i]
                               \/ inbox'[i] = m
  <2>1. CASE inbox' = inbox
    BY <2>1
  <2>2. CASE inbox' = Append(inbox, m)
    <3>1. PICK q \in Seq(Datagram) : q = inbox
      BY <1>1
    <3>2. PICK u : u = Append(q, m)
      OBVIOUS
    <3>3. \A i \in DOMAIN u : (i \in DOMAIN q /\ u[i] = q[i]) \/ u[i] = m
      BY <3>2, AppendedFacts
    <3> QED BY <2>2, <3>1, <3>2, <3>3
  <2> QED BY <2>1, <2>2
<1> QED BY <1>2 DEF RepliesSeen, Seen, Current

-----------------------------------------------------------------------------
(* Where the request of a connection is *)

\* A step that leaves the request of c where it is
LEMMA PlaceKept ==
  ASSUME NEW c, Place(c), status'[c] = status[c], answers'[c] = answers[c],
         Numbers(c)' = Numbers(c),
         Requests(c) = {} => Requests(c)' = {},
         \A i : Requests(c) = {i} => \E j : Requests(c)' = {j}
  PROVE  Place(c)'
BY DEF Place, Nowhere

\* A step that takes away what server 0 knows
LEMMA PlaceEmptied ==
  ASSUME NEW c, Place(c), status'[c] = status[c], answers'[c] = answers[c],
         Requests(c)' = {}, Numbers(c)' = {}
  PROVE  Place(c)'
BY DEF Place, Nowhere

\* The numbers of a connection hang on pending alone.
LEMMA SameNumbers ==
  ASSUME NEW c, pending' = pending
  PROVE  Numbers(c)' = Numbers(c)
BY DEF Numbers

\* Nothing of a connection's is touched when a datagram arrives that is not its
\* request.
LEMMA OthersArrive ==
  ASSUME TypeOK, NEW c, Place(c), UNCHANGED pending, NEW m \in Datagram,
         status'[c] = status[c], answers'[c] = answers[c],
         inbox' = inbox \/ inbox' = Append(inbox, m), m # ClientMessage(c)
  PROVE  Place(c)'
<1>1. PICK q \in Seq(Datagram) : q = inbox
  BY DEF TypeOK
<1>2. Requests(c) = RequestsIn(inbox, c) /\ Requests(c)' = RequestsIn(inbox', c)
  BY DEF Requests, RequestsIn
<1>3. Requests(c)' = Requests(c)
  <2>1. RequestsIn(Append(q, m), c) = RequestsIn(q, c)
    BY NoneArrives
  <2> QED BY <1>1, <1>2, <2>1
<1> QED BY <1>3, PlaceKept, SameNumbers

\* A connection whose request is not the datagram read
LEMMA OthersRead ==
  ASSUME TypeOK, NEW c, Place(c), Numbers(c)' = Numbers(c),
         status'[c] = status[c], answers'[c] = answers[c],
         inbox # << >>, inbox' = Tail(inbox), Head(inbox) # ClientMessage(c)
  PROVE  Place(c)'
<1>1. PICK q \in Seq(Datagram) : q = inbox
  BY DEF TypeOK
<1>2. Requests(c) = RequestsIn(q, c) /\ Requests(c)' = RequestsIn(Tail(q), c)
  BY <1>1 DEF Requests, RequestsIn
<1>3. /\ RequestsIn(q, c) = {} => RequestsIn(Tail(q), c) = {}
      /\ \A i : RequestsIn(q, c) = {i} =>
              RequestsIn(Tail(q), c) =
                IF Head(q) = ClientMessage(c) THEN {} ELSE {i - 1}
  BY <1>1, TailRequests
<1>4. \A i : Requests(c) = {i} => \E j : Requests(c)' = {j}
  BY <1>1, <1>2, <1>3
<1>5. Requests(c) = {} => Requests(c)' = {}
  BY <1>2, <1>3
<1> QED BY <1>4, <1>5, PlaceKept

-----------------------------------------------------------------------------
(* The client *)

LEMMA SendKeeps ==
  ASSUME Matched, NEW t \in Thread, Send(t)
  PROVE  Matched'
<1>1. TypeOK /\ Places /\ QuestionsOld /\ RepliesSeen /\ NumbersKept /\ CrashNeedsCause
  BY DEF Matched
<1>2. PICK k \in Idle(t) :
        /\ status' = [status EXCEPT ![<<t, k>>] = 1]
        /\ ToServer("request", ClientMessage(<<t, k>>))
  BY DEF Send
<1>3. PICK d : d = <<t, k>>
  OBVIOUS
<1>4. d \in Conn /\ status[d] = 0
  BY <1>1, <1>3, ConnFacts DEF Idle
<1>5. /\ count[t] < cfg.lt
      /\ count' = [count EXCEPT ![t] = @ + 1]
      /\ UNCHANGED <<cfg, serverVars, pc, asked, answers, seen, left>>
  BY DEF Send, Sends
<1>6. PICK m : m = ClientMessage(d)
  OBVIOUS
<1>7. m \in Datagram /\ m.type = "Client"
  BY <1>1, <1>4, <1>6, ConnFacts
<1>8. /\ inbox' \in Seq(Datagram) /\ dropped' \in [Leg -> 0..MaxDropped]
      /\ inbox' = inbox \/ inbox' = Append(inbox, m)
  <2>1. ToServer("request", m) /\ "request" \in Leg
    BY <1>2, <1>3, <1>6 DEF Leg
  <2> QED BY <1>1, <1>7, <2>1, ToServerInbox
<1>9. Conn' = Conn /\ Thread' = Thread /\ Datagram' = Datagram
  BY <1>5, SameConns
<1>10. status' \in [Conn -> {0, 1}] /\ status'[d] = 1
       /\ \A c \in Conn : c # d => status'[c] = status[c]
  BY <1>1, <1>2, <1>3, <1>4 DEF TypeOK
<1>11. TypeOK'
  <2>1. count' \in [Thread -> 0..cfg.lt]
    <3>1. count \in [Thread -> 0..cfg.lt] /\ cfg.lt \in Nat
      BY <1>1, ConnFacts DEF TypeOK
    <3>2. count[t] + 1 \in 0..cfg.lt
      BY <1>5, <3>1
    <3> QED BY <1>5, <3>1, <3>2
  <2> QED BY <1>1, <1>5, <1>8, <1>9, <1>10, <2>1 DEF TypeOK, serverVars
<1>12. Places'
  <2> SUFFICES ASSUME NEW c \in Conn PROVE Place(c)'
    BY <1>9 DEF Places
  <2>1. Place(c) /\ answers' = answers /\ pending' = pending
    BY <1>1, <1>5 DEF Places, serverVars
  <2>2. CASE c = d
    <3>1. Nowhere(c)
      BY <1>4, <2>1, <2>2 DEF Place
    <3>2. PICK q \in Seq(Datagram) : q = inbox
      BY <1>1 DEF TypeOK
    <3>3. RequestsIn(q, c) = {}
      BY <3>1, <3>2 DEF Nowhere, Requests, RequestsIn
    <3>4. Single(RequestsIn(Append(q, m), c))
      BY <1>6, <1>7, <2>2, <3>3, OneArrives
    <3>5. Requests(c)' = {} \/ \E i : Requests(c)' = {i}
      BY <1>8, <3>2, <3>3, <3>4 DEF Requests, RequestsIn, Single
    <3>6. Numbers(c)' = {} /\ answers'[c] = << >>
      BY <2>1, <3>1 DEF Nowhere, Numbers
    <3>7. status'[c] = 1
      BY <1>10, <2>2
    <3> QED BY <3>5, <3>6, <3>7 DEF Place, Nowhere
  <2>3. CASE c # d
    <3>1. status'[c] = status[c] /\ answers'[c] = answers[c]
      BY <1>10, <2>1, <2>3
    <3>2. m # ClientMessage(c)
      BY <1>6, <2>3, MessagesDiffer
    <3> QED BY <1>1, <1>7, <1>8, <2>1, <3>1, <3>2, OthersArrive
  <2> QED BY <2>2, <2>3
<1>13. RepliesSeen'
  <2>1. Seen(m)'
    BY <1>7 DEF Seen
  <2>2. seen \subseteq seen' /\ UNCHANGED <<era, left>>
    BY <1>5 DEF serverVars
  <2> QED BY <1>1, <1>7, <1>8, <2>1, <2>2, RepliesArrive
<1>14. QuestionsOld' /\ NumbersKept' /\ CrashNeedsCause'
  BY <1>1, <1>5 DEF QuestionsOld, Old, NumbersKept, CrashNeedsCause, serverVars
<1> QED BY <1>11, <1>12, <1>13, <1>14 DEF Matched

LEMMA WakeKeeps ==
  ASSUME Matched, NEW t \in Thread, Wake(t)
  PROVE  Matched'
<1>1. TypeOK /\ Places /\ QuestionsOld /\ RepliesSeen /\ NumbersKept /\ CrashNeedsCause
  BY DEF Matched
<1>2. PICK ready : ready = {c \in Conns(t) : answers[c] # << >>}
  OBVIOUS
<1>3. /\ answers' = [c \in Conn |-> IF c \in ready THEN Tail(answers[c])
                                                   ELSE answers[c]]
      /\ status' = [c \in Conn |-> IF c \in ready THEN 0 ELSE status[c]]
      /\ UNCHANGED <<cfg, serverVars, count, inbox, asked, seen, left, dropped>>
  BY <1>2 DEF Wake
<1>4. pc' \in [Thread -> {"loop", "done"}]
  <2>1. pc' = [pc EXCEPT ![t] = "done"] \/ pc' = [pc EXCEPT ![t] = @]
    BY DEF Wake
  <2> QED BY <1>1, <2>1 DEF TypeOK
<1>5. Conn' = Conn /\ Thread' = Thread /\ Datagram' = Datagram
  BY <1>3, SameConns
<1>6. \A c \in ready : answers[c] # << >>
  BY <1>2
<1>7. TypeOK'
  <2>1. answers' \in [Conn -> Seq(Nat)]
    <3>1. \A c \in Conn : answers[c] \in Seq(Nat)
      BY <1>1 DEF TypeOK
    <3>2. \A c \in ready : c \in Conn => Tail(answers[c]) \in Seq(Nat)
      BY <1>6, <3>1
    <3> QED BY <1>3, <3>1, <3>2
  <2>2. status' \in [Conn -> {0, 1}]
    BY <1>1, <1>3 DEF TypeOK
  <2> QED BY <1>1, <1>3, <1>4, <1>5, <2>1, <2>2 DEF TypeOK, serverVars
<1>8. Places'
  <2> SUFFICES ASSUME NEW c \in Conn PROVE Place(c)'
    BY <1>5 DEF Places
  <2>1. Place(c) /\ Requests(c)' = Requests(c) /\ Numbers(c)' = Numbers(c)
    BY <1>1, <1>3 DEF Places, Requests, Numbers, serverVars
  <2>2. CASE c \in ready
    <3>1. PICK n : answers[c] = <<n>>
      BY <1>6, <2>1, <2>2 DEF Place, Nowhere
    <3>2. answers'[c] = << >>
      <4>1. answers[c] \in Seq(Nat) /\ answers'[c] = Tail(answers[c])
        BY <1>1, <1>3, <2>2 DEF TypeOK
      <4> QED BY <3>1, <4>1, TailOfOne
    <3>3. Requests(c) = {} /\ Numbers(c) = {}
      BY <1>6, <2>1, <2>2 DEF Place, Nowhere
    <3> QED BY <2>1, <3>2, <3>3 DEF Place, Nowhere
  <2>3. CASE c \notin ready
    <3>1. status'[c] = status[c] /\ answers'[c] = answers[c]
      BY <1>3, <2>3
    <3> QED BY <2>1, <3>1, PlaceKept
  <2> QED BY <2>2, <2>3
<1>9. QuestionsOld' /\ RepliesSeen' /\ NumbersKept' /\ CrashNeedsCause'
  BY <1>1, <1>3
  DEF QuestionsOld, Old, RepliesSeen, Seen, Current, NumbersKept, CrashNeedsCause,
      serverVars
<1> QED BY <1>7, <1>8, <1>9 DEF Matched

-----------------------------------------------------------------------------
(* Server 0 and its peers *)

\* What a step does to the questions in the buffer of peer p
MovedOn(p, m) ==
  \/ asked'[p] = asked[p]
  \/ asked'[p] = Append(asked[p], m)
  \/ asked[p] # << >> /\ asked'[p] = Tail(asked[p])

\* Questions stay old when those that are stay so and m is.
LEMMA OldKept ==
  ASSUME TypeOK, QuestionsOld, NEW m \in Question, Old(m)',
         \A x \in Question : Old(x) => Old(x)',
         \A p \in Peers : MovedOn(p, m),
         \A x \in seen' : x \in seen \/ \E p \in Peers : asked[p] # << >> /\ x = Head(asked[p])
  PROVE  QuestionsOld'
<1>1. \A p \in Peers : asked[p] \in Seq(Question)
  BY DEF TypeOK
<1>2. ASSUME NEW p \in Peers, NEW i \in DOMAIN asked[p]
      PROVE  \E x \in Question : x = asked[p][i] /\ Old(x)'
  <2>1. PICK x \in Question : x = asked[p][i]
    BY <1>1
  <2> QED BY <2>1 DEF QuestionsOld
<1>3. ASSUME NEW p \in Peers, NEW i \in DOMAIN asked'[p]
      PROVE  \E x \in Question : x = asked'[p][i] /\ Old(x)'
  <2>1. PICK q \in Seq(Question) : q = asked[p]
    BY <1>1
  <2>2. asked'[p][i] = m \/ \E j \in DOMAIN q : asked'[p][i] = q[j]
    <3>1. CASE asked'[p] = q
      BY <1>3, <3>1
    <3>2. CASE asked'[p] = Append(q, m)
      <4>1. \A k \in DOMAIN Append(q, m) : Append(q, m)[k] = m
              \/ (k \in DOMAIN q /\ Append(q, m)[k] = q[k])
        BY <2>1
      <4> QED BY <1>3, <3>2, <4>1
    <3>3. CASE q # << >> /\ asked'[p] = Tail(q)
      <4>1. \A k \in DOMAIN Tail(q) : k + 1 \in DOMAIN q /\ Tail(q)[k] = q[k + 1]
        BY <3>3, TailOf
      <4> QED BY <1>3, <3>3, <4>1
    <3> QED BY <2>1, <3>1, <3>2, <3>3 DEF MovedOn
  <2> QED BY <1>2, <2>1, <2>2
<1>4. \A p \in Peers : asked[p] # << >> => 1 \in DOMAIN asked[p] /\ Head(asked[p]) = asked[p][1]
  BY <1>1
<1>5. \A x \in seen' : Old(x)'
  <2>1. seen \subseteq Question /\ \A x \in seen : Old(x)
    BY DEF TypeOK, QuestionsOld
  <2> QED BY <1>2, <1>4, <2>1
<1> QED BY <1>3, <1>5 DEF QuestionsOld, Old

LEMMA OnClientMsgKeeps ==
  ASSUME Matched, OnClientMsg
  PROVE  Matched'
<1>1. TypeOK /\ Places /\ QuestionsOld /\ RepliesSeen /\ NumbersKept /\ CrashNeedsCause
  BY DEF Matched
<1>2. PICK d : d = Head(inbox).conn
  OBVIOUS
<1>3. /\ up = "up" /\ inbox # << >> /\ Head(inbox).type = "Client"
      /\ inbox' = Tail(inbox)
      /\ pending' = [n \in DOMAIN pending \cup {seq} |->
                       IF n = seq THEN d ELSE pending[n]]
      /\ seq' = seq + 1
      /\ UNCHANGED <<cfg, up, era, finished, threadVars, answers, seen, left>>
  BY <1>2 DEF OnClientMsg, Read
<1>4. inbox \in Seq(Datagram) /\ inbox' \in Seq(Datagram) /\ Head(inbox) \in Datagram
  <2>1. PICK q \in Seq(Datagram) : q = inbox
    BY <1>1 DEF TypeOK
  <2> QED BY <1>3, <2>1, TailOf
<1>5. d \in Conn /\ Head(inbox) = ClientMessage(d)
  BY <1>1, <1>2, <1>3, <1>4, ConnFacts
<1>6. Conn' = Conn /\ Thread' = Thread /\ Datagram' = Datagram
  BY <1>3, SameConns
<1>7. seq \in Nat /\ seq \notin DOMAIN pending
  BY <1>1 DEF TypeOK
<1>8. PICK m : m = NestedMessage
  OBVIOUS
<1>9. m \in Question /\ m.data = seq /\ m.era = era
  BY <1>1, <1>8 DEF NestedMessage, Question, TypeOK
<1>10. /\ asked' \in [Peers -> Seq(Question)] /\ dropped' \in [Leg -> 0..MaxDropped]
       /\ \A p \in Peers : asked'[p] = asked[p] \/ asked'[p] = Append(asked[p], m)
  <2>1. \A p \in Peers : asked[p] \in Seq(Question) /\ Append(asked[p], m) \in Seq(Question)
    BY <1>1, <1>9 DEF TypeOK
  <2>2. PICK lost \in SUBSET Peers :
          /\ Drop("question", Cardinality(lost))
          /\ asked' = [p \in Peers |-> IF p \in lost THEN asked[p]
                                       ELSE Append(asked[p], m)]
    BY <1>8 DEF OnClientMsg
  <2>3. dropped' \in [Leg -> 0..MaxDropped]
    <3>1. PICK n \in Nat : n = Cardinality(lost)
      BY BenchAssumption, FS_Subset, FS_CardinalityType
    <3>2. Drop("question", n) /\ "question" \in Leg
      BY <2>2, <3>1 DEF Leg
    <3> QED BY <1>1, <3>2, DropTyped
  <2> QED BY <2>1, <2>2, <2>3
<1>11. TypeOK'
  <2>1. DOMAIN pending' \subseteq 0..(seq' - 1) /\ Range(pending') \subseteq Conn
    <3>1. DOMAIN pending \subseteq 0..(seq - 1) /\ \A n \in DOMAIN pending : pending[n] \in Conn
      BY <1>1 DEF TypeOK, Range
    <3>2. \A n \in DOMAIN pending' : pending'[n] \in Conn
      BY <1>3, <1>5, <3>1
    <3>3. DOMAIN pending' \subseteq 0..(seq' - 1)
      BY <1>3, <1>7, <3>1
    <3> QED BY <3>2, <3>3 DEF Range
  <2>2. seq' \in Nat /\ finished' \subseteq Nat
    BY <1>1, <1>3 DEF TypeOK
  <2> QED BY <1>1, <1>3, <1>4, <1>6, <1>10, <2>1, <2>2 DEF TypeOK, threadVars
<1>12. Places'
  <2> SUFFICES ASSUME NEW c \in Conn PROVE Place(c)'
    BY <1>6 DEF Places
  <2>1. Place(c) /\ status' = status /\ answers' = answers
    BY <1>1, <1>3 DEF Places, threadVars
  <2>2. CASE c = d
    <3>1. PICK q \in Seq(Datagram) : q = inbox
      BY <1>4
    <3>2. 1 \in RequestsIn(q, c)
      BY <1>3, <1>5, <2>2, <3>1, TailRequests
    <3>3. Requests(c) = RequestsIn(q, c) /\ Requests(c)' = RequestsIn(Tail(q), c)
      BY <1>3, <3>1 DEF Requests, RequestsIn
    <3>4. /\ status[c] = 1 /\ Numbers(c) = {} /\ answers[c] = << >>
          /\ \E i : Requests(c) = {i}
      BY <2>1, <3>2, <3>3 DEF Place, Nowhere
    <3>5. Requests(c)' = {}
      <4>1. PICK i : RequestsIn(q, c) = {i}
        BY <3>3, <3>4
      <4>2. Head(q) = ClientMessage(c) /\ q # << >>
        BY <1>3, <1>5, <2>2, <3>1
      <4> QED BY <3>3, <4>1, <4>2, TailRequests
    <3>6. Numbers(c)' = {seq}
      BY <1>3, <1>7, <2>2, <3>4 DEF Numbers
    <3> QED BY <2>1, <3>4, <3>5, <3>6 DEF Place
  <2>3. CASE c # d
    <3>1. Head(inbox) # ClientMessage(c)
      BY <1>5, <2>3, MessagesDiffer
    <3>2. Numbers(c)' = Numbers(c)
      BY <1>3, <1>7, <2>3 DEF Numbers
    <3> QED BY <1>1, <1>3, <2>1, <3>1, <3>2, OthersRead
  <2> QED BY <2>2, <2>3
<1>13. QuestionsOld'
  <2>1. ASSUME NEW x \in Question, Old(x) PROVE Old(x)'
    <3>1. x.data \in Nat
      BY DEF Question
    <3> QED BY <1>3, <1>7, <2>1, <3>1 DEF Old
  <2>2. Old(m)'
    BY <1>1, <1>3, <1>7, <1>9 DEF Old, TypeOK
  <2>3. \A x \in seen' : x \in seen
    BY <1>3
  <2>4. \A p \in Peers : MovedOn(p, m)
    BY <1>10 DEF MovedOn
  <2> QED BY <1>1, <1>9, <2>1, <2>2, <2>3, <2>4, OldKept
<1>14. RepliesSeen'
  <2>1. PICK q \in Seq(Datagram) : q = inbox
    BY <1>4
  <2>2. \A i \in DOMAIN Tail(q) : i + 1 \in DOMAIN q /\ Tail(q)[i] = q[i + 1]
    BY <1>3, <2>1, TailOf
  <2> QED BY <1>1, <1>3, <2>1, <2>2 DEF RepliesSeen, Seen, Current
<1>15. NumbersKept' /\ CrashNeedsCause'
  <2>1. finished' \subseteq 0..(seq' - 1)
    BY <1>1, <1>3, <1>7 DEF NumbersKept
  <2>2. DOMAIN pending' = (0..(seq' - 1)) \ finished'
    BY <1>1, <1>3, <1>7 DEF NumbersKept, CrashNeedsCause
  <2> QED BY <1>3, <2>1, <2>2 DEF NumbersKept, CrashNeedsCause
<1> QED BY <1>11, <1>12, <1>13, <1>14, <1>15 DEF Matched

\* What is left when server 0 ends: its types, and the answers on their way
LEMMA EndKeeps ==
  ASSUME Matched, NEW how \in {"stopped", "crashed"}, End(how),
         UNCHANGED <<cfg, threadVars, asked, answers, seen, left, dropped>>
  PROVE  /\ TypeOK' /\ Places' /\ QuestionsOld' /\ RepliesSeen' /\ NumbersKept'
         /\ DOMAIN pending' = (0..(seq' - 1)) \ finished'
<1>1. TypeOK /\ Places /\ QuestionsOld
  BY DEF Matched
<1>2. /\ up' = how /\ finished' = {} /\ pending' = << >> /\ seq' = 0
      /\ inbox' = << >> /\ era' = era
  BY DEF End
<1>3. DOMAIN pending' = {} /\ DOMAIN inbox' = {}
  BY <1>2
<1>4. Conn' = Conn /\ Thread' = Thread /\ Datagram' = Datagram
  BY SameConns
<1>5. TypeOK'
  <2>1. inbox' \in Seq(Datagram)
    BY <1>2
  <2>2. DOMAIN pending' \subseteq 0..(seq' - 1) /\ Range(pending') \subseteq Conn
    BY <1>3 DEF Range
  <2>3. seq' \in Nat /\ finished' \subseteq Nat
    BY <1>2
  <2> QED BY <1>1, <1>2, <1>4, <2>1, <2>2, <2>3 DEF TypeOK, threadVars
<1>6. Places'
  <2> SUFFICES ASSUME NEW c \in Conn PROVE Place(c)'
    BY <1>4 DEF Places
  <2>1. Requests(c)' = {} /\ Numbers(c)' = {}
    BY <1>3 DEF Requests, Numbers
  <2>2. Place(c) /\ status' = status /\ answers' = answers
    BY <1>1 DEF Places, threadVars
  <2> QED BY <2>1, <2>2, PlaceEmptied
<1>7. QuestionsOld'
  BY <1>1, <1>2 DEF QuestionsOld, Old
<1>8. RepliesSeen' /\ NumbersKept'
  BY <1>2, <1>3 DEF RepliesSeen, NumbersKept
<1>9. DOMAIN pending' = (0..(seq' - 1)) \ finished'
  BY <1>2, <1>3
<1> QED BY <1>5, <1>6, <1>7, <1>8, <1>9

\* A peer has received the question of the reply that is read, and asked in
\* this life of server 0 it has a number that was given out.
LEMMA ReplyRead ==
  ASSUME Matched, Read("NestedReply")
  PROVE  /\ Head(inbox).data \in Nat
         /\ \E q \in seen : /\ q.data = Head(inbox).data
                            /\ q.era \in 0..era /\ Current(q)
                            /\ q.era = era => q.data < seq
<1>1. TypeOK /\ QuestionsOld /\ RepliesSeen
  BY DEF Matched
<1>2. PICK b \in Seq(Datagram) : b = inbox
  BY <1>1 DEF TypeOK
<1>3. /\ up = "up" /\ b # << >> /\ Head(b).type = "NestedReply"
  BY <1>2 DEF Read
<1>4. Head(b) \in Datagram /\ 1 \in DOMAIN b /\ b[1] = Head(b)
  BY <1>3, TailOf
<1>5. Head(b).data \in Nat
  BY <1>1, <1>3, <1>4, ConnFacts
<1>6. PICK q \in seen : q.data = Head(b).data /\ q.era = Head(b).era /\ Current(q)
  BY <1>1, <1>2, <1>3, <1>4 DEF RepliesSeen, Seen
<1>7. /\ q \in Question /\ Old(q)
  BY <1>1 DEF TypeOK, QuestionsOld
<1>8. q.era \in Nat /\ era \in Nat
  BY <1>1, <1>7, BenchAssumption DEF Question, TypeOK
<1>9. q.era \in 0..era /\ (q.era = era => q.data < seq)
  BY <1>3, <1>7, <1>8 DEF Old
<1> QED BY <1>2, <1>5, <1>6, <1>9

\* The first of the three ends of OnNestedReplyMsg: the bit is set.
LEMMA ReplyTooLate ==
  ASSUME Matched, Read("NestedReply"), inbox' = Tail(inbox),
         UNCHANGED <<serverVars, answers>>,
         UNCHANGED <<cfg, threadVars, asked, seen, left, dropped>>
  PROVE  Matched'
<1>1. TypeOK /\ Places /\ QuestionsOld /\ RepliesSeen /\ NumbersKept /\ CrashNeedsCause
  BY DEF Matched
<1>2. inbox # << >> /\ Head(inbox).type = "NestedReply"
  BY DEF Read
<1>3. Conn' = Conn /\ Thread' = Thread /\ Datagram' = Datagram
  BY SameConns
<1>4. PICK q \in Seq(Datagram) : q = inbox
  BY <1>1 DEF TypeOK
<1>5. /\ Tail(q) \in Seq(Datagram)
      /\ \A i \in DOMAIN Tail(q) : i + 1 \in DOMAIN q /\ Tail(q)[i] = q[i + 1]
  BY <1>2, <1>4, TailOf
<1>6. TypeOK'
  BY <1>1, <1>3, <1>4, <1>5 DEF TypeOK, serverVars, threadVars
<1>7. Places'
  <2> SUFFICES ASSUME NEW c \in Conn PROVE Place(c)'
    BY <1>3 DEF Places
  <2>1. Place(c) /\ status' = status /\ answers' = answers /\ pending' = pending
    BY <1>1 DEF Places, threadVars, serverVars
  <2>2. Head(inbox) # ClientMessage(c)
    BY <1>2 DEF ClientMessage
  <2> QED BY <1>1, <1>2, <2>1, <2>2, OthersRead, SameNumbers
<1>8. RepliesSeen'
  BY <1>1, <1>4, <1>5 DEF RepliesSeen, Seen, Current, serverVars
<1>9. QuestionsOld' /\ NumbersKept' /\ CrashNeedsCause'
  BY <1>1 DEF QuestionsOld, Old, NumbersKept, CrashNeedsCause, serverVars
<1> QED BY <1>6, <1>7, <1>8, <1>9 DEF Matched

\* The second: the reply is the first one and answers the client.
LEMMA ReplyInTime ==
  ASSUME Matched, Read("NestedReply"), NEW n \in DOMAIN pending,
         inbox' = Tail(inbox), finished' = finished \cup {n},
         answers' = [answers EXCEPT ![pending[n]] = Append(@, n)],
         pending' = [k \in DOMAIN pending \ {n} |-> pending[k]],
         UNCHANGED <<up, era, seq>>,
         UNCHANGED <<cfg, threadVars, asked, seen, left, dropped>>
  PROVE  Matched'
<1>1. TypeOK /\ Places /\ QuestionsOld /\ RepliesSeen /\ NumbersKept /\ CrashNeedsCause
  BY DEF Matched
<1>2. inbox # << >> /\ Head(inbox).type = "NestedReply"
  BY DEF Read
<1>3. Conn' = Conn /\ Thread' = Thread /\ Datagram' = Datagram
  BY SameConns
<1>4. PICK q \in Seq(Datagram) : q = inbox
  BY <1>1 DEF TypeOK
<1>5. /\ Tail(q) \in Seq(Datagram)
      /\ \A i \in DOMAIN Tail(q) : i + 1 \in DOMAIN q /\ Tail(q)[i] = q[i + 1]
  BY <1>2, <1>4, TailOf
<1>6. PICK d \in Conn : d = pending[n]
  BY <1>1 DEF TypeOK, Range
<1>7. /\ status[d] = 1 /\ Numbers(d) = {n} /\ Requests(d) = {} /\ answers[d] = << >>
  <2>1. Place(d) /\ n \in Numbers(d)
    BY <1>1, <1>6 DEF Places, Numbers
  <2> QED BY <2>1 DEF Place, Nowhere
<1>8. n \in Nat /\ seq \in Nat /\ n \in 0..(seq - 1) /\ n \notin finished
  BY <1>1 DEF TypeOK, CrashNeedsCause
<1>9. /\ answers \in [Conn -> Seq(Nat)] /\ answers'[d] = <<n>>
      /\ answers' \in [Conn -> Seq(Nat)]
      /\ \A c \in Conn : c # d => answers'[c] = answers[c]
  <2>1. answers \in [Conn -> Seq(Nat)]
    BY <1>1 DEF TypeOK
  <2>2. Append(answers[d], n) = <<n>> /\ <<n>> \in Seq(Nat)
    BY <1>7, <1>8
  <2> QED BY <1>6, <2>1, <2>2
<1>10. TypeOK'
  <2>1. DOMAIN pending' \subseteq 0..(seq' - 1) /\ Range(pending') \subseteq Conn
    <3>1. DOMAIN pending \subseteq 0..(seq - 1) /\ \A k \in DOMAIN pending : pending[k] \in Conn
      BY <1>1 DEF TypeOK, Range
    <3> QED BY <3>1 DEF Range
  <2>2. finished' \subseteq Nat /\ inbox' \in Seq(Datagram)
    BY <1>1, <1>4, <1>5, <1>8 DEF TypeOK
  <2> QED BY <1>1, <1>3, <1>9, <2>1, <2>2 DEF TypeOK, threadVars
<1>11. Places'
  <2> SUFFICES ASSUME NEW c \in Conn PROVE Place(c)'
    BY <1>3 DEF Places
  <2>1. Place(c) /\ status' = status
    BY <1>1 DEF Places, threadVars
  <2>2. Head(inbox) # ClientMessage(c)
    BY <1>2 DEF ClientMessage
  <2>3. CASE c = d
    <3>1. Requests(c)' = {}
      <4>1. Requests(c) = RequestsIn(q, c) /\ Requests(c)' = RequestsIn(Tail(q), c)
        BY <1>4 DEF Requests, RequestsIn
      <4> QED BY <1>2, <1>4, <1>7, <2>3, <4>1, TailRequests
    <3>2. Numbers(c)' = {}
      <4>1. \A k \in DOMAIN pending : pending[k] = c => k = n
        BY <1>7, <2>3 DEF Numbers
      <4> QED BY <4>1 DEF Numbers
    <3>3. \E k : answers'[c] = <<k>>
      BY <1>9, <2>3
    <3> QED BY <1>7, <2>1, <2>3, <3>1, <3>2, <3>3 DEF Place
  <2>4. CASE c # d
    <3>1. Numbers(c)' = Numbers(c)
      BY <1>6, <2>4 DEF Numbers
    <3> QED BY <1>1, <1>2, <1>9, <2>1, <2>2, <2>4, <3>1, OthersRead
  <2> QED BY <2>3, <2>4
<1>12. RepliesSeen'
  BY <1>1, <1>4, <1>5 DEF RepliesSeen, Seen, Current, serverVars
<1>13. QuestionsOld'
  BY <1>1 DEF QuestionsOld, Old
<1>14. NumbersKept'
  BY <1>1, <1>8 DEF NumbersKept
<1>15. CrashNeedsCause'
  <2>1. DOMAIN pending' = (0..(seq' - 1)) \ finished'
    BY <1>1 DEF CrashNeedsCause
  <2> QED BY <1>1, <2>1 DEF CrashNeedsCause
<1> QED BY <1>10, <1>11, <1>12, <1>13, <1>14, <1>15 DEF Matched

LEMMA OnNestedReplyMsgKeeps ==
  ASSUME Matched, OnNestedReplyMsg
  PROVE  Matched'
<1>1. TypeOK /\ CrashNeedsCause
  BY DEF Matched
<1>2. PICK n : n = Head(inbox).data
  OBVIOUS
<1>3. /\ Read("NestedReply")
      /\ UNCHANGED <<cfg, threadVars, asked, seen, left, dropped>>
  BY DEF OnNestedReplyMsg
<1>4. /\ n \in Nat
      /\ \E q \in seen : q.data = n /\ q.era \in 0..era /\ (q.era = era => q.data < seq)
  BY <1>2, <1>3, ReplyRead
<1>5. CASE inbox' = Tail(inbox) /\ UNCHANGED <<serverVars, answers>>
  BY <1>3, <1>5, ReplyTooLate
<1>6. CASE /\ n \in DOMAIN pending
           /\ inbox' = Tail(inbox)
           /\ finished' = finished \cup {n}
           /\ answers' = [answers EXCEPT ![pending[n]] = Append(@, n)]
           /\ pending' = [k \in DOMAIN pending \ {n} |-> pending[k]]
           /\ UNCHANGED <<up, era, seq>>
  BY <1>3, <1>6, ReplyInTime
<1>7. CASE /\ Finished(n, FALSE)
           /\ n >= SeqLimit \/ n \notin DOMAIN pending
           /\ End("crashed")
           /\ UNCHANGED answers
  <2>1. /\ TypeOK' /\ Places' /\ QuestionsOld' /\ RepliesSeen' /\ NumbersKept'
        /\ DOMAIN pending' = (0..(seq' - 1)) \ finished'
    BY <1>3, <1>7, EndKeeps
  <2>2. era' = era /\ seen' = seen
    BY <1>3, <1>7 DEF End
  <2>3. era > 0 \/ \E q \in seen : q.data >= SeqLimit
    <3>1. CASE n >= SeqLimit
      BY <1>4, <3>1
    <3>2. CASE ~(n >= SeqLimit)
      <4>1. n \notin finished
        BY <1>4, <1>7, <3>2, BenchAssumption DEF Finished
      <4>2. n \notin 0..(seq - 1)
        BY <1>1, <1>7, <3>2, <4>1 DEF CrashNeedsCause
      <4>3. seq \in Nat /\ era \in Nat
        BY <1>1, BenchAssumption DEF TypeOK
      <4> QED BY <1>4, <4>2, <4>3
    <3> QED BY <3>1, <3>2
  <2>4. CrashNeedsCause'
    BY <2>1, <2>2, <2>3 DEF CrashNeedsCause
  <2> QED BY <2>1, <2>4 DEF Matched
<1> QED BY <1>2, <1>5, <1>6, <1>7 DEF OnNestedReplyMsg

LEMMA StopKeeps ==
  ASSUME Matched, Stop
  PROVE  Matched'
<1>1. End("stopped") /\ UNCHANGED <<cfg, threadVars, asked, answers, seen, left, dropped>>
  BY DEF Stop
<1>2. /\ TypeOK' /\ Places' /\ QuestionsOld' /\ RepliesSeen' /\ NumbersKept'
      /\ DOMAIN pending' = (0..(seq' - 1)) \ finished'
  BY <1>1, EndKeeps
<1>3. CrashNeedsCause'
  BY <1>1, <1>2 DEF CrashNeedsCause, End
<1> QED BY <1>2, <1>3 DEF Matched

LEMMA StartKeeps ==
  ASSUME BenchInv, Start
  PROVE  Matched'
<1>1. TypeOK /\ Places /\ QuestionsOld /\ RepliesSeen /\ NumbersKept /\ CrashNeedsCause
  BY DEF BenchInv, Matched
<1>2. /\ up # "up" /\ up' = "up" /\ era < MaxRestarts /\ era' = era + 1
      /\ left' = UNION {Range(asked[p]) : p \in Peers}
      /\ UNCHANGED <<cfg, seq, finished, pending, inbox, threadVars, asked,
                     answers, seen, dropped>>
  BY DEF Start
<1>3. Conn' = Conn /\ Thread' = Thread /\ Datagram' = Datagram
  BY <1>2, SameConns
<1>4. era \in Nat /\ era' \in 0..MaxRestarts
  BY <1>1, <1>2, BenchAssumption DEF TypeOK
<1>5. TypeOK'
  <2>1. \A p \in Peers : Range(asked[p]) \subseteq Question
    <3>1. \A p \in Peers : asked[p] \in Seq(Question)
      BY <1>1 DEF TypeOK
    <3> QED BY <3>1 DEF Range
  <2>2. left' \subseteq Question
    BY <1>2, <2>1
  <2> QED BY <1>1, <1>2, <1>3, <1>4, <2>2 DEF TypeOK, threadVars
<1>6. Places'
  <2> SUFFICES ASSUME NEW c \in Conn PROVE Place(c)'
    BY <1>3 DEF Places
  <2> QED BY <1>1, <1>2 DEF Places, Place, Nowhere, Requests, Numbers, threadVars
<1>7. QuestionsOld'
  <2>1. ASSUME NEW x \in Question, Old(x) PROVE Old(x)'
    <3>1. x.era \in Nat
      BY BenchAssumption DEF Question
    <3> QED BY <1>2, <1>4, <2>1, <3>1 DEF Old
  <2>2. ASSUME NEW p \in Peers, NEW i \in DOMAIN asked[p]
        PROVE  \E x \in Question : x = asked[p][i] /\ Old(x)
    <3>1. asked[p] \in Seq(Question)
      BY <1>1 DEF TypeOK
    <3>2. PICK x \in Question : x = asked[p][i]
      BY <3>1
    <3> QED BY <1>1, <3>2 DEF QuestionsOld
  <2>3. \A x \in seen : x \in Question /\ Old(x)
    BY <1>1 DEF QuestionsOld, TypeOK
  <2> QED BY <1>2, <2>1, <2>2, <2>3 DEF QuestionsOld, Old
<1>8. RepliesSeen'
  <2>1. DOMAIN inbox' = {}
    BY <1>2 DEF BenchInv, SocketOfThisLife
  <2> QED BY <2>1 DEF RepliesSeen
<1>9. NumbersKept' /\ CrashNeedsCause'
  BY <1>1, <1>2 DEF NumbersKept, CrashNeedsCause
<1> QED BY <1>5, <1>6, <1>7, <1>8, <1>9 DEF Matched

LEMMA OnNestedMsgKeeps ==
  ASSUME BenchInv, NEW p \in Peers, OnNestedMsg(p)
  PROVE  Matched'
<1>1. TypeOK /\ Places /\ QuestionsOld /\ RepliesSeen /\ NumbersKept /\ CrashNeedsCause
  BY DEF BenchInv, Matched
<1>2. PICK x : x = Head(asked[p])
  OBVIOUS
<1>3. /\ asked[p] # << >>
      /\ seen' = seen \cup {x}
      /\ asked' = [asked EXCEPT ![p] = Tail(@)]
      /\ UNCHANGED <<cfg, serverVars, threadVars, answers, left>>
  BY <1>2 DEF OnNestedMsg
<1>4. \A r \in Peers : asked[r] \in Seq(Question)
  BY <1>1 DEF TypeOK
<1>5. /\ x \in Question /\ Old(x) /\ Current(x)
      /\ \A r \in Peers : asked'[r] \in Seq(Question)
      /\ \A r \in Peers : MovedOn(r, x)
  <2>1. PICK b \in Seq(Question) : b = asked[p]
    BY <1>4
  <2>2. Head(b) \in Question /\ Tail(b) \in Seq(Question) /\ 1 \in DOMAIN b /\ b[1] = Head(b)
    BY <1>3, <2>1, TailOf
  <2>3. Old(b[1]) /\ Current(b[1])
    BY <1>1, <2>1, <2>2 DEF QuestionsOld, BenchInv, SocketOfThisLife
  <2>4. asked'[p] = Tail(b) /\ \A r \in Peers : r # p => asked'[r] = asked[r]
    BY <1>1, <1>3, <2>1 DEF TypeOK
  <2>5. \A r \in Peers : asked'[r] \in Seq(Question)
    BY <1>4, <2>2, <2>4
  <2>6. \A r \in Peers : MovedOn(r, x)
    BY <1>3, <2>1, <2>4 DEF MovedOn
  <2> QED BY <1>2, <2>1, <2>2, <2>3, <2>5, <2>6
<1>6. PICK m : m = NestedReplyMessage(x)
  OBVIOUS
<1>7. /\ m \in Datagram /\ m.type = "NestedReply" /\ m.data = x.data /\ m.era = x.era
  BY <1>5, <1>6 DEF NestedReplyMessage, Datagram, Question
<1>8. /\ inbox' \in Seq(Datagram) /\ dropped' \in [Leg -> 0..MaxDropped]
      /\ inbox' = inbox \/ inbox' = Append(inbox, m)
  <2>1. ToServer("reply", m) /\ "reply" \in Leg
    BY <1>2, <1>6 DEF OnNestedMsg, Leg
  <2> QED BY <1>1, <1>7, <2>1, ToServerInbox
<1>9. Conn' = Conn /\ Thread' = Thread /\ Datagram' = Datagram
  BY <1>3, SameConns
<1>10. TypeOK'
  <2>1. asked' \in [Peers -> Seq(Question)]
    BY <1>1, <1>3, <1>5 DEF TypeOK
  <2>2. seen' \subseteq Question
    BY <1>1, <1>3, <1>5 DEF TypeOK
  <2> QED BY <1>1, <1>3, <1>8, <1>9, <2>1, <2>2 DEF TypeOK, serverVars, threadVars
<1>11. Places'
  <2> SUFFICES ASSUME NEW c \in Conn PROVE Place(c)'
    BY <1>9 DEF Places
  <2>1. Place(c) /\ status' = status /\ answers' = answers /\ pending' = pending
    BY <1>1, <1>3 DEF Places, serverVars, threadVars
  <2>2. m # ClientMessage(c)
    BY <1>7 DEF ClientMessage
  <2> QED BY <1>1, <1>7, <1>8, <2>1, <2>2, OthersArrive
<1>12. QuestionsOld'
  <2>1. \A y \in Question : Old(y) => Old(y)'
    BY <1>3 DEF Old, serverVars
  <2>2. \A y \in seen' : y \in seen \/ \E r \in Peers : asked[r] # << >> /\ y = Head(asked[r])
    BY <1>2, <1>3
  <2>3. Old(x)'
    BY <1>5, <2>1
  <2> QED BY <1>1, <1>5, <2>1, <2>2, <2>3, OldKept
<1>13. RepliesSeen'
  <2>1. x \in seen' /\ seen \subseteq seen' /\ UNCHANGED <<era, left>>
    BY <1>3 DEF serverVars
  <2>2. Seen(m)'
    BY <1>5, <1>7, <2>1 DEF Seen, Current
  <2> QED BY <1>1, <1>7, <1>8, <2>1, <2>2, RepliesArrive
<1>14. NumbersKept' /\ CrashNeedsCause'
  BY <1>1, <1>3 DEF NumbersKept, CrashNeedsCause, serverVars
<1> QED BY <1>10, <1>11, <1>12, <1>13, <1>14 DEF Matched

\* A server that comes back finds its peers' buffers as they are.
LEMMA SocketStarts ==
  ASSUME TypeOK, SocketOfThisLife, Start
  PROVE  SocketOfThisLife'
<1>1. /\ up' = "up" /\ asked' = asked
      /\ left' = UNION {Range(asked[p]) : p \in Peers}
  BY DEF Start
<1>2. \A p \in Peers : \A i \in DOMAIN asked[p] : asked[p][i] \in left'
  BY <1>1 DEF Range
<1> QED BY <1>1, <1>2 DEF SocketOfThisLife, Current

\* A step that starts no server: nothing arrives where no server is, and every
\* question that is added is of the present life.
LEMMA SocketKept ==
  ASSUME TypeOK, SocketOfThisLife, UNCHANGED <<era, left>>,
         NEW m \in Question, m.era = era, \A p \in Peers : MovedOn(p, m),
         up' # "up" => inbox' = << >>
  PROVE  SocketOfThisLife'
<1>1. ASSUME NEW p \in Peers, NEW i \in DOMAIN asked'[p]
      PROVE  asked'[p][i] = m \/ \E j \in DOMAIN asked[p] : asked'[p][i] = asked[p][j]
  <2>1. PICK q \in Seq(Question) : q = asked[p]
    BY DEF TypeOK
  <2>2. CASE asked'[p] = q
    BY <1>1, <2>1, <2>2
  <2>3. CASE asked'[p] = Append(q, m)
    <3>1. PICK u : u = Append(q, m)
      OBVIOUS
    <3>2. \A k \in DOMAIN u : u[k] = m \/ (k \in DOMAIN q /\ u[k] = q[k])
      BY <3>1, AppendedFacts
    <3> QED BY <1>1, <2>1, <2>3, <3>1, <3>2
  <2>4. CASE q # << >> /\ asked'[p] = Tail(q)
    <3>1. \A k \in DOMAIN Tail(q) : k + 1 \in DOMAIN q /\ Tail(q)[k] = q[k + 1]
      BY <2>4, TailOf
    <3> QED BY <1>1, <2>1, <2>4, <3>1
  <2> QED BY <2>1, <2>2, <2>3, <2>4 DEF MovedOn
<1>2. \A p \in Peers : \A i \in DOMAIN asked[p] : Current(asked[p][i])
  BY DEF SocketOfThisLife
<1> QED BY <1>1, <1>2 DEF SocketOfThisLife, Current

LEMMA SocketSteps ==
  ASSUME TypeOK, SocketOfThisLife, [Next]_vars
  PROVE  SocketOfThisLife'
<1>1. PICK m : m = NestedMessage
  OBVIOUS
<1>2. m \in Question /\ m.era = era
  BY <1>1 DEF NestedMessage, Question, TypeOK
<1>3. CASE Start
  BY <1>3, SocketStarts
<1>4. CASE OnClientMsg
  <2>1. UNCHANGED <<up, era, left>> /\ up = "up"
    BY <1>4 DEF OnClientMsg, Read
  <2>2. \A p \in Peers : MovedOn(p, m)
    BY <1>1, <1>4 DEF OnClientMsg, MovedOn
  <2> QED BY <1>2, <2>1, <2>2, SocketKept
<1>5. CASE OnNestedReplyMsg \/ Stop
  <2>1. UNCHANGED <<era, left, asked>>
    BY <1>5 DEF OnNestedReplyMsg, Stop, End, serverVars
  <2>2. up' # "up" => inbox' = << >>
    BY <1>5 DEF OnNestedReplyMsg, Stop, End, Read, serverVars
  <2>3. \A p \in Peers : MovedOn(p, m)
    BY <2>1 DEF MovedOn
  <2> QED BY <1>2, <2>1, <2>2, <2>3, SocketKept
<1>6. CASE \E t \in Thread : Send(t)
  <2>1. UNCHANGED <<up, era, left, asked>>
    BY <1>6 DEF Send, serverVars
  <2>2. up' # "up" => inbox' = inbox
    BY <1>6, <2>1 DEF Send, ToServer
  <2>3. \A p \in Peers : MovedOn(p, m)
    BY <2>1 DEF MovedOn
  <2> QED BY <1>2, <2>1, <2>2, <2>3, SocketKept DEF SocketOfThisLife
<1>7. CASE \E p \in Peers : OnNestedMsg(p)
  <2>1. PICK p \in Peers : OnNestedMsg(p)
    BY <1>7
  <2>2. UNCHANGED <<up, era, left>>
    BY <2>1 DEF OnNestedMsg, serverVars
  <2>3. up' # "up" => inbox' = inbox
    BY <2>1, <2>2 DEF OnNestedMsg, ToServer
  <2>4. \A r \in Peers : MovedOn(r, m)
    <3>1. asked[p] # << >> /\ asked' = [asked EXCEPT ![p] = Tail(@)]
      BY <2>1 DEF OnNestedMsg
    <3> QED BY <3>1 DEF MovedOn, TypeOK
  <2> QED BY <1>2, <2>2, <2>3, <2>4, SocketKept DEF SocketOfThisLife
<1>8. CASE (\E t \in Thread : Wake(t)) \/ UNCHANGED vars
  <2>1. UNCHANGED <<up, era, left, asked, inbox>>
    BY <1>8 DEF Wake, vars, serverVars
  <2>2. \A p \in Peers : MovedOn(p, m)
    BY <2>1 DEF MovedOn
  <2> QED BY <1>2, <2>1, <2>2, SocketKept DEF SocketOfThisLife
<1> QED BY <1>3, <1>4, <1>5, <1>6, <1>7, <1>8 DEF Next

-----------------------------------------------------------------------------
(* The results *)

LEMMA BenchStarts == Init => BenchInv
<1> SUFFICES ASSUME Init PROVE BenchInv
  OBVIOUS
<1>1. DOMAIN pending = {} /\ DOMAIN inbox = {}
  BY DEF Init
<1>2. TypeOK
  <2>1. inbox \in Seq(Datagram) /\ asked \in [Peers -> Seq(Question)]
        /\ answers \in [Conn -> Seq(Nat)]
    BY DEF Init
  <2>2. seq \in Nat /\ finished \subseteq Nat /\ seen \subseteq Question
        /\ left \subseteq Question
        /\ up \in {"up", "stopped", "crashed"} /\ cfg \in CommandLines
    BY DEF Init
  <2>3. era \in 0..MaxRestarts /\ dropped \in [Leg -> 0..MaxDropped]
    BY BenchAssumption DEF Init
  <2>4. count \in [Thread -> 0..cfg.lt]
    <3>1. cfg.lt \in Nat
      BY BenchAssumption DEF Init, CommandLine
    <3> QED BY <3>1 DEF Init
  <2>5. status \in [Conn -> {0, 1}] /\ pc \in [Thread -> {"loop", "done"}]
    BY DEF Init
  <2>6. DOMAIN pending \subseteq 0..(seq - 1) /\ Range(pending) \subseteq Conn
    BY <1>1 DEF Range
  <2> QED BY <2>1, <2>2, <2>3, <2>4, <2>5, <2>6 DEF TypeOK
<1>3. Places
  BY <1>1 DEF Init, Places, Place, Nowhere, Requests, Numbers
<1>4. QuestionsOld
  <2>1. \A p \in Peers : asked[p] = << >>
    BY DEF Init
  <2> QED BY <2>1 DEF Init, QuestionsOld
<1>5. RepliesSeen /\ NumbersKept
  BY <1>1 DEF Init, RepliesSeen, NumbersKept
<1>6. CrashNeedsCause
  <2>1. DOMAIN pending = (0..(seq - 1)) \ finished
    BY <1>1 DEF Init
  <2> QED BY <2>1 DEF Init, CrashNeedsCause
<1>7. SocketOfThisLife
  <2>1. \A p \in Peers : DOMAIN asked[p] = {}
    BY DEF Init
  <2> QED BY <2>1 DEF Init, SocketOfThisLife
<1> QED BY <1>2, <1>3, <1>4, <1>5, <1>6, <1>7 DEF BenchInv, Matched

LEMMA BenchSteps == BenchInv /\ [Next]_vars => BenchInv'
<1> SUFFICES ASSUME BenchInv, [Next]_vars PROVE BenchInv'
  OBVIOUS
<1>0. Matched /\ SocketOfThisLife /\ TypeOK
  BY DEF BenchInv, Matched
<1> SUFFICES Matched'
  BY <1>0, SocketSteps DEF BenchInv
<1>1. CASE \E t \in Thread : Send(t) \/ Wake(t)
  BY <1>0, <1>1, SendKeeps, WakeKeeps
<1>2. CASE OnClientMsg
  BY <1>0, <1>2, OnClientMsgKeeps
<1>3. CASE OnNestedReplyMsg
  BY <1>0, <1>3, OnNestedReplyMsgKeeps
<1>4. CASE Stop
  BY <1>0, <1>4, StopKeeps
<1>5. CASE Start
  BY <1>5, StartKeeps
<1>6. CASE \E p \in Peers : OnNestedMsg(p)
  BY <1>6, OnNestedMsgKeeps
<1>7. CASE UNCHANGED vars
  <2>1. TypeOK /\ Places /\ QuestionsOld /\ RepliesSeen /\ NumbersKept /\ CrashNeedsCause
    BY <1>0 DEF Matched
  <2>2. Conn' = Conn /\ Thread' = Thread /\ Datagram' = Datagram
    BY <1>7, SameConns DEF vars
  <2>3. TypeOK'
    BY <1>7, <2>1, <2>2 DEF TypeOK, vars, serverVars, threadVars
  <2>4. Places'
    <3> SUFFICES ASSUME NEW c \in Conn PROVE Place(c)'
      BY <2>2 DEF Places
    <3>1. UNCHANGED <<inbox, pending, status, answers>>
      BY <1>7 DEF vars, serverVars, threadVars
    <3>2. Place(c)
      BY <2>1 DEF Places
    <3> QED BY <3>1, <3>2 DEF Place, Nowhere, Requests, Numbers
  <2>5. QuestionsOld' /\ RepliesSeen' /\ NumbersKept' /\ CrashNeedsCause'
    BY <1>7, <2>1 DEF QuestionsOld, Old, RepliesSeen, Seen, Current, NumbersKept,
                      CrashNeedsCause, vars, serverVars
  <2> QED BY <2>1, <2>3, <2>4, <2>5 DEF Matched
<1> QED BY <1>1, <1>2, <1>3, <1>4, <1>5, <1>6, <1>7 DEF Next

\* The inductive invariant of the nested call.
THEOREM BenchIsSound == Spec => []BenchInv
<1> QED BY BenchStarts, BenchSteps, PTL DEF Spec

\* The answer a connection takes is the answer to its last request: an idle
\* connection has nothing under way, a busy one at most one request, number or
\* answer (new_udp_event, which does not look into the datagram).
THEOREM OneRequestUnderWay == Spec => []OneUnderWay
<1>1. BenchInv => OneUnderWay
  <2> SUFFICES ASSUME BenchInv, NEW c \in Conn
               PROVE  Cardinality(Requests(c)) + Cardinality(Numbers(c)) + Len(answers[c])
                        <= status[c]
    BY DEF BenchInv, Matched, OneUnderWay
  <2>1. Place(c) /\ status[c] \in {0, 1}
    BY DEF BenchInv, Matched, Places, TypeOK
  <2>2. CASE Nowhere(c)
    BY <2>1, <2>2, FS_EmptySet DEF Nowhere
  <2>3. CASE status[c] = 1 /\ (\E i : Requests(c) = {i}) /\ Numbers(c) = {} /\ answers[c] = << >>
    <3>1. PICK i : Requests(c) = {i}
      BY <2>3
    <3>2. Cardinality(Requests(c)) = 1
      BY <3>1, FS_Singleton
    <3> QED BY <2>3, <3>2, FS_EmptySet
  <2>4. CASE status[c] = 1 /\ (\E n : Numbers(c) = {n}) /\ Requests(c) = {} /\ answers[c] = << >>
    <3>1. PICK n : Numbers(c) = {n}
      BY <2>4
    <3>2. Cardinality(Numbers(c)) = 1
      BY <3>1, FS_Singleton
    <3> QED BY <2>4, <3>2, FS_EmptySet
  <2>5. CASE status[c] = 1 /\ (\E n : answers[c] = <<n>>) /\ Requests(c) = {} /\ Numbers(c) = {}
    BY <2>5, FS_EmptySet
  <2> QED BY <2>1, <2>2, <2>3, <2>4, <2>5 DEF Place
<1> QED BY <1>1, BenchIsSound, PTL

\* Every number server 0 has given out since its start has its entry or its
\* bit (m_pending_client, m_seq_finished), and only the reply to a question of
\* an earlier start or to one past the last bit can make it crash.
THEOREM CrashesHaveCauses == Spec => []CrashNeedsCause
<1>1. BenchInv => CrashNeedsCause
  BY DEF BenchInv, Matched
<1> QED BY <1>1, BenchIsSound, PTL

\* A client is answered only when a peer has received its question, or one of
\* an earlier start with the same number which that peer had still to read when
\* server 0 came back (handle_nested_reply_message, which looks at the number
\* alone).
THEOREM AnswersWereAsked == Spec => AnswersAreAsked
<1> DEFINE Asked == \A n \in DOMAIN pending : up' = "up" /\ n \notin DOMAIN pending'
                      => \E q \in seen : q.data = n /\ (q.era = era \/ q \in left)
<1>1. ASSUME BenchInv, [Next]_vars PROVE [Asked]_vars
  <2> SUFFICES ASSUME NEW n \in DOMAIN pending, up' = "up", n \notin DOMAIN pending'
               PROVE  \E q \in seen : q.data = n /\ (q.era = era \/ q \in left)
    OBVIOUS
  <2>1. /\ \A t \in Thread : ~Send(t) /\ ~Wake(t)
        /\ ~OnClientMsg /\ ~Stop /\ ~Start
        /\ \A p \in Peers : ~OnNestedMsg(p)
        /\ ~UNCHANGED vars
    BY DEF Send, Wake, OnClientMsg, Stop, Start, End, OnNestedMsg, vars, serverVars
  <2>2. OnNestedReplyMsg
    BY <1>1, <2>1 DEF Next
  <2>3. Read("NestedReply") /\ n = Head(inbox).data
    BY <2>2 DEF OnNestedReplyMsg, End, serverVars
  <2>4. PICK q \in seen : q.data = n /\ Current(q)
    BY <1>1, <2>3, ReplyRead DEF BenchInv
  <2> QED BY <2>4 DEF Current
<1> QED BY <1>1, BenchIsSound, PTL DEF Spec, AnswersAreAsked
=============================================================================
