--------------------------- MODULE MorphlingProofs ---------------------------
(***************************************************************************)
(* Proofs about Morphling, for every number of replicas, clients, keys and *)
(* operations, and all ways to use the service: logs, storage, the slots   *)
(* of m_client_pendings, and what clients may rely on.                     *)
(*                                                                         *)
(* The invariants are stacked.  TypeInv bounds all logs by the writes that *)
(* are no longer under way; GroupInv is Core (SMRHandlersProofs) of each   *)
(* group with the messages the links carry for it; StorageInv, SlotsInv    *)
(* and NumbersInv are about what groups share; ClientsInv follows the one  *)
(* request of each client to its answer; EndsInv says who ends a server.   *)
(* That the operations of a group have one replica to go to is proved      *)
(* first, from the arithmetic of the initial guidance.                     *)
(***************************************************************************)
EXTENDS Morphling, SMRHandlersProofs

-----------------------------------------------------------------------------
(* The guidance every replica builds at its start: the ranges of the nodes  *)
(* follow one another, the last position of a node being computed from the  *)
(* first one of the next.                                                   *)

\* The quotient and the rest of a division
LEMMA Division ==
  ASSUME NEW a \in Nat, NEW d \in Nat \ {0}
  PROVE  /\ a \div d \in Nat /\ a % d \in 0..(d - 1)
         /\ d * (a \div d) <= a /\ a < d * (a \div d) + d
OBVIOUS

\* A quotient is at least q if the number is at least q times the divisor.
LEMMA QuotientAtLeast ==
  ASSUME NEW a \in Nat, NEW d \in Nat \ {0}, NEW q \in Nat
  PROVE  q <= a \div d <=> d * q <= a
<1> DEFINE p == a \div d
<1>1. p \in Nat /\ d * p <= a /\ a < d * p + d
  BY Division
<1> HIDE DEF p
<1>2. ASSUME q <= p PROVE d * q <= a
  <2>1. PICK x \in Nat : p = q + x
    BY <1>1, <1>2
  <2>2. d * p = d * q + d * x /\ d * x >= 0 /\ d * q \in Nat /\ d * x \in Nat
    BY <2>1
  <2> QED BY <1>1, <2>2
<1>3. ASSUME d * q <= a, q > p PROVE FALSE
  <2>1. PICK x \in Nat : q = p + 1 + x
    BY <1>1, <1>3
  <2>2. /\ d * q = d * p + d + d * x /\ d * x >= 0
        /\ d * p \in Nat /\ d * x \in Nat
    BY <2>1, <1>1
  <2> QED BY <1>1, <1>3, <2>2
<1> QED BY <1>1, <1>2, <1>3 DEF p

\* The ranges of the nodes begin at 0, end before KeySpace, and each begins
\* behind the end of the one before it.
LEMMA RangesFollow ==
  /\ \A i \in 0..ClusterSize : FirstPos(i) \in 0..KeySpace
  /\ \A i, j \in 0..ClusterSize : i < j => FirstPos(i) < FirstPos(j)
  /\ \A i \in Node : LastPos(i) = FirstPos(i + 1) - 1
<1> DEFINE C == ClusterSize
           K == KeySpace
<1>1. C \in Nat \ {0} /\ K \in Nat /\ C <= K
  BY GuidanceAssumption
<1> HIDE DEF C, K
<1>2. ASSUME NEW i \in 0..C
      PROVE  /\ i \in Nat /\ i * K \in Nat /\ i * K <= C * K
             /\ (i * K) \div C \in 0..K
  <2>1. i \in Nat /\ i * K \in Nat /\ C * K \in Nat /\ C * (K + 1) = C * K + C
    BY <1>1
  <2>2. i * K <= C * K
    <3>1. PICK x \in Nat : C = i + x
      BY <1>1, <2>1
    <3> QED BY <1>1, <2>1, <3>1
  <2>3. (i * K) \div C \in Nat /\ ~(K + 1 <= (i * K) \div C)
    <3>1. (i * K) \div C \in Nat
      BY <1>1, <2>1, Division
    <3>2. K + 1 <= (i * K) \div C <=> C * (K + 1) <= i * K
      BY <1>1, <2>1, QuotientAtLeast
    <3> QED BY <1>1, <2>1, <2>2, <3>1, <3>2
  <2> QED BY <1>1, <2>1, <2>2, <2>3
<1>3. ASSUME NEW i \in 0..C, NEW j \in 0..C, i < j
      PROVE  (i * K) \div C < (j * K) \div C
  <2> DEFINE q == (i * K) \div C
  <2>1. q \in Nat /\ C * q <= i * K /\ i * K \in Nat /\ j * K \in Nat
    BY <1>1, <1>2, Division
  <2>2. i * K + K <= j * K
    <3>1. PICK x \in Nat : j = i + 1 + x
      BY <1>2, <1>3
    <3>2. j * K = i * K + K + x * K /\ x * K \in Nat
      BY <3>1, <1>1, <1>2
    <3> QED BY <3>2, <2>1, <1>1
  <2> HIDE DEF q
  <2>3. C * (q + 1) = C * q + C /\ C * q \in Nat
    BY <1>1, <2>1
  <2>4. C * (q + 1) <= j * K
    BY <1>1, <2>1, <2>2, <2>3
  <2>5. q + 1 <= (j * K) \div C
    BY <1>1, <2>1, <2>4, QuotientAtLeast
  <2>6. (j * K) \div C \in Nat
    BY <1>2
  <2> QED BY <2>1, <2>5, <2>6 DEF q
<1> QED BY <1>2, <1>3 DEF FirstPos, LastPos, Node, C, K

\* The word of a node alive, with the positions first and last in it
LEMMA WordOfRange ==
  ASSUME NEW first \in 0..255, NEW last \in 0..255, NEW w,
         w = SetAlive(SetPos(0, first, last))
  PROVE  StartPos(w) = first /\ EndPos(w) = last /\ Flags(w) = 1
<1>1. SetPos(0, first, last) = first + 256 * last
  BY DEF SetPos
<1>2. w = first + 256 * last + 65536
  BY <1>1 DEF SetAlive
<1>3. w % 256 = first /\ w \div 256 = last + 256 /\ w \div 65536 = 1
  BY <1>2
<1> QED BY <1>3 DEF StartPos, EndPos, Flags

\* A position is in the word of a node if it is in its range.
LEMMA InitRanges ==
  ASSUME NEW i \in Node, NEW pos \in Nat
  PROVE  PosIsIn(InitCluster[i], pos)
           <=> FirstPos(i) <= pos /\ pos < FirstPos(i + 1)
<1> DEFINE first == FirstPos(i)
           last == LastPos(i)
           w == SetAlive(SetPos(0, first, last))
<1>1. /\ i \in 0..ClusterSize /\ i + 1 \in 0..ClusterSize /\ i < i + 1
      /\ KeySpace \in 0..256
  BY GuidanceAssumption DEF Node
<1>2. /\ first \in 0..255 /\ last \in 0..255 /\ first <= last
      /\ FirstPos(i + 1) = last + 1
  <2>1. first \in 0..KeySpace /\ FirstPos(i + 1) \in 0..KeySpace
    BY <1>1, RangesFollow
  <2>2. first < FirstPos(i + 1)
    BY <1>1, RangesFollow
  <2>3. last = FirstPos(i + 1) - 1
    BY RangesFollow
  <2> HIDE DEF first, last
  <2> QED BY <1>1, <2>1, <2>2, <2>3
<1>3. InitCluster[i] = w
  BY DEF InitCluster
<1> HIDE DEF first, last
<1>4. StartPos(w) = first /\ EndPos(w) = last /\ Flags(w) = 1
  BY <1>2, WordOfRange
<1> HIDE DEF w
<1> QED BY <1>2, <1>3, <1>4 DEF PosIsIn, first

\* Every key position is in the range of exactly one node, whom map_node_id
\* names: all clients with the initial guidance (core/morphling.cpp,
\* init_local_guidance) send the operations of a group to the same replica.
THEOREM EveryPositionHasOneOwner ==
  \A pos \in Position : \E i \in Node :
    /\ \A j \in Node : PosIsIn(InitCluster[j], pos) <=> j = i
    /\ MapNodeId(InitCluster, pos) = i
<1> SUFFICES ASSUME NEW pos \in Position
             PROVE  \E i \in Node :
                      /\ \A j \in Node : PosIsIn(InitCluster[j], pos) <=> j = i
                      /\ MapNodeId(InitCluster, pos) = i
  OBVIOUS
<1> DEFINE C == ClusterSize
           K == KeySpace
           n == (pos + 1) * C - 1
           i == n \div K
<1>1. /\ C \in Nat \ {0} /\ K \in Nat \ {0} /\ C <= K
      /\ pos \in Nat /\ pos + 1 <= K
  BY GuidanceAssumption DEF Position
<1> HIDE DEF C, K
<1>2. (pos + 1) * C \in Nat \ {0} /\ n \in Nat /\ n + 1 = (pos + 1) * C
      /\ (pos + 1) * C <= K * C
  <2>1. PICK x \in Nat : K = pos + 1 + x
    BY <1>1
  <2>2. /\ (pos + 1) * C = pos * C + C /\ pos * C \in Nat
        /\ K * C = (pos + 1) * C + x * C /\ x * C \in Nat
    BY <1>1, <2>1
  <2> QED BY <1>1, <2>2
<1> HIDE DEF n
<1>3. i \in Nat /\ K * i <= n /\ n < K * i + K
  BY <1>1, <1>2, Division
<1> HIDE DEF i
<1>4. i \in Node /\ i \in 0..C /\ i + 1 \in 0..C
  <2>1. i < C
    <3> SUFFICES ASSUME i >= C PROVE FALSE
      BY <1>1, <1>3
    <3>1. PICK x \in Nat : i = C + x
      BY <1>1, <1>3
    <3>2. K * i = K * C + K * x /\ K * x \in Nat /\ K * C \in Nat
      BY <1>1, <3>1
    <3> QED BY <1>1, <1>2, <1>3, <3>2
  <2> QED BY <2>1, <1>1, <1>3 DEF Node, C
<1>5. FirstPos(i) <= pos /\ pos < FirstPos(i + 1)
  <2>1. i * K = K * i /\ (i + 1) * K = K * i + K /\ K * i \in Nat
        /\ (i + 1) * K \in Nat
    BY <1>1, <1>3
  <2>2. ~(pos + 1 <= (i * K) \div C)
    <3>1. C * (pos + 1) = n + 1
      BY <1>1, <1>2
    <3> QED BY <1>1, <1>3, <2>1, <3>1, <1>2, QuotientAtLeast
  <2>3. pos + 1 <= ((i + 1) * K) \div C
    <3>1. C * (pos + 1) = n + 1
      BY <1>1, <1>2
    <3> QED BY <1>1, <1>3, <2>1, <3>1, <1>2, QuotientAtLeast
  <2>4. FirstPos(i) \in Nat /\ FirstPos(i + 1) \in Nat
    BY <1>4, RangesFollow DEF C
  <2> QED BY <2>2, <2>3, <2>4, <1>1 DEF FirstPos, C, K
<1>6. \A j \in Node : PosIsIn(InitCluster[j], pos) <=> j = i
  <2> SUFFICES ASSUME NEW j \in Node, j # i, FirstPos(j) <= pos,
                      pos < FirstPos(j + 1)
               PROVE  FALSE
    BY <1>1, <1>4, <1>5, InitRanges
  <2>1. j \in 0..C /\ j + 1 \in 0..C /\ j \in Nat
    BY <1>1 DEF Node, C
  <2>2. /\ FirstPos(i) \in Nat /\ FirstPos(i + 1) \in Nat
        /\ FirstPos(j) \in Nat /\ FirstPos(j + 1) \in Nat
    BY <1>4, <2>1, RangesFollow DEF C
  <2>3. CASE j < i
    <3>1. j + 1 <= i
      BY <2>1, <2>3, <1>3
    <3>2. FirstPos(j + 1) <= FirstPos(i)
      BY <3>1, <2>1, <2>2, <1>4, RangesFollow DEF C
    <3> QED BY <3>2, <2>2, <1>5, <1>1
  <2>4. CASE i < j
    <3>1. i + 1 <= j
      BY <2>1, <2>4, <1>3
    <3>2. FirstPos(i + 1) <= FirstPos(j)
      BY <3>1, <2>1, <2>2, <1>4, RangesFollow DEF C
    <3> QED BY <3>2, <2>2, <1>5, <1>1
  <2> QED BY <2>1, <2>3, <2>4, <1>3
<1>7. MapNodeId(InitCluster, pos) = i
  <2>1. {j \in Node : PosIsIn(InitCluster[j], pos)} = {i}
    BY <1>4, <1>6
  <2>2. (CHOOSE x \in {i} : \A y \in {i} : x <= y) = i
    BY <1>3
  <2> QED BY <2>1, <2>2 DEF MapNodeId
<1> QED BY <1>4, <1>6, <1>7

-----------------------------------------------------------------------------
(* The parts of the service *)

\* The SMR objects of group g, and the messages of the group on the links
SMRs(g) == [r \in Replica |-> smr[r][g]]
BodiesOn(L, g) ==
  {p.body : p \in {q \in UNION {UNION {{L[r][s][i] : i \in DOMAIN L[r][s]} :
                                       s \in Replica} : r \in Replica} :
                    q.group_id = g}}
OnLinks(g) == BodiesOn(links, g)
Takers(g) == {r \in Replica : <<r, g>> \in taken}
OwnerCommit(g) == smr[OwnerOf(g)][g].commit

\* Log entries, all of them and those of a group
AnyEntry ==
  [epoch : {Epoch}, index : Nat \ {0},
   data : [key_hash : Key, data : 1..MaxWrites, client : Writer]]
LogEntry(g) == {e \in AnyEntry : CalcKeyPos(e.data.key_hash) = g}

Body(g) == AppendOf(LogEntry(g)) \cup Replies
Packet == [group_id : Group, body : UNION {Body(g) : g \in Group}]

WriteRequest ==
  [epoch : Nat, op_type : {"write"}, key_hash : Key, data : 1..MaxWrites]
ReadRequest ==
  [epoch : {Epoch}, op_type : {"read"}, key_hash : Key, data : {0}]
ReadReply ==
  [type : {"client_reply"}, key_hash : Key, data : 0..MaxWrites]

-----------------------------------------------------------------------------
(* The types, and how long the logs can be *)

\* The SMR objects of a group and its messages have their types, whoever took
\* operations of the group.
GroupTyped(g) ==
  /\ Typed(SMRs(g), OnLinks(g), LogEntry(g))
  /\ LogsWellFormed(SMRs(g))
  /\ \A r \in Replica : CompleteHasQuorum(smr[r][g].votes)

ServersTyped ==
  /\ DOMAIN smr = Replica /\ \A r \in Replica : DOMAIN smr[r] = Group
  /\ \A g \in Group : GroupTyped(g)

PacketBetween(p, r, s) ==
  p.body \in Body(p.group_id) /\ p.body.from = r /\ p.body.to = s
LinksTyped ==
  /\ DOMAIN links = Replica /\ \A r \in Replica : DOMAIN links[r] = Replica
  /\ \A r, s \in Replica :
       /\ links[r][s] \in Seq(Packet)
       /\ \A i \in DOMAIN links[r][s] : PacketBetween(links[r][s][i], r, s)

RequestsTyped ==
  /\ writes \in 0..use.writes
  /\ DOMAIN requests = Client
  /\ \A c \in Client : DOMAIN requests[c] = Replica
  /\ \A c \in Writer, r \in Replica : requests[c][r] \in Seq(WriteRequest)
  /\ \A c \in Reader, r \in Replica : requests[c][r] \in Seq(ReadRequest)

\* A client that waits has asked, and so has one whose request is on its way.
AskersTyped ==
  /\ DOMAIN request = Client
  /\ \A c \in Writer : request[c] \in WriteRequest \cup {NoRequest}
  /\ \A c \in Reader : request[c] \in ReadRequest \cup {NoRequest}
  /\ \A c \in Writer, r \in Replica :
       requests[c][r] # <<>> => request[c] \in WriteRequest
  /\ \A c \in Client :
       /\ status[c] = "writing" => c \in Writer /\ request[c] \in WriteRequest
       /\ status[c] = "reading" => c \in Reader

RepliesTyped ==
  /\ DOMAIN replies = Replica
  /\ \A r \in Replica : DOMAIN replies[r] = Client
  /\ \A r \in Replica, c \in Reader : replies[r][c] \in Seq(ReadReply)

SlotsTyped ==
  /\ \A r \in Replica : \A i \in 1..MaxWrites :
       pendings[r][i] # NoClient =>
         pendings[r][i] \in Writer /\ request[pendings[r][i]] \in WriteRequest
  /\ \A r \in Replica : \A c \in freed[r] : status[c] = "gone"

HistoryTyped ==
  /\ acked \subseteq WriteRequest
  /\ floor \in [Reader -> SUBSET acked]

ClientsTyped ==
  RequestsTyped /\ AskersTyped /\ RepliesTyped /\ SlotsTyped /\ HistoryTyped

\* Every write has a number of its own.
UnderWayNumbers ==
  /\ \A c \in Writer, r \in Replica : \A i \in DOMAIN requests[c][r] :
       requests[c][r][i].data <= writes
  /\ \A c, d \in Writer, r, s \in Replica :
       \A i \in DOMAIN requests[c][r], j \in DOMAIN requests[d][s] :
         requests[c][r][i].data = requests[d][s][j].data
           => c = d /\ r = s /\ i = j

\* The numbers of the writes on their way to a replica
UnderWay ==
  {v \in 1..MaxWrites :
     \E c \in Writer, r \in Replica : \E i \in DOMAIN requests[c][r] :
       requests[c][r][i].data = v}
\* As many writes as were sent and are not on their way: no log is longer, and
\* every append message carries one entry, the one behind prev_index.
Spare == writes - Cardinality(UnderWay)
FitsIn(m, n) ==
  m.type = "append" => /\ Len(m.entries) = 1
                       /\ m.entries[1].index = m.prev_index + 1
                       /\ m.prev_index + 1 <= n
IndicesFit ==
  \A g \in Group : /\ \A r \in Replica : Len(smr[r][g].log) <= Spare
                   /\ \A m \in OnLinks(g) : FitsIn(m, Spare)

TypeInv ==
  /\ TypeOK
  /\ ServersTyped
  /\ LinksTyped
  /\ ClientsTyped
  /\ UnderWayNumbers
  /\ IndicesFit

-----------------------------------------------------------------------------
(* The groups and what depends on them *)

\* In a group in which at most the replica o took operations, Core holds.
GroupSound(g, o) ==
  /\ Core(SMRs(g), OnLinks(g), o, LogEntry(g))
  /\ Lacking(SMRs(g), OnLinks(g), o) = {}
GroupInv ==
  \A g \in Group, o \in Replica : Takers(g) \subseteq {o} => GroupSound(g, o)

\* The storage of an owner is what its committed entries leave behind.
StorageInv == StorageIsCommittedPrefix

\* The numbers of the writes: a number is on its way or in the log of one owner,
\* at one place, and no two clients sent the same.
RequestNumbers ==
  /\ \A c \in Writer : request[c] \in WriteRequest =>
       request[c].data <= writes /\ request[c].key_hash \in use.keys
  /\ \A c, d \in Writer :
       request[c] \in WriteRequest /\ request[d] \in WriteRequest
         /\ request[c].data = request[d].data => c = d
NumberAt(g, i) == OwnerLog(g)[i].data.data
LogNumbers ==
  /\ \A g \in Group : \A i \in DOMAIN OwnerLog(g) :
       NumberAt(g, i) <= writes /\ NumberAt(g, i) \notin UnderWay
  /\ \A g, h \in Group : \A i \in DOMAIN OwnerLog(g), j \in DOMAIN OwnerLog(h) :
       NumberAt(g, i) = NumberAt(h, j) => g = h /\ i = j
NumbersInv == RequestNumbers /\ (NoStrays => LogNumbers)

\* A slot of m_client_pendings names the client of the entry, if no other group
\* of the replica has an entry of that index.
Collides(g, i) ==
  \E h \in Group \ {g} : OwnerOf(h) = OwnerOf(g) /\ Len(OwnerLog(h)) >= i
Named(g, i) == pendings[OwnerOf(g)][i]
SlotsInv ==
  NoStrays =>
    /\ \A g \in Group : \A i \in DOMAIN OwnerLog(g) :
         /\ Named(g, i) \in Writer
         /\ Named(g, i) = OwnerLog(g)[i].data.client \/ Collides(g, i)
    /\ \A a \in answers :
         /\ a.group \in Group /\ a.replica = OwnerOf(a.group)
         /\ a.index \in DOMAIN OwnerLog(a.group)
         /\ a.client = OwnerLog(a.group)[a.index].data.client
              \/ Collides(a.group, a.index)

-----------------------------------------------------------------------------
(* The clients: where the one request of a client is *)

\* Entry i of group g is that of write w.
IsEntryOf(w, g, i) ==
  /\ g = CalcKeyPos(w.key_hash)
  /\ i \in DOMAIN OwnerLog(g)
  /\ OwnerLog(g)[i].data.key_hash = w.key_hash
  /\ OwnerLog(g)[i].data.data = w.data
Committed(w) ==
  \E g \in Group : \E i \in 1..OwnerCommit(g) : IsEntryOf(w, g, i)

\* An entry of client c waits to be committed.
Waits(c, g, i) ==
  /\ i \in DOMAIN OwnerLog(g) /\ i > OwnerCommit(g)
  /\ OwnerLog(g)[i].data.client = c

\* The value v of the key of write w is the one w wrote, or one written later.
NotOlder(v, w) ==
  \E g \in Group : \E j \in DOMAIN OwnerLog(g) : \E i \in 1..j :
    OwnerLog(g)[j].data.data = v /\ IsEntryOf(w, g, i)

NothingAsked(c) == \A r \in Replica : requests[c][r] = <<>>
NothingLogged(c) == \A g \in Group : \A i \in 1..MaxWrites : ~Waits(c, g, i)
NothingAnswered(c) == \A r \in Replica : replies[r][c] = <<>>

AtRest(c) == NothingAsked(c) /\ NothingLogged(c) /\ NothingAnswered(c)

AskedAt(c, r) ==
  /\ requests[c][r] = <<request[c]>>
  /\ \A s \in Replica \ {r} : requests[c][s] = <<>>
  /\ c \in Reader => r = OwnerOf(CalcKeyPos(request[c].key_hash))
Asked(c) ==
  /\ NothingLogged(c) /\ NothingAnswered(c) /\ status[c] # "idle"
  /\ \E r \in Replica : AskedAt(c, r)

LoggedAt(c, g, i) ==
  /\ Waits(c, g, i) /\ IsEntryOf(request[c], g, i)
  /\ \A h \in Group : \A j \in 1..MaxWrites : Waits(c, h, j) => h = g /\ j = i
Logged(c) ==
  /\ NothingAsked(c) /\ NothingAnswered(c) /\ status[c] # "idle"
  /\ \E g \in Group : \E i \in DOMAIN OwnerLog(g) : LoggedAt(c, g, i)

RightAnswer(c, m) ==
  m.type = "client_reply" =>
    /\ c \in Writer => Committed(request[c])
    /\ c \in Reader => \A w \in floor[c] : NotOlder(m.data, w)
AnsweredAt(c, r) ==
  /\ \E m : replies[r][c] = <<m>> /\ RightAnswer(c, m)
  /\ \A s \in Replica \ {r} : replies[s][c] = <<>>
Answered(c) ==
  /\ NothingAsked(c) /\ NothingLogged(c) /\ status[c] # "idle"
  /\ \E r \in Replica : AnsweredAt(c, r)

\* The request of a client is in one place: on its way, in a log, or answered.
Place(c) == AtRest(c) \/ Asked(c) \/ Logged(c) \/ Answered(c)
PlaceInv == \A c \in Client : Place(c)

\* Only the groups of the keys in use have entries.
LogsInUse ==
  \A g \in Group : OwnerLog(g) # <<>> => \E k \in use.keys : g = CalcKeyPos(k)

AckedInv == \A w \in acked : Committed(w)
ReadersInv ==
  \A c \in Reader :
    /\ \A w \in floor[c] : w.key_hash = request[c].key_hash
    /\ status[c] = "idle" => \A w \in floor[c] : NotOlder(got[c], w)

\* Somebody has ended whose write is not answered.
SomebodyLeft ==
  \E r \in aborted : \E c \in freed[r] :
    /\ c \in Writer /\ request[c] \in WriteRequest
    /\ NoSharedOwner => request[c] \notin acked
EndsInv == aborted # {} /\ NoStrays => SomebodyLeft

ClientsInv ==
  NoStrays /\ NoSharedOwner => LogsInUse /\ PlaceInv /\ AckedInv /\ ReadersInv
-----------------------------------------------------------------------------
(* Groups and links *)

\* Every group has an owner, as every key position is in one range.
LEMMA OwnerIsReplica == \A g \in Group : OwnerOf(g) \in Replica
BY ClusterAssumption, EveryPositionHasOneOwner DEF Group, OwnerOf

\* What the lemmas on the handlers ask of the entries of a group
LEMMA EntriesOfGroup ==
  ASSUME NEW g
  PROVE  EntrySet(LogEntry(g)) /\ IndexFree(LogEntry(g))
BY DEF LogEntry, AnyEntry, EntrySet, IndexFree, Epoch

\* The messages of a group on the links
LEMMA BodiesOnFacts ==
  ASSUME NEW L, NEW g, NEW m
  PROVE  m \in BodiesOn(L, g) <=>
           \E r, s \in Replica : \E i \in DOMAIN L[r][s] :
             L[r][s][i].group_id = g /\ L[r][s][i].body = m
<1> DEFINE P == UNION {UNION {{L[r][s][i] : i \in DOMAIN L[r][s]} :
                               s \in Replica} : r \in Replica}
<1>1. ASSUME m \in BodiesOn(L, g)
      PROVE  \E r, s \in Replica : \E i \in DOMAIN L[r][s] :
               L[r][s][i].group_id = g /\ L[r][s][i].body = m
  <2>1. PICK p \in P : p.group_id = g /\ p.body = m
    BY <1>1 DEF BodiesOn
  <2> QED BY <2>1
<1>2. ASSUME NEW r \in Replica, NEW s \in Replica, NEW i \in DOMAIN L[r][s],
             L[r][s][i].group_id = g, L[r][s][i].body = m
      PROVE  m \in BodiesOn(L, g)
  <2> DEFINE p == L[r][s][i]
  <2>1. p \in P
    OBVIOUS
  <2> HIDE DEF p
  <2>2. p.group_id = g /\ p.body = m
    BY <1>2 DEF p
  <2> QED BY <2>1, <2>2 DEF BodiesOn
<1> QED BY <1>1, <1>2

\* Packet p, on the link from a to b, was there before, or r has just put it
\* there: a message of out to b, for group g.
Came(p, a, b, r, g, out) ==
  \/ \E j \in DOMAIN links[a][b] : p = links[a][b][j]
  \/ a = r /\ \E m \in out : m.to = b /\ p = [group_id |-> g, body |-> m]
LinksFrom(r, g, out) ==
  \A a, b \in Replica : \A i \in DOMAIN links'[a][b] :
    Came(links'[a][b][i], a, b, r, g, out)

\* Every element of sequence q, if any, is one of sequence t.
Drawn(q, t) ==
  q \in Seq(Packet) /\ \A i \in DOMAIN q : \E j \in DOMAIN t : q[i] = t[j]

\* Appending to a sequence adds the one element.
LEMMA AppendElements ==
  ASSUME NEW T, NEW q \in Seq(T), NEW x \in T
  PROVE  /\ Append(q, x) \in Seq(T)
         /\ \A i \in DOMAIN Append(q, x) :
              Append(q, x)[i] = x
                \/ \E j \in DOMAIN q : Append(q, x)[i] = q[j]
OBVIOUS

\* The tail of a sequence has no other elements.
LEMMA TailElements ==
  ASSUME NEW T, NEW q \in Seq(T), q # <<>>
  PROVE  /\ Tail(q) \in Seq(T)
         /\ \A i \in DOMAIN Tail(q) : \E j \in DOMAIN q : Tail(q)[i] = q[j]
<1>1. Tail(q) \in Seq(T) /\ Len(q) \in Nat \ {0} /\ Len(Tail(q)) = Len(q) - 1
  BY EmptySeq
<1>2. \A i \in 1..(Len(q) - 1) : Tail(q)[i] = q[i + 1] /\ i + 1 \in 1..Len(q)
  BY <1>1
<1> QED BY <1>1, <1>2

\* out are messages of group g from replica r.
SentBy(out, r, g) == \A m \in out : m \in Body(g) /\ m.from = r

\* Each link of r holds, in new, what it held before or messages of out.
AddedTo(new, r, g, out) ==
  /\ DOMAIN new = Replica
  /\ \A b \in Replica :
       /\ new[b] \in Seq(Packet)
       /\ \A i \in DOMAIN new[b] : Came(new[b][i], r, b, r, g, out)

\* bcast_msgs adds messages to the links of r, which were queue before.
LEMMA OutgoingFacts ==
  ASSUME LinksTyped, NEW r \in Replica, NEW g \in Group, NEW out,
         SentBy(out, r, g),
         NEW queue, \A b \in Replica : Drawn(queue[b], links[r][b])
  PROVE  AddedTo(Outgoing(queue, g, out), r, g, out)
<1> DEFINE new == Outgoing(queue, g, out)
<1>1. DOMAIN new = Replica
  BY DEF Outgoing
<1> SUFFICES ASSUME NEW b \in Replica
             PROVE  /\ new[b] \in Seq(Packet)
                    /\ \A i \in DOMAIN new[b] : Came(new[b][i], r, b, r, g, out)
  BY <1>1 DEF AddedTo
<1>2. CASE {m \in out : m.to = b} = {}
  <2>1. new[b] = queue[b]
    BY <1>2 DEF Outgoing
  <2> HIDE DEF new
  <2> QED BY <2>1 DEF Drawn, Came
<1>3. CASE {m \in out : m.to = b} # {}
  <2> DEFINE n == CHOOSE m \in {m \in out : m.to = b} : TRUE
             p == [group_id |-> g, body |-> n]
  <2>1. n \in out /\ n.to = b
    BY <1>3
  <2>2. new[b] = Append(queue[b], p)
    BY <1>3 DEF Outgoing
  <2> HIDE DEF n, new
  <2>3. p \in Packet
    BY <2>1 DEF Packet, SentBy
  <2> HIDE DEF p
  <2>4. /\ new[b] \in Seq(Packet)
        /\ \A i \in DOMAIN new[b] :
             new[b][i] = p \/ \E j \in DOMAIN queue[b] : new[b][i] = queue[b][j]
    BY <2>2, <2>3, AppendElements DEF Drawn
  <2>5. ASSUME NEW i \in DOMAIN new[b]
        PROVE  Came(new[b][i], r, b, r, g, out)
    <3>1. CASE new[b][i] = p
      BY <2>1, <3>1 DEF p, Came
    <3>2. CASE \E j \in DOMAIN queue[b] : new[b][i] = queue[b][j]
      BY <3>2 DEF Drawn, Came
    <3> QED BY <2>4, <3>1, <3>2
  <2> QED BY <2>4, <2>5
<1> QED BY <1>2, <1>3

\* The types of the links follow from what is on them.
LEMMA LinksStayTyped ==
  ASSUME LinksTyped, NEW r \in Replica, NEW g \in Group, NEW out,
         SentBy(out, r, g),
         LinksFrom(r, g, out),
         DOMAIN links' = Replica,
         \A a \in Replica : DOMAIN links'[a] = Replica,
         \A a, b \in Replica : links'[a][b] \in Seq(Packet)
  PROVE  LinksTyped'
<1> SUFFICES ASSUME NEW a \in Replica, NEW b \in Replica,
                    NEW i \in DOMAIN links'[a][b]
             PROVE  PacketBetween(links'[a][b][i], a, b)
  BY DEF LinksTyped
<1> DEFINE p == links'[a][b][i]
<1> SUFFICES PacketBetween(p, a, b)
  OBVIOUS
<1>1. Came(p, a, b, r, g, out)
  BY DEF LinksFrom
<1> HIDE DEF p
<1>2. CASE \E j \in DOMAIN links[a][b] : p = links[a][b][j]
  BY <1>2 DEF LinksTyped
<1>3. CASE a = r /\ \E m \in out : m.to = b /\ p = [group_id |-> g, body |-> m]
  BY <1>3 DEF SentBy, PacketBetween
<1> QED BY <1>1, <1>2, <1>3 DEF Came

\* The links when those of r were replaced
LEMMA LinksOfReplica ==
  ASSUME LinksTyped, NEW r \in Replica, NEW g \in Group, NEW out,
         SentBy(out, r, g),
         NEW rest, DOMAIN rest = Replica,
         \A a \in Replica : DOMAIN rest[a] = Replica,
         \A a, b \in Replica : Drawn(rest[a][b], links[a][b]),
         DOMAIN links' = Replica, links'[r] = Outgoing(rest[r], g, out),
         \A a \in Replica \ {r} : links'[a] = rest[a]
  PROVE  LinksTyped' /\ LinksFrom(r, g, out)
<1> DEFINE queue == rest[r]
           new == Outgoing(queue, g, out)
<1>1. links'[r] = new
  OBVIOUS
<1>2. \A b \in Replica : Drawn(queue[b], links[r][b])
  OBVIOUS
<1> HIDE DEF queue
<1>3. AddedTo(new, r, g, out)
  BY <1>2, OutgoingFacts
<1> HIDE DEF new
<1>5. LinksFrom(r, g, out)
  <2> SUFFICES ASSUME NEW a \in Replica, NEW b \in Replica,
                      NEW i \in DOMAIN links'[a][b]
               PROVE  Came(links'[a][b][i], a, b, r, g, out)
    BY DEF LinksFrom
  <2>1. CASE a = r
    <3>1. links'[a][b] = new[b]
      BY <2>1, <1>1
    <3>2. i \in DOMAIN new[b]
      BY <3>1
    <3> QED BY <2>1, <3>1, <3>2, <1>3 DEF AddedTo
  <2>2. CASE a # r
    <3>1. links'[a][b] = rest[a][b]
      BY <2>2
    <3>2. Drawn(rest[a][b], links[a][b]) /\ i \in DOMAIN rest[a][b]
      BY <3>1
    <3>3. \E j \in DOMAIN links[a][b] : rest[a][b][i] = links[a][b][j]
      BY <3>2 DEF Drawn
    <3> QED BY <3>1, <3>3 DEF Came
  <2> QED BY <2>1, <2>2
<1>6. /\ DOMAIN links' = Replica
      /\ \A a \in Replica : DOMAIN links'[a] = Replica
      /\ \A a, b \in Replica : links'[a][b] \in Seq(Packet)
  BY <1>1, <1>3 DEF Drawn, AddedTo
<1> QED BY <1>5, <1>6, LinksStayTyped

\* What bcast_msgs does to the links
LEMMA BroadcastLinks ==
  ASSUME LinksTyped, NEW r \in Replica, NEW g \in Group, NEW out,
         SentBy(out, r, g), Broadcast(r, g, out)
  PROVE  LinksTyped' /\ LinksFrom(r, g, out)
<1>1. links' = [links EXCEPT ![r] = Outgoing(links[r], g, out)]
  BY DEF Broadcast
<1>3. \A a, b \in Replica : Drawn(links[a][b], links[a][b])
  BY DEF LinksTyped, Drawn
<1>2. /\ DOMAIN links = Replica /\ \A a \in Replica : DOMAIN links[a] = Replica
      /\ \A a, b \in Replica : links[a][b] \in Seq(Packet)
      /\ DOMAIN links' = Replica /\ links'[r] = Outgoing(links[r], g, out)
      /\ \A a \in Replica \ {r} : links'[a] = links[a]
  BY <1>1 DEF LinksTyped
<1> QED BY <1>2, <1>3, LinksOfReplica

\* The same for a handler of a message taken off a link
LEMMA ConsumeLinks ==
  ASSUME LinksTyped, NEW r \in Replica, NEW s \in Replica, NEW g \in Group,
         NEW out, SentBy(out, r, g),
         links[s][r] # <<>>, ConsumeAndBroadcast(s, r, g, out)
  PROVE  LinksTyped' /\ LinksFrom(r, g, out)
<1> DEFINE rest == [links EXCEPT ![s][r] = Tail(@)]
<1>1. links' = [rest EXCEPT ![r] = Outgoing(rest[r], g, out)]
  BY DEF ConsumeAndBroadcast
<1>2. /\ DOMAIN links = Replica /\ \A a \in Replica : DOMAIN links[a] = Replica
      /\ \A a, b \in Replica : links[a][b] \in Seq(Packet)
  BY DEF LinksTyped
<1>3. /\ DOMAIN rest = Replica /\ \A a \in Replica : DOMAIN rest[a] = Replica
      /\ rest[s][r] = Tail(links[s][r])
      /\ \A a, b \in Replica : a # s \/ b # r => rest[a][b] = links[a][b]
  BY <1>2
<1> HIDE DEF rest
<1>4. ASSUME NEW a \in Replica, NEW b \in Replica
      PROVE  Drawn(rest[a][b], links[a][b])
  <2>1. CASE a = s /\ b = r
    BY <2>1, <1>2, <1>3, TailElements DEF Drawn
  <2>2. CASE a # s \/ b # r
    BY <2>2, <1>2, <1>3 DEF Drawn
  <2> QED BY <2>1, <2>2
<1>5. /\ DOMAIN links' = Replica /\ links'[r] = Outgoing(rest[r], g, out)
      /\ \A a \in Replica \ {r} : links'[a] = rest[a]
  BY <1>1, <1>3
<1> QED BY <1>3, <1>4, <1>5, LinksOfReplica

\* What a handler call of r for group g does to the groups: result h
GroupStep(r, g, h) ==
  /\ SMRs(g)' = [SMRs(g) EXCEPT ![r] = h.smr]
  /\ OnLinks(g)' \subseteq OnLinks(g) \cup h.out
  /\ \A k \in Group \ {g} :
       SMRs(k)' = SMRs(k) /\ OnLinks(k)' \subseteq OnLinks(k)

\* A handler of r for group g changes the SMR object of that group at r only.
LEMMA GroupStepFacts ==
  ASSUME ServersTyped, NEW r \in Replica, NEW g \in Group, NEW h,
         smr' = [smr EXCEPT ![r][g] = h.smr], LinksFrom(r, g, h.out)
  PROVE  /\ GroupStep(r, g, h)
         /\ DOMAIN smr' = Replica /\ \A q \in Replica : DOMAIN smr'[q] = Group
         /\ smr'[r][g] = h.smr
         /\ \A q \in Replica, k \in Group :
              q # r \/ k # g => smr'[q][k] = smr[q][k]
<1>1. /\ DOMAIN smr = Replica /\ \A q \in Replica : DOMAIN smr[q] = Group
  BY DEF ServersTyped
<1>2. /\ DOMAIN smr' = Replica /\ \A q \in Replica : DOMAIN smr'[q] = Group
      /\ smr'[r][g] = h.smr
      /\ \A q \in Replica, k \in Group :
           q # r \/ k # g => smr'[q][k] = smr[q][k]
  BY <1>1
<1>3. SMRs(g)' = [SMRs(g) EXCEPT ![r] = h.smr]
  BY <1>2, ZenonT(60) DEF SMRs
<1>4. \A k \in Group \ {g} : SMRs(k)' = SMRs(k)
  BY <1>2 DEF SMRs
<1>5. ASSUME NEW k \in Group, NEW m, m \in OnLinks(k)'
      PROVE  m \in OnLinks(k) \/ (k = g /\ m \in h.out)
  <2>1. m \in BodiesOn(links', k)
    BY <1>5 DEF OnLinks
  <2>2. PICK a \in Replica, b \in Replica :
          \E i \in DOMAIN links'[a][b] :
            links'[a][b][i].group_id = k /\ links'[a][b][i].body = m
    BY <2>1, BodiesOnFacts
  <2>3. PICK i \in DOMAIN links'[a][b] :
          links'[a][b][i].group_id = k /\ links'[a][b][i].body = m
    BY <2>2
  <2> DEFINE p == links'[a][b][i]
  <2>4. p.group_id = k /\ p.body = m /\ Came(p, a, b, r, g, h.out)
    BY <2>3 DEF LinksFrom
  <2> HIDE DEF p
  <2>5. CASE \E j \in DOMAIN links[a][b] : p = links[a][b][j]
    BY <2>4, <2>5, BodiesOnFacts DEF OnLinks
  <2>6. CASE \E n \in h.out : p = [group_id |-> g, body |-> n]
    BY <2>4, <2>6
  <2> QED BY <2>4, <2>5, <2>6 DEF Came
<1> QED BY <1>2, <1>3, <1>4, <1>5 DEF GroupStep
-----------------------------------------------------------------------------
(* Handler calls *)

\* The parts of a group that has its types
LEMMA GroupParts ==
  ASSUME NEW g, GroupTyped(g), NEW r \in Replica
  PROVE  /\ smr[r][g] \in StateOf(LogEntry(g)) /\ WellFormed(smr[r][g].log)
         /\ CompleteHasQuorum(smr[r][g].votes)
         /\ smr[r][g].log \in Seq(LogEntry(g)) /\ Len(smr[r][g].log) \in Nat
         /\ SMRs(g)[r] = smr[r][g]
<1>1. SMRs(g)[r] = smr[r][g]
  BY DEF SMRs
<1>2. smr[r][g] \in StateOf(LogEntry(g)) /\ WellFormed(smr[r][g].log)
  BY <1>1 DEF GroupTyped, Typed, LogsWellFormed
<1>3. smr[r][g].log \in Seq(LogEntry(g))
  BY <1>2 DEF StateOf
<1> QED BY <1>1, <1>2, <1>3 DEF GroupTyped

\* What any handler call of r for group g gives, the log being n long then
HandlerResult(h, r, g, n) ==
  /\ h.smr \in StateOf(LogEntry(g)) /\ WellFormed(h.smr.log)
  /\ CompleteHasQuorum(h.smr.votes)
  /\ Len(h.smr.log) <= n
  /\ SentBy(h.out, r, g) /\ \A m \in h.out : FitsIn(m, n)

\* What a write makes of a typed group: one entry more, and one append message
\* to each peer.
LEMMA OperationGives ==
  ASSUME NEW g, GroupTyped(g), NEW r \in Replica, NEW op,
         NewEntry(smr[r][g].log, op, Epoch) \in LogEntry(g)
  PROVE  LET h == HandleOperation(smr[r][g], r, op, Epoch)
             n == Len(smr[r][g].log)
         IN /\ HandlerResult(h, r, g, n + 1)
            /\ h.smr.log = Append(smr[r][g].log,
                                  NewEntry(smr[r][g].log, op, Epoch))
            /\ h.smr.commit = smr[r][g].commit
            /\ LastIndex(h.smr.log) = n + 1
<1> DEFINE s == smr[r][g]
           n == Len(s.log)
           e == NewEntry(s.log, op, Epoch)
           h == HandleOperation(s, r, op, Epoch)
           E == LogEntry(g)
<1>1. /\ s \in StateOf(E) /\ WellFormed(s.log) /\ CompleteHasQuorum(s.votes)
      /\ s.log \in Seq(E) /\ n \in Nat /\ EntrySet(E) /\ e \in E
  BY GroupParts, EntriesOfGroup
<1> HIDE DEF s, E
<1>2. AcceptsOperation(h, s, r, op, Epoch, E)
  BY <1>1, OperationFacts
<1>3. e.index = n + 1
  BY DEF NewEntry
<1> HIDE DEF e
<1>4. /\ h.smr \in StateOf(E) /\ h.smr.log = Append(s.log, e)
      /\ h.smr.commit = s.commit
      /\ h.smr.votes = AfterVote(s.votes, r, n + 1)
      /\ h.out = {NewMessage(s, r, op, Epoch, p) : p \in Others(r)}
  BY <1>2 DEF AcceptsOperation, e
<1> HIDE DEF h
<1>5. CompleteHasQuorum(h.smr.votes)
  <2>1. s.votes \in VoteState
    BY <1>1 DEF StateOf
  <2> QED BY <1>1, <1>4, <2>1, VoteFacts
<1>6. /\ Len(h.smr.log) = n + 1 /\ WellFormed(h.smr.log)
      /\ LastIndex(h.smr.log) = n + 1
  <2>1. /\ h.smr.log \in Seq(E) /\ Len(h.smr.log) = n + 1
        /\ h.smr.log[n + 1] = e
        /\ \A i \in 1..n : h.smr.log[i] = s.log[i]
    BY <1>1, <1>4
  <2>2. WellFormed(h.smr.log)
    BY <1>1, <1>3, <2>1 DEF WellFormed
  <2> QED BY <2>1, <2>2, LastIndexIsLen
<1>7. ASSUME NEW m \in h.out
      PROVE  m \in Body(g) /\ m.from = r /\ FitsIn(m, n + 1)
  <2>1. PICK p \in Others(r) : m = NewMessage(s, r, op, Epoch, p)
    BY <1>4
  <2>2. /\ m.entries = <<e>> /\ m.prev_index = n /\ m.from = r
        /\ m.type = "append"
    BY <2>1 DEF NewMessage, e
  <2>3. m \in AppendOf(E)
    <3>1. EntryAt(s.log, n).epoch \in Nat
      BY <1>1, EpochNat
    <3>2. s.commit \in Nat
      BY <1>1 DEF StateOf
    <3> QED BY <1>1, <2>1, <3>1, <3>2 DEF NewMessage, AppendOf, Others, e
  <2> QED BY <1>3, <2>2, <2>3 DEF Body, FitsIn, E
<1>8. HandlerResult(h, r, g, n + 1)
  BY <1>1, <1>4, <1>5, <1>6, <1>7 DEF HandlerResult, SentBy, E
<1> QED BY <1>4, <1>6, <1>8 DEF h, s, e

\* What an append message makes of a typed group, true or not.
LEMMA AppendGives ==
  ASSUME NEW g, GroupTyped(g), NEW r \in Replica, NEW m \in AppendOf(LogEntry(g)),
         NEW n \in Int, Len(smr[r][g].log) <= n, FitsIn(m, n)
  PROVE  HandlerResult(HandleAppendEntries(smr[r][g], r, m), r, g, n)
<1> DEFINE s == smr[r][g]
           h == HandleAppendEntries(s, r, m)
           E == LogEntry(g)
<1>1. /\ s \in StateOf(E) /\ WellFormed(s.log) /\ CompleteHasQuorum(s.votes)
      /\ EntrySet(E) /\ IndexFree(E) /\ m.type = "append"
      /\ Len(m.entries) = 1 /\ m.entries[1].index = m.prev_index + 1
      /\ m.prev_index + 1 <= n /\ Len(s.log) <= n
  BY GroupParts, EntriesOfGroup DEF FitsIn, AppendOf
<1> HIDE DEF s, E
<1>2. /\ h.smr \in StateOf(E) /\ WellFormed(h.smr.log)
      /\ h.smr.votes = s.votes
      /\ \A k \in h.out : k \in Replies /\ k.from = r
  BY <1>1, AppendTyped DEF E
<1>3. Len(h.smr.log) = Len(s.log) \/ Len(h.smr.log) = m.prev_index + 1
  BY <1>1, AppendLength DEF E
<1> HIDE DEF h
<1>4. \A k \in h.out : k \in Body(g) /\ k.from = r /\ FitsIn(k, n)
  BY <1>2 DEF Body, Replies, FitsIn
<1>5. HandlerResult(h, r, g, n)
  BY <1>1, <1>2, <1>3, <1>4 DEF HandlerResult, SentBy, E
<1> QED BY <1>5 DEF h, s

\* What a reply makes of a typed group, true or not.
LEMMA ReplyGives ==
  ASSUME NEW g, GroupTyped(g), NEW r \in Replica, NEW m \in Replies,
         NEW n \in Int, Len(smr[r][g].log) <= n
  PROVE  LET h == HandleAppendEntriesReply(smr[r][g], r, m) IN
           /\ HandlerResult(h, r, g, n)
           /\ h.smr.log = smr[r][g].log /\ h.out = {}
           /\ h.abort = FALSE =>
                /\ h.apply \in Seq(LogEntry(g))
                /\ \A i \in DOMAIN h.apply :
                     h.apply[i].index \in 1..Len(smr[r][g].log)
<1> DEFINE s == smr[r][g]
           h == HandleAppendEntriesReply(s, r, m)
           E == LogEntry(g)
<1>1. /\ s \in StateOf(E) /\ WellFormed(s.log) /\ CompleteHasQuorum(s.votes)
      /\ Len(s.log) <= n
  BY GroupParts
<1> HIDE DEF s, E
<1>2. /\ h.smr \in StateOf(E) /\ h.smr.log = s.log
      /\ CompleteHasQuorum(h.smr.votes) /\ h.out = {}
      /\ h.abort = FALSE =>
           /\ h.apply \in Seq(E)
           /\ \A i \in DOMAIN h.apply : h.apply[i].index \in 1..Len(s.log)
  BY <1>1, ReplyTyped
<1> HIDE DEF h
<1>3. HandlerResult(h, r, g, n)
  BY <1>1, <1>2 DEF HandlerResult, SentBy, E
<1> QED BY <1>2, <1>3 DEF h, s, E

\* A handler call whose result has its types keeps the types of all groups, and
\* the bound on the logs and the messages.
LEMMA GroupStepTyped ==
  ASSUME ServersTyped, IndicesFit, NEW r \in Replica, NEW g \in Group, NEW h,
         smr' = [smr EXCEPT ![r][g] = h.smr], LinksFrom(r, g, h.out),
         HandlerResult(h, r, g, Spare'),
         Spare \in Int, Spare' \in Int, Spare <= Spare'
  PROVE  ServersTyped' /\ IndicesFit'
<1> DEFINE n == Spare
           k == Spare'
<1> HIDE DEF n, k
<1>1. /\ GroupStep(r, g, h)
      /\ DOMAIN smr' = Replica /\ \A q \in Replica : DOMAIN smr'[q] = Group
      /\ smr'[r][g] = h.smr
      /\ \A q \in Replica, j \in Group :
           q # r \/ j # g => smr'[q][j] = smr[q][j]
  BY GroupStepFacts, ZenonT(60)
<1>2. ASSUME NEW j \in Group, NEW q \in Replica
      PROVE  /\ smr'[q][j] \in StateOf(LogEntry(j))
             /\ WellFormed(smr'[q][j].log)
             /\ CompleteHasQuorum(smr'[q][j].votes)
             /\ Len(smr'[q][j].log) <= k
  <2>1. CASE q = r /\ j = g
    BY <2>1, <1>1 DEF HandlerResult, k
  <2>2. CASE q # r \/ j # g
    <3>1. smr'[q][j] = smr[q][j]
      BY <1>1, <2>2
    <3>2. /\ smr[q][j] \in StateOf(LogEntry(j)) /\ WellFormed(smr[q][j].log)
          /\ CompleteHasQuorum(smr[q][j].votes) /\ Len(smr[q][j].log) \in Nat
      BY GroupParts DEF ServersTyped
    <3>3. Len(smr[q][j].log) <= n
      BY DEF IndicesFit, n
    <3>4. n \in Int /\ k \in Int /\ n <= k
      BY DEF n, k
    <3> QED BY <3>1, <3>2, <3>3, <3>4
  <2> QED BY <2>1, <2>2
<1>3. ASSUME NEW j \in Group, NEW m \in OnLinks(j)'
      PROVE  m \in Body(j) /\ FitsIn(m, k)
  <2>1. CASE m \in OnLinks(j)
    <3>1. m \in AppendOf(LogEntry(j)) \cup Replies
      BY <2>1 DEF ServersTyped, GroupTyped, Typed
    <3>2. FitsIn(m, n)
      BY <2>1 DEF IndicesFit, n
    <3>3. n \in Int /\ k \in Int /\ n <= k
      BY DEF n, k
    <3>4. m.type = "append" => m.prev_index \in Nat
      BY <3>1 DEF AppendOf, Replies
    <3> QED BY <3>1, <3>2, <3>3, <3>4 DEF FitsIn, Body
  <2>2. CASE j = g /\ m \in h.out
    BY <2>2 DEF HandlerResult, SentBy, k
  <2> QED BY <1>1, <2>1, <2>2 DEF GroupStep
<1>4. ASSUME NEW j \in Group PROVE GroupTyped(j)'
  <2>1. SMRs(j)' \in [Replica -> StateOf(LogEntry(j))]
    BY <1>2 DEF SMRs
  <2>2. \A q \in Replica : SMRs(j)'[q] = smr'[q][j]
    BY DEF SMRs
  <2>3. LogsWellFormed(SMRs(j)')
    BY <1>2, <2>2 DEF LogsWellFormed
  <2>4. Typed(SMRs(j)', OnLinks(j)', LogEntry(j))
    BY <1>3, <2>1 DEF Typed, Body
  <2> QED BY <1>2, <2>3, <2>4 DEF GroupTyped
<1>5. IndicesFit'
  BY <1>2, <1>3 DEF IndicesFit, k
<1> QED BY <1>1, <1>4, <1>5 DEF ServersTyped

-----------------------------------------------------------------------------
(* The requests on their way *)

\* No request of a writer was added: those there are were there, perhaps k
\* places further back.
RequestsShrink ==
  \A c \in Writer, r \in Replica : \E k \in Nat : \A i \in DOMAIN requests'[c][r] :
    /\ i \in Nat /\ i + k \in DOMAIN requests[c][r]
    /\ requests'[c][r][i] = requests[c][r][i + k]

\* The first request from c at r was taken off.
TakesRequest(c, r) == requests' = [requests EXCEPT ![c][r] = Tail(@)]

\* What is left of a queue when its head is taken off
LEMMA TailFacts ==
  ASSUME NEW T, NEW q \in Seq(T), q # <<>>
  PROVE  /\ Head(q) \in T /\ 1 \in DOMAIN q /\ q[1] = Head(q)
         /\ Tail(q) \in Seq(T)
         /\ \A i \in DOMAIN Tail(q) : /\ i \in Nat \ {0} /\ i + 1 \in DOMAIN q
                                      /\ Tail(q)[i] = q[i + 1]
<1>1. Tail(q) \in Seq(T) /\ Len(q) \in Nat \ {0} /\ Len(Tail(q)) = Len(q) - 1
  BY EmptySeq
<1>2. \A i \in 1..(Len(q) - 1) : Tail(q)[i] = q[i + 1] /\ i + 1 \in 1..Len(q)
  BY <1>1
<1>3. Head(q) \in T /\ q[1] = Head(q)
  BY <1>1
<1> QED BY <1>1, <1>2, <1>3

\* What is left of the requests when the first one of c is taken at r
LEMMA TakenRequest ==
  ASSUME RequestsTyped, NEW c \in Client, NEW r \in Replica,
         requests[c][r] # <<>>, TakesRequest(c, r)
  PROVE  /\ Head(requests[c][r]) \in WriteRequest \cup ReadRequest
         /\ c \in Writer => Head(requests[c][r]) \in WriteRequest
         /\ c \in Reader => Head(requests[c][r]) \in ReadRequest
         /\ 1 \in DOMAIN requests[c][r]
         /\ requests[c][r][1] = Head(requests[c][r])
         /\ DOMAIN requests' = Client
         /\ \A d \in Client : DOMAIN requests'[d] = Replica
         /\ requests'[c][r] = Tail(requests[c][r])
         /\ \A d \in Client, s \in Replica :
              d # c \/ s # r => requests'[d][s] = requests[d][s]
         /\ \A d \in Writer, s \in Replica : requests'[d][s] \in Seq(WriteRequest)
         /\ \A d \in Reader, s \in Replica : requests'[d][s] \in Seq(ReadRequest)
         /\ \A i \in DOMAIN requests'[c][r] :
              /\ i \in Nat \ {0} /\ i + 1 \in DOMAIN requests[c][r]
              /\ requests'[c][r][i] = requests[c][r][i + 1]
<1>1. /\ DOMAIN requests = Client
      /\ \A d \in Client : DOMAIN requests[d] = Replica
      /\ \A d \in Writer, s \in Replica : requests[d][s] \in Seq(WriteRequest)
      /\ \A d \in Reader, s \in Replica : requests[d][s] \in Seq(ReadRequest)
  BY DEF RequestsTyped
<1>2. /\ DOMAIN requests' = Client
      /\ \A d \in Client : DOMAIN requests'[d] = Replica
      /\ requests'[c][r] = Tail(requests[c][r])
      /\ \A d \in Client, s \in Replica :
           d # c \/ s # r => requests'[d][s] = requests[d][s]
  BY <1>1 DEF TakesRequest
<1>3. /\ 1 \in DOMAIN requests[c][r]
      /\ requests[c][r][1] = Head(requests[c][r])
      /\ \A i \in DOMAIN Tail(requests[c][r]) :
           /\ i \in Nat \ {0} /\ i + 1 \in DOMAIN requests[c][r]
           /\ Tail(requests[c][r])[i] = requests[c][r][i + 1]
  BY <1>1, TailFacts DEF Client
<1>4. /\ c \in Writer => /\ Head(requests[c][r]) \in WriteRequest
                         /\ Tail(requests[c][r]) \in Seq(WriteRequest)
      /\ c \in Reader => /\ Head(requests[c][r]) \in ReadRequest
                         /\ Tail(requests[c][r]) \in Seq(ReadRequest)
  BY <1>1, TailFacts
<1>5. /\ \A d \in Writer, s \in Replica : requests'[d][s] \in Seq(WriteRequest)
      /\ \A d \in Reader, s \in Replica : requests'[d][s] \in Seq(ReadRequest)
  <2>1. ASSUME NEW d \in Writer, NEW s \in Replica
        PROVE  requests'[d][s] \in Seq(WriteRequest)
    BY <1>1, <1>2, <1>4 DEF Client
  <2>2. ASSUME NEW d \in Reader, NEW s \in Replica
        PROVE  requests'[d][s] \in Seq(ReadRequest)
    BY <1>1, <1>2, <1>4 DEF Client
  <2> QED BY <2>1, <2>2
<1> QED BY <1>2, <1>3, <1>4, <1>5 DEF Client

\* Taking a request off adds none, and its number is on its way no more.
LEMMA TakingShrinks ==
  ASSUME RequestsTyped, UnderWayNumbers, NEW c \in Client, NEW r \in Replica,
         requests[c][r] # <<>>, TakesRequest(c, r)
  PROVE  /\ RequestsShrink
         /\ c \in Writer =>
              /\ Head(requests[c][r]).data \in UnderWay
              /\ Head(requests[c][r]).data \notin UnderWay'
<1> DEFINE m == Head(requests[c][r])
<1>1. /\ c \in Writer => m \in WriteRequest
      /\ 1 \in DOMAIN requests[c][r] /\ requests[c][r][1] = m
      /\ \A d \in Client, s \in Replica :
           d # c \/ s # r => requests'[d][s] = requests[d][s]
      /\ \A i \in DOMAIN requests'[c][r] :
           /\ i \in Nat \ {0} /\ i + 1 \in DOMAIN requests[c][r]
           /\ requests'[c][r][i] = requests[c][r][i + 1]
  BY TakenRequest
<1> HIDE DEF m
<1>2. ASSUME NEW d \in Writer, NEW s \in Replica
      PROVE  \E k \in Nat : \A i \in DOMAIN requests'[d][s] :
               /\ i \in Nat /\ i + k \in DOMAIN requests[d][s]
               /\ requests'[d][s][i] = requests[d][s][i + k]
               /\ d = c /\ s = r => i + k # 1
  <2>1. CASE d = c /\ s = r
    BY <1>1, <2>1
  <2>2. CASE d # c \/ s # r
    <3>1. requests'[d][s] = requests[d][s] /\ requests[d][s] \in Seq(WriteRequest)
      BY <1>1, <2>2 DEF Client, RequestsTyped
    <3>2. \A i \in DOMAIN requests[d][s] : i \in Nat /\ i + 0 = i
      BY <3>1
    <3> QED BY <2>2, <3>1, <3>2
  <2> QED BY <2>1, <2>2
<1>3. RequestsShrink
  BY <1>2 DEF RequestsShrink
<1>4. ASSUME c \in Writer
      PROVE  m.data \in UnderWay /\ m.data \notin UnderWay'
  <2>1. m.data \in UnderWay
    BY <1>1, <1>4 DEF UnderWay, WriteRequest
  <2>2. ASSUME m.data \in UnderWay' PROVE FALSE
    <3>1. PICK d \in Writer, s \in Replica : \E i \in DOMAIN requests'[d][s] :
            requests'[d][s][i].data = m.data
      BY <2>2 DEF UnderWay
    <3>2. PICK i \in DOMAIN requests'[d][s] :
            requests'[d][s][i].data = m.data
      BY <3>1
    <3>3. PICK k \in Nat : /\ i + k \in DOMAIN requests[d][s]
                           /\ requests'[d][s][i] = requests[d][s][i + k]
                           /\ d = c /\ s = r => i + k # 1
      BY <1>2
    <3>4. requests[d][s][i + k].data = requests[c][r][1].data
      BY <1>1, <3>2, <3>3
    <3>5. d = c /\ s = r /\ i + k = 1
      BY <1>1, <1>4, <3>3, <3>4 DEF UnderWayNumbers
    <3> QED BY <3>3, <3>5
  <2> QED BY <2>1, <2>2
<1> QED BY <1>3, <1>4 DEF m

\* The numbers under way are finitely many.
LEMMA UnderWayFinite ==
  /\ IsFiniteSet(UnderWay) /\ Cardinality(UnderWay) \in Nat
  /\ writes \in Nat => Spare \in Int
<1>1. IsFiniteSet(1..MaxWrites)
  BY FS_Interval, UseAssumption
<1>2. IsFiniteSet(UnderWay)
  BY <1>1, FS_Subset DEF UnderWay
<1>3. Cardinality(UnderWay) \in Nat
  BY <1>2, FS_CardinalityType
<1> QED BY <1>2, <1>3 DEF Spare

\* When requests only disappear, no number comes under way.
LEMMA ShrinkFacts ==
  ASSUME RequestsTyped, UnderWayNumbers, RequestsShrink, writes' = writes,
         writes \in Nat
  PROVE  /\ UnderWayNumbers' /\ UnderWay' \subseteq UnderWay
         /\ Spare \in Int /\ Spare' \in Int /\ Spare <= Spare'
         /\ \A v \in UnderWay : v \notin UnderWay' => Spare + 1 <= Spare'
<1>1. UnderWay' \subseteq UnderWay
  <2> SUFFICES ASSUME NEW v \in UnderWay' PROVE v \in UnderWay
    OBVIOUS
  <2>1. v \in 1..MaxWrites
    BY DEF UnderWay
  <2>2. PICK c \in Writer, r \in Replica : \E i \in DOMAIN requests'[c][r] :
          requests'[c][r][i].data = v
    BY DEF UnderWay
  <2>3. PICK i \in DOMAIN requests'[c][r] : requests'[c][r][i].data = v
    BY <2>2
  <2>4. PICK k \in Nat : /\ i + k \in DOMAIN requests[c][r]
                         /\ requests'[c][r][i] = requests[c][r][i + k]
    BY DEF RequestsShrink
  <2> QED BY <2>1, <2>3, <2>4 DEF UnderWay
<1>2. UnderWayNumbers'
  <2>1. ASSUME NEW c \in Writer, NEW r \in Replica,
               NEW i \in DOMAIN requests'[c][r]
        PROVE  requests'[c][r][i].data <= writes
    <3>1. PICK k \in Nat : /\ i + k \in DOMAIN requests[c][r]
                           /\ requests'[c][r][i] = requests[c][r][i + k]
      BY DEF RequestsShrink
    <3> QED BY <3>1 DEF UnderWayNumbers
  <2>2. ASSUME NEW c \in Writer, NEW r \in Replica,
               NEW i \in DOMAIN requests'[c][r],
               NEW d \in Writer, NEW s \in Replica,
               NEW j \in DOMAIN requests'[d][s],
               requests'[c][r][i].data = requests'[d][s][j].data
        PROVE  c = d /\ r = s /\ i = j
    <3>1. PICK k \in Nat : \A a \in DOMAIN requests'[c][r] :
            /\ a \in Nat /\ a + k \in DOMAIN requests[c][r]
            /\ requests'[c][r][a] = requests[c][r][a + k]
      BY DEF RequestsShrink
    <3>2. PICK l \in Nat : \A a \in DOMAIN requests'[d][s] :
            /\ a \in Nat /\ a + l \in DOMAIN requests[d][s]
            /\ requests'[d][s][a] = requests[d][s][a + l]
      BY DEF RequestsShrink
    <3>3. c = d /\ r = s
      BY <2>2, <3>1, <3>2 DEF UnderWayNumbers
    <3>4. /\ i + k \in DOMAIN requests[c][r] /\ j + k \in DOMAIN requests[c][r]
          /\ requests[c][r][i + k].data = requests[c][r][j + k].data
      BY <2>2, <3>1, <3>3
    <3>5. i + k = j + k
      BY <3>4 DEF UnderWayNumbers
    <3>6. i \in Nat /\ j \in Nat
      BY <3>1, <3>2
    <3> QED BY <3>3, <3>5, <3>6
  <2> QED BY <2>1, <2>2 DEF UnderWayNumbers
<1>3. /\ IsFiniteSet(UnderWay) /\ Cardinality(UnderWay) \in Nat
      /\ IsFiniteSet(UnderWay') /\ Cardinality(UnderWay') \in Nat
  BY <1>1, UnderWayFinite, FS_Subset, FS_CardinalityType
<1>4. Cardinality(UnderWay') <= Cardinality(UnderWay)
  BY <1>1, <1>3, FS_Subset
<1>5. ASSUME NEW v \in UnderWay, v \notin UnderWay'
      PROVE  Cardinality(UnderWay') + 1 <= Cardinality(UnderWay)
  <2> DEFINE A == UnderWay'
             B == A \cup {v}
  <2>1. B \subseteq UnderWay
    BY <1>1
  <2> HIDE DEF A
  <2>2. IsFiniteSet(A) /\ v \notin A
    BY <1>3, <1>5 DEF A
  <2>3. IsFiniteSet(B) /\ Cardinality(B) = Cardinality(A) + 1
    BY <2>2, FS_AddElement
  <2> HIDE DEF B
  <2>4. Cardinality(B) <= Cardinality(UnderWay)
    BY <1>3, <2>1, FS_Subset
  <2> QED BY <2>3, <2>4 DEF A
<1>6. Spare = writes - Cardinality(UnderWay) /\ Spare' = writes - Cardinality(UnderWay')
  BY DEF Spare
<1> QED BY <1>1, <1>2, <1>3, <1>4, <1>5, <1>6

-----------------------------------------------------------------------------
(* What the actions of a server do *)

\* HandleWrite(r, c): the request, its group, the operation and the result
RequestAt(c, r) == Head(requests[c][r])
WriteGroup(c, r) == CalcKeyPos(RequestAt(c, r).key_hash)
WriteOp(c, r) == [key_hash |-> RequestAt(c, r).key_hash,
                  data |-> RequestAt(c, r).data, client |-> c]
WriteResult(c, r) ==
  HandleOperation(smr[r][WriteGroup(c, r)], r, WriteOp(c, r), Epoch)

WriteStep(c, r) ==
  /\ c \in Writer /\ RequestAt(c, r) \in WriteRequest
  /\ WriteGroup(c, r) \in Group
  /\ requests[c][r] # <<>> /\ TakesRequest(c, r)
  /\ r \notin aborted
  /\ smr' = [smr EXCEPT ![r][WriteGroup(c, r)] = WriteResult(c, r).smr]
  /\ pendings' =
       [pendings EXCEPT
          ![r][PendingSlot(LastIndex(WriteResult(c, r).smr.log))] = c]
  /\ Broadcast(r, WriteGroup(c, r), WriteResult(c, r).out)
  /\ taken' = taken \cup {<<r, WriteGroup(c, r)>>}
  /\ UNCHANGED <<use, storage, aborted, freed, replies, clientVars, answers>>

\* HandlePeerAppend(r, s): the packet and the result
PacketAt(r, s) == Head(links[s][r])
AppendResult(r, s) ==
  HandleAppendEntries(smr[r][PacketAt(r, s).group_id], r, PacketAt(r, s).body)

PacketStep(r, s, h) ==
  /\ smr' = [smr EXCEPT ![r][PacketAt(r, s).group_id] = h.smr]
  /\ ConsumeAndBroadcast(s, r, PacketAt(r, s).group_id, h.out)
  /\ UNCHANGED aborted
AbortStep(r) == aborted' = aborted \cup {r} /\ UNCHANGED <<smr, links>>

AppendStep(r, s) ==
  /\ r \notin aborted /\ links[s][r] # <<>>
  /\ PacketAt(r, s).group_id \in Group
  /\ PacketAt(r, s).body \in AppendOf(LogEntry(PacketAt(r, s).group_id))
  /\ PacketAt(r, s).body \in OnLinks(PacketAt(r, s).group_id)
  /\ PacketAt(r, s).body.to = r
  /\ \/ AppendResult(r, s).abort = TRUE /\ AbortStep(r)
     \/ AppendResult(r, s).abort = FALSE /\ PacketStep(r, s, AppendResult(r, s))
  /\ UNCHANGED <<use, storage, pendings, freed, taken, requests, replies,
                 clientVars, answers>>

\* HandlePeerReply(r, s): the result
ReplyResult(r, s) ==
  HandleAppendEntriesReply(smr[r][PacketAt(r, s).group_id], r,
                           PacketAt(r, s).body)

ReplyStep(r, s) ==
  /\ r \notin aborted /\ links[s][r] # <<>>
  /\ PacketAt(r, s).group_id \in Group
  /\ PacketAt(r, s).body \in Replies
  /\ PacketAt(r, s).body \in OnLinks(PacketAt(r, s).group_id)
  /\ PacketAt(r, s).body.to = r
  /\ \/ /\ \/ ReplyResult(r, s).abort = TRUE
           \/ EmptySlot(r, ReplyResult(r, s).apply)
           \/ FreedSlot(r, ReplyResult(r, s).apply)
        /\ AbortStep(r)
        /\ UNCHANGED <<storage, replies, answers>>
     \/ /\ ReplyResult(r, s).abort = FALSE
        /\ ~EmptySlot(r, ReplyResult(r, s).apply)
        /\ PacketStep(r, s, ReplyResult(r, s))
        /\ Apply(r, PacketAt(r, s).group_id, ReplyResult(r, s).apply)
  /\ UNCHANGED <<use, pendings, freed, taken, requests, clientVars>>

\* HandleWrite is a WriteStep: there is one result of the handler.
LEMMA WriteStepFacts ==
  ASSUME TypeInv, NEW r \in Replica, NEW c \in Client, HandleWrite(r, c)
  PROVE  WriteStep(c, r)
<1>1. /\ RequestAt(c, r).epoch = Epoch /\ RequestAt(c, r).op_type = "write"
      /\ r \notin aborted /\ requests[c][r] # <<>> /\ TakesRequest(c, r)
      /\ taken' = taken \cup {<<r, WriteGroup(c, r)>>}
      /\ UNCHANGED <<use, storage, aborted, freed, replies, clientVars, answers>>
  BY Zenon DEF HandleWrite, RequestAt, WriteGroup, TakesRequest
<1>2. \E h \in {HandleOperation(smr[r][WriteGroup(c, r)], r, WriteOp(c, r),
                                RequestAt(c, r).epoch)} :
        /\ smr' = [smr EXCEPT ![r][WriteGroup(c, r)] = h.smr]
        /\ pendings' = [pendings EXCEPT ![r][PendingSlot(LastIndex(h.smr.log))] = c]
        /\ Broadcast(r, WriteGroup(c, r), h.out)
  BY Zenon DEF HandleWrite, RequestAt, WriteGroup, WriteOp
<1>3. /\ smr' = [smr EXCEPT ![r][WriteGroup(c, r)] = WriteResult(c, r).smr]
      /\ pendings' =
           [pendings EXCEPT
              ![r][PendingSlot(LastIndex(WriteResult(c, r).smr.log))] = c]
      /\ Broadcast(r, WriteGroup(c, r), WriteResult(c, r).out)
  BY <1>1, <1>2 DEF WriteResult
<1>4. c \in Writer /\ RequestAt(c, r) \in WriteRequest
  <2>1. /\ c \in Writer => RequestAt(c, r) \in WriteRequest
        /\ c \in Reader => RequestAt(c, r) \in ReadRequest
    BY <1>1, TakenRequest DEF TypeInv, ClientsTyped, RequestAt
  <2> QED BY <2>1, <1>1 DEF Client, ReadRequest
<1>5. WriteGroup(c, r) \in Group
  BY <1>4 DEF WriteRequest, WriteGroup, Group
<1> QED BY <1>1, <1>3, <1>4, <1>5, Zenon DEF WriteStep

\* The packet at the head of a link
LEMMA PacketFacts ==
  ASSUME LinksTyped, NEW r \in Replica, NEW s \in Replica, links[s][r] # <<>>
  PROVE  LET p == PacketAt(r, s) IN
           /\ p.group_id \in Group
           /\ p.body \in Body(p.group_id) /\ p.body \in OnLinks(p.group_id)
           /\ p.body.to = r
<1> DEFINE p == PacketAt(r, s)
<1>1. links[s][r] \in Seq(Packet)
  BY DEF LinksTyped
<1>2. p \in Packet /\ 1 \in DOMAIN links[s][r] /\ links[s][r][1] = p
  BY <1>1, TailFacts DEF PacketAt
<1> HIDE DEF p
<1>3. PacketBetween(p, s, r)
  BY <1>2 DEF LinksTyped
<1>4. p.body \in OnLinks(p.group_id)
  BY <1>2, BodiesOnFacts DEF OnLinks
<1>5. p.group_id \in Group
  BY <1>2 DEF Packet
<1> QED BY <1>3, <1>4, <1>5 DEF PacketBetween, p

\* The handlers for messages of peers say whether they abort.
LEMMA AbortIsBoolean ==
  ASSUME NEW t, NEW r, NEW m
  PROVE  /\ HandleAppendEntries(t, r, m).abort \in BOOLEAN
         /\ HandleAppendEntriesReply(t, r, m).abort \in BOOLEAN
BY DEF HandleAppendEntries, HandleAppendEntriesReply

\* HandlePeerAppend is an AppendStep.
LEMMA AppendStepFacts ==
  ASSUME TypeInv, NEW r \in Replica, NEW s \in Replica, HandlePeerAppend(r, s)
  PROVE  AppendStep(r, s)
<1> DEFINE p == PacketAt(r, s)
           h == AppendResult(r, s)
<1>1. /\ r \notin aborted /\ links[s][r] # <<>> /\ p.body.type = "append"
      /\ UNCHANGED <<use, storage, pendings, freed, taken, requests, replies,
                     clientVars, answers>>
  BY Zenon DEF HandlePeerAppend, PacketAt
<1>2. IF h.abort THEN AbortStep(r) ELSE PacketStep(r, s, h)
  BY Zenon DEF HandlePeerAppend, PacketAt, AppendResult, AbortStep, PacketStep
<1>3. h.abort \in BOOLEAN
  BY AbortIsBoolean DEF AppendResult
<1>4. /\ p.group_id \in Group
      /\ p.body \in Body(p.group_id) /\ p.body \in OnLinks(p.group_id)
      /\ p.body.to = r
  BY <1>1, PacketFacts DEF TypeInv
<1>5. p.body \in AppendOf(LogEntry(p.group_id))
  BY <1>1, <1>4 DEF Body, Replies
<1> HIDE DEF p, h
<1>6. \/ h.abort = TRUE /\ AbortStep(r)
      \/ h.abort = FALSE /\ PacketStep(r, s, h)
  BY <1>2, <1>3
<1> QED BY <1>1, <1>4, <1>5, <1>6, Zenon DEF AppendStep, p, h

\* HandlePeerReply is a ReplyStep.
LEMMA ReplyStepFacts ==
  ASSUME TypeInv, NEW r \in Replica, NEW s \in Replica, HandlePeerReply(r, s)
  PROVE  ReplyStep(r, s)
<1> DEFINE p == PacketAt(r, s)
           h == ReplyResult(r, s)
<1>1. /\ r \notin aborted /\ links[s][r] # <<>> /\ p.body.type = "append_reply"
      /\ UNCHANGED <<use, pendings, freed, taken, requests, clientVars>>
  BY Zenon DEF HandlePeerReply, PacketAt
<1>2. \/ /\ h.abort \/ EmptySlot(r, h.apply) \/ FreedSlot(r, h.apply)
         /\ aborted' = aborted \cup {r}
         /\ UNCHANGED <<smr, links, storage, replies, answers>>
      \/ /\ ~h.abort /\ ~EmptySlot(r, h.apply)
         /\ smr' = [smr EXCEPT ![r][p.group_id] = h.smr]
         /\ ConsumeAndBroadcast(s, r, p.group_id, h.out)
         /\ Apply(r, p.group_id, h.apply)
         /\ UNCHANGED aborted
  BY Zenon DEF HandlePeerReply, PacketAt, ReplyResult
<1>3. h.abort \in BOOLEAN
  BY AbortIsBoolean DEF ReplyResult
<1>4. /\ p.group_id \in Group
      /\ p.body \in Body(p.group_id) /\ p.body \in OnLinks(p.group_id)
      /\ p.body.to = r
  BY <1>1, PacketFacts DEF TypeInv
<1>5. p.body \in Replies
  BY <1>1, <1>4 DEF Body, AppendOf
<1> HIDE DEF h
<1>6. \/ /\ h.abort = TRUE \/ EmptySlot(r, h.apply) \/ FreedSlot(r, h.apply)
         /\ AbortStep(r)
         /\ UNCHANGED <<storage, replies, answers>>
      \/ /\ h.abort = FALSE /\ ~EmptySlot(r, h.apply)
         /\ PacketStep(r, s, h)
         /\ Apply(r, p.group_id, h.apply)
  BY <1>2, <1>3 DEF AbortStep, PacketStep
<1> HIDE DEF p
<1> QED BY <1>1, <1>4, <1>5, <1>6, Zenon DEF ReplyStep, p, h

-----------------------------------------------------------------------------
(* The types of the servers, and the bound on the logs *)

\* What fits below n fits below more.
LEMMA FitsInMore ==
  ASSUME NEW h, NEW r, NEW g, NEW n \in Int, NEW k \in Int, n <= k,
         HandlerResult(h, r, g, n)
  PROVE  HandlerResult(h, r, g, k)
<1>1. h.smr \in StateOf(LogEntry(g)) /\ Len(h.smr.log) <= n
  BY DEF HandlerResult
<1>2. Len(h.smr.log) \in Nat
  BY <1>1 DEF StateOf
<1>3. ASSUME NEW m \in h.out PROVE FitsIn(m, k)
  <2>1. m \in Body(g) /\ FitsIn(m, n)
    BY DEF HandlerResult, SentBy
  <2>2. m.type = "append" => m.prev_index \in Nat
    BY <2>1 DEF Body, AppendOf, Replies
  <2> QED BY <2>1, <2>2 DEF FitsIn
<1> QED BY <1>1, <1>2, <1>3 DEF HandlerResult

\* A server that handles nothing
LEMMA ServersRest ==
  ASSUME ServersTyped, LinksTyped, IndicesFit, UNCHANGED <<smr, links>>,
         Spare \in Int, Spare' \in Int, Spare <= Spare'
  PROVE  ServersTyped' /\ LinksTyped' /\ IndicesFit'
<1> DEFINE n == Spare
           k == Spare'
<1> HIDE DEF n, k
<1>1. n \in Int /\ k \in Int /\ n <= k
  BY DEF n, k
<1>2. \A g \in Group : SMRs(g)' = SMRs(g) /\ OnLinks(g)' = OnLinks(g)
  BY DEF SMRs, OnLinks, BodiesOn
<1>3. ServersTyped'
  BY <1>2 DEF ServersTyped, GroupTyped
<1>4. LinksTyped'
  BY DEF LinksTyped
<1>5. ASSUME NEW g \in Group
      PROVE  /\ \A r \in Replica : Len(smr[r][g].log) <= k
             /\ \A m \in OnLinks(g) : FitsIn(m, k)
  <2>1. \A r \in Replica : Len(smr[r][g].log) \in Nat
    BY GroupParts DEF ServersTyped
  <2>2. \A m \in OnLinks(g) : m.type = "append" => m.prev_index \in Nat
    BY DEF ServersTyped, GroupTyped, Typed, AppendOf, Replies
  <2> QED BY <1>1, <2>1, <2>2 DEF IndicesFit, FitsIn, n
<1> QED BY <1>2, <1>3, <1>4, <1>5 DEF IndicesFit, k

\* A packet that is handled without an abort
LEMMA PacketMoves ==
  ASSUME TypeInv, NEW r \in Replica, NEW s \in Replica, NEW h, NEW g,
         g = PacketAt(r, s).group_id, links[s][r] # <<>>, PacketStep(r, s, h),
         HandlerResult(h, r, g, Spare), UNCHANGED <<requests, writes>>
  PROVE  /\ ServersTyped' /\ LinksTyped' /\ IndicesFit'
         /\ GroupStep(r, g, h)
<1>1. g \in Group
  BY PacketFacts DEF TypeInv
<1>2. smr' = [smr EXCEPT ![r][g] = h.smr] /\ ConsumeAndBroadcast(s, r, g, h.out)
  BY DEF PacketStep
<1>3. SentBy(h.out, r, g)
  BY DEF HandlerResult
<1>4. LinksTyped' /\ LinksFrom(r, g, h.out)
  BY <1>1, <1>2, <1>3, ConsumeLinks DEF TypeInv
<1>5. Spare' = Spare /\ Spare \in Int
  <2>1. UnderWay' = UnderWay
    BY DEF UnderWay
  <2>2. writes \in Nat
    BY UseAssumption DEF TypeInv, TypeOK, Use, ClientsTyped, RequestsTyped
  <2> QED BY <2>1, <2>2, UnderWayFinite DEF Spare
<1>6. ServersTyped' /\ IndicesFit' /\ GroupStep(r, g, h)
  <2>1. ServersTyped /\ IndicesFit /\ Spare' \in Int /\ Spare <= Spare'
    BY <1>5 DEF TypeInv
  <2>2. HandlerResult(h, r, g, Spare')
    BY <1>5
  <2> QED BY <1>1, <1>2, <1>4, <1>5, <2>1, <2>2, GroupStepTyped, GroupStepFacts
<1> QED BY <1>4, <1>6

\* The number of writes is bounded by MaxWrites.
LEMMA WritesNat == TypeInv => writes \in Nat /\ writes <= MaxWrites
BY UseAssumption DEF TypeInv, TypeOK, Use, ClientsTyped, RequestsTyped

\* The result of the handler has its types.
LEMMA AppendStepGives ==
  ASSUME TypeInv, NEW r \in Replica, NEW s \in Replica, AppendStep(r, s)
  PROVE  HandlerResult(AppendResult(r, s), r, PacketAt(r, s).group_id, Spare)
<1> DEFINE g == PacketAt(r, s).group_id
           m == PacketAt(r, s).body
<1>1. g \in Group /\ m \in AppendOf(LogEntry(g)) /\ m \in OnLinks(g)
  BY DEF AppendStep
<1>2. GroupTyped(g) /\ Len(smr[r][g].log) <= Spare /\ FitsIn(m, Spare)
  BY <1>1 DEF TypeInv, ServersTyped, IndicesFit
<1>3. Spare \in Int
  BY WritesNat, UnderWayFinite
<1> HIDE DEF g, m
<1>4. HandlerResult(HandleAppendEntries(smr[r][g], r, m), r, g, Spare)
  BY <1>1, <1>2, <1>3, AppendGives
<1> QED BY <1>4 DEF AppendResult, g, m

\* The handler's result in a ReplyStep
LEMMA ReplyStepGives ==
  ASSUME TypeInv, NEW r \in Replica, NEW s \in Replica, ReplyStep(r, s)
  PROVE  LET g == PacketAt(r, s).group_id
             h == ReplyResult(r, s)
         IN /\ HandlerResult(h, r, g, Spare)
            /\ h.smr.log = smr[r][g].log /\ h.out = {}
            /\ h.abort = FALSE =>
                 /\ h.apply \in Seq(LogEntry(g))
                 /\ \A i \in DOMAIN h.apply :
                      h.apply[i].index \in 1..Len(smr[r][g].log)
<1> DEFINE g == PacketAt(r, s).group_id
           m == PacketAt(r, s).body
<1>1. g \in Group /\ m \in Replies /\ m \in OnLinks(g)
  BY DEF ReplyStep
<1>2. GroupTyped(g) /\ Len(smr[r][g].log) <= Spare
  BY <1>1 DEF TypeInv, ServersTyped, IndicesFit
<1>3. Spare \in Int
  BY WritesNat, UnderWayFinite
<1> HIDE DEF g, m
<1> DEFINE h == HandleAppendEntriesReply(smr[r][g], r, m)
<1>4. /\ HandlerResult(h, r, g, Spare)
      /\ h.smr.log = smr[r][g].log /\ h.out = {}
      /\ h.abort = FALSE =>
           /\ h.apply \in Seq(LogEntry(g))
           /\ \A i \in DOMAIN h.apply : h.apply[i].index \in 1..Len(smr[r][g].log)
  BY <1>1, <1>2, <1>3, ReplyGives
<1>5. h = ReplyResult(r, s)
  BY DEF ReplyResult, g, m
<1> HIDE DEF h
<1> QED BY <1>4, <1>5 DEF g

\* What a write of group g does to the servers, with result h
WriteMoved(c, r, g, h) ==
  LET e == NewEntry(smr[r][g].log, WriteOp(c, r), Epoch)
  IN /\ GroupStep(r, g, h)
     /\ h.smr.log = Append(smr[r][g].log, e) /\ e \in LogEntry(g)
     /\ h.smr.commit = smr[r][g].commit
     /\ LastIndex(h.smr.log) = Len(smr[r][g].log) + 1
     /\ Len(smr[r][g].log) + 1 \in 1..MaxWrites

\* A write changes the group of its key and leaves one number less under way.
LEMMA WriteMoves ==
  ASSUME TypeInv, NEW r \in Replica, NEW c \in Client, WriteStep(c, r),
         NEW g, NEW h, g = WriteGroup(c, r), h = WriteResult(c, r)
  PROVE  /\ ServersTyped' /\ LinksTyped' /\ IndicesFit' /\ UnderWayNumbers'
         /\ WriteMoved(c, r, g, h)
<1> DEFINE op == WriteOp(c, r)
           n == Len(smr[r][g].log)
           e == NewEntry(smr[r][g].log, op, Epoch)
<1>1. /\ c \in Writer /\ RequestAt(c, r) \in WriteRequest /\ g \in Group
      /\ requests[c][r] # <<>> /\ TakesRequest(c, r)
      /\ smr' = [smr EXCEPT ![r][g] = h.smr]
      /\ Broadcast(r, g, h.out)
      /\ writes' = writes
  BY DEF WriteStep, clientVars
<1>2. g = CalcKeyPos(op.key_hash) /\ op \in [key_hash : Key, data : 1..MaxWrites,
                                            client : Writer]
  BY <1>1 DEF WriteGroup, WriteOp, WriteRequest
<1>3. GroupTyped(g)
  BY <1>1 DEF TypeInv, ServersTyped
<1>4. n \in Nat
  BY <1>1, <1>3, GroupParts
<1>7. h = HandleOperation(smr[r][g], r, op, Epoch)
  BY DEF WriteResult
<1> HIDE DEF op
<1>5. e \in LogEntry(g)
  BY <1>2, <1>4 DEF NewEntry, LogEntry, AnyEntry
<1>6. /\ HandlerResult(h, r, g, n + 1)
      /\ h.smr.log = Append(smr[r][g].log, e)
      /\ h.smr.commit = smr[r][g].commit
      /\ LastIndex(h.smr.log) = n + 1
  BY <1>1, <1>3, <1>5, <1>7, OperationGives
<1>9. LinksTyped' /\ LinksFrom(r, g, h.out)
  <2>1. SentBy(h.out, r, g) /\ LinksTyped
    BY <1>6 DEF HandlerResult, TypeInv
  <2> QED BY <1>1, <2>1, BroadcastLinks
<1>10. /\ UnderWayNumbers' /\ Spare \in Int /\ Spare' \in Int
       /\ Spare + 1 <= Spare'
  <2>1. RequestsTyped /\ UnderWayNumbers /\ writes \in Nat
    BY WritesNat DEF TypeInv, ClientsTyped
  <2>2. /\ RequestsShrink
        /\ Head(requests[c][r]).data \in UnderWay
        /\ Head(requests[c][r]).data \notin UnderWay'
    BY <1>1, <2>1, TakingShrinks
  <2> QED BY <1>1, <2>1, <2>2, ShrinkFacts
<1>11. n <= Spare
  BY <1>1 DEF TypeInv, IndicesFit
<1>12. HandlerResult(h, r, g, Spare')
  <2>1. n + 1 \in Int /\ n + 1 <= Spare'
    BY <1>4, <1>10, <1>11
  <2> QED BY <1>6, <1>10, <2>1, FitsInMore
<1>13. ServersTyped' /\ IndicesFit' /\ GroupStep(r, g, h)
  <2>1. ServersTyped /\ IndicesFit /\ Spare <= Spare'
    BY <1>10 DEF TypeInv
  <2> QED BY <1>1, <1>9, <1>10, <1>12, <2>1, GroupStepTyped, GroupStepFacts
<1>14. n + 1 \in 1..MaxWrites
  <2>1. Spare' = writes - Cardinality(UnderWay')
    BY <1>1 DEF Spare
  <2>2. Cardinality(UnderWay') \in Nat
    <3>1. UnderWay' \subseteq 1..MaxWrites /\ IsFiniteSet(1..MaxWrites)
      BY FS_Interval, UseAssumption DEF UnderWay
    <3> QED BY <3>1, FS_Subset, FS_CardinalityType
  <2>3. writes \in Nat /\ writes <= MaxWrites /\ MaxWrites \in Nat
    BY WritesNat, UseAssumption
  <2> QED BY <1>4, <1>10, <1>11, <2>1, <2>2, <2>3
<1>15. WriteMoved(c, r, g, h)
  BY <1>5, <1>6, <1>13, <1>14 DEF WriteMoved, op
<1> QED BY <1>9, <1>10, <1>13, <1>15

-----------------------------------------------------------------------------
(* The types of everything else *)

\* TypeOK without the links
OtherTypes ==
  /\ use \in Uses
  /\ storage \in [Replica -> [Key -> 0..MaxWrites]]
  /\ pendings \in [Replica -> [1..MaxWrites -> Client \cup {NoClient}]]
  /\ status \in [Client -> {"idle", "writing", "reading", "gone"}]
  /\ got \in [Reader -> 0..MaxWrites]
  /\ aborted \subseteq Replica
  /\ freed \in [Replica -> SUBSET Client]
  /\ taken \subseteq Replica \X Group

\* The conjuncts of TypeInv, and what they say of the bounds
LEMMA TypeParts ==
  ASSUME TypeInv
  PROVE  /\ OtherTypes /\ ServersTyped /\ LinksTyped
         /\ RequestsTyped /\ AskersTyped /\ RepliesTyped /\ SlotsTyped
         /\ HistoryTyped /\ UnderWayNumbers /\ IndicesFit
         /\ writes \in Nat /\ writes <= MaxWrites /\ MaxWrites \in Nat
         /\ use.writes \in 0..MaxWrites /\ use.keys \subseteq Key
         /\ use.epochs \subseteq Nat
BY WritesNat, UseAssumption
   DEF TypeInv, TypeOK, OtherTypes, ClientsTyped, Use

\* Enough for TypeInv in the next state, part by part
LEMMA TypeInvNext ==
  ASSUME OtherTypes', ServersTyped', LinksTyped', RequestsTyped', AskersTyped',
         RepliesTyped', SlotsTyped', HistoryTyped', UnderWayNumbers', IndicesFit'
  PROVE  TypeInv'
<1>1. \A r, s \in Replica : \A i \in DOMAIN links'[r][s] :
        /\ links'[r][s][i].group_id \in Group
        /\ links'[r][s][i].body.from = r /\ links'[r][s][i].body.to = s
  <2> SUFFICES ASSUME NEW r \in Replica, NEW s \in Replica,
                      NEW i \in DOMAIN links'[r][s]
               PROVE  /\ links'[r][s][i].group_id \in Group
                      /\ links'[r][s][i].body.from = r
                      /\ links'[r][s][i].body.to = s
    OBVIOUS
  <2>1. links'[r][s] \in Seq(Packet) /\ PacketBetween(links'[r][s][i], r, s)
    BY DEF LinksTyped
  <2>2. links'[r][s][i] \in Packet
    BY <2>1
  <2> QED BY <2>1, <2>2 DEF PacketBetween, Packet
<1>2. TypeOK'
  BY <1>1 DEF OtherTypes, TypeOK
<1> QED BY <1>2 DEF TypeInv, ClientsTyped

\* What a client sends goes to the end of its queue.
LEMMA AppendFar ==
  ASSUME NEW T, NEW q \in Seq(T), NEW x \in T
  PROVE  /\ Append(q, x) \in Seq(T) /\ Len(q) + 1 \in DOMAIN Append(q, x)
         /\ Append(q, x)[Len(q) + 1] = x
         /\ \A i \in DOMAIN Append(q, x) :
              i = Len(q) + 1 \/ (i \in DOMAIN q /\ Append(q, x)[i] = q[i])
<1>1. /\ Append(q, x) \in Seq(T) /\ Len(q) \in Nat
      /\ Len(Append(q, x)) = Len(q) + 1 /\ Append(q, x)[Len(q) + 1] = x
      /\ \A i \in 1..Len(q) : Append(q, x)[i] = q[i]
      /\ DOMAIN Append(q, x) = 1..(Len(q) + 1) /\ DOMAIN q = 1..Len(q)
  OBVIOUS
<1>2. \A i \in 1..(Len(q) + 1) : i = Len(q) + 1 \/ i \in 1..Len(q)
  BY <1>1
<1>3. Len(q) + 1 \in 1..(Len(q) + 1)
  BY <1>1
<1> QED BY <1>1, <1>2, <1>3

SendsRequest(c, r, m) == requests' = [requests EXCEPT ![c][r] = Append(@, m)]

\* The requests when c sends m to r
LEMMA SentRequest ==
  ASSUME RequestsTyped, NEW c \in Client, NEW r \in Replica, NEW m,
         c \in Writer => m \in WriteRequest, c \in Reader => m \in ReadRequest,
         SendsRequest(c, r, m)
  PROVE  /\ DOMAIN requests' = Client
         /\ \A d \in Client : DOMAIN requests'[d] = Replica
         /\ requests'[c][r] = Append(requests[c][r], m)
         /\ \A d \in Client, s \in Replica :
              d # c \/ s # r => requests'[d][s] = requests[d][s]
         /\ \A d \in Writer, s \in Replica : requests'[d][s] \in Seq(WriteRequest)
         /\ \A d \in Reader, s \in Replica : requests'[d][s] \in Seq(ReadRequest)
<1>1. /\ DOMAIN requests = Client
      /\ \A d \in Client : DOMAIN requests[d] = Replica
      /\ \A d \in Writer, s \in Replica : requests[d][s] \in Seq(WriteRequest)
      /\ \A d \in Reader, s \in Replica : requests[d][s] \in Seq(ReadRequest)
  BY DEF RequestsTyped
<1>2. /\ DOMAIN requests' = Client
      /\ \A d \in Client : DOMAIN requests'[d] = Replica
      /\ requests'[c][r] = Append(requests[c][r], m)
      /\ \A d \in Client, s \in Replica :
           d # c \/ s # r => requests'[d][s] = requests[d][s]
  BY <1>1 DEF SendsRequest
<1>3. /\ c \in Writer => Append(requests[c][r], m) \in Seq(WriteRequest)
      /\ c \in Reader => Append(requests[c][r], m) \in Seq(ReadRequest)
  BY <1>1, AppendFar
<1>4. ASSUME NEW d \in Writer, NEW s \in Replica
      PROVE  requests'[d][s] \in Seq(WriteRequest)
  BY <1>1, <1>2, <1>3 DEF Client
<1>5. ASSUME NEW d \in Reader, NEW s \in Replica
      PROVE  requests'[d][s] \in Seq(ReadRequest)
  BY <1>1, <1>2, <1>3 DEF Client
<1> QED BY <1>2, <1>4, <1>5

\* The request of a write carries a number that no other one has.
LEMMA NewNumber ==
  ASSUME RequestsTyped, UnderWayNumbers, NEW c \in Writer, NEW r \in Replica,
         NEW m \in WriteRequest, m.data = writes + 1, writes \in Nat,
         SendsRequest(c, r, m),
         writes' = writes + 1
  PROVE  UnderWayNumbers' /\ Spare \in Int /\ Spare' \in Int /\ Spare <= Spare'
<1> DEFINE n == Len(requests[c][r]) + 1
<1>0. requests[c][r] \in Seq(WriteRequest) /\ n \in Nat \ {0}
  BY DEF RequestsTyped
<1>1. /\ requests'[c][r] = Append(requests[c][r], m)
      /\ \A d \in Client, s \in Replica :
           d # c \/ s # r => requests'[d][s] = requests[d][s]
  BY ClientAssumption, SentRequest DEF Client
<1>2. /\ requests'[c][r][n] = m
      /\ \A i \in DOMAIN requests'[c][r] :
           i = n \/ (i \in DOMAIN requests[c][r]
                      /\ requests'[c][r][i] = requests[c][r][i])
  <2> HIDE DEF n
  <2>1. requests[c][r] \in Seq(WriteRequest) /\ n = Len(requests[c][r]) + 1
    BY <1>0 DEF n
  <2> QED BY <1>1, <2>1, AppendFar
<1> HIDE DEF n
<1>3. ASSUME NEW d \in Writer, NEW s \in Replica, NEW i \in DOMAIN requests'[d][s]
      PROVE  \/ d = c /\ s = r /\ i = n /\ requests'[d][s][i].data = writes + 1
             \/ /\ i \in DOMAIN requests[d][s]
                /\ requests'[d][s][i] = requests[d][s][i]
                /\ requests'[d][s][i].data <= writes
                /\ requests'[d][s][i].data \in 1..MaxWrites
                /\ requests'[d][s][i].data \in Nat
  <2>1. CASE d = c /\ s = r /\ i = n
    BY <1>2, <2>1
  <2>2. CASE ~(d = c /\ s = r /\ i = n)
    <3>1. /\ i \in DOMAIN requests[d][s]
          /\ requests'[d][s][i] = requests[d][s][i]
      BY <1>1, <1>2, <2>2 DEF Client
    <3>2. requests[d][s] \in Seq(WriteRequest)
      BY DEF RequestsTyped
    <3>3. requests[d][s][i] \in WriteRequest
      BY <3>1, <3>2
    <3> QED BY <3>1, <3>3, UseAssumption DEF UnderWayNumbers, WriteRequest
  <2> QED BY <2>1, <2>2
<1> DEFINE New(d, t, i) == /\ d = c /\ t = r /\ i = n
                           /\ requests'[d][t][i].data = writes + 1
           Old(d, t, i) == /\ i \in DOMAIN requests[d][t]
                           /\ requests'[d][t][i] = requests[d][t][i]
                           /\ requests'[d][t][i].data <= writes
                           /\ requests'[d][t][i].data \in 1..MaxWrites
                           /\ requests'[d][t][i].data \in Nat
<1>4. UnderWayNumbers'
  <2>1. ASSUME NEW d \in Writer, NEW s \in Replica,
               NEW i \in DOMAIN requests'[d][s]
        PROVE  requests'[d][s][i].data <= writes'
    <3>1. New(d, s, i) \/ Old(d, s, i)
      BY <1>3
    <3> QED BY <3>1
  <2>2. ASSUME NEW d \in Writer, NEW s \in Replica,
               NEW i \in DOMAIN requests'[d][s],
               NEW a \in Writer, NEW b \in Replica,
               NEW j \in DOMAIN requests'[a][b],
               requests'[d][s][i].data = requests'[a][b][j].data
        PROVE  d = a /\ s = b /\ i = j
    <3>1. New(d, s, i) \/ Old(d, s, i)
      BY <1>3
    <3>2. New(a, b, j) \/ Old(a, b, j)
      BY <1>3
    <3>3. ~(New(d, s, i) /\ Old(a, b, j)) /\ ~(Old(d, s, i) /\ New(a, b, j))
      BY <2>2
    <3>4. CASE New(d, s, i) /\ New(a, b, j)
      BY <3>4
    <3>5. CASE Old(d, s, i) /\ Old(a, b, j)
      <4>1. requests[d][s][i].data = requests[a][b][j].data
        BY <2>2, <3>5
      <4> QED BY <3>5, <4>1 DEF UnderWayNumbers
    <3> QED BY <3>1, <3>2, <3>3, <3>4, <3>5
  <2> QED BY <2>1, <2>2 DEF UnderWayNumbers
<1>5. UnderWay' \subseteq UnderWay \cup {writes + 1}
  <2> SUFFICES ASSUME NEW v \in UnderWay', v # writes + 1 PROVE v \in UnderWay
    OBVIOUS
  <2>1. PICK d \in Writer, s \in Replica : \E i \in DOMAIN requests'[d][s] :
          requests'[d][s][i].data = v
    BY DEF UnderWay
  <2>2. PICK i \in DOMAIN requests'[d][s] : requests'[d][s][i].data = v
    BY <2>1
  <2>3. /\ i \in DOMAIN requests[d][s] /\ requests[d][s][i].data = v
        /\ v \in 1..MaxWrites
    BY <1>3, <2>2
  <2> QED BY <2>3 DEF UnderWay
<1>6. /\ IsFiniteSet(UnderWay) /\ Cardinality(UnderWay) \in Nat
      /\ Spare = writes - Cardinality(UnderWay)
      /\ Spare' = (writes + 1) - Cardinality(UnderWay')
  <2>1. Spare' = writes' - Cardinality(UnderWay')
    BY DEF Spare
  <2> QED BY <2>1, UnderWayFinite DEF Spare
<1> DEFINE A == UnderWay
           B == UnderWay \cup {writes + 1}
           C == UnderWay'
<1> HIDE DEF A, B, C
<1>7. IsFiniteSet(B) /\ Cardinality(B) <= Cardinality(A) + 1
      /\ Cardinality(B) \in Nat
  <2>1. IsFiniteSet(A) /\ B = A \cup {writes + 1} /\ Cardinality(A) \in Nat
    BY <1>6 DEF A, B
  <2>2. CASE writes + 1 \in A
    <3>1. B = A
      BY <2>1, <2>2
    <3>2. IsFiniteSet(B) /\ Cardinality(B) = Cardinality(A)
      BY <2>1, <3>1, Zenon
    <3> QED BY <2>1, <3>2
  <2>3. CASE writes + 1 \notin A
    BY <2>1, <2>3, FS_AddElement
  <2> QED BY <2>2, <2>3
<1>8. Cardinality(C) \in Nat /\ Cardinality(C) <= Cardinality(B)
  <2>1. C \subseteq B
    BY <1>5 DEF B, C
  <2> QED BY <1>7, <2>1, FS_Subset, FS_CardinalityType
<1> QED BY <1>4, <1>6, <1>7, <1>8 DEF A, C

-----------------------------------------------------------------------------
(* Every action keeps the types. *)

\* A write that is sent keeps the types; its number is new and under way.
LEMMA SendWriteTyped ==
  ASSUME TypeInv, NEW c \in Writer, NEW k \in use.keys, NEW e \in use.epochs,
         NEW r \in Replica, SendWrite(c, k, e, r)
  PROVE  TypeInv'
<1> DEFINE m == [epoch |-> e, op_type |-> "write", key_hash |-> k,
                 data |-> writes + 1]
<1>1. /\ status[c] = "idle" /\ writes < use.writes /\ writes' = writes + 1
      /\ SendsRequest(c, r, m)
      /\ request' = [request EXCEPT ![c] = m]
      /\ status' = [status EXCEPT ![c] = "writing"]
      /\ UNCHANGED <<use, smr, storage, pendings, aborted, links, freed, taken,
                     replies, got, reads, acked, floor, answers>>
  BY DEF SendWrite, SendsRequest, serverVars
<1>2. /\ OtherTypes /\ ServersTyped /\ LinksTyped
      /\ RequestsTyped /\ AskersTyped /\ RepliesTyped /\ SlotsTyped
      /\ HistoryTyped /\ UnderWayNumbers /\ IndicesFit
      /\ writes \in Nat /\ use.writes \in 0..MaxWrites /\ MaxWrites \in Nat
      /\ use.keys \subseteq Key /\ use.epochs \subseteq Nat
  BY TypeParts
<1>3. m \in WriteRequest /\ m.data = writes + 1 /\ m # NoRequest
  BY <1>1, <1>2 DEF WriteRequest, NoRequest
<1>4. c \in Client /\ c \notin Reader
  BY ClientAssumption DEF Client
<1> HIDE DEF m
<1>5. /\ DOMAIN requests' = Client
      /\ \A d \in Client : DOMAIN requests'[d] = Replica
      /\ \A d \in Client, s \in Replica :
           d # c \/ s # r => requests'[d][s] = requests[d][s]
      /\ \A d \in Writer, s \in Replica : requests'[d][s] \in Seq(WriteRequest)
      /\ \A d \in Reader, s \in Replica : requests'[d][s] \in Seq(ReadRequest)
  BY <1>1, <1>2, <1>3, <1>4, SentRequest
<1>6. RequestsTyped'
  BY <1>1, <1>2, <1>5 DEF RequestsTyped
<1>7. UnderWayNumbers' /\ Spare \in Int /\ Spare' \in Int /\ Spare <= Spare'
  BY <1>1, <1>2, <1>3, NewNumber
<1>8. ServersTyped' /\ LinksTyped' /\ IndicesFit'
  BY <1>1, <1>2, <1>7, ServersRest
<1>9. OtherTypes'
  BY <1>1, <1>2, <1>4 DEF OtherTypes
<1>10. /\ request'[c] = m /\ \A d \in Client \ {c} : request'[d] = request[d]
       /\ status'[c] = "writing" /\ \A d \in Client \ {c} : status'[d] = status[d]
       /\ DOMAIN request' = Client
  BY <1>1, <1>2, <1>4 DEF AskersTyped, OtherTypes
<1>11. AskersTyped'
  <2>1. ASSUME NEW d \in Writer
        PROVE  /\ request'[d] \in WriteRequest \cup {NoRequest}
               /\ \A s \in Replica :
                    requests'[d][s] # <<>> => request'[d] \in WriteRequest
    <3>1. CASE d = c
      BY <1>3, <1>10, <3>1
    <3>2. CASE d # c
      <4>1. /\ request'[d] = request[d]
            /\ \A s \in Replica : requests'[d][s] = requests[d][s]
        BY <1>5, <1>10, <3>2 DEF Client
      <4> QED BY <1>2, <4>1 DEF AskersTyped
    <3> QED BY <3>1, <3>2
  <2>2. ASSUME NEW d \in Reader
        PROVE  request'[d] \in ReadRequest \cup {NoRequest}
    BY <1>2, <1>4, <1>10 DEF AskersTyped, Client
  <2>3. ASSUME NEW d \in Client
        PROVE  /\ status'[d] = "writing" => d \in Writer /\ request'[d] \in WriteRequest
               /\ status'[d] = "reading" => d \in Reader
    BY <1>2, <1>3, <1>10 DEF AskersTyped
  <2> QED BY <1>10, <2>1, <2>2, <2>3 DEF AskersTyped
<1>12. RepliesTyped' /\ HistoryTyped'
  BY <1>1, <1>2 DEF RepliesTyped, HistoryTyped
<1>13. SlotsTyped'
  <2>1. ASSUME NEW s \in Replica, NEW i \in 1..MaxWrites, pendings[s][i] # NoClient
        PROVE  /\ pendings[s][i] \in Writer
               /\ request'[pendings[s][i]] \in WriteRequest
    BY <1>2, <1>3, <1>10, <2>1 DEF SlotsTyped, Client
  <2>2. ASSUME NEW s \in Replica, NEW d \in freed[s] PROVE status'[d] = "gone"
    <3>1. status[d] = "gone" /\ d \in Client
      BY <1>2 DEF SlotsTyped, OtherTypes
    <3> QED BY <1>1, <1>10, <3>1
  <2> QED BY <1>1, <2>1, <2>2 DEF SlotsTyped
<1> QED BY <1>6, <1>7, <1>8, <1>9, <1>11, <1>12, <1>13, TypeInvNext

\* What is left of the requests when none of the writers' was added
LEMMA RequestsRest ==
  ASSUME TypeInv, UNCHANGED <<smr, links, writes>>, RequestsShrink
  PROVE  /\ ServersTyped' /\ LinksTyped' /\ IndicesFit' /\ UnderWayNumbers'
<1>1. /\ ServersTyped /\ LinksTyped /\ IndicesFit
      /\ RequestsTyped /\ UnderWayNumbers /\ writes \in Nat
  BY TypeParts
<1>2. UnderWayNumbers' /\ Spare \in Int /\ Spare' \in Int /\ Spare <= Spare'
  BY <1>1, ShrinkFacts
<1> QED BY <1>1, <1>2, ServersRest

\* Unchanged requests have shrunk by nothing.
LEMMA SameRequests ==
  ASSUME RequestsTyped,
         \A c \in Writer, r \in Replica : requests'[c][r] = requests[c][r]
  PROVE  RequestsShrink
<1> SUFFICES ASSUME NEW c \in Writer, NEW r \in Replica
             PROVE  \E k \in Nat : \A i \in DOMAIN requests'[c][r] :
                      /\ i \in Nat /\ i + k \in DOMAIN requests[c][r]
                      /\ requests'[c][r][i] = requests[c][r][i + k]
  BY DEF RequestsShrink
<1>1. requests[c][r] \in Seq(WriteRequest)
  BY DEF RequestsTyped
<1>2. \A i \in DOMAIN requests[c][r] : i \in Nat /\ i + 0 = i
  BY <1>1
<1>3. requests'[c][r] = requests[c][r]
  OBVIOUS
<1> HIDE DEF RequestsShrink
<1> QED BY <1>2, <1>3

\* A read that is sent keeps the types.
LEMMA SendReadTyped ==
  ASSUME TypeInv, NEW c \in Reader, NEW k \in Key, SendRead(c, k)
  PROVE  TypeInv'
<1> DEFINE m == [epoch |-> Epoch, op_type |-> "read", key_hash |-> k, data |-> 0]
           r == OwnerOf(CalcKeyPos(k))
<1>1. /\ status[c] = "idle" /\ SendsRequest(c, r, m)
      /\ request' = [request EXCEPT ![c] = m]
      /\ status' = [status EXCEPT ![c] = "reading"]
      /\ floor' = [floor EXCEPT ![c] = {w \in acked : w.key_hash = k}]
      /\ UNCHANGED <<use, smr, storage, pendings, aborted, links, freed, taken,
                     replies, got, writes, acked, answers>>
  BY DEF SendRead, SendsRequest, serverVars
<1>2. /\ OtherTypes /\ ServersTyped /\ LinksTyped
      /\ RequestsTyped /\ AskersTyped /\ RepliesTyped /\ SlotsTyped
      /\ HistoryTyped /\ UnderWayNumbers /\ IndicesFit
      /\ writes \in Nat /\ use.writes \in 0..MaxWrites /\ MaxWrites \in Nat
  BY TypeParts
<1>3. m \in ReadRequest
  BY DEF ReadRequest
<1>4. c \in Client /\ c \notin Writer
  BY ClientAssumption DEF Client
<1>5. r \in Replica
  BY OwnerIsReplica DEF Group
<1> HIDE DEF m, r
<1>6. /\ DOMAIN requests' = Client
      /\ \A d \in Client : DOMAIN requests'[d] = Replica
      /\ \A d \in Client, s \in Replica :
           d # c \/ s # r => requests'[d][s] = requests[d][s]
      /\ \A d \in Writer, s \in Replica : requests'[d][s] \in Seq(WriteRequest)
      /\ \A d \in Reader, s \in Replica : requests'[d][s] \in Seq(ReadRequest)
  BY <1>1, <1>2, <1>3, <1>4, <1>5, SentRequest
<1>7. RequestsTyped'
  BY <1>1, <1>2, <1>6 DEF RequestsTyped
<1>8. \A d \in Writer, s \in Replica : requests'[d][s] = requests[d][s]
  BY <1>4, <1>6 DEF Client
<1>9. ServersTyped' /\ LinksTyped' /\ IndicesFit' /\ UnderWayNumbers'
  BY <1>1, <1>2, <1>8, SameRequests, RequestsRest
<1>10. OtherTypes'
  BY <1>1, <1>2, <1>4 DEF OtherTypes
<1>11. /\ request'[c] = m /\ \A d \in Client \ {c} : request'[d] = request[d]
       /\ status'[c] = "reading" /\ \A d \in Client \ {c} : status'[d] = status[d]
       /\ DOMAIN request' = Client
  BY <1>1, <1>2, <1>4 DEF AskersTyped, OtherTypes
<1>12. AskersTyped'
  <2>1. ASSUME NEW d \in Writer
        PROVE  /\ request'[d] \in WriteRequest \cup {NoRequest}
               /\ \A s \in Replica :
                    requests'[d][s] # <<>> => request'[d] \in WriteRequest
    BY <1>2, <1>4, <1>8, <1>11 DEF AskersTyped, Client
  <2>2. ASSUME NEW d \in Reader
        PROVE  request'[d] \in ReadRequest \cup {NoRequest}
    BY <1>2, <1>3, <1>11 DEF AskersTyped, Client
  <2>3. ASSUME NEW d \in Client
        PROVE  /\ status'[d] = "writing" => d \in Writer /\ request'[d] \in WriteRequest
               /\ status'[d] = "reading" => d \in Reader
    BY <1>2, <1>11 DEF AskersTyped
  <2> QED BY <1>11, <2>1, <2>2, <2>3 DEF AskersTyped
<1>13. RepliesTyped' /\ HistoryTyped'
  BY <1>1, <1>2 DEF RepliesTyped, HistoryTyped
<1>14. SlotsTyped'
  <2>1. ASSUME NEW s \in Replica, NEW i \in 1..MaxWrites, pendings[s][i] # NoClient
        PROVE  /\ pendings[s][i] \in Writer
               /\ request'[pendings[s][i]] \in WriteRequest
    BY <1>2, <1>4, <1>11, <2>1 DEF SlotsTyped, Client
  <2>2. ASSUME NEW s \in Replica, NEW d \in freed[s] PROVE status'[d] = "gone"
    <3>1. status[d] = "gone" /\ d \in Client
      BY <1>2 DEF SlotsTyped, OtherTypes
    <3> QED BY <1>1, <1>11, <3>1
  <2> QED BY <1>1, <2>1, <2>2 DEF SlotsTyped
<1> QED BY <1>7, <1>9, <1>10, <1>12, <1>13, <1>14, TypeInvNext

\* A reply that is taken keeps the types, and what it acknowledges is a write.
LEMMA ReceiveReplyTyped ==
  ASSUME TypeInv, NEW c \in Client, NEW r \in Replica, ReceiveReply(c, r)
  PROVE  TypeInv'
<1> DEFINE m == Head(replies[r][c])
           answered == m.type = "client_reply" /\ status[c] # "idle"
<1>1. /\ status[c] # "gone" /\ replies[r][c] # <<>>
      /\ replies' = [replies EXCEPT ![r][c] = Tail(@)]
      /\ status' = [status EXCEPT ![c] = IF answered THEN "idle" ELSE @]
      /\ got' = IF answered /\ status[c] = "reading"
                  THEN [got EXCEPT ![c] = m.data] ELSE got
      /\ acked' = IF answered /\ status[c] = "writing"
                    THEN acked \cup {request[c]} ELSE acked
      /\ UNCHANGED <<use, smr, storage, pendings, aborted, links, freed, taken,
                     requests, request, writes, floor>>
  BY DEF ReceiveReply, serverVars
<1>2. /\ OtherTypes /\ ServersTyped /\ LinksTyped
      /\ RequestsTyped /\ AskersTyped /\ RepliesTyped /\ SlotsTyped
      /\ HistoryTyped /\ UnderWayNumbers /\ IndicesFit
  BY TypeParts
<1>3. status[c] = "reading" => c \in Reader /\ m.data \in 0..MaxWrites
  <2>1. c \in Reader => m.data \in 0..MaxWrites
    <3>1. ASSUME c \in Reader PROVE m \in ReadReply
      BY <1>1, <1>2, <3>1, TailFacts DEF RepliesTyped
    <3> QED BY <3>1 DEF ReadReply
  <2> QED BY <1>2, <2>1 DEF AskersTyped
<1> HIDE DEF m, answered
<1>4. ServersTyped' /\ LinksTyped' /\ IndicesFit' /\ UnderWayNumbers'
  BY <1>1, <1>2, SameRequests, RequestsRest
<1>5. got' \in [Reader -> 0..MaxWrites]
  BY <1>1, <1>2, <1>3 DEF OtherTypes
<1>6. /\ status' \in [Client -> {"idle", "writing", "reading", "gone"}]
      /\ \A d \in Client : status'[d] = status[d] \/ (d = c /\ status'[d] = "idle")
  BY <1>1, <1>2 DEF OtherTypes
<1>7. OtherTypes'
  BY <1>1, <1>2, <1>5, <1>6 DEF OtherTypes
<1>8. RequestsTyped'
  BY <1>1, <1>2 DEF RequestsTyped
<1>9. AskersTyped'
  BY <1>1, <1>2, <1>6 DEF AskersTyped
<1>10. RepliesTyped'
  <2>1. /\ DOMAIN replies' = Replica
        /\ \A s \in Replica : DOMAIN replies'[s] = Client
        /\ \A s \in Replica, d \in Client :
             replies'[s][d] = IF s = r /\ d = c THEN Tail(replies[s][d])
                                                ELSE replies[s][d]
    BY <1>1, <1>2 DEF RepliesTyped
  <2>2. ASSUME NEW s \in Replica, NEW d \in Reader
        PROVE  replies'[s][d] \in Seq(ReadReply)
    <3>1. replies[s][d] \in Seq(ReadReply) /\ d \in Client
      BY <1>2 DEF RepliesTyped, Client
    <3>2. CASE s = r /\ d = c
      BY <1>1, <2>1, <3>1, <3>2, TailFacts
    <3>3. CASE ~(s = r /\ d = c)
      BY <2>1, <3>1, <3>3
    <3> QED BY <3>2, <3>3
  <2> QED BY <2>1, <2>2 DEF RepliesTyped
<1>11. SlotsTyped'
  <2>1. \A s \in Replica : \A d \in freed[s] : status'[d] = "gone"
    BY <1>1, <1>2, <1>6 DEF SlotsTyped, OtherTypes
  <2> QED BY <1>1, <1>2, <2>1 DEF SlotsTyped
<1>12. HistoryTyped'
  <2>1. acked \subseteq acked' /\ acked' \subseteq WriteRequest
    BY <1>1, <1>2 DEF AskersTyped, HistoryTyped
  <2> QED BY <1>1, <1>2, <2>1 DEF HistoryTyped
<1> QED BY <1>4, <1>7, <1>8, <1>9, <1>10, <1>11, <1>12, TypeInvNext

\* A client that ends keeps the types.
LEMMA QuitTyped ==
  ASSUME TypeInv, NEW c \in Client, Quit(c)
  PROVE  TypeInv'
<1>1. /\ status' = [status EXCEPT ![c] = "gone"]
      /\ UNCHANGED <<use, smr, storage, pendings, aborted, links, freed, taken,
                     requests, replies, request, got, writes, acked, floor>>
  BY DEF Quit, serverVars
<1>2. /\ OtherTypes /\ ServersTyped /\ LinksTyped
      /\ RequestsTyped /\ AskersTyped /\ RepliesTyped /\ SlotsTyped
      /\ HistoryTyped /\ UnderWayNumbers /\ IndicesFit
  BY TypeParts
<1>3. ServersTyped' /\ LinksTyped' /\ IndicesFit' /\ UnderWayNumbers'
  BY <1>1, <1>2, SameRequests, RequestsRest
<1>4. /\ status' \in [Client -> {"idle", "writing", "reading", "gone"}]
      /\ \A d \in Client : status'[d] = status[d] \/ status'[d] = "gone"
  BY <1>1, <1>2 DEF OtherTypes
<1>5. OtherTypes'
  BY <1>1, <1>2, <1>4 DEF OtherTypes
<1>6. RequestsTyped' /\ AskersTyped' /\ RepliesTyped' /\ HistoryTyped'
  BY <1>1, <1>2, <1>4
     DEF RequestsTyped, AskersTyped, RepliesTyped, HistoryTyped
<1>7. SlotsTyped'
  BY <1>1, <1>2, <1>4 DEF SlotsTyped, OtherTypes
<1> QED BY <1>3, <1>5, <1>6, <1>7, TypeInvNext

\* The requests of c at r are gone.
FreesRequests(c, r) == requests' = [requests EXCEPT ![c][r] = <<>>]

\* The requests of c at r are dropped, no others.
LEMMA FreedRequests ==
  ASSUME RequestsTyped, NEW c \in Client, NEW r \in Replica, FreesRequests(c, r)
  PROVE  /\ RequestsShrink
         /\ DOMAIN requests' = Client
         /\ \A d \in Client : DOMAIN requests'[d] = Replica
         /\ requests'[c][r] = <<>>
         /\ \A d \in Client, s \in Replica :
              d # c \/ s # r => requests'[d][s] = requests[d][s]
<1>1. /\ DOMAIN requests = Client
      /\ \A d \in Client : DOMAIN requests[d] = Replica
  BY DEF RequestsTyped
<1>2. /\ DOMAIN requests' = Client
      /\ \A d \in Client : DOMAIN requests'[d] = Replica
      /\ requests'[c][r] = <<>>
      /\ \A d \in Client, s \in Replica :
           d # c \/ s # r => requests'[d][s] = requests[d][s]
  BY <1>1 DEF FreesRequests
<1>3. RequestsShrink
  <2> SUFFICES ASSUME NEW d \in Writer, NEW s \in Replica
               PROVE  \E k \in Nat : \A i \in DOMAIN requests'[d][s] :
                        /\ i \in Nat /\ i + k \in DOMAIN requests[d][s]
                        /\ requests'[d][s][i] = requests[d][s][i + k]
    BY DEF RequestsShrink
  <2>1. CASE requests'[d][s] = <<>>
    BY <2>1
  <2>2. CASE requests'[d][s] = requests[d][s]
    <3>1. requests[d][s] \in Seq(WriteRequest)
      BY DEF RequestsTyped
    <3>2. \A i \in DOMAIN requests[d][s] : i \in Nat /\ i + 0 = i
      BY <3>1
    <3> QED BY <2>2, <3>2
  <2> QED BY <1>2, <2>1, <2>2 DEF Client
<1> QED BY <1>2, <1>3

\* A connection that is freed takes its requests along.
LEMMA FreeConnectionTyped ==
  ASSUME TypeInv, NEW r \in Replica, NEW c \in Client, FreeConnection(r, c)
  PROVE  TypeInv'
<1>1. /\ status[c] = "gone"
      /\ freed' = [freed EXCEPT ![r] = @ \cup {c}]
      /\ requests' = [requests EXCEPT ![c][r] = <<>>]
      /\ UNCHANGED <<use, smr, storage, pendings, aborted, links, taken, replies,
                     status, request, got, writes, acked, floor>>
  BY DEF FreeConnection, clientVars
<1>2. /\ OtherTypes /\ ServersTyped /\ LinksTyped
      /\ RequestsTyped /\ AskersTyped /\ RepliesTyped /\ SlotsTyped
      /\ HistoryTyped /\ UnderWayNumbers /\ IndicesFit
  BY TypeParts
<1>3. /\ RequestsShrink /\ DOMAIN requests' = Client
      /\ \A d \in Client : DOMAIN requests'[d] = Replica
      /\ \A d \in Client, s \in Replica :
           requests'[d][s] = requests[d][s] \/ requests'[d][s] = <<>>
  BY <1>1, <1>2, FreedRequests DEF FreesRequests
<1>4. RequestsTyped'
  BY <1>1, <1>2, <1>3 DEF RequestsTyped, Client
<1>5. ServersTyped' /\ LinksTyped' /\ IndicesFit' /\ UnderWayNumbers'
  BY <1>1, <1>3, RequestsRest
<1>6. /\ freed' \in [Replica -> SUBSET Client]
      /\ \A s \in Replica : freed'[s] \subseteq freed[s] \cup {c}
  BY <1>1, <1>2 DEF OtherTypes
<1>7. OtherTypes'
  BY <1>1, <1>2, <1>6 DEF OtherTypes
<1>8. AskersTyped'
  BY <1>1, <1>2, <1>3 DEF AskersTyped, Client
<1>9. RepliesTyped' /\ HistoryTyped'
  BY <1>1, <1>2 DEF RepliesTyped, HistoryTyped
<1>10. SlotsTyped'
  BY <1>1, <1>2, <1>6 DEF SlotsTyped
<1> QED BY <1>4, <1>5, <1>7, <1>8, <1>9, <1>10, TypeInvNext

\* What a server does that takes a request and leaves the groups alone
LEMMA AnsweredTyped ==
  ASSUME TypeInv, NEW r \in Replica, NEW c \in Client, NEW m,
         requests[c][r] # <<>>, TakesRequest(c, r),
         c \in Reader => m \in ReadReply,
         replies' = [replies EXCEPT ![r][c] = Append(@, m)],
         UNCHANGED <<use, serverVars, clientVars, answers>>
  PROVE  TypeInv'
<1>1. UNCHANGED <<use, smr, storage, pendings, aborted, links, freed, taken,
                  status, request, got, writes, acked, floor>>
  BY DEF serverVars, clientVars
<1>2. /\ OtherTypes /\ ServersTyped /\ LinksTyped
      /\ RequestsTyped /\ AskersTyped /\ RepliesTyped /\ SlotsTyped
      /\ HistoryTyped /\ UnderWayNumbers /\ IndicesFit
  BY TypeParts
<1>3. /\ DOMAIN requests' = Client
      /\ \A d \in Client : DOMAIN requests'[d] = Replica
      /\ \A d \in Client, s \in Replica :
           d # c \/ s # r => requests'[d][s] = requests[d][s]
      /\ \A d \in Writer, s \in Replica : requests'[d][s] \in Seq(WriteRequest)
      /\ \A d \in Reader, s \in Replica : requests'[d][s] \in Seq(ReadRequest)
  BY <1>2, TakenRequest
<1>4. RequestsShrink
  BY <1>2, TakingShrinks
<1>5. ServersTyped' /\ LinksTyped' /\ IndicesFit' /\ UnderWayNumbers'
  BY <1>1, <1>4, RequestsRest
<1>6. RequestsTyped'
  BY <1>1, <1>2, <1>3 DEF RequestsTyped
<1>7. AskersTyped'
  <2>1. ASSUME NEW d \in Writer, NEW s \in Replica, requests'[d][s] # <<>>
        PROVE  request[d] \in WriteRequest
    BY <1>2, <1>3, <2>1 DEF AskersTyped, Client
  <2> QED BY <1>1, <1>2, <2>1 DEF AskersTyped
<1>8. OtherTypes' /\ SlotsTyped' /\ HistoryTyped'
  BY <1>1, <1>2 DEF OtherTypes, SlotsTyped, HistoryTyped
<1>9. RepliesTyped'
  <2>1. /\ DOMAIN replies' = Replica
        /\ \A s \in Replica : DOMAIN replies'[s] = Client
        /\ \A s \in Replica, d \in Client :
             replies'[s][d] = IF s = r /\ d = c THEN Append(replies[s][d], m)
                                                ELSE replies[s][d]
    BY <1>2 DEF RepliesTyped
  <2>2. ASSUME NEW s \in Replica, NEW d \in Reader
        PROVE  replies'[s][d] \in Seq(ReadReply)
    <3>1. replies[s][d] \in Seq(ReadReply) /\ d \in Client
      BY <1>2 DEF RepliesTyped, Client
    <3>2. CASE s = r /\ d = c
      BY <2>1, <3>1, <3>2, AppendFar
    <3>3. CASE ~(s = r /\ d = c)
      BY <2>1, <3>1, <3>3
    <3> QED BY <3>2, <3>3
  <2> QED BY <2>1, <2>2 DEF RepliesTyped
<1> QED BY <1>5, <1>6, <1>7, <1>8, <1>9, TypeInvNext

\* A rejected request keeps the types.
LEMMA RejectRequestTyped ==
  ASSUME TypeInv, NEW r \in Replica, NEW c \in Client, RejectRequest(r, c)
  PROVE  TypeInv'
<1> DEFINE m == GuidanceReply
<1>1. /\ requests[c][r] # <<>> /\ RequestAt(c, r).epoch # Epoch
      /\ TakesRequest(c, r)
      /\ replies' = [replies EXCEPT ![r][c] = Append(@, m)]
      /\ UNCHANGED <<use, serverVars, clientVars, answers>>
  BY DEF RejectRequest, TakesRequest, RequestAt
<1>2. c \notin Reader
  <2>1. c \in Reader => RequestAt(c, r) \in ReadRequest
    BY <1>1, TypeParts, TakenRequest DEF RequestAt
  <2> QED BY <1>1, <2>1 DEF ReadRequest
<1> HIDE DEF m
<1> QED BY <1>1, <1>2, AnsweredTyped

\* A read keeps the types; its reply carries a value that was written, or 0.
LEMMA HandleReadTyped ==
  ASSUME TypeInv, NEW r \in Replica, NEW c \in Client, HandleRead(r, c)
  PROVE  TypeInv'
<1> DEFINE k == RequestAt(c, r).key_hash
           m == ClientReply(k, storage[r][k])
<1>1. /\ requests[c][r] # <<>>
      /\ TakesRequest(c, r)
      /\ replies' = [replies EXCEPT ![r][c] = Append(@, m)]
      /\ UNCHANGED <<use, serverVars, clientVars, answers>>
  BY DEF HandleRead, TakesRequest, RequestAt
<1>2. c \in Reader => m \in ReadReply
  <2>1. c \in Reader => RequestAt(c, r) \in ReadRequest
    BY <1>1, TypeParts, TakenRequest DEF RequestAt
  <2>2. storage \in [Replica -> [Key -> 0..MaxWrites]]
    BY TypeParts DEF OtherTypes
  <2> QED BY <2>1, <2>2 DEF ReadRequest, ReadReply, ClientReply
<1> HIDE DEF m
<1> QED BY <1>1, <1>2, AnsweredTyped

\* The slot a write takes names its client.
LEMMA HandleWriteTyped ==
  ASSUME TypeInv, NEW r \in Replica, NEW c \in Client, WriteStep(c, r)
  PROVE  TypeInv'
<1> DEFINE g == WriteGroup(c, r)
           slot == PendingSlot(LastIndex(WriteResult(c, r).smr.log))
<1>1. /\ c \in Writer /\ g \in Group
      /\ requests[c][r] # <<>> /\ TakesRequest(c, r)
      /\ pendings' = [pendings EXCEPT ![r][slot] = c]
      /\ taken' = taken \cup {<<r, g>>}
      /\ UNCHANGED <<use, storage, aborted, freed, replies,
                     status, request, got, writes, acked, floor>>
  BY DEF WriteStep, clientVars
<1>2. /\ OtherTypes /\ RequestsTyped /\ AskersTyped /\ RepliesTyped /\ SlotsTyped
      /\ HistoryTyped
  BY TypeParts
<1>3. ServersTyped' /\ LinksTyped' /\ IndicesFit' /\ UnderWayNumbers'
  BY WriteMoves
<1> HIDE DEF g, slot
<1>4. /\ DOMAIN requests' = Client
      /\ \A d \in Client : DOMAIN requests'[d] = Replica
      /\ \A d \in Client, s \in Replica :
           d # c \/ s # r => requests'[d][s] = requests[d][s]
      /\ \A d \in Writer, s \in Replica : requests'[d][s] \in Seq(WriteRequest)
      /\ \A d \in Reader, s \in Replica : requests'[d][s] \in Seq(ReadRequest)
  BY <1>1, <1>2, TakenRequest
<1>5. RequestsTyped'
  BY <1>1, <1>2, <1>4 DEF RequestsTyped
<1>6. AskersTyped'
  <2>1. ASSUME NEW d \in Writer, NEW s \in Replica, requests'[d][s] # <<>>
        PROVE  request[d] \in WriteRequest
    BY <1>1, <1>2, <1>4, <2>1 DEF AskersTyped, Client
  <2> QED BY <1>1, <1>2, <2>1 DEF AskersTyped
<1>7. /\ pendings' \in [Replica -> [1..MaxWrites -> Client \cup {NoClient}]]
      /\ \A s \in Replica, i \in 1..MaxWrites :
           pendings'[s][i] = pendings[s][i] \/ pendings'[s][i] = c
  BY <1>1, <1>2 DEF OtherTypes
<1>8. OtherTypes'
  BY <1>1, <1>2, <1>7 DEF OtherTypes
<1>9. RepliesTyped' /\ HistoryTyped'
  BY <1>1, <1>2 DEF RepliesTyped, HistoryTyped
<1>10. SlotsTyped'
  <2>1. request[c] \in WriteRequest
    BY <1>1, <1>2 DEF AskersTyped
  <2> QED BY <1>1, <1>2, <1>7, <2>1 DEF SlotsTyped
<1> QED BY <1>3, <1>5, <1>6, <1>8, <1>9, <1>10, TypeInvNext

\* An append message from a peer keeps the types.
LEMMA AppendStepTyped ==
  ASSUME TypeInv, NEW r \in Replica, NEW s \in Replica, AppendStep(r, s)
  PROVE  TypeInv'
<1>1. /\ links[s][r] # <<>>
      /\ UNCHANGED <<use, storage, pendings, freed, taken, requests, replies,
                     status, request, got, writes, acked, floor>>
      /\ \/ AbortStep(r)
         \/ PacketStep(r, s, AppendResult(r, s))
  BY DEF AppendStep, clientVars
<1>2. /\ OtherTypes /\ ServersTyped /\ LinksTyped
      /\ RequestsTyped /\ AskersTyped /\ RepliesTyped /\ SlotsTyped
      /\ HistoryTyped /\ UnderWayNumbers /\ IndicesFit
  BY TypeParts
<1>3. UnderWayNumbers'
  BY <1>1, <1>2 DEF UnderWayNumbers
<1>4. ServersTyped' /\ LinksTyped' /\ IndicesFit'
  <2>1. CASE AbortStep(r)
    BY <1>1, <1>2, <2>1, SameRequests, RequestsRest DEF AbortStep
  <2>2. CASE PacketStep(r, s, AppendResult(r, s))
    BY <1>1, <2>2, AppendStepGives, PacketMoves
  <2> QED BY <1>1, <2>1, <2>2
<1>5. OtherTypes'
  BY <1>1, <1>2 DEF OtherTypes, AbortStep, PacketStep
<1>6. /\ RequestsTyped' /\ AskersTyped' /\ RepliesTyped' /\ SlotsTyped'
      /\ HistoryTyped'
  BY <1>1, <1>2 DEF RequestsTyped, AskersTyped, RepliesTyped, SlotsTyped,
                    HistoryTyped
<1> QED BY <1>3, <1>4, <1>5, <1>6, TypeInvNext


\* The elements of the empty set, in order
LEMMA NoneInOrder == DOMAIN InOrder({}) = 1..0
<1> DEFINE F == [1..0 -> {}]
           Sorted(f) == \A i, j \in 1..0 : i < j => f[i] < f[j]
<1>1. Cardinality({}) = 0
  BY FS_EmptySet
<1>2. InOrder({}) = CHOOSE f \in F : Sorted(f)
  BY <1>1 DEF InOrder
<1>3. \E f \in F : Sorted(f)
  <2>1. [i \in 1..0 |-> i] \in F /\ Sorted([i \in 1..0 |-> i])
    BY SMT
  <2> QED BY <2>1
<1>4. InOrder({}) \in F
  BY <1>2, <1>3, Zenon
<1> QED BY <1>4

\* What maybe_apply stores are values of writes, and it answers no reader.
LEMMA ApplyTyped ==
  ASSUME OtherTypes, RepliesTyped, SlotsTyped, NEW r \in Replica, NEW g \in Group,
         NEW es \in Seq(LogEntry(g)),
         \A i \in DOMAIN es : es[i].index \in 1..MaxWrites,
         Apply(r, g, es)
  PROVE  storage' \in [Replica -> [Key -> 0..MaxWrites]] /\ RepliesTyped'
<1> DEFINE values == [k \in Key |->
             IF \E i \in DOMAIN es : es[i].data.key_hash = k
               THEN es[LastWriteOf(es, k)].data.data ELSE storage[r][k]]
           at(c) == {i \in DOMAIN es : pendings[r][es[i].index] = c}
           new(c) == [j \in DOMAIN InOrder(at(c)) |->
                        ClientReply(es[InOrder(at(c))[j]].data.key_hash, 0)]
           told == [c \in Client |-> replies[r][c] \o new(c)]
<1>1. /\ storage' = [storage EXCEPT ![r] = values]
      /\ replies' = [replies EXCEPT ![r] = told]
  BY Zenon DEF Apply
<1>2. Len(es) \in Nat /\ DOMAIN es = 1..Len(es)
  OBVIOUS
<1>3. ASSUME NEW k \in Key PROVE values[k] \in 0..MaxWrites
  <2> DEFINE S == {i \in DOMAIN es : es[i].data.key_hash = k}
  <2>1. CASE S = {}
    <3>1. values[k] = storage[r][k]
      BY <2>1
    <3> QED BY <3>1 DEF OtherTypes
  <2>2. CASE S # {}
    <3>1. values[k] = es[LastWriteOf(es, k)].data.data
      BY <2>2
    <3>2. LastWriteOf(es, k) = CHOOSE i \in S : \A j \in S : j <= i
      BY DEF LastWriteOf
    <3>3. S \subseteq 1..Len(es)
      BY <1>2
    <3> HIDE DEF S
    <3>4. LastWriteOf(es, k) \in S
      BY <1>2, <2>2, <3>2, <3>3, GreatestOfSet
    <3>5. LastWriteOf(es, k) \in DOMAIN es
      BY <1>2, <3>3, <3>4
    <3>6. es[LastWriteOf(es, k)] \in AnyEntry
      BY <3>5 DEF LogEntry
    <3> QED BY <3>1, <3>6, UseAssumption DEF AnyEntry
  <2> QED BY <2>1, <2>2
<1> HIDE DEF values
<1>4. ASSUME NEW c \in Reader PROVE told[c] = replies[r][c]
  <2>1. at(c) = {}
    BY ClientAssumption DEF SlotsTyped
  <2>2. DOMAIN InOrder(at(c)) = 1..0
    BY <2>1, NoneInOrder
  <2> DEFINE q == InOrder(at(c))
             none == [j \in 1..0 |-> ClientReply(es[q[j]].data.key_hash, 0)]
  <2>3. new(c) = <<>>
    <3>1. new(c) = none
      BY <2>2, Zenon
    <3> HIDE DEF q
    <3>2. none = <<>>
      OBVIOUS
    <3> QED BY <3>1, <3>2
  <2>4. replies[r][c] \in Seq(ReadReply) /\ c \in Client
    BY DEF RepliesTyped, Client
  <2> HIDE DEF new
  <2>5. told[c] = replies[r][c] \o <<>>
    BY <2>3, <2>4
  <2> QED BY <2>4, <2>5
<1>5. DOMAIN told = Client
  OBVIOUS
<1> HIDE DEF told
<1>6. DOMAIN values = Key
  BY DEF values
<1>7. values \in [Key -> 0..MaxWrites]
  BY <1>3, <1>6 DEF values
<1>8. storage' \in [Replica -> [Key -> 0..MaxWrites]]
  BY <1>1, <1>7 DEF OtherTypes
<1>9. /\ DOMAIN replies' = Replica
      /\ \A s \in Replica : DOMAIN replies'[s] = Client
      /\ \A s \in Replica, c \in Reader : replies'[s][c] = replies[s][c]
  BY <1>1, <1>4, <1>5 DEF RepliesTyped
<1> QED BY <1>8, <1>9 DEF RepliesTyped

\* A reply from a peer keeps the types, with what it makes the server apply.
LEMMA ReplyStepTyped ==
  ASSUME TypeInv, NEW r \in Replica, NEW s \in Replica, ReplyStep(r, s)
  PROVE  TypeInv'
<1> DEFINE g == PacketAt(r, s).group_id
           h == ReplyResult(r, s)
<1>1. /\ links[s][r] # <<>> /\ g \in Group
      /\ UNCHANGED <<use, pendings, freed, taken, requests,
                     status, request, got, writes, acked, floor>>
      /\ \/ AbortStep(r) /\ UNCHANGED <<storage, replies>>
         \/ PacketStep(r, s, h) /\ h.abort = FALSE /\ Apply(r, g, h.apply)
  BY DEF ReplyStep, clientVars
<1>2. /\ OtherTypes /\ ServersTyped /\ LinksTyped
      /\ RequestsTyped /\ AskersTyped /\ RepliesTyped /\ SlotsTyped
      /\ HistoryTyped /\ UnderWayNumbers /\ IndicesFit
  BY TypeParts
<1>3. UnderWayNumbers'
  BY <1>1, <1>2 DEF UnderWayNumbers
<1>4. /\ HandlerResult(h, r, g, Spare)
      /\ h.abort = FALSE =>
           /\ h.apply \in Seq(LogEntry(g))
           /\ \A i \in DOMAIN h.apply : h.apply[i].index \in 1..Len(smr[r][g].log)
  BY ReplyStepGives
<1> HIDE DEF h
<1>5. ServersTyped' /\ LinksTyped' /\ IndicesFit'
  <2>1. CASE AbortStep(r)
    BY <1>1, <1>2, <2>1, SameRequests, RequestsRest DEF AbortStep
  <2>2. CASE PacketStep(r, s, h)
    BY <1>1, <1>4, <2>2, PacketMoves
  <2> QED BY <1>1, <2>1, <2>2
<1>6. storage' \in [Replica -> [Key -> 0..MaxWrites]] /\ RepliesTyped'
  <2>1. CASE UNCHANGED <<storage, replies>>
    BY <1>2, <2>1 DEF OtherTypes, RepliesTyped
  <2>2. CASE h.abort = FALSE /\ Apply(r, g, h.apply)
    <3>1. 1..Len(smr[r][g].log) \subseteq 1..MaxWrites
      <4>1. Len(smr[r][g].log) <= Spare /\ Len(smr[r][g].log) \in Nat
        BY <1>1, <1>2, GroupParts DEF IndicesFit, ServersTyped
      <4>2. Spare <= writes /\ Spare \in Int
        BY TypeParts, UnderWayFinite DEF Spare
      <4> QED BY <4>1, <4>2, TypeParts
    <3>2. \A i \in DOMAIN h.apply : h.apply[i].index \in 1..MaxWrites
      BY <1>4, <2>2, <3>1
    <3> HIDE DEF g
    <3> QED BY <1>1, <1>2, <1>4, <2>2, <3>2, ApplyTyped
  <2> QED BY <1>1, <2>1, <2>2
<1>7. OtherTypes'
  BY <1>1, <1>2, <1>6 DEF OtherTypes, AbortStep, PacketStep
<1>8. RequestsTyped' /\ AskersTyped' /\ SlotsTyped' /\ HistoryTyped'
  BY <1>1, <1>2 DEF RequestsTyped, AskersTyped, SlotsTyped, HistoryTyped
<1> QED BY <1>3, <1>5, <1>6, <1>7, <1>8, TypeInvNext

-----------------------------------------------------------------------------
(* The type invariant *)

\* TypeInv holds at first.
LEMMA TypeInvInit == Init => TypeInv
<1> SUFFICES ASSUME Init PROVE TypeInv
  OBVIOUS
<1>0. /\ MaxWrites \in Nat /\ use \in Uses /\ use.writes \in 0..MaxWrites
      /\ use.writes \in Nat
  BY UseAssumption DEF Init
<1>1. TypeOK
  BY <1>0 DEF Init, TypeOK
<1>2. \A g \in Group : \A r \in Replica : smr[r][g] = InitSMR
  BY DEF Init
<1>3. /\ InitSMR.log = <<>> /\ InitSMR.votes.complete = {}
      /\ \A g \in Group : InitSMR \in StateOf(LogEntry(g))
  <2>1. NoVotes \in VoteState /\ NoVotes.complete = {}
    BY DEF NoVotes, VoteState
  <2> QED BY <2>1 DEF InitSMR, StateOf, NoPeerStatus
<1>4. \A g \in Group : OnLinks(g) = {}
  <2> SUFFICES ASSUME NEW g \in Group, NEW m, m \in OnLinks(g) PROVE FALSE
    OBVIOUS
  <2>1. \E r, s \in Replica : \E i \in DOMAIN links[r][s] :
          links[r][s][i].group_id = g /\ links[r][s][i].body = m
    BY BodiesOnFacts DEF OnLinks
  <2> QED BY <2>1 DEF Init
<1>5. ServersTyped
  <2>1. DOMAIN smr = Replica /\ \A r \in Replica : DOMAIN smr[r] = Group
    BY DEF Init
  <2>2. ASSUME NEW g \in Group PROVE GroupTyped(g)
    <3>1. SMRs(g) \in [Replica -> StateOf(LogEntry(g))]
      BY <1>2, <1>3 DEF SMRs
    <3>2. \A r \in Replica : SMRs(g)[r] = InitSMR
      BY <1>2 DEF SMRs
    <3>3. LogsWellFormed(SMRs(g))
      BY <3>2, <1>3 DEF LogsWellFormed, WellFormed
    <3>4. Typed(SMRs(g), OnLinks(g), LogEntry(g))
      BY <1>4, <3>1 DEF Typed
    <3>5. \A r \in Replica : CompleteHasQuorum(smr[r][g].votes)
      BY <1>2, <1>3 DEF CompleteHasQuorum
    <3> QED BY <3>3, <3>4, <3>5 DEF GroupTyped
  <2> QED BY <2>1, <2>2 DEF ServersTyped
<1>6. LinksTyped
  BY DEF Init, LinksTyped
<1>7. /\ requests = [c \in Client |-> [r \in Replica |-> <<>>]] /\ writes = 0
      /\ \A c \in Client, r \in Replica : requests[c][r] = <<>>
  BY DEF Init
<1>8. UnderWayNumbers
  BY <1>7 DEF UnderWayNumbers, Client
<1>9. IndicesFit
  <2>1. UnderWay = {}
    BY <1>7 DEF UnderWay, Client
  <2>2. Cardinality(UnderWay) = 0
    BY <2>1, FS_EmptySet
  <2>3. Spare = 0
    BY <1>7, <2>2 DEF Spare
  <2> QED BY <1>2, <1>3, <1>4, <2>3 DEF IndicesFit
<1>10. RequestsTyped
  BY <1>0, <1>7 DEF RequestsTyped, Client
<1>11. AskersTyped
  BY <1>7 DEF Init, AskersTyped, Client
<1>12. RepliesTyped
  BY DEF Init, RepliesTyped, Client
<1>13. SlotsTyped
  BY DEF Init, SlotsTyped
<1>14. HistoryTyped
  BY DEF Init, HistoryTyped
<1> QED BY <1>1, <1>5, <1>6, <1>8, <1>9, <1>10, <1>11, <1>12, <1>13, <1>14
        DEF TypeInv, ClientsTyped

\* Every step keeps TypeInv.
LEMMA TypeInvStep == TypeInv /\ [Next]_vars => TypeInv'
<1> SUFFICES ASSUME TypeInv, [Next]_vars PROVE TypeInv'
  OBVIOUS
<1>1. ASSUME NEW c \in Writer, NEW k \in use.keys, NEW e \in use.epochs,
             NEW r \in Replica, SendWrite(c, k, e, r)
      PROVE  TypeInv'
  BY <1>1, SendWriteTyped
<1>2. ASSUME NEW c \in Reader, NEW k \in Key, SendRead(c, k)
      PROVE  TypeInv'
  BY <1>2, SendReadTyped
<1>3. ASSUME NEW c \in Client, NEW r \in Replica, ReceiveReply(c, r)
      PROVE  TypeInv'
  BY <1>3, ReceiveReplyTyped
<1>4. ASSUME NEW c \in Client, Quit(c) PROVE TypeInv'
  BY <1>4, QuitTyped
<1>5. ASSUME NEW r \in Replica, NEW c \in Client, FreeConnection(r, c)
      PROVE  TypeInv'
  BY <1>5, FreeConnectionTyped
<1>6. ASSUME NEW r \in Replica, NEW c \in Client, RejectRequest(r, c)
      PROVE  TypeInv'
  BY <1>6, RejectRequestTyped
<1>7. ASSUME NEW r \in Replica, NEW c \in Client, HandleRead(r, c)
      PROVE  TypeInv'
  BY <1>7, HandleReadTyped
<1>8. ASSUME NEW r \in Replica, NEW c \in Client, HandleWrite(r, c)
      PROVE  TypeInv'
  BY <1>8, WriteStepFacts, HandleWriteTyped
<1>9. ASSUME NEW r \in Replica, NEW s \in Replica, HandlePeerAppend(r, s)
      PROVE  TypeInv'
  BY <1>9, AppendStepFacts, AppendStepTyped
<1>10. ASSUME NEW r \in Replica, NEW s \in Replica, HandlePeerReply(r, s)
       PROVE  TypeInv'
  BY <1>10, ReplyStepFacts, ReplyStepTyped
<1>11. CASE UNCHANGED vars
  <2>1. UNCHANGED <<use, smr, storage, pendings, aborted, links, freed, taken,
                    requests, replies, status, request, got, writes, acked, floor>>
    BY <1>11 DEF vars, serverVars, clientVars
  <2>2. /\ OtherTypes /\ ServersTyped /\ LinksTyped
        /\ RequestsTyped /\ AskersTyped /\ RepliesTyped /\ SlotsTyped
        /\ HistoryTyped /\ UnderWayNumbers /\ IndicesFit
    BY TypeParts
  <2>3. ServersTyped' /\ LinksTyped' /\ IndicesFit'
    BY <2>1, <2>2, SameRequests, RequestsRest
  <2>4. UnderWayNumbers'
    BY <2>1, <2>2 DEF UnderWayNumbers
  <2>5. /\ OtherTypes' /\ RequestsTyped' /\ AskersTyped' /\ RepliesTyped'
        /\ SlotsTyped' /\ HistoryTyped'
    BY <2>1, <2>2 DEF OtherTypes, RequestsTyped, AskersTyped, RepliesTyped,
                      SlotsTyped, HistoryTyped
  <2> QED BY <2>3, <2>4, <2>5, TypeInvNext
<1> QED BY <1>1, <1>2, <1>3, <1>4, <1>5, <1>6, <1>7, <1>8, <1>9, <1>10, <1>11
        DEF Next

\* Every variable keeps its type, and no log outgrows the writes that are sent
\* and not under way: the slots of m_client_pendings are never left.
THEOREM TypesHold == Spec => []TypeInv
<1>1. Init => TypeInv
  BY TypeInvInit
<1>2. TypeInv /\ [Next]_vars => TypeInv'
  BY TypeInvStep
<1> QED BY <1>1, <1>2, PTL DEF Spec

-----------------------------------------------------------------------------
(* What a step does to one group *)

GroupRests(g) ==
  /\ SMRs(g)' = SMRs(g) /\ OnLinks(g)' \subseteq OnLinks(g)
  /\ Takers(g)' = Takers(g)
GroupOperates(g) ==
  \E r \in Replica : \E c \in Client :
    LET h == WriteResult(c, r) IN
      /\ WriteStep(c, r) /\ g = WriteGroup(c, r)
      /\ NewEntry(smr[r][g].log, WriteOp(c, r), Epoch) \in LogEntry(g)
      /\ SMRs(g)' = [SMRs(g) EXCEPT ![r] = h.smr]
      /\ OnLinks(g)' \subseteq OnLinks(g) \cup h.out
      /\ Takers(g)' = Takers(g) \cup {r}
GroupAppends(g) ==
  \E m \in OnLinks(g) :
    LET h == HandleAppendEntries(SMRs(g)[m.to], m.to, m) IN
      /\ m.type = "append" /\ m.to \in Replica
      /\ SMRs(g)' = [SMRs(g) EXCEPT ![m.to] = h.smr]
      /\ OnLinks(g)' \subseteq OnLinks(g) \cup h.out
      /\ Takers(g)' = Takers(g)
GroupCounts(g) ==
  \E m \in OnLinks(g) :
    LET h == HandleAppendEntriesReply(SMRs(g)[m.to], m.to, m) IN
      /\ m.type = "append_reply" /\ m.to \in Replica
      /\ SMRs(g)' = [SMRs(g) EXCEPT ![m.to] = h.smr]
      /\ OnLinks(g)' \subseteq OnLinks(g) \cup h.out
      /\ Takers(g)' = Takers(g)

GroupMoves(g) ==
  GroupRests(g) \/ GroupOperates(g) \/ GroupAppends(g) \/ GroupCounts(g)

\* The SMR objects of a group are those of m_smrs.
LEMMA SMRsAre == \A g : \A r \in Replica : SMRs(g)[r] = smr[r][g]
BY DEF SMRs

\* A group rests while nothing changes at the servers.
LEMMA ServersRestGroup ==
  ASSUME NEW g \in Group, UNCHANGED <<smr, links, taken>>
  PROVE  GroupRests(g)
BY DEF GroupRests, SMRs, OnLinks, BodiesOn, Takers

\* A write is a step of HandleOperation in its group, and none in the others.
LEMMA WriteMovesGroup ==
  ASSUME TypeInv, NEW g \in Group, NEW r \in Replica, NEW c \in Client,
         WriteStep(c, r)
  PROVE  GroupMoves(g)
<1>0. PICK k, h : k = WriteGroup(c, r) /\ h = WriteResult(c, r)
  OBVIOUS
<1>1. /\ GroupStep(r, k, h)
      /\ NewEntry(smr[r][k].log, WriteOp(c, r), Epoch) \in LogEntry(k)
  BY <1>0, WriteMoves DEF WriteMoved
<1>2. taken' = taken \cup {<<r, k>>}
  BY <1>0 DEF WriteStep
<1>3. CASE g = k
  <2>1. Takers(g)' = Takers(g) \cup {r}
    BY <1>2, <1>3 DEF Takers
  <2>2. /\ SMRs(g)' = [SMRs(g) EXCEPT ![r] = h.smr]
        /\ OnLinks(g)' \subseteq OnLinks(g) \cup h.out
    BY <1>1, <1>3 DEF GroupStep
  <2>3. GroupOperates(g)
    BY <1>0, <1>1, <1>3, <2>1, <2>2 DEF GroupOperates
  <2> QED BY <2>3 DEF GroupMoves
<1>4. CASE g # k
  <2>1. Takers(g)' = Takers(g)
    BY <1>2, <1>4 DEF Takers
  <2> QED BY <1>1, <1>4, <2>1 DEF GroupStep, GroupRests, GroupMoves
<1> QED BY <1>3, <1>4

\* A packet handled without an abort moves its group and no other one.
LEMMA PacketMovesGroup ==
  ASSUME NEW g \in Group, NEW k \in Group, NEW r \in Replica, NEW h,
         GroupStep(r, k, h), taken' = taken
  PROVE  IF g = k
           THEN /\ SMRs(g)' = [SMRs(g) EXCEPT ![r] = h.smr]
                /\ OnLinks(g)' \subseteq OnLinks(g) \cup h.out
                /\ Takers(g)' = Takers(g)
           ELSE GroupRests(g)
<1>1. Takers(g)' = Takers(g)
  BY DEF Takers
<1> QED BY <1>1 DEF GroupStep, GroupRests

\* An append message is a step of HandleAppendEntries in its group.
LEMMA AppendMovesGroup ==
  ASSUME TypeInv, NEW g \in Group, NEW r \in Replica, NEW s \in Replica,
         AppendStep(r, s)
  PROVE  GroupMoves(g)
<1>0. PICK k, m, h : /\ k = PacketAt(r, s).group_id
                     /\ m = PacketAt(r, s).body /\ h = AppendResult(r, s)
  OBVIOUS
<1>1. /\ k \in Group /\ m \in OnLinks(k) /\ m.to = r /\ m.type = "append"
      /\ links[s][r] # <<>>
      /\ UNCHANGED <<requests, writes, taken>>
      /\ \/ AbortStep(r)
         \/ PacketStep(r, s, h)
  BY <1>0 DEF AppendStep, AppendOf, clientVars
<1>2. CASE AbortStep(r)
  BY <1>1, <1>2, ServersRestGroup DEF AbortStep, GroupMoves
<1>3. CASE PacketStep(r, s, h)
  <2>1. GroupStep(r, k, h)
    BY <1>0, <1>1, <1>3, AppendStepGives, PacketMoves
  <2>2. h = HandleAppendEntries(SMRs(k)[m.to], m.to, m)
    BY <1>0, <1>1, SMRsAre DEF AppendResult
  <2>3. IF g = k
          THEN /\ SMRs(g)' = [SMRs(g) EXCEPT ![r] = h.smr]
               /\ OnLinks(g)' \subseteq OnLinks(g) \cup h.out
               /\ Takers(g)' = Takers(g)
          ELSE GroupRests(g)
    BY <1>1, <2>1, PacketMovesGroup
  <2>4. CASE g = k
    <3>1. GroupAppends(g)
      BY <1>1, <2>2, <2>3, <2>4 DEF GroupAppends
    <3> QED BY <3>1 DEF GroupMoves
  <2> QED BY <2>3, <2>4 DEF GroupMoves
<1> QED BY <1>1, <1>2, <1>3

\* A reply is a step of HandleAppendEntriesReply in its group, or the end of r.
LEMMA ReplyMovesGroup ==
  ASSUME TypeInv, NEW g \in Group, NEW r \in Replica, NEW s \in Replica,
         ReplyStep(r, s)
  PROVE  GroupMoves(g)
<1>0. PICK k, m, h : /\ k = PacketAt(r, s).group_id
                     /\ m = PacketAt(r, s).body /\ h = ReplyResult(r, s)
  OBVIOUS
<1>1. /\ k \in Group /\ m \in OnLinks(k) /\ m.to = r /\ m.type = "append_reply"
      /\ links[s][r] # <<>>
      /\ UNCHANGED <<requests, writes, taken>>
      /\ \/ AbortStep(r)
         \/ PacketStep(r, s, h)
  BY <1>0 DEF ReplyStep, Replies, clientVars
<1>2. CASE AbortStep(r)
  BY <1>1, <1>2, ServersRestGroup DEF AbortStep, GroupMoves
<1>3. CASE PacketStep(r, s, h)
  <2>0. HandlerResult(h, r, k, Spare)
    BY <1>0, ReplyStepGives
  <2>1. GroupStep(r, k, h)
    BY <1>0, <1>1, <1>3, <2>0, PacketMoves
  <2>2. h = HandleAppendEntriesReply(SMRs(k)[m.to], m.to, m)
    BY <1>0, <1>1, SMRsAre DEF ReplyResult
  <2>3. IF g = k
          THEN /\ SMRs(g)' = [SMRs(g) EXCEPT ![r] = h.smr]
               /\ OnLinks(g)' \subseteq OnLinks(g) \cup h.out
               /\ Takers(g)' = Takers(g)
          ELSE GroupRests(g)
    BY <1>1, <2>1, PacketMovesGroup
  <2>4. CASE g = k
    <3>1. GroupCounts(g)
      BY <1>1, <2>2, <2>3, <2>4 DEF GroupCounts
    <3> QED BY <3>1 DEF GroupMoves
  <2> QED BY <2>3, <2>4 DEF GroupMoves
<1> QED BY <1>1, <1>2, <1>3

\* Every step is a handler call for a group, or lets it rest.
LEMMA EveryGroupMoves ==
  ASSUME TypeInv, [Next]_vars, NEW g \in Group
  PROVE  GroupMoves(g)
<1>1. CASE \E c \in Writer, k \in use.keys, e \in use.epochs, r \in Replica :
             SendWrite(c, k, e, r)
  <2>1. UNCHANGED <<smr, links, taken>>
    BY <1>1, Zenon DEF SendWrite, serverVars
  <2> QED BY <2>1, ServersRestGroup DEF GroupMoves
<1>2. CASE \/ \E c \in Reader, k \in Key : SendRead(c, k)
           \/ \E c \in Client, r \in Replica : ReceiveReply(c, r)
           \/ \E c \in Client : Quit(c)
           \/ \E r \in Replica, c \in Client : FreeConnection(r, c)
           \/ \E r \in Replica, c \in Client : RejectRequest(r, c)
           \/ \E r \in Replica, c \in Client : HandleRead(r, c)
           \/ UNCHANGED vars
  <2>1. UNCHANGED <<smr, links, taken>>
    BY <1>2, Zenon DEF SendRead, ReceiveReply, Quit, FreeConnection, RejectRequest,
                HandleRead, serverVars, vars
  <2> QED BY <2>1, ServersRestGroup DEF GroupMoves
<1>3. CASE \E r \in Replica, c \in Client : HandleWrite(r, c)
  BY <1>3, WriteStepFacts, WriteMovesGroup
<1>4. CASE \E r, s \in Replica : HandlePeerAppend(r, s)
  BY <1>4, AppendStepFacts, AppendMovesGroup
<1>5. CASE \E r, s \in Replica : HandlePeerReply(r, s)
  BY <1>5, ReplyStepFacts, ReplyMovesGroup
<1> QED BY <1>1, <1>2, <1>3, <1>4, <1>5 DEF Next

-----------------------------------------------------------------------------
(* A group whose operations one replica takes *)

\* A step of such a group keeps it sound and takes nothing back.
LEMMA SoundGroupStep ==
  ASSUME TypeInv, NEW g \in Group, NEW o \in Replica, GroupSound(g, o),
         GroupMoves(g), Takers(g)' \subseteq {o}
  PROVE  GroupSound(g, o)' /\ Grown(SMRs(g), SMRs(g)')
<1> DEFINE S == SMRs(g)
           T == SMRs(g)'
           M == OnLinks(g)
           N == OnLinks(g)'
           E == LogEntry(g)
<1>1. Core(S, M, o, E) /\ Lacking(S, M, o) = {} /\ EntrySet(E)
  BY EntriesOfGroup DEF GroupSound
<1> SUFFICES Core(T, N, o, E) /\ Lacking(T, N, o) = {} /\ Grown(S, T)
  BY DEF GroupSound
<1> HIDE DEF S, T, M, N, E
<1>2. ASSUME NEW h, GoodStep(h, S, M, T, M \cup h.out, o, E),
             N \subseteq M \cup h.out
      PROVE  Core(T, N, o, E) /\ Lacking(T, N, o) = {} /\ Grown(S, T)
  <2>1. /\ Core(T, M \cup h.out, o, E) /\ Grown(S, T)
        /\ Lacking(T, M \cup h.out, o) \subseteq Lacking(S, M, o)
    BY <1>2 DEF GoodStep
  <2>2. Core(T, N, o, E) /\ Lacking(T, N, o) \subseteq Lacking(T, M \cup h.out, o)
    BY <1>2, <2>1, FewerMessages
  <2> QED BY <1>1, <2>1, <2>2
<1>3. CASE GroupRests(g)
  <2>1. T = S /\ N \subseteq M
    BY <1>3 DEF GroupRests, S, T, M, N
  <2>2. Core(T, N, o, E) /\ Lacking(T, N, o) = {}
    BY <1>1, <2>1, FewerMessages
  <2>3. Grown(S, T)
    BY <1>1, <2>1, CoreFacts DEF Grown, IsPrefixOf
  <2> QED BY <2>2, <2>3
<1>4. CASE GroupOperates(g)
  <2>1. PICK r \in Replica, c \in Client :
          LET h == WriteResult(c, r) IN
            /\ WriteStep(c, r) /\ g = WriteGroup(c, r)
            /\ NewEntry(smr[r][g].log, WriteOp(c, r), Epoch) \in LogEntry(g)
            /\ SMRs(g)' = [SMRs(g) EXCEPT ![r] = h.smr]
            /\ OnLinks(g)' \subseteq OnLinks(g) \cup h.out
            /\ Takers(g)' = Takers(g) \cup {r}
    BY <1>4 DEF GroupOperates
  <2> DEFINE h == WriteResult(c, r)
             op == WriteOp(c, r)
  <2>2. r = o
    BY <2>1
  <2>3. h = HandleOperation(S[o], o, op, Epoch) /\ NewEntry(S[o].log, op, Epoch) \in E
    BY <2>1, <2>2, SMRsAre DEF S, E, WriteResult
  <2>4. T = [S EXCEPT ![o] = h.smr] /\ N \subseteq M \cup h.out
    BY <2>1, <2>2 DEF S, T, M, N
  <2> HIDE DEF h, op
  <2>5. GoodStep(h, S, M, T, M \cup h.out, o, E)
    BY <1>1, <2>3, <2>4, OperationKeepsCore
  <2> QED BY <1>2, <2>4, <2>5
<1>5. CASE GroupAppends(g)
  <2>1. PICK m \in M :
          LET h == HandleAppendEntries(S[m.to], m.to, m) IN
            /\ m.type = "append" /\ m.to \in Replica
            /\ T = [S EXCEPT ![m.to] = h.smr]
            /\ N \subseteq M \cup h.out
    BY <1>5 DEF GroupAppends, S, T, M, N
  <2> DEFINE h == HandleAppendEntries(S[m.to], m.to, m)
  <2>2. GoodStep(h, S, M, [S EXCEPT ![m.to] = h.smr], M \cup h.out, o, E)
    BY <1>1, <2>1, AppendKeepsCore
  <2>3. T = [S EXCEPT ![m.to] = h.smr] /\ N \subseteq M \cup h.out
    BY <2>1
  <2> HIDE DEF h
  <2> QED BY <1>2, <2>2, <2>3
<1>6. CASE GroupCounts(g)
  <2>1. PICK m \in M :
          LET h == HandleAppendEntriesReply(S[m.to], m.to, m) IN
            /\ m.type = "append_reply" /\ m.to \in Replica
            /\ T = [S EXCEPT ![m.to] = h.smr]
            /\ N \subseteq M \cup h.out
    BY <1>6 DEF GroupCounts, S, T, M, N
  <2> DEFINE h == HandleAppendEntriesReply(S[o], o, m)
  <2>0. m \in M /\ m.type = "append_reply"
    BY <2>1
  <2>2. m.to = o /\ GoodStep(h, S, M, [S EXCEPT ![o] = h.smr], M, o, E)
    BY <1>1, <2>0, ReplyKeepsCore
  <2>3. T = [S EXCEPT ![o] = h.smr] /\ N \subseteq M \cup h.out
    BY <2>1, <2>2
  <2>4. h.out = {}
    BY DEF HandleAppendEntriesReply
  <2> HIDE DEF h
  <2>5. M \cup h.out = M
    BY <2>4
  <2> QED BY <1>2, <2>2, <2>3, <2>5
<1> QED BY <1>3, <1>4, <1>5, <1>6 DEF GroupMoves

\* Replicas only become takers, they never cease to be.
LEMMA TakersStay == \A g \in Group : GroupMoves(g) => Takers(g) \subseteq Takers(g)'
BY DEF GroupMoves, GroupRests, GroupOperates, GroupAppends, GroupCounts

\* GroupInv holds at first.
LEMMA GroupInvInit == Init => GroupInv
<1> SUFFICES ASSUME Init, NEW g \in Group, NEW o \in Replica
             PROVE  GroupSound(g, o)
  BY DEF GroupInv
<1>1. SMRs(g) = [r \in Replica |-> InitSMR]
  BY DEF Init, SMRs
<1>2. OnLinks(g) = {}
  <2> SUFFICES ASSUME NEW m, m \in OnLinks(g) PROVE FALSE
    OBVIOUS
  <2>1. \E r, s \in Replica : \E i \in DOMAIN links[r][s] :
          links[r][s][i].group_id = g /\ links[r][s][i].body = m
    BY BodiesOnFacts DEF OnLinks
  <2> QED BY <2>1 DEF Init
<1> QED BY <1>1, <1>2, CoreInit DEF GroupSound

\* Every step keeps GroupInv.
LEMMA GroupInvStep == TypeInv /\ GroupInv /\ [Next]_vars => GroupInv'
<1> SUFFICES ASSUME TypeInv, GroupInv, [Next]_vars,
                    NEW g \in Group, NEW o \in Replica, Takers(g)' \subseteq {o}
             PROVE  GroupSound(g, o)'
  BY DEF GroupInv
<1>1. GroupMoves(g) /\ Takers(g) \subseteq {o}
  BY EveryGroupMoves, TakersStay
<1> QED BY <1>1, SoundGroupStep DEF GroupInv

\* The takers of a group are those the history names.
LEMMA OneTaker ==
  ASSUME TypeInv, NEW g \in Group, NEW r \in Replica,
         Cardinality({t \in taken : t[2] = g}) <= 1
  PROVE  \E o \in Replica : Takers(g) \subseteq {o}
<1> DEFINE P == {t \in taken : t[2] = g}
<1>1. IsFiniteSet(taken)
  <2>1. taken \subseteq Replica \X Group
    BY TypeParts DEF OtherTypes
  <2>2. IsFiniteSet(Replica) /\ IsFiniteSet(Group)
    <3>1. IsFiniteSet(0..(ClusterSize - 1)) /\ IsFiniteSet(0..(KeySpace - 1))
      BY GuidanceAssumption, FS_Interval
    <3>2. Group \subseteq 0..(KeySpace - 1)
      BY ClusterAssumption DEF Group, Position
    <3> QED BY <3>1, <3>2, ClusterAssumption, FS_Subset DEF Node
  <2>3. IsFiniteSet(Replica \X Group)
    BY <2>2, FS_Product
  <2> QED BY <2>1, <2>3, FS_Subset
<1>2. IsFiniteSet(P)
  BY <1>1, FS_Subset
<1>3. ASSUME NEW a \in Takers(g), NEW b \in Takers(g) PROVE a = b
  <2> SUFFICES ASSUME a # b PROVE FALSE
    OBVIOUS
  <2> DEFINE D == {<<a, g>>, <<b, g>>}
  <2>1. D \subseteq P
    BY DEF Takers
  <2>2. <<a, g>> # <<b, g>>
    OBVIOUS
  <2> HIDE DEF P
  <2>3. Cardinality(D) <= Cardinality(P) /\ IsFiniteSet(D)
    BY <1>2, <2>1, FS_Subset
  <2>4. Cardinality(D) = 2
    <3>1. /\ IsFiniteSet({<<a, g>>}) /\ Cardinality({<<a, g>>}) = 1
      BY FS_Singleton
    <3>2. Cardinality({<<a, g>>} \cup {<<b, g>>}) = 1 + 1
      BY <2>2, <3>1, FS_AddElement
    <3>3. D = {<<a, g>>} \cup {<<b, g>>}
      OBVIOUS
    <3> HIDE DEF D
    <3>4. Cardinality(D) = 1 + 1
      BY <3>2, <3>3, Zenon
    <3> QED BY <3>4
  <2>5. Cardinality(P) \in Nat /\ Cardinality(P) <= 1
    BY <1>2, FS_CardinalityType DEF P
  <2> QED BY <2>3, <2>4, <2>5
<1> QED BY <1>3 DEF Takers

\* The logs of a group whose operations at most one replica took agree as far
\* as they go, however the links deliver and whatever the other groups do.
THEOREM LogsAgree == Spec => []DivergenceNeedsTwoTakers
<1>1. Init => TypeInv /\ GroupInv
  BY TypeInvInit, GroupInvInit
<1>2. TypeInv /\ GroupInv /\ [Next]_vars => (TypeInv /\ GroupInv)'
  BY TypeInvStep, GroupInvStep
<1>3. TypeInv /\ GroupInv => DivergenceNeedsTwoTakers
  <2> SUFFICES ASSUME TypeInv, GroupInv,
                      NEW g \in Group, NEW r \in Replica, NEW s \in Replica,
                      Cardinality({t \in taken : t[2] = g}) <= 1,
                      NEW i \in DOMAIN smr[r][g].log \cap DOMAIN smr[s][g].log
               PROVE  smr[r][g].log[i] = smr[s][g].log[i]
    BY DEF DivergenceNeedsTwoTakers
  <2>1. PICK o \in Replica : Takers(g) \subseteq {o}
    BY OneTaker
  <2>2. Core(SMRs(g), OnLinks(g), o, LogEntry(g))
    BY <2>1 DEF GroupInv, GroupSound
  <2>3. \A q \in Replica : \A j \in DOMAIN smr[q][g].log :
          smr[q][g].log[j] = smr[o][g].log[j]
    <3> SUFFICES ASSUME NEW q \in Replica, q # o, NEW j \in DOMAIN smr[q][g].log
                 PROVE  smr[q][g].log[j] = smr[o][g].log[j]
      OBVIOUS
    <3>1. IsPrefixOf(smr[q][g].log, smr[o][g].log)
      BY <2>2, SMRsAre DEF Core, OthersHavePrefixes, Others
    <3>2. DOMAIN smr[q][g].log = 1..Len(smr[q][g].log)
      BY GroupParts DEF TypeInv, ServersTyped
    <3> QED BY <3>1, <3>2 DEF IsPrefixOf
  <2> QED BY <2>3
<1> QED BY <1>1, <1>2, <1>3, PTL DEF Spec

-----------------------------------------------------------------------------
(* Without strays: what a step does to the logs of the owners *)

SameOwner(g) == OwnerLog(g)' = OwnerLog(g) /\ OwnerCommit(g)' = OwnerCommit(g)

\* The owner r of group g handles a reply, with result h.
OwnerCounts(g, r, h) ==
  /\ r = OwnerOf(g) /\ OwnerLog(g)' = OwnerLog(g)
  /\ OwnerCommit(g)' \in OwnerCommit(g)..Len(OwnerLog(g))
  /\ h.apply = SubSeq(OwnerLog(g), OwnerCommit(g) + 1, OwnerCommit(g)')

\* The entries in the result h are the next ones of group g behind its commit.
AppliesNext(g, h) ==
  \E b \in OwnerCommit(g)..Len(OwnerLog(g)) :
    h.apply = SubSeq(OwnerLog(g), OwnerCommit(g) + 1, b)

\* SMRsAre, in the next state
LEMMA SMRsBecome == \A g : \A r \in Replica : SMRs(g)'[r] = smr'[r][g]
BY DEF SMRs

\* Without strays, every group is sound for its owner.
LEMMA OwnersSound ==
  ASSUME GroupInv, NoStrays, NEW g \in Group
  PROVE  OwnerOf(g) \in Replica /\ GroupSound(g, OwnerOf(g))
<1>1. Takers(g) \subseteq {OwnerOf(g)}
  <2> SUFFICES ASSUME NEW r \in Takers(g) PROVE r = OwnerOf(g)
    OBVIOUS
  <2>1. <<r, g>> \in taken
    BY DEF Takers
  <2>2. <<r, g>>[1] = OwnerOf(<<r, g>>[2])
    BY <2>1 DEF NoStrays
  <2> QED BY <2>2
<1> QED BY <1>1, OwnerIsReplica DEF GroupInv

\* The log and the commit index of an owner
LEMMA OwnerFacts ==
  ASSUME TypeInv, GroupInv, NoStrays, NEW g \in Group
  PROVE  /\ OwnerOf(g) \in Replica /\ OwnerLog(g) \in Seq(LogEntry(g))
         /\ Len(OwnerLog(g)) \in Nat /\ Len(OwnerLog(g)) <= MaxWrites
         /\ DOMAIN OwnerLog(g) = 1..Len(OwnerLog(g))
         /\ \A i \in DOMAIN OwnerLog(g) :
              OwnerLog(g)[i] \in LogEntry(g) /\ OwnerLog(g)[i].index = i
         /\ OwnerCommit(g) \in 0..Len(OwnerLog(g))
<1>1. OwnerOf(g) \in Replica /\ GroupTyped(g) /\ GroupSound(g, OwnerOf(g))
  BY OwnersSound DEF TypeInv, ServersTyped
<1>2. /\ OwnerLog(g) \in Seq(LogEntry(g)) /\ Len(OwnerLog(g)) \in Nat
      /\ WellFormed(OwnerLog(g)) /\ OwnerCommit(g) \in Nat
  BY <1>1, GroupParts DEF OwnerLog, OwnerCommit, StateOf
<1>3. OwnerCommit(g) <= Len(OwnerLog(g))
  BY <1>1, SMRsAre DEF GroupSound, Core, CommitIsComplete, OwnerLog, OwnerCommit
<1>4. Len(OwnerLog(g)) <= MaxWrites
  <2>1. Len(OwnerLog(g)) <= Spare
    BY <1>1, TypeParts DEF IndicesFit, OwnerLog
  <2>2. Spare <= writes /\ Spare \in Int
    BY TypeParts, UnderWayFinite DEF Spare
  <2> QED BY <1>2, <2>1, <2>2, TypeParts
<1> QED BY <1>1, <1>2, <1>3, <1>4 DEF WellFormed

\* Strays stay: what was taken stays taken.
LEMMA TakenGrows == [Next]_vars => taken \subseteq taken'
BY ZenonT(60) DEF Next, vars, serverVars, SendWrite, SendRead, ReceiveReply, Quit,
       FreeConnection, RejectRequest, HandleRead, HandleWrite, HandlePeerAppend,
       HandlePeerReply

\* Where there is no stray after a step, there was none before.
LEMMA StraysStay == [Next]_vars /\ NoStrays' => NoStrays
BY TakenGrows DEF NoStrays

\* A step that leaves m_smrs alone leaves the logs of the owners alone.
LEMMA SMRsRest == UNCHANGED smr => \A g \in Group : SameOwner(g)
BY DEF SameOwner, OwnerLog, OwnerCommit

\* A write that the owner of its group takes: one entry more at the end
WriteEntry(c, r, g) == NewEntry(OwnerLog(g), WriteOp(c, r), Epoch)

OwnerWrites(c, r, g) ==
  /\ g \in Group /\ r = OwnerOf(g)
  /\ WriteEntry(c, r, g) \in LogEntry(g)
  /\ OwnerLog(g)' = Append(OwnerLog(g), WriteEntry(c, r, g))
  /\ OwnerCommit(g)' = OwnerCommit(g)
  /\ Len(OwnerLog(g)) + 1 \in 1..MaxWrites
  /\ pendings' = [pendings EXCEPT ![r][Len(OwnerLog(g)) + 1] = c]
  /\ \A k \in Group \ {g} : SameOwner(k)

\* Without strays, the server that takes a write owns its group, and appends it.
LEMMA WriteOwner ==
  ASSUME TypeInv, NoStrays', NEW r \in Replica, NEW c \in Client, WriteStep(c, r),
         NEW g, g = WriteGroup(c, r)
  PROVE  OwnerWrites(c, r, g)
<1>0. PICK h : h = WriteResult(c, r)
  OBVIOUS
<1>1. /\ g \in Group /\ taken' = taken \cup {<<r, g>>}
      /\ pendings' = [pendings EXCEPT ![r][PendingSlot(LastIndex(h.smr.log))] = c]
  BY <1>0 DEF WriteStep
<1>2. r = OwnerOf(g)
  <2>1. <<r, g>> \in taken'
    BY <1>1
  <2>2. <<r, g>>[1] = OwnerOf(<<r, g>>[2])
    BY <2>1 DEF NoStrays
  <2> QED BY <2>2
<1>3. WriteMoved(c, r, g, h)
  BY <1>0, WriteMoves
<1>4. /\ SMRs(g)' = [SMRs(g) EXCEPT ![r] = h.smr]
      /\ \A k \in Group \ {g} : SMRs(k)' = SMRs(k)
  BY <1>3 DEF WriteMoved, GroupStep
<1>5. smr'[r][g] = h.smr
  <2>1. SMRs(g)'[r] = h.smr
    BY <1>4 DEF SMRs
  <2> QED BY <2>1, SMRsBecome
<1>6. ASSUME NEW k \in Group \ {g} PROVE SameOwner(k)
  <2>1. smr'[OwnerOf(k)][k] = smr[OwnerOf(k)][k]
    BY <1>4, SMRsAre, SMRsBecome, OwnerIsReplica
  <2> QED BY <2>1 DEF SameOwner, OwnerLog, OwnerCommit
<1>7. /\ h.smr.log = Append(smr[r][g].log, NewEntry(smr[r][g].log, WriteOp(c, r), Epoch))
      /\ NewEntry(smr[r][g].log, WriteOp(c, r), Epoch) \in LogEntry(g)
      /\ h.smr.commit = smr[r][g].commit
      /\ LastIndex(h.smr.log) = Len(smr[r][g].log) + 1
      /\ Len(smr[r][g].log) + 1 \in 1..MaxWrites
  BY <1>3 DEF WriteMoved
<1>8. /\ OwnerLog(g) = smr[r][g].log /\ OwnerLog(g)' = h.smr.log
      /\ OwnerCommit(g) = smr[r][g].commit /\ OwnerCommit(g)' = h.smr.commit
  BY <1>2, <1>5 DEF OwnerLog, OwnerCommit
<1>9. pendings' = [pendings EXCEPT ![r][Len(OwnerLog(g)) + 1] = c]
  BY <1>1, <1>7, <1>8 DEF PendingSlot
<1> QED BY <1>1, <1>2, <1>6, <1>7, <1>8, <1>9 DEF OwnerWrites, WriteEntry

\* An append message moves no owner, and nobody ends handling one.
LEMMA AppendOwner ==
  ASSUME TypeInv, GroupInv, NoStrays, NEW r \in Replica, NEW s \in Replica,
         AppendStep(r, s)
  PROVE  /\ \A g \in Group : SameOwner(g)
         /\ aborted' = aborted
<1>0. PICK k, m, h, o : /\ k = PacketAt(r, s).group_id
                        /\ m = PacketAt(r, s).body /\ h = AppendResult(r, s)
                        /\ o = OwnerOf(k)
  OBVIOUS
<1>1. /\ k \in Group /\ m \in OnLinks(k) /\ m.to = r /\ m.type = "append"
      /\ links[s][r] # <<>>
      /\ UNCHANGED <<requests, writes, taken>>
      /\ \/ h.abort = TRUE /\ AbortStep(r)
         \/ h.abort = FALSE /\ PacketStep(r, s, h)
  BY <1>0 DEF AppendStep, AppendOf, clientVars
<1>2. o \in Replica /\ Core(SMRs(k), OnLinks(k), o, LogEntry(k))
  BY <1>0, <1>1, OwnersSound DEF GroupSound
<1>3. h = HandleAppendEntries(SMRs(k)[m.to], m.to, m)
  BY <1>0, <1>1, SMRsAre DEF AppendResult
<1>4. h.abort = FALSE
  <2>1. FollowsTruth(HandleAppendEntries(SMRs(k)[m.to], m.to, m), SMRs(k)[m.to],
                     m.to, m, SMRs(k)[o].log, LogEntry(k))
    BY <1>1, <1>2, AppendKeepsCore, EntriesOfGroup
  <2> QED BY <1>3, <2>1 DEF FollowsTruth
<1>5. r # o
  BY <1>1, <1>2, MessageFacts DEF AppendTrue, Others
<1>6. PacketStep(r, s, h)
  BY <1>1, <1>4
<1>7. GroupStep(r, k, h)
  BY <1>0, <1>1, <1>6, AppendStepGives, PacketMoves
<1>8. ASSUME NEW g \in Group PROVE SameOwner(g)
  <2>1. smr'[OwnerOf(g)][g] = smr[OwnerOf(g)][g]
    <3>1. CASE g = k
      <4>1. SMRs(k)' = [SMRs(k) EXCEPT ![r] = h.smr]
        BY <1>7 DEF GroupStep
      <4>2. SMRs(k)'[o] = SMRs(k)[o]
        BY <1>2, <1>5, <4>1 DEF SMRs
      <4> QED BY <1>0, <1>2, <3>1, <4>2, SMRsAre, SMRsBecome
    <3>2. CASE g # k
      <4>1. SMRs(g)' = SMRs(g)
        BY <1>7, <3>2 DEF GroupStep
      <4> QED BY <4>1, SMRsAre, SMRsBecome, OwnerIsReplica
    <3> QED BY <3>1, <3>2
  <2> QED BY <2>1 DEF SameOwner, OwnerLog, OwnerCommit
<1> QED BY <1>6, <1>8 DEF PacketStep

\* The owner counts a reply, and the code around it never reaches ABORT_F.
LEMMA ReplyOwner ==
  ASSUME TypeInv, GroupInv, NoStrays, NEW r \in Replica, NEW s \in Replica,
         ReplyStep(r, s), NEW g, g = PacketAt(r, s).group_id,
         NEW h, h = ReplyResult(r, s)
  PROVE  /\ g \in Group /\ r = OwnerOf(g) /\ h.abort = FALSE
         /\ AppliesNext(g, h)
         /\ PacketStep(r, s, h) =>
              OwnerCounts(g, r, h) /\ \A k \in Group \ {g} : SameOwner(k)
<1>0. PICK m, o : m = PacketAt(r, s).body /\ o = OwnerOf(g)
  OBVIOUS
<1>1. /\ g \in Group /\ m \in OnLinks(g) /\ m.to = r /\ m.type = "append_reply"
      /\ links[s][r] # <<>> /\ UNCHANGED <<requests, writes>>
  BY <1>0 DEF ReplyStep, Replies, clientVars
<1>2. o \in Replica /\ Core(SMRs(g), OnLinks(g), o, LogEntry(g))
  BY <1>0, <1>1, OwnersSound DEF GroupSound
<1>3. /\ m.to = o
      /\ CountsVote(HandleAppendEntriesReply(SMRs(g)[o], o, m), SMRs(g)[o], m,
                    LogEntry(g))
  <2> DEFINE S == SMRs(g)
             M == OnLinks(g)
             E == LogEntry(g)
  <2>1. /\ Core(S, M, o, E) /\ EntrySet(E) /\ m \in M /\ m.type = "append_reply"
        /\ o \in Replica
    BY <1>1, <1>2, EntriesOfGroup
  <2> HIDE DEF S, M, E
  <2>2. m.to = o
    BY <2>1, MessageFacts DEF ReplyTrue
  <2>3. CountsVote(HandleAppendEntriesReply(S[o], o, m), S[o], m, E)
    BY <2>1, ReplyKeepsCore
  <2> QED BY <2>2, <2>3 DEF S, E
<1>4. h = HandleAppendEntriesReply(SMRs(g)[o], o, m)
  BY <1>0, <1>1, <1>3, SMRsAre DEF ReplyResult
<1>5. CountsVote(h, smr[r][g], m, LogEntry(g)) /\ r = o
  BY <1>1, <1>3, <1>4, SMRsAre
<1>6. AppliesNext(g, h)
  <2>1. /\ OwnerLog(g) = smr[r][g].log /\ OwnerCommit(g) = smr[r][g].commit
        /\ OwnerCommit(g) \in Nat /\ Len(OwnerLog(g)) \in Nat
    BY <1>0, <1>1, <1>5, OwnerFacts DEF OwnerLog, OwnerCommit
  <2>2. /\ h.smr.commit >= OwnerCommit(g) /\ h.smr.commit <= Len(OwnerLog(g))
        /\ h.apply = SubSeq(OwnerLog(g), OwnerCommit(g) + 1, h.smr.commit)
        /\ h.smr.commit \in Nat
    BY <1>5, <2>1 DEF CountsVote, StateOf
  <2>3. h.smr.commit \in OwnerCommit(g)..Len(OwnerLog(g))
    BY <2>1, <2>2
  <2> QED BY <2>2, <2>3 DEF AppliesNext
<1>7. ASSUME PacketStep(r, s, h)
      PROVE  OwnerCounts(g, r, h) /\ \A k \in Group \ {g} : SameOwner(k)
  <2>1. HandlerResult(h, r, g, Spare)
    BY ReplyStepGives
  <2>2. GroupStep(r, g, h)
    BY <1>1, <1>7, <2>1, PacketMoves
  <2>3. smr'[r][g] = h.smr
    <3>1. SMRs(g)'[r] = h.smr
      BY <2>2 DEF SMRs, GroupStep
    <3> QED BY <3>1, SMRsBecome
  <2>4. ASSUME NEW k \in Group \ {g} PROVE SameOwner(k)
    <3>1. SMRs(k)' = SMRs(k)
      BY <2>2 DEF GroupStep
    <3>2. smr'[OwnerOf(k)][k] = smr[OwnerOf(k)][k]
      BY <3>1, SMRsAre, SMRsBecome, OwnerIsReplica
    <3> QED BY <3>2 DEF SameOwner, OwnerLog, OwnerCommit
  <2>5. /\ OwnerLog(g) = smr[r][g].log /\ OwnerLog(g)' = h.smr.log
        /\ OwnerCommit(g) = smr[r][g].commit /\ OwnerCommit(g)' = h.smr.commit
    BY <1>0, <1>5, <2>3 DEF OwnerLog, OwnerCommit
  <2>6. /\ h.smr.log = smr[r][g].log
        /\ h.smr.commit >= smr[r][g].commit /\ h.smr.commit <= Len(smr[r][g].log)
        /\ h.apply = SubSeq(smr[r][g].log, smr[r][g].commit + 1, h.smr.commit)
        /\ h.smr.commit \in Nat
    BY <1>5 DEF CountsVote, StateOf
  <2>7. OwnerCommit(g) \in Nat /\ Len(OwnerLog(g)) \in Nat
    BY <1>1, OwnerFacts
  <2>8. OwnerCommit(g)' \in OwnerCommit(g)..Len(OwnerLog(g))
    BY <2>5, <2>6, <2>7
  <2>9. OwnerCounts(g, r, h)
    BY <1>0, <1>5, <2>5, <2>6, <2>8, Zenon DEF OwnerCounts
  <2> QED BY <2>4, <2>9
<1>8. r = OwnerOf(g) /\ h.abort = FALSE
  BY <1>0, <1>5, Zenon DEF CountsVote
<1> QED BY <1>1, <1>6, <1>7, <1>8

-----------------------------------------------------------------------------
(* The storage *)

\* What the first n entries of a log leave behind for key k
ValueAfter(log, n, k) ==
  LET at == {i \in 1..n : log[i].data.key_hash = k}
  IN IF at = {} THEN 0
     ELSE log[CHOOSE i \in at : \A j \in at : j <= i].data.data

\* The value of a key depends on the entries up to the commit index alone.
LEMMA ValueSame ==
  ASSUME NEW L, NEW K, NEW n \in Nat, NEW k, \A i \in 1..n : L[i] = K[i]
  PROVE  ValueAfter(L, n, k) = ValueAfter(K, n, k)
<1> DEFINE A == {i \in 1..n : L[i].data.key_hash = k}
           B == {i \in 1..n : K[i].data.key_hash = k}
<1>1. A = B
  OBVIOUS
<1>2. CASE A = {}
  BY <1>1, <1>2 DEF ValueAfter
<1>3. CASE A # {}
  <2> DEFINE x == CHOOSE i \in A : \A j \in A : j <= i
  <2>1. x \in A
    <3>1. \E i \in A : \A j \in A : j <= i
      BY <1>3, GreatestOfSet
    <3> QED BY <3>1
  <2>2. ValueAfter(L, n, k) = L[x].data.data
    BY <1>3 DEF ValueAfter
  <2>3. ValueAfter(K, n, k) = K[CHOOSE i \in B : \A j \in B : j <= i].data.data
    BY <1>1, <1>3 DEF ValueAfter
  <2>4. x = CHOOSE i \in B : \A j \in B : j <= i
    BY <1>1
  <2>5. x \in 1..n
    BY <2>1
  <2> HIDE DEF x, A, B
  <2>6. L[x] = K[x]
    BY <2>5
  <2> QED BY <2>2, <2>3, <2>4, <2>6
<1> QED BY <1>2, <1>3

AppliedTo(L, a, b, k, es) ==
  ValueAfter(L, b, k) =
    IF \E i \in DOMAIN es : es[i].data.key_hash = k
      THEN es[LastWriteOf(es, k)].data.data ELSE ValueAfter(L, a, k)

\* Applying the entries a commit index passes, in turn, brings the value of
\* each key from what the entries before left to what those up to it leave.
LEMMA ValueStep ==
  ASSUME NEW E, NEW L \in Seq(E), NEW a \in Nat, NEW b \in a..Len(L), NEW k,
         NEW es, es = SubSeq(L, a + 1, b)
  PROVE  AppliedTo(L, a, b, k, es)
<1> DEFINE n == b - a
           A == {i \in 1..b : L[i].data.key_hash = k}
           B == {i \in 1..a : L[i].data.key_hash = k}
           C == {i \in DOMAIN es : es[i].data.key_hash = k}
<1>1. /\ b \in Nat /\ n \in Nat /\ b <= Len(L) /\ Len(L) \in Nat
      /\ DOMAIN es = 1..n /\ \A i \in 1..n : es[i] = L[a + i]
  OBVIOUS
<1> HIDE DEF n
<1>2. \A i \in 1..b : i \in 1..a \/ (i - a \in 1..n /\ i = a + (i - a))
  BY <1>1 DEF n
<1>3. \A i \in 1..n : a + i \in 1..b
  BY <1>1 DEF n
<1>4. CASE C = {}
  <2>1. A = B
    <3>1. ASSUME NEW i \in A PROVE i \in B
      <4>1. i \in 1..b /\ L[i].data.key_hash = k
        OBVIOUS
      <4>2. ASSUME i - a \in 1..n, i = a + (i - a) PROVE FALSE
        <5>1. es[i - a] = L[i] /\ i - a \in DOMAIN es
          BY <1>1, <4>2
        <5>2. i - a \in C
          BY <4>1, <5>1
        <5> QED BY <1>4, <5>2
      <4>3. i \in 1..a
        BY <1>2, <4>1, <4>2
      <4> QED BY <4>1, <4>3
    <3>2. \A i \in B : i \in A
      BY <1>1
    <3> QED BY <3>1, <3>2
  <2>2. ValueAfter(L, b, k) = ValueAfter(L, a, k)
    <3>1. ValueAfter(L, b, k) =
            IF A = {} THEN 0
            ELSE L[CHOOSE i \in A : \A j \in A : j <= i].data.data
      BY DEF ValueAfter
    <3>2. ValueAfter(L, a, k) =
            IF B = {} THEN 0
            ELSE L[CHOOSE i \in B : \A j \in B : j <= i].data.data
      BY DEF ValueAfter
    <3> HIDE DEF A, B
    <3> QED BY <2>1, <3>1, <3>2
  <2> QED BY <1>4, <2>2 DEF AppliedTo
<1>5. CASE C # {}
  <2>1. PICK x \in C : \A j \in C : j <= x
    BY <1>1, <1>5, GreatestOfSet
  <2>2. x \in 1..n /\ a + x \in A /\ es[x] = L[a + x] /\ x \in Nat
    BY <1>1, <1>3, <2>1
  <2>3. \A j \in A : j <= a + x
    <3> SUFFICES ASSUME NEW j \in A PROVE j <= a + x
      OBVIOUS
    <3>1. CASE j \in 1..a
      BY <2>2, <3>1
    <3>2. CASE j - a \in 1..n /\ j = a + (j - a)
      <4>1. j - a \in C
        BY <1>1, <3>2
      <4>2. j - a <= x
        BY <2>1, <4>1
      <4>3. j \in Nat
        BY <1>1
      <4> QED BY <2>2, <4>2, <4>3
    <3> QED BY <1>2, <3>1, <3>2
  <2> DEFINE y == CHOOSE i \in A : \A j \in A : j <= i
             z == CHOOSE i \in C : \A j \in C : j <= i
  <2>4. y = a + x
    <3>0. \E i \in A : \A j \in A : j <= i
      BY <2>2, <2>3
    <3>1. y \in A /\ \A j \in A : j <= y
      BY <3>0
    <3>2. A \subseteq Nat /\ a + x \in Nat
      BY <1>1, <2>2
    <3> HIDE DEF y, A
    <3>3. y <= a + x /\ a + x <= y /\ y \in Nat
      BY <2>2, <2>3, <3>1, <3>2
    <3> QED BY <3>2, <3>3
  <2>5. z = x
    <3>1. z \in C /\ \A j \in C : j <= z
      BY <2>1
    <3>2. C \subseteq Nat
      BY <1>1
    <3> HIDE DEF z, C
    <3>3. z <= x /\ x <= z /\ z \in Nat
      BY <2>1, <3>1, <3>2
    <3> QED BY <2>2, <3>3
  <2>6. ValueAfter(L, b, k) = L[y].data.data
    BY <2>2 DEF ValueAfter
  <2>7. LastWriteOf(es, k) = z
    BY DEF LastWriteOf
  <2>8. \E i \in DOMAIN es : es[i].data.key_hash = k
    BY <1>5
  <2> HIDE DEF y, z, C
  <2> QED BY <2>2, <2>4, <2>5, <2>6, <2>7, <2>8 DEF AppliedTo
<1> QED BY <1>4, <1>5

StoredRight(k) ==
  LET g == CalcKeyPos(k)
  IN storage[OwnerOf(g)][k] = ValueAfter(OwnerLog(g), OwnerCommit(g), k)

\* StorageIsCommittedPrefix says that of every key the right value is stored.
LEMMA StorageIs ==
  StorageInv <=> TypeOK /\ (NoStrays => \A k \in Key : StoredRight(k))
BY DEF StorageInv, StorageIsCommittedPrefix, StoredRight, ValueAfter, OwnerLog,
       OwnerCommit

\* A key whose owner keeps the committed entries and the storage
LEMMA StoredStays ==
  ASSUME TypeInv, GroupInv, NoStrays, NEW k \in Key, NEW g, g = CalcKeyPos(k),
         StoredRight(k), storage'[OwnerOf(g)][k] = storage[OwnerOf(g)][k],
         OwnerCommit(g)' = OwnerCommit(g), IsPrefixOf(OwnerLog(g), OwnerLog(g)')
  PROVE  StoredRight(k)'
<1> DEFINE L == OwnerLog(g)
           K == OwnerLog(g)'
           n == OwnerCommit(g)
<1>1. g \in Group
  BY DEF Group
<1>2. n \in 0..Len(L) /\ Len(L) \in Nat
  BY <1>1, OwnerFacts
<1>3. storage[OwnerOf(g)][k] = ValueAfter(L, n, k)
  BY DEF StoredRight
<1>4. StoredRight(k)' <=> storage'[OwnerOf(g)][k] = ValueAfter(K, OwnerCommit(g)', k)
  BY DEF StoredRight
<1>5. IsPrefixOf(L, K)
  OBVIOUS
<1>8. n \in Nat
  BY <1>2
<1> HIDE DEF L, K, n
<1>6. \A i \in 1..n : L[i] = K[i]
  BY <1>2, <1>5 DEF IsPrefixOf
<1>7. ValueAfter(L, n, k) = ValueAfter(K, n, k)
  BY <1>6, <1>8, ValueSame
<1> QED BY <1>3, <1>4, <1>7 DEF n

\* A value stays right when neither its owner's log nor its storage moves.
LEMMA StoredRests ==
  ASSUME TypeInv, GroupInv, NoStrays, StorageInv, NEW k \in Key,
         SameOwner(CalcKeyPos(k)),
         storage'[OwnerOf(CalcKeyPos(k))][k] = storage[OwnerOf(CalcKeyPos(k))][k]
  PROVE  StoredRight(k)'
<1>1. PICK g \in Group : g = CalcKeyPos(k)
  BY DEF Group
<1>2. OwnerLog(g)' = OwnerLog(g) /\ OwnerCommit(g)' = OwnerCommit(g)
  BY <1>1 DEF SameOwner
<1>3. Len(OwnerLog(g)) \in Nat
  BY OwnerFacts
<1>4. IsPrefixOf(OwnerLog(g), OwnerLog(g)')
  BY <1>2, <1>3 DEF IsPrefixOf
<1> QED BY <1>1, <1>2, <1>4, StoredStays, StorageIs

\* What maybe_apply makes of the storage
LEMMA ApplyStores ==
  ASSUME TypeInv, NEW r \in Replica, NEW g, NEW es, Apply(r, g, es), NEW k \in Key
  PROVE  /\ storage'[r][k] = IF \E i \in DOMAIN es : es[i].data.key_hash = k
                               THEN es[LastWriteOf(es, k)].data.data
                               ELSE storage[r][k]
         /\ \A s \in Replica \ {r} : storage'[s] = storage[s]
<1>1. storage \in [Replica -> [Key -> 0..MaxWrites]]
  BY TypeParts, Zenon DEF OtherTypes
<1>2. storage' = [storage EXCEPT ![r] = [q \in Key |->
        IF \E i \in DOMAIN es : es[i].data.key_hash = q
          THEN es[LastWriteOf(es, q)].data.data ELSE storage[r][q]]]
  BY Zenon DEF Apply
<1> QED BY <1>1, <1>2

\* What an owner applies makes its storage right again.
LEMMA StoredByReply ==
  ASSUME TypeInv, GroupInv, NoStrays, StorageInv, NEW r \in Replica,
         NEW s \in Replica, ReplyStep(r, s), NEW k \in Key
  PROVE  StoredRight(k)'
<1>0. PICK g, h, j : /\ g = PacketAt(r, s).group_id /\ h = ReplyResult(r, s)
                     /\ j = CalcKeyPos(k)
  OBVIOUS
<1>1. j \in Group /\ StoredRight(k) /\ OwnerOf(j) \in Replica
  BY <1>0, StorageIs, OwnerIsReplica DEF Group
<1>2. \/ UNCHANGED <<smr, storage>>
      \/ PacketStep(r, s, h) /\ Apply(r, g, h.apply)
  BY <1>0 DEF ReplyStep, AbortStep
<1>3. CASE UNCHANGED <<smr, storage>>
  BY <1>0, <1>1, <1>3, SMRsRest, StoredRests
<1>4. CASE PacketStep(r, s, h) /\ Apply(r, g, h.apply)
  <2>1. /\ g \in Group /\ r = OwnerOf(g) /\ OwnerCounts(g, r, h)
        /\ \A q \in Group \ {g} : SameOwner(q)
    BY <1>0, <1>4, ReplyOwner, ZenonT(60)
  <2>2. /\ storage'[r][k] = IF \E i \in DOMAIN h.apply :
                                 h.apply[i].data.key_hash = k
                              THEN h.apply[LastWriteOf(h.apply, k)].data.data
                              ELSE storage[r][k]
        /\ \A q \in Replica \ {r} : storage'[q] = storage[q]
    BY <1>4, ApplyStores
  <2>3. CASE j = g
    <3>1. /\ OwnerLog(g)' = OwnerLog(g)
          /\ OwnerCommit(g)' \in OwnerCommit(g)..Len(OwnerLog(g))
          /\ h.apply = SubSeq(OwnerLog(g), OwnerCommit(g) + 1, OwnerCommit(g)')
      BY <2>1 DEF OwnerCounts
    <3>2. OwnerLog(g) \in Seq(LogEntry(g)) /\ OwnerCommit(g) \in Nat
      BY <2>1, OwnerFacts
    <3>3. PICK a, b, L, es : /\ a = OwnerCommit(g) /\ b = OwnerCommit(g)'
                             /\ L = OwnerLog(g) /\ es = h.apply
      OBVIOUS
    <3>8. /\ a \in Nat /\ b \in a..Len(L) /\ L \in Seq(LogEntry(g))
          /\ es = SubSeq(L, a + 1, b)
      BY <3>1, <3>2, <3>3
    <3>4. AppliedTo(L, a, b, k, es)
      BY <3>8, ValueStep
    <3>5. storage[r][k] = ValueAfter(L, a, k)
      BY <1>0, <1>1, <2>1, <2>3, <3>3 DEF StoredRight
    <3>6. storage'[r][k] = ValueAfter(L, b, k)
      BY <2>2, <3>3, <3>4, <3>5 DEF AppliedTo
    <3>7. StoredRight(k)' <=>
            storage'[OwnerOf(j)][k] = ValueAfter(OwnerLog(j)', OwnerCommit(j)', k)
      BY <1>0 DEF StoredRight
    <3> QED BY <2>1, <2>3, <3>1, <3>3, <3>6, <3>7
  <2>4. CASE j # g
    <3>1. h.apply \in Seq(LogEntry(g))
      <4>1. h.abort = FALSE
        BY <1>0, ReplyOwner
      <4> QED BY <1>0, <4>1, ReplyStepGives
    <3>2. \A i \in DOMAIN h.apply : h.apply[i].data.key_hash # k
      BY <1>0, <2>4, <3>1 DEF LogEntry
    <3>3. storage'[OwnerOf(j)][k] = storage[OwnerOf(j)][k]
      BY <1>1, <2>2, <3>2
    <3> QED BY <1>0, <1>1, <2>1, <2>4, <3>3, StoredRests
  <2> QED BY <2>3, <2>4
<1> QED BY <1>2, <1>3, <1>4

\* A write that is only appended changes no value.
LEMMA StoredByWrite ==
  ASSUME TypeInv, GroupInv, NoStrays, NoStrays', StorageInv, NEW r \in Replica,
         NEW c \in Client, WriteStep(c, r), NEW k \in Key
  PROVE  StoredRight(k)'
<1>0. PICK g, j : g = WriteGroup(c, r) /\ j = CalcKeyPos(k)
  OBVIOUS
<1>1. OwnerWrites(c, r, g) /\ storage' = storage /\ j \in Group
  BY <1>0, WriteOwner DEF WriteStep, Group
<1>2. CASE j = g
  <2>1. /\ OwnerLog(j)' = Append(OwnerLog(j), WriteEntry(c, r, j))
        /\ WriteEntry(c, r, j) \in LogEntry(j)
        /\ OwnerCommit(j)' = OwnerCommit(j)
    BY <1>1, <1>2 DEF OwnerWrites
  <2>2. OwnerLog(j) \in Seq(LogEntry(j))
    BY <1>1, OwnerFacts
  <2>3. IsPrefixOf(OwnerLog(j), OwnerLog(j)')
    BY <2>1, <2>2 DEF IsPrefixOf
  <2> QED BY <1>0, <1>1, <2>1, <2>3, StoredStays, StorageIs
<1>3. CASE j # g
  BY <1>0, <1>1, <1>3, StoredRests DEF OwnerWrites
<1> QED BY <1>2, <1>3

\* Every step keeps StorageInv.
LEMMA StorageInvStep ==
  TypeInv /\ GroupInv /\ StorageInv /\ [Next]_vars => StorageInv'
<1> SUFFICES ASSUME TypeInv, GroupInv, StorageInv, [Next]_vars PROVE StorageInv'
  OBVIOUS
<1>1. TypeOK'
  BY TypeInvStep DEF TypeInv
<1>2. ASSUME NoStrays', NEW k \in Key PROVE StoredRight(k)'
  <2>1. NoStrays
    BY <1>2, StraysStay
  <2>2. CASE UNCHANGED <<smr, storage>>
    BY <2>1, <2>2, SMRsRest, StoredRests DEF Group
  <2>3. CASE \E r \in Replica, c \in Client : HandleWrite(r, c)
    BY <1>2, <2>1, <2>3, WriteStepFacts, StoredByWrite
  <2>4. CASE \E r, s \in Replica : HandlePeerAppend(r, s)
    <3>1. PICK r \in Replica, s \in Replica : AppendStep(r, s)
      BY <2>4, AppendStepFacts
    <3>2. storage' = storage /\ \A g \in Group : SameOwner(g)
      BY <2>1, <3>1, AppendOwner DEF AppendStep
    <3> QED BY <2>1, <3>2, StoredRests DEF Group
  <2>5. CASE \E r, s \in Replica : HandlePeerReply(r, s)
    BY <2>1, <2>5, ReplyStepFacts, StoredByReply
  <2>6. \/ UNCHANGED <<smr, storage>>
        \/ \E r \in Replica, c \in Client : HandleWrite(r, c)
        \/ \E r, s \in Replica : HandlePeerAppend(r, s)
        \/ \E r, s \in Replica : HandlePeerReply(r, s)
    BY ZenonT(60) DEF Next, vars, serverVars, SendWrite, SendRead, ReceiveReply, Quit,
           FreeConnection, RejectRequest, HandleRead
  <2> QED BY <2>2, <2>3, <2>4, <2>5, <2>6
<1>3. (StorageInv)' <=> TypeOK' /\ (NoStrays' => \A k \in Key : StoredRight(k)')
  BY Zenon DEF StorageInv, StorageIsCommittedPrefix, StoredRight, ValueAfter, OwnerLog,
         OwnerCommit
<1> QED BY <1>1, <1>2, <1>3

\* StorageInv holds at first.
LEMMA StorageInvInit == Init => StorageInv
<1> SUFFICES ASSUME Init, NEW k \in Key PROVE StoredRight(k)
  BY TypeInvInit, StorageIs DEF TypeInv
<1>1. PICK g \in Group : g = CalcKeyPos(k)
  BY DEF Group
<1>2. OwnerLog(g) = <<>> /\ OwnerCommit(g) = 0 /\ storage[OwnerOf(g)][k] = 0
  BY OwnerIsReplica DEF Init, InitSMR, OwnerLog, OwnerCommit
<1>3. ValueAfter(OwnerLog(g), 0, k) = 0
  BY DEF ValueAfter
<1> QED BY <1>1, <1>2, <1>3 DEF StoredRight

\* The storage of an owner is what the committed entries of its groups leave
\* behind, key by key: no interleaving of groups and no jump of a commit index
\* loses a write or applies one twice or too early.
THEOREM StorageIsRight == Spec => []StorageIsCommittedPrefix
<1>1. Init => TypeInv /\ GroupInv /\ StorageInv
  BY TypeInvInit, GroupInvInit, StorageInvInit
<1>2. TypeInv /\ GroupInv /\ StorageInv /\ [Next]_vars
        => (TypeInv /\ GroupInv /\ StorageInv)'
  BY TypeInvStep, GroupInvStep, StorageInvStep
<1>3. StorageInv => StorageIsCommittedPrefix
  BY DEF StorageInv
<1> QED BY <1>1, <1>2, <1>3, PTL DEF Spec

-----------------------------------------------------------------------------
(* Without strays: the three kinds of steps *)

OwnersRest ==
  /\ \A g \in Group : SameOwner(g)
  /\ UNCHANGED <<storage, pendings, answers>>
OwnerTakes(c, r, g) == WriteStep(c, r) /\ OwnerWrites(c, r, g)
OwnerApplies(g, r, h) ==
  /\ g \in Group /\ OwnerCounts(g, r, h) /\ \A k \in Group \ {g} : SameOwner(k)
  /\ ~EmptySlot(r, h.apply) /\ Apply(r, g, h.apply)
  /\ UNCHANGED <<use, pendings, freed, aborted, taken, requests, clientVars>>

\* A reply makes its owner apply entries, or changes nothing that counts here.
LEMMA ReplyApplies ==
  ASSUME TypeInv, GroupInv, NoStrays, NEW r \in Replica, NEW s \in Replica,
         ReplyStep(r, s)
  PROVE  \/ OwnersRest /\ UNCHANGED replies
         \/ \E g \in Group : \E h : OwnerApplies(g, r, h)
<1>0. PICK g, h : g = PacketAt(r, s).group_id /\ h = ReplyResult(r, s)
  OBVIOUS
<1>1. /\ \/ UNCHANGED <<smr, storage, answers, replies>>
         \/ /\ ~EmptySlot(r, h.apply) /\ PacketStep(r, s, h)
            /\ Apply(r, g, h.apply) /\ aborted' = aborted
      /\ UNCHANGED <<use, pendings, freed, taken, requests, clientVars>>
  BY <1>0 DEF ReplyStep, AbortStep, PacketStep
<1>2. CASE UNCHANGED <<smr, storage, answers, replies>>
  BY <1>1, <1>2, SMRsRest DEF OwnersRest
<1>3. CASE PacketStep(r, s, h) /\ ~UNCHANGED <<smr, storage, answers, replies>>
  <2>1. /\ g \in Group /\ OwnerCounts(g, r, h)
        /\ \A k \in Group \ {g} : SameOwner(k)
    BY <1>0, <1>3, ReplyOwner
  <2>2. OwnerApplies(g, r, h)
    BY <1>1, <1>3, <2>1 DEF OwnerApplies
  <2> QED BY <2>1, <2>2
<1> QED BY <1>1, <1>2, <1>3

\* Every step leaves the owners' logs alone, appends a write to one, or commits
\* and applies entries of one.
LEMMA OwnerSteps ==
  ASSUME TypeInv, GroupInv, NoStrays', [Next]_vars
  PROVE  \/ OwnersRest
         \/ \E c \in Client, r \in Replica, g \in Group : OwnerTakes(c, r, g)
         \/ \E g \in Group, r \in Replica : \E h : OwnerApplies(g, r, h)
<1>1. NoStrays
  BY StraysStay
<1>2. CASE UNCHANGED <<smr, storage, pendings, answers>>
  BY <1>2, SMRsRest DEF OwnersRest
<1>3. CASE \E r \in Replica, c \in Client : HandleWrite(r, c)
  <2>1. PICK r \in Replica, c \in Client : WriteStep(c, r)
    BY <1>3, WriteStepFacts
  <2>2. PICK g : g = WriteGroup(c, r)
    OBVIOUS
  <2>3. OwnerWrites(c, r, g) /\ g \in Group
    BY <2>1, <2>2, WriteOwner DEF OwnerWrites
  <2> QED BY <2>1, <2>3 DEF OwnerTakes
<1>4. CASE \E r, s \in Replica : HandlePeerAppend(r, s)
  <2>1. PICK r \in Replica, s \in Replica : AppendStep(r, s)
    BY <1>4, AppendStepFacts
  <2> QED BY <1>1, <2>1, AppendOwner DEF AppendStep, OwnersRest
<1>5. CASE \E r, s \in Replica : HandlePeerReply(r, s)
  BY <1>1, <1>5, ReplyStepFacts, ReplyApplies
<1>6. \/ UNCHANGED <<smr, storage, pendings, answers>>
      \/ \E r \in Replica, c \in Client : HandleWrite(r, c)
      \/ \E r, s \in Replica : HandlePeerAppend(r, s)
      \/ \E r, s \in Replica : HandlePeerReply(r, s)
  <2>0. CASE \E c \in Writer, k \in use.keys, e \in use.epochs, r \in Replica :
               SendWrite(c, k, e, r)
    BY <2>0, Zenon DEF SendWrite, serverVars
  <2>1. CASE \/ \E c \in Reader, k \in Key : SendRead(c, k)
             \/ \E c \in Client, r \in Replica : ReceiveReply(c, r)
    BY <2>1, Zenon DEF SendRead, ReceiveReply, serverVars
  <2>2. CASE \/ \E c \in Client : Quit(c)
             \/ \E r \in Replica, c \in Client : FreeConnection(r, c)
             \/ \E r \in Replica, c \in Client : RejectRequest(r, c)
             \/ \E r \in Replica, c \in Client : HandleRead(r, c)
             \/ UNCHANGED vars
    BY <2>2, Zenon DEF Quit, FreeConnection, RejectRequest, HandleRead, serverVars, vars
  <2> QED BY <2>0, <2>1, <2>2 DEF Next
<1> QED BY <1>2, <1>3, <1>4, <1>5, <1>6

\* An owner only ever adds to its log.
OwnerGrows(g) ==
  /\ DOMAIN OwnerLog(g) \subseteq DOMAIN OwnerLog(g)'
  /\ \A i \in DOMAIN OwnerLog(g) : OwnerLog(g)'[i] = OwnerLog(g)[i]
  /\ Len(OwnerLog(g)) <= Len(OwnerLog(g)')

\* A log that stays the same has grown by nothing.
LEMMA SameGrows ==
  ASSUME TypeInv, GroupInv, NoStrays, NEW g \in Group, OwnerLog(g)' = OwnerLog(g)
  PROVE  OwnerGrows(g)
BY OwnerFacts DEF OwnerGrows

\* The log of the owner when it takes a write
LEMMA TakenEntry ==
  ASSUME TypeInv, GroupInv, NoStrays, NEW c \in Client, NEW r \in Replica,
         NEW g \in Group, OwnerWrites(c, r, g)
  PROVE  LET n == Len(OwnerLog(g)) + 1 IN
           /\ n \in 1..MaxWrites /\ OwnerGrows(g)
           /\ DOMAIN OwnerLog(g)' = 1..n /\ Len(OwnerLog(g)') = n
           /\ OwnerLog(g)'[n] = WriteEntry(c, r, g)
           /\ \A i \in DOMAIN OwnerLog(g)' : i = n \/ i \in DOMAIN OwnerLog(g)
           /\ n \notin DOMAIN OwnerLog(g)
<1> DEFINE n == Len(OwnerLog(g)) + 1
           L == OwnerLog(g)
           K == OwnerLog(g)'
           e == WriteEntry(c, r, g)
<1>1. /\ L \in Seq(LogEntry(g)) /\ e \in LogEntry(g) /\ K = Append(L, e)
      /\ n \in 1..MaxWrites /\ n = Len(L) + 1
  BY OwnerFacts DEF OwnerWrites
<1> HIDE DEF L, K, e, n
<1>2. /\ Len(L) \in Nat /\ DOMAIN L = 1..Len(L) /\ DOMAIN K = 1..n
      /\ Len(K) = n /\ K[n] = e /\ \A i \in 1..Len(L) : K[i] = L[i]
  BY <1>1
<1>3. /\ \A i \in DOMAIN K : i = n \/ i \in DOMAIN L
      /\ n \notin DOMAIN L /\ DOMAIN L \subseteq DOMAIN K /\ Len(L) <= Len(K)
  BY <1>1, <1>2
<1> QED BY <1>1, <1>2, <1>3 DEF L, K, e, n, OwnerGrows

\* No step takes anything away from the log of an owner.
LEMMA OwnersGrow ==
  ASSUME TypeInv, GroupInv, NoStrays', [Next]_vars, NEW g \in Group
  PROVE  OwnerGrows(g)
<1>1. NoStrays
  BY StraysStay
<1>2. CASE OwnersRest
  BY <1>1, <1>2, SameGrows DEF OwnersRest, SameOwner
<1>3. ASSUME NEW c \in Client, NEW r \in Replica, NEW k \in Group,
             OwnerTakes(c, r, k)
      PROVE  OwnerGrows(g)
  <2>1. CASE g = k
    BY <1>1, <1>3, <2>1, TakenEntry DEF OwnerTakes
  <2>2. CASE g # k
    BY <1>1, <1>3, <2>2, SameGrows DEF OwnerTakes, OwnerWrites, SameOwner
  <2> QED BY <2>1, <2>2
<1>4. ASSUME NEW k \in Group, NEW r \in Replica, NEW h, OwnerApplies(k, r, h)
      PROVE  OwnerGrows(g)
  BY <1>1, <1>4, SameGrows DEF OwnerApplies, OwnerCounts, SameOwner
<1> QED BY <1>2, <1>3, <1>4, OwnerSteps

-----------------------------------------------------------------------------
(* The slots of m_client_pendings *)

SlotRight(g, i) ==
  /\ Named(g, i) \in Writer
  /\ Named(g, i) = OwnerLog(g)[i].data.client \/ Collides(g, i)
AnswerRight(a) ==
  /\ a.group \in Group /\ a.replica = OwnerOf(a.group)
  /\ a.index \in DOMAIN OwnerLog(a.group)
  /\ a.client = OwnerLog(a.group)[a.index].data.client
       \/ Collides(a.group, a.index)

\* SlotsInv, entry by entry and answer by answer
LEMMA SlotsInvIs ==
  SlotsInv <=> (NoStrays => /\ \A g \in Group : \A i \in DOMAIN OwnerLog(g) :
                                 SlotRight(g, i)
                            /\ \A a \in answers : AnswerRight(a))
BY DEF SlotsInv, SlotRight, AnswerRight

\* A collision is for ever.
LEMMA CollisionsStay ==
  ASSUME TypeInv, TypeInv', GroupInv, NoStrays', [Next]_vars,
         NEW g, NEW i \in Nat, Collides(g, i)
  PROVE  Collides(g, i)'
<1>1. PICK h \in Group \ {g} : OwnerOf(h) = OwnerOf(g) /\ Len(OwnerLog(h)) >= i
  BY DEF Collides
<1>2. Len(OwnerLog(h)) <= Len(OwnerLog(h)') /\ Len(OwnerLog(h)) \in Nat
  BY OwnersGrow, OwnerFacts, StraysStay DEF OwnerGrows
<1>3. Len(OwnerLog(h)') \in Nat
  <2>1. Typed(SMRs(h)', OnLinks(h)', LogEntry(h))
    BY DEF TypeInv, ServersTyped, GroupTyped
  <2>2. SMRs(h)'[OwnerOf(h)] \in StateOf(LogEntry(h))
    BY <2>1, OwnerIsReplica DEF Typed
  <2>3. OwnerLog(h)' \in Seq(LogEntry(h))
    BY <2>2, SMRsBecome, OwnerIsReplica DEF StateOf, OwnerLog
  <2> QED BY <2>3
<1>4. Len(OwnerLog(h)') >= i
  BY <1>1, <1>2, <1>3
<1> QED BY <1>1, <1>4 DEF Collides

\* A reply that was right stays right.
LEMMA AnswersStay ==
  ASSUME TypeInv, TypeInv', GroupInv, NoStrays', [Next]_vars, NEW a, AnswerRight(a)
  PROVE  AnswerRight(a)'
<1>1. PICK g \in Group : g = a.group
  BY DEF AnswerRight
<1>2. a.replica = OwnerOf(g) /\ a.index \in DOMAIN OwnerLog(g) /\ a.index \in Nat
  BY <1>1, OwnerFacts, StraysStay DEF AnswerRight
<1>3. OwnerGrows(g)
  BY OwnersGrow
<1>4. a.client = OwnerLog(g)'[a.index].data.client \/ Collides(g, a.index)'
  <2>1. CASE a.client = OwnerLog(g)[a.index].data.client
    BY <1>2, <1>3, <2>1 DEF OwnerGrows
  <2>2. CASE Collides(g, a.index)
    BY <1>2, <2>2, CollisionsStay
  <2> QED BY <1>1, <2>1, <2>2 DEF AnswerRight
<1> QED BY <1>1, <1>2, <1>3, <1>4 DEF AnswerRight, OwnerGrows

\* A slot that is right and is not written stays right.
LEMMA SlotStays ==
  ASSUME TypeInv, TypeInv', GroupInv, NoStrays', [Next]_vars,
         NEW g \in Group, NEW i \in DOMAIN OwnerLog(g), SlotRight(g, i),
         pendings'[OwnerOf(g)][i] = pendings[OwnerOf(g)][i]
  PROVE  SlotRight(g, i)'
<1>1. OwnerGrows(g) /\ i \in Nat
  BY OwnersGrow, OwnerFacts, StraysStay
<1>2. Named(g, i)' = Named(g, i) /\ OwnerLog(g)'[i] = OwnerLog(g)[i]
  BY <1>1 DEF Named, OwnerGrows
<1>3. Collides(g, i) => Collides(g, i)'
  BY <1>1, CollisionsStay
<1> QED BY <1>2, <1>3 DEF SlotRight

\* The slot a write takes, and those of other groups it is taken from
LEMMA SlotsOfWrite ==
  ASSUME TypeInv, TypeInv', GroupInv, NoStrays', [Next]_vars, SlotsInv,
         NEW c \in Client, NEW r \in Replica, NEW k \in Group,
         OwnerTakes(c, r, k), NEW g \in Group, NEW i \in DOMAIN OwnerLog(g)'
  PROVE  SlotRight(g, i)'
<1> DEFINE n == Len(OwnerLog(k)) + 1
<1>0. NoStrays
  BY StraysStay
<1>1. /\ r = OwnerOf(k) /\ c \in Writer
      /\ pendings' = [pendings EXCEPT ![r][n] = c] /\ n \in 1..MaxWrites
      /\ \A q \in Group \ {k} : SameOwner(q)
  BY DEF OwnerTakes, OwnerWrites, WriteStep
<1>2. /\ DOMAIN OwnerLog(k)' = 1..n /\ Len(OwnerLog(k)') = n
      /\ OwnerLog(k)'[n] = WriteEntry(c, r, k)
      /\ \A j \in DOMAIN OwnerLog(k)' : j = n \/ j \in DOMAIN OwnerLog(k)
  BY <1>0, TakenEntry DEF OwnerTakes
<1> HIDE DEF n
<1>3. pendings \in [Replica -> [1..MaxWrites -> Client \cup {NoClient}]]
  BY TypeParts DEF OtherTypes
<1>4. /\ pendings'[r][n] = c
      /\ \A q \in Replica, j \in 1..MaxWrites :
           q # r \/ j # n => pendings'[q][j] = pendings[q][j]
  BY <1>1, <1>3
<1>5. CASE OwnerOf(g) = r /\ i = n
  <2>1. Named(g, i)' = c
    BY <1>4, <1>5 DEF Named
  <2>2. CASE g = k
    <3>1. OwnerLog(g)'[i].data.client = c
      BY <1>2, <1>5, <2>2 DEF WriteEntry, NewEntry, WriteOp
    <3> QED BY <1>1, <2>1, <3>1 DEF SlotRight
  <2>3. CASE g # k
    <3>1. k \in Group \ {g} /\ OwnerOf(k) = OwnerOf(g) /\ Len(OwnerLog(k)') >= i
      BY <1>1, <1>2, <1>5, <2>3
    <3>2. Collides(g, i)'
      BY <3>1 DEF Collides
    <3> QED BY <1>1, <2>1, <3>2 DEF SlotRight
  <2> QED BY <2>2, <2>3
<1>6. CASE ~(OwnerOf(g) = r /\ i = n)
  <2>1. i \in DOMAIN OwnerLog(g)
    BY <1>1, <1>2, <1>6 DEF SameOwner
  <2>2. SlotRight(g, i)
    BY <1>0, <2>1, SlotsInvIs
  <2>3. i \in 1..MaxWrites /\ OwnerOf(g) \in Replica
    BY <1>0, <2>1, OwnerFacts, UseAssumption
  <2>4. pendings'[OwnerOf(g)][i] = pendings[OwnerOf(g)][i]
    BY <1>4, <1>6, <2>3
  <2> QED BY <2>1, <2>2, <2>4, SlotStays
<1> QED BY <1>5, <1>6

\* The entries an owner applies, and where they are in its log
LEMMA AppliedEntries ==
  ASSUME TypeInv, GroupInv, NoStrays, NEW g \in Group, NEW r, NEW h,
         OwnerCounts(g, r, h)
  PROVE  /\ DOMAIN h.apply = 1..(OwnerCommit(g)' - OwnerCommit(g))
         /\ \A i \in DOMAIN h.apply :
              /\ i \in Nat \ {0} /\ OwnerCommit(g) + i \in DOMAIN OwnerLog(g)
              /\ OwnerCommit(g) + i \in (OwnerCommit(g) + 1)..OwnerCommit(g)'
              /\ h.apply[i] = OwnerLog(g)[OwnerCommit(g) + i]
              /\ h.apply[i].index = OwnerCommit(g) + i
<1>0. PICK a, b, L : a = OwnerCommit(g) /\ b = OwnerCommit(g)' /\ L = OwnerLog(g)
  OBVIOUS
<1>1. /\ L \in Seq(LogEntry(g)) /\ Len(L) \in Nat /\ DOMAIN L = 1..Len(L)
      /\ \A i \in 1..Len(L) : L[i].index = i
      /\ a \in Nat /\ b \in a..Len(L) /\ h.apply = SubSeq(L, a + 1, b)
  BY <1>0, OwnerFacts DEF OwnerCounts
<1>2. /\ DOMAIN h.apply = 1..(b - a)
      /\ \A i \in 1..(b - a) : /\ i \in Nat \ {0} /\ a + i \in 1..Len(L)
                               /\ a + i \in (a + 1)..b
                               /\ h.apply[i] = L[a + i]
  BY <1>1
<1>3. \A i \in 1..(b - a) : h.apply[i].index = a + i
  BY <1>1, <1>2
<1> QED BY <1>0, <1>1, <1>2, <1>3

\* A reply sent for an applied entry is right, as its slot is.
LEMMA AnswersOfReply ==
  ASSUME TypeInv, GroupInv, NoStrays, SlotsInv,
         NEW g \in Group, NEW r \in Replica, NEW h, OwnerApplies(g, r, h),
         NEW a \in answers', a \notin answers
  PROVE  AnswerRight(a)
<1>1. PICK i \in DOMAIN h.apply :
        a = [replica |-> r, group |-> g, index |-> h.apply[i].index,
             client |-> pendings[r][h.apply[i].index]]
  BY Zenon DEF OwnerApplies, Apply
<1>2. PICK j : j = h.apply[i].index
  OBVIOUS
<1>3. j \in DOMAIN OwnerLog(g) /\ r = OwnerOf(g)
  <2>1. OwnerCounts(g, r, h)
    BY DEF OwnerApplies
  <2>2. /\ OwnerCommit(g) + i \in DOMAIN OwnerLog(g)
        /\ h.apply[i].index = OwnerCommit(g) + i
    BY <2>1, AppliedEntries
  <2> QED BY <1>2, <2>1, <2>2 DEF OwnerCounts
<1>4. SlotRight(g, j)
  BY <1>3, SlotsInvIs
<1> QED BY <1>1, <1>2, <1>3, <1>4 DEF AnswerRight, SlotRight, Named

\* Every step keeps SlotsInv.
LEMMA SlotsInvStep ==
  TypeInv /\ GroupInv /\ SlotsInv /\ [Next]_vars => SlotsInv'
<1> SUFFICES ASSUME TypeInv, GroupInv, SlotsInv, [Next]_vars, NoStrays'
             PROVE  /\ \A g \in Group : \A i \in DOMAIN OwnerLog(g)' :
                         SlotRight(g, i)'
                    /\ \A a \in answers' : AnswerRight(a)'
  BY DEF SlotsInv, SlotRight, AnswerRight
<1>0. NoStrays /\ TypeInv'
  BY StraysStay, TypeInvStep
<1>1. \A a \in answers : AnswerRight(a)'
  BY <1>0, AnswersStay, SlotsInvIs
<1>2. CASE OwnersRest
  <2>1. \A g \in Group : \A i \in DOMAIN OwnerLog(g)' : SlotRight(g, i)'
    BY <1>0, <1>2, SlotStays, SlotsInvIs DEF OwnersRest, SameOwner
  <2> QED BY <1>1, <1>2, <2>1 DEF OwnersRest
<1>3. ASSUME NEW c \in Client, NEW r \in Replica, NEW k \in Group,
             OwnerTakes(c, r, k)
      PROVE  /\ \A g \in Group : \A i \in DOMAIN OwnerLog(g)' : SlotRight(g, i)'
             /\ \A a \in answers' : AnswerRight(a)'
  <2>1. \A g \in Group : \A i \in DOMAIN OwnerLog(g)' : SlotRight(g, i)'
    BY <1>0, <1>3, SlotsOfWrite
  <2> QED BY <1>1, <1>3, <2>1 DEF OwnerTakes, WriteStep
<1>4. ASSUME NEW k \in Group, NEW r \in Replica, NEW h, OwnerApplies(k, r, h)
      PROVE  /\ \A g \in Group : \A i \in DOMAIN OwnerLog(g)' : SlotRight(g, i)'
             /\ \A a \in answers' : AnswerRight(a)'
  <2>1. /\ \A g \in Group : OwnerLog(g)' = OwnerLog(g)
        /\ pendings' = pendings
    BY <1>4 DEF OwnerApplies, OwnerCounts, SameOwner
  <2>2. \A g \in Group : \A i \in DOMAIN OwnerLog(g)' : SlotRight(g, i)'
    BY <1>0, <2>1, SlotStays, SlotsInvIs
  <2>3. \A a \in answers' : AnswerRight(a)'
    BY <1>0, <1>1, <1>4, AnswersOfReply, AnswersStay
  <2> QED BY <2>2, <2>3
<1> QED BY <1>2, <1>3, <1>4, OwnerSteps

\* SlotsInv holds at first.
LEMMA SlotsInvInit == Init => SlotsInv
<1> SUFFICES ASSUME Init PROVE SlotsInv
  OBVIOUS
<1>1. answers = {} /\ \A g \in Group : OwnerLog(g) = <<>>
  BY OwnerIsReplica DEF Init, InitSMR, OwnerLog
<1> QED BY <1>1 DEF SlotsInv

\* A reply to a write goes to the client that sent the write, unless another
\* group of the replica has an entry of that index, or a group was written to
\* at a replica that does not own it.
THEOREM RepliesFindTheirClients == Spec => []MisdirectNeedsCollision
<1>1. Init => TypeInv /\ GroupInv /\ SlotsInv
  BY TypeInvInit, GroupInvInit, SlotsInvInit
<1>2. TypeInv /\ GroupInv /\ SlotsInv /\ [Next]_vars
        => (TypeInv /\ GroupInv /\ SlotsInv)'
  BY TypeInvStep, GroupInvStep, SlotsInvStep
<1>3. TypeInv /\ GroupInv /\ SlotsInv => MisdirectNeedsCollision
  <2> SUFFICES ASSUME TypeInv, GroupInv, SlotsInv, NoStrays, NEW a \in answers
               PROVE  \/ /\ a.index <= Len(smr[a.replica][a.group].log)
                         /\ a.client =
                              smr[a.replica][a.group].log[a.index].data.client
                      \/ \E g \in Group \ {a.group} :
                           /\ OwnerOf(g) = a.replica
                           /\ Len(OwnerLog(g)) >= a.index
    BY DEF MisdirectNeedsCollision
  <2>1. AnswerRight(a)
    BY SlotsInvIs
  <2>2. PICK g \in Group : g = a.group
    BY <2>1 DEF AnswerRight
  <2>3. /\ a.replica = OwnerOf(g) /\ OwnerLog(g) = smr[a.replica][a.group].log
        /\ a.index \in DOMAIN OwnerLog(g)
        /\ a.client = OwnerLog(g)[a.index].data.client \/ Collides(g, a.index)
    BY <2>1, <2>2 DEF AnswerRight, OwnerLog
  <2>4. a.index <= Len(OwnerLog(g))
    BY <2>3, OwnerFacts
  <2> QED BY <2>2, <2>3, <2>4 DEF Collides
<1> QED BY <1>1, <1>2, <1>3, PTL DEF Spec

-----------------------------------------------------------------------------
(* The numbers of the writes *)

\* Either no write is sent, or one with a number that nobody had before.
NoneSent ==
  /\ writes' = writes /\ UnderWay' \subseteq UnderWay
  /\ \A c \in Writer : request'[c] = request[c]
WriteSent(c) ==
  /\ writes' = writes + 1 /\ UnderWay' \subseteq UnderWay \cup {writes + 1}
  /\ request'[c] \in WriteRequest /\ request'[c].data = writes + 1
  /\ request'[c].key_hash \in use.keys
  /\ \A d \in Client \ {c} : request'[d] = request[d]

\* The request that is sent brings its number and no other.
LEMMA SentNumber ==
  ASSUME RequestsTyped, NEW c \in Writer, NEW r \in Replica,
         NEW m \in WriteRequest, SendsRequest(c, r, m)
  PROVE  UnderWay' \subseteq UnderWay \cup {m.data}
<1> SUFFICES ASSUME NEW v \in UnderWay', v # m.data PROVE v \in UnderWay
  OBVIOUS
<1>1. PICK d \in Writer, s \in Replica : \E i \in DOMAIN requests'[d][s] :
        requests'[d][s][i].data = v
  BY DEF UnderWay
<1>2. PICK i \in DOMAIN requests'[d][s] : requests'[d][s][i].data = v
  BY <1>1
<1>3. /\ requests'[c][r] = Append(requests[c][r], m)
      /\ \A a \in Client, b \in Replica :
           a # c \/ b # r => requests'[a][b] = requests[a][b]
  BY ClientAssumption, SentRequest DEF Client
<1>4. i \in DOMAIN requests[d][s] /\ requests[d][s][i].data = v
  <2>1. CASE d = c /\ s = r
    <3>1. requests[c][r] \in Seq(WriteRequest)
      BY DEF RequestsTyped
    <3>2. /\ Append(requests[c][r], m)[i].data = v
          /\ i \in DOMAIN Append(requests[c][r], m)
      BY <1>2, <1>3, <2>1
    <3>3. \/ Append(requests[c][r], m)[i] = m
          \/ /\ i \in DOMAIN requests[c][r]
             /\ Append(requests[c][r], m)[i] = requests[c][r][i]
      BY <3>1, <3>2
    <3> QED BY <2>1, <3>2, <3>3
  <2>2. CASE ~(d = c /\ s = r)
    BY <1>2, <1>3, <2>2 DEF Client
  <2> QED BY <2>1, <2>2
<1>5. v \in 1..MaxWrites
  BY DEF UnderWay
<1> QED BY <1>4, <1>5 DEF UnderWay

\* Where requests only disappear, no write is sent.
LEMMA ShrinkingSendsNone ==
  ASSUME TypeInv, RequestsShrink, writes' = writes,
         \A c \in Writer : request'[c] = request[c]
  PROVE  NoneSent
BY TypeParts, ShrinkFacts DEF NoneSent

\* Every step sends no write, or one with the next number.
LEMMA NumbersMove ==
  ASSUME TypeInv, [Next]_vars
  PROVE  use' = use /\ (NoneSent \/ \E c \in Writer : WriteSent(c))
<1>0. /\ RequestsTyped /\ UnderWayNumbers /\ AskersTyped
      /\ use.keys \subseteq Key /\ use.epochs \subseteq Nat
      /\ writes \in Nat /\ use.writes \in 0..MaxWrites /\ MaxWrites \in Nat
  BY TypeParts
<1>1. ASSUME NEW c \in Writer, NEW k \in use.keys, NEW e \in use.epochs,
             NEW r \in Replica, SendWrite(c, k, e, r)
      PROVE  use' = use /\ WriteSent(c)
  <2> DEFINE m == [epoch |-> e, op_type |-> "write", key_hash |-> k,
                   data |-> writes + 1]
  <2>1. /\ use' = use /\ writes < use.writes /\ writes' = writes + 1
        /\ SendsRequest(c, r, m) /\ request' = [request EXCEPT ![c] = m]
    BY <1>1 DEF SendWrite, SendsRequest
  <2>2. m \in WriteRequest /\ m.data = writes + 1 /\ m.key_hash \in use.keys
    BY <1>0, <2>1 DEF WriteRequest
  <2> HIDE DEF m
  <2>3. UnderWay' \subseteq UnderWay \cup {writes + 1}
    BY <1>0, <2>1, <2>2, SentNumber
  <2>4. request'[c] = m /\ \A d \in Client \ {c} : request'[d] = request[d]
    BY <1>0, <2>1 DEF AskersTyped, Client
  <2> QED BY <2>1, <2>2, <2>3, <2>4 DEF WriteSent
<1>2. ASSUME NEW c \in Reader, NEW k \in Key, SendRead(c, k)
      PROVE  use' = use /\ NoneSent
  <2> DEFINE m == [epoch |-> Epoch, op_type |-> "read", key_hash |-> k, data |-> 0]
             r == OwnerOf(CalcKeyPos(k))
  <2>1. /\ use' = use /\ writes' = writes
        /\ SendsRequest(c, r, m) /\ request' = [request EXCEPT ![c] = m]
    BY <1>2 DEF SendRead, SendsRequest
  <2>2. m \in ReadRequest /\ r \in Replica /\ c \in Client /\ c \notin Writer
    BY OwnerIsReplica, ClientAssumption DEF ReadRequest, Group, Client
  <2> HIDE DEF m, r
  <2>3. \A d \in Writer : /\ request'[d] = request[d]
                          /\ \A s \in Replica : requests'[d][s] = requests[d][s]
    BY <1>0, <2>1, <2>2, SentRequest DEF AskersTyped, Client
  <2> QED BY <1>0, <2>1, <2>3, SameRequests, ShrinkingSendsNone
<1>3. ASSUME NEW c \in Client, NEW r \in Replica,
             FreeConnection(r, c)
      PROVE  use' = use /\ NoneSent
  <2>1. use' = use /\ writes' = writes /\ request' = request /\ FreesRequests(c, r)
    BY <1>3 DEF FreeConnection, FreesRequests, clientVars
  <2> QED BY <1>0, <2>1, FreedRequests, ShrinkingSendsNone
<1>4. ASSUME NEW c \in Client, NEW r \in Replica,
             RejectRequest(r, c) \/ HandleRead(r, c) \/ HandleWrite(r, c)
      PROVE  use' = use /\ NoneSent
  <2>1. /\ use' = use /\ writes' = writes /\ request' = request
        /\ requests[c][r] # <<>> /\ TakesRequest(c, r)
    BY <1>4, Zenon DEF RejectRequest, HandleRead, HandleWrite, TakesRequest, clientVars
  <2> QED BY <1>0, <2>1, TakingShrinks, ShrinkingSendsNone, Zenon
<1>5. CASE UNCHANGED <<use, requests, request, writes>>
  BY <1>0, <1>5, SameRequests, ShrinkingSendsNone
<1>6. \/ \E c \in Writer, k \in use.keys, e \in use.epochs, r \in Replica :
           SendWrite(c, k, e, r)
      \/ \E c \in Reader, k \in Key : SendRead(c, k)
      \/ \E r \in Replica, c \in Client : FreeConnection(r, c)
      \/ \E r \in Replica, c \in Client :
           RejectRequest(r, c) \/ HandleRead(r, c) \/ HandleWrite(r, c)
      \/ UNCHANGED <<use, requests, request, writes>>
  <2>1. CASE \/ \E c \in Client, r \in Replica : ReceiveReply(c, r)
             \/ \E c \in Client : Quit(c)
             \/ \E r, s \in Replica : HandlePeerAppend(r, s)
    BY <2>1, Zenon DEF ReceiveReply, Quit, HandlePeerAppend, clientVars
  <2>2. CASE \E r, s \in Replica : HandlePeerReply(r, s)
    BY <2>2, Zenon DEF HandlePeerReply, clientVars
  <2>3. CASE UNCHANGED vars
    BY <2>3 DEF vars, clientVars
  <2> QED BY <2>1, <2>2, <2>3, Zenon DEF Next
<1> QED BY <1>1, <1>2, <1>3, <1>4, <1>5, <1>6

\* No two clients ever get to send the same number.
LEMMA RequestNumbersStep ==
  ASSUME TypeInv, RequestNumbers, [Next]_vars
  PROVE  RequestNumbers'
<1>1. use' = use /\ writes \in Nat
      /\ \A c \in Writer : request[c] \in WriteRequest => request[c].data \in Nat
  BY NumbersMove, TypeParts DEF WriteRequest
<1>2. CASE NoneSent
  BY <1>1, <1>2 DEF NoneSent, RequestNumbers
<1>3. ASSUME NEW c \in Writer, WriteSent(c) PROVE RequestNumbers'
  <2>1. ASSUME NEW d \in Writer, request'[d] \in WriteRequest
        PROVE  /\ request'[d].data <= writes' /\ request'[d].key_hash \in use.keys
               /\ request'[d].data = writes + 1 => d = c
    <3>1. CASE d = c
      BY <1>1, <1>3, <3>1 DEF WriteSent
    <3>2. CASE d # c
      <4>1. request'[d] = request[d] /\ writes' = writes + 1
        BY <1>3, <3>2 DEF WriteSent, Client
      <4>2. request[d].data <= writes /\ request[d].key_hash \in use.keys
        BY <2>1, <4>1 DEF RequestNumbers
      <4>3. request[d].data \in Nat
        BY <1>1, <2>1, <4>1
      <4> QED BY <1>1, <4>1, <4>2, <4>3
    <3> QED BY <3>1, <3>2
  <2>2. ASSUME NEW d \in Writer, NEW f \in Writer, request'[d] \in WriteRequest,
               request'[f] \in WriteRequest, request'[d].data = request'[f].data
        PROVE  d = f
    <3>1. CASE d = c \/ f = c
      BY <1>3, <2>1, <2>2, <3>1 DEF WriteSent
    <3>2. CASE d # c /\ f # c
      BY <1>3, <2>2, <3>2 DEF WriteSent, RequestNumbers, Client
    <3> QED BY <3>1, <3>2
  <2> QED BY <1>1, <2>1, <2>2 DEF RequestNumbers
<1> QED BY <1>2, <1>3, NumbersMove

\* The number of a write that a server takes was on its way and is no more.
LEMMA TakenNumber ==
  ASSUME TypeInv, NEW c \in Client, NEW r \in Replica, WriteStep(c, r)
  PROVE  /\ RequestAt(c, r).data \in UnderWay \ UnderWay'
         /\ UnderWay' \subseteq UnderWay /\ writes' = writes
         /\ RequestAt(c, r).data <= writes
<1>1. /\ c \in Writer /\ requests[c][r] # <<>> /\ TakesRequest(c, r)
      /\ writes' = writes
  BY DEF WriteStep, clientVars
<1>2. RequestsTyped /\ UnderWayNumbers /\ writes \in Nat
  BY TypeParts
<1>3. /\ RequestsShrink
      /\ RequestAt(c, r).data \in UnderWay /\ RequestAt(c, r).data \notin UnderWay'
  BY <1>1, <1>2, TakingShrinks DEF RequestAt
<1>4. UnderWay' \subseteq UnderWay
  BY <1>1, <1>2, <1>3, ShrinkFacts
<1>5. RequestAt(c, r).data <= writes
  <2>1. 1 \in DOMAIN requests[c][r] /\ requests[c][r][1] = RequestAt(c, r)
    BY <1>1, <1>2, TakenRequest DEF RequestAt
  <2> QED BY <1>1, <1>2, <2>1 DEF UnderWayNumbers
<1> QED BY <1>1, <1>3, <1>4, <1>5

\* A number enters a log when it stops being under way, so it enters once.
LEMMA LogNumbersStep ==
  ASSUME TypeInv, GroupInv, NoStrays', [Next]_vars, LogNumbers
  PROVE  LogNumbers'
<1>0. NoStrays /\ writes \in Nat
  BY StraysStay, TypeParts
<1>1. \A g \in Group : \A i \in DOMAIN OwnerLog(g) :
        /\ NumberAt(g, i) \in Nat /\ NumberAt(g, i) <= writes
        /\ NumberAt(g, i) \notin UnderWay
  <2> SUFFICES ASSUME NEW g \in Group, NEW i \in DOMAIN OwnerLog(g)
               PROVE  NumberAt(g, i) \in Nat
    BY DEF LogNumbers
  <2>1. OwnerLog(g)[i] \in AnyEntry
    BY <1>0, OwnerFacts DEF LogEntry
  <2> QED BY <2>1, UseAssumption DEF AnyEntry, NumberAt
<1>2. CASE \A g \in Group : SameOwner(g)
  <2>1. \A g \in Group : /\ DOMAIN OwnerLog(g)' = DOMAIN OwnerLog(g)
                         /\ \A i : NumberAt(g, i)' = NumberAt(g, i)
    BY <1>2 DEF SameOwner, NumberAt
  <2>2. \/ writes' = writes /\ UnderWay' \subseteq UnderWay
        \/ writes' = writes + 1 /\ UnderWay' \subseteq UnderWay \cup {writes + 1}
    BY NumbersMove DEF NoneSent, WriteSent
  <2>3. \A n \in Nat : n <= writes /\ n \notin UnderWay
                         => n <= writes' /\ n \notin UnderWay'
    BY <1>0, <2>2
  <2>4. \A g \in Group : \A i \in DOMAIN OwnerLog(g)' :
          NumberAt(g, i)' <= writes' /\ NumberAt(g, i)' \notin UnderWay'
    BY <1>1, <2>1, <2>3
  <2>5. \A g, h \in Group :
          \A i \in DOMAIN OwnerLog(g)', j \in DOMAIN OwnerLog(h)' :
            NumberAt(g, i)' = NumberAt(h, j)' => g = h /\ i = j
    BY <2>1 DEF LogNumbers
  <2> QED BY <2>4, <2>5 DEF LogNumbers
<1>3. ASSUME NEW c \in Client, NEW r \in Replica, NEW k \in Group,
             OwnerTakes(c, r, k)
      PROVE  LogNumbers'
  <2>0. PICK n, v : n = Len(OwnerLog(k)) + 1 /\ v = RequestAt(c, r).data
    OBVIOUS
  <2>1. /\ OwnerWrites(c, r, k) /\ v \in UnderWay \ UnderWay' /\ v <= writes
        /\ UnderWay' \subseteq UnderWay /\ writes' = writes
    BY <1>3, <2>0, TakenNumber DEF OwnerTakes
  <2>2. /\ OwnerLog(k)'[n] = WriteEntry(c, r, k)
        /\ \A i \in DOMAIN OwnerLog(k)' : i = n \/ i \in DOMAIN OwnerLog(k)
        /\ \A i \in DOMAIN OwnerLog(k) : OwnerLog(k)'[i] = OwnerLog(k)[i]
        /\ n \notin DOMAIN OwnerLog(k)
    BY <1>0, <2>0, <2>1, TakenEntry DEF OwnerGrows
  <2>3. NumberAt(k, n)' = v
    BY <2>0, <2>2 DEF NumberAt, WriteEntry, NewEntry, WriteOp
  <2>4. ASSUME NEW g \in Group, NEW i \in DOMAIN OwnerLog(g)'
        PROVE  \/ g = k /\ i = n /\ NumberAt(g, i)' = v
               \/ i \in DOMAIN OwnerLog(g) /\ NumberAt(g, i)' = NumberAt(g, i)
    <3>1. CASE g = k
      BY <2>2, <2>3, <3>1 DEF NumberAt
    <3>2. CASE g # k
      BY <2>1, <3>2 DEF OwnerWrites, SameOwner, NumberAt
    <3> QED BY <3>1, <3>2
  <2>5. \A g \in Group : \A i \in DOMAIN OwnerLog(g)' :
          NumberAt(g, i)' <= writes' /\ NumberAt(g, i)' \notin UnderWay'
    BY <1>1, <2>1, <2>4
  <2>6. ASSUME NEW g \in Group, NEW h \in Group,
               NEW i \in DOMAIN OwnerLog(g)', NEW j \in DOMAIN OwnerLog(h)',
               NumberAt(g, i)' = NumberAt(h, j)'
        PROVE  g = h /\ i = j
    <3>0. \A q \in Group : \A l \in DOMAIN OwnerLog(q) : NumberAt(q, l) # v
      BY <1>1, <2>1
    <3>1. CASE g = k /\ i = n /\ NumberAt(g, i)' = v
      <4>1. h = k /\ j = n
        BY <2>4, <2>6, <3>0, <3>1, ZenonT(60)
      <4> QED BY <3>1, <4>1
    <3>2. CASE h = k /\ j = n /\ NumberAt(h, j)' = v
      <4>1. g = k /\ i = n
        BY <2>4, <2>6, <3>0, <3>2
      <4> QED BY <3>2, <4>1
    <3>3. CASE /\ i \in DOMAIN OwnerLog(g) /\ NumberAt(g, i)' = NumberAt(g, i)
               /\ j \in DOMAIN OwnerLog(h) /\ NumberAt(h, j)' = NumberAt(h, j)
      BY <2>6, <3>3, ZenonT(60) DEF LogNumbers
    <3> QED BY <2>4, <3>1, <3>2, <3>3
  <2> QED BY <2>5, <2>6 DEF LogNumbers
<1>4. ASSUME NEW k \in Group, NEW r \in Replica, NEW h, OwnerApplies(k, r, h)
      PROVE  LogNumbers'
  <2>1. \A g \in Group : OwnerLog(g)' = OwnerLog(g)
    BY <1>4 DEF OwnerApplies, OwnerCounts, SameOwner
  <2>2. requests' = requests /\ writes' = writes
    BY <1>4 DEF OwnerApplies, clientVars
  <2> QED BY <2>1, <2>2 DEF LogNumbers, NumberAt, UnderWay
<1> QED BY <1>2, <1>3, <1>4, OwnerSteps DEF OwnersRest

\* Every step keeps NumbersInv.
LEMMA NumbersInvStep ==
  TypeInv /\ GroupInv /\ NumbersInv /\ [Next]_vars => NumbersInv'
BY RequestNumbersStep, LogNumbersStep, StraysStay DEF NumbersInv

\* NumbersInv holds at first.
LEMMA NumbersInvInit == Init => NumbersInv
<1> SUFFICES ASSUME Init PROVE NumbersInv
  OBVIOUS
<1>1. \A g \in Group : OwnerLog(g) = <<>>
  BY OwnerIsReplica DEF Init, InitSMR, OwnerLog
<1>2. \A c \in Writer : request[c] \notin WriteRequest
  BY DEF Init, NoRequest, WriteRequest, Client
<1> QED BY <1>1, <1>2 DEF NumbersInv, RequestNumbers, LogNumbers

-----------------------------------------------------------------------------
(* What holds of a write for ever *)

\* An entry of a write stays where it is.
LEMMA EntryStays ==
  ASSUME TypeInv, GroupInv, NoStrays', [Next]_vars,
         NEW w, NEW g \in Group, NEW i, IsEntryOf(w, g, i)
  PROVE  IsEntryOf(w, g, i)'
BY OwnersGrow DEF IsEntryOf, OwnerGrows

\* The commit index of an owner never goes back.
LEMMA CommitsGrow ==
  ASSUME TypeInv, GroupInv, NoStrays', [Next]_vars, NEW g \in Group
  PROVE  OwnerCommit(g)' \in Nat /\ OwnerCommit(g) <= OwnerCommit(g)'
<1>1. NoStrays
  BY StraysStay
<1>2. OwnerCommit(g) \in Nat /\ Len(OwnerLog(g)) \in Nat
  BY <1>1, OwnerFacts
<1>3. \/ OwnerCommit(g)' = OwnerCommit(g)
      \/ OwnerCommit(g)' \in OwnerCommit(g)..Len(OwnerLog(g))
  <2>1. CASE OwnersRest
    BY <2>1 DEF OwnersRest, SameOwner
  <2>2. ASSUME NEW c \in Client, NEW r \in Replica, NEW k \in Group,
               OwnerTakes(c, r, k)
        PROVE  OwnerCommit(g)' = OwnerCommit(g)
    BY <2>2 DEF OwnerTakes, OwnerWrites, SameOwner
  <2>3. ASSUME NEW k \in Group, NEW r \in Replica, NEW h, OwnerApplies(k, r, h)
        PROVE  \/ OwnerCommit(g)' = OwnerCommit(g)
               \/ OwnerCommit(g)' \in OwnerCommit(g)..Len(OwnerLog(g))
    BY <2>3 DEF OwnerApplies, OwnerCounts, SameOwner
  <2> QED BY <2>1, <2>2, <2>3, OwnerSteps
<1> QED BY <1>2, <1>3

\* A committed write stays committed.
LEMMA CommittedStays ==
  ASSUME TypeInv, GroupInv, NoStrays', [Next]_vars, NEW w, Committed(w)
  PROVE  Committed(w)'
<1>1. PICK g \in Group : \E i \in 1..OwnerCommit(g) : IsEntryOf(w, g, i)
  BY DEF Committed
<1>2. PICK i \in 1..OwnerCommit(g) : IsEntryOf(w, g, i)
  BY <1>1
<1>3. IsEntryOf(w, g, i)'
  BY <1>2, EntryStays
<1>4. i \in 1..OwnerCommit(g)'
  <2>1. OwnerCommit(g) \in Nat
    BY StraysStay, OwnerFacts
  <2> QED BY <2>1, CommitsGrow
<1> QED BY <1>3, <1>4 DEF Committed

\* A value that is not older than a write stays so.
LEMMA NotOlderStays ==
  ASSUME TypeInv, GroupInv, NoStrays', [Next]_vars, NEW v, NEW w, NotOlder(v, w)
  PROVE  NotOlder(v, w)'
<1>1. PICK g \in Group : \E j \in DOMAIN OwnerLog(g) : \E i \in 1..j :
        OwnerLog(g)[j].data.data = v /\ IsEntryOf(w, g, i)
  BY DEF NotOlder
<1>2. PICK j \in DOMAIN OwnerLog(g) : \E i \in 1..j :
        OwnerLog(g)[j].data.data = v /\ IsEntryOf(w, g, i)
  BY <1>1
<1>3. PICK i \in 1..j : OwnerLog(g)[j].data.data = v /\ IsEntryOf(w, g, i)
  BY <1>2
<1>4. IsEntryOf(w, g, i)' /\ OwnerGrows(g)
  BY <1>3, EntryStays, OwnersGrow
<1>5. j \in DOMAIN OwnerLog(g)' /\ OwnerLog(g)'[j].data.data = v
  BY <1>3, <1>4 DEF OwnerGrows
<1> QED BY <1>4, <1>5 DEF NotOlder

\* A read of the owner's storage is not older than any committed write of its key.
LEMMA ReadIsNotOlder ==
  ASSUME TypeInv, GroupInv, StorageInv, NoStrays, NEW w, Committed(w),
         w.key_hash \in Key,
         NEW v, v = storage[OwnerOf(CalcKeyPos(w.key_hash))][w.key_hash]
  PROVE  NotOlder(v, w)
<1>0. PICK k \in Key : k = w.key_hash
  OBVIOUS
<1>1. PICK g \in Group : \E i \in 1..OwnerCommit(g) : IsEntryOf(w, g, i)
  BY DEF Committed
<1>2. PICK i \in 1..OwnerCommit(g) : IsEntryOf(w, g, i)
  BY <1>1
<1>3. /\ g = CalcKeyPos(k) /\ i \in DOMAIN OwnerLog(g)
      /\ OwnerLog(g)[i].data.key_hash = k
  BY <1>0, <1>2 DEF IsEntryOf
<1> DEFINE L == OwnerLog(g)
           n == OwnerCommit(g)
           A == {j \in 1..n : L[j].data.key_hash = k}
           x == CHOOSE j \in A : \A l \in A : l <= j
<1>4. DOMAIN L = 1..Len(L) /\ Len(L) \in Nat /\ n \in 0..Len(L)
  BY OwnerFacts
<1>5. v = ValueAfter(L, n, k)
  BY <1>0, <1>3, StorageIs DEF StoredRight
<1>6. i \in A
  BY <1>2, <1>3
<1>7. v = L[x].data.data
  BY <1>5, <1>6 DEF ValueAfter
<1>8. x \in A /\ \A l \in A : l <= x
  <2>1. A # {} /\ A \subseteq 1..n /\ n \in Nat
    BY <1>4, <1>6
  <2> HIDE DEF A, n
  <2>2. \E j \in A : \A l \in A : l <= j
    BY <2>1, GreatestOfSet
  <2> QED BY <2>2
<1>9. x \in DOMAIN L /\ i \in 1..x
  <2>1. x \in 1..n /\ i \in 1..n /\ i <= x
    BY <1>6, <1>8
  <2> HIDE DEF x, n, L
  <2> QED BY <1>4, <2>1
<1> HIDE DEF x, n, A
<1> QED BY <1>2, <1>7, <1>9 DEF NotOlder

-----------------------------------------------------------------------------
(* A client that a step has nothing to do with *)

SameWaits(c) ==
  \A g \in Group : \A i \in 1..MaxWrites : Waits(c, g, i)' <=> Waits(c, g, i)
Undisturbed(c) ==
  /\ request'[c] = request[c]
  /\ \A r \in Replica : /\ requests'[c][r] = requests[c][r]
                        /\ replies'[r][c] = replies[r][c]
  /\ status[c] # "idle" => status'[c] # "idle"
  /\ c \in Reader => floor'[c] = floor[c]
  /\ SameWaits(c)

\* Where the owners' logs rest, the same entries wait.
LEMMA RestingWaits ==
  ASSUME \A g \in Group : SameOwner(g), NEW c
  PROVE  SameWaits(c)
BY DEF SameOwner, SameWaits, Waits

\* A right answer stays right.
LEMMA RightStays ==
  ASSUME TypeInv, GroupInv, NoStrays', [Next]_vars, NEW c \in Client, NEW m,
         request'[c] = request[c], c \in Reader => floor'[c] = floor[c],
         RightAnswer(c, m)
  PROVE  RightAnswer(c, m)'
<1>1. PICK w : w = request[c]
  OBVIOUS
<1>2. ASSUME m.type = "client_reply", c \in Writer PROVE Committed(request[c])'
  <2>1. Committed(w)'
    BY <1>1, <1>2, CommittedStays DEF RightAnswer
  <2>2. request'[c] = w
    BY <1>1
  <2> QED BY <2>1, <2>2 DEF Committed, IsEntryOf
<1>3. ASSUME m.type = "client_reply", c \in Reader, NEW u \in floor'[c]
      PROVE  NotOlder(m.data, u)'
  BY <1>3, NotOlderStays DEF RightAnswer
<1> QED BY <1>2, <1>3 DEF RightAnswer

\* The request of an undisturbed client stays in its place.
LEMMA PlaceStays ==
  ASSUME TypeInv, GroupInv, NoStrays', [Next]_vars, NEW c \in Client,
         Undisturbed(c), Place(c)
  PROVE  Place(c)'
<1>1. /\ NothingAsked(c) => NothingAsked(c)'
      /\ NothingLogged(c) => NothingLogged(c)'
      /\ NothingAnswered(c) => NothingAnswered(c)'
      /\ status[c] # "idle" => status'[c] # "idle"
  BY DEF Undisturbed, SameWaits, NothingAsked, NothingLogged, NothingAnswered
<1>2. CASE AtRest(c)
  BY <1>1, <1>2 DEF AtRest, Place
<1>3. CASE Asked(c)
  <2>1. PICK r \in Replica : AskedAt(c, r)
    BY <1>3 DEF Asked
  <2>2. AskedAt(c, r)'
    BY <2>1 DEF AskedAt, Undisturbed
  <2> QED BY <1>1, <1>3, <2>2 DEF Asked, Place
<1>4. CASE Logged(c)
  <2>1. PICK g \in Group : \E i \in DOMAIN OwnerLog(g) : LoggedAt(c, g, i)
    BY <1>4 DEF Logged
  <2>2. PICK i \in DOMAIN OwnerLog(g) : LoggedAt(c, g, i)
    BY <2>1
  <2>3. PICK w : w = request[c]
    OBVIOUS
  <2>4. i \in 1..MaxWrites
    BY StraysStay, OwnerFacts, UseAssumption
  <2>5. IsEntryOf(request[c], g, i)'
    <3>1. IsEntryOf(w, g, i)'
      BY <2>2, <2>3, EntryStays DEF LoggedAt
    <3>2. request'[c] = w
      BY <2>3 DEF Undisturbed
    <3> QED BY <3>1, <3>2 DEF IsEntryOf
  <2>6. LoggedAt(c, g, i)'
    BY <2>2, <2>4, <2>5 DEF LoggedAt, Undisturbed, SameWaits
  <2>7. i \in DOMAIN OwnerLog(g)'
    BY OwnersGrow DEF OwnerGrows
  <2> QED BY <1>1, <1>4, <2>6, <2>7 DEF Logged, Place
<1>5. CASE Answered(c)
  <2>1. PICK r \in Replica : AnsweredAt(c, r)
    BY <1>5 DEF Answered
  <2>2. PICK m : replies[r][c] = <<m>> /\ RightAnswer(c, m)
    BY <2>1 DEF AnsweredAt
  <2>3. RightAnswer(c, m)'
    BY <2>2, RightStays DEF Undisturbed
  <2>4. AnsweredAt(c, r)'
    BY <2>1, <2>2, <2>3 DEF AnsweredAt, Undisturbed
  <2> QED BY <1>1, <1>5, <2>4 DEF Answered, Place
<1> QED BY <1>2, <1>3, <1>4, <1>5 DEF Place

-----------------------------------------------------------------------------
(* The client of a step *)

\* An idle client has nothing on its way: its next request is in one place.
LEMMA SentPlace ==
  ASSUME TypeInv, NEW c \in Client, NEW r \in Replica, NEW m,
         c \in Writer => m \in WriteRequest, c \in Reader => m \in ReadRequest,
         SendsRequest(c, r, m), request'[c] = m,
         status[c] = "idle", status'[c] # "idle", UNCHANGED <<smr, replies>>,
         c \in Reader => r = OwnerOf(CalcKeyPos(m.key_hash)), Place(c)
  PROVE  Place(c)'
<1>1. NothingAsked(c) /\ NothingLogged(c) /\ NothingAnswered(c)
  BY DEF Place, AtRest, Asked, Logged, Answered
<1>2. /\ requests'[c][r] = <<m>>
      /\ \A s \in Replica \ {r} : requests'[c][s] = <<>>
  <2>1. /\ requests'[c][r] = Append(requests[c][r], m)
        /\ \A s \in Replica \ {r} : requests'[c][s] = requests[c][s]
    BY TypeParts, SentRequest
  <2>2. Append(<<>>, m) = <<m>>
    OBVIOUS
  <2> QED BY <1>1, <2>1, <2>2, Zenon DEF NothingAsked
<1>3. AskedAt(c, r)'
  BY <1>2 DEF AskedAt
<1>4. NothingLogged(c)' /\ NothingAnswered(c)'
  BY <1>1, SMRsRest, RestingWaits DEF NothingLogged, SameWaits, NothingAnswered
<1> QED BY <1>3, <1>4 DEF Asked, Place

\* A client that gets a reply gets the right one, and has nothing on its way then.
LEMMA ReceivedPlace ==
  ASSUME TypeInv, NEW c \in Client, NEW r \in Replica, ReceiveReply(c, r), Place(c)
  PROVE  Place(c)' /\ RightAnswer(c, Head(replies[r][c])) /\ status[c] # "idle"
<1>1. /\ replies[r][c] # <<>>
      /\ replies' = [replies EXCEPT ![r][c] = Tail(@)]
      /\ UNCHANGED <<smr, requests>>
  BY DEF ReceiveReply, serverVars
<1>2. Answered(c)
  BY <1>1 DEF Place, AtRest, Asked, Logged, NothingAnswered
<1>3. AnsweredAt(c, r)
  BY <1>1, <1>2 DEF Answered, AnsweredAt
<1>4. PICK m : replies[r][c] = <<m>> /\ RightAnswer(c, m)
  BY <1>3 DEF AnsweredAt
<1>5. Head(replies[r][c]) = m /\ Tail(replies[r][c]) = <<>>
  BY <1>4
<1>6. \A s \in Replica : replies'[s][c] = <<>>
  <2>1. DOMAIN replies = Replica /\ DOMAIN replies[r] = Client
    BY TypeParts DEF RepliesTyped
  <2>2. replies'[r][c] = <<>> /\ \A s \in Replica \ {r} : replies'[s] = replies[s]
    BY <1>1, <1>5, <2>1
  <2> QED BY <1>3, <2>2 DEF AnsweredAt
<1>7. NothingAsked(c)' /\ NothingLogged(c)'
  BY <1>1, <1>2, SMRsRest, RestingWaits
     DEF Answered, NothingAsked, NothingLogged, SameWaits
<1> QED BY <1>2, <1>4, <1>5, <1>6, <1>7
        DEF AtRest, NothingAnswered, Place, Answered

\* A client whose request is on its way to r
LEMMA AskedOnly ==
  ASSUME NEW c \in Client, NEW r \in Replica, requests[c][r] # <<>>, Place(c)
  PROVE  /\ AskedAt(c, r) /\ RequestAt(c, r) = request[c]
         /\ NothingLogged(c) /\ NothingAnswered(c) /\ status[c] # "idle"
<1>1. Asked(c)
  BY DEF Place, AtRest, Logged, Answered, NothingAsked
<1>2. AskedAt(c, r)
  BY <1>1 DEF Asked, AskedAt
<1> QED BY <1>1, <1>2 DEF Asked, AskedAt, RequestAt

\* The server takes the request of c off its link.
LEMMA TakenPlace ==
  ASSUME TypeInv, NEW c \in Client, NEW r \in Replica, requests[c][r] # <<>>,
         TakesRequest(c, r), Place(c)
  PROVE  NothingAsked(c)'
<1>1. AskedAt(c, r)
  BY AskedOnly
<1>2. /\ requests'[c][r] = Tail(requests[c][r])
      /\ \A s \in Replica \ {r} : requests'[c][s] = requests[c][s]
  BY TypeParts, TakenRequest
<1>3. Tail(<<request[c]>>) = <<>>
  OBVIOUS
<1> QED BY <1>1, <1>2, <1>3, Zenon DEF AskedAt, NothingAsked

\* A freed connection takes the request of its client with it, or finds none.
LEMMA FreedPlace ==
  ASSUME TypeInv, GroupInv, NoStrays', [Next]_vars, NEW c \in Client,
         NEW r \in Replica, FreeConnection(r, c), Place(c)
  PROVE  Place(c)'
<1>1. FreesRequests(c, r) /\ UNCHANGED <<smr, replies, request, status, floor>>
  BY DEF FreeConnection, FreesRequests, clientVars
<1>2. /\ requests'[c][r] = <<>>
      /\ \A s \in Replica \ {r} : requests'[c][s] = requests[c][s]
  BY <1>1, TypeParts, FreedRequests
<1>3. CASE requests[c][r] = <<>>
  <2>1. Undisturbed(c)
    BY <1>1, <1>2, <1>3, SMRsRest, RestingWaits DEF Undisturbed
  <2> QED BY <2>1, PlaceStays
<1>4. CASE requests[c][r] # <<>>
  <2>1. AskedAt(c, r) /\ NothingLogged(c) /\ NothingAnswered(c)
    BY <1>4, AskedOnly
  <2>2. NothingAsked(c)'
    BY <1>2, <2>1 DEF AskedAt, NothingAsked
  <2>3. NothingLogged(c)' /\ NothingAnswered(c)'
    BY <1>1, <2>1, SMRsRest, RestingWaits
       DEF NothingLogged, SameWaits, NothingAnswered
  <2> QED BY <2>2, <2>3 DEF AtRest, Place
<1> QED BY <1>3, <1>4

\* A request that is answered at once
LEMMA AnsweredPlace ==
  ASSUME TypeInv, NEW c \in Client, NEW r \in Replica, requests[c][r] # <<>>,
         TakesRequest(c, r), Place(c), NEW m,
         replies' = [replies EXCEPT ![r][c] = Append(@, m)],
         UNCHANGED <<smr, status>>, RightAnswer(c, m)'
  PROVE  Place(c)'
<1>1. NothingLogged(c) /\ NothingAnswered(c) /\ status'[c] # "idle"
  BY AskedOnly
<1>2. NothingAsked(c)'
  BY TakenPlace
<1>3. /\ replies'[r][c] = <<m>>
      /\ \A s \in Replica \ {r} : replies'[s][c] = <<>>
  <2>1. DOMAIN replies = Replica /\ DOMAIN replies[r] = Client
    BY TypeParts DEF RepliesTyped
  <2>2. /\ replies'[r][c] = Append(replies[r][c], m)
        /\ \A s \in Replica \ {r} : replies'[s] = replies[s]
    BY <2>1
  <2>3. Append(<<>>, m) = <<m>>
    OBVIOUS
  <2> QED BY <1>1, <2>2, <2>3, Zenon DEF NothingAnswered
<1>4. AnsweredAt(c, r)'
  BY <1>3 DEF AnsweredAt
<1>5. NothingLogged(c)'
  BY <1>1, SMRsRest, RestingWaits DEF NothingLogged, SameWaits
<1> QED BY <1>1, <1>2, <1>4, <1>5 DEF Answered, Place

\* A write that the owner takes waits in the log, and nobody else's does.
LEMMA TakenWaits ==
  ASSUME TypeInv, GroupInv, NoStrays', [Next]_vars, NEW c \in Client,
         NEW r \in Replica, NEW k \in Group, OwnerTakes(c, r, k), NEW d \in Client,
         NEW n, n = Len(OwnerLog(k)) + 1
  PROVE  /\ \A g \in Group : \A i \in 1..MaxWrites :
              ~(d = c /\ g = k /\ i = n) => (Waits(d, g, i)' <=> Waits(d, g, i))
         /\ Waits(c, k, n)'
         /\ n \in 1..MaxWrites
<1>1. /\ DOMAIN OwnerLog(k)' = 1..n /\ n \in 1..MaxWrites
      /\ OwnerLog(k)'[n] = WriteEntry(c, r, k)
      /\ \A i \in DOMAIN OwnerLog(k)' : i = n \/ i \in DOMAIN OwnerLog(k)
      /\ \A i \in DOMAIN OwnerLog(k) :
           i \in DOMAIN OwnerLog(k)' /\ OwnerLog(k)'[i] = OwnerLog(k)[i]
      /\ n \notin DOMAIN OwnerLog(k)
  BY StraysStay, TakenEntry DEF OwnerTakes, OwnerGrows
<1>2. /\ OwnerCommit(k)' = OwnerCommit(k) /\ OwnerCommit(k) \in 0..Len(OwnerLog(k))
      /\ \A g \in Group \ {k} : SameOwner(g)
      /\ Len(OwnerLog(k)) \in Nat
  BY StraysStay, OwnerFacts DEF OwnerTakes, OwnerWrites
<1>3. OwnerLog(k)'[n].data.client = c
  BY <1>1 DEF WriteEntry, NewEntry, WriteOp
<1>4. n > OwnerCommit(k)' /\ n \in 1..n
  BY <1>2
<1>5. Waits(c, k, n)'
  BY <1>1, <1>3, <1>4 DEF Waits
<1>6. ASSUME NEW g \in Group, NEW i \in 1..MaxWrites, ~(d = c /\ g = k /\ i = n)
      PROVE  Waits(d, g, i)' <=> Waits(d, g, i)
  <2>1. CASE g # k
    BY <1>2, <2>1 DEF SameOwner, Waits
  <2>2. CASE g = k /\ i = n
    BY <1>1, <1>3, <1>6, <2>2 DEF Waits
  <2>3. CASE g = k /\ i # n
    <3>1. i \in DOMAIN OwnerLog(k)' <=> i \in DOMAIN OwnerLog(k)
      BY <1>1, <2>3
    <3> QED BY <1>1, <1>2, <2>3, <3>1 DEF Waits
  <2> QED BY <2>1, <2>2, <2>3
<1> QED BY <1>1, <1>5, <1>6

\* A write that the owner takes moves from its link into the log.
LEMMA LoggedPlace ==
  ASSUME TypeInv, GroupInv, NoStrays', [Next]_vars, NEW c \in Client,
         NEW r \in Replica, NEW k \in Group, OwnerTakes(c, r, k), Place(c)
  PROVE  Place(c)'
<1>0. PICK n, w : n = Len(OwnerLog(k)) + 1 /\ w = request[c]
  OBVIOUS
<1>1. /\ requests[c][r] # <<>> /\ TakesRequest(c, r)
      /\ UNCHANGED <<replies, request, status>>
  BY DEF OwnerTakes, WriteStep, clientVars
<1>2. /\ RequestAt(c, r) = w /\ NothingLogged(c) /\ NothingAnswered(c)
      /\ status[c] # "idle"
  BY <1>0, <1>1, AskedOnly
<1>3. /\ Waits(c, k, n)' /\ n \in 1..MaxWrites
      /\ \A g \in Group : \A i \in 1..MaxWrites :
           Waits(c, g, i)' => g = k /\ i = n
  BY <1>0, <1>2, TakenWaits DEF NothingLogged
<1>4. IsEntryOf(w, k, n)'
  <2>1. /\ n \in DOMAIN OwnerLog(k)' /\ OwnerLog(k)'[n] = WriteEntry(c, r, k)
        /\ WriteEntry(c, r, k) \in LogEntry(k)
    <3>1. n \in DOMAIN OwnerLog(k)'
      BY <1>3 DEF Waits
    <3> QED BY <1>0, <3>1, StraysStay, TakenEntry DEF OwnerTakes, OwnerWrites
  <2>2. /\ WriteEntry(c, r, k).data.key_hash = w.key_hash
        /\ WriteEntry(c, r, k).data.data = w.data
    BY <1>2 DEF WriteEntry, NewEntry, WriteOp
  <2> QED BY <2>1, <2>2 DEF IsEntryOf, LogEntry
<1>5. IsEntryOf(request[c], k, n)'
  <2>1. request'[c] = w
    BY <1>0, <1>1
  <2> QED BY <1>4, <2>1 DEF IsEntryOf
<1>6. LoggedAt(c, k, n)'
  BY <1>3, <1>5 DEF LoggedAt
<1>7. n \in DOMAIN OwnerLog(k)'
  BY <1>3 DEF Waits
<1>8. NothingAsked(c)' /\ NothingAnswered(c)' /\ status'[c] # "idle"
  BY <1>1, <1>2, TakenPlace DEF NothingAnswered
<1> QED BY <1>6, <1>7, <1>8 DEF Logged, Place

-----------------------------------------------------------------------------
(* The clients whose entries are applied *)

\* The one element of a set, in order
LEMMA OneInOrder ==
  ASSUME NEW x \in Nat
  PROVE  DOMAIN InOrder({x}) = 1..1 /\ InOrder({x})[1] = x
<1> DEFINE F == [1..1 -> {x}]
           Sorted(f) == \A i, j \in 1..1 : i < j => f[i] < f[j]
<1>1. Cardinality({x}) = 1
  BY FS_Singleton
<1>2. InOrder({x}) = CHOOSE f \in F : Sorted(f)
  BY <1>1 DEF InOrder
<1>3. \E f \in F : Sorted(f)
  <2>1. [i \in 1..1 |-> x] \in F /\ Sorted([i \in 1..1 |-> x])
    BY SMT
  <2> QED BY <2>1
<1>4. InOrder({x}) \in F
  BY <1>2, <1>3
<1>5. 1 \in 1..1
  OBVIOUS
<1> QED BY <1>4, <1>5

\* Where no replica owns two of the groups in use, no slot is taken twice.
LEMMA NoCollision ==
  ASSUME TypeInv, GroupInv, NoStrays, NoSharedOwner, LogsInUse,
         NEW g \in Group, NEW i \in DOMAIN OwnerLog(g)
  PROVE  ~Collides(g, i)
<1> SUFFICES ASSUME NEW h \in Group \ {g}, OwnerOf(h) = OwnerOf(g),
                    Len(OwnerLog(h)) >= i
             PROVE  FALSE
  BY DEF Collides
<1>1. i \in Nat \ {0} /\ OwnerLog(g) # <<>> /\ OwnerLog(h) # <<>>
  BY OwnerFacts
<1>2. PICK k \in use.keys : g = CalcKeyPos(k)
  BY <1>1 DEF LogsInUse
<1>3. PICK l \in use.keys : h = CalcKeyPos(l)
  BY <1>1 DEF LogsInUse
<1> QED BY <1>2, <1>3 DEF NoSharedOwner

\* Where no slot is taken twice, the slot of an entry names its client.
LEMMA SlotsName ==
  ASSUME TypeInv, GroupInv, NoStrays, NoSharedOwner, LogsInUse, SlotsInv,
         NEW g \in Group, NEW i \in DOMAIN OwnerLog(g)
  PROVE  Named(g, i) \in Writer /\ Named(g, i) = OwnerLog(g)[i].data.client
BY NoCollision, SlotsInvIs DEF SlotRight

\* What maybe_apply does for client d: mine is the set of its entries in es.
ToldOf(d, r, es, mine) ==
  replies'[r][d] = replies[r][d] \o [j \in DOMAIN InOrder(mine) |->
                     ClientReply(es[InOrder(mine)[j]].data.key_hash, 0)]

\* What Apply sends to client d, and that no other server sends it anything
LEMMA ApplyTells ==
  ASSUME RepliesTyped, NEW r \in Replica, NEW g, NEW es, Apply(r, g, es),
         NEW d \in Client,
         NEW mine, mine = {i \in DOMAIN es : pendings[r][es[i].index] = d}
  PROVE  /\ ToldOf(d, r, es, mine)
         /\ \A s \in Replica \ {r} : replies'[s][d] = replies[s][d]
<1> DEFINE told == [c \in Client |->
             LET own == InOrder({i \in DOMAIN es : pendings[r][es[i].index] = c})
             IN replies[r][c] \o [j \in DOMAIN own |->
                                    ClientReply(es[own[j]].data.key_hash, 0)]]
<1>1. replies' = [replies EXCEPT ![r] = told]
  BY Zenon DEF Apply
<1>2. ToldOf(d, r, es, mine) <=> replies'[r][d] = told[d]
  BY Zenon DEF ToldOf
<1> HIDE DEF told
<1>3. replies'[r] = told /\ \A s \in Replica \ {r} : replies'[s] = replies[s]
  BY <1>1 DEF RepliesTyped
<1> QED BY <1>2, <1>3, Zenon

\* A client that no applied entry names is told nothing.
LEMMA ToldNothing ==
  ASSUME NEW d, NEW r, NEW es, NEW mine, ToldOf(d, r, es, mine), mine = {},
         replies[r][d] = <<>> \/ \E m : replies[r][d] = <<m>>
  PROVE  replies'[r][d] = replies[r][d]
<1> DEFINE q == InOrder(mine)
           none == [j \in 1..0 |-> ClientReply(es[q[j]].data.key_hash, 0)]
<1>1. DOMAIN q = 1..0
  BY NoneInOrder
<1>2. replies'[r][d] = replies[r][d] \o none
  BY <1>1 DEF ToldOf
<1> HIDE DEF q
<1>3. none = <<>>
  OBVIOUS
<1> HIDE DEF none
<1>4. \A m : <<m>> \o <<>> = <<m>>
  OBVIOUS
<1>5. <<>> \o <<>> = <<>>
  OBVIOUS
<1> QED BY <1>2, <1>3, <1>4, <1>5

\* A client that one applied entry names is told once.
LEMMA ToldOnce ==
  ASSUME NEW d, NEW r, NEW es, NEW i \in Nat, ToldOf(d, r, es, {i}),
         replies[r][d] = <<>>
  PROVE  replies'[r][d] = <<ClientReply(es[i].data.key_hash, 0)>>
<1> DEFINE q == InOrder({i})
           one == [j \in 1..1 |-> ClientReply(es[q[j]].data.key_hash, 0)]
<1>1. DOMAIN q = 1..1 /\ q[1] = i
  BY OneInOrder
<1>2. replies'[r][d] = <<>> \o one
  BY <1>1 DEF ToldOf
<1> HIDE DEF q
<1>3. <<>> \o one = <<ClientReply(es[q[1]].data.key_hash, 0)>>
  OBVIOUS
<1> QED BY <1>1, <1>2, <1>3

\* The entries of client d that stop waiting are those of group k at a + i, for
\* the i in mine.
StopWaiting(d, k, a, mine) ==
  /\ \A i \in mine : /\ i \in Nat /\ Waits(d, k, a + i)
                      /\ a + i \in 1..MaxWrites
                      /\ a + i \in 1..OwnerCommit(k)' /\ d \in Writer
  /\ \A g \in Group : \A i \in 1..MaxWrites :
       Waits(d, g, i)' <=>
         Waits(d, g, i) /\ ~(g = k /\ \E j \in mine : i = a + j)

\* Which entries wait when those up to the new commit index are applied
LEMMA AppliedWaits ==
  ASSUME TypeInv, GroupInv, NoStrays, NoSharedOwner, LogsInUse, SlotsInv,
         NEW k \in Group, NEW r \in Replica, NEW h, OwnerApplies(k, r, h),
         NEW d \in Client,
         NEW mine,
         mine = {i \in DOMAIN h.apply : pendings[r][h.apply[i].index] = d},
         NEW a, a = OwnerCommit(k)
  PROVE  StopWaiting(d, k, a, mine)
<1>0. PICK b : b = OwnerCommit(k)'
  OBVIOUS
<1>1. /\ r = OwnerOf(k) /\ b \in a..Len(OwnerLog(k)) /\ a \in Nat
      /\ Len(OwnerLog(k)) \in Nat /\ DOMAIN OwnerLog(k) = 1..Len(OwnerLog(k))
      /\ DOMAIN OwnerLog(k) \subseteq 1..MaxWrites
      /\ OwnerLog(k)' = OwnerLog(k)
      /\ \A g \in Group \ {k} : SameOwner(g)
  BY <1>0, OwnerFacts, UseAssumption DEF OwnerApplies, OwnerCounts
<1>2. /\ DOMAIN h.apply = 1..(b - a)
      /\ \A i \in DOMAIN h.apply :
           /\ i \in Nat \ {0} /\ a + i \in DOMAIN OwnerLog(k)
           /\ a + i \in (a + 1)..b /\ h.apply[i].index = a + i
  BY <1>0, AppliedEntries DEF OwnerApplies
<1>3. \A i \in DOMAIN h.apply :
        /\ pendings[r][h.apply[i].index] = OwnerLog(k)[a + i].data.client
        /\ pendings[r][h.apply[i].index] \in Writer
  BY <1>1, <1>2, SlotsName DEF Named
<1>4. \A i \in DOMAIN h.apply : i \in mine <=> OwnerLog(k)[a + i].data.client = d
  BY <1>3
<1>5. mine \subseteq DOMAIN h.apply
  OBVIOUS
<1>6. ASSUME NEW i \in mine
      PROVE  /\ i \in Nat /\ Waits(d, k, a + i)
             /\ a + i \in 1..MaxWrites /\ a + i \in 1..b /\ d \in Writer
  <2>1. /\ i \in Nat \ {0} /\ a + i \in DOMAIN OwnerLog(k) /\ a + i \in (a + 1)..b
        /\ OwnerLog(k)[a + i].data.client = d /\ d \in Writer
    BY <1>2, <1>3, <1>4, <1>5
  <2>2. a + i > a /\ a + i \in 1..b
    BY <1>1, <2>1
  <2> QED BY <1>1, <2>1, <2>2 DEF Waits
<1>7. ASSUME NEW g \in Group, NEW i \in 1..MaxWrites
      PROVE  Waits(d, g, i)' <=>
               Waits(d, g, i) /\ ~(g = k /\ \E j \in mine : i = a + j)
  <2>1. CASE g # k
    BY <1>1, <2>1 DEF SameOwner, Waits
  <2>2. CASE g = k
    <3>1. Waits(d, k, i)' <=> /\ i \in DOMAIN OwnerLog(k) /\ i > b
                              /\ OwnerLog(k)[i].data.client = d
      BY <1>0, <1>1 DEF Waits
    <3>2. Waits(d, k, i) <=> /\ i \in DOMAIN OwnerLog(k) /\ i > a
                             /\ OwnerLog(k)[i].data.client = d
      BY DEF Waits
    <3>3. CASE i > b
      <4>1. i > a /\ \A j \in mine : i # a + j
        BY <1>1, <1>6, <3>3
      <4> QED BY <2>2, <3>1, <3>2, <3>3, <4>1
    <3>4. CASE ~(i > b)
      <4>1. ASSUME Waits(d, k, i) PROVE \E j \in mine : i = a + j
        <5>1. i > a /\ i <= b /\ OwnerLog(k)[i].data.client = d
          BY <1>1, <3>2, <3>4, <4>1
        <5>2. i - a \in 1..(b - a) /\ i = a + (i - a)
          BY <1>1, <5>1
        <5>3. i - a \in mine
          BY <1>2, <1>4, <5>1, <5>2
        <5> QED BY <5>2, <5>3
      <4> QED BY <2>2, <3>1, <3>4, <4>1
    <3> QED BY <3>3, <3>4
  <2> QED BY <2>1, <2>2
<1> QED BY <1>0, <1>6, <1>7 DEF StopWaiting

\* An applied write moves from the log to the reply of its client, and its reply
\* is right: the write is committed.
LEMMA AppliedPlace ==
  ASSUME TypeInv, GroupInv, NoStrays', [Next]_vars, NoSharedOwner, LogsInUse,
         SlotsInv, NEW k \in Group, NEW r \in Replica, NEW h,
         OwnerApplies(k, r, h), NEW d \in Client, Place(d)
  PROVE  Place(d)'
<1>0. PICK a, es, mine :
        /\ a = OwnerCommit(k) /\ es = h.apply
        /\ mine = {i \in DOMAIN h.apply : pendings[r][h.apply[i].index] = d}
  OBVIOUS
<1>1. StopWaiting(d, k, a, mine)
  <2>1. NoStrays
    BY StraysStay
  <2> QED BY <1>0, <2>1, AppliedWaits
<1>2. /\ ToldOf(d, r, es, mine)
      /\ \A s \in Replica \ {r} : replies'[s][d] = replies[s][d]
      /\ UNCHANGED <<requests, request, status, floor>>
  BY <1>0, TypeParts, ApplyTells DEF OwnerApplies, clientVars
<1>3. CASE mine = {}
  <2>1. replies[r][d] = <<>> \/ \E m : replies[r][d] = <<m>>
    BY DEF Place, AtRest, Asked, Logged, NothingAnswered, Answered, AnsweredAt
  <2>2. replies'[r][d] = replies[r][d]
    BY <1>2, <1>3, <2>1, ToldNothing
  <2>3. SameWaits(d)
    BY <1>1, <1>3 DEF SameWaits, StopWaiting
  <2>4. Undisturbed(d)
    BY <1>2, <2>2, <2>3 DEF Undisturbed
  <2> QED BY <2>4, PlaceStays
<1>4. CASE mine # {}
  <2>1. PICK i \in mine : TRUE
    BY <1>4
  <2>2. /\ i \in Nat /\ Waits(d, k, a + i) /\ a + i \in 1..MaxWrites
        /\ a + i \in 1..OwnerCommit(k)' /\ d \in Writer /\ d \notin Reader
    BY <1>1, <2>1, ClientAssumption DEF StopWaiting
  <2>3. Logged(d)
    BY <2>2 DEF Place, AtRest, Asked, Answered, NothingLogged
  <2>4. PICK g \in Group : \E j \in DOMAIN OwnerLog(g) : LoggedAt(d, g, j)
    BY <2>3 DEF Logged
  <2>5. PICK j \in DOMAIN OwnerLog(g) : LoggedAt(d, g, j)
    BY <2>4
  <2>6. g = k /\ j = a + i
    BY <2>2, <2>5 DEF LoggedAt
  <2>7. /\ IsEntryOf(request[d], k, a + i)
        /\ \A f \in Group : \A l \in 1..MaxWrites :
             Waits(d, f, l) => f = k /\ l = a + i
    BY <2>5, <2>6 DEF LoggedAt
  <2>8. mine = {i}
    <3>1. a \in Nat
      BY <1>0, StraysStay, OwnerFacts
    <3>2. \A l \in mine : l \in Nat /\ a + l = a + i
      BY <1>1, <2>7 DEF StopWaiting
    <3>3. \A l \in mine : l = i
      BY <2>2, <3>1, <3>2
    <3> QED BY <2>1, <3>3
  <2>9. NothingAsked(d) /\ NothingAnswered(d) /\ status[d] # "idle"
    BY <2>3 DEF Logged
  <2> PICK m : m = ClientReply(es[i].data.key_hash, 0)
    OBVIOUS
  <2>10. replies'[r][d] = <<m>>
    <3>1. ToldOf(d, r, es, {i}) /\ replies[r][d] = <<>>
      BY <1>2, <2>8, <2>9 DEF NothingAnswered
    <3> QED BY <2>2, <3>1, ToldOnce
  <2>11. Committed(request[d])'
    <3>1. PICK w : w = request[d]
      OBVIOUS
    <3>2. IsEntryOf(w, k, a + i)'
      BY <2>7, <3>1, EntryStays
    <3>3. Committed(w)'
      BY <2>2, <3>2 DEF Committed
    <3>4. request'[d] = w
      BY <1>2, <3>1
    <3> QED BY <3>3, <3>4 DEF Committed, IsEntryOf
  <2>12. RightAnswer(d, m)'
    BY <2>2, <2>11 DEF RightAnswer
  <2>13. AnsweredAt(d, r)'
    BY <1>2, <2>9, <2>10, <2>12 DEF AnsweredAt, NothingAnswered
  <2>14. NothingLogged(d)'
    BY <1>1, <2>1, <2>7 DEF NothingLogged, StopWaiting
  <2>15. NothingAsked(d)' /\ status'[d] # "idle"
    BY <1>2, <2>9 DEF NothingAsked
  <2> QED BY <2>13, <2>14, <2>15 DEF Answered, Place
<1> QED BY <1>3, <1>4

-----------------------------------------------------------------------------
(* Every request stays in one place *)

\* Enough: the client of the step is in one place, the others are undisturbed.
LEMMA OthersInPlace ==
  ASSUME TypeInv, GroupInv, NoStrays', [Next]_vars, PlaceInv, NEW c \in Client,
         \A d \in Client \ {c} : Undisturbed(d), Place(c)'
  PROVE  PlaceInv'
<1> SUFFICES ASSUME NEW d \in Client PROVE Place(d)'
  BY DEF PlaceInv
<1> QED BY PlaceStays DEF PlaceInv

\* If nobody is disturbed, all stay in place.
LEMMA AllInPlace ==
  ASSUME TypeInv, GroupInv, NoStrays', [Next]_vars, PlaceInv,
         \A d \in Client : Undisturbed(d)
  PROVE  PlaceInv'
<1> SUFFICES ASSUME NEW d \in Client PROVE Place(d)'
  BY DEF PlaceInv
<1> QED BY PlaceStays DEF PlaceInv

\* A client sends a request.
LEMMA SentInPlace ==
  ASSUME TypeInv, GroupInv, NoStrays', [Next]_vars, PlaceInv, NEW c \in Client,
         NEW r \in Replica, NEW m, NEW x, x # "idle",
         c \in Writer => m \in WriteRequest, c \in Reader => m \in ReadRequest,
         c \in Reader => r = OwnerOf(CalcKeyPos(m.key_hash)),
         SendsRequest(c, r, m), request' = [request EXCEPT ![c] = m],
         status[c] = "idle", status' = [status EXCEPT ![c] = x],
         UNCHANGED <<smr, replies>>,
         \A d \in Reader \ {c} : floor'[d] = floor[d]
  PROVE  PlaceInv'
<1>1. /\ RequestsTyped /\ DOMAIN status = Client /\ DOMAIN request = Client
  BY TypeParts DEF AskersTyped, TypeInv, TypeOK
<1>2. \A d \in Client \ {c} : Undisturbed(d)
  <2> SUFFICES ASSUME NEW d \in Client \ {c} PROVE Undisturbed(d)
    OBVIOUS
  <2>1. \A s \in Replica : requests'[d][s] = requests[d][s]
    BY <1>1, SentRequest
  <2> QED BY <1>1, <2>1, SMRsRest, RestingWaits DEF Undisturbed
<1>3. Place(c)'
  <2>1. request'[c] = m /\ status'[c] # "idle" /\ Place(c)
    BY <1>1 DEF PlaceInv
  <2> QED BY <2>1, SentPlace
<1> QED BY <1>2, <1>3, OthersInPlace

\* A client takes a reply.
LEMMA ReceivedInPlace ==
  ASSUME TypeInv, GroupInv, NoStrays', [Next]_vars, PlaceInv, NEW c \in Client,
         NEW r \in Replica, ReceiveReply(c, r)
  PROVE  PlaceInv'
<1>1. /\ DOMAIN status = Client /\ DOMAIN replies = Replica
      /\ DOMAIN replies[r] = Client
  BY TypeParts DEF RepliesTyped, TypeInv, TypeOK
<1>2. ASSUME NEW d \in Client \ {c} PROVE Undisturbed(d)
  <2>1. /\ UNCHANGED <<smr, requests, request, floor>>
        /\ replies' = [replies EXCEPT ![r][c] = Tail(@)]
    BY DEF ReceiveReply, serverVars
  <2>2. status'[d] = status[d]
    BY <1>1 DEF ReceiveReply
  <2>3. \A s \in Replica : replies'[s][d] = replies[s][d]
    BY <1>1, <2>1
  <2> QED BY <2>1, <2>2, <2>3, SMRsRest, RestingWaits DEF Undisturbed
<1>3. Place(c)'
  BY ReceivedPlace DEF PlaceInv
<1> QED BY <1>2, <1>3, OthersInPlace

\* The requests of the other clients, when one is taken or freed
LEMMA OthersRequests ==
  ASSUME TypeInv, NEW c \in Client, NEW r \in Replica,
         FreesRequests(c, r) \/ (requests[c][r] # <<>> /\ TakesRequest(c, r)),
         NEW d \in Client \ {c}
  PROVE  \A s \in Replica : requests'[d][s] = requests[d][s]
BY TypeParts, FreedRequests, TakenRequest

\* A server frees the connection of a client that ended.
LEMMA FreedInPlace ==
  ASSUME TypeInv, GroupInv, NoStrays', [Next]_vars, PlaceInv, NEW c \in Client,
         NEW r \in Replica, FreeConnection(r, c)
  PROVE  PlaceInv'
<1>1. FreesRequests(c, r) /\ UNCHANGED <<smr, replies, request, status, floor>>
  BY DEF FreeConnection, FreesRequests, clientVars
<1>2. ASSUME NEW d \in Client \ {c} PROVE Undisturbed(d)
  BY <1>1, OthersRequests, SMRsRest, RestingWaits DEF Undisturbed
<1>3. Place(c)'
  BY FreedPlace DEF PlaceInv
<1> QED BY <1>2, <1>3, OthersInPlace

\* A request is answered at once, with m.
LEMMA AnsweredInPlace ==
  ASSUME TypeInv, GroupInv, NoStrays', [Next]_vars, PlaceInv, NEW c \in Client,
         NEW r \in Replica, requests[c][r] # <<>>, TakesRequest(c, r), NEW m,
         replies' = [replies EXCEPT ![r][c] = Append(@, m)],
         UNCHANGED <<smr, request, status, floor>>, RightAnswer(c, m)'
  PROVE  PlaceInv'
<1>1. DOMAIN replies = Replica /\ DOMAIN replies[r] = Client
  BY TypeParts DEF RepliesTyped
<1>2. ASSUME NEW d \in Client \ {c} PROVE Undisturbed(d)
  <2>1. \A s \in Replica : replies'[s][d] = replies[s][d]
    BY <1>1
  <2> QED BY <2>1, OthersRequests, SMRsRest, RestingWaits DEF Undisturbed
<1>3. Place(c)'
  BY AnsweredPlace DEF PlaceInv
<1> QED BY <1>2, <1>3, OthersInPlace

\* A read gets the right answer.
LEMMA ReadInPlace ==
  ASSUME TypeInv, GroupInv, StorageInv, NoStrays', [Next]_vars, PlaceInv, AckedInv,
         ReadersInv, NEW c \in Client, NEW r \in Replica, HandleRead(r, c)
  PROVE  PlaceInv'
<1>0. PICK k, v, m : /\ k = RequestAt(c, r).key_hash /\ v = storage[r][k]
                     /\ m = ClientReply(k, v)
  OBVIOUS
<1>1. /\ requests[c][r] # <<>> /\ TakesRequest(c, r)
      /\ RequestAt(c, r).op_type = "read"
      /\ replies' = [replies EXCEPT ![r][c] = Append(@, m)]
      /\ UNCHANGED <<smr, request, status, floor>>
  BY <1>0 DEF HandleRead, TakesRequest, RequestAt, serverVars, clientVars
<1>2. AskedAt(c, r) /\ RequestAt(c, r) = request[c]
  BY <1>1, AskedOnly DEF PlaceInv
<1>3. c \in Reader /\ c \notin Writer
  <2>1. c \notin Writer
    <3> SUFFICES ASSUME c \in Writer PROVE FALSE
      OBVIOUS
    <3>1. RequestAt(c, r) \in WriteRequest
      BY <1>1, TypeParts, TakenRequest DEF RequestAt
    <3> QED BY <1>1, <3>1 DEF WriteRequest
  <2> QED BY <2>1 DEF Client
<1>4. RequestAt(c, r) \in ReadRequest /\ k \in Key
  <2>1. RequestAt(c, r) \in ReadRequest
    BY <1>1, <1>3, TypeParts, TakenRequest DEF RequestAt
  <2> QED BY <1>0, <2>1 DEF ReadRequest
<1>5. v = storage[OwnerOf(CalcKeyPos(k))][k]
  BY <1>0, <1>2, <1>3 DEF AskedAt
<1>6. ASSUME NEW w \in floor[c] PROVE NotOlder(v, w)'
  <2>1. w \in acked
    BY <1>3, TypeParts DEF HistoryTyped
  <2>2. Committed(w) /\ w.key_hash = k
    BY <1>0, <1>2, <1>3, <1>6, <2>1 DEF AckedInv, ReadersInv
  <2>3. NotOlder(v, w)
    BY <1>4, <1>5, <2>2, StraysStay, ReadIsNotOlder
  <2> QED BY <2>3, NotOlderStays
<1>7. RightAnswer(c, m)'
  <2>1. m.data = v /\ floor' = floor
    BY <1>0, <1>1 DEF ClientReply
  <2> QED BY <1>3, <1>6, <2>1 DEF RightAnswer
<1> QED BY <1>1, <1>7, AnsweredInPlace

\* A write that a server takes is in its log.
LEMMA LoggedInPlace ==
  ASSUME TypeInv, GroupInv, NoStrays', [Next]_vars, PlaceInv, NEW c \in Client,
         NEW r \in Replica, HandleWrite(r, c)
  PROVE  PlaceInv'
<1>0. WriteStep(c, r)
  BY WriteStepFacts
<1>1. PICK k \in Group : OwnerTakes(c, r, k)
  <2>1. PICK k : k = WriteGroup(c, r)
    OBVIOUS
  <2> QED BY <1>0, <2>1, WriteOwner, StraysStay DEF OwnerTakes, OwnerWrites
<1>2. /\ requests[c][r] # <<>> /\ TakesRequest(c, r)
      /\ UNCHANGED <<replies, request, status, floor>>
  BY <1>0 DEF WriteStep, clientVars
<1>3. ASSUME NEW d \in Client \ {c} PROVE Undisturbed(d)
  <2>1. PICK n : n = Len(OwnerLog(k)) + 1
    OBVIOUS
  <2>2. SameWaits(d)
    BY <1>1, <2>1, TakenWaits DEF SameWaits
  <2> QED BY <1>2, <2>2, OthersRequests DEF Undisturbed
<1>4. Place(c)'
  BY <1>1, LoggedPlace DEF PlaceInv
<1> QED BY <1>3, <1>4, OthersInPlace

\* Every step keeps the request of every client in one place.
LEMMA PlaceInvStep ==
  ASSUME TypeInv, GroupInv, StorageInv, SlotsInv, NoStrays', [Next]_vars,
         NoSharedOwner, LogsInUse, PlaceInv, AckedInv, ReadersInv
  PROVE  PlaceInv'
<1>0. NoStrays
  BY StraysStay
<1>1. ASSUME NEW c \in Writer, NEW k \in use.keys, NEW e \in use.epochs,
             NEW r \in Replica, SendWrite(c, k, e, r)
      PROVE  PlaceInv'
  <2>1. PICK m : m = [epoch |-> e, op_type |-> "write", key_hash |-> k,
                      data |-> writes + 1]
    OBVIOUS
  <2>2. /\ SendsRequest(c, r, m) /\ request' = [request EXCEPT ![c] = m]
        /\ status[c] = "idle" /\ status' = [status EXCEPT ![c] = "writing"]
        /\ writes < use.writes /\ UNCHANGED <<smr, replies, floor>>
    BY <1>1, <2>1 DEF SendWrite, SendsRequest, serverVars
  <2>3. m \in WriteRequest
    BY <2>1, <2>2, TypeParts DEF WriteRequest
  <2>4. c \in Client /\ c \notin Reader
    BY ClientAssumption DEF Client
  <2>5. "writing" # "idle"
    OBVIOUS
  <2> QED BY <2>2, <2>3, <2>4, <2>5, SentInPlace
<1>2. ASSUME NEW c \in Reader, NEW k \in Key, SendRead(c, k) PROVE PlaceInv'
  <2>1. PICK m, r : /\ m = [epoch |-> Epoch, op_type |-> "read", key_hash |-> k,
                            data |-> 0]
                    /\ r = OwnerOf(CalcKeyPos(k))
    OBVIOUS
  <2>2. /\ SendsRequest(c, r, m) /\ request' = [request EXCEPT ![c] = m]
        /\ status[c] = "idle" /\ status' = [status EXCEPT ![c] = "reading"]
        /\ UNCHANGED <<smr, replies>>
    BY <1>2, <2>1 DEF SendRead, SendsRequest, serverVars
  <2>3. m \in ReadRequest /\ r \in Replica /\ r = OwnerOf(CalcKeyPos(m.key_hash))
    BY <2>1, OwnerIsReplica DEF ReadRequest, Group
  <2>4. c \in Client /\ c \notin Writer
    BY ClientAssumption DEF Client
  <2>5. \A d \in Reader \ {c} : floor'[d] = floor[d]
    BY <1>2, TypeParts DEF SendRead, HistoryTyped
  <2>6. "reading" # "idle"
    OBVIOUS
  <2> QED BY <2>2, <2>3, <2>4, <2>5, <2>6, SentInPlace
<1>3. ASSUME NEW c \in Client, NEW r \in Replica, RejectRequest(r, c)
      PROVE  PlaceInv'
  <2>1. PICK m : m = GuidanceReply
    OBVIOUS
  <2>2. /\ requests[c][r] # <<>> /\ TakesRequest(c, r)
        /\ replies' = [replies EXCEPT ![r][c] = Append(@, m)]
        /\ UNCHANGED <<smr, request, status, floor>>
    BY <1>3, <2>1 DEF RejectRequest, TakesRequest, serverVars, clientVars
  <2>3. RightAnswer(c, m)'
    BY <2>1 DEF RightAnswer, GuidanceReply
  <2> QED BY <2>2, <2>3, AnsweredInPlace
<1>4. ASSUME NEW r \in Replica, NEW s \in Replica, HandlePeerReply(r, s)
      PROVE  PlaceInv'
  <2>1. ReplyStep(r, s)
    BY <1>4, ReplyStepFacts
  <2>2. CASE OwnersRest /\ UNCHANGED replies
    <3>1. \A d \in Client : Undisturbed(d)
      BY <2>1, <2>2, RestingWaits DEF ReplyStep, OwnersRest, Undisturbed, clientVars
    <3> QED BY <3>1, AllInPlace
  <2>3. CASE \E g \in Group : \E h : OwnerApplies(g, r, h)
    BY <2>3, AppliedPlace DEF PlaceInv
  <2> QED BY <1>0, <2>1, <2>2, <2>3, ReplyApplies
<1>5. ASSUME \/ \E c \in Client : Quit(c)
             \/ \E r, s \in Replica : HandlePeerAppend(r, s)
             \/ UNCHANGED vars
      PROVE  PlaceInv'
  <2>1. UNCHANGED <<request, requests, replies, floor>>
    BY <1>5, Zenon DEF Quit, HandlePeerAppend, vars, clientVars
  <2>2. \A d \in Client : status[d] # "idle" => status'[d] # "idle"
    <3>1. DOMAIN status = Client
      BY DEF TypeInv, TypeOK
    <3>2. CASE \E c \in Client : Quit(c)
      BY <3>1, <3>2, Zenon DEF Quit
    <3>3. CASE ~\E c \in Client : Quit(c)
      BY <1>5, <3>3, Zenon DEF HandlePeerAppend, vars, clientVars
    <3> QED BY <3>2, <3>3
  <2>3. \A g \in Group : SameOwner(g)
    <3>1. CASE \E r, s \in Replica : HandlePeerAppend(r, s)
      BY <1>0, <3>1, AppendStepFacts, AppendOwner
    <3>2. CASE ~\E r, s \in Replica : HandlePeerAppend(r, s)
      BY <1>5, <3>2, SMRsRest DEF Quit, vars, serverVars
    <3> QED BY <3>1, <3>2
  <2>4. \A d \in Client : Undisturbed(d)
    BY <2>1, <2>2, <2>3, RestingWaits DEF Undisturbed
  <2> QED BY <2>4, AllInPlace, Zenon
<1> QED BY <1>1, <1>2, <1>3, <1>4, <1>5, ReceivedInPlace, FreedInPlace,
           ReadInPlace, LoggedInPlace DEF Next

\* Only groups of keys in use ever get entries.
LEMMA LogsInUseStep ==
  ASSUME TypeInv, GroupInv, RequestNumbers, NoStrays', [Next]_vars, PlaceInv,
         LogsInUse
  PROVE  LogsInUse'
<1>1. use' = use
  BY NumbersMove
<1>2. CASE OwnersRest
  BY <1>1, <1>2 DEF OwnersRest, SameOwner, LogsInUse
<1>3. ASSUME NEW c \in Client, NEW r \in Replica, NEW k \in Group,
             OwnerTakes(c, r, k)
      PROVE  LogsInUse'
  <2>1. /\ c \in Writer /\ RequestAt(c, r) \in WriteRequest
        /\ requests[c][r] # <<>> /\ WriteEntry(c, r, k) \in LogEntry(k)
        /\ \A g \in Group \ {k} : OwnerLog(g)' = OwnerLog(g)
    BY <1>3 DEF OwnerTakes, WriteStep, OwnerWrites, SameOwner
  <2>2. RequestAt(c, r) = request[c]
    BY <2>1, AskedOnly DEF PlaceInv
  <2>3. RequestAt(c, r).key_hash \in use.keys
    BY <2>1, <2>2 DEF RequestNumbers
  <2>4. k = CalcKeyPos(RequestAt(c, r).key_hash)
    BY <2>1 DEF LogEntry, WriteEntry, NewEntry, WriteOp
  <2> QED BY <1>1, <2>1, <2>3, <2>4 DEF LogsInUse
<1>4. ASSUME NEW k \in Group, NEW r \in Replica, NEW h, OwnerApplies(k, r, h)
      PROVE  LogsInUse'
  BY <1>1, <1>4 DEF OwnerApplies, OwnerCounts, SameOwner, LogsInUse
<1> QED BY <1>2, <1>3, <1>4, OwnerSteps

\* Only a client that takes the answer to its write adds to what is acknowledged,
\* and it was asked and answered as is right.
LEMMA AckedInvStep ==
  ASSUME TypeInv, GroupInv, NoStrays', [Next]_vars, PlaceInv, AckedInv
  PROVE  AckedInv'
<1> SUFFICES ASSUME NEW w \in acked' PROVE Committed(w)'
  BY DEF AckedInv
<1>1. CASE w \in acked
  BY <1>1, CommittedStays DEF AckedInv
<1>2. CASE w \notin acked
  <2>1. \E c \in Client, r \in Replica : ReceiveReply(c, r)
    <3>1. CASE \/ \E c \in Writer, k \in use.keys, e \in use.epochs, r \in Replica :
                    SendWrite(c, k, e, r)
               \/ \E c \in Reader, k \in Key : SendRead(c, k)
               \/ \E c \in Client : Quit(c)
               \/ \E r \in Replica, c \in Client : FreeConnection(r, c)
               \/ \E r \in Replica, c \in Client : RejectRequest(r, c)
      BY <1>2, <3>1, Zenon DEF SendWrite, SendRead, Quit, FreeConnection, RejectRequest,
                        clientVars
    <3>2. CASE \/ \E r \in Replica, c \in Client : HandleRead(r, c)
               \/ \E r \in Replica, c \in Client : HandleWrite(r, c)
               \/ \E r, s \in Replica : HandlePeerAppend(r, s)
               \/ \E r, s \in Replica : HandlePeerReply(r, s)
               \/ UNCHANGED vars
      BY <1>2, <3>2, Zenon DEF HandleRead, HandleWrite, HandlePeerAppend, HandlePeerReply,
                        clientVars, vars
    <3> QED BY <3>1, <3>2 DEF Next
  <2>2. PICK c \in Client, r \in Replica : ReceiveReply(c, r)
    BY <2>1
  <2>3. /\ Head(replies[r][c]).type = "client_reply" /\ status[c] = "writing"
        /\ w = request[c]
    BY <1>2, <2>2 DEF ReceiveReply
  <2>4. c \in Writer
    BY <2>3, TypeParts DEF AskersTyped
  <2>5. Committed(w)
    BY <2>2, <2>3, <2>4, ReceivedPlace DEF RightAnswer, PlaceInv
  <2> QED BY <2>5, CommittedStays
<1> QED BY <1>1, <1>2

\* What ReadersInv says of reader c
ReaderRight(c) ==
  /\ \A w \in floor[c] : w.key_hash = request[c].key_hash
  /\ status[c] = "idle" => \A w \in floor[c] : NotOlder(got[c], w)
ReaderRests(c) ==
  /\ request'[c] = request[c] /\ floor'[c] = floor[c]
  /\ status'[c] = "idle" => status[c] = "idle" /\ got'[c] = got[c]

\* What holds of a reader stays true while it does nothing.
LEMMA RestingReader ==
  ASSUME TypeInv, GroupInv, NoStrays', [Next]_vars, NEW c \in Reader,
         ReaderRight(c), ReaderRests(c)
  PROVE  ReaderRight(c)'
<1>1. \A w \in floor'[c] : w.key_hash = request'[c].key_hash
  BY DEF ReaderRight, ReaderRests
<1>2. ASSUME status'[c] = "idle", NEW w \in floor'[c] PROVE NotOlder(got[c], w)'
  <2>1. PICK v : v = got[c]
    OBVIOUS
  <2>2. NotOlder(v, w)'
    BY <1>2, <2>1, NotOlderStays DEF ReaderRight, ReaderRests
  <2>3. got'[c] = v
    BY <1>2, <2>1 DEF ReaderRests
  <2> QED BY <2>2, <2>3 DEF NotOlder
<1> QED BY <1>1, <1>2 DEF ReaderRight

\* A reader gets a value that is not older than its floor.
LEMMA ReadersInvStep ==
  ASSUME TypeInv, GroupInv, NoStrays', [Next]_vars, PlaceInv, ReadersInv
  PROVE  ReadersInv'
<1> SUFFICES ASSUME NEW d \in Reader PROVE ReaderRight(d)'
  BY DEF ReadersInv, ReaderRight
<1>0. /\ DOMAIN status = Client /\ DOMAIN request = Client /\ DOMAIN floor = Reader
      /\ DOMAIN got = Reader /\ d \in Client /\ d \notin Writer
      /\ status[d] # "writing" /\ ReaderRight(d)
      /\ status[d] \in {"idle", "writing", "reading", "gone"}
  BY TypeParts, ClientAssumption
     DEF AskersTyped, TypeInv, TypeOK, HistoryTyped, Client, ReadersInv, ReaderRight
<1>1. ASSUME NEW c \in Writer, NEW k \in use.keys, NEW e \in use.epochs,
             NEW r \in Replica, SendWrite(c, k, e, r)
      PROVE  ReaderRests(d)
  BY <1>0, <1>1 DEF SendWrite, ReaderRests
<1>2. ASSUME NEW c \in Reader, NEW k \in Key, SendRead(c, k)
      PROVE  ReaderRight(d)'
  <2>1. CASE d = c
    <3>1. /\ request'[d].key_hash = k /\ status'[d] = "reading"
          /\ floor'[d] = {w \in acked : w.key_hash = k}
      BY <1>0, <1>2, <2>1 DEF SendRead
    <3> QED BY <3>1 DEF ReaderRight
  <2>2. CASE d # c
    <3>1. ReaderRests(d)
      BY <1>0, <1>2, <2>2 DEF SendRead, ReaderRests
    <3> QED BY <1>0, <3>1, RestingReader
  <2> QED BY <2>1, <2>2
<1>3. ASSUME NEW c \in Client, NEW r \in Replica, ReceiveReply(c, r)
      PROVE  ReaderRight(d)'
  <2>0. PICK m : m = Head(replies[r][c])
    OBVIOUS
  <2>1. UNCHANGED <<request, floor>>
    BY <1>3 DEF ReceiveReply
  <2>2. CASE d = c /\ m.type = "client_reply" /\ status[d] = "reading"
    <3>1. RightAnswer(d, m) /\ got'[d] = m.data
      BY <1>0, <1>3, <2>0, <2>2, ReceivedPlace DEF ReceiveReply, PlaceInv
    <3>2. PICK v : v = m.data
      OBVIOUS
    <3>3. \A w \in floor'[d] : NotOlder(v, w)'
      BY <2>1, <2>2, <3>1, <3>2, NotOlderStays DEF RightAnswer
    <3>4. \A w \in floor'[d] : NotOlder(got[d], w)'
      BY <3>1, <3>2, <3>3 DEF NotOlder
    <3>5. \A w \in floor'[d] : w.key_hash = request'[d].key_hash
      BY <1>0, <2>1 DEF ReaderRight
    <3> QED BY <3>4, <3>5 DEF ReaderRight
  <2>3. CASE ~(d = c /\ m.type = "client_reply" /\ status[d] = "reading")
    <3>1. ReaderRests(d)
      BY <1>0, <1>3, <2>0, <2>1, <2>3 DEF ReceiveReply, ReaderRests
    <3> QED BY <1>0, <3>1, RestingReader
  <2> QED BY <2>2, <2>3
<1>4. ASSUME NEW c \in Client, Quit(c) PROVE ReaderRests(d)
  BY <1>0, <1>4 DEF Quit, ReaderRests
<1>5. ASSUME UNCHANGED clientVars PROVE ReaderRests(d)
  BY <1>5 DEF clientVars, ReaderRests
<1>6. CASE \/ \E r \in Replica, c \in Client : FreeConnection(r, c)
           \/ \E r \in Replica, c \in Client : RejectRequest(r, c)
           \/ \E r \in Replica, c \in Client : HandleRead(r, c)
           \/ \E r \in Replica, c \in Client : HandleWrite(r, c)
           \/ \E r, s \in Replica : HandlePeerAppend(r, s)
           \/ \E r, s \in Replica : HandlePeerReply(r, s)
           \/ UNCHANGED vars
  <2>1. UNCHANGED clientVars
    BY <1>6, Zenon DEF FreeConnection, RejectRequest, HandleRead, HandleWrite,
                HandlePeerAppend, HandlePeerReply, vars
  <2> QED BY <1>0, <1>5, <2>1, RestingReader, Zenon
<1> QED BY <1>0, <1>1, <1>2, <1>3, <1>4, <1>6, RestingReader DEF Next

\* Every step keeps ClientsInv.
LEMMA ClientsInvStep ==
  ASSUME TypeInv, GroupInv, StorageInv, SlotsInv, NumbersInv, ClientsInv, [Next]_vars
  PROVE  ClientsInv'
<1> SUFFICES ASSUME NoStrays', NoSharedOwner'
             PROVE  (LogsInUse /\ PlaceInv /\ AckedInv /\ ReadersInv)'
  BY DEF ClientsInv
<1>1. NoStrays /\ NoSharedOwner
  BY StraysStay, NumbersMove DEF NoSharedOwner
<1> QED BY <1>1, PlaceInvStep, LogsInUseStep, AckedInvStep, ReadersInvStep
        DEF ClientsInv, NumbersInv

\* ClientsInv holds at first.
LEMMA ClientsInvInit == Init => ClientsInv
<1> SUFFICES ASSUME Init PROVE ClientsInv
  OBVIOUS
<1>1. \A g \in Group : OwnerLog(g) = <<>>
  BY OwnerIsReplica DEF Init, InitSMR, OwnerLog
<1>2. \A c \in Client : NothingAsked(c) /\ NothingLogged(c) /\ NothingAnswered(c)
  BY <1>1 DEF Init, NothingAsked, NothingLogged, NothingAnswered, Waits
<1>3. acked = {} /\ \A c \in Reader : floor[c] = {}
  BY DEF Init
<1> QED BY <1>1, <1>2, <1>3
        DEF ClientsInv, LogsInUse, PlaceInv, Place, AtRest, AckedInv, ReadersInv

-----------------------------------------------------------------------------
(* What the clients may rely on *)

\* A number that is in the log of an owner has its index there.
LEMMA IndexOfNumber ==
  ASSUME TypeInv, GroupInv, NoStrays, LogNumbers,
         NEW g \in Group, NEW i \in DOMAIN OwnerLog(g)
  PROVE  IndexOf(g, NumberAt(g, i)) = i
<1> DEFINE at == {j \in DOMAIN OwnerLog(g) :
                    OwnerLog(g)[j].data.data = NumberAt(g, i)}
<1>1. at = {i}
  BY DEF LogNumbers, NumberAt
<1> QED BY <1>1 DEF IndexOf

\* Behind a committed entry stands a majority of the replicas.
LEMMA CommittedOnMost ==
  ASSUME TypeInv, GroupInv, NoStrays, NEW g \in Group, NEW i \in 1..OwnerCommit(g)
  PROVE  2 * Cardinality({r \in Replica :
                             /\ i <= Len(smr[r][g].log)
                             /\ smr[r][g].log[i] = OwnerLog(g)[i]})
           > Cardinality(Replica)
<1>0. PICK o : o = OwnerOf(g)
  OBVIOUS
<1> DEFINE C == {r \in Replica : /\ i <= Len(smr[r][g].log)
                                 /\ smr[r][g].log[i] = OwnerLog(g)[i]}
<1>1. /\ o \in Replica /\ GroupSound(g, o)
      /\ OwnerCommit(g) = SMRs(g)[o].commit /\ OwnerLog(g) = SMRs(g)[o].log
      /\ \A r \in Replica : SMRs(g)[r].log = smr[r][g].log
  BY <1>0, OwnersSound, SMRsAre DEF OwnerCommit, OwnerLog
<1>2. OwnerCommit(g) \in Nat /\ OwnerCommit(g) > 0
  <2>1. OwnerCommit(g) \in 0..Len(OwnerLog(g)) /\ Len(OwnerLog(g)) \in Nat
    BY OwnerFacts
  <2> QED BY <2>1
<1>3. PICK Q \in SUBSET Replica :
        /\ Cardinality(Q) = Quorum
        /\ \A r \in Q \ Lacking(SMRs(g), OnLinks(g), o) :
             \A j \in 1..SMRs(g)[o].commit :
               /\ j <= Len(SMRs(g)[r].log)
               /\ SMRs(g)[r].log[j] = SMRs(g)[o].log[j]
  BY <1>1, <1>2, CommitHasVoters DEF GroupSound
<1>4. Q \subseteq C
  BY <1>1, <1>3 DEF GroupSound
<1>5. IsFiniteSet(Replica)
  <2>1. IsFiniteSet(0..(ClusterSize - 1))
    BY FS_Interval, GuidanceAssumption
  <2> QED BY <2>1, ClusterAssumption DEF Node
<1> HIDE DEF C
<1>6. IsFiniteSet(C)
  BY <1>5, FS_Subset DEF C
<1>7. /\ Cardinality(Q) <= Cardinality(C) /\ Cardinality(C) \in Nat
      /\ Cardinality(Replica) \in Nat /\ Quorum \in Nat
      /\ 2 * Quorum > Cardinality(Replica)
  BY <1>4, <1>5, <1>6, FS_Subset, FS_CardinalityType, QuorumNat
<1>8. 2 * Cardinality(C) > Cardinality(Replica)
  BY <1>3, <1>7
<1> QED BY <1>8 DEF C

\* What holds of the service: the invariants of all layers
ServiceInv ==
  TypeInv /\ GroupInv /\ StorageInv /\ SlotsInv /\ NumbersInv /\ ClientsInv

\* All layers hold at first.
LEMMA ServiceInvInit == Init => ServiceInv
BY TypeInvInit, GroupInvInit, StorageInvInit, SlotsInvInit, NumbersInvInit,
   ClientsInvInit DEF ServiceInv

\* Every step keeps all layers.
LEMMA ServiceInvStep == ServiceInv /\ [Next]_vars => ServiceInv'
BY TypeInvStep, GroupInvStep, StorageInvStep, SlotsInvStep, NumbersInvStep,
   ClientsInvStep DEF ServiceInv

\* All layers of the invariant hold for ever.
THEOREM ServiceIsSound == Spec => []ServiceInv
BY ServiceInvInit, ServiceInvStep, PTL DEF Spec

\* A client that takes a reply for the answer to its write can rely on it: the
\* write is committed, and a majority of the replicas has it, for any number of
\* replicas, clients, keys and writes, if no replica owns two groups in use and
\* every write went to the owner of its group.
THEOREM AcksAreDurable == Spec => []AckedIsDurable
<1>1. ServiceInv => AckedIsDurable
  <2> SUFFICES ASSUME ServiceInv, NoStrays, NoSharedOwner, NEW w \in acked,
                      NEW g, g = CalcKeyPos(w.key_hash),
                      NEW i, i = IndexOf(g, w.data)
               PROVE  /\ IsCommitted(g, i)
                      /\ 2 * Cardinality({r \in Replica :
                                /\ i <= Len(smr[r][g].log)
                                /\ smr[r][g].log[i] = OwnerLog(g)[i]})
                           > Cardinality(Replica)
    BY DEF AckedIsDurable
  <2>0. TypeInv /\ GroupInv /\ LogNumbers /\ AckedInv
    BY DEF ServiceInv, NumbersInv, ClientsInv
  <2>1. PICK h \in Group : \E j \in 1..OwnerCommit(h) : IsEntryOf(w, h, j)
    BY <2>0 DEF AckedInv, Committed
  <2>2. PICK j \in 1..OwnerCommit(h) : IsEntryOf(w, h, j)
    BY <2>1
  <2>3. /\ h = g /\ j \in DOMAIN OwnerLog(g) /\ NumberAt(g, j) = w.data
    BY <2>2 DEF IsEntryOf, NumberAt
  <2>4. i = j
    BY <2>0, <2>1, <2>3, IndexOfNumber
  <2>5. g \in Group /\ i \in 1..OwnerCommit(g)
    BY <2>1, <2>2, <2>3, <2>4
  <2> QED BY <2>0, <2>5, CommittedOnMost DEF IsCommitted, OwnerCommit
<1> QED BY <1>1, ServiceIsSound, PTL

\* A read, answered from the owner's storage alone, returns a value at least as
\* new as every write to its key that was acknowledged before the read was sent.
THEOREM ReadsAreRecent == Spec => []ReadsSeeAckedWrites
<1>1. ServiceInv => ReadsSeeAckedWrites
  <2> SUFFICES ASSUME ServiceInv, NoStrays, NoSharedOwner, NEW c \in Reader,
                      status[c] = "idle", NEW w \in floor[c],
                      NEW g, g = CalcKeyPos(w.key_hash)
               PROVE  IndexOf(g, got[c]) >= IndexOf(g, w.data)
    BY DEF ReadsSeeAckedWrites
  <2>0. TypeInv /\ GroupInv /\ LogNumbers /\ ReadersInv
    BY DEF ServiceInv, NumbersInv, ClientsInv
  <2>1. PICK h \in Group : \E j \in DOMAIN OwnerLog(h) : \E i \in 1..j :
          OwnerLog(h)[j].data.data = got[c] /\ IsEntryOf(w, h, i)
    BY <2>0 DEF ReadersInv, NotOlder
  <2>2. PICK j \in DOMAIN OwnerLog(h) : \E i \in 1..j :
          OwnerLog(h)[j].data.data = got[c] /\ IsEntryOf(w, h, i)
    BY <2>1
  <2>3. PICK i \in 1..j : OwnerLog(h)[j].data.data = got[c] /\ IsEntryOf(w, h, i)
    BY <2>2
  <2>4. /\ h = g /\ i \in DOMAIN OwnerLog(g) /\ NumberAt(g, i) = w.data
        /\ j \in DOMAIN OwnerLog(g) /\ NumberAt(g, j) = got[c]
    BY <2>2, <2>3 DEF IsEntryOf, NumberAt
  <2>5. IndexOf(g, w.data) = i /\ IndexOf(g, got[c]) = j
    BY <2>0, <2>1, <2>4, IndexOfNumber
  <2>6. i \in Nat /\ j \in Nat /\ i <= j
    <3>1. DOMAIN OwnerLog(h) = 1..Len(OwnerLog(h)) /\ Len(OwnerLog(h)) \in Nat
      BY <2>0, OwnerFacts
    <3> QED BY <2>2, <2>3, <3>1
  <2> QED BY <2>5, <2>6
<1> QED BY <1>1, ServiceIsSound, PTL

-----------------------------------------------------------------------------
(* Why servers end *)

\* A client whose entry waits for its commit has not been answered.
LEMMA WaitingIsNotAcked ==
  ASSUME TypeInv, GroupInv, NoStrays, LogNumbers, PlaceInv, AckedInv,
         NEW c \in Client, NEW g \in Group, NEW i \in 1..MaxWrites, Waits(c, g, i)
  PROVE  request[c] \notin acked
<1> SUFFICES ASSUME request[c] \in acked PROVE FALSE
  OBVIOUS
<1>1. Logged(c)
  BY DEF PlaceInv, Place, AtRest, Asked, Answered, NothingLogged
<1>2. PICK h \in Group : \E j \in DOMAIN OwnerLog(h) : LoggedAt(c, h, j)
  BY <1>1 DEF Logged
<1>3. PICK j \in DOMAIN OwnerLog(h) : LoggedAt(c, h, j)
  BY <1>2
<1>4. /\ h = g /\ j = i /\ i > OwnerCommit(g)
      /\ i \in DOMAIN OwnerLog(g) /\ NumberAt(g, i) = request[c].data
  BY <1>3 DEF LoggedAt, Waits, IsEntryOf, NumberAt
<1>5. PICK k \in Group : \E l \in 1..OwnerCommit(k) : IsEntryOf(request[c], k, l)
  BY DEF AckedInv, Committed
<1>6. PICK l \in 1..OwnerCommit(k) : IsEntryOf(request[c], k, l)
  BY <1>5
<1>7. k = g /\ l = i
  BY <1>4, <1>6 DEF IsEntryOf, NumberAt, LogNumbers
<1>8. OwnerCommit(g) \in Nat
  BY OwnerFacts
<1> QED BY <1>4, <1>6, <1>7, <1>8

\* A step on which server r ends: an entry is applied whose client's connection
\* is freed at r, and the client has no answer yet.
LEMMA EndingStep ==
  ASSUME ServiceInv, NoStrays', [Next]_vars, aborted' # aborted
  PROVE  \E r \in aborted' : \E c \in freed[r] :
           /\ c \in Writer /\ request[c] \in WriteRequest
           /\ NoSharedOwner => request[c] \notin acked
           /\ UNCHANGED <<use, freed, request, acked>>
<1>0. TypeInv /\ GroupInv /\ SlotsInv /\ NumbersInv /\ ClientsInv /\ NoStrays
  BY StraysStay DEF ServiceInv
<1>1. \E r, s \in Replica : HandlePeerReply(r, s)
  <2>1. CASE \/ \E c \in Writer, k \in use.keys, e \in use.epochs, r \in Replica :
                  SendWrite(c, k, e, r)
             \/ \E c \in Reader, k \in Key : SendRead(c, k)
             \/ \E c \in Client, r \in Replica : ReceiveReply(c, r)
             \/ \E c \in Client : Quit(c)
             \/ \E r \in Replica, c \in Client : FreeConnection(r, c)
    BY <2>1, Zenon DEF SendWrite, SendRead, ReceiveReply, Quit, FreeConnection, serverVars
  <2>2. CASE \/ \E r \in Replica, c \in Client : RejectRequest(r, c)
             \/ \E r \in Replica, c \in Client : HandleRead(r, c)
             \/ \E r \in Replica, c \in Client : HandleWrite(r, c)
             \/ UNCHANGED vars
    BY <2>2, Zenon DEF RejectRequest, HandleRead, HandleWrite, serverVars, vars
  <2>3. CASE \E r, s \in Replica : HandlePeerAppend(r, s)
    BY <1>0, <2>3, AppendStepFacts, AppendOwner
  <2> QED BY <2>1, <2>2, <2>3 DEF Next
<1>2. PICK r \in Replica, s \in Replica : ReplyStep(r, s)
  BY <1>0, <1>1, ReplyStepFacts
<1>3. PICK g, h : g = PacketAt(r, s).group_id /\ h = ReplyResult(r, s)
  OBVIOUS
<1>4. /\ g \in Group /\ r = OwnerOf(g) /\ h.abort = FALSE
      /\ AppliesNext(g, h)
  BY <1>0, <1>2, <1>3, ReplyOwner, ZenonT(60)
<1>5. /\ EmptySlot(r, h.apply) \/ FreedSlot(r, h.apply)
      /\ r \in aborted' /\ UNCHANGED <<use, freed, request, acked>>
  BY <1>2, <1>3, <1>4 DEF ReplyStep, AbortStep, PacketStep, clientVars
<1>6. PICK i \in DOMAIN h.apply : \/ pendings[r][h.apply[i].index] = NoClient
                                  \/ pendings[r][h.apply[i].index] \in freed[r]
  BY <1>5 DEF EmptySlot, FreedSlot
<1>7. PICK j : /\ j \in DOMAIN OwnerLog(g) /\ j > OwnerCommit(g)
               /\ j \in 1..MaxWrites /\ h.apply[i].index = j
  <2>1. PICK b \in OwnerCommit(g)..Len(OwnerLog(g)) :
          h.apply = SubSeq(OwnerLog(g), OwnerCommit(g) + 1, b)
    BY <1>4 DEF AppliesNext
  <2>2. PICK a, L, n : a = OwnerCommit(g) /\ L = OwnerLog(g) /\ n = Len(L)
    OBVIOUS
  <2>3. /\ L \in Seq(LogEntry(g)) /\ n \in Nat /\ n <= MaxWrites /\ a \in 0..n
        /\ DOMAIN L = 1..n /\ \A l \in 1..n : L[l].index = l
    BY <1>0, <1>4, <2>2, OwnerFacts
  <2>4. b \in a..n /\ h.apply = SubSeq(L, a + 1, b) /\ i \in DOMAIN h.apply
    BY <2>1, <2>2
  <2>5. i \in 1..(b - a) /\ h.apply[i] = L[a + i]
    BY <2>3, <2>4
  <2>6. a + i \in 1..n /\ a + i > a /\ a + i \in 1..MaxWrites
    BY <2>3, <2>4, <2>5, UseAssumption
  <2>7. h.apply[i].index = a + i
    BY <2>3, <2>5, <2>6
  <2> QED BY <2>2, <2>3, <2>6, <2>7
<1>8. PICK c : c = pendings[r][j]
  OBVIOUS
<1>9. c \in Writer /\ c \in freed[r]
  <2>1. c = Named(g, j)
    BY <1>4, <1>8 DEF Named
  <2>2. c \in Writer
    BY <1>0, <1>4, <1>7, <2>1 DEF SlotsInv
  <2> QED BY <1>6, <1>7, <1>8, <2>2, ClientAssumption
<1>10. request[c] \in WriteRequest
  BY <1>0, <1>7, <1>8, <1>9, TypeParts, ClientAssumption DEF SlotsTyped
<1>11. ASSUME NoSharedOwner PROVE request[c] \notin acked
  <2>1. LogsInUse /\ PlaceInv /\ AckedInv /\ LogNumbers
    BY <1>0, <1>11 DEF ClientsInv, NumbersInv
  <2>2. OwnerLog(g)[j].data.client = c
    BY <1>0, <1>4, <1>7, <1>8, <1>11, <2>1, SlotsName DEF Named
  <2>3. Waits(c, g, j) /\ c \in Client
    BY <1>7, <1>9, <2>2 DEF Waits, Client
  <2> QED BY <1>0, <1>4, <1>7, <2>1, <2>3, WaitingIsNotAcked
<1> QED BY <1>5, <1>9, <1>10, <1>11

\* A client that ended sends nothing more, and no other client's answer makes
\* its write acknowledged.
LEMMA GoneStaysUnanswered ==
  ASSUME TypeInv, RequestNumbers, [Next]_vars, NEW c \in Writer,
         request[c] \in WriteRequest, status[c] = "gone"
  PROVE  /\ request'[c] = request[c]
         /\ request[c] \notin acked => request[c] \notin acked'
<1>0. /\ DOMAIN request = Client /\ c \in Client /\ c \notin Reader
      /\ "gone" # "idle" /\ "gone" # "writing"
  BY TypeParts, ClientAssumption DEF AskersTyped, Client
<1>1. ASSUME NEW d \in Writer, NEW k \in use.keys, NEW e \in use.epochs,
             NEW r \in Replica, SendWrite(d, k, e, r)
      PROVE  request'[c] = request[c] /\ acked' = acked
  BY <1>0, <1>1 DEF SendWrite
<1>2. ASSUME NEW d \in Reader, NEW k \in Key, SendRead(d, k)
      PROVE  request'[c] = request[c] /\ acked' = acked
  BY <1>0, <1>2 DEF SendRead
<1>3. ASSUME NEW d \in Client, NEW r \in Replica, ReceiveReply(d, r)
      PROVE  /\ request'[c] = request[c]
             /\ request[c] \notin acked => request[c] \notin acked'
  <2>1. /\ request' = request
        /\ acked' = acked \/ (status[d] = "writing" /\ acked' = acked \cup {request[d]})
    BY <1>3 DEF ReceiveReply
  <2>2. ASSUME status[d] = "writing" PROVE request[d] # request[c]
    <3>1. d # c /\ d \in Writer /\ request[d] \in WriteRequest
      BY <1>0, <2>2, TypeParts DEF AskersTyped
    <3> QED BY <3>1 DEF RequestNumbers
  <2> QED BY <2>1, <2>2
<1>4. CASE \/ \E d \in Client : Quit(d)
           \/ \E r \in Replica, d \in Client : FreeConnection(r, d)
           \/ \E r \in Replica, d \in Client : RejectRequest(r, d)
           \/ \E r \in Replica, d \in Client : HandleRead(r, d)
  BY <1>4 DEF Quit, FreeConnection, RejectRequest, HandleRead, clientVars
<1>5. CASE \/ \E r \in Replica, d \in Client : HandleWrite(r, d)
           \/ \E r, s \in Replica : HandlePeerAppend(r, s)
           \/ \E r, s \in Replica : HandlePeerReply(r, s)
           \/ UNCHANGED vars
  BY <1>5, Zenon DEF HandleWrite, HandlePeerAppend, HandlePeerReply, clientVars, vars
<1> QED BY <1>1, <1>2, <1>3, <1>4, <1>5 DEF Next

\* A connection that is freed is never used again.
LEMMA FreedGrows ==
  ASSUME TypeInv, [Next]_vars, NEW r \in Replica
  PROVE  freed[r] \subseteq freed'[r]
<1>1. CASE \E s \in Replica, c \in Client : FreeConnection(s, c)
  <2>1. DOMAIN freed = Replica
    BY Zenon DEF TypeInv, TypeOK
  <2> QED BY <1>1, <2>1 DEF FreeConnection
<1>2. CASE \/ \E c \in Writer, k \in use.keys, e \in use.epochs, s \in Replica :
                SendWrite(c, k, e, s)
           \/ \E c \in Reader, k \in Key : SendRead(c, k)
           \/ \E c \in Client, s \in Replica : ReceiveReply(c, s)
           \/ \E c \in Client : Quit(c)
           \/ \E s \in Replica, c \in Client : RejectRequest(s, c)
           \/ \E s \in Replica, c \in Client : HandleRead(s, c)
  BY <1>2, ZenonT(60) DEF SendWrite, SendRead, ReceiveReply, Quit, RejectRequest, HandleRead,
              serverVars
<1>3. CASE \/ \E s \in Replica, c \in Client : HandleWrite(s, c)
           \/ \E s, t \in Replica : HandlePeerAppend(s, t)
           \/ \E s, t \in Replica : HandlePeerReply(s, t)
           \/ UNCHANGED vars
  BY <1>3, Zenon DEF HandleWrite, HandlePeerAppend, HandlePeerReply, serverVars, vars
<1> QED BY <1>1, <1>2, <1>3 DEF Next

\* The clients that were left behind stay so.
LEMMA EndsInvStep ==
  ASSUME ServiceInv, EndsInv, [Next]_vars
  PROVE  EndsInv'
<1> SUFFICES ASSUME aborted' # {}, NoStrays' PROVE SomebodyLeft'
  BY DEF EndsInv
<1>0. /\ NoStrays /\ TypeInv /\ RequestNumbers /\ (NoSharedOwner' <=> NoSharedOwner)
      /\ aborted \subseteq Replica
  BY StraysStay, NumbersMove
     DEF ServiceInv, NumbersInv, NoSharedOwner, TypeInv, TypeOK
<1>1. CASE aborted' = aborted
  <2>1. PICK r \in aborted : \E c \in freed[r] :
               /\ c \in Writer /\ request[c] \in WriteRequest
               /\ NoSharedOwner => request[c] \notin acked
    BY <1>0, <1>1 DEF EndsInv, SomebodyLeft
  <2>2. PICK c \in freed[r] : /\ c \in Writer /\ request[c] \in WriteRequest
                              /\ NoSharedOwner => request[c] \notin acked
    BY <2>1
  <2>3. status[c] = "gone"
    BY <1>0, <2>2, TypeParts DEF SlotsTyped
  <2>4. /\ request'[c] = request[c]
        /\ request[c] \notin acked => request[c] \notin acked'
    BY <1>0, <2>2, <2>3, GoneStaysUnanswered
  <2>5. c \in freed'[r]
    BY <1>0, <2>2, FreedGrows
  <2>6. request'[c] \in WriteRequest
    BY <2>2, <2>4
  <2>7. NoSharedOwner' => request'[c] \notin acked'
    BY <1>0, <2>2, <2>4
  <2> QED BY <1>1, <2>2, <2>5, <2>6, <2>7 DEF SomebodyLeft, WriteRequest
<1>2. CASE aborted' # aborted
  <2>1. PICK r \in aborted' : \E c \in freed[r] :
          /\ c \in Writer /\ request[c] \in WriteRequest
          /\ NoSharedOwner => request[c] \notin acked
          /\ UNCHANGED <<use, freed, request, acked>>
    BY <1>2, EndingStep
  <2>2. PICK c \in freed[r] : /\ c \in Writer /\ request[c] \in WriteRequest
                              /\ NoSharedOwner => request[c] \notin acked
                              /\ UNCHANGED <<use, freed, request, acked>>
    BY <2>1
  <2>3. c \in freed'[r] /\ request'[c] \in WriteRequest
    BY <2>2
  <2>4. NoSharedOwner' => request'[c] \notin acked'
    BY <1>0, <2>2
  <2> QED BY <2>1, <2>2, <2>3, <2>4 DEF SomebodyLeft, WriteRequest
<1> QED BY <1>1, <1>2

\* A server ends only where a write went to a replica that does not own its
\* group, or a writing client ended first: without a replica that owns two
\* groups in use, one that had no answer yet.
THEOREM ServersEndForAReason == Spec => []ServersEndOnlyByClients
<1>1. Init => EndsInv
  BY DEF Init, EndsInv
<1>2. ServiceInv /\ EndsInv /\ [Next]_vars => EndsInv'
  BY EndsInvStep
<1>3. EndsInv => ServersEndOnlyByClients
  BY DEF EndsInv, SomebodyLeft, WriteRequest, ServersEndOnlyByClients
<1> QED BY <1>1, <1>2, <1>3, ServiceIsSound, PTL DEF Spec
=============================================================================
