------------------------------ MODULE Morphling ------------------------------
(***************************************************************************)
(* The whole service: replicas that keep one SMR object per key position   *)
(* (group), the key-value storage behind them, and clients with one        *)
(* outstanding request each, over the TCP links of app/server.cpp.         *)
(*                                                                         *)
(* A server handles one message per read callback, to completion: handler, *)
(* maybe_apply and bcast_msgs are one step, so m_next_msgs and             *)
(* m_apply_entries are empty between steps and are no variables.  A link   *)
(* is a FIFO queue that loses nothing; links are up from the start and     *)
(* servers do not fail.  Clients may end at any time.                      *)
(*                                                                         *)
(* Writers and readers are processes of app/client2.cpp: a process either  *)
(* only writes (handle_reply in status writing) or only reads; the readers *)
(* here run in unreplicated-read mode (handle_ur_reply).                   *)
(*                                                                         *)
(* Every replica has guidance epoch 1 for ever and stamps it on every      *)
(* message to a peer, so is_valid_guidance always accepts those.           *)
(***************************************************************************)
EXTENDS SMRHandlers, Guidance

CONSTANTS
  Key,       \* key hashes
  Writer,    \* client processes that write
  Reader,    \* client processes that read
  NoClient,  \* an empty slot of m_client_pendings
  MaxWrites, \* the largest bound on writes among the uses
  Uses       \* the ways the service is used, see Use

(***************************************************************************)
(* keys:   the keys the clients use                                        *)
(* epochs: the epochs they put into their requests                         *)
(* stray:  whether a write may go to any replica, as with app/client.cpp,  *)
(*         where a user names the server                                   *)
(* writes, reads, quits: bounds on the writes and the reads of a behaviour *)
(*         and on the clients that end                                     *)
(***************************************************************************)
Use == [keys: SUBSET Key, epochs: SUBSET Nat, stray: BOOLEAN,
        writes: 0..MaxWrites, reads: Nat, quits: Nat]

\* KeySpace covers the positions of the keys, as 256 does (calc_key_pos is one
\* byte of the hash): every key has an owner.
ASSUME ClusterAssumption ==
  /\ Replica = Node
  /\ Key \subseteq Nat /\ \A k \in Key : CalcKeyPos(k) \in Position
ASSUME ClientAssumption ==
  Writer \cap Reader = {} /\ NoClient \notin Writer \cup Reader
ASSUME UseAssumption ==
  /\ MaxWrites \in Nat
  /\ \A u \in Uses :
       /\ u.keys \subseteq Key /\ u.epochs \subseteq Nat
       /\ u.stray \in BOOLEAN /\ u.writes \in 0..MaxWrites
       /\ u.reads \in Nat /\ u.quits \in Nat

Client == Writer \cup Reader
Group == {CalcKeyPos(k) : k \in Key}
Epoch == 1

\* The replica a client sends the operations of a key to (one_send)
OwnerOf(g) == MapNodeId(InitCluster, g)

VARIABLES
  use,       \* how the service is used, never changed
  smr,       \* smr[r][g]: m_smrs
  storage,   \* storage[r][k]: m_storage, 0 for the default value
  pendings,  \* pendings[r][i]: the client whose transport slot i holds
  aborted,   \* the replicas whose process ended in ABORT_F or a bad access
  freed,     \* freed[r]: the clients whose bufferevent at r is freed
  links,     \* links[r][s]: messages on their way from replica r to s
  requests,  \* requests[c][r]: messages on their way from client c to r
  replies,   \* replies[r][c]: messages on their way from r to client c
  status,    \* status[c]: the status of client c
  request,   \* request[c]: the last request client c sent
  got,       \* got[c]: the value the last reply to a reader carried
  writes,    \* number of writes sent; the n-th write carries the value n
  reads,     \* number of reads sent
  \* history variables
  acked,     \* the writes whose clients took a reply for the answer
  floor,     \* floor[c]: the writes acked when reader c sent its last request
  answers,   \* [replica, group, index, client] of each reply to a write
  taken      \* the <<replica, group>> where a replica took a write

serverVars == <<smr, storage, pendings, aborted, links, freed, taken>>
clientVars == <<status, request, got, writes, reads, acked, floor>>
vars == <<use, serverVars, requests, replies, clientVars, answers>>

NoRequest == [epoch |-> 0, op_type |-> "none", key_hash |-> 0, data |-> 0]

Init ==
  /\ use \in Uses
  /\ smr = [r \in Replica |-> [g \in Group |-> InitSMR]]
  /\ storage = [r \in Replica |-> [k \in Key |-> 0]]
  /\ pendings = [r \in Replica |-> [i \in 1..MaxWrites |-> NoClient]]
  /\ aborted = {}
  /\ freed = [r \in Replica |-> {}]
  /\ links = [r \in Replica |-> [s \in Replica |-> <<>>]]
  /\ requests = [c \in Client |-> [r \in Replica |-> <<>>]]
  /\ replies = [r \in Replica |-> [c \in Client |-> <<>>]]
  /\ status = [c \in Client |-> "idle"]
  /\ request = [c \in Client |-> NoRequest]
  /\ got = [c \in Reader |-> 0]
  /\ writes = 0
  /\ reads = 0
  /\ acked = {}
  /\ floor = [c \in Reader |-> {}]
  /\ answers = {}
  /\ taken = {}

-----------------------------------------------------------------------------
(* Clients *)

\* Where a client sends the operations of a key
Server(k) == IF use.stray THEN Replica ELSE {OwnerOf(CalcKeyPos(k))}

\* one_send: only an idle client sends, to the owner of the key's position.
SendWrite(c, k, e, r) ==
  LET m == [epoch |-> e, op_type |-> "write", key_hash |-> k,
            data |-> writes + 1]
  IN /\ status[c] = "idle"
     /\ k \in use.keys /\ e \in use.epochs /\ r \in Server(k)
     /\ writes < use.writes
     /\ writes' = writes + 1
     /\ requests' = [requests EXCEPT ![c][r] = Append(@, m)]
     /\ request' = [request EXCEPT ![c] = m]
     /\ status' = [status EXCEPT ![c] = "writing"]
     /\ UNCHANGED <<use, serverVars, replies, got, reads, acked, floor, answers>>

SendRead(c, k) ==
  LET m == [epoch |-> Epoch, op_type |-> "read", key_hash |-> k, data |-> 0]
      r == OwnerOf(CalcKeyPos(k))
  IN /\ status[c] = "idle"
     /\ k \in use.keys
     /\ reads < use.reads
     /\ reads' = reads + 1
     /\ requests' = [requests EXCEPT ![c][r] = Append(@, m)]
     /\ request' = [request EXCEPT ![c] = m]
     /\ status' = [status EXCEPT ![c] = "reading"]
     /\ floor' = [floor EXCEPT ![c] = {w \in acked : w.key_hash = k}]
     /\ UNCHANGED <<use, serverVars, replies, got, writes, acked, answers>>

\* handle_reply and handle_ur_reply: whatever reply comes in answers the
\* outstanding request; it is compared with nothing.  An idle client drops it,
\* and a guidance message changes no status outside waiting_guidance.
ReceiveReply(c, r) ==
  LET m == Head(replies[r][c])
      answered == m.type = "client_reply" /\ status[c] # "idle"
  IN /\ status[c] # "gone"
     /\ replies[r][c] # <<>>
     /\ replies' = [replies EXCEPT ![r][c] = Tail(@)]
     /\ status' = [status EXCEPT ![c] = IF answered THEN "idle" ELSE @]
     /\ got' = IF answered /\ status[c] = "reading"
                 THEN [got EXCEPT ![c] = m.data] ELSE got
     /\ acked' = IF answered /\ status[c] = "writing"
                   THEN acked \cup {request[c]} ELSE acked
     /\ UNCHANGED <<use, serverVars, requests, request, writes, reads, floor,
                    answers>>

\* The process of a client ends, in a turn or between two.
Quit(c) ==
  /\ status[c] # "gone"
  /\ Cardinality({d \in Client : status[d] = "gone"}) < use.quits
  /\ status' = [status EXCEPT ![c] = "gone"]
  /\ UNCHANGED <<use, serverVars, requests, replies, request, got, writes, reads,
                 acked, floor, answers>>

-----------------------------------------------------------------------------
(* Servers: an aborted process handles nothing any more. *)

\* event_cb: r learns that the connection of c is closed and frees its
\* bufferevent, with the requests it had not handled.
FreeConnection(r, c) ==
  /\ r \notin aborted
  /\ status[c] = "gone" /\ c \notin freed[r]
  /\ freed' = [freed EXCEPT ![r] = @ \cup {c}]
  /\ requests' = [requests EXCEPT ![c][r] = <<>>]
  /\ UNCHANGED <<use, smr, storage, pendings, aborted, links, taken, replies,
                 clientVars, answers>>

ClientReply(k, v) == [type |-> "client_reply", key_hash |-> k, data |-> v]

\* prepare_msgs: what the SMR objects gave to the callbacks is stamped and made
\* ready for the link to its receiver; the epoch is the same everywhere and left
\* out.  The handlers here send at most one message to each peer.
Outgoing(queue, g, out) ==
  LET send(p) == {m \in out : m.to = p}
  IN [p \in Replica |->
        IF send(p) = {} THEN queue[p]
        ELSE Append(queue[p], [group_id |-> g,
                               body |-> CHOOSE m \in send(p) : TRUE])]

\* bcast_msgs
Broadcast(r, g, out) ==
  links' = [links EXCEPT ![r] = Outgoing(@, g, out)]

\* The same for the handler of a message taken off the link from s.
ConsumeAndBroadcast(s, r, g, out) ==
  LET rest == [links EXCEPT ![s][r] = Tail(@)]
  IN links' = [rest EXCEPT ![r] = Outgoing(@, g, out)]

\* reply_guidance, to a client
GuidanceReply == [type |-> "guidance"]

\* A request with another epoch is answered with the guidance, nothing more.
RejectRequest(r, c) ==
  LET m == Head(requests[c][r])
  IN /\ r \notin aborted
     /\ requests[c][r] # <<>>
     /\ m.epoch # Epoch
     /\ requests' = [requests EXCEPT ![c][r] = Tail(@)]
     /\ replies' = [replies EXCEPT ![r][c] = Append(@, GuidanceReply)]
     /\ UNCHANGED <<use, serverVars, clientVars, answers>>

\* A read is answered at once from the storage of this replica.
HandleRead(r, c) ==
  LET m == Head(requests[c][r])
  IN /\ r \notin aborted
     /\ requests[c][r] # <<>>
     /\ m.epoch = Epoch /\ m.op_type = "read"
     /\ requests' = [requests EXCEPT ![c][r] = Tail(@)]
     /\ replies' = [replies EXCEPT ![r][c] =
          Append(@, ClientReply(m.key_hash, storage[r][m.key_hash]))]
     /\ UNCHANGED <<use, serverVars, clientVars, answers>>

\* The slot of m_client_pendings a write takes: the index in its own group
\* (variant: the slot before it)
PendingSlotBehind(index) == IF index > 1 THEN index - 1 ELSE index
PendingSlot(index) == index

\* handle_operation, write: the new index of the group selects the slot of
\* m_client_pendings, which all groups of the replica share.  None of the
\* checks of the log fires: the entry to be sent was just appended.
HandleWrite(r, c) ==
  LET m == Head(requests[c][r])
      g == CalcKeyPos(m.key_hash)
      op == [key_hash |-> m.key_hash, data |-> m.data, client |-> c]
  IN /\ r \notin aborted
     /\ requests[c][r] # <<>>
     /\ m.epoch = Epoch /\ m.op_type = "write"
     /\ requests' = [requests EXCEPT ![c][r] = Tail(@)]
     /\ \E h \in {HandleOperation(smr[r][g], r, op, m.epoch)} :
          /\ smr' = [smr EXCEPT ![r][g] = h.smr]
          /\ pendings' =
               [pendings EXCEPT ![r][PendingSlot(LastIndex(h.smr.log))] = c]
          /\ Broadcast(r, g, h.out)
     /\ taken' = taken \cup {<<r, g>>}
     /\ UNCHANGED <<use, storage, aborted, freed, replies, clientVars, answers>>

\* handle_append_entries for the group the message names
HandlePeerAppend(r, s) ==
  LET m == Head(links[s][r])
  IN /\ r \notin aborted
     /\ links[s][r] # <<>>
     /\ m.body.type = "append"
     /\ \E h \in {HandleAppendEntries(smr[r][m.group_id], r, m.body)} :
          IF h.abort
            THEN /\ aborted' = aborted \cup {r}
                 /\ UNCHANGED <<smr, links>>
            ELSE /\ smr' = [smr EXCEPT ![r][m.group_id] = h.smr]
                 /\ ConsumeAndBroadcast(s, r, m.group_id, h.out)
                 /\ UNCHANGED aborted
     /\ UNCHANGED <<use, storage, pendings, freed, taken, requests, replies,
                    clientVars, answers>>

\* maybe_apply: each entry in turn is stored, and the client in the slot of
\* its index is told so; the slot keeps its client.  Reads never enter a log,
\* so only writes are applied.
LastWriteOf(es, k) ==
  LET at == {i \in DOMAIN es : es[i].data.key_hash = k}
  IN CHOOSE i \in at : \A j \in at : j <= i

\* The elements of a finite set of numbers, in ascending order
InOrder(at) ==
  LET n == Cardinality(at)
  IN CHOOSE f \in [1..n -> at] : \A i, j \in 1..n : i < j => f[i] < f[j]

Apply(r, g, es) ==
  /\ storage' = [storage EXCEPT ![r] = [k \in Key |->
       IF \E i \in DOMAIN es : es[i].data.key_hash = k
         THEN es[LastWriteOf(es, k)].data.data ELSE @[k]]]
  /\ replies' = [replies EXCEPT ![r] = [c \in Client |->
       LET mine == InOrder({i \in DOMAIN es : pendings[r][es[i].index] = c})
       IN @[c] \o [j \in DOMAIN mine |->
                     ClientReply(es[mine[j]].data.key_hash, 0)]]]
  /\ answers' = answers \cup
       {[replica |-> r, group |-> g, index |-> es[i].index,
         client |-> pendings[r][es[i].index]] : i \in DOMAIN es}

\* An empty slot is dereferenced; a slot of a freed connection may be as well,
\* or the reply is lost.
EmptySlot(r, es) == \E i \in DOMAIN es : pendings[r][es[i].index] = NoClient
FreedSlot(r, es) == \E i \in DOMAIN es : pendings[r][es[i].index] \in freed[r]

\* handle_append_entries_reply, then maybe_apply
HandlePeerReply(r, s) ==
  LET m == Head(links[s][r])
  IN /\ r \notin aborted
     /\ links[s][r] # <<>>
     /\ m.body.type = "append_reply"
     /\ \E h \in {HandleAppendEntriesReply(smr[r][m.group_id], r, m.body)} :
          \/ /\ h.abort \/ EmptySlot(r, h.apply) \/ FreedSlot(r, h.apply)
             /\ aborted' = aborted \cup {r}
             /\ UNCHANGED <<smr, links, storage, replies, answers>>
          \/ /\ ~h.abort /\ ~EmptySlot(r, h.apply)
             /\ smr' = [smr EXCEPT ![r][m.group_id] = h.smr]
             /\ ConsumeAndBroadcast(s, r, m.group_id, h.out)
             /\ Apply(r, m.group_id, h.apply)
             /\ UNCHANGED aborted
     /\ UNCHANGED <<use, pendings, freed, taken, requests, clientVars>>

-----------------------------------------------------------------------------

Serve(r, c) == RejectRequest(r, c) \/ HandleRead(r, c) \/ HandleWrite(r, c)
ServePeer(r, s) == HandlePeerAppend(r, s) \/ HandlePeerReply(r, s)

Next ==
  \/ \E c \in Writer, k \in use.keys, e \in use.epochs, r \in Replica :
       SendWrite(c, k, e, r)
  \/ \E c \in Reader, k \in Key : SendRead(c, k)
  \/ \E c \in Client, r \in Replica : ReceiveReply(c, r)
  \/ \E c \in Client : Quit(c)
  \/ \E r \in Replica, c \in Client : FreeConnection(r, c)
  \/ \E r \in Replica, c \in Client : RejectRequest(r, c)
  \/ \E r \in Replica, c \in Client : HandleRead(r, c)
  \/ \E r \in Replica, c \in Client : HandleWrite(r, c)
  \/ \E r, s \in Replica : HandlePeerAppend(r, s)
  \/ \E r, s \in Replica : HandlePeerReply(r, s)

Spec == Init /\ [][Next]_vars

\* Some message that is on a link is taken off it.
Receive ==
  \/ \E c \in Client, r \in Replica : ReceiveReply(c, r) \/ Serve(r, c)
  \/ \E r, s \in Replica : ServePeer(r, s)

\* The processes do not stop while there is something to read.  A read callback
\* takes one message and bytes already buffered wake nobody, but every server
\* writes to every peer each 5 seconds (periodic_peer), and each arrival takes
\* one more message off the link.  A client has one request outstanding, and
\* its arrival wakes the server; a reply wakes the client.  With the bounds on
\* reads and writes only finitely many messages exist, so this one condition
\* brings each of them to its receiver.  Nobody has to send.
FairSpec == Spec /\ WF_vars(Receive)

-----------------------------------------------------------------------------

\* The client-visible variables have their types; those of the SMR objects are
\* covered by SMR's TypeOK.
TypeOK ==
  /\ use \in Uses
  /\ storage \in [Replica -> [Key -> 0..MaxWrites]]
  /\ pendings \in [Replica -> [1..MaxWrites -> Client \cup {NoClient}]]
  /\ status \in [Client -> {"idle", "writing", "reading", "gone"}]
  /\ \A r, s \in Replica : \A i \in DOMAIN links[r][s] :
       /\ links[r][s][i].group_id \in Group
       /\ links[r][s][i].body.from = r /\ links[r][s][i].body.to = s
  /\ got \in [Reader -> 0..MaxWrites]
  /\ aborted \subseteq Replica
  /\ freed \in [Replica -> SUBSET Client]
  /\ taken \subseteq Replica \X Group

OwnerLog(g) == smr[OwnerOf(g)][g].log

\* The index a write has in the log of its group, 0 if it has none
IndexOf(g, value) ==
  LET at == {i \in DOMAIN OwnerLog(g) : OwnerLog(g)[i].data.data = value}
  IN IF at = {} THEN 0 ELSE CHOOSE i \in at : TRUE

IsCommitted(g, i) == i \in 1..smr[OwnerOf(g)][g].commit

\* Every write so far was taken by the owner of its group.
NoStrays == \A t \in taken : t[1] = OwnerOf(t[2])

\* No replica owns two of the groups in use, as with the one key of the clients.
NoSharedOwner ==
  \A k, l \in use.keys :
    OwnerOf(CalcKeyPos(k)) = OwnerOf(CalcKeyPos(l)) => CalcKeyPos(k) = CalcKeyPos(l)

\* A client that takes a reply for the answer to its write can rely on it: the
\* write is committed, and a majority of the replicas has it.  The client does
\* not look at the reply, so this rests on the slot of m_client_pendings
\* naming the right client: it needs groups with different owners.
AckedIsDurable ==
  NoStrays /\ NoSharedOwner =>
    \A w \in acked :
      LET g == CalcKeyPos(w.key_hash)
          i == IndexOf(g, w.data)
      IN /\ IsCommitted(g, i)
         /\ 2 * Cardinality({r \in Replica :
                   /\ i <= Len(smr[r][g].log)
                   /\ smr[r][g].log[i] = OwnerLog(g)[i]}) > Cardinality(Replica)

\* A read, answered from the owner's storage without a round of messages,
\* returns a value at least as new as every write to its key that some client
\* saw acknowledged before the read was sent.
ReadsSeeAckedWrites ==
  NoStrays /\ NoSharedOwner =>
    \A c \in Reader :
      status[c] = "idle" =>
        \A w \in floor[c] :
          LET g == CalcKeyPos(w.key_hash)
          IN IndexOf(g, got[c]) >= IndexOf(g, w.data)

\* The storage of a replica is what the committed prefix of the logs it owns
\* leaves behind, for every key: neither the interleaving of groups nor a
\* commit that jumps several entries loses or reorders a write.
\* (The types of all variables are part of it.)
StorageIsCommittedPrefix ==
  /\ TypeOK
  /\ NoStrays =>
       \A k \in Key :
         LET g == CalcKeyPos(k)
             o == OwnerOf(g)
             at == {i \in 1..smr[o][g].commit : OwnerLog(g)[i].data.key_hash = k}
         IN storage[o][k] =
              IF at = {} THEN 0
              ELSE OwnerLog(g)[CHOOSE i \in at : \A j \in at : j <= i].data.data

\* Every reply to a write goes to the client that sent the write, unless
\* another group of the same replica has an entry of that index, or the index
\* was taken anew after operations of the group at two replicas: those are the
\* only ways for a slot of m_client_pendings to name somebody else.
MisdirectNeedsCollision ==
  \A a \in answers :
    LET log == smr[a.replica][a.group].log IN
    \/ a.index <= Len(log) /\ a.client = log[a.index].data.client
    \/ ~NoStrays
    \/ \E g \in Group \ {a.group} :
         OwnerOf(g) = a.replica /\ Len(OwnerLog(g)) >= a.index

\* The logs of a group agree as far as they go, unless two replicas took
\* operations of the group: one client that follows its guidance and one that
\* does not are enough to make them differ for ever, as both use epoch 1.
DivergenceNeedsTwoTakers ==
  \A g \in Group, r, s \in Replica :
    Cardinality({t \in taken : t[2] = g}) <= 1 =>
      \A i \in DOMAIN smr[r][g].log \cap DOMAIN smr[s][g].log :
        smr[r][g].log[i] = smr[s][g].log[i]

\* A server ends only where somebody did not keep to the protocol: a write went
\* to a replica that does not own its group, so that an entry is applied whose
\* client is waiting elsewhere, or a client ended before it had its answer.
\* Where a replica owns two groups a client may have ended with the answer to
\* another client's write, its own being still under way.
ServersEndOnlyByClients ==
  aborted # {} =>
    \/ ~NoStrays
    \/ \E r \in aborted : \E c \in freed[r] :
         /\ request[c].op_type = "write"
         /\ NoSharedOwner => request[c] \notin acked

\* The clients keep to the protocol, with one epoch and separate owners.
Orderly == ~use.stray /\ use.epochs = {Epoch} /\ use.quits = 0 /\ NoSharedOwner

\* Whenever the clients have sent what they send, the service comes to rest:
\* every request is answered, so that all clients are idle, and every replica
\* has every entry the owners ever appended.
ServiceSettles ==
  Orderly =>
    []<>(/\ \A c \in Client : status[c] = "idle"
         /\ \A g \in Group, r \in Replica : smr[r][g].log = OwnerLog(g))

=============================================================================
