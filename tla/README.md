# Morphling in TLA+

This directory holds TLA+ models of morphling-c, a replicated in-memory key-value
store: what its replicas, groups and clients do, the properties that make the
service correct, the TLC runs that check them on small instances and the TLAPS
proofs that establish the central ones for clusters of every size.

Source paths below are relative to the repository; `smr.cpp` is
`core/smr.cpp`, and so on.

## The system

Three servers (`HARD_CODE_REPLICAS`) each hold a `Morphling` object. It owns 256
replication groups (`SMR` objects), one per *key position*, which is bits 8 to 15
of a key hash. The *guidance*, equal on all servers and in epoch 1 for ever, splits
the 256 positions into three ranges, one per replica. A client asks the replicas
for their guidance and sends an operation to the replica whose range holds the
position of the key: the *owner* of the group. There is no election and no change
of ownership.

| Part | State | Operations |
|---|---|---|
| `SMRLog` (smr.cpp) | entries, commit index | `append`, `truncate`, `entry_at`, `get_part_entries`, `commit_to` |
| `EntryVoteRecord` (smr.cpp) | votes per index, completed indices | `vote` |
| `SMR` (smr.cpp) | log, votes, `m_prs` (match, next per peer) | `handle_operation`, `handle_append_entries`, `handle_append_entries_reply` |
| `Morphling` (morphling.cpp) | guidance, 256 groups, outgoing messages, entries to apply, pending clients, storage | the three handlers, `maybe_apply`, `bcast_msgs`, `reply_guidance` |
| `Guidance`, `NodeStatus` (guidance.h) | epoch, one packed word per node | setters, `pos_is_in`, `map_node_id` |
| TCP server (server.cpp) | links to peers, connection flags | read callbacks, connecting and accepting, periodic guidance |
| UDP server (server2.cpp) | two sockets | read callbacks, periodic guidance |
| client2.cpp (TCP), client3.cpp (UDP) | status, guidances of a turn | `one_send`, reply callbacks, `check_guidance_quorum`, `update_leading_guidance` |
| client.cpp | its socket | one blocking operation after the other, to a server its user names |
| utils.cpp, utils.h | the two lists of times of a `Gauge` | framing (`recv_msg`, `full_read`), packing, latencies |
| extra/server.cpp, extra/client.cpp | numbers of questions, waiting clients; status of connections | a benchmark of a nested call: client, server 0, its peers, and back |
| extra/echo_server.cpp, extra/loop_client.cpp | three gauges | a benchmark of echoed datagrams |
| extra/arena.cpp | blocks, the bytes left in the last one, `memory_usage_` | `Allocate`, `AllocateAligned`, `MemoryUsage` |

How they interact: a client's message makes the owner append an entry and vote for
it, and queue one `AppendEntriesMessage` for each peer; the server's callback then
hands the queue to the links (`bcast_msgs`). A peer checks that it has the entry
before the new one, appends, and queues a reply that names its last index. The owner
counts a successful reply as a vote. The vote that completes an index commits
everything up to it and hands the newly committed entries to `maybe_apply`, which
writes the storage and replies to the client remembered in `m_client_pendings` under
the index of the entry. Reads do not enter the log: the owner answers them from its
storage.

What is hard here:

* Each server is one event loop, so a callback is atomic; what interleaves are
  callbacks of different processes, through the messages between them.
* The core assumes nothing of its transport. One server uses TCP links, the other
  UDP, where messages are lost, repeated and reordered. A refusal is ignored
  (`// tbd`, smr.cpp:255) and nothing is sent again.
* A reply names the last index of the sender, not the entry it answers, so delayed
  and repeated replies vote for other indices than their messages carried.
* Nothing is stored on disk. A restarted server has empty logs while the others
  remember its votes.
* All groups of a replica share the links, the queues and `m_client_pendings`.
* Two servers both connect to each other and decide separately which of the two
  connections they use; event callbacks free what other structures point to.
* Clients match replies to requests by having one request under way, count
  guidances of whatever turn, and block in event loops that several of them share.
* Key ranges are packed into bytes, with inclusive ends and possible wrap-around.
* A read callback handles one message for each arrival of bytes, however many
  messages came together, and waits inside the loop when it got a part of one.
* Clients, connections and processes end while others point to what they leave behind.
* The benchmarks match answers to questions by order, by number, or not at all.

The properties that make each part correct: an accepted append message leaves the
receiver with the sender's log up to its entry (log); a completed index has the
votes of a majority (votes); followers' logs are prefixes of the owner's, committed
entries are on a majority, each is applied once and in order, nothing aborts (group);
the storage is what the committed entries leave behind, an acknowledged write is
durable, a read sees what was acknowledged, every request is answered (replica and
client); every position has one owner (guidance); both ends use one connection, and no freed
one (links); every client ends, with all its operations answered (client); bytes are
handed out once (arena); a latency belongs to one message (gauges, blocking client); an
answer belongs to the request under way (benchmark).

## Modules

| Module | Models | Built on |
|---|---|---|
| `SMRLog` | class `SMRLog`, as operators on sequences | |
| `EntryVoteRecord` | class `EntryVoteRecord`, as operators | |
| `SMRHandlers` | the handlers of class `SMR`: state and input to new state, messages, entries to apply, abort | `SMRLog`, `EntryVoteRecord` |
| `SMR` | one group of any number of replicas over the weakest network; its properties | `SMRHandlers` |
| `PrimaryBackup` | what a group promises, without messages and votes | |
| `SMRRefinement` | the mapping under which `SMR` implements `PrimaryBackup` | `SMR`, `PrimaryBackup` |
| `SMRRestart` | `SMR` with servers that crash and restart | `SMR` |
| `SMRHandlersProofs` | lemmas about the handlers, for a group that sits in any of the modules that use them | `SMRHandlers` |
| `SMRProofs` | the invariants of `SMR`, `SMRRestart` and `SMRLoss`, the theorems about them, and the refinement | `SMRRefinement`, `SMRRestart`, `SMRLoss`, `SMRHandlersProofs` |
| `Guidance` | `NodeStatus`, `Guidance`, `calc_key_pos`, `init_local_guidance` | |
| `SMRLoss` | `SMR` over a network that loses messages for good | `SMR` |
| `Morphling` | replicas with several groups, storage and pending clients; TCP links; clients that follow their guidance, that do not, and that end | `SMRHandlers`, `Guidance` |
| `MorphlingProofs` | that every key position has one owner; the invariants of the service and the theorems about it | `Morphling`, `SMRHandlersProofs` |
| `PeerLink` | connections between TCP servers: connecting, adopting, giving up, loss, restarts | |
| `PeerLinkProofs` | the invariant of the links and what follows | `PeerLink` |
| `Framing` | messages on a byte stream, `recv_msg` and `full_read` | |
| `ClientTurn` | client2.cpp: setup, turns, guidance collection, event loops of its threads, failing connections | |
| `ClientTurnProofs` | the invariant of the client process and what follows | `ClientTurn` |
| `DatagramClient` | client3.cpp: the same over datagrams lost, overtaken and duplicated | `Guidance` |
| `DatagramClientProofs` | the invariant of that process and its datagrams, and what follows | `DatagramClient` |
| `BlockingClient` | client.cpp: one `recv` for one answer | |
| `NestedBench` | the nested-call benchmark: client, server 0, peers; dropped datagrams, restarts | |
| `NestedBenchProofs` | the invariant of the nested call and what follows | `NestedBench` |
| `Gauge` | class `Gauge`, as operators | |
| `EchoBench` | the gauges of the echo benchmark under its senders | `Gauge` |
| `Arena` | the bump allocator | |
| `MCGuidance`, `MCAppendEntries` | reference definitions for `Guidance` and the append handler | `Guidance`, `SMRHandlers` |
| `MCAlgorithms` | the six sequential parts side by side, a behaviour being of one of them | the modules of the parts |
| `AlgorithmsProofs` | the invariant of each of the six and its properties | `MCAlgorithms` |
| `MCMorphling`, `MCClientTurn`, `MCDatagramClient`, `MCNestedBench`, `MCSMRRestart` | instances for TLC | |

The handlers of `SMR` are pure operators because several modules use them: `SMR`, where
`smr[r]` is the one group object of replica `r`, and `Morphling`, where `smr[r][g]`
is `m_smrs[g]` of replica `r`. Neither repeats a line of them. `SMRLoss` and `SMRRestart`
extend `SMR`, with actions of their own beside its own. A handler that ends in `ABORT_F`
reports `abort`; the process is then in `aborted` and handles nothing more.

### Correspondence of state and actions

* `log` is `m_log`; the entry of index i is `log[i]`, as the dummy entry keeps
  index 0 for ever. `commit` is `m_commits`. `votes.records` holds the pair
  `<<i, r>>` when bit r of `m_records[i]` is set, `votes.complete` the keys of
  `m_entry_complete`. `prs` is `m_prs`.
* `SMR!ClientOperation`, `RecvAppendEntries` and `RecvAppendEntriesReply` are the
  three handlers with everything they pass to their callbacks; `applied[r]` is
  what `notify_apply` received. `msgs` only grows: a message in it may be handled at
  any time, any number of times or never, which is loss, repetition and reordering.
* In `Morphling`, an action is one read callback of server.cpp: handler,
  `maybe_apply` and `bcast_msgs`. As both queues are empty when a callback ends, they
  are not state. `links[r][s]`, `requests` and `replies` are the TCP byte streams
  as queues of messages. `status`, `request` and `got` are the client's; `acked`,
  `floor` and `answers` are history for the properties.
* In `PeerLink`, `bev` is the state of every bufferevent, two for each connection, and
  `ctx[s][p]` is the `PeerContext` of s for p with `m_peer_trans[p]`. An action is one
  event callback, or the start or the end of a process. A second
  `bufferevent_free` of the same object is undefined: the process may go on or die.
* In `Morphling`, a *use* (chosen in `Init`) says which keys and epochs the clients put
  into requests, whether a write may go to any replica, and how many clients may end.
  `freed[r]` are the clients whose bufferevent `event_cb` has freed at r; a reply to
  one of those is lost or ends the process.
* In `ClientTurn`, an action is one callback, or what `thread_run` does between two
  blocking calls of `event_base_loop`: `pc` tells them apart. `link[c][r]` holds the
  requests whose answers are under way, in order, and `buffer[c][r]` those that have
  arrived but were not handled: a portion of any size arrives and the callback takes the
  oldest message. `conn[c][r]` is "freed" when `m_sock_bev` points to a bufferevent
  that is gone. What a replica does between request and answer is the subject of
  `Morphling`. `turn` is history.
* In `DatagramClient`, `net[c][r]` is a bag of round trips, request and answer in one,
  so losing or duplicating one stands for either leg. Threads and clients are made by
  the division that `main` does, so that some clients may never be made.
* In `SMRLoss`, `net` are the messages under way; handling one removes it, and so does
  losing it. `msgs` is history there: what was ever sent. Each action (`StepL`, and the
  three that use it) says what becomes of `net` besides what `SMR`'s does to the group;
  `Sendto` is what the UDP server adds to it, and `Lose` is the network's.
* The `ABORT_F`s of the log are `PosAborts`, `PartAborts` and `TailAborts`, and
  `SendAborts` where a handler sends a part of the log; together they are `abort` of a
  handler. `Morphling!HandleWrite` needs none of them: its log has just grown
  (`OperationFacts`).
* In `NestedBench`, `inbox`, `asked` and `answers` are the socket buffers of server 0, of
  its peers and of the client's connections. A pass over the
  connections is one `Send` after the other, each with a `sendto` of its own, so that
  one may be dropped, or the server restarted, between two of them; of a broadcast any
  set of peers may miss the question. The return on an error of `sendto` is left out.
  `era` counts the starts of server 0 and is in messages for the properties only; so is
  `left`, the questions that no peer had read when server 0 was last started.
* In `EchoBench`, a probe holds the number of the datagram it was set for in place of
  a time, so a printed latency is a pair of numbers.
* In `Framing`, `arrived` counts bytes of the stream and `handled` messages; in
  `BlockingClient`, `written` and `read` count bytes of the answers. In `Arena`, an
  address is a block and an offset.
* `data` of an entry is a model value in `SMR` and a record of key, value and the
  requesting client in `Morphling`; the value of the n-th write is n. Message
  encoding and logging are left out.
* Where a module has a type invariant, it is the first conjunct of an
  invariant that a run checks.
* A few definitions are preceded by a faulty variant (`SafeWithoutGapCheck` before
  `Safe`, for instance). Nothing uses a variant. Each stands for a plausible bug, and
  put in the place of the definition it makes a property fail: this is how we know
  that a property depends on the code it is about. The pairs are in `PROJECT.json`.

## Runs

| Run | Module / configuration | Question | States |
|---|---|---|---|
| `smr_network` | SMRRefinement / SMRRefinement.cfg | is a group of three safe over the weakest network, and does it implement `PrimaryBackup`? | 38,481 |
| `follower_restart` | MCSMRRestart / MCSMRFollowerRestart.cfg | what survives restarts of followers, in a group of four? | 19,092 |
| `owner_restart` | SMRRestart / MCSMROwnerRestart.cfg | can `commit_to` abort? (yes) | to the violation |
| `smr_loss` | SMRLoss / SMRLoss.cfg | who is cut off when messages are lost for good, and does the rest go on? | 82,461 |
| `algorithms` | MCAlgorithms / MCAlgorithms.cfg | guidance, append handler, arena, blocking client, framing, gauges | 59,426 |
| `morphling` | MCMorphling / MCMorphling.cfg | what may a client rely on, in six uses of the service? | 393,714 |
| `morphling_live` | MCMorphling / MCMorphlingLive.cfg | does the service come to rest with everything answered and copied? | 63,879 |
| `peer_links` | PeerLink / PeerLink.cfg | do servers agree on a connection, and what do crashes leave behind, and who is never taken back? | 7,180 |
| `peer_links_crossed` | PeerLink / PeerLinkCrossed.cfg | is a connection only given up for another? (no) | to the violation |
| `client_turns` | MCClientTurn / MCClientTurn.cfg | do clients get and match all their answers and end, and what does a failing connection do? | 118,566 |
| `datagram_client` | MCDatagramClient / MCDatagramClient.cfg | the same over datagrams | 80,518 |
| `nested_bench` | MCNestedBench / NestedBench.cfg | are requests, numbers and answers matched, what crashes the server, does every sender end? | 117,847 |

Run one with `tlc -config PeerLink.cfg PeerLink`; `tlapm SMRProofs.tla` checks the
proofs of a module, those it extends excepted.

### What they show

**A group is safe without restarts.** `smr_network`: followers hold prefixes
(`FollowerLogIsPrefix`), a committed entry is on a majority with everything before
it (`CommittedOnMajority`), the owner applies each committed entry once and in order
even when votes complete indices out of order (`AppliedIsCommittedPrefix`), nothing
is truncated (`LogsOnlyGrow`), no abort is reached (`NoAbort`).
`FollowerCommitLags` records something the code does not say: the commit index of a
follower is always short of its own last entry, since an entry is sent before it
can be committed and no message tells of the commit of the last one. A follower's
storage, accordingly, is never written. `ImplementsPrimaryBackup`: seen from outside, a
group takes operations in one sequence, executes them in that order once a majority
has stored them, and does nothing else.

**One lost message cuts a follower off.** `smr_loss`: a follower that misses an entry
refuses every later one, as the owner points `next` at the newest entry with each
operation (smr.cpp:219) and ignores refusals (smr.cpp:255); it never gets another entry
(`CutOffForEver`). That is the only cause: somebody is cut off when the message for the
first entry it lacks was lost or had overtaken an earlier one (`CutOffHasCause`). With a
majority spared, everything is committed and applied all the same
(`SparedMajorityCommits`); once too many are cut off, nothing is, ever.

**Followers may restart, at a price.** A restarted follower refuses everything but
entry 1 until somebody sends it that entry again; the owner never does, but old
messages may still arrive. `RestartsCostCopies`: logs stay prefixes and nothing aborts,
but a committed entry may be left on fewer replicas than a majority, by at most the
number of restarts. Among three replicas the owner's copy and one restart make up a
majority whatever was voted, so the run has four.

**The owner may not.** `owner_restart` expects a violation and finds it: the owner
sends entry 1 to its followers, restarts, and receives both replies; two followers
vote for index 1, the quorum is complete, and `commit_to(1)` aborts on the empty log
(smr.cpp:87). It needs the UDP server, which needs no
connection; over TCP a restarted server gets new connections only.

**Clients can rely on acknowledgements while no replica owns two groups in use.**
`morphling` explores six uses: the one key 0x5499 of the repository's clients; a
second key of another replica; two keys of one replica, with requests of a wrong epoch;
writes sent to any replica (`stray`), as client.cpp allows; a client that ends; and a
client that ends where two keys have one owner. A
client looks at nothing in a reply, so `AckedIsDurable` rests on `m_client_pendings`
naming the right client. With two groups of one owner in use the slots collide, since
every group numbers its entries from 1, and a writer can be told of somebody else's
write; `AckedIsDurable` and `ReadsSeeAckedWrites` therefore assume `NoSharedOwner`.
`MisdirectNeedsCollision` says that slots taken twice are the only way for a reply to go
astray, and `StorageIsCommittedPrefix` that the storage is right all the same.

**Writes at two replicas of a group diverge, and nobody notices.** As all entries carry
epoch 1, two replicas that take operations of one group believe each other's messages.
`DivergenceNeedsTwoTakers`: logs differ only then. `ServersEndOnlyByClients`: a server
ends by itself (an empty slot, or one of a freed connection, is dereferenced in
`maybe_apply`) only after a stray write, or after a client went away before its answer.
Where groups share their owner "before its answer" cannot be said of the write itself:
the client may have been told of somebody else's, and gone, while its own is still to
be applied. The proof found this case.

**The service comes to rest** (`ServiceSettles`): as long as operations go to owners with
the right epoch and clients stay, every request is answered and every follower gets
every entry, over links that lose nothing.

**The append handler is right for single entries.** The servers never leave epoch
1, so the truncating branch is not reached in `SMR`. `AppendEntriesRight` enumerates all
pairs of logs that agree up to any common epoch and index, and checks each message
against a definition of what it should do. A message of several entries would be
handled wrongly (smr.cpp:203-205 appends one entry repeatedly); the senders build none.

**Links: agreement, but not always a link.** If a server has taken its peer's
connection, the peer uses the other end of it (`AdoptedIsOffered`), even with crashes
in between. Servers that do not die get linked for good, whoever starts first, or both
have given up both connections (`LinkedUnlessCrossed`). The second case is a defect, and
`peer_links_crossed` shows it: with both connections up before either hello is read,
both servers have `proactive_connected` set and each frees the accepted connection
(server.cpp:352). Their own connections then end, which `connect_peer_event_cb`
ignores, and no server connects twice. `DanglingOnlyAfterCrash` bounds the use of freed
bufferevents: `event_cb` leaves `socket_bev` and the transport pointing to what it
freed, and this happens exactly to the side that had adopted a connection, after its
opener died. By the same flags a server that linked up proactively refuses its peer for
ever once that peer has restarted (`StrandedForEver`): only a restart of its own brings
the link back. Nothing in the repository promises more.

**One arrival, one message.** `FramingRight`: a server handles no more messages than
there were arrivals, so messages that come together wait for a later arrival; and a
message that comes in two parts stops the server for ever, as `full_read` waits inside
the loop that would bring the rest. `Morphling` does not
contain either case: its links carry whole messages, and its fairness takes for granted
that each of them is taken in the end (below).

**Clients end with all their answers.** Replies carry nothing to match them by; it is
the single outstanding request that makes the match (`ReplyIsForThisTurn`).
`DoneIsAnswered` is the "todo" of client2.cpp:634: the
condition that the loop has now does leave only when all clients are answered; and no
client sends without a guidance. `SendsAsAsked`: the counter that the threads share, and
that counts on, yields exactly the number asked for. `AllThreadsFinish` says that a
blocking event loop is never entered with nothing to come. A replicated read
waits for a quorum of guidances, of which the owner's is of this turn
(`ReadsAreConfirmed`). The others need not be: guidances of the setup are not cleared
and count in the first turn, and those a slow replica sends for one turn count in
later ones, so the quorum does not say that a majority was asked since the read began.
As all epochs are 1, nothing depends on it today.

**A failed connection is written to.** `on_connection_event` frees the bufferevent and
leaves the pointer. `MisusedWereUsable`: this concerns connections that had worked and
that turns need; one that never came up keeps its thread in the setup instead. Both
are the exceptions `AllThreadsFinish` names.

**Over datagrams, an answer may be another turn's.** `SurplusIsDuplicates`: a client takes
a wrong answer only if a datagram of its was duplicated, and the surplus is never more
than the duplicates. Overtaking and duplication stop nobody (`FinishUnlessLost`); a
lost datagram leaves its client, and the end of its thread, waiting.

**The blocking client** (`ClientInStep`) is in step with the server unless an answer was cut
by `recv`; an answer of more than 1024 bytes always is, and from then on its latencies
belong to other operations.

**The nested-call benchmark** matches answers by having one request under way for each
connection (`OneUnderWay`), whatever is dropped or restarted. Its server dereferences the
entry of a number without a look (`CrashNeedsCause`): every number given out since the
start has its entry or its bit, so only a reply from before a restart, or more requests
than `m_seq_finished` has bits, can find none. After a restart a reply to
an old question passes for the one with the same number. `AnswersAreAsked` bounds that:
an answered number was asked in this life of the server, or its question was still unread
by a peer when the server came back; what peers had replied before is gone with the
socket. `AllThreadsEnd`: one peer makes up for what another one's datagrams
lost, but no request is ever sent twice.

**The gauges of the echo server** (`GaugesRight`) start before the type of a datagram is
known: each datagram of an unregistered type shifts all later latencies by one, while
reads stay inside the lists and each latency is averaged once.

**The arena** (`ArenaRight`) hands out every byte once, aligned where asked, for every order
of requests, and `MemoryUsage` is what its blocks take (one thread uses it, so the doubt
noted at arena.cpp:46 does not arise). And `GuidanceRight`: each of the 256 positions has
one owner.

### Bounds

* `SMR`: `MaxOps` 3 with two contents: three entries
  are what it takes for one vote to commit two entries at once while a third is under
  way, and for a message to be older than the log by more than one. Messages are
  unbounded: any sequence of deliveries is explored.
* Three replicas, because the code fixes three (but for followers that restart); the
  theorems cover the other sizes.
* `SMRRestart`: two restarts and two operations with two contents (followers and
  contents symmetric, invariants only): two followers may lose what the owner has
  counted, or one may lose it twice. Four replicas, because after one restart a committed
  entry must still be on two of them, and because of an even number a majority is more
  than half. One restart and two operations suffice for the violation.
* `SMRLoss`: three operations, one content (contents are never compared), two lost
  messages: one for each follower, or a message and a reply.
* `MCAlgorithms`: for the guidance the real key space and cluster size, and two calls of
  `set_pos` with positions at 0, 127, 128 and 255, which give plain, wrapped, full and
  one-position ranges. Logs of up to four entries and three epochs: a conflict needs a
  common part, a differing tail on either side, and one epoch between. Arena: blocks of 4
  with pointers of 2 and requests of 1 to 3, so that requests are small and large, and
  aligned after any remainder, for three blocks. Blocking client: `recv` of 2 against
  answers of 1 to 3, below, at and above it, three rounds. Framing: headers of 2,
  payloads of 0 to 2, three messages, arrivals that end anywhere. Echo: two senders,
  one of which may be stray, three datagrams each, two reports.
* `Morphling`: two writers and one reader; three writes with one key, so
  that a writer can write again after an acknowledgement while the other waits; two
  writes in the other uses and in `morphling_live`. One read, since a read only depends
  on what was acknowledged before it. One client may end; strays, and ending clients of a
  shared owner, come without reads.
* `PeerLink`: two servers, as what a server does about one peer depends on no other;
  two crashes, for both servers once or one server twice, with events of a former
  connection still unread.
* `ClientTurn`: two clients in one thread (shared loop) or in two (shared counter);
  three operations, so that one client has several turns while the other waits; one
  connection fails. `DatagramClient`: one loss and one duplicate, which may hit the
  same or different clients, over groupings of two, one, and more than there are.
* `NestedBench`: two peers, two restarts, two dropped datagrams, so that the questions of
  two former lives meet and a broadcast may reach nobody; `m_seq_finished` of two bits
  and up to three requests, so that its end is passed. Command lines without requests or
  connections are among them.
* Deadlock is not checked where the system comes to rest: in `Morphling`, the clients and
  the benchmark once all requests are answered or have ended, in `SMRLoss` once nothing
  is under way, in `PeerLink` once all servers are linked, in `MCAlgorithms` at each
  part's end. `SMR` never stops, as `msgs` stays available.

### Fairness

`Morphling!FairSpec` assumes `WF_vars(Receive)`: while some message is on a link, some
message is eventually taken off one. It is one weak condition over all processes: the
event loops run while there is something to read. That each message is reached follows
because the bounds allow finitely many messages, and no client has to send. A
read callback takes one message, and bytes left in its buffer wake nobody (`Framing`); but
every server writes to every connected peer each five seconds (server.cpp:411), and each
arrival leads to one more message being taken. A client has one request under way,
whose arrival wakes its server. Nothing is assumed of clients that could send or end.
Messages that come in parts are outside this assumption.

`SMRLoss!FairSpecL`: the same for datagrams. Losing one is never obliged, nor sending.

`PeerLink!LiveSpec`: every server is started at some time (an assumption about its
operators), and for each connection an event that has happened is handed to its
callback, as libevent does for every ready socket. Nothing makes a process die.

`ClientTurn!LiveSpec` and `DatagramClient!LiveSpec`: a thread that can go on does, with one
condition for everything it can do (for datagrams, for all threads together): which of
several readable sockets comes first is left open. The network need not lose, duplicate
or fail anything.

`NestedBench!LiveSpec`: each thread's loop, server 0 and each peer go on while they have
something to do. Nobody has to stop or start server 0 again.

## Proofs

TLC checks small instances; the theorems below hold for every value of the constants
under the named assumptions of the modules. These ask for what the code fixes: finite
sets of replicas with the owner among them, bounds that are numbers, and in `Morphling`
that the key positions of the keys are positions of the guidance, as one byte of a hash
always is of 256, in `ClientTurn` that each client is driven by one thread, and in
`DatagramClient` that the position of the one key used has an owner in the cluster, as
each of the 256 has. No theorem assumes a size.

| Module | Theorem | Statement |
|---|---|---|
| `SMRProofs` | `Invariance` | `Spec => []IInv`, the inductive invariant of a group |
| | `TypeCorrect` | `Spec => []TypeOK` |
| | `FollowersArePrefixes` | `Spec => []FollowerLogIsPrefix` |
| | `CommitsAreDurable` | `Spec => []CommittedOnMajority` |
| | `AppliesInOrder` | `Spec => []AppliedIsCommittedPrefix` |
| | `FollowersLag` | `Spec => []FollowerCommitLags` |
| | `NeverAborts` | `Spec => []NoAbort` |
| | `NothingIsTruncated` | `Spec => LogsOnlyGrow` |
| | `GroupIsPrimaryBackup` | `Spec => ImplementsPrimaryBackup` |
| | `RestartsAreCounted` | `SpecR => []RestartsCostCopies`, if the owner does not restart |
| | `CutOffsHaveCauses` | `SpecL => []CutOffHasCause` |
| | `NobodyComesBack` | `SpecL => CutOffForEver` |
| `MorphlingProofs` | `EveryPositionHasOneOwner` | each position is in the range of exactly one node, the one `MapNodeId` finds |
| | `TypesHold`, `ServiceIsSound` | `Spec => []TypeInv`, `Spec => []ServiceInv` |
| | `LogsAgree` | `Spec => []DivergenceNeedsTwoTakers` |
| | `StorageIsRight` | `Spec => []StorageIsCommittedPrefix` |
| | `RepliesFindTheirClients` | `Spec => []MisdirectNeedsCollision` |
| | `AcksAreDurable` | `Spec => []AckedIsDurable` |
| | `ReadsAreRecent` | `Spec => []ReadsSeeAckedWrites` |
| | `ServersEndForAReason` | `Spec => []ServersEndOnlyByClients` |
| `PeerLinkProofs` | `LinksAreKept` | `Spec => []LinkInv` |
| | `NobodyIsMisled` | `Spec => []AdoptedIsOffered` |
| | `OnlyCrashesDangle` | `Spec => []DanglingOnlyAfterCrash` |
| | `NobodyIsTakenBack` | `Spec => StrandedForEver` |
| `ClientTurnProofs` | `ClientsStayInStep` | `Spec => []TurnInv` |
| | `RepliesAreAnswers` | `Spec => []ReplyIsForThisTurn` |
| | `NothingIsLeft` | `Spec => []DoneIsAnswered` |
| | `OnlyUsableIsMisused` | `Spec => []MisusedWereUsable` |
| | `ReadsEndConfirmed` | `Spec => ReadsAreConfirmed` |
| | `AllIsSent` | `Spec => []SendsAsAsked` |
| `DatagramClientProofs` | `SurplusFromDuplicates` | `Spec => []SurplusIsDuplicates` |
| `NestedBenchProofs` | `BenchIsSound` | `Spec => []BenchInv` |
| | `OneRequestUnderWay` | `Spec => []OneUnderWay` |
| | `CrashesHaveCauses` | `Spec => []CrashNeedsCause` |
| | `AnswersWereAsked` | `Spec => AnswersAreAsked` |
| `AlgorithmsProofs` | `GuidanceIsRight` | `Spec => []GuidanceRight` |
| | `AppendEntriesIsRight` | `Spec => []AppendEntriesRight` |
| | `ArenaIsRight` | `Spec => []ArenaRight` |
| | `ClientStaysInStep` | `Spec => []ClientInStep` |
| | `FramingIsRight` | `Spec => []FramingRight` |
| | `GaugesAreRight` | `Spec => []GaugesRight` |

### One group

None of the properties is inductive: from a state in which some message lies about the
owner's log, a step leads anywhere. `Core` (`SMRHandlersProofs`) says what keeps
messages and votes honest, of any SMR objects and any set of messages that may still be
handled: entries know their index; a log is a prefix of the owner's; an append message
carries exactly the entry that the owner's log has behind `prev_index`, and a commit
index of at most `prev_index`; an index is complete with exactly a quorum of votes;
what is committed is complete. `Lacking` is the set of votes whose voter does not hold
what it voted for. One lemma for each handler says that honest input keeps `Core`
and adds nothing to `Lacking`. Honest input is also why a handler cannot truncate: a
stale message always matches.

* In `SMR` nobody forgets, so `Lacking` is empty (`IInv`), and the quorum of votes for
  the commit index is a majority of copies.
* In `SMRRestart` a restarted follower keeps `Core`, as the empty log is a prefix, but
  enters `Lacking`; the number of its members bounds the copies that are missing. The
  theorem assumes that the owner does not restart, because the property fails to
  hold where it does: `owner_restart` shows an abort.
* In `SMRLoss` what is under way was sent (`NetWasSent`), and what was sent is honest, so
  that the lemmas apply to its steps as to those of `SMR`. For the causes of a
  cut-off the invariant says that every entry was sent to every follower, and that an
  append message that is gone was lost, refused, or is behind the end of the
  receiver's log (`SentAndGone`).
* `GroupIsPrimaryBackup` takes the invariant before and after a step and tells which step
  of `PrimaryBackup` it is. A reply that moves the commit index is `Execute`, and
  `CommittedOnMajority` after it gives the majority that `Execute` asks for; an append
  message is `Copy`.

### The service

`Morphling` is many groups over shared links, slots and clients. Its invariants are
stacked, each proved with those before it:

* `TypeInv`. Logs do not outgrow `MaxWrites` because every entry was a write request under
  way: `Spare`, the writes sent less those under way, bounds every log and every
  index in a message.
* `GroupInv`: `Core` holds of each group, with the messages that the links carry for it, as
  long as at most one replica took operations of the group. Groups meet on
  the links only, so a step of one group leaves all others where they were
  (`GroupRests`). `LogsAgree` follows.
* `StorageInv`: `maybe_apply` of several entries at once amounts to applying them in turn.
* `SlotsInv`: a slot of an owner names the client of the entry with its number, or
  another group of that owner has an entry with the number too.
* `NumbersInv`: no two writes have one number, in requests and logs together.
* `ClientsInv`: the one request of a client is in exactly one place (asked, logged,
  or answered), which is what makes the next reply the answer to it; what is acknowledged
  is committed; a reader is never answered with less than it was owed when it asked.
* `EndsInv`: a process ends only where a client has gone that still waited.

For these, every step is one of three as seen by a group's owner: it rests, it takes an
operation, or it counts a vote and applies (`OwnersRest`, `OwnerTakes`, `OwnerApplies`).
As the properties do, the layers say for which behaviours they hold: types
and groups for all; storage, slots and ends as long as only owners took operations
(`NoStrays`); the place of a request, and what is acknowledged, where no replica owns
two groups in use besides (`NoSharedOwner`).

`EveryPositionHasOneOwner` is what lets a service have one owner for each group. The ranges
of `InitCluster` follow one another, because the last position of a node is computed
from the first of the next; the node of a position is found by division.

### Links, clients and the nested call

`LinkInv` gives each context one of three forms: undecided, proactive on its own connection,
or adopted from its peer. It says of each connection what its opener's end knows, what
its acceptor's end knows, and, while a hello is unread, that it is the opener's
of this life. A server adopts only by reading a hello, and then its peer is proactive
on that very connection or is dead. A proactive context stays as it is until its server
ends, and a connection whose end is closed is never opened again (`NobodyIsTakenBack`).

`TurnInv` distinguishes clients in the setup, with at most the first guidance of each
replica under way, from clients in their turns. In a turn the only message that may
come from the owner is the answer to the present operation, because a client gets idle only
by that answer, or after it; what comes from the others is guidance and
cannot end a write or an unreplicated read. A client that waits for guidance has the
owner's of this turn already, hence `ReadsEndConfirmed`. A failed connection has
nothing to come, and had brought a guidance or never will. `AllIsSent` needs one more
invariant, `SentIsCounted`: up to the last operation the shared counter is the number of
pairs of a client and a turn that have been sent, and a thread is done only beyond it.

`DatagramInv` is about datagrams that any client may take for its answer. The bag between
a client and the owner is seen as a set, its copies of operations numbered (`Copies`), so
that a datagram sent, taken, lost or duplicated is one element more or less: never more
copies than duplicates and the one operation awaited. Operations travel between a client
and the owner only; what the other replicas send is guidance. What is
sent is counted as in `TurnInv`, and the place of a thread says which of its clients are
set up and idle.

`BenchInv` says where the one request of a busy connection is: in server 0's buffer, among
its numbers, in the answer, or nowhere, and then for ever. `OneRequestUnderWay` only counts
these places. Questions of this life of server 0 have numbers it has given out, and every
reply answers a question some peer received (`Matched`); a reply that finds neither bit
nor entry is then of an earlier life or past the last bit (`CrashesHaveCauses`). For
`AnswersWereAsked` the socket has to end with the server (`SocketOfThisLife`): what is in
it, and what peers have still to read, is of this life or is in `left`.

### The sequential parts

A behaviour of `MCAlgorithms` is one of a single part, so each theorem rests on an invariant
of its part alone; what is assumed are sizes that are numbers, positive where the code
divides or asserts.

* Guidance: a word is the sum of its two positions and its flag (`Word`), which every
  setter keeps; the owner of a position is found by division (`OneRange`).
* Append handler: logs are sequences of entries that know their place. A message that is safe
  has a common entry in front of it, so that the logs agree up to there; the three
  ways on are an entry added at the end, one that is there, and one that replaces a tail.
* Arena: what remains is the end of the current block, and no piece reaches into it
  (`RestIsFree`); of a closed block less than a quarter and the alignment is left over.
* Blocking client: what is written and not read is what answers are longer than the
  buffer, and each `recv` takes at most one answer.
* Framing: what has arrived reaches to the next message to be handled, and ends in it
  when the server is held up there.
* Gauges: the list of beginnings is 1, 2, ..., as every datagram starts the client gauge;
  an end is behind its place in the list by the strays before it (`EndsRight`).

Sums of sizes, of blocks, messages and answers, are the cardinality of a set of bytes
(`Cells`): what a size adds to such a sum follows from what a union adds to a set, where
a sum by recursion would need an induction.

### Only model-checked

* Liveness: `ServiceSettles`, `SparedMajorityCommits`, `LinkedUnlessCrossed`,
  `AllThreadsFinish`, `FinishUnlessLost`, `AllThreadsEnd`. Fairness is out of the prover's
  reach.
* What the two runs with an expected violation show.

## Not modelled

* loguru (vendored logging, 3,452 lines, more than a third of the source), the
  experiments with libevent and msgpack under `core/test_*`, the measurements
  `extra/chrono_measure.cpp` and `extra/manual_event.cpp` (straight-line code without
  state), and the tests, which were read for what the authors expect.
* Encoding by msgpack: a library, lossless for these types. Logging. Times: gauges are
  modelled as pairs of probes.
* The capacity of the log: at 1,000,000 entries `append` reads the index of the last entry
  through a reference into freed memory (the "caveat" at smr.cpp:36). What such a read
  returns is no property of the program.
* The composition of links and service: `Morphling` starts when links are up and clients
  have their guidance, which `PeerLink` and `ClientTurn` show to be reached (but for
  crossed connections), and its servers do not fail, except as its properties say. A
  `bcast_msgs` before a link exists dereferences a null transport; this is one of the
  ways to die that `PeerLink!Crash` stands for.

Two remarks from reading, for which no run exists. The test of append replies
expects message type 2 (`tests/replication_test.cpp:80`) where
`MsgTypeAppendReply` is 1; the test is not registered in the build. `smr.h:72` calls
the last argument of `get_part_entries` `ex_end`, but the end is included.

## Plan

Every safety property that a passing run checks is proved. What is left is a model:
`Morphling` over links that crash and come back, as `PeerLink` has them.
