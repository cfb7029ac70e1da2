--------------------------------- MODULE SMR ---------------------------------
(***************************************************************************)
(* One replication group: the SMR objects that the replicas of a cluster   *)
(* keep for one key position, and the messages between them.               *)
(*                                                                         *)
(* Every server handles one event to completion in its event loop, so a    *)
(* handler call, with the messages and the entries it passes to its        *)
(* callbacks, is one step.  Clients send the operations of a group to the  *)
(* replica whose guidance range holds its key position (Owner).            *)
(*                                                                         *)
(* The SMR code makes no assumption on its Transport, so the network is    *)
(* the weakest one the two servers use (UDP, app/server2.cpp): msgs only   *)
(* grows, and a message in it may be handled at any time, again, or never. *)
(***************************************************************************)
EXTENDS SMRHandlers

CONSTANTS
  Owner,   \* the replica the clients send this group's operations to
  Data,    \* the operations clients send, as opaque values
  Epoch,   \* the guidance epoch: 1 in the code, set once and never changed
  MaxOps   \* bound on the operations of a behaviour

ASSUME ReplicaAssumption == IsFiniteSet(Replica) /\ Owner \in Replica
ASSUME EpochAssumption == Epoch \in Nat \ {0}
ASSUME MaxOpsAssumption == MaxOps \in Nat

VARIABLES
  smr,      \* smr[r]: the SMR object of replica r
  msgs,     \* every message sent so far
  applied,  \* applied[r]: the entries r was notified to apply, in order
  aborted   \* the replicas whose process ended in ABORT_F

vars == <<smr, msgs, applied, aborted>>

Follower == Replica \ {Owner}

Init ==
  /\ smr = [r \in Replica |-> InitSMR]
  /\ msgs = {}
  /\ applied = [r \in Replica |-> <<>>]
  /\ aborted = {}

\* The effect of a handler call on replica r that ended with result h.
Step(r, h) ==
  IF h.abort
    THEN /\ aborted' = aborted \cup {r}
         /\ UNCHANGED <<smr, msgs, applied>>
    ELSE /\ smr' = [smr EXCEPT ![r] = h.smr]
         /\ msgs' = msgs \cup h.out
         /\ applied' = [applied EXCEPT ![r] = @ \o h.apply]
         /\ UNCHANGED aborted

\* A write operation arrives at the owner.
ClientOperation(op) ==
  /\ Owner \notin aborted
  /\ Len(smr[Owner].log) < MaxOps
  /\ Step(Owner, HandleOperation(smr[Owner], Owner, op, Epoch))

RecvAppendEntries(m) ==
  /\ m.type = "append"
  /\ m.to \notin aborted
  /\ Step(m.to, HandleAppendEntries(smr[m.to], m.to, m))

RecvAppendEntriesReply(m) ==
  /\ m.type = "append_reply"
  /\ m.to \notin aborted
  /\ Step(m.to, HandleAppendEntriesReply(smr[m.to], m.to, m))

Next ==
  \/ \E op \in Data : ClientOperation(op)
  \/ \E m \in msgs : RecvAppendEntries(m)
  \/ \E m \in msgs : RecvAppendEntriesReply(m)

Spec == Init /\ [][Next]_vars

-----------------------------------------------------------------------------

Entry == [epoch : {Epoch}, index : Nat \ {0}, data : Data]

SMRState ==
  [log    : Seq(Entry),
   commit : Nat,
   votes  : [records : SUBSET (Nat \X Replica), complete : SUBSET Nat],
   prs    : [Replica -> [match : Nat, next : Nat]]]

AppendMsg ==
  [type : {"append"}, from : Replica, to : Replica,
   prev_term : Nat, prev_index : Nat, commit : Nat, entries : Seq(Entry)]

ReplyMsg ==
  [type : {"append_reply"}, from : Replica, to : Replica,
   success : BOOLEAN, index : Nat]

\* The variables hold values of the C++ types, entries being real entries.
TypeOK ==
  /\ smr \in [Replica -> SMRState]
  /\ msgs \subseteq AppendMsg \cup ReplyMsg
  /\ applied \in [Replica -> Seq(Entry)]
  /\ aborted \subseteq Replica

\* Whatever is lost, repeated or reordered, the log of a follower is a prefix
\* of the owner's log: check_safety leaves no gap, and re-delivered entries
\* never displace others (smr.cpp, handle_append_entries).
FollowerLogIsPrefix ==
  \A f \in Follower : IsPrefixOf(smr[f].log, smr[Owner].log)

\* An entry the owner counts as committed is in the logs of a majority, at the
\* same index, with everything before it: the votes the owner counts name an
\* index the voter really holds (reply.index is its last_index).
CommittedOnMajority ==
  smr[Owner].commit > 0 =>
    \E Q \in SUBSET Replica :
      /\ 2 * Cardinality(Q) > Cardinality(Replica)
      /\ \A r \in Q : \A i \in 1..smr[Owner].commit :
           i <= Len(smr[r].log) /\ smr[r].log[i] = smr[Owner].log[i]

\* The owner is notified to apply each committed entry exactly once and in log
\* order, although votes may complete indices out of order; nobody else is.
AppliedIsCommittedPrefix ==
  /\ applied[Owner] = SubSeq(smr[Owner].log, 1, smr[Owner].commit)
  /\ \A f \in Follower : applied[f] = <<>>

\* A follower knows less than the owner: its commit index is one the owner
\* reached, and the newest entry of its log is never known to be committed,
\* because an entry is sent before it can be and nothing follows it up.
\* (The types of all variables are part of it.)
FollowerCommitLags ==
  /\ TypeOK
  /\ \A f \in Follower :
       /\ smr[f].commit <= smr[Owner].commit
       /\ smr[f].commit > 0 => smr[f].commit < Len(smr[f].log)

\* No replica runs into one of the ABORT_F checks of SMRLog.
NoAbort == aborted = {}

\* No handler removes or rewrites a log entry or takes a commit index back,
\* although handle_append_entries may truncate.
LogsOnlyGrow ==
  [][\A r \in Replica : /\ IsPrefixOf(smr[r].log, smr'[r].log)
                        /\ smr[r].commit <= smr'[r].commit]_vars
=============================================================================
