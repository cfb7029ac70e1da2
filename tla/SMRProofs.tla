------------------------------ MODULE SMRProofs ------------------------------
(***************************************************************************)
(* Proofs about SMR, for every set of replicas, every owner, every set of  *)
(* operations and any number of them, under loss, repetition and           *)
(* reordering of messages: its safety properties, that it implements       *)
(* PrimaryBackup (SMRRefinement), what is left of its properties when      *)
(* followers restart (SMRRestart), and what becomes of a follower that     *)
(* misses a message (SMRLoss).                                             *)
(*                                                                         *)
(* The safety properties are not inductive: nothing in them says that the  *)
(* messages and votes in circulation speak the truth.  IInv adds just      *)
(* that: Core (SMRHandlersProofs) holds of the group with every message    *)
(* ever sent, and every voter still holds what it voted for.               *)
(***************************************************************************)
EXTENDS SMRRefinement, SMRRestart, SMRLoss, SMRHandlersProofs

OLog == smr[Owner].log

IInv ==
  /\ TypeOK
  /\ Core(smr, msgs, Owner, Entry)
  /\ Lacking(smr, msgs, Owner) = {}
  /\ AppliedIsCommittedPrefix
  /\ NoAbort

\* The entries of a group are log entries.
LEMMA EntryIsEntrySet == EntrySet(Entry)
BY EpochAssumption DEF EntrySet, Entry

\* The types of SMR are those of Core.
LEMMA SameTypes ==
  /\ StateOf(Entry) = SMRState
  /\ AppendOf(Entry) = AppendMsg
  /\ Replies = ReplyMsg
  /\ Others(Owner) = Follower
BY DEF StateOf, VoteState, SMRState, AppendOf, AppendMsg, Replies, ReplyMsg,
       Others, Follower

\* What IInv says of the parts a handler call starts from.
LEMMA StateFacts ==
  ASSUME IInv
  PROVE  /\ Owner \in Replica /\ Owner \notin Follower
         /\ \A r \in Replica :
              /\ smr[r] \in SMRState
              /\ smr[r].log \in Seq(Entry) /\ Len(smr[r].log) \in Nat
              /\ smr[r].commit \in Nat
              /\ applied[r] \in Seq(Entry)
         /\ DOMAIN smr = Replica /\ DOMAIN applied = Replica
         /\ \A f \in Follower : f \in Replica /\ f # Owner
         /\ \A r \in Replica : r = Owner \/ r \in Follower
         /\ smr[Owner].commit <= Len(OLog)
<1>1. smr \in [Replica -> SMRState] /\ applied \in [Replica -> Seq(Entry)]
  BY DEF IInv, TypeOK
<1>2. Owner \in Replica
  BY ReplicaAssumption
<1>3. Core(smr, msgs, Owner, Entry)
  BY DEF IInv
<1>4. smr[Owner].commit <= Len(OLog)
  BY <1>3 DEF Core, CommitIsComplete, OLog
<1> QED BY <1>1, <1>2, <1>3, <1>4, CoreFacts, SameTypes

\* Initially nothing is logged, sent or voted for.
LEMMA InitIInv == Init => IInv
<1> SUFFICES ASSUME Init PROVE IInv
  OBVIOUS
<1>1. Owner \in Replica /\ Follower \subseteq Replica
  BY ReplicaAssumption DEF Follower
<1>2. Core(smr, msgs, Owner, Entry) /\ Lacking(smr, msgs, Owner) = {}
  BY <1>1, CoreInit DEF Init
<1>3. TypeOK
  <2>1. smr \in [Replica -> SMRState]
    BY <1>2, SameTypes DEF Core, Typed
  <2> QED BY <2>1 DEF Init, TypeOK
<1>4. AppliedIsCommittedPrefix
  <2>1. SubSeq(<<>>, 1, 0) = <<>>
    OBVIOUS
  <2> QED BY <2>1, <1>1 DEF AppliedIsCommittedPrefix, Init, InitSMR
<1>5. NoAbort
  BY DEF Init, NoAbort
<1> QED BY <1>2, <1>3, <1>4, <1>5 DEF IInv

\* The effect of a handler call that keeps Core: what remains to be shown of
\* IInv is what it does to applied.
LEMMA StepKeepsIInv ==
  ASSUME IInv, NEW r \in Replica, NEW h, Step(r, h),
         GoodStep(h, smr, msgs, [smr EXCEPT ![r] = h.smr], msgs \cup h.out,
                  Owner, Entry),
         applied' \in [Replica -> Seq(Entry)], AppliedIsCommittedPrefix'
  PROVE  IInv' /\ Grown(smr, smr')
<1>1. /\ smr' = [smr EXCEPT ![r] = h.smr] /\ msgs' = msgs \cup h.out
      /\ aborted' = aborted
  BY DEF GoodStep, Step
<1>2. /\ Core(smr', msgs', Owner, Entry)
      /\ Lacking(smr', msgs', Owner) \subseteq Lacking(smr, msgs, Owner)
      /\ Grown(smr, smr')
  BY <1>1 DEF GoodStep
<1>3. TypeOK' /\ NoAbort'
  BY <1>1, <1>2, SameTypes DEF IInv, Core, Typed, TypeOK, NoAbort
<1> QED BY <1>2, <1>3 DEF IInv

\* What handle_operation does at the owner
LEMMA OwnerAccepts ==
  ASSUME IInv, NEW op \in Data
  PROVE  /\ NewEntry(OLog, op, Epoch) \in Entry
         /\ AcceptsOperation(HandleOperation(smr[Owner], Owner, op, Epoch),
                             smr[Owner], Owner, op, Epoch, Entry)
<1> DEFINE s == smr[Owner]
<1>1. NewEntry(s.log, op, Epoch) \in Entry
  BY StateFacts, EpochAssumption DEF NewEntry, Entry
<1>2. /\ s \in StateOf(Entry) /\ WellFormed(s.log)
      /\ CompleteHasQuorum(s.votes)
  BY StateFacts, CoreFacts DEF IInv, Core
<1>3. s.log = OLog
  BY DEF OLog
<1> HIDE DEF s
<1> QED BY <1>1, <1>2, <1>3, StateFacts, EntryIsEntrySet, OperationFacts DEF s

\* An operation: the owner's log grows behind its commit index.
LEMMA OperationKeepsIInv ==
  ASSUME IInv, NEW op \in Data, ClientOperation(op)
  PROVE  IInv' /\ Grown(smr, smr')
<1> DEFINE s == smr[Owner]
           e == NewEntry(s.log, op, Epoch)
           h == HandleOperation(s, Owner, op, Epoch)
<1>1. e \in Entry
  BY OwnerAccepts DEF OLog
<1>2. GoodStep(h, smr, msgs, [smr EXCEPT ![Owner] = h.smr], msgs \cup h.out,
               Owner, Entry)
  BY <1>1, StateFacts, EntryIsEntrySet, OperationKeepsCore DEF IInv
<1>3. AcceptsOperation(h, s, Owner, op, Epoch, Entry)
  BY OwnerAccepts
<1>4. Step(Owner, h)
  BY DEF ClientOperation
<1> HIDE DEF h
<1>5. /\ h.apply = <<>> /\ h.abort = FALSE
      /\ h.smr.log = Append(s.log, e) /\ h.smr.commit = s.commit
  BY <1>3 DEF AcceptsOperation
<1>6. applied' = applied
  <2>1. applied[Owner] \o <<>> = applied[Owner]
    BY StateFacts, ConcatEmptySeq
  <2> QED BY <2>1, <1>4, <1>5, StateFacts DEF Step, IInv, TypeOK
<1>7. smr'[Owner] = h.smr
  BY <1>4, <1>5, StateFacts DEF Step
<1>8. SubSeq(smr'[Owner].log, 1, s.commit) = SubSeq(s.log, 1, s.commit)
  <2> DEFINE q == s.log
             t == Append(q, e)
             c == s.commit
  <2>1. q \in Seq(Entry) /\ c \in Nat /\ c <= Len(q) /\ Len(q) \in Nat
    BY StateFacts DEF OLog
  <2>2. /\ t \in Seq(Entry) /\ Len(t) = Len(q) + 1
        /\ \A i \in 1..Len(q) : t[i] = q[i]
    BY <2>1, <1>1
  <2>3. smr'[Owner].log = t
    BY <1>5, <1>7
  <2> HIDE DEF q, t, c
  <2>4. c <= Len(t) /\ \A i \in 1..c : t[i] = q[i]
    BY <2>1, <2>2
  <2>5. SubSeq(t, 1, c) = SubSeq(q, 1, c)
    BY <2>1, <2>2, <2>4, PrefixesAgree
  <2> QED BY <2>3, <2>5 DEF q, c
<1>9. AppliedIsCommittedPrefix'
  BY <1>5, <1>6, <1>7, <1>8 DEF IInv, AppliedIsCommittedPrefix
<1> QED BY <1>2, <1>4, <1>6, <1>9, StateFacts, StepKeepsIInv DEF IInv, TypeOK

\* An append message: nothing is applied and the owner stays as it is.
LEMMA AppendKeepsIInv ==
  ASSUME IInv, NEW m \in msgs, RecvAppendEntries(m)
  PROVE  IInv' /\ Grown(smr, smr')
<1> DEFINE h == HandleAppendEntries(smr[m.to], m.to, m)
<1>1. m.to \in Follower /\ m.to \in Replica /\ m.to # Owner
  BY StateFacts, MessageFacts, SameTypes
     DEF RecvAppendEntries, IInv, AppendTrue
<1>2. /\ GoodStep(h, smr, msgs, [smr EXCEPT ![m.to] = h.smr], msgs \cup h.out,
                  Owner, Entry)
      /\ FollowsTruth(h, smr[m.to], m.to, m, OLog, Entry)
  BY StateFacts, EntryIsEntrySet, AppendKeepsCore
     DEF RecvAppendEntries, IInv, OLog
<1>3. Step(m.to, h)
  BY DEF RecvAppendEntries
<1> HIDE DEF h
<1>4. h.apply = <<>> /\ h.abort = FALSE
  BY <1>2 DEF FollowsTruth
<1>5. applied' = applied
  <2>1. applied[m.to] \o <<>> = applied[m.to]
    BY <1>1, StateFacts, ConcatEmptySeq
  <2> QED BY <2>1, <1>1, <1>3, <1>4, StateFacts DEF Step, IInv, TypeOK
<1>6. smr'[Owner] = smr[Owner]
  BY <1>1, <1>3, <1>4, StateFacts DEF Step
<1>7. AppliedIsCommittedPrefix'
  BY <1>5, <1>6 DEF IInv, AppliedIsCommittedPrefix
<1> QED BY <1>1, <1>2, <1>3, <1>5, <1>7, StepKeepsIInv DEF IInv, TypeOK

\* A reply: the owner applies exactly the entries its commit index passes.
LEMMA ReplyKeepsIInv ==
  ASSUME IInv, NEW m \in msgs, RecvAppendEntriesReply(m)
  PROVE  IInv' /\ Grown(smr, smr')
<1> DEFINE s == smr[Owner]
           c == s.commit
           h == HandleAppendEntriesReply(s, Owner, m)
           d == h.smr.commit
<1>1. /\ m.to = Owner
      /\ GoodStep(h, smr, msgs, [smr EXCEPT ![Owner] = h.smr], msgs, Owner,
                  Entry)
      /\ CountsVote(h, s, m, Entry)
  BY StateFacts, EntryIsEntrySet, ReplyKeepsCore DEF RecvAppendEntriesReply, IInv
<1>2. Step(Owner, h)
  BY <1>1 DEF RecvAppendEntriesReply
<1> HIDE DEF h
<1>3. /\ h.abort = FALSE /\ h.out = {} /\ h.smr.log = s.log
      /\ h.smr \in SMRState /\ d \in Nat
      /\ d >= c /\ d <= Len(s.log)
      /\ h.apply = SubSeq(s.log, c + 1, d)
  BY <1>1, SameTypes DEF CountsVote, SMRState
<1>4. /\ smr'[Owner] = h.smr /\ msgs \cup h.out = msgs
      /\ applied' = [applied EXCEPT ![Owner] = @ \o h.apply]
  BY <1>2, <1>3, StateFacts DEF Step
<1>5. h.apply \in Seq(Entry) /\ SubSeq(s.log, 1, c) \o h.apply
                                  = SubSeq(s.log, 1, d)
  <2> DEFINE t == s.log
  <2>1. t \in Seq(Entry) /\ c \in 0..Len(t) /\ d \in c..Len(t)
    BY <1>3, StateFacts DEF OLog
  <2>2. h.apply = SubSeq(t, c + 1, d)
    BY <1>3
  <2> HIDE DEF c, d, t
  <2>3. SubSeq(t, 1, c) \o SubSeq(t, c + 1, d) = SubSeq(t, 1, d)
    BY <2>1, ConcatAdjacentSubSeq
  <2>4. SubSeq(t, c + 1, d) \in Seq(Entry)
    BY <2>1, SubSeqProperties
  <2> QED BY <2>2, <2>3, <2>4 DEF t
<1>6. /\ applied'[Owner] = applied[Owner] \o h.apply
      /\ \A f \in Follower : applied'[f] = applied[f]
      /\ applied' \in [Replica -> Seq(Entry)]
  <2>1. applied[Owner] \o h.apply \in Seq(Entry)
    BY <1>5, StateFacts, ConcatProperties
  <2> QED BY <2>1, <1>4, StateFacts DEF IInv, TypeOK
<1>7. AppliedIsCommittedPrefix'
  BY <1>3, <1>4, <1>5, <1>6 DEF IInv, AppliedIsCommittedPrefix
<1>8. GoodStep(h, smr, msgs, [smr EXCEPT ![Owner] = h.smr], msgs \cup h.out,
               Owner, Entry)
  BY <1>1, <1>4
<1> QED BY <1>2, <1>6, <1>7, <1>8, StateFacts, StepKeepsIInv

\* Every step, or none, keeps the inductive invariant and takes nothing away.
LEMMA NextIInv == IInv /\ [Next]_vars => IInv' /\ Grown(smr, smr')
<1> SUFFICES ASSUME IInv, [Next]_vars PROVE IInv' /\ Grown(smr, smr')
  OBVIOUS
<1>1. CASE \E op \in Data : ClientOperation(op)
  BY <1>1, OperationKeepsIInv
<1>2. CASE \E m \in msgs : RecvAppendEntries(m)
  BY <1>2, AppendKeepsIInv
<1>3. CASE \E m \in msgs : RecvAppendEntriesReply(m)
  BY <1>3, ReplyKeepsIInv
<1>4. CASE UNCHANGED vars
  <2>1. IInv'
    BY <1>4 DEF vars, IInv, TypeOK, AppliedIsCommittedPrefix, NoAbort
  <2>2. Grown(smr, smr')
    BY <1>4, StateFacts DEF vars, Grown, IsPrefixOf
  <2> QED BY <2>1, <2>2
<1> QED BY <1>1, <1>2, <1>3, <1>4 DEF Next

-----------------------------------------------------------------------------
(* The theorems *)

\* The inductive invariant holds of one replication group (smr.cpp) for any
\* number of replicas and operations, whatever the network does.
THEOREM Invariance == Spec => []IInv
<1>1. Init => IInv
  BY InitIInv
<1>2. IInv /\ [Next]_vars => IInv'
  BY NextIInv
<1> QED BY <1>1, <1>2, PTL DEF Spec

\* The variables always hold values of the types the code declares.
THEOREM TypeCorrect == Spec => []TypeOK
<1>1. IInv => TypeOK
  BY DEF IInv
<1> QED BY <1>1, Invariance, PTL

\* IInv contains the properties of followers.
LEMMA FollowerFacts == IInv => FollowerLogIsPrefix /\ FollowerCommitLags
BY SameTypes DEF IInv, Core, OthersHavePrefixes, OthersCommitLags,
                 FollowerLogIsPrefix, FollowerCommitLags

\* The log of a follower is always a prefix of the owner's log.
THEOREM FollowersArePrefixes == Spec => []FollowerLogIsPrefix
<1>1. IInv => FollowerLogIsPrefix
  BY FollowerFacts
<1> QED BY <1>1, Invariance, PTL

\* In IInv, the voters for the owner's commit index are the majority that
\* holds everything up to it.
LEMMA CommitHasMajority == IInv => CommittedOnMajority
<1> SUFFICES ASSUME IInv, smr[Owner].commit > 0
             PROVE  \E Q \in SUBSET Replica :
                      /\ 2 * Cardinality(Q) > Cardinality(Replica)
                      /\ \A r \in Q : \A i \in 1..smr[Owner].commit :
                           i <= Len(smr[r].log) /\ smr[r].log[i] = OLog[i]
  BY DEF CommittedOnMajority, OLog
<1>1. PICK Q \in SUBSET Replica :
        /\ Cardinality(Q) = Quorum
        /\ \A r \in Q \ Lacking(smr, msgs, Owner) :
             \A i \in 1..smr[Owner].commit :
               i <= Len(smr[r].log) /\ smr[r].log[i] = smr[Owner].log[i]
  BY CommitHasVoters, StateFacts DEF IInv
<1>2. Lacking(smr, msgs, Owner) = {}
  BY DEF IInv
<1>3. 2 * Cardinality(Q) > Cardinality(Replica)
  BY <1>1, QuorumNat, ReplicaAssumption
<1> QED BY <1>1, <1>2, <1>3 DEF OLog

\* What the owner counts as committed is always on a majority of the replicas.
THEOREM CommitsAreDurable == Spec => []CommittedOnMajority
<1> QED BY CommitHasMajority, Invariance, PTL

\* The owner always has applied exactly its committed entries, in log order.
THEOREM AppliesInOrder == Spec => []AppliedIsCommittedPrefix
<1>1. IInv => AppliedIsCommittedPrefix
  BY DEF IInv
<1> QED BY <1>1, Invariance, PTL

\* A follower never knows its newest entry to be committed.
THEOREM FollowersLag == Spec => []FollowerCommitLags
<1>1. IInv => FollowerCommitLags
  BY FollowerFacts
<1> QED BY <1>1, Invariance, PTL

\* Without restarts, no ABORT_F of the log is ever reached.
THEOREM NeverAborts == Spec => []NoAbort
<1>1. IInv => NoAbort
  BY DEF IInv
<1> QED BY <1>1, Invariance, PTL

\* No step removes or rewrites a log entry or takes a commit index back: in a
\* cluster that never leaves epoch 1, the truncation in handle_append_entries
\* (smr.cpp, handle_stale_entries) never happens.
THEOREM NothingIsTruncated == Spec => LogsOnlyGrow
<1>1. IInv /\ [Next]_vars
        => [\A r \in Replica : /\ IsPrefixOf(smr[r].log, smr'[r].log)
                               /\ smr[r].commit <= smr'[r].commit]_vars
  BY NextIInv DEF Grown
<1> QED BY <1>1, Invariance, PTL DEF Spec, LogsOnlyGrow

-----------------------------------------------------------------------------
(***************************************************************************)
(* A group implements PrimaryBackup.  The invariant, before and after a    *)
(* step, tells which step of PrimaryBackup it is: a reply that moves the   *)
(* commit index executes what CommittedOnMajority says a majority holds.   *)
(***************************************************************************)

\* What of a replica the mapping looks at
SameForMapping(r) ==
  smr'[r].log = smr[r].log /\ smr'[r].commit = smr[r].commit

\* The operations of a log are as many as its entries, and the operations of
\* its first entries are the first of its operations.
LEMMA OperationsOfPrefix ==
  ASSUME NEW L \in Seq(Entry), NEW c \in 0..Len(L)
  PROVE  /\ Operations(L) \in Seq(Data)
         /\ Len(Operations(L)) = Len(L)
         /\ Operations(SubSeq(L, 1, c)) = SubSeq(Operations(L), 1, c)
         /\ Len(Operations(SubSeq(L, 1, c))) = c
<1>1. Operations(L) \in Seq(Data) /\ Len(Operations(L)) = Len(L)
  <2>1. Len(L) \in Nat /\ \A i \in 1..Len(L) : L[i].data \in Data
    <3>1. \A e \in Entry : e.data \in Data
      BY DEF Entry
    <3> QED BY <3>1
  <2>2. Operations(L) \in [1..Len(L) -> Data]
    BY <2>1 DEF Operations
  <2> QED BY <2>1, <2>2, SeqDef
<1>2. /\ Len(SubSeq(L, 1, c)) = c
      /\ \A i \in 1..c : SubSeq(L, 1, c)[i] = L[i]
  OBVIOUS
<1>3. Operations(SubSeq(L, 1, c)) = [i \in 1..c |-> L[i].data]
  BY <1>2 DEF Operations
<1>4. SubSeq(Operations(L), 1, c) = [i \in 1..c |-> L[i].data]
  BY DEF Operations
<1> QED BY <1>1, <1>3, <1>4

\* How many operations the owner has executed is its commit index.
ExecutedFacts ==
  /\ smr[Owner].commit \in 0..Len(OLog)
  /\ Operations(applied[Owner])
       = SubSeq(Operations(OLog), 1, smr[Owner].commit)
  /\ Len(Operations(applied[Owner])) = smr[Owner].commit

\* The two conjuncts of IInv on committing and applying say so.
LEMMA ExecutedIsCommitted == IInv => ExecutedFacts
<1> SUFFICES ASSUME IInv PROVE ExecutedFacts
  OBVIOUS
<1>1. OLog \in Seq(Entry) /\ smr[Owner].commit \in 0..Len(OLog)
  BY StateFacts DEF OLog
<1>2. applied[Owner] = SubSeq(OLog, 1, smr[Owner].commit)
  BY DEF IInv, AppliedIsCommittedPrefix, OLog
<1> QED BY <1>1, <1>2, OperationsOfPrefix DEF ExecutedFacts

\* The instance has a Cardinality of its own.
LEMMA SameCardinality ==
  ASSUME NEW S
  PROVE  Abstract!Cardinality(S) = Cardinality(S)
BY DEF Cardinality, Abstract!Cardinality

\* Empty logs map to nothing accepted.
LEMMA InitRefines == Init => Abstract!Init
<1> SUFFICES ASSUME Init PROVE Abstract!Init
  OBVIOUS
<1>1. \A r \in Replica : /\ smr[r].log = <<>> /\ smr[r].commit = 0
                         /\ applied[r] = <<>>
  BY DEF Init, InitSMR
<1>2. Operations(<<>>) = <<>>
  BY DEF Operations
<1> QED BY <1>1, <1>2, ReplicaAssumption DEF Abstract!Init

\* handle_operation is Accept.
LEMMA OperationRefines ==
  ASSUME IInv, NEW op \in Data, ClientOperation(op)
  PROVE  Abstract!Accept(op)
<1> DEFINE s == smr[Owner]
           e == NewEntry(s.log, op, Epoch)
           h == HandleOperation(s, Owner, op, Epoch)
<1>1. /\ s.log \in Seq(Entry) /\ Len(s.log) \in Nat /\ Owner \in Replica
      /\ applied[Owner] \in Seq(Entry)
  BY StateFacts
<1>2. /\ h.abort = FALSE /\ h.apply = <<>>
      /\ h.smr.log = Append(s.log, e)
      /\ h.smr.commit = s.commit
  <2>1. AcceptsOperation(h, s, Owner, op, Epoch, Entry)
    BY OwnerAccepts
  <2> HIDE DEF h
  <2> QED BY <2>1 DEF AcceptsOperation
<1>3. /\ smr' = [smr EXCEPT ![Owner] = h.smr]
      /\ applied' = [applied EXCEPT ![Owner] = @ \o h.apply]
  BY <1>2 DEF ClientOperation, Step
<1> HIDE DEF h
<1>4. /\ smr'[Owner].log = Append(s.log, e) /\ smr'[Owner].commit = s.commit
      /\ \A r \in Replica \ {Owner} : SameForMapping(r)
  BY <1>1, <1>2, <1>3, StateFacts DEF SameForMapping
<1>5. applied'[Owner] = applied[Owner]
  BY <1>1, <1>2, <1>3, StateFacts, ConcatEmptySeq
<1>6. e \in Entry /\ e.data = op
  BY <1>1, EpochAssumption DEF NewEntry, Entry
<1> HIDE DEF e
<1>7. /\ Operations(Append(s.log, e)) = Append(Operations(s.log), op)
      /\ Len(Operations(s.log)) = Len(s.log)
      /\ Len(Append(s.log, e)) = Len(s.log) + 1
  BY <1>1, <1>6 DEF Operations
<1> QED BY <1>1, <1>4, <1>5, <1>7 DEF Abstract!Accept, SameForMapping

\* handle_append_entries is Copy, of nothing when the message is refused or
\* was handled before.
LEMMA AppendRefines ==
  ASSUME IInv, NEW m \in msgs, RecvAppendEntries(m)
  PROVE  Abstract!Next
<1> DEFINE f == m.to
<1>1. f \in Replica \ {Owner} /\ f \in Follower
  BY StateFacts, MessageFacts, SameTypes
     DEF RecvAppendEntries, IInv, AppendTrue, Follower
<1>2. IInv' /\ Grown(smr, smr')
  BY AppendKeepsIInv
<1>3. /\ \A r \in Replica \ {f} : SameForMapping(r)
      /\ applied'[Owner] = applied[Owner]
  BY <1>1, StateFacts DEF RecvAppendEntries, Step, SameForMapping
<1>4. /\ smr'[Owner].log = OLog /\ smr'[Owner].commit = smr[Owner].commit
      /\ Owner \in Replica /\ f \in Replica
  BY <1>1, <1>3, StateFacts DEF SameForMapping, OLog
<1> HIDE DEF f
<1>5. /\ Len(smr'[f].log) \in Nat /\ smr'[f].commit \in Nat
      /\ Len(smr[f].log) \in Nat /\ smr[f].commit \in Nat
      /\ OLog \in Seq(Entry) /\ smr[Owner].commit \in Nat
  <2>1. smr' \in [Replica -> SMRState] /\ smr \in [Replica -> SMRState]
    BY <1>2 DEF IInv, TypeOK
  <2>2. smr'[f] \in SMRState /\ smr[f] \in SMRState /\ smr[Owner] \in SMRState
    BY <2>1, <1>4
  <2> QED BY <2>2 DEF SMRState, OLog
<1>6. PICK n \in Nat, k \in Nat : n = Len(smr'[f].log) /\ k = smr'[f].commit
  BY <1>5
<1>7. n \in Len(smr[f].log)..Len(OLog)
  <2>1. n <= Len(OLog)
    <3>1. FollowerLogIsPrefix'
      BY <1>2, FollowerFacts, PTL
    <3> QED BY <3>1, <1>1, <1>4, <1>6 DEF FollowerLogIsPrefix, IsPrefixOf
  <2>2. Len(smr[f].log) <= n
    BY <1>2, <1>4, <1>6 DEF Grown, IsPrefixOf
  <2> QED BY <2>1, <2>2, <1>5
<1>8. k \in smr[f].commit..smr[Owner].commit /\ k \in 0..n
  <2>1. k <= smr[Owner].commit /\ (k > 0 => k < n)
    <3>1. FollowerCommitLags'
      BY <1>2, FollowerFacts, PTL
    <3> QED BY <3>1, <1>1, <1>4, <1>6 DEF FollowerCommitLags
  <2>2. smr[f].commit <= k
    BY <1>2, <1>4, <1>6 DEF Grown
  <2> QED BY <2>1, <2>2, <1>5
<1>9. Len(Operations(OLog)) = Len(OLog)
      /\ Len(Operations(applied[Owner])) = smr[Owner].commit
  BY <1>5, OperationsOfPrefix, ExecutedIsCommitted DEF ExecutedFacts
<1>10. Abstract!Copy(f, n, k)
  <2>1. [r \in Replica |-> Len(smr'[r].log)]
          = [[r \in Replica |-> Len(smr[r].log)] EXCEPT ![f] = n]
    BY <1>3, <1>6 DEF SameForMapping
  <2>2. [r \in Replica |-> smr'[r].commit]
          = [[r \in Replica |-> smr[r].commit] EXCEPT ![f] = k]
    BY <1>3, <1>6 DEF SameForMapping
  <2>3. /\ n \in Len(smr[f].log)..Len(Operations(OLog))
        /\ k \in smr[f].commit..Len(Operations(applied[Owner]))
        /\ k <= n
    BY <1>7, <1>8, <1>9
  <2> QED BY <2>1, <2>2, <2>3, <1>3, <1>4 DEF Abstract!Copy, OLog
<1>11. n \in 0..Len(Operations(OLog))
  BY <1>5, <1>7, <1>9
<1> QED BY <1>1, <1>8, <1>10, <1>11 DEF Abstract!Next, OLog

\* handle_append_entries_reply is Execute when it moves the commit index, and
\* nothing of what the mapping looks at otherwise.
LEMMA ReplyRefines ==
  ASSUME IInv, NEW m \in msgs, RecvAppendEntriesReply(m)
  PROVE  Abstract!Next \/ UNCHANGED Abstract!vars
<1>1. m.to = Owner /\ Owner \in Replica
  BY StateFacts, MessageFacts DEF RecvAppendEntriesReply, IInv, ReplyTrue
<1>2. IInv' /\ Grown(smr, smr')
  BY ReplyKeepsIInv
<1>3. \A r \in Replica \ {Owner} : SameForMapping(r)
  BY <1>1, StateFacts DEF RecvAppendEntriesReply, Step, SameForMapping
<1>4. smr'[Owner].log = OLog
  BY <1>1, StateFacts
     DEF RecvAppendEntriesReply, Step, HandleAppendEntriesReply, OLog
<1>5. ExecutedFacts /\ ExecutedFacts'
  BY <1>2, ExecutedIsCommitted, PTL
<1>6. Len(Operations(OLog)) = Len(OLog) /\ Len(OLog) \in Nat
  <2>1. OLog \in Seq(Entry) /\ 0 \in 0..Len(OLog)
    BY StateFacts DEF OLog
  <2> QED BY <2>1, OperationsOfPrefix
<1>7. PICK n \in 0..Len(OLog) :
        /\ n = smr'[Owner].commit
        /\ Operations(applied'[Owner]) = SubSeq(Operations(OLog), 1, n)
  BY <1>4, <1>5 DEF ExecutedFacts, OLog
<1>8. smr[Owner].commit <= n
  BY <1>1, <1>2, <1>7 DEF Grown
<1>9. CASE n = smr[Owner].commit
  <2>1. \A r \in Replica : SameForMapping(r)
    BY <1>3, <1>4, <1>7, <1>9 DEF SameForMapping, OLog
  <2>2. /\ [r \in Replica |-> Len(smr'[r].log)]
             = [r \in Replica |-> Len(smr[r].log)]
        /\ [r \in Replica |-> smr'[r].commit]
             = [r \in Replica |-> smr[r].commit]
    BY <2>1 DEF SameForMapping
  <2>3. Operations(applied'[Owner]) = Operations(applied[Owner])
    BY <1>5, <1>7, <1>9 DEF ExecutedFacts
  <2> QED BY <2>2, <2>3, <1>4 DEF Abstract!vars, OLog
<1>10. CASE n # smr[Owner].commit
  <2>1. n \in 1..Len(OLog) /\ n \in (smr[Owner].commit + 1)..Len(OLog)
    BY <1>5, <1>6, <1>7, <1>8, <1>10 DEF ExecutedFacts
  <2>2. CommittedOnMajority'
    BY <1>2, CommitHasMajority, PTL
  <2>3. PICK Q \in SUBSET Replica :
          /\ 2 * Cardinality(Q) > Cardinality(Replica)
          /\ \A r \in Q : \A i \in 1..n : i <= Len(smr'[r].log)
    BY <1>7, <2>1, <2>2 DEF CommittedOnMajority
  <2>4. \A r \in Q : Len(smr[r].log) >= n
    <3> SUFFICES ASSUME NEW r \in Q PROVE Len(smr[r].log) >= n
      OBVIOUS
    <3>1. n <= Len(smr'[r].log) /\ Len(smr[r].log) \in Nat
      BY <2>1, <2>3, StateFacts
    <3>2. smr'[r].log = smr[r].log
      BY <1>3, <1>4 DEF SameForMapping, OLog
    <3> QED BY <3>1, <3>2, <2>1
  <2>5. Abstract!IsMajority(Q)
    BY <2>3, SameCardinality DEF Abstract!IsMajority
  <2>6. /\ [r \in Replica |-> Len(smr'[r].log)]
             = [r \in Replica |-> Len(smr[r].log)]
        /\ [r \in Replica |-> smr'[r].commit]
             = [[r \in Replica |-> smr[r].commit] EXCEPT ![Owner] = n]
    BY <1>3, <1>4, <1>7 DEF SameForMapping, OLog
  <2>7. n \in (Len(Operations(applied[Owner])) + 1)..Len(Operations(OLog))
    BY <1>5, <1>6, <2>1 DEF ExecutedFacts
  <2>8. Abstract!Execute(n)
    BY <1>4, <1>7, <2>3, <2>4, <2>5, <2>6, <2>7 DEF Abstract!Execute, OLog
  <2> QED BY <1>6, <2>1, <2>8 DEF Abstract!Next, OLog
<1> QED BY <1>9, <1>10

\* One step of PrimaryBackup, or none, for each handler.
LEMMA NextRefines == IInv /\ [Next]_vars => [Abstract!Next]_(Abstract!vars)
<1> SUFFICES ASSUME IInv, [Next]_vars
             PROVE  Abstract!Next \/ UNCHANGED Abstract!vars
  OBVIOUS
<1>1. CASE \E op \in Data : ClientOperation(op)
  BY <1>1, OperationRefines DEF Abstract!Next
<1>2. CASE \E m \in msgs : RecvAppendEntries(m)
  BY <1>2, AppendRefines
<1>3. CASE \E m \in msgs : RecvAppendEntriesReply(m)
  BY <1>3, ReplyRefines
<1>4. CASE UNCHANGED vars
  BY <1>4 DEF vars, Abstract!vars
<1> QED BY <1>1, <1>2, <1>3, <1>4 DEF Next

\* Seen from outside, a group takes operations in one sequence, executes them
\* in that order once a majority holds them, and does nothing else, whatever
\* the network loses, repeats or reorders (the handlers of core/smr.cpp).
THEOREM GroupIsPrimaryBackup == Spec => ImplementsPrimaryBackup
<1>1. []IInv /\ [][Next]_vars => [][Abstract!Next]_(Abstract!vars)
  BY NextRefines, PTL
<1> QED
  BY <1>1, InitRefines, Invariance, PTL
     DEF Spec, ImplementsPrimaryBackup, Abstract!Spec

-----------------------------------------------------------------------------
(***************************************************************************)
(* A group whose followers restart, any number of times.  IInv fails in    *)
(* one point only: a follower that lost its log no longer holds what it    *)
(* voted for.  Core does not speak of that and survives a restart;         *)
(* Lacking, the set of the voters that do not hold what they voted for,    *)
(* gains at most the one replica that restarts.  With the owner among the  *)
(* replicas that restart nothing of this holds.                            *)
(***************************************************************************)

LackingNow == Lacking(smr, msgs, Owner)

InvR ==
  /\ Core(smr, msgs, Owner, Entry)
  /\ NoAbort
  /\ restarts \in Nat
  /\ Cardinality(LackingNow) <= restarts

\* Whoever lacks what it voted for is a replica.
LEMMA LackingFinite ==
  ASSUME NEW S, NEW M, NEW o
  PROVE  /\ IsFiniteSet(Lacking(S, M, o))
         /\ Cardinality(Lacking(S, M, o)) \in Nat
<1>1. Lacking(S, M, o) \subseteq Replica
  BY DEF Lacking
<1>2. IsFiniteSet(Lacking(S, M, o))
  BY <1>1, FS_Subset, ReplicaAssumption
<1> QED BY <1>2, FS_CardinalityType

\* Initially nobody has voted.
LEMMA InitInvR == InitR => InvR
<1> SUFFICES ASSUME InitR PROVE InvR
  OBVIOUS
<1>1. Core(smr, msgs, Owner, Entry) /\ LackingNow = {}
  BY CoreInit, ReplicaAssumption DEF InitR, Init, LackingNow
<1>2. Cardinality({}) = 0
  BY FS_EmptySet
<1> QED BY <1>1, <1>2 DEF InvR, InitR, Init, NoAbort

\* A handler call adds no replica to those that lack what they voted for.
LEMMA StepKeepsInvR ==
  ASSUME InvR, NEW r \in Replica, NEW h, Step(r, h), UNCHANGED restarts,
         GoodStep(h, smr, msgs, [smr EXCEPT ![r] = h.smr], msgs \cup h.out,
                  Owner, Entry)
  PROVE  InvR'
<1>1. /\ smr' = [smr EXCEPT ![r] = h.smr] /\ msgs' = msgs \cup h.out
      /\ aborted' = aborted
  BY DEF GoodStep, Step
<1>2. /\ Core(smr', msgs', Owner, Entry)
      /\ Lacking(smr', msgs', Owner) \subseteq LackingNow
  BY <1>1 DEF GoodStep, LackingNow
<1>3. Cardinality(Lacking(smr', msgs', Owner)) <= Cardinality(LackingNow)
  BY <1>2, LackingFinite, FS_Subset DEF LackingNow
<1>4. /\ Cardinality(Lacking(smr', msgs', Owner)) \in Nat
      /\ Cardinality(LackingNow) \in Nat
  BY LackingFinite DEF LackingNow
<1>5. Cardinality(LackingNow') <= restarts'
  BY <1>3, <1>4 DEF InvR, LackingNow
<1> QED BY <1>1, <1>2, <1>5 DEF InvR, NoAbort

\* A step of the group, whoever has restarted before
LEMMA NextKeepsInvR == InvR /\ Next /\ UNCHANGED restarts => InvR'
<1> SUFFICES ASSUME InvR, Next, UNCHANGED restarts PROVE InvR'
  OBVIOUS
<1>1. Owner \in Replica /\ EntrySet(Entry) /\ Core(smr, msgs, Owner, Entry)
  BY ReplicaAssumption, EntryIsEntrySet DEF InvR
<1>2. ASSUME NEW op \in Data, ClientOperation(op) PROVE InvR'
  <2>1. NewEntry(OLog, op, Epoch) \in Entry
    BY <1>1, CoreFacts, EpochAssumption DEF NewEntry, Entry, OLog
  <2>2. GoodStep(HandleOperation(smr[Owner], Owner, op, Epoch), smr, msgs,
                 [smr EXCEPT ![Owner] =
                    HandleOperation(smr[Owner], Owner, op, Epoch).smr],
                 msgs \cup HandleOperation(smr[Owner], Owner, op, Epoch).out,
                 Owner, Entry)
    BY <1>1, <2>1, OperationKeepsCore DEF OLog
  <2> QED BY <1>1, <1>2, <2>2, StepKeepsInvR DEF ClientOperation
<1>3. ASSUME NEW m \in msgs, RecvAppendEntries(m) PROVE InvR'
  <2> DEFINE h == HandleAppendEntries(smr[m.to], m.to, m)
  <2>1. m.to \in Replica
    BY <1>1, <1>3, MessageFacts
  <2>2. GoodStep(h, smr, msgs, [smr EXCEPT ![m.to] = h.smr], msgs \cup h.out,
                 Owner, Entry)
    BY <1>1, <1>3, AppendKeepsCore DEF RecvAppendEntries
  <2>3. Step(m.to, h)
    BY <1>3 DEF RecvAppendEntries
  <2> HIDE DEF h
  <2> QED BY <2>1, <2>2, <2>3, StepKeepsInvR
<1>4. ASSUME NEW m \in msgs, RecvAppendEntriesReply(m) PROVE InvR'
  <2> DEFINE h == HandleAppendEntriesReply(smr[Owner], Owner, m)
  <2>1. /\ m.to = Owner
        /\ GoodStep(h, smr, msgs, [smr EXCEPT ![Owner] = h.smr], msgs, Owner,
                    Entry)
    BY <1>1, <1>4, ReplyKeepsCore DEF RecvAppendEntriesReply
  <2>2. Step(Owner, h)
    BY <1>4, <2>1 DEF RecvAppendEntriesReply
  <2>3. h.out = {}
    BY DEF HandleAppendEntriesReply
  <2>4. msgs \cup h.out = msgs
    BY <2>3
  <2> HIDE DEF h
  <2> QED BY <1>1, <2>1, <2>2, <2>4, StepKeepsInvR
<1> QED BY <1>2, <1>3, <1>4 DEF Next

\* A follower restarts: it lacks what it voted for, and nothing else changes.
LEMMA RestartKeepsInvR ==
  ASSUME InvR, NEW r \in Replica, r # Owner, Restart(r)
  PROVE  InvR'
<1> DEFINE T == [smr EXCEPT ![r] = InitSMR]
           K == LackingNow
<1>1. /\ smr' = T /\ msgs' = msgs /\ restarts' = restarts + 1
      /\ aborted' = aborted \ {r}
  BY DEF Restart
<1>2. /\ DOMAIN smr = Replica /\ Owner \in Replica
      /\ \A q \in Replica : smr[q].log \in Seq(Entry)
  BY CoreFacts, ReplicaAssumption DEF InvR
<1>3. /\ T[r] = InitSMR /\ T[Owner] = smr[Owner]
      /\ \A q \in Replica : q # r => T[q] = smr[q]
  BY <1>2
<1>4. /\ InitSMR \in StateOf(Entry) /\ InitSMR.log = <<>>
      /\ InitSMR.commit = 0
  BY DEF InitSMR, StateOf, VoteState, NoVotes, NoPeerStatus
<1>5. T \in [Replica -> StateOf(Entry)]
  BY <1>2, <1>4 DEF InvR, Core, Typed
<1>6. Core(T, msgs, Owner, Entry)
  <2> HIDE DEF T
  <2>1. Typed(T, msgs, Entry)
    BY <1>5 DEF InvR, Core, Typed
  <2>2. LogsWellFormed(T)
    BY <1>3, <1>4 DEF InvR, Core, LogsWellFormed, WellFormed
  <2>3. OthersHavePrefixes(T, Owner)
    <3>1. IsPrefixOf(<<>>, smr[Owner].log)
      BY <1>2 DEF IsPrefixOf
    <3> QED BY <3>1, <1>3, <1>4
            DEF InvR, Core, OthersHavePrefixes, Others
  <2>4. MessagesTrue(T, msgs, Owner)
    BY <1>3 DEF InvR, Core, MessagesTrue, AppendTrue, ReplyTrue
  <2>5. VotesInLog(T, Owner) /\ CommitIsComplete(T, Owner)
    BY <1>3 DEF InvR, Core, VotesInLog, CommitIsComplete
  <2>6. CompleteHasQuorum(T[Owner].votes)
    BY <1>3 DEF InvR, Core
  <2>7. OthersCommitLags(T, Owner)
    <3>1. 0 <= smr[Owner].commit
      BY <1>2, CoreFacts DEF InvR
    <3> QED BY <3>1, <1>3, <1>4 DEF InvR, Core, OthersCommitLags, Others
  <2> QED BY <2>1, <2>2, <2>3, <2>4, <2>5, <2>6, <2>7 DEF Core
<1>7. Lacking(T, msgs, Owner) \subseteq K \cup {r}
  <2> HIDE DEF T
  <2> QED BY <1>3 DEF Lacking, Lacks, LackingNow
<1>8. Cardinality(Lacking(T, msgs, Owner)) <= restarts + 1
  <2>1. IsFiniteSet(K) /\ Cardinality(K) \in Nat
    BY LackingFinite DEF LackingNow
  <2>2. /\ IsFiniteSet(K \cup {r})
        /\ Cardinality(K \cup {r}) \in {Cardinality(K), Cardinality(K) + 1}
    BY <2>1, FS_AddElement
  <2>3. Cardinality(Lacking(T, msgs, Owner)) <= Cardinality(K \cup {r})
    BY <1>7, <2>2, FS_Subset
  <2>4. Cardinality(Lacking(T, msgs, Owner)) \in Nat
    BY LackingFinite
  <2>5. Cardinality(K) <= restarts /\ restarts \in Nat
    BY DEF InvR
  <2> HIDE DEF T, K
  <2> QED BY <2>1, <2>2, <2>3, <2>4, <2>5
<1> HIDE DEF T
<1> QED BY <1>1, <1>6, <1>8 DEF InvR, NoAbort, LackingNow

\* Of the quorum that voted for the commit index, all but the replicas that
\* lack it hold everything up to it.
LEMMA InvRCounts == InvR => RestartsCostCopies
<1> SUFFICES ASSUME InvR PROVE RestartsCostCopies
  OBVIOUS
<1>1. FollowerLogIsPrefix
  BY SameTypes DEF InvR, Core, OthersHavePrefixes, FollowerLogIsPrefix
<1>2. ASSUME NEW i \in 1..smr[Owner].commit
      PROVE  2 * (Cardinality(Holders(i)) + restarts) > Cardinality(Replica)
  <2>1. smr[Owner].commit \in Nat /\ Owner \in Replica
    BY CoreFacts, ReplicaAssumption DEF InvR
  <2>2. smr[Owner].commit > 0
    BY <2>1
  <2>3. PICK Q \in SUBSET Replica :
          /\ Cardinality(Q) = Quorum
          /\ \A r \in Q \ LackingNow :
               i <= Len(smr[r].log) /\ smr[r].log[i] = smr[Owner].log[i]
    BY <2>1, <2>2, CommitHasVoters DEF InvR, LackingNow
  <2>4. Q \subseteq Holders(i) \cup LackingNow
    BY <2>3 DEF Holders
  <2>5. /\ IsFiniteSet(Holders(i)) /\ IsFiniteSet(LackingNow)
        /\ Cardinality(Holders(i)) \in Nat /\ Cardinality(LackingNow) \in Nat
    <3>1. Holders(i) \subseteq Replica
      BY DEF Holders
    <3>2. IsFiniteSet(Holders(i))
      BY <3>1, FS_Subset, ReplicaAssumption
    <3> QED BY <3>2, FS_CardinalityType, LackingFinite DEF LackingNow
  <2>6. /\ IsFiniteSet(Holders(i) \cup LackingNow)
        /\ Cardinality(Holders(i) \cup LackingNow)
             <= Cardinality(Holders(i)) + Cardinality(LackingNow)
    <3>1. /\ IsFiniteSet(Holders(i) \cup LackingNow)
          /\ Cardinality(Holders(i) \cup LackingNow)
               = Cardinality(Holders(i)) + Cardinality(LackingNow)
                   - Cardinality(Holders(i) \cap LackingNow)
      BY <2>5, FS_Union
    <3>2. Cardinality(Holders(i) \cap LackingNow) \in Nat
      BY <2>5, FS_Intersection, FS_CardinalityType
    <3> QED BY <3>1, <3>2, <2>5
  <2>7. Quorum <= Cardinality(Holders(i) \cup LackingNow)
    BY <2>3, <2>4, <2>6, FS_Subset
  <2>8. /\ Quorum \in Nat /\ 2 * Quorum > Cardinality(Replica)
        /\ Cardinality(Replica) \in Nat
        /\ Cardinality(Holders(i) \cup LackingNow) \in Nat
    BY <2>6, QuorumNat, ReplicaAssumption, FS_CardinalityType
  <2>9. Cardinality(LackingNow) <= restarts /\ restarts \in Nat
    BY DEF InvR
  <2> QED BY <2>5, <2>6, <2>7, <2>8, <2>9
<1> QED BY <1>1, <1>2 DEF RestartsCostCopies, InvR

\* When the owner never restarts, a restart of another server (its SMR objects
\* are built anew and empty, main of app/server2.cpp) takes away its copies and
\* nothing else, however often servers restart.
THEOREM RestartsAreCounted ==
  ASSUME Owner \notin Restartable
  PROVE  SpecR => []RestartsCostCopies
<1>1. InvR /\ [NextR]_restartVars => InvR'
  <2> SUFFICES ASSUME InvR, [NextR]_restartVars PROVE InvR'
    OBVIOUS
  <2>1. CASE Next /\ UNCHANGED restarts
    BY <2>1, NextKeepsInvR
  <2>2. CASE \E r \in Restartable : Restart(r)
    BY <2>2, RestartKeepsInvR, RestartAssumption
  <2>3. CASE UNCHANGED restartVars
    BY <2>3 DEF restartVars, vars, InvR, NoAbort, LackingNow
  <2> QED BY <2>1, <2>2, <2>3 DEF NextR
<1> QED BY <1>1, InitInvR, InvRCounts, PTL DEF SpecR

-----------------------------------------------------------------------------
(* A group over datagrams that arrive at most once (SMRLoss): followers that *)
(* are cut off                                                               *)

\* What is under way was sent.
NetWasSent == net \subseteq msgs

\* The group is as it is in SMR, with every message ever sent.
GroupInv ==
  /\ Core(smr, msgs, Owner, Entry)
  /\ Lacking(smr, msgs, Owner) = {}

\* The message that carries the entry behind prefix n to follower f
Carries(m, f, n) == m.type = "append" /\ m.to = f /\ m.prev_index = n

\* f refused message m: its log was too short.
Refused(m) ==
  \E n \in msgs : /\ n.type = "append_reply" /\ n.from = m.to
                  /\ ~n.success /\ n.index < m.prev_index

\* Every entry was sent to every follower.
EntriesSent ==
  \A f \in Follower, n \in Nat :
    n < Len(smr[Owner].log) => \E m \in msgs : Carries(m, f, n)

\* Of an append message that is gone it is known what became of it.
Gone(m) == m \in lost \/ m.prev_index < Len(smr[m.to].log) \/ Refused(m)
GoneAccounted == \A m \in msgs \ net : m.type = "append" => Gone(m)

SentAndGone == NetWasSent /\ EntriesSent /\ GoneAccounted

LossInv == GroupInv /\ SentAndGone

\* What GroupInv says of the parts a handler call starts from
LEMMA GroupFacts ==
  ASSUME GroupInv
  PROVE  /\ Owner \in Replica /\ Owner \notin Follower /\ DOMAIN smr = Replica
         /\ Follower = Others(Owner)
         /\ \A f \in Follower : f \in Replica /\ f # Owner
         /\ \A r \in Replica : /\ smr[r] \in StateOf(Entry)
                               /\ smr[r].log \in Seq(Entry)
                               /\ Len(smr[r].log) \in Nat
                               /\ WellFormed(smr[r].log)
                               /\ r = Owner \/ r \in Follower
         /\ \A m \in msgs : m.type = "append" =>
              /\ m.to \in Follower /\ m.prev_index \in Nat
              /\ m.prev_index < Len(smr[Owner].log)
         /\ CompleteHasQuorum(smr[Owner].votes)
<1>1. Owner \in Replica
  BY ReplicaAssumption
<1>2. Core(smr, msgs, Owner, Entry)
  BY DEF GroupInv
<1>3. Follower = Others(Owner)
  BY DEF Follower, Others
<1>4. ASSUME NEW m \in msgs, m.type = "append"
      PROVE  /\ m.to \in Follower /\ m.prev_index \in Nat
             /\ m.prev_index < Len(smr[Owner].log)
  BY <1>1, <1>2, <1>3, <1>4, MessageFacts DEF AppendTrue, Truthful
<1>5. CompleteHasQuorum(smr[Owner].votes)
  BY <1>2 DEF Core
<1> QED BY <1>1, <1>2, <1>3, <1>4, <1>5, CoreFacts

\* A handler call that keeps Core keeps GroupInv.
LEMMA StepKeepsGroupInv ==
  ASSUME GroupInv, NEW r \in Replica, NEW h, NEW read, StepL(r, h, read),
         GoodStep(h, smr, msgs, [smr EXCEPT ![r] = h.smr], msgs \cup h.out,
                  Owner, Entry)
  PROVE  /\ GroupInv' /\ Grown(smr, smr')
         /\ smr' = [smr EXCEPT ![r] = h.smr]
         /\ msgs' = msgs \cup h.out /\ net' = (net \ read) \cup h.out
<1>1. /\ smr' = [smr EXCEPT ![r] = h.smr] /\ msgs' = msgs \cup h.out
      /\ net' = (net \ read) \cup h.out
  BY DEF GoodStep, StepL, Sendto
<1>2. /\ Core(smr', msgs', Owner, Entry)
      /\ Lacking(smr', msgs', Owner) \subseteq Lacking(smr, msgs, Owner)
      /\ Grown(smr, smr')
  BY <1>1 DEF GoodStep
<1> QED BY <1>1, <1>2 DEF GroupInv

\* An operation: the owner's log grows by one entry, which is sent to all.
LEMMA OperationSteps ==
  ASSUME GroupInv, NEW op \in Data, ClientOperationL(op)
  PROVE  /\ GroupInv' /\ lost' = lost
         /\ \A f \in Follower : smr'[f].log = smr[f].log
         /\ Len(smr'[Owner].log) = Len(smr[Owner].log) + 1
         /\ \E out : /\ msgs' = msgs \cup out /\ net' = net \cup out
                     /\ \A f \in Follower : \E m \in out :
                          Carries(m, f, Len(smr[Owner].log))
                     /\ \A m \in out : m.prev_index = Len(smr[Owner].log)
<1> DEFINE s == smr[Owner]
           n == Len(s.log)
           e == NewEntry(s.log, op, Epoch)
           h == HandleOperation(s, Owner, op, Epoch)
<1>1. /\ s \in StateOf(Entry) /\ s.log \in Seq(Entry) /\ n \in Nat
      /\ WellFormed(s.log) /\ CompleteHasQuorum(s.votes) /\ Owner \in Replica
      /\ Core(smr, msgs, Owner, Entry)
  BY GroupFacts DEF GroupInv
<1>2. e \in Entry
  BY <1>1, EpochAssumption DEF NewEntry, Entry
<1>3. AcceptsOperation(h, s, Owner, op, Epoch, Entry)
  <2> HIDE DEF s
  <2> QED BY <1>1, <1>2, EntryIsEntrySet, OperationFacts
<1>4. GoodStep(h, smr, msgs, [smr EXCEPT ![Owner] = h.smr], msgs \cup h.out,
               Owner, Entry)
  BY <1>1, <1>2, EntryIsEntrySet, OperationKeepsCore
<1>5. StepL(Owner, h, {}) /\ lost' = lost
  BY DEF ClientOperationL
<1> HIDE DEF h
<1>6. /\ GroupInv' /\ smr' = [smr EXCEPT ![Owner] = h.smr]
      /\ msgs' = msgs \cup h.out /\ net' = (net \ {}) \cup h.out
  BY <1>1, <1>4, <1>5, StepKeepsGroupInv
<1>7. smr'[Owner] = h.smr /\ \A f \in Follower : smr'[f] = smr[f]
  BY <1>6, GroupFacts
<1>8. h.smr.log = Append(s.log, e)
  BY <1>3 DEF AcceptsOperation
<1>9. Len(Append(s.log, e)) = n + 1
  <2> DEFINE q == s.log
  <2>1. q \in Seq(Entry) /\ e \in Entry
    BY <1>1, <1>2
  <2> HIDE DEF q, e
  <2>2. Len(Append(q, e)) = Len(q) + 1
    BY <2>1
  <2> QED BY <2>2 DEF q
<1>10. /\ \A f \in Follower : \E m \in h.out : Carries(m, f, n)
       /\ \A m \in h.out : m.prev_index = n
  <2>1. h.out = {NewMessage(s, Owner, op, Epoch, p) : p \in Follower}
    BY <1>3, GroupFacts DEF AcceptsOperation
  <2>2. \A p : Carries(NewMessage(s, Owner, op, Epoch, p), p, n)
    BY DEF NewMessage, Carries
  <2> HIDE DEF n, s
  <2>3. ASSUME NEW f \in Follower PROVE \E m \in h.out : Carries(m, f, n)
    BY <2>1, <2>2
  <2>4. ASSUME NEW m \in h.out PROVE m.prev_index = n
    BY <2>1, <2>2 DEF Carries
  <2> QED BY <2>3, <2>4
<1>11. msgs' = msgs \cup h.out /\ net' = net \cup h.out
  BY <1>6
<1> QED BY <1>5, <1>6, <1>7, <1>8, <1>9, <1>10, <1>11

\* An append message: a follower takes the entry if it is the next one, and
\* says so, or that its log is too short.
LEMMA AppendSteps ==
  ASSUME GroupInv, NetWasSent, NEW m \in net, RecvAppendEntriesL(m)
  PROVE  /\ GroupInv' /\ lost' = lost
         /\ m.type = "append" /\ m.to \in Follower /\ m.prev_index \in Nat
         /\ \A r \in Replica :
              r # m.to \/ m.prev_index # Len(smr[m.to].log)
                => smr'[r].log = smr[r].log
         /\ m.prev_index = Len(smr[m.to].log)
              => Len(smr'[m.to].log) = Len(smr[m.to].log) + 1
         /\ \E n : /\ n.type = "append_reply" /\ n.from = m.to
                   /\ n.success <=> m.prev_index <= Len(smr[m.to].log)
                   /\ n.index = Len(smr'[m.to].log)
                   /\ msgs' = msgs \cup {n} /\ net' = (net \ {m}) \cup {n}
<1> DEFINE f == m.to
           s == smr[f]
           h == HandleAppendEntries(s, f, m)
<1>1. /\ m \in msgs /\ m.type = "append" /\ f \in Follower /\ f \in Replica
      /\ m.prev_index \in Nat /\ Core(smr, msgs, Owner, Entry)
      /\ Owner \in Replica /\ s.log \in Seq(Entry) /\ Len(s.log) \in Nat
  BY GroupFacts DEF RecvAppendEntriesL, NetWasSent, GroupInv
<1>2. /\ GoodStep(h, smr, msgs, [smr EXCEPT ![f] = h.smr], msgs \cup h.out,
                  Owner, Entry)
      /\ FollowsTruth(h, s, f, m, smr[Owner].log, Entry)
      /\ ExtendsLog(h, s, m)
  BY <1>1, EntryIsEntrySet, AppendKeepsCore
<1>3. StepL(f, h, {m}) /\ lost' = lost
  BY DEF RecvAppendEntriesL
<1>4. /\ m \in AppendOf(Entry) /\ Truthful(m, smr[Owner].log, Owner)
      /\ smr[Owner].log \in Seq(Entry)
  BY <1>1, MessageFacts, GroupFacts DEF AppendTrue
<1>5. \E e \in Entry : m.entries = <<e>>
  BY <1>1, <1>4 DEF Truthful
<1> HIDE DEF h
<1>6. /\ GroupInv' /\ smr' = [smr EXCEPT ![f] = h.smr]
      /\ msgs' = msgs \cup h.out /\ net' = (net \ {m}) \cup h.out
  BY <1>1, <1>2, <1>3, StepKeepsGroupInv
<1>7. smr'[f] = h.smr /\ \A r \in Replica : r # f => smr'[r] = smr[r]
  BY <1>1, <1>6, GroupFacts
<1>8. h.smr.log = IF m.prev_index = Len(s.log) THEN s.log \o m.entries ELSE s.log
  BY <1>2 DEF ExtendsLog
<1>9. m.prev_index = Len(s.log) => Len(h.smr.log) = Len(s.log) + 1
  BY <1>1, <1>5, <1>8, ConcatOne
<1> DEFINE n == [type |-> "append_reply", from |-> f, to |-> m.from,
                 success |-> Safe(s.log, m), index |-> Len(h.smr.log)]
<1>10. h.out = {n}
  BY <1>2 DEF FollowsTruth
<1>11. /\ n.type = "append_reply" /\ n.from = f /\ n.index = Len(h.smr.log)
       /\ n.success <=> m.prev_index <= Len(s.log)
  BY <1>2 DEF ExtendsLog
<1> HIDE DEF n
<1> QED BY <1>1, <1>3, <1>6, <1>7, <1>8, <1>9, <1>10, <1>11

\* A reply changes no log.
LEMMA ReplySteps ==
  ASSUME GroupInv, NetWasSent, NEW m \in net, RecvAppendEntriesReplyL(m)
  PROVE  /\ GroupInv' /\ lost' = lost /\ m.type = "append_reply"
         /\ \A r \in Replica : smr'[r].log = smr[r].log
         /\ msgs' = msgs /\ net' = net \ {m}
<1> DEFINE s == smr[Owner]
           h == HandleAppendEntriesReply(s, Owner, m)
<1>1. /\ m \in msgs /\ m.type = "append_reply" /\ Owner \in Replica
      /\ Core(smr, msgs, Owner, Entry)
  BY GroupFacts DEF RecvAppendEntriesReplyL, NetWasSent, GroupInv
<1>2. /\ m.to = Owner
      /\ GoodStep(h, smr, msgs, [smr EXCEPT ![Owner] = h.smr], msgs, Owner,
                  Entry)
      /\ CountsVote(h, s, m, Entry)
  BY <1>1, EntryIsEntrySet, ReplyKeepsCore
<1>3. StepL(Owner, h, {m}) /\ lost' = lost
  BY <1>2 DEF RecvAppendEntriesReplyL
<1> HIDE DEF h
<1>4. h.out = {} /\ h.smr.log = s.log
  BY <1>2 DEF CountsVote
<1>5. msgs \cup h.out = msgs
  BY <1>4
<1>6. /\ GroupInv' /\ smr' = [smr EXCEPT ![Owner] = h.smr]
      /\ msgs' = msgs \cup h.out /\ net' = (net \ {m}) \cup h.out
  BY <1>1, <1>2, <1>3, <1>5, StepKeepsGroupInv
<1>7. smr'[Owner] = h.smr /\ \A r \in Replica : r # Owner => smr'[r] = smr[r]
  BY <1>1, <1>6, GroupFacts
<1> QED BY <1>1, <1>3, <1>4, <1>6, <1>7

\* Nothing is sent at first.
LEMMA LossInvInit == InitL => LossInv
<1> SUFFICES ASSUME InitL PROVE LossInv
  OBVIOUS
<1>1. GroupInv
  BY CoreInit, ReplicaAssumption DEF InitL, Init, GroupInv
<1>2. Len(smr[Owner].log) = 0
  BY ReplicaAssumption DEF InitL, Init, InitSMR
<1>3. SentAndGone
  BY <1>2 DEF InitL, Init, SentAndGone, NetWasSent, EntriesSent, GoneAccounted
<1> QED BY <1>1, <1>3 DEF LossInv

\* An operation sends the new entry to everybody.
LEMMA OperationKeepsLossInv ==
  ASSUME LossInv, NEW op \in Data, ClientOperationL(op)
  PROVE  LossInv'
<1>1. GroupInv /\ NetWasSent /\ EntriesSent /\ GoneAccounted
  BY DEF LossInv, SentAndGone
<1>2. PICK out : /\ msgs' = msgs \cup out /\ net' = net \cup out
                 /\ \A f \in Follower : \E m \in out :
                      Carries(m, f, Len(smr[Owner].log))
  BY <1>1, OperationSteps
<1>3. /\ GroupInv' /\ lost' = lost
      /\ \A f \in Follower : smr'[f].log = smr[f].log
      /\ Len(smr'[Owner].log) = Len(smr[Owner].log) + 1
      /\ Len(smr[Owner].log) \in Nat
  BY <1>1, OperationSteps, GroupFacts
<1>4. NetWasSent'
  BY <1>1, <1>2 DEF NetWasSent
<1>5. EntriesSent'
  <2> SUFFICES ASSUME NEW f \in Follower, NEW n \in Nat,
                      n < Len(smr'[Owner].log)
               PROVE  \E m \in msgs' : Carries(m, f, n)
    BY DEF EntriesSent
  <2>1. n < Len(smr[Owner].log) \/ n = Len(smr[Owner].log)
    BY <1>3
  <2> QED BY <2>1, <1>1, <1>2 DEF EntriesSent
<1>6. GoneAccounted'
  <2> SUFFICES ASSUME NEW m \in msgs' \ net', m.type = "append"
               PROVE  Gone(m)'
    BY DEF GoneAccounted
  <2>1. m \in msgs \ net
    BY <1>2
  <2>2. Gone(m) /\ m.to \in Follower
    BY <2>1, <1>1, GroupFacts DEF GoneAccounted
  <2>3. Refused(m) => Refused(m)'
    BY <1>2 DEF Refused
  <2> QED BY <2>2, <2>3, <1>3 DEF Gone
<1> QED BY <1>3, <1>4, <1>5, <1>6 DEF LossInv, SentAndGone

\* An append message that is handled has brought its entry, now or earlier, or
\* is refused.
LEMMA AppendKeepsLossInv ==
  ASSUME LossInv, NEW m \in net, RecvAppendEntriesL(m)
  PROVE  LossInv'
<1>1. GroupInv /\ NetWasSent /\ EntriesSent /\ GoneAccounted
  BY DEF LossInv, SentAndGone
<1>2. /\ GroupInv' /\ lost' = lost
      /\ m.type = "append" /\ m.to \in Follower /\ m.prev_index \in Nat
      /\ \A r \in Replica :
           r # m.to \/ m.prev_index # Len(smr[m.to].log)
             => smr'[r].log = smr[r].log
      /\ m.prev_index = Len(smr[m.to].log)
           => Len(smr'[m.to].log) = Len(smr[m.to].log) + 1
  BY <1>1, AppendSteps
<1>3. PICK n : /\ n.type = "append_reply" /\ n.from = m.to
               /\ n.success <=> m.prev_index <= Len(smr[m.to].log)
               /\ n.index = Len(smr'[m.to].log)
               /\ msgs' = msgs \cup {n} /\ net' = (net \ {m}) \cup {n}
  BY <1>1, AppendSteps
<1>4. /\ Owner \in Replica /\ m.to \in Replica /\ m.to # Owner
      /\ \A r \in Replica : Len(smr[r].log) \in Nat
      /\ \A r \in Replica : Len(smr'[r].log) >= Len(smr[r].log)
  BY <1>1, <1>2, GroupFacts
<1>5. NetWasSent'
  BY <1>1, <1>3 DEF NetWasSent
<1>6. EntriesSent'
  BY <1>1, <1>2, <1>3, <1>4 DEF EntriesSent
<1>7. GoneAccounted'
  <2> SUFFICES ASSUME NEW k \in msgs' \ net', k.type = "append"
               PROVE  Gone(k)'
    BY DEF GoneAccounted
  <2>1. k = m \/ k \in msgs \ net
    BY <1>3
  <2>2. CASE k \in msgs \ net
    <3>1. /\ Gone(k) /\ k.to \in Replica /\ k.prev_index \in Nat
      BY <2>2, <1>1, GroupFacts DEF GoneAccounted
    <3>2. Refused(k) => Refused(k)'
      BY <1>3 DEF Refused
    <3>3. /\ Len(smr'[k.to].log) >= Len(smr[k.to].log)
          /\ Len(smr[k.to].log) \in Nat
      BY <3>1, <1>4
    <3>4. Len(smr'[k.to].log) \in Nat
      BY <3>1, <1>2, <1>4
    <3> QED BY <3>1, <3>2, <3>3, <3>4, <1>2 DEF Gone
  <2>3. CASE k = m
    <3>1. CASE m.prev_index <= Len(smr[m.to].log)
      <4>1. m.prev_index < Len(smr'[m.to].log)
        BY <3>1, <1>2, <1>4
      <4> QED BY <4>1, <2>3 DEF Gone
    <3>2. CASE ~(m.prev_index <= Len(smr[m.to].log))
      <4>1. /\ ~n.success /\ smr'[m.to].log = smr[m.to].log
            /\ n.index < m.prev_index
        BY <3>2, <1>2, <1>3, <1>4
      <4>2. n \in msgs'
        BY <1>3
      <4>3. Refused(m)'
        BY <4>1, <4>2, <1>3 DEF Refused
      <4> QED BY <4>3, <2>3 DEF Gone
    <3> QED BY <3>1, <3>2
  <2> QED BY <2>1, <2>2, <2>3
<1> QED BY <1>2, <1>5, <1>6, <1>7 DEF LossInv, SentAndGone

\* Replies are no append messages.
LEMMA ReplyKeepsLossInv ==
  ASSUME LossInv, NEW m \in net, RecvAppendEntriesReplyL(m)
  PROVE  LossInv'
<1>1. GroupInv /\ NetWasSent /\ EntriesSent /\ GoneAccounted
  BY DEF LossInv, SentAndGone
<1>2. /\ GroupInv' /\ lost' = lost /\ m.type = "append_reply"
      /\ \A r \in Replica : smr'[r].log = smr[r].log
      /\ msgs' = msgs /\ net' = net \ {m} /\ Owner \in Replica
  BY <1>1, ReplySteps, GroupFacts
<1>3. NetWasSent' /\ EntriesSent'
  BY <1>1, <1>2 DEF NetWasSent, EntriesSent
<1>4. GoneAccounted'
  <2> SUFFICES ASSUME NEW k \in msgs' \ net', k.type = "append"
               PROVE  Gone(k)'
    BY DEF GoneAccounted
  <2>1. k \in msgs \ net
    BY <1>2
  <2>2. Gone(k) /\ k.to \in Replica
    BY <2>1, <1>1, GroupFacts DEF GoneAccounted
  <2> QED BY <2>2, <1>2 DEF Gone, Refused
<1> QED BY <1>2, <1>3, <1>4 DEF LossInv, SentAndGone

\* A lost message is accounted for as lost.
LEMMA LoseKeepsLossInv ==
  ASSUME LossInv, NEW m \in net, Lose(m)
  PROVE  LossInv'
<1>1. GroupInv /\ NetWasSent /\ EntriesSent /\ GoneAccounted
  BY DEF LossInv, SentAndGone
<1>2. /\ smr' = smr /\ msgs' = msgs /\ net' = net \ {m}
      /\ lost' = lost \cup {m}
  BY DEF Lose, vars
<1>3. GroupInv' /\ NetWasSent' /\ EntriesSent'
  BY <1>1, <1>2 DEF GroupInv, NetWasSent, EntriesSent
<1>4. GoneAccounted'
  BY <1>1, <1>2 DEF GoneAccounted, Gone, Refused
<1> QED BY <1>3, <1>4 DEF LossInv, SentAndGone

\* Every step keeps the invariant.
LEMMA LossInvStep == LossInv /\ [NextL]_lossVars => LossInv'
<1> SUFFICES ASSUME LossInv, [NextL]_lossVars PROVE LossInv'
  OBVIOUS
<1>1. CASE UNCHANGED lossVars
  BY <1>1 DEF lossVars, vars, LossInv, GroupInv, SentAndGone, NetWasSent, EntriesSent,
              GoneAccounted, Gone, Refused
<1> QED BY <1>1, OperationKeepsLossInv, AppendKeepsLossInv, ReplyKeepsLossInv,
           LoseKeepsLossInv DEF NextL

\* The first entry that a cut-off follower lacks was sent to it and is not
\* under way: it is known what became of it.
LEMMA CutOffCause ==
  ASSUME LossInv, NEW f \in Follower, CutOff(f)
  PROVE  \E m \in msgs \ net :
           /\ m.type = "append" /\ m.to = f
           /\ m.prev_index = Len(smr[f].log)
           /\ \/ m \in lost
              \/ \E n \in msgs : /\ n.type = "append_reply" /\ n.from = f
                                 /\ ~n.success /\ n.index < m.prev_index
<1>1. GroupInv /\ EntriesSent /\ GoneAccounted
  BY DEF LossInv, SentAndGone
<1>2. Len(smr[f].log) \in Nat /\ Len(smr[f].log) < Len(smr[Owner].log)
  BY <1>1, GroupFacts DEF CutOff
<1>3. PICK m \in msgs : Carries(m, f, Len(smr[f].log))
  BY <1>1, <1>2 DEF EntriesSent
<1>4. m \notin net
  BY <1>3 DEF CutOff, Extending, Carries
<1>5. Gone(m)
  BY <1>1, <1>3, <1>4 DEF GoneAccounted, Carries
<1>6. m \in lost \/ Refused(m)
  BY <1>2, <1>3, <1>5 DEF Gone, Carries
<1> QED BY <1>3, <1>4, <1>6 DEF Refused, Carries

\* Whoever voted for the commit index is not cut off before it.
LEMMA CutOffsAreNoVoters ==
  ASSUME LossInv, NEW i \in 1..MaxOps,
         Cardinality(CutOffBefore(i)) > Cardinality(Replica) - Quorum
  PROVE  smr[Owner].commit < i
<1> DEFINE c == smr[Owner].commit
           B == CutOffBefore(i)
<1>1. /\ Owner \in Replica /\ Core(smr, msgs, Owner, Entry) /\ c \in Nat
      /\ Lacking(smr, msgs, Owner) = {} /\ i \in Nat /\ i > 0
      /\ \A r \in Replica : Len(smr[r].log) \in Nat
  BY GroupFacts, CoreFacts, MaxOpsAssumption DEF LossInv, GroupInv
<1> SUFFICES ASSUME ~(c < i) PROVE FALSE
  OBVIOUS
<1>2. c > 0 /\ i \in 1..c
  BY <1>1
<1>3. PICK Q \in SUBSET Replica :
        /\ Cardinality(Q) = Quorum
        /\ \A r \in Q : i <= Len(smr[r].log)
  BY <1>1, <1>2, CommitHasVoters
<1>4. B \subseteq Replica /\ B \cap Q = {}
  <2>1. \A r \in B : r \in Replica /\ Len(smr[r].log) < i
    BY DEF CutOffBefore, Follower
  <2> QED BY <2>1, <1>1, <1>3
<1>5. /\ IsFiniteSet(B) /\ IsFiniteSet(Q) /\ IsFiniteSet(Replica)
      /\ Cardinality(B) \in Nat /\ Cardinality(Q) \in Nat
      /\ Cardinality(Replica) \in Nat
  BY <1>4, FS_Subset, FS_CardinalityType, ReplicaAssumption
<1>6. /\ IsFiniteSet(B \cup Q)
      /\ Cardinality(B \cup Q)
           = Cardinality(B) + Cardinality(Q) - Cardinality(B \cap Q)
  BY <1>5, FS_Union
<1>7. Cardinality(B \cap Q) = 0
  BY <1>4, FS_EmptySet
<1>8. Cardinality(B \cup Q) <= Cardinality(Replica)
  <2>1. B \cup Q \subseteq Replica
    BY <1>4
  <2> QED BY <2>1, <1>5, FS_Subset
<1> HIDE DEF B
<1> QED BY <1>3, <1>5, <1>6, <1>7, <1>8 DEF B

\* A follower is cut off only where the message with the first entry it lacks
\* was lost, or came too early and was refused (smr.cpp ignores the refusal);
\* and with too many cut off, nothing is committed any more.
THEOREM CutOffsHaveCauses == SpecL => []CutOffHasCause
<1>1. LossInv => CutOffHasCause
  BY CutOffCause, CutOffsAreNoVoters DEF CutOffHasCause
<1> QED BY <1>1, LossInvInit, LossInvStep, PTL DEF SpecL

\* After a step f has the log it had, shorter than the owner's, and no message
\* for its end is under way.
StillCutOff(f) ==
  /\ smr'[f].log = smr[f].log
  /\ Len(smr[f].log) < Len(smr'[Owner].log)
  /\ \A m \in net' : ~Carries(m, f, Len(smr[f].log))

\* What a step does to a follower that is cut off: the owner sends entries
\* behind its own log, and nobody else sends any.
LEMMA CutOffStays ==
  ASSUME LossInv, [NextL]_lossVars, NEW f \in Follower, CutOff(f)
  PROVE  smr'[f].log = smr[f].log /\ CutOff(f)'
<1>1. GroupInv /\ NetWasSent
  BY DEF LossInv, SentAndGone
<1>2. /\ f \in Replica /\ f # Owner /\ Owner \in Replica
      /\ Len(smr[f].log) \in Nat /\ Len(smr[Owner].log) \in Nat
      /\ Len(smr[f].log) < Len(smr[Owner].log)
      /\ \A m \in net : ~Carries(m, f, Len(smr[f].log))
  BY <1>1, GroupFacts DEF CutOff, Extending, Carries
<1>3. SUFFICES StillCutOff(f)
  BY <1>2 DEF StillCutOff, CutOff, Extending, Carries
<1>4. CASE \E op \in Data : ClientOperationL(op)
  <2>1. PICK op \in Data : ClientOperationL(op)
    BY <1>4
  <2>2. PICK out : /\ net' = net \cup out
                   /\ \A m \in out : m.prev_index = Len(smr[Owner].log)
    BY <2>1, <1>1, OperationSteps
  <2>3. /\ smr'[f].log = smr[f].log
        /\ Len(smr'[Owner].log) = Len(smr[Owner].log) + 1
    BY <2>1, <1>1, OperationSteps
  <2> QED BY <2>2, <2>3, <1>2 DEF StillCutOff, Carries
<1>5. CASE \E m \in net : RecvAppendEntriesL(m)
  <2>1. PICK m \in net : RecvAppendEntriesL(m)
    BY <1>5
  <2>2. PICK n : n.type = "append_reply" /\ net' = (net \ {m}) \cup {n}
    BY <2>1, <1>1, AppendSteps
  <2>3. /\ m.type = "append" /\ m.to \in Follower
        /\ \A r \in Replica :
             r # m.to \/ m.prev_index # Len(smr[m.to].log)
               => smr'[r].log = smr[r].log
    BY <2>1, <1>1, AppendSteps
  <2>4. m.to # f \/ m.prev_index # Len(smr[m.to].log)
    BY <2>3, <1>2 DEF Carries
  <2>5. Owner # m.to
    BY <2>3, <1>1, GroupFacts
  <2>6. smr'[f].log = smr[f].log /\ smr'[Owner].log = smr[Owner].log
    BY <2>3, <2>4, <2>5, <1>2
  <2> QED BY <2>2, <2>6, <1>2 DEF StillCutOff, Carries
<1>6. CASE \E m \in net : RecvAppendEntriesReplyL(m)
  <2>1. PICK m \in net : RecvAppendEntriesReplyL(m)
    BY <1>6
  <2>2. /\ net' = net \ {m}
        /\ \A r \in Replica : smr'[r].log = smr[r].log
    BY <2>1, <1>1, ReplySteps
  <2> QED BY <2>2, <1>2 DEF StillCutOff
<1>7. CASE \E m \in net : Lose(m)
  BY <1>7, <1>2 DEF Lose, vars, StillCutOff
<1>8. CASE UNCHANGED lossVars
  BY <1>8, <1>2 DEF lossVars, vars, StillCutOff
<1> QED BY <1>4, <1>5, <1>6, <1>7, <1>8 DEF NextL

\* A follower that is cut off never gets another entry: a refusal is ignored
\* and only new entries are sent (smr.cpp, handle_append_entries_reply).
THEOREM NobodyComesBack == SpecL => CutOffForEver
<1>1. LossInv /\ [NextL]_lossVars
        => [\A f \in Follower :
              CutOff(f) => smr'[f].log = smr[f].log /\ CutOff(f)']_lossVars
  BY CutOffStays
<1>2. LossInv /\ [NextL]_lossVars => LossInv'
  BY LossInvStep
<1> QED BY <1>1, <1>2, LossInvInit, PTL DEF SpecL, CutOffForEver
=============================================================================
