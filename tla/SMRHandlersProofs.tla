-------------------------- MODULE SMRHandlersProofs --------------------------
(***************************************************************************)
(* Lemmas about the SMR handlers that hold wherever the handlers run: in   *)
(* one group over any network (SMR), with restarts (SMRRestart), over a    *)
(* network that loses messages for good (SMRLoss) and in the whole service *)
(* (Morphling).  They speak of the values a group consists of:             *)
(*   S  the SMR objects, a function on Replica,                            *)
(*   M  the messages that may still be handled,                            *)
(*   o  the one replica that takes the group's operations,                 *)
(*   E  the set the log entries are from.                                  *)
(*                                                                         *)
(* Core is what a handler call preserves: logs of the others are prefixes  *)
(* of o's log, messages carry entries of it, and what o committed had a    *)
(* quorum of votes.  It does not say that a voter still holds what it      *)
(* voted for: a replica that lost its log does not.  Lacking is the set of *)
(* those voters, and no handler call adds one.                             *)
(***************************************************************************)
EXTENDS SMRHandlers, SequenceTheorems, FiniteSetTheorems, NaturalsInduction,
        WellFoundedInduction, TLAPS

VoteState == [records : SUBSET (Nat \X Replica), complete : SUBSET Nat]

\* E is a set of log entries.
EntrySet(E) ==
  \A e \in E : /\ e.epoch \in Nat /\ e.index \in Nat \ {0}
               /\ e = [epoch |-> e.epoch, index |-> e.index, data |-> e.data]

StateOf(E) ==
  [log : Seq(E), commit : Nat, votes : VoteState,
   prs : [Replica -> [match : Nat, next : Nat]]]

AppendOf(E) ==
  [type : {"append"}, from : Replica, to : Replica,
   prev_term : Nat, prev_index : Nat, commit : Nat, entries : Seq(E)]

Replies ==
  [type : {"append_reply"}, from : Replica, to : Replica,
   success : BOOLEAN, index : Nat]

\* The variables of the group hold values of their types.
Typed(S, M, E) ==
  /\ S \in [Replica -> StateOf(E)]
  /\ M \subseteq AppendOf(E) \cup Replies

WellFormed(log) == \A i \in 1..Len(log) : log[i].index = i

Others(o) == Replica \ {o}

\* An append message that speaks the truth about o's log L
Truthful(m, L, o) ==
  /\ m.from = o
  /\ m.prev_index < Len(L)
  /\ m.prev_term = EntryAt(L, m.prev_index).epoch
  /\ m.entries = <<L[m.prev_index + 1]>>
  /\ m.commit <= m.prev_index

AppendTrue(m, S, o) ==
  /\ m.to \in Others(o)
  /\ Truthful(m, S[o].log, o)
  /\ m.commit <= S[o].commit

\* A reply names an index that o has.
ReplyTrue(m, S, o) ==
  m.from \in Others(o) /\ m.to = o /\ m.index <= Len(S[o].log)

MessagesTrue(S, M, o) ==
  \A m \in M : /\ m.type = "append" => AppendTrue(m, S, o)
               /\ m.type = "append_reply" => ReplyTrue(m, S, o)

LogsWellFormed(S) == \A r \in Replica : WellFormed(S[r].log)

OthersHavePrefixes(S, o) ==
  \A f \in Others(o) : IsPrefixOf(S[f].log, S[o].log)

\* The votes o keeps are for indices of its log.
VotesInLog(S, o) ==
  \A i \in Nat, r \in Replica :
    <<i, r>> \in S[o].votes.records => i <= Len(S[o].log)

CompleteHasQuorum(v) ==
  \A i \in v.complete : Cardinality(Voters(v.records, i)) = Quorum

CommitIsComplete(S, o) ==
  /\ S[o].commit = 0 \/ S[o].commit \in S[o].votes.complete
  /\ S[o].commit <= Len(S[o].log)

OthersCommitLags(S, o) ==
  \A f \in Others(o) :
    /\ S[f].commit <= S[o].commit
    /\ S[f].commit > 0 => S[f].commit < Len(S[f].log)

Core(S, M, o, E) ==
  /\ Typed(S, M, E)
  /\ LogsWellFormed(S)
  /\ OthersHavePrefixes(S, o)
  /\ MessagesTrue(S, M, o)
  /\ VotesInLog(S, o)
  /\ CompleteHasQuorum(S[o].votes)
  /\ CommitIsComplete(S, o)
  /\ OthersCommitLags(S, o)

\* r voted, or is about to vote, for an index its log does not reach.
Lacks(r, S, M, o) ==
  \/ \E i \in Nat : <<i, r>> \in S[o].votes.records /\ i > Len(S[r].log)
  \/ \E m \in M : /\ m.type = "append_reply" /\ m.from = r
                  /\ m.index > Len(S[r].log)
Lacking(S, M, o) == {r \in Replica : Lacks(r, S, M, o)}

\* No log and no commit index shrinks from S to T.
Grown(S, T) ==
  \A r \in Replica : /\ IsPrefixOf(S[r].log, T[r].log)
                     /\ S[r].commit <= T[r].commit

\* What a handler call may do to a group: nobody aborts, nothing is taken back.
GoodStep(h, S, M, T, N, o, E) ==
  /\ h.abort = FALSE
  /\ Core(T, N, o, E)
  /\ Lacking(T, N, o) \subseteq Lacking(S, M, o)
  /\ Grown(S, T)

-----------------------------------------------------------------------------
(* Lemmas about the operators *)

\* The quorum the code computes is a positive number.
LEMMA QuorumNat ==
  ASSUME IsFiniteSet(Replica)
  PROVE  Quorum \in Nat /\ 2 * Quorum > Cardinality(Replica)
BY FS_CardinalityType DEF Quorum

\* In a log whose entries carry their positions, the last index is the length.
LEMMA LastIndexIsLen ==
  ASSUME NEW E, NEW log \in Seq(E), WellFormed(log)
  PROVE  LastIndex(log) = Len(log)
<1>1. CASE log = <<>>
  BY <1>1 DEF LastIndex, LastEntry, Dummy
<1>2. CASE log # <<>>
  <2>1. Len(log) \in 1..Len(log)
    BY <1>2, EmptySeq
  <2> QED BY <1>2, <2>1 DEF LastIndex, LastEntry, WellFormed
<1> QED BY <1>1, <1>2

\* What concatenating one element does to a sequence.
LEMMA ConcatOne ==
  ASSUME NEW E, NEW q \in Seq(E), NEW x \in E
  PROVE  LET t == q \o <<x>> IN
           /\ t \in Seq(E) /\ Len(t) = Len(q) + 1 /\ t[Len(q) + 1] = x
           /\ \A i \in 1..Len(q) : t[i] = q[i]
<1>1. <<x>> \in Seq(E) /\ Len(<<x>>) = 1
  OBVIOUS
<1>2. Len(q) \in Nat
  OBVIOUS
<1> QED BY <1>1, <1>2, ConcatProperties

\* Sequences that agree up to an index have the same prefix of that length.
LEMMA PrefixesAgree ==
  ASSUME NEW E, NEW q \in Seq(E), NEW t \in Seq(E), NEW c \in Nat,
         c <= Len(q), c <= Len(t), \A i \in 1..c : q[i] = t[i]
  PROVE  SubSeq(q, 1, c) = SubSeq(t, 1, c)
OBVIOUS

\* The epoch of an entry the log has, or of the dummy, is a number.
LEMMA EpochNat ==
  ASSUME NEW E, EntrySet(E), NEW log \in Seq(E), NEW i \in 0..Len(log)
  PROVE  EntryAt(log, i).epoch \in Nat
<1>1. CASE i = 0
  BY <1>1 DEF EntryAt, Dummy
<1>2. CASE i # 0
  <2>1. i \in 1..Len(log)
    BY <1>2
  <2>2. log[i] \in E
    BY <2>1, ElementOfSeq
  <2> QED BY <1>2, <2>2 DEF EntryAt, EntrySet
<1> QED BY <1>1, <1>2

\* A vote sets at most the one bit, on an index it completes it reaches the
\* quorum, and the quorums reached before stay.
LEMMA VoteFacts ==
  ASSUME NEW v \in VoteState, NEW id \in Replica, NEW i \in Nat,
         CompleteHasQuorum(v)
  PROVE  LET w == AfterVote(v, id, i) IN
           /\ w \in VoteState
           /\ w.records \subseteq v.records \cup {<<i, id>>}
           /\ v.complete \subseteq w.complete
           /\ VoteCompletes(v, id, i) => i \in w.complete
           /\ CompleteHasQuorum(w)
<1>1. CASE i \in v.complete
  BY <1>1 DEF AfterVote, VoteCompletes
<1>2. CASE i \notin v.complete
  <2> DEFINE w == AfterVote(v, id, i)
  <2>1. w = [records  |-> v.records \cup {<<i, id>>},
             complete |-> v.complete \cup {j \in {i} : VoteCompletes(v, id, i)}]
    BY <1>2 DEF AfterVote
  <2>2. w \in VoteState
    BY <2>1 DEF VoteState
  <2>3. CompleteHasQuorum(w)
    <3> SUFFICES ASSUME NEW j \in w.complete
                 PROVE  Cardinality(Voters(w.records, j)) = Quorum
      BY DEF CompleteHasQuorum
    <3>1. CASE j = i
      BY <3>1, <1>2, <2>1 DEF VoteCompletes
    <3>2. CASE j # i
      <4>1. Voters(w.records, j) = Voters(v.records, j)
        BY <3>2, <2>1 DEF Voters
      <4> QED BY <4>1, <3>2, <2>1 DEF CompleteHasQuorum
    <3> QED BY <3>1, <3>2
  <2> QED BY <2>1, <2>2, <2>3
<1> QED BY <1>1, <1>2
-----------------------------------------------------------------------------
(* Lemmas about the handlers *)

\* The entry and the messages of an operation accepted in state s
NewEntry(log, op, epoch) ==
  [epoch |-> epoch, index |-> Len(log) + 1, data |-> op]

NewMessage(s, me, op, epoch, p) ==
  [type |-> "append", from |-> me, to |-> p,
   prev_term  |-> EntryAt(s.log, Len(s.log)).epoch,
   prev_index |-> Len(s.log),
   commit     |-> s.commit,
   entries    |-> <<NewEntry(s.log, op, epoch)>>]

AcceptsOperation(h, s, me, op, epoch, E) ==
  /\ h.abort = FALSE /\ h.apply = <<>>
  /\ h.smr \in StateOf(E)
  /\ h.smr.log = Append(s.log, NewEntry(s.log, op, epoch))
  /\ h.smr.commit = s.commit
  /\ h.smr.votes = AfterVote(s.votes, me, Len(s.log) + 1)
  /\ h.out = {NewMessage(s, me, op, epoch, p) : p \in Others(me)}

\* handle_operation appends one entry and sends it, alone, to every peer, with
\* the entry before it as the one to compare.
LEMMA OperationFacts ==
  ASSUME NEW E, EntrySet(E), NEW s \in StateOf(E), WellFormed(s.log),
         CompleteHasQuorum(s.votes), NEW me \in Replica, NEW op, NEW epoch,
         NewEntry(s.log, op, epoch) \in E
  PROVE  AcceptsOperation(HandleOperation(s, me, op, epoch),
                          s, me, op, epoch, E)
<1> DEFINE e == NewEntry(s.log, op, epoch)
           h == HandleOperation(s, me, op, epoch)
           t == AfterOperation(s, me, op, epoch)
           n == Len(s.log)
           log == Append(s.log, e)
<1>1. s.log \in Seq(E) /\ s.commit \in Nat /\ s.votes \in VoteState
  BY DEF StateOf
<1>2. n \in Nat /\ LastIndex(s.log) = n
  BY <1>1, LastIndexIsLen
<1>3. e \in E
  OBVIOUS
<1>4. /\ AppendAs(s.log, op, epoch) = log
      /\ log \in Seq(E) /\ Len(log) = n + 1 /\ log[n + 1] = e
      /\ \A i \in 1..n : log[i] = s.log[i]
  BY <1>1, <1>2, <1>3 DEF AppendAs, NewEntry
<1>5. WellFormed(log)
  BY <1>2, <1>4 DEF WellFormed, NewEntry
<1>6. LastIndex(log) = n + 1
  BY <1>4, <1>5, LastIndexIsLen
<1>7. t = [log |-> log, commit |-> s.commit,
           votes |-> AfterVote(s.votes, me, n + 1),
           prs |-> [p \in Replica |->
                      IF p = me THEN [match |-> n + 1, next |-> n + 1 + 1]
                      ELSE [match |-> s.prs[p].match, next |-> n + 1]]]
  BY <1>4, <1>6 DEF AfterOperation
<1>8. t \in StateOf(E)
  <2>1. AfterVote(s.votes, me, n + 1) \in VoteState
    BY <1>1, <1>2, VoteFacts
  <2>2. s.prs \in [Replica -> [match : Nat, next : Nat]]
    BY DEF StateOf
  <2>3. t.prs \in [Replica -> [match : Nat, next : Nat]]
    BY <1>2, <1>7, <2>2
  <2> QED BY <1>1, <1>4, <1>7, <2>1, <2>3 DEF StateOf
<1>9. ASSUME NEW p \in Others(me)
      PROVE  AppendMessage(t, me, p) = NewMessage(s, me, op, epoch, p)
  <2>1. p # me /\ p \in Replica
    BY DEF Others
  <2>2. t.prs[p].next = n + 1 /\ t.log = log /\ t.commit = s.commit
    BY <1>7, <2>1
  <2>3. t.prs[p].next - 1 = n
    BY <2>2, <1>2
  <2>4. EntryAt(log, n) = EntryAt(s.log, n)
    BY <1>2, <1>4 DEF EntryAt
  <2>5. TailEntries(log, n + 1) = <<e>>
    <3>1. TailEntries(log, n + 1) = SubSeq(log, n + 1, n + 1)
      BY <1>6 DEF TailEntries, PartEntries
    <3>2. /\ SubSeq(log, n + 1, n + 1) \in Seq(E)
          /\ Len(SubSeq(log, n + 1, n + 1)) = 1
          /\ SubSeq(log, n + 1, n + 1)[1] = e
      BY <1>2, <1>3, <1>4
    <3> QED BY <3>1, <3>2, <1>3
  <2> QED BY <2>2, <2>3, <2>4, <2>5 DEF AppendMessage, NewMessage
<1>10. h.out = {NewMessage(s, me, op, epoch, p) : p \in Others(me)}
  BY <1>9 DEF HandleOperation, Others
<1>aborts. \A p \in Replica \ {me} : ~SendAborts(t, p)
  <2> SUFFICES ASSUME NEW p \in Replica \ {me}
               PROVE  ~SendAborts(t, p)
    OBVIOUS
  <2>1. t.prs[p].next = n + 1 /\ t.log = log
    BY <1>7
  <2>2. /\ ~EntryAtAborts(log, n + 1 - 1)
        /\ ~TailAborts(log, n + 1)
    BY <1>2, <1>4, <1>6 DEF EntryAtAborts, TailAborts, PartAborts, PosAborts
  <2> QED BY <2>1, <2>2 DEF SendAborts
<1>11. h.smr = t /\ h.abort = FALSE /\ h.apply = <<>>
  BY <1>aborts DEF HandleOperation
<1>12. t.log = log /\ t.commit = s.commit
       /\ t.votes = AfterVote(s.votes, me, n + 1)
  BY <1>7
<1> HIDE DEF h, t
<1>13. AcceptsOperation(h, s, me, op, epoch, E)
  BY <1>8, <1>10, <1>11, <1>12 DEF AcceptsOperation
<1> QED BY <1>13 DEF h

\* What handling message m at replica f, in state s, gives: result h
FollowsTruth(h, s, f, m, L, E) ==
  /\ h.abort = FALSE /\ h.apply = <<>>
  /\ h.smr \in StateOf(E)
  /\ WellFormed(h.smr.log)
  /\ IsPrefixOf(s.log, h.smr.log)
  /\ IsPrefixOf(h.smr.log, L)
  /\ h.smr.commit \in {s.commit, m.commit}
  /\ h.smr.commit >= s.commit
  /\ h.smr.commit > 0 => h.smr.commit < Len(h.smr.log)
  /\ h.smr.votes = s.votes
  /\ h.out = {[type |-> "append_reply", from |-> f, to |-> m.from,
               success |-> Safe(s.log, m), index |-> Len(h.smr.log)]}

\* What it does to the log: a message for the end of the log adds its entry, a
\* message beyond the end is refused, all others leave the log as it is.
ExtendsLog(h, s, m) ==
  /\ Safe(s.log, m) <=> m.prev_index <= Len(s.log)
  /\ h.smr.log = IF m.prev_index = Len(s.log) THEN s.log \o m.entries
                                              ELSE s.log

\* handle_append_entries of a truthful message, at a replica whose log is a
\* prefix of the owner's log L: the log stays such a prefix and does not
\* shrink, and the commit index stays behind the last entry.
LEMMA AppendFacts ==
  ASSUME NEW E, EntrySet(E), NEW s \in StateOf(E), NEW L \in Seq(E),
         WellFormed(s.log), WellFormed(L), IsPrefixOf(s.log, L),
         s.commit > 0 => s.commit < Len(s.log),
         NEW o, NEW f \in Replica, NEW m \in AppendOf(E), Truthful(m, L, o)
  PROVE  LET h == HandleAppendEntries(s, f, m) IN
           FollowsTruth(h, s, f, m, L, E) /\ ExtendsLog(h, s, m)
<1> DEFINE n == Len(s.log)
           p == m.prev_index
           e == L[p + 1]
           h == HandleAppendEntries(s, f, m)
           log == IF Safe(s.log, m) THEN AfterEntries(s.log, m) ELSE s.log
           commit == IF Safe(s.log, m) THEN LearnedCommit(log, s.commit, m)
                                       ELSE s.commit
<1>1. /\ s.log \in Seq(E) /\ s.commit \in Nat /\ n \in Nat
      /\ p \in Nat /\ m.commit \in Nat /\ m.prev_term \in Nat
  BY DEF StateOf, AppendOf
<1>truth. /\ p < Len(L) /\ m.commit <= p
      /\ m.prev_term = EntryAt(L, p).epoch
      /\ m.entries = <<e>>
  BY DEF Truthful
<1>2. LastIndex(s.log) = n
  BY <1>1, LastIndexIsLen
<1>3. /\ p + 1 \in 1..Len(L) /\ e \in E /\ e.index = p + 1
      /\ e = [epoch |-> e.epoch, index |-> e.index, data |-> e.data]
  <2>1. p + 1 \in 1..Len(L)
    BY <1>1, <1>truth
  <2>2. e \in E
    BY <2>1, ElementOfSeq
  <2> QED BY <2>1, <2>2 DEF WellFormed, EntrySet
<1>4. m.entries = <<e>> /\ DOMAIN m.entries = {1} /\ m.entries[1] = e
      /\ Len(m.entries) = 1
  BY <1>truth
<1>5. Safe(s.log, m) <=> p <= n
  <2>1. ASSUME p <= n PROVE EntryAt(s.log, p) = EntryAt(L, p)
    BY <2>1, <1>1 DEF EntryAt, IsPrefixOf
  <2> QED BY <2>1, <1>truth, <1>2 DEF Safe
<1>6. /\ log \in Seq(E)
      /\ WellFormed(log)
      /\ IsPrefixOf(s.log, log)
      /\ IsPrefixOf(log, L)
      /\ Safe(s.log, m) => p < Len(log)
      /\ log = IF p = n THEN s.log \o m.entries ELSE s.log
  <2>1. CASE ~Safe(s.log, m)
    BY <2>1, <1>1, <1>5 DEF IsPrefixOf
  <2>2. CASE Safe(s.log, m) /\ Stale(s.log, m)
    <3>1. p + 1 \in 1..n
      BY <2>2, <1>1, <1>2 DEF Stale
    <3>2. s.log[p + 1] = e
      BY <3>1 DEF IsPrefixOf
    <3>3. ~Mismatch(s.log, e)
      BY <3>1, <3>2, <1>1, <1>2, <1>3 DEF Mismatch, EntryAt
    <3>4. {k \in DOMAIN m.entries : Mismatch(s.log, m.entries[k])} = {}
      BY <3>3, <1>4
    <3>5. log = s.log
      BY <3>4, <2>2 DEF AfterEntries, AfterStaleEntries
    <3> QED BY <2>2, <3>1, <3>5, <1>1 DEF IsPrefixOf
  <2>3. CASE Safe(s.log, m) /\ ~Stale(s.log, m)
    <3>1. p = n
      BY <2>3, <1>1, <1>2, <1>5 DEF Stale
    <3>2. log = s.log \o [k \in 1..1 |-> [epoch |-> m.entries[k].epoch,
                                          index |-> n + k,
                                          data  |-> m.entries[k].data]]
      BY <2>3, <1>2, <1>4 DEF AfterEntries, AppendAll
    <3>3. [k \in 1..1 |-> [epoch |-> m.entries[k].epoch, index |-> n + k,
                           data |-> m.entries[k].data]] = <<e>>
      <4>1. e = [epoch |-> e.epoch, index |-> n + 1, data |-> e.data]
        BY <1>3, <3>1
      <4> QED BY <4>1, <1>1, <1>4
    <3>4. log = s.log \o <<e>>
      BY <3>2, <3>3
    <3>5. /\ log \in Seq(E) /\ Len(log) = n + 1 /\ log[n + 1] = e
          /\ \A i \in 1..n : log[i] = s.log[i]
      <4> HIDE DEF log
      <4>1. s.log \in Seq(E) /\ e \in E /\ n = Len(s.log)
        BY <1>1, <1>3
      <4> QED BY <3>4, <4>1, ConcatOne
    <3> HIDE DEF log
    <3>6. WellFormed(log)
      <4> SUFFICES ASSUME NEW i \in 1..Len(log) PROVE log[i].index = i
        BY DEF WellFormed
      <4>1. CASE i = n + 1
        BY <4>1, <3>1, <3>5, <1>3
      <4>2. CASE i # n + 1
        <5>1. i \in 1..n
          BY <4>2, <3>5, <1>1
        <5> QED BY <5>1, <3>5 DEF WellFormed
      <4> QED BY <4>1, <4>2
    <3>7. IsPrefixOf(s.log, log)
      BY <3>5, <1>1 DEF IsPrefixOf
    <3>8. IsPrefixOf(log, L)
      <4>1. Len(log) <= Len(L)
        BY <3>1, <3>5, <1>1, <1>3
      <4>2. ASSUME NEW i \in 1..Len(log) PROVE log[i] = L[i]
        <5>1. CASE i = n + 1
          BY <5>1, <3>1, <3>5
        <5>2. CASE i # n + 1
          <6>1. i \in 1..n
            BY <5>2, <3>5, <1>1
          <6> QED BY <6>1, <3>5 DEF IsPrefixOf
        <5> QED BY <5>1, <5>2
      <4> QED BY <4>1, <4>2 DEF IsPrefixOf
    <3> QED BY <2>3, <3>1, <3>4, <3>5, <3>6, <3>7, <3>8, <1>1, <1>4
  <2> QED BY <2>1, <2>2, <2>3
<1>7. LastIndex(log) = Len(log) /\ Len(log) \in Nat /\ n <= Len(log)
  BY <1>1, <1>6, LastIndexIsLen DEF IsPrefixOf
<1>8. ~(Safe(s.log, m) /\ Stale(s.log, m) /\ StaleAborts(s.log, m.entries))
  <2> SUFFICES ASSUME Safe(s.log, m), Stale(s.log, m),
                      StaleAborts(s.log, m.entries)
               PROVE  FALSE
    OBVIOUS
  <2>1. EntryAtAborts(s.log, e.index) \/ PosAborts(e.index)
    BY <1>4 DEF StaleAborts
  <2> QED BY <2>1, <1>1, <1>2, <1>3 DEF Stale, EntryAtAborts, PosAborts
<1>9. /\ commit \in {s.commit, m.commit}
      /\ commit \in Nat
      /\ commit >= s.commit
      /\ commit > 0 => commit < Len(log)
  <2>1. CASE ~Safe(s.log, m) \/ m.commit <= s.commit
    BY <2>1, <1>1, <1>7 DEF LearnedCommit
  <2>2. CASE Safe(s.log, m) /\ ~(m.commit <= s.commit)
    <3>1. m.commit < Len(log)
      BY <2>2, <1>1, <1>truth, <1>6, <1>7
    <3>2. commit = m.commit
      BY <2>2, <3>1, <1>1, <1>7 DEF LearnedCommit, CommitTo, CommitMoves
    <3> QED BY <2>2, <3>1, <3>2, <1>1
  <2> QED BY <2>1, <2>2
<1>10. h.smr = [log |-> log, commit |-> commit,
                votes |-> s.votes, prs |-> s.prs]
  BY DEF HandleAppendEntries
<1>11. h.abort = FALSE /\ h.apply = <<>>
  BY <1>8 DEF HandleAppendEntries
<1>12. h.out = {[type |-> "append_reply", from |-> f, to |-> m.from,
                 success |-> Safe(s.log, m), index |-> Len(log)]}
  BY <1>7 DEF HandleAppendEntries, AppendReply
<1>13. h.smr \in StateOf(E)
  BY <1>6, <1>9, <1>10 DEF StateOf
<1>14. h.smr.log = log /\ h.smr.commit = commit /\ h.smr.votes = s.votes
  BY <1>10
<1>15. FollowsTruth(h, s, f, m, L, E)
  <2> HIDE DEF h, log, commit
  <2> QED BY <1>6, <1>9, <1>11, <1>12, <1>13, <1>14 DEF FollowsTruth
<1>16. ExtendsLog(h, s, m)
  <2> HIDE DEF h, log
  <2>1. Safe(s.log, m) <=> p <= n
    BY <1>5
  <2>2. h.smr.log = IF p = n THEN s.log \o m.entries ELSE s.log
    BY <1>6, <1>14
  <2> QED BY <2>1, <2>2 DEF ExtendsLog
<1> QED BY <1>15, <1>16

\* What handling reply m in state s gives: result h
CountsVote(h, s, m, E) ==
  /\ h.abort = FALSE /\ h.out = {}
  /\ h.smr \in StateOf(E)
  /\ h.smr.log = s.log
  /\ h.smr.commit >= s.commit
  /\ h.smr.commit <= Len(s.log)
  /\ h.smr.commit = s.commit \/ h.smr.commit \in h.smr.votes.complete
  /\ CompleteHasQuorum(h.smr.votes)
  /\ s.votes.complete \subseteq h.smr.votes.complete
  /\ h.smr.votes.records \subseteq s.votes.records \cup {<<m.index, m.from>>}
  /\ h.apply = SubSeq(s.log, s.commit + 1, h.smr.commit)

\* handle_append_entries_reply of a truthful reply: no abort; the log stays;
\* the commit index moves only to an index that is complete then, and what is
\* handed over for applying is the part of the log it moved across.
LEMMA ReplyFacts ==
  ASSUME NEW E, NEW s \in StateOf(E), WellFormed(s.log),
         CompleteHasQuorum(s.votes), s.commit <= Len(s.log), NEW me,
         NEW m \in Replies, m.index <= Len(s.log)
  PROVE  CountsVote(HandleAppendEntriesReply(s, me, m), s, m, E)
<1> DEFINE h == HandleAppendEntriesReply(s, me, m)
           completes == m.success /\ VoteCompletes(s.votes, m.from, m.index)
           commit == IF completes THEN CommitTo(s.commit, m.index)
                                  ELSE s.commit
           votes == IF m.success THEN AfterVote(s.votes, m.from, m.index)
                                 ELSE s.votes
<1>1. /\ s.log \in Seq(E) /\ s.commit \in Nat /\ s.votes \in VoteState
      /\ m.index \in Nat /\ m.from \in Replica /\ Len(s.log) \in Nat
  BY DEF StateOf, VoteState, Replies
<1>2. LastIndex(s.log) = Len(s.log)
  BY <1>1, LastIndexIsLen
<1>3. ~CommitAborts(s.log, m.index)
  BY <1>1, <1>2 DEF CommitAborts
<1>4. /\ votes \in VoteState
      /\ CompleteHasQuorum(votes)
      /\ s.votes.complete \subseteq votes.complete
      /\ votes.records \subseteq s.votes.records \cup {<<m.index, m.from>>}
      /\ completes => m.index \in votes.complete
  <2>1. CASE m.success
    BY <2>1, <1>1, VoteFacts
  <2>2. CASE ~m.success
    BY <2>2, <1>1
  <2> QED BY <2>1, <2>2
<1>5. /\ commit \in Nat /\ commit >= s.commit /\ commit <= Len(s.log)
      /\ commit = s.commit \/ commit \in votes.complete
  BY <1>1, <1>4 DEF CommitTo, CommitMoves
<1>6. h.smr = [log |-> s.log, commit |-> commit, votes |-> votes,
               prs |-> s.prs]
  BY DEF HandleAppendEntriesReply
<1>7. h.abort = FALSE /\ h.out = {}
  <2>1. CommitMoves(s.commit, m.index) => ~PartAborts(s.commit + 1, m.index)
    BY <1>1 DEF CommitMoves, PartAborts, PosAborts
  <2> QED BY <2>1, <1>3 DEF HandleAppendEntriesReply
<1>8. h.apply = SubSeq(s.log, s.commit + 1, commit)
  <2>1. CASE completes /\ CommitMoves(s.commit, m.index)
    BY <2>1, <1>3 DEF HandleAppendEntriesReply, NewlyCommitted, PartEntries,
                      CommitTo
  <2>2. CASE ~(completes /\ CommitMoves(s.commit, m.index))
    <3>1. h.apply = <<>>
      BY <2>2 DEF HandleAppendEntriesReply
    <3>2. commit = s.commit
      BY <2>2 DEF CommitTo
    <3>3. SubSeq(s.log, s.commit + 1, s.commit) = <<>>
      BY <1>1
    <3> QED BY <3>1, <3>2, <3>3
  <2> QED BY <2>1, <2>2
<1>9. h.smr \in StateOf(E)
  BY <1>1, <1>4, <1>5, <1>6 DEF StateOf, VoteState
<1>10. h.smr.log = s.log /\ h.smr.commit = commit /\ h.smr.votes = votes
  BY <1>6
<1> HIDE DEF h, commit, votes
<1>11. CountsVote(h, s, m, E)
  BY <1>4, <1>5, <1>7, <1>8, <1>9, <1>10 DEF CountsVote
<1> QED BY <1>11 DEF h

-----------------------------------------------------------------------------
(* Handler calls in a group *)

\* What Core says of the parts a handler call starts from.
LEMMA CoreFacts ==
  ASSUME NEW E, NEW S, NEW M, NEW o \in Replica, Core(S, M, o, E)
  PROVE  /\ \A r \in Replica :
              /\ S[r] \in StateOf(E) /\ WellFormed(S[r].log)
              /\ S[r].log \in Seq(E) /\ Len(S[r].log) \in Nat
              /\ S[r].commit \in Nat /\ S[r].votes \in VoteState
              /\ r = o \/ r \in Others(o)
         /\ o \notin Others(o)
         /\ \A f \in Others(o) : f \in Replica /\ f # o
         /\ DOMAIN S = Replica
<1>1. S \in [Replica -> StateOf(E)] /\ LogsWellFormed(S)
  BY DEF Core, Typed
<1>2. ASSUME NEW r \in Replica
      PROVE  /\ S[r] \in StateOf(E) /\ WellFormed(S[r].log)
             /\ S[r].log \in Seq(E) /\ Len(S[r].log) \in Nat
             /\ S[r].commit \in Nat /\ S[r].votes \in VoteState
  <2>1. S[r] \in StateOf(E) /\ WellFormed(S[r].log)
    BY <1>1 DEF LogsWellFormed
  <2>2. /\ S[r].log \in Seq(E) /\ S[r].commit \in Nat
        /\ S[r].votes \in VoteState
    BY <2>1 DEF StateOf
  <2> QED BY <2>1, <2>2
<1>3. /\ \A r \in Replica : r = o \/ r \in Others(o)
      /\ o \notin Others(o)
      /\ \A f \in Others(o) : f \in Replica /\ f # o
  BY DEF Others
<1> QED BY <1>1, <1>2, <1>3

\* Every message is an append message or a reply, and true.
LEMMA MessageFacts ==
  ASSUME NEW E, NEW S, NEW M, NEW o \in Replica, Core(S, M, o, E), NEW m \in M
  PROVE  \/ /\ m.type = "append" /\ m \in AppendOf(E) /\ AppendTrue(m, S, o)
            /\ m.to \in Replica /\ m.from \in Replica
            /\ m.prev_index \in Nat /\ m.commit \in Nat
         \/ /\ m.type = "append_reply" /\ m \in Replies /\ ReplyTrue(m, S, o)
            /\ m.to \in Replica /\ m.from \in Replica /\ m.index \in Nat
            /\ m.success \in BOOLEAN
<1>1. M \subseteq AppendOf(E) \cup Replies /\ MessagesTrue(S, M, o)
  BY DEF Core, Typed
<1>2. CASE m \in AppendOf(E)
  BY <1>1, <1>2 DEF AppendOf, MessagesTrue
<1>3. CASE m \in Replies
  BY <1>1, <1>3 DEF Replies, MessagesTrue
<1> QED BY <1>1, <1>2, <1>3

\* A network that loses messages keeps the group sound.
LEMMA FewerMessages ==
  ASSUME NEW E, NEW S, NEW M, NEW o, Core(S, M, o, E), NEW N \in SUBSET M
  PROVE  Core(S, N, o, E) /\ Lacking(S, N, o) \subseteq Lacking(S, M, o)
<1>1. Typed(S, N, E) /\ MessagesTrue(S, N, o)
  BY DEF Core, Typed, MessagesTrue
<1>2. Lacking(S, N, o) \subseteq Lacking(S, M, o)
  BY DEF Lacking, Lacks
<1> QED BY <1>1, <1>2 DEF Core

\* What is true of o's log stays true when the log grows.
LEMMA TruthLasts ==
  ASSUME NEW E, NEW L \in Seq(E), NEW K \in Seq(E), IsPrefixOf(L, K),
         NEW o, NEW m \in AppendOf(E), Truthful(m, L, o)
  PROVE  Truthful(m, K, o)
<1>1. /\ m.prev_index \in Nat /\ Len(L) \in Nat /\ Len(K) \in Nat
      /\ m.prev_index < Len(L) /\ Len(L) <= Len(K)
  BY DEF AppendOf, Truthful, IsPrefixOf
<1>2. m.prev_index + 1 \in 1..Len(L)
  BY <1>1
<1>3. K[m.prev_index + 1] = L[m.prev_index + 1]
  BY <1>2 DEF IsPrefixOf
<1>4. EntryAt(K, m.prev_index) = EntryAt(L, m.prev_index)
  BY <1>1 DEF EntryAt, IsPrefixOf
<1> QED BY <1>1, <1>3, <1>4 DEF Truthful

\* An operation extends o's log by one entry and sends truthful messages about
\* it; what was true of the log before stays true.
LEMMA OperationKeepsCore ==
  ASSUME NEW E, EntrySet(E), NEW S, NEW M, NEW o \in Replica, Core(S, M, o, E),
         NEW op, NEW epoch, NewEntry(S[o].log, op, epoch) \in E
  PROVE  LET h == HandleOperation(S[o], o, op, epoch) IN
           GoodStep(h, S, M, [S EXCEPT ![o] = h.smr], M \cup h.out, o, E)
<1> DEFINE s == S[o]
           n == Len(s.log)
           e == NewEntry(s.log, op, epoch)
           h == HandleOperation(s, o, op, epoch)
           T == [S EXCEPT ![o] = h.smr]
           N == M \cup h.out
<1>1. /\ s \in StateOf(E) /\ WellFormed(s.log) /\ CompleteHasQuorum(s.votes)
      /\ s.votes \in VoteState /\ n \in Nat
      /\ s.log \in Seq(E) /\ s.commit \in Nat /\ s.commit <= n
  BY CoreFacts DEF Core, CommitIsComplete
<1>2. /\ h.abort = FALSE
      /\ h.smr \in StateOf(E)
      /\ h.smr.log = Append(s.log, e)
      /\ h.smr.commit = s.commit
      /\ h.smr.votes = AfterVote(s.votes, o, n + 1)
      /\ h.out = {NewMessage(s, o, op, epoch, p) : p \in Others(o)}
  <2>1. AcceptsOperation(HandleOperation(s, o, op, epoch), s, o, op, epoch, E)
    BY <1>1, OperationFacts
  <2> HIDE DEF s, h
  <2> QED BY <2>1 DEF AcceptsOperation, h
<1>3. e \in E /\ e.index = n + 1
  BY DEF NewEntry
<1>4. /\ h.smr.log \in Seq(E) /\ Len(h.smr.log) = n + 1
      /\ h.smr.log[n + 1] = e
      /\ \A i \in 1..n : h.smr.log[i] = s.log[i]
  BY <1>1, <1>2, <1>3
<1>5. IsPrefixOf(s.log, h.smr.log)
  BY <1>1, <1>4 DEF IsPrefixOf
<1> HIDE DEF h
<1>6. /\ T[o] = h.smr /\ \A r \in Replica : r # o => T[r] = S[r]
      /\ \A f \in Others(o) : T[f] = S[f]
      /\ T \in [Replica -> StateOf(E)]
      /\ N = M \cup h.out /\ s = S[o] /\ n = Len(s.log)
  BY <1>2, CoreFacts DEF Core, Typed
<1>x. e = NewEntry(s.log, op, epoch)
  OBVIOUS
<1> HIDE DEF T, N, s, n, e
<1>7. /\ h.smr.votes.records \subseteq s.votes.records \cup {<<n + 1, o>>}
      /\ s.votes.complete \subseteq h.smr.votes.complete
      /\ CompleteHasQuorum(h.smr.votes)
  <2> DEFINE w == AfterVote(s.votes, o, n + 1)
  <2>1. n + 1 \in Nat
    BY <1>1
  <2>2. /\ w.records \subseteq s.votes.records \cup {<<n + 1, o>>}
        /\ s.votes.complete \subseteq w.complete
        /\ CompleteHasQuorum(w)
    BY <1>1, <2>1, VoteFacts
  <2> HIDE DEF w
  <2> QED BY <2>2, <1>2 DEF w
<1>8. ASSUME NEW p \in Others(o)
      PROVE  LET m == NewMessage(s, o, op, epoch, p) IN
               /\ m \in AppendOf(E) /\ m.to = p /\ m.from = o
               /\ m.prev_index = n /\ m.prev_term = EntryAt(s.log, n).epoch
               /\ m.entries = <<e>> /\ m.commit = s.commit
               /\ m.type = "append"
  <2>1. <<e>> \in Seq(E) /\ EntryAt(s.log, n).epoch \in Nat /\ p \in Replica
    BY <1>1, <1>3, <1>6, EpochNat DEF Others
  <2>2. NewMessage(s, o, op, epoch, p) =
          [type |-> "append", from |-> o, to |-> p,
           prev_term |-> EntryAt(s.log, n).epoch, prev_index |-> n,
           commit |-> s.commit, entries |-> <<e>>]
    BY <1>6, <1>x DEF NewMessage
  <2> QED BY <2>1, <2>2, <1>1 DEF AppendOf
<1>9. Typed(T, N, E)
  <2>1. h.out \subseteq AppendOf(E)
    BY <1>2, <1>8
  <2> QED BY <2>1, <1>6 DEF Core, Typed
<1>10. LogsWellFormed(T)
  <2>1. WellFormed(h.smr.log)
    <3> SUFFICES ASSUME NEW i \in 1..(n + 1) PROVE h.smr.log[i].index = i
      BY <1>4 DEF WellFormed
    <3>1. CASE i = n + 1
      BY <3>1, <1>3, <1>4
    <3>2. CASE i \in 1..n
      BY <3>2, <1>1, <1>4, <1>6 DEF WellFormed
    <3> QED BY <3>1, <3>2, <1>1
  <2> QED BY <2>1, <1>6, CoreFacts DEF LogsWellFormed
<1>11. Grown(S, T)
  <2> SUFFICES ASSUME NEW r \in Replica
               PROVE  IsPrefixOf(S[r].log, T[r].log) /\ S[r].commit <= T[r].commit
    BY DEF Grown
  <2>1. CASE r = o
    <3>1. IsPrefixOf(s.log, T[r].log) /\ T[r].commit = s.commit
      BY <2>1, <1>2, <1>5, <1>6
    <3> QED BY <3>1, <2>1, <1>1, <1>6
  <2>2. CASE r # o
    BY <2>2, <1>6, CoreFacts DEF IsPrefixOf
  <2> QED BY <2>1, <2>2
<1>12. OthersHavePrefixes(T, o)
  <2> SUFFICES ASSUME NEW f \in Others(o) PROVE IsPrefixOf(S[f].log, h.smr.log)
    BY <1>6 DEF OthersHavePrefixes
  <2>1. IsPrefixOf(S[f].log, s.log) /\ Len(S[f].log) \in Nat
    BY <1>6, CoreFacts DEF Core, OthersHavePrefixes
  <2> QED BY <2>1, <1>1, <1>4, <1>6 DEF IsPrefixOf
<1>13. MessagesTrue(T, N, o)
  <2> SUFFICES ASSUME NEW m \in N
               PROVE  /\ m.type = "append" => AppendTrue(m, T, o)
                      /\ m.type = "append_reply" => ReplyTrue(m, T, o)
    BY DEF MessagesTrue
  <2>1. CASE m \in M /\ m.type = "append"
    <3>1. AppendTrue(m, S, o) /\ m \in AppendOf(E)
      BY <2>1, MessageFacts
    <3>2. Truthful(m, T[o].log, o)
      BY <3>1, <1>1, <1>4, <1>5, <1>6, TruthLasts DEF AppendTrue
    <3> QED BY <2>1, <3>1, <3>2, <1>2, <1>6 DEF AppendTrue
  <2>2. CASE m \in M /\ m.type = "append_reply"
    <3>1. ReplyTrue(m, S, o) /\ m.index \in Nat
      BY <2>2, MessageFacts
    <3> QED BY <2>2, <3>1, <1>1, <1>4, <1>6 DEF ReplyTrue
  <2>3. CASE m \in h.out
    <3> PICK p \in Others(o) : m = NewMessage(s, o, op, epoch, p)
      BY <2>3, <1>2
    <3>1. /\ m.type = "append" /\ m.from = o /\ m.to = p
          /\ m.prev_index = n /\ m.entries = <<e>>
          /\ m.prev_term = EntryAt(s.log, n).epoch
          /\ m.commit = s.commit
      BY <1>8
    <3>2. EntryAt(s.log, n) = EntryAt(h.smr.log, n)
      BY <1>1, <1>4 DEF EntryAt
    <3>3. Truthful(m, h.smr.log, o)
      BY <3>1, <3>2, <1>1, <1>4 DEF Truthful
    <3>4. Truthful(m, T[o].log, o) /\ T[o].commit = s.commit
      BY <3>3, <1>2, <1>6
    <3>5. m.to \in Others(o) /\ m.commit <= T[o].commit
      BY <3>1, <3>4, <1>1
    <3> QED BY <3>1, <3>4, <3>5 DEF AppendTrue
  <2>4. m \in M => m.type = "append" \/ m.type = "append_reply"
    BY MessageFacts
  <2> QED BY <2>1, <2>2, <2>3, <2>4, <1>6
<1>14. VotesInLog(T, o)
  <2> SUFFICES ASSUME NEW i \in Nat, NEW r \in Replica,
                      <<i, r>> \in h.smr.votes.records
               PROVE  i <= n + 1
    BY <1>4, <1>6 DEF VotesInLog
  <2>1. <<i, r>> \in s.votes.records => i <= n
    BY <1>6 DEF Core, VotesInLog
  <2> QED BY <2>1, <1>1, <1>7
<1>15. CommitIsComplete(T, o)
  BY <1>1, <1>2, <1>4, <1>6, <1>7 DEF Core, CommitIsComplete
<1>16. OthersCommitLags(T, o)
  BY <1>2, <1>6 DEF Core, OthersCommitLags
<1>17. Lacking(T, N, o) \subseteq Lacking(S, M, o)
  <2> SUFFICES ASSUME NEW r \in Replica, Lacks(r, T, N, o)
               PROVE  Lacks(r, S, M, o)
    BY DEF Lacking
  <2>1. Len(S[r].log) <= Len(T[r].log) /\ Len(S[r].log) \in Nat
        /\ Len(T[r].log) \in Nat
    <3>1. T[r].log \in Seq(E)
      BY <1>6 DEF StateOf
    <3> QED BY <3>1, <1>11, CoreFacts DEF Grown, IsPrefixOf
  <2>2. CASE \E i \in Nat : <<i, r>> \in T[o].votes.records
                            /\ i > Len(T[r].log)
    <3> PICK i \in Nat : <<i, r>> \in T[o].votes.records /\ i > Len(T[r].log)
      BY <2>2
    <3>1. <<i, r>> # <<n + 1, o>>
      BY <1>4, <1>6
    <3>2. <<i, r>> \in s.votes.records
      BY <3>1, <1>6, <1>7
    <3> QED BY <3>2, <2>1, <1>6 DEF Lacks
  <2>3. CASE \E m \in N : /\ m.type = "append_reply" /\ m.from = r
                          /\ m.index > Len(T[r].log)
    <3> PICK m \in N : /\ m.type = "append_reply" /\ m.from = r
                       /\ m.index > Len(T[r].log)
      BY <2>3
    <3>1. m \in M
      BY <1>2, <1>6, <1>8
    <3>2. m.index \in Nat
      BY <3>1, MessageFacts
    <3> QED BY <3>1, <3>2, <2>1 DEF Lacks
  <2> QED BY <2>2, <2>3 DEF Lacks
<1>18. Core(T, N, o, E)
  <2> QED BY <1>6, <1>7, <1>9, <1>10, <1>12, <1>13, <1>14, <1>15, <1>16 DEF Core
<1>19. GoodStep(h, S, M, T, N, o, E)
  BY <1>2, <1>11, <1>17, <1>18 DEF GoodStep
<1> QED BY <1>19 DEF T, N, h, s

\* A replica that handles a truthful append message keeps a prefix of o's log,
\* no shorter than before, and its reply is truthful.
LEMMA AppendKeepsCore ==
  ASSUME NEW E, EntrySet(E), NEW S, NEW M, NEW o \in Replica, Core(S, M, o, E),
         NEW m \in M, m.type = "append"
  PROVE  LET h == HandleAppendEntries(S[m.to], m.to, m) IN
           /\ GoodStep(h, S, M, [S EXCEPT ![m.to] = h.smr], M \cup h.out, o, E)
           /\ FollowsTruth(h, S[m.to], m.to, m, S[o].log, E)
           /\ ExtendsLog(h, S[m.to], m)
<1> DEFINE f == m.to
           s == S[f]
           L == S[o].log
           h == HandleAppendEntries(s, f, m)
           T == [S EXCEPT ![f] = h.smr]
           N == M \cup h.out
<1>1. /\ m \in AppendOf(E) /\ AppendTrue(m, S, o) /\ Truthful(m, L, o)
      /\ m.commit <= S[o].commit /\ m.commit \in Nat
      /\ f \in Others(o) /\ f \in Replica /\ f # o
  <2>1. AppendTrue(m, S, o) /\ m \in AppendOf(E) /\ m.commit \in Nat
    BY MessageFacts
  <2> QED BY <2>1, CoreFacts DEF AppendTrue
<1>2. /\ s \in StateOf(E) /\ WellFormed(s.log) /\ s.log \in Seq(E)
      /\ L \in Seq(E) /\ WellFormed(L)
      /\ s.commit \in Nat /\ S[o].commit \in Nat
  BY <1>1, CoreFacts
<1>3. /\ IsPrefixOf(s.log, L)
      /\ s.commit > 0 => s.commit < Len(s.log)
      /\ s.commit <= S[o].commit
  BY <1>1 DEF Core, OthersHavePrefixes, OthersCommitLags
<1>4. FollowsTruth(h, s, f, m, L, E) /\ ExtendsLog(h, s, m)
  <2> HIDE DEF s, f, L
  <2> QED BY <1>1, <1>2, <1>3, AppendFacts
<1>5. m.from = o /\ Safe(s.log, m) \in BOOLEAN
  BY <1>1 DEF Truthful, Safe
<1> HIDE DEF h
<1>6. /\ T[f] = h.smr /\ \A r \in Replica : r # f => T[r] = S[r]
      /\ T[o] = S[o] /\ T \in [Replica -> StateOf(E)]
      /\ N = M \cup h.out /\ s = S[f] /\ f = m.to /\ L = S[o].log
  BY <1>1, <1>4, CoreFacts DEF Core, Typed, FollowsTruth
<1> HIDE DEF T, N, s, f, L
<1>7. /\ h.abort = FALSE
      /\ h.smr \in StateOf(E)
      /\ WellFormed(h.smr.log)
      /\ IsPrefixOf(s.log, h.smr.log)
      /\ IsPrefixOf(h.smr.log, L)
      /\ h.smr.commit \in {s.commit, m.commit}
      /\ h.smr.commit >= s.commit
      /\ h.smr.commit > 0 => h.smr.commit < Len(h.smr.log)
      /\ h.out = {[type |-> "append_reply", from |-> f, to |-> o,
                   success |-> Safe(s.log, m), index |-> Len(h.smr.log)]}
  BY <1>4, <1>5 DEF FollowsTruth
<1>8. /\ h.smr.log \in Seq(E) /\ Len(h.smr.log) \in Nat
      /\ h.smr.commit \in Nat /\ Len(h.smr.log) <= Len(L)
  BY <1>7 DEF StateOf, IsPrefixOf
<1>9. Grown(S, T)
  <2> SUFFICES ASSUME NEW r \in Replica
               PROVE  IsPrefixOf(S[r].log, T[r].log) /\ S[r].commit <= T[r].commit
    BY DEF Grown
  <2>1. CASE r = f
    BY <2>1, <1>2, <1>6, <1>7, <1>8
  <2>2. CASE r # f
    BY <2>2, <1>6, CoreFacts DEF IsPrefixOf
  <2> QED BY <2>1, <2>2
<1>10. Typed(T, N, E)
  <2>1. h.out \subseteq Replies
    BY <1>1, <1>5, <1>7, <1>8 DEF Replies
  <2> QED BY <2>1, <1>6 DEF Core, Typed
<1>11. LogsWellFormed(T)
  <2> SUFFICES ASSUME NEW r \in Replica PROVE WellFormed(T[r].log)
    BY DEF LogsWellFormed
  <2>1. CASE r = f
    BY <2>1, <1>6, <1>7
  <2>2. CASE r # f
    BY <2>2, <1>6, CoreFacts
  <2> QED BY <2>1, <2>2
<1>12. OthersHavePrefixes(T, o)
  <2> SUFFICES ASSUME NEW g \in Others(o) PROVE IsPrefixOf(T[g].log, T[o].log)
    BY DEF OthersHavePrefixes
  <2>1. CASE g = f
    BY <2>1, <1>6, <1>7
  <2>2. CASE g # f
    BY <2>2, <1>6, CoreFacts DEF Core, OthersHavePrefixes
  <2> QED BY <2>1, <2>2
<1>13. MessagesTrue(T, N, o)
  <2> SUFFICES ASSUME NEW x \in N
               PROVE  /\ x.type = "append" => AppendTrue(x, T, o)
                      /\ x.type = "append_reply" => ReplyTrue(x, T, o)
    BY DEF MessagesTrue
  <2>1. CASE x \in M
    BY <2>1, <1>6 DEF Core, MessagesTrue, AppendTrue, ReplyTrue
  <2>2. CASE x \in h.out
    <3>1. /\ x.type = "append_reply" /\ x.from = f /\ x.to = o
          /\ x.index = Len(h.smr.log)
      BY <2>2, <1>7
    <3> QED BY <3>1, <1>1, <1>6, <1>8 DEF ReplyTrue
  <2> QED BY <2>1, <2>2, <1>6
<1>14. VotesInLog(T, o) /\ CompleteHasQuorum(T[o].votes)
       /\ CommitIsComplete(T, o)
  BY <1>6 DEF Core, VotesInLog, CommitIsComplete
<1>15. OthersCommitLags(T, o)
  <2> SUFFICES ASSUME NEW g \in Others(o)
               PROVE  /\ T[g].commit <= T[o].commit
                      /\ T[g].commit > 0 => T[g].commit < Len(T[g].log)
    BY DEF OthersCommitLags
  <2>1. CASE g = f
    BY <2>1, <1>1, <1>3, <1>6, <1>7
  <2>2. CASE g # f
    BY <2>2, <1>6, CoreFacts DEF Core, OthersCommitLags
  <2> QED BY <2>1, <2>2
<1>16. Lacking(T, N, o) \subseteq Lacking(S, M, o)
  <2> SUFFICES ASSUME NEW r \in Replica, Lacks(r, T, N, o)
               PROVE  Lacks(r, S, M, o)
    BY DEF Lacking
  <2>1. Len(S[r].log) <= Len(T[r].log) /\ Len(S[r].log) \in Nat
        /\ Len(T[r].log) \in Nat
    <3>1. T[r].log \in Seq(E)
      BY <1>6 DEF StateOf
    <3> QED BY <3>1, <1>9, CoreFacts DEF Grown, IsPrefixOf
  <2>2. CASE \E i \in Nat : <<i, r>> \in T[o].votes.records
                            /\ i > Len(T[r].log)
    BY <2>1, <2>2, <1>6 DEF Lacks
  <2>3. CASE \E x \in N : /\ x.type = "append_reply" /\ x.from = r
                          /\ x.index > Len(T[r].log)
    <3> PICK x \in N : /\ x.type = "append_reply" /\ x.from = r
                       /\ x.index > Len(T[r].log)
      BY <2>3
    <3>1. x \notin h.out
      <4> SUFFICES ASSUME x \in h.out PROVE FALSE
        OBVIOUS
      <4>1. x.from = f /\ x.index = Len(h.smr.log)
        BY <1>7
      <4> QED BY <4>1, <1>6, <1>8
    <3>2. x \in M /\ x.index \in Nat
      BY <3>1, <1>6, MessageFacts
    <3> QED BY <3>2, <2>1 DEF Lacks
  <2> QED BY <2>2, <2>3 DEF Lacks
<1>17. Core(T, N, o, E)
  BY <1>10, <1>11, <1>12, <1>13, <1>14, <1>15 DEF Core
<1>18. GoodStep(h, S, M, T, N, o, E)
  BY <1>7, <1>9, <1>16, <1>17 DEF GoodStep
<1> QED BY <1>4, <1>18 DEF T, N, h, s, f, L

\* o, handling a truthful reply, counts a vote for an index of its log, and
\* hands over for applying exactly the entries its commit index passes.
LEMMA ReplyKeepsCore ==
  ASSUME NEW E, EntrySet(E), NEW S, NEW M, NEW o \in Replica, Core(S, M, o, E),
         NEW m \in M, m.type = "append_reply"
  PROVE  LET h == HandleAppendEntriesReply(S[o], o, m) IN
           /\ m.to = o
           /\ GoodStep(h, S, M, [S EXCEPT ![o] = h.smr], M, o, E)
           /\ CountsVote(h, S[o], m, E)
<1> DEFINE s == S[o]
           h == HandleAppendEntriesReply(s, o, m)
           T == [S EXCEPT ![o] = h.smr]
<1>1. /\ m \in Replies /\ m.to = o /\ m.from \in Others(o)
      /\ m.from \in Replica /\ m.index \in Nat /\ m.index <= Len(s.log)
  <2>1. ReplyTrue(m, S, o) /\ m \in Replies /\ m.index \in Nat
    BY MessageFacts
  <2> QED BY <2>1, CoreFacts DEF ReplyTrue
<1>2. /\ s \in StateOf(E) /\ WellFormed(s.log) /\ CompleteHasQuorum(s.votes)
      /\ s.log \in Seq(E) /\ Len(s.log) \in Nat /\ s.commit \in Nat
      /\ s.commit <= Len(s.log)
  BY CoreFacts DEF Core, CommitIsComplete
<1>3. CountsVote(h, s, m, E)
  <2> HIDE DEF s
  <2> QED BY <1>1, <1>2, ReplyFacts
<1> HIDE DEF h
<1>4. /\ T[o] = h.smr /\ \A r \in Replica : r # o => T[r] = S[r]
      /\ \A f \in Others(o) : T[f] = S[f]
      /\ T \in [Replica -> StateOf(E)] /\ s = S[o]
  BY <1>3, CoreFacts DEF Core, Typed, CountsVote
<1> HIDE DEF T, s
<1>5. /\ h.abort = FALSE
      /\ h.smr \in StateOf(E)
      /\ h.smr.log = s.log
      /\ h.smr.commit >= s.commit
      /\ h.smr.commit <= Len(s.log)
      /\ h.smr.commit = s.commit \/ h.smr.commit \in h.smr.votes.complete
      /\ CompleteHasQuorum(h.smr.votes)
      /\ s.votes.complete \subseteq h.smr.votes.complete
      /\ h.smr.votes.records \subseteq
           s.votes.records \cup {<<m.index, m.from>>}
  BY <1>3 DEF CountsVote
<1>6. h.smr.commit \in Nat
  BY <1>5 DEF StateOf
<1>7. \A r \in Replica : T[r].log = S[r].log
  BY <1>4, <1>5
<1>8. Typed(T, M, E) /\ LogsWellFormed(T) /\ OthersHavePrefixes(T, o)
  BY <1>4, <1>5, <1>7, CoreFacts
     DEF Core, Typed, LogsWellFormed, OthersHavePrefixes
<1>9. Grown(S, T)
  <2> SUFFICES ASSUME NEW r \in Replica
               PROVE  IsPrefixOf(S[r].log, T[r].log) /\ S[r].commit <= T[r].commit
    BY DEF Grown
  <2>1. IsPrefixOf(S[r].log, T[r].log)
    BY <1>7, CoreFacts DEF IsPrefixOf
  <2>2. S[r].commit <= T[r].commit
    BY <1>2, <1>4, <1>5, <1>6, CoreFacts
  <2> QED BY <2>1, <2>2
<1>10. MessagesTrue(T, M, o)
  <2> SUFFICES ASSUME NEW x \in M
               PROVE  /\ x.type = "append" => AppendTrue(x, T, o)
                      /\ x.type = "append_reply" => ReplyTrue(x, T, o)
    BY DEF MessagesTrue
  <2>1. CASE x.type = "append"
    <3>1. AppendTrue(x, S, o) /\ x.commit \in Nat
      BY <2>1, MessageFacts
    <3>2. x.commit <= h.smr.commit
      BY <3>1, <1>2, <1>4, <1>5, <1>6 DEF AppendTrue
    <3> QED BY <2>1, <3>1, <3>2, <1>4, <1>7 DEF AppendTrue
  <2>2. CASE x.type = "append_reply"
    BY <2>2, <1>7 DEF Core, MessagesTrue, ReplyTrue
  <2> QED BY <2>1, <2>2, MessageFacts
<1>11. VotesInLog(T, o)
  <2> SUFFICES ASSUME NEW i \in Nat, NEW r \in Replica,
                      <<i, r>> \in h.smr.votes.records
               PROVE  i <= Len(s.log)
    BY <1>4, <1>5 DEF VotesInLog
  <2>1. <<i, r>> \in s.votes.records => i <= Len(s.log)
    BY <1>4 DEF Core, VotesInLog
  <2> QED BY <2>1, <1>1, <1>5
<1>12. CommitIsComplete(T, o) /\ CompleteHasQuorum(T[o].votes)
  <2>1. s.commit = 0 \/ s.commit \in s.votes.complete
    BY <1>4 DEF Core, CommitIsComplete
  <2> QED BY <2>1, <1>4, <1>5 DEF CommitIsComplete
<1>13. OthersCommitLags(T, o)
  <2> SUFFICES ASSUME NEW g \in Others(o)
               PROVE  /\ S[g].commit <= h.smr.commit
                      /\ S[g].commit > 0 => S[g].commit < Len(S[g].log)
    BY <1>4 DEF OthersCommitLags
  <2>1. /\ S[g].commit <= s.commit /\ S[g].commit \in Nat
        /\ S[g].commit > 0 => S[g].commit < Len(S[g].log)
    BY <1>4, CoreFacts DEF Core, OthersCommitLags
  <2> QED BY <2>1, <1>2, <1>5, <1>6
<1>14. Lacking(T, M, o) \subseteq Lacking(S, M, o)
  <2> SUFFICES ASSUME NEW r \in Replica, Lacks(r, T, M, o)
               PROVE  Lacks(r, S, M, o)
    BY DEF Lacking
  <2>1. CASE \E i \in Nat : <<i, r>> \in T[o].votes.records
                            /\ i > Len(T[r].log)
    <3> PICK i \in Nat : <<i, r>> \in T[o].votes.records /\ i > Len(T[r].log)
      BY <2>1
    <3>1. i > Len(S[r].log)
      BY <1>7
    <3>2. CASE <<i, r>> \in s.votes.records
      BY <3>1, <3>2, <1>4 DEF Lacks
    <3>3. CASE <<i, r>> = <<m.index, m.from>>
      BY <3>1, <3>3 DEF Lacks
    <3> QED BY <3>2, <3>3, <1>4, <1>5
  <2>2. CASE \E x \in M : /\ x.type = "append_reply" /\ x.from = r
                          /\ x.index > Len(T[r].log)
    BY <2>2, <1>7 DEF Lacks
  <2> QED BY <2>1, <2>2 DEF Lacks
<1>15. Core(T, M, o, E)
  BY <1>8, <1>10, <1>11, <1>12, <1>13 DEF Core
<1>16. GoodStep(h, S, M, T, M, o, E)
  BY <1>5, <1>9, <1>14, <1>15 DEF GoodStep
<1> QED BY <1>1, <1>3, <1>16 DEF T, h, s

\* A group starts sound: nothing is logged, sent or voted for.
LEMMA CoreInit ==
  ASSUME NEW E, NEW S, S = [r \in Replica |-> InitSMR], NEW o \in Replica
  PROVE  Core(S, {}, o, E) /\ Lacking(S, {}, o) = {}
<1>1. /\ InitSMR \in StateOf(E) /\ InitSMR.log = <<>> /\ InitSMR.commit = 0
      /\ InitSMR.votes = [records |-> {}, complete |-> {}]
  BY DEF InitSMR, StateOf, VoteState, NoVotes, NoPeerStatus
<1>2. \A r \in Replica : S[r] = InitSMR
  OBVIOUS
<1>3. \A f \in Others(o) : f \in Replica
  BY DEF Others
<1>4. Typed(S, {}, E)
  BY <1>1 DEF Typed
<1>5. LogsWellFormed(S) /\ OthersHavePrefixes(S, o)
  BY <1>1, <1>2, <1>3
     DEF LogsWellFormed, WellFormed, OthersHavePrefixes, IsPrefixOf
<1>6. /\ MessagesTrue(S, {}, o) /\ VotesInLog(S, o)
      /\ CompleteHasQuorum(S[o].votes) /\ CommitIsComplete(S, o)
      /\ OthersCommitLags(S, o)
  BY <1>1, <1>2, <1>3 DEF MessagesTrue, VotesInLog, CompleteHasQuorum,
                          CommitIsComplete, OthersCommitLags
<1>7. Lacking(S, {}, o) = {}
  <2> SUFFICES ASSUME NEW r \in Replica, Lacks(r, S, {}, o) PROVE FALSE
    BY DEF Lacking
  <2>1. S[o].votes.records = {}
    BY <1>1, <1>2
  <2> QED BY <2>1 DEF Lacks
<1> QED BY <1>4, <1>5, <1>6, <1>7 DEF Core

\* Behind o's commit index stands a quorum: those of it that still hold what
\* they voted for hold everything up to that index.
LEMMA CommitHasVoters ==
  ASSUME NEW E, NEW S, NEW M, NEW o \in Replica, Core(S, M, o, E),
         S[o].commit > 0
  PROVE  \E Q \in SUBSET Replica :
           /\ Cardinality(Q) = Quorum
           /\ \A r \in Q \ Lacking(S, M, o) : \A i \in 1..S[o].commit :
                i <= Len(S[r].log) /\ S[r].log[i] = S[o].log[i]
<1> DEFINE c == S[o].commit
           Q == Voters(S[o].votes.records, c)
<1>1. c \in Nat /\ c \in S[o].votes.complete /\ c <= Len(S[o].log)
  BY CoreFacts DEF Core, CommitIsComplete
<1>2. Q \in SUBSET Replica /\ Cardinality(Q) = Quorum
  BY <1>1 DEF Core, CompleteHasQuorum, Voters
<1>3. ASSUME NEW r \in Q \ Lacking(S, M, o), NEW i \in 1..c
      PROVE  i <= Len(S[r].log) /\ S[r].log[i] = S[o].log[i]
  <2>1. r \in Replica /\ <<c, r>> \in S[o].votes.records
    BY DEF Voters
  <2>2. ~(c > Len(S[r].log)) /\ Len(S[r].log) \in Nat
    BY <2>1, <1>1, CoreFacts DEF Lacking, Lacks
  <2>3. i \in 1..Len(S[r].log)
    BY <2>2, <1>1
  <2>4. r # o => IsPrefixOf(S[r].log, S[o].log)
    BY <2>1, CoreFacts DEF Core, OthersHavePrefixes
  <2> QED BY <2>3, <2>4 DEF IsPrefixOf
<1> HIDE DEF Q
<1> QED BY <1>2, <1>3
-----------------------------------------------------------------------------
(* Handler calls with any message of the right type, the truth or not: what *)
(* is left where two replicas take operations of one group                  *)

\* An entry of E with another index is in E.
IndexFree(E) ==
  \A e \in E, i \in Nat \ {0} :
    [epoch |-> e.epoch, index |-> i, data |-> e.data] \in E

\* A set of numbers has a least one, and one with a bound has a greatest one.
LEMMA LeastOfSet ==
  ASSUME NEW A \in SUBSET Nat, A # {}
  PROVE  \E x \in A : \A y \in A : x <= y
<1>1. PICK x \in A : \A y \in A : <<y, x>> \notin OpToRel(<, Nat)
  BY NatLessThanWellFounded, WFMin
<1>2. \A y \in A : ~(y < x)
  BY <1>1 DEF OpToRel
<1> QED BY <1>2

LEMMA GreatestOfSet ==
  ASSUME NEW n \in Nat, NEW A \in SUBSET (1..n), A # {}
  PROVE  \E x \in A : \A y \in A : y <= x
<1> DEFINE B == {n - x : x \in A}
<1>1. B \in SUBSET Nat /\ B # {}
  <2>1. PICK x \in A : TRUE
    OBVIOUS
  <2>2. n - x \in B
    BY <2>1
  <2>3. \A y \in A : n - y \in Nat
    OBVIOUS
  <2> QED BY <2>2, <2>3
<1> HIDE DEF B
<1>2. PICK b \in B : \A c \in B : b <= c
  BY <1>1, LeastOfSet
<1>3. PICK x \in A : b = n - x
  BY DEF B
<1>4. ASSUME NEW y \in A PROVE y <= x
  <2>1. n - y \in B
    BY DEF B
  <2> QED BY <2>1, <1>2, <1>3
<1> QED BY <1>4

\* append(e) numbers the entries it adds.
LEMMA AppendAllTyped ==
  ASSUME NEW E, IndexFree(E), NEW log \in Seq(E), WellFormed(log),
         NEW es \in Seq(E)
  PROVE  /\ AppendAll(log, es) \in Seq(E) /\ WellFormed(AppendAll(log, es))
         /\ Len(AppendAll(log, es)) = Len(log) + Len(es)
<1> DEFINE n == Len(log)
           new == [k \in 1..Len(es) |-> [epoch |-> es[k].epoch,
                                         index |-> n + k,
                                         data  |-> es[k].data]]
<1>1. n \in Nat /\ LastIndex(log) = n /\ Len(es) \in Nat
  BY LastIndexIsLen
<1>2. AppendAll(log, es) = log \o new
  BY <1>1 DEF AppendAll
<1>3. new \in Seq(E) /\ Len(new) = Len(es)
  <2>1. ASSUME NEW k \in 1..Len(es) PROVE new[k] \in E
    <3>1. es[k] \in E /\ n + k \in Nat \ {0}
      BY <1>1, ElementOfSeq
    <3> QED BY <3>1 DEF IndexFree
  <2> QED BY <2>1, <1>1
<1>4. \A k \in 1..Len(es) : new[k].index = n + k
  OBVIOUS
<1> DEFINE t == log \o new
           len == n + Len(new)
<1> HIDE DEF new
<1>5. /\ t \in Seq(E) /\ Len(t) = len
      /\ \A i \in 1..len : t[i] = IF i <= n THEN log[i] ELSE new[i - n]
  BY <1>3, ConcatProperties
<1>6. n \in Nat /\ len \in Nat /\ len = n + Len(es)
  BY <1>1, <1>3
<1>7. \A i \in 1..n : log[i].index = i
  BY DEF WellFormed
<1> HIDE DEF t, len, n
<1>8. ASSUME NEW i \in 1..len PROVE t[i].index = i
  <2>1. CASE i <= n
    BY <2>1, <1>5, <1>6, <1>7
  <2>2. CASE i > n
    <3>1. i - n \in 1..Len(es) /\ n + (i - n) = i
      BY <2>2, <1>1, <1>6
    <3>2. t[i] = new[i - n]
      BY <2>2, <1>5, <1>6
    <3> QED BY <3>1, <3>2, <1>4
  <2> QED BY <2>1, <2>2, <1>6
<1> QED BY <1>2, <1>5, <1>6, <1>8 DEF WellFormed, t, n

\* A log that is cut is a log.
LEMMA TruncateTyped ==
  ASSUME NEW E, NEW log \in Seq(E), WellFormed(log), NEW t \in Nat \ {0}
  PROVE  /\ Truncate(log, t) \in Seq(E) /\ WellFormed(Truncate(log, t))
         /\ t <= Len(log) => Len(Truncate(log, t)) = t - 1
<1>1. CASE t > Len(log)
  BY <1>1 DEF Truncate
<1>2. CASE ~(t > Len(log))
  <2> DEFINE q == SubSeq(log, 1, t - 1)
  <2>1. t - 1 \in 0..Len(log)
    BY <1>2
  <2>2. /\ q \in Seq(E) /\ Len(q) = t - 1
        /\ \A i \in 1..(t - 1) : q[i] = log[i]
    BY <2>1
  <2>3. Truncate(log, t) = q
    BY <1>2 DEF Truncate
  <2> HIDE DEF q
  <2>4. \A i \in 1..(t - 1) : i \in 1..Len(log)
    BY <2>1
  <2> QED BY <2>2, <2>3, <2>4 DEF WellFormed
<1> QED BY <1>1, <1>2

\* handle_append_entries keeps the types, whatever the message says.
LEMMA AppendTyped ==
  ASSUME NEW E, EntrySet(E), IndexFree(E), NEW s \in StateOf(E),
         WellFormed(s.log), NEW f \in Replica, NEW m \in AppendOf(E)
  PROVE  LET h == HandleAppendEntries(s, f, m) IN
           /\ h.smr \in StateOf(E) /\ WellFormed(h.smr.log)
           /\ h.smr.votes = s.votes
           /\ \A n \in h.out : n \in Replies /\ n.from = f /\ n.to = m.from
<1> DEFINE log == IF Safe(s.log, m) THEN AfterEntries(s.log, m) ELSE s.log
           commit == IF Safe(s.log, m) THEN LearnedCommit(log, s.commit, m)
                                       ELSE s.commit
           h == HandleAppendEntries(s, f, m)
           es == m.entries
<1>1. /\ s.log \in Seq(E) /\ s.commit \in Nat /\ es \in Seq(E)
      /\ m.commit \in Nat /\ m.from \in Replica
      /\ s.votes \in VoteState /\ s.prs \in [Replica -> [match : Nat, next : Nat]]
  BY DEF StateOf, AppendOf
<1>2. AfterStaleEntries(s.log, es) \in Seq(E)
      /\ WellFormed(AfterStaleEntries(s.log, es))
  <2> DEFINE bad == {k \in DOMAIN es : Mismatch(s.log, es[k])}
  <2>1. CASE bad = {}
    BY <2>1, <1>1 DEF AfterStaleEntries
  <2>2. CASE bad # {}
    <3> DEFINE k == CHOOSE k \in bad : \A j \in bad : k <= j
               rest == [j \in 1..(Len(es) - k + 1) |-> es[k]]
    <3>1. \E x \in bad : \A j \in bad : x <= j
      <4>1. bad \in SUBSET Nat
        BY <1>1
      <4> HIDE DEF bad
      <4> QED BY <4>1, <2>2, LeastOfSet
    <3>2. k \in bad
      BY <3>1
    <3>3. k \in 1..Len(es) /\ es[k] \in E /\ es[k].index \in Nat \ {0}
      <4>1. k \in 1..Len(es)
        BY <3>2, <1>1
      <4> QED BY <4>1, <1>1, ElementOfSeq DEF EntrySet
    <3>4. AfterStaleEntries(s.log, es)
            = AppendAll(Truncate(s.log, es[k].index), rest)
      BY <2>2 DEF AfterStaleEntries
    <3> HIDE DEF k, bad
    <3>5. rest \in Seq(E)
      BY <3>3, <1>1
    <3> HIDE DEF rest
    <3>6. /\ Truncate(s.log, es[k].index) \in Seq(E)
          /\ WellFormed(Truncate(s.log, es[k].index))
      BY <3>3, <1>1, TruncateTyped
    <3> QED BY <3>4, <3>5, <3>6, AppendAllTyped
  <2> QED BY <2>1, <2>2
<1>3. log \in Seq(E) /\ WellFormed(log)
  BY <1>1, <1>2, AppendAllTyped DEF AfterEntries
<1>4. h.smr = [log |-> log, commit |-> commit, votes |-> s.votes,
               prs |-> s.prs]
  BY DEF HandleAppendEntries
<1>5. h.out = {AppendReply(log, f, m.from, Safe(s.log, m))}
  BY DEF HandleAppendEntries
<1> HIDE DEF log, h
<1>6. LastIndex(log) \in Nat
  BY <1>3, LastIndexIsLen
<1>7. commit \in Nat
  BY <1>1, <1>6 DEF LearnedCommit, CommitTo, CommitMoves
<1>8. Safe(s.log, m) \in BOOLEAN
  BY DEF Safe
<1> HIDE DEF commit
<1>9. \A n \in h.out : n \in Replies /\ n.from = f /\ n.to = m.from
  BY <1>1, <1>5, <1>6, <1>8 DEF AppendReply, Replies
<1>10. h.smr \in StateOf(E) /\ WellFormed(h.smr.log) /\ h.smr.votes = s.votes
  BY <1>1, <1>3, <1>4, <1>7 DEF StateOf
<1> QED BY <1>9, <1>10 DEF h

\* An append message with one entry makes a log longer by at most the entry,
\* which gets the index it names.
LEMMA AppendLength ==
  ASSUME NEW E, EntrySet(E), IndexFree(E), NEW s \in StateOf(E),
         WellFormed(s.log), NEW f, NEW m \in AppendOf(E),
         Len(m.entries) = 1, m.entries[1].index = m.prev_index + 1
  PROVE  LET h == HandleAppendEntries(s, f, m) IN
           Len(h.smr.log) = Len(s.log) \/ Len(h.smr.log) = m.prev_index + 1
<1> DEFINE es == m.entries
           e == es[1]
           n == Len(s.log)
           h == HandleAppendEntries(s, f, m)
<1>1. /\ s.log \in Seq(E) /\ es \in Seq(E) /\ m.prev_index \in Nat
      /\ n \in Nat /\ LastIndex(s.log) = n /\ e \in E
      /\ DOMAIN es = {1} /\ e.index = m.prev_index + 1
  <2>1. s.log \in Seq(E) /\ es \in Seq(E) /\ m.prev_index \in Nat
    BY DEF StateOf, AppendOf
  <2>2. DOMAIN es = {1}
    BY <2>1
  <2> QED BY <2>1, <2>2, LastIndexIsLen, ElementOfSeq
<1>2. h.smr.log = IF Safe(s.log, m) THEN AfterEntries(s.log, m) ELSE s.log
  BY DEF HandleAppendEntries
<1>3. CASE ~Safe(s.log, m)
  BY <1>2, <1>3
<1>4. CASE Safe(s.log, m) /\ ~Stale(s.log, m)
  <2>1. m.prev_index = n
    BY <1>1, <1>4 DEF Safe, Stale
  <2>2. h.smr.log = AppendAll(s.log, es)
    BY <1>2, <1>4 DEF AfterEntries
  <2>3. Len(AppendAll(s.log, es)) = n + Len(es)
    BY <1>1, AppendAllTyped
  <2> QED BY <2>1, <2>2, <2>3
<1>5. CASE Safe(s.log, m) /\ Stale(s.log, m)
  <2>1. m.prev_index < n
    BY <1>1, <1>5 DEF Stale
  <2>2. h.smr.log = AfterStaleEntries(s.log, es)
    BY <1>2, <1>5 DEF AfterEntries
  <2>3. CASE ~Mismatch(s.log, e)
    <3>1. {k \in DOMAIN es : Mismatch(s.log, es[k])} = {}
      BY <1>1, <2>3
    <3> QED BY <2>2, <3>1 DEF AfterStaleEntries
  <2>4. CASE Mismatch(s.log, e)
    <3> DEFINE bad == {k \in DOMAIN es : Mismatch(s.log, es[k])}
               k == CHOOSE k \in bad : \A j \in bad : k <= j
               rest == [j \in 1..(Len(es) - k + 1) |-> es[k]]
               cut == Truncate(s.log, es[k].index)
    <3>1. bad = {1} /\ k = 1
      BY <1>1, <2>4
    <3>2. AfterStaleEntries(s.log, es) = AppendAll(cut, rest)
      BY <3>1 DEF AfterStaleEntries
    <3>3. rest \in Seq(E) /\ Len(rest) = 1
      BY <1>1, <3>1
    <3>4. /\ cut \in Seq(E) /\ WellFormed(cut) /\ Len(cut) = m.prev_index
      <4>1. es[k].index \in Nat \ {0} /\ es[k].index <= n
        BY <1>1, <2>1, <3>1
      <4> QED BY <1>1, <3>1, <4>1, TruncateTyped
    <3> HIDE DEF cut, rest
    <3>5. Len(AppendAll(cut, rest)) = Len(cut) + Len(rest)
      BY <3>3, <3>4, AppendAllTyped
    <3> QED BY <2>2, <3>2, <3>3, <3>4, <3>5
  <2> QED BY <2>3, <2>4
<1> QED BY <1>3, <1>4, <1>5

\* So does handle_append_entries_reply.
LEMMA ReplyTyped ==
  ASSUME NEW E, NEW s \in StateOf(E), WellFormed(s.log),
         CompleteHasQuorum(s.votes), NEW f, NEW m \in Replies
  PROVE  LET h == HandleAppendEntriesReply(s, f, m) IN
           /\ h.smr \in StateOf(E) /\ h.smr.log = s.log
           /\ CompleteHasQuorum(h.smr.votes) /\ h.out = {}
           /\ h.abort = FALSE =>
                /\ h.apply \in Seq(E)
                /\ \A i \in DOMAIN h.apply : h.apply[i].index \in 1..Len(s.log)
<1> DEFINE h == HandleAppendEntriesReply(s, f, m)
           completes == m.success /\ VoteCompletes(s.votes, m.from, m.index)
           commit == IF completes THEN CommitTo(s.commit, m.index)
                                  ELSE s.commit
           votes == IF m.success THEN AfterVote(s.votes, m.from, m.index)
                                 ELSE s.votes
<1>1. /\ s.log \in Seq(E) /\ s.commit \in Nat /\ s.votes \in VoteState
      /\ m.index \in Nat /\ m.from \in Replica /\ Len(s.log) \in Nat
      /\ s.prs \in [Replica -> [match : Nat, next : Nat]]
  BY DEF StateOf, Replies
<1>2. votes \in VoteState /\ CompleteHasQuorum(votes)
  BY <1>1, VoteFacts
<1>3. commit \in Nat
  BY <1>1 DEF CommitTo, CommitMoves
<1>4. h.smr = [log |-> s.log, commit |-> commit, votes |-> votes,
               prs |-> s.prs]
  BY DEF HandleAppendEntriesReply
<1>5. h.out = {}
  BY DEF HandleAppendEntriesReply
<1>6. h.abort = FALSE =>
        /\ h.apply \in Seq(E)
        /\ \A i \in DOMAIN h.apply : h.apply[i].index \in 1..Len(s.log)
  <2> DEFINE part == SubSeq(s.log, s.commit + 1, m.index)
  <2>1. h.apply = IF completes /\ ~CommitAborts(s.log, m.index)
                     /\ CommitMoves(s.commit, m.index)
                    THEN part ELSE <<>>
    BY DEF HandleAppendEntriesReply, NewlyCommitted, PartEntries
  <2>2. ~CommitAborts(s.log, m.index) => m.index <= Len(s.log)
    BY <1>1, LastIndexIsLen DEF CommitAborts
  <2>3. ASSUME m.index <= Len(s.log)
        PROVE  /\ part \in Seq(E)
               /\ \A i \in DOMAIN part : part[i].index \in 1..Len(s.log)
    <3>1. \A i \in (s.commit + 1)..m.index :
            i \in 1..Len(s.log) /\ s.log[i] \in E /\ s.log[i].index = i
      BY <1>1, <2>3, ElementOfSeq DEF WellFormed
    <3> DEFINE first == s.commit + 1
               last == m.index
    <3>2. first \in Int /\ last \in Int /\ \A i \in first..last : s.log[i] \in E
      BY <3>1, <1>1
    <3>3. /\ part \in Seq(E)
          /\ Len(part) = IF first <= last THEN last - first + 1 ELSE 0
          /\ \A i \in 1..(last - first + 1) : part[i] = s.log[first + i - 1]
      <4> HIDE DEF first, last
      <4>1. /\ SubSeq(s.log, first, last) \in Seq(E)
            /\ Len(SubSeq(s.log, first, last))
                 = IF first <= last THEN last - first + 1 ELSE 0
            /\ \A i \in 1..(last - first + 1) :
                 SubSeq(s.log, first, last)[i] = s.log[first + i - 1]
        BY <3>2, SubSeqProperties
      <4> QED BY <4>1 DEF first, last
    <3> HIDE DEF part
    <3>4. ASSUME NEW i \in DOMAIN part PROVE part[i].index \in 1..Len(s.log)
      <4>1. i \in 1..(last - first + 1) /\ first + i - 1 \in first..last
        BY <3>3, <1>1
      <4> QED BY <4>1, <3>1, <3>3
    <3> QED BY <3>3, <3>4
  <2> HIDE DEF h, completes, part
  <2> QED BY <2>1, <2>2, <2>3
<1> HIDE DEF h, commit, votes
<1>7. h.smr \in StateOf(E) /\ h.smr.log = s.log /\ CompleteHasQuorum(h.smr.votes)
  BY <1>1, <1>2, <1>3, <1>4 DEF StateOf
<1> QED BY <1>5, <1>6, <1>7 DEF h
=============================================================================
