----------------------------- MODULE SMRHandlers -----------------------------
(***************************************************************************)
(* The handlers of class SMR (core/smr.cpp).  The state of one SMR object  *)
(* is a record [log, commit, votes, prs]; a handler maps the state and its *)
(* input to a result:                                                      *)
(*   smr    the state afterwards,                                          *)
(*   out    the messages given to the m_cb send callbacks,                 *)
(*   apply  the entries given to m_cb.notify_apply,                        *)
(*   abort  whether the handler ends in ABORT_F.                           *)
(* Messages carry no epoch: Morphling stamps every one of them with the    *)
(* guidance epoch, which is 1 on all replicas and never changes.           *)
(***************************************************************************)
EXTENDS SMRLog, EntryVoteRecord

NoPeerStatus == [match |-> 0, next |-> 0]

\* The constructor and SMR::init
InitSMR ==
  [log |-> <<>>, commit |-> 0, votes |-> NoVotes,
   prs |-> [p \in Replica |-> NoPeerStatus]]

\* send_append_entries(to), with the tail of the log from prs[to].next on
\* (variant: announces the new entry itself as committed)
EagerCommitMessage(s, me, to) ==
  LET next == s.prs[to].next IN
  [type |-> "append", from |-> me, to |-> to,
   prev_term  |-> EntryAt(s.log, next - 1).epoch,
   prev_index |-> next - 1,
   commit     |-> LastIndex(s.log),
   entries    |-> TailEntries(s.log, next)]
AppendMessage(s, me, to) ==
  LET next == s.prs[to].next IN
  [type |-> "append", from |-> me, to |-> to,
   prev_term  |-> EntryAt(s.log, next - 1).epoch,
   prev_index |-> next - 1,
   commit     |-> s.commit,
   entries    |-> TailEntries(s.log, next)]

\* entry_at and get_tail_entries may abort it.
SendAborts(s, to) ==
  LET next == s.prs[to].next
  IN EntryAtAborts(s.log, next - 1) \/ TailAborts(s.log, next)

\* handle_operation: append, vote for it, point every peer at the new entry.
\* The result of the own vote is ignored by the code.
\* (Variant: points every peer at the first entry.)
AfterOperationResending(s, me, op, epoch) ==
  LET log == AppendAs(s.log, op, epoch)
      i   == LastIndex(log)
  IN [log    |-> log,
      commit |-> s.commit,
      votes  |-> AfterVote(s.votes, me, i),
      prs    |-> [p \in Replica |->
                    IF p = me THEN [match |-> i, next |-> i + 1]
                              ELSE [match |-> s.prs[p].match, next |-> 1]]]
AfterOperation(s, me, op, epoch) ==
  LET log == AppendAs(s.log, op, epoch)
      i   == LastIndex(log)
  IN [log    |-> log,
      commit |-> s.commit,
      votes  |-> AfterVote(s.votes, me, i),
      prs    |-> [p \in Replica |->
                    IF p = me THEN [match |-> i, next |-> i + 1]
                              ELSE [match |-> s.prs[p].match, next |-> i]]]

HandleOperation(s, me, op, epoch) ==
  LET t == AfterOperation(s, me, op, epoch)
  IN [smr   |-> t,
      out   |-> {AppendMessage(t, me, p) : p \in Replica \ {me}},
      apply |-> <<>>,
      abort |-> \E p \in Replica \ {me} : SendAborts(t, p)]

\* check_safety: the entry before the new ones is in the log, same epoch.
\* (Variants: a message beyond the end of the log is safe, too; a message for
\* the end of the log is not.)
SafeWithoutGapCheck(log, m) ==
  \/ m.prev_index > LastIndex(log)
  \/ EntryAt(log, m.prev_index).epoch = m.prev_term
SafeBeforeEnd(log, m) ==
  /\ m.prev_index < LastIndex(log)
  /\ EntryAt(log, m.prev_index).epoch = m.prev_term
Safe(log, m) ==
  /\ m.prev_index <= LastIndex(log)
  /\ EntryAt(log, m.prev_index).epoch = m.prev_term
Stale(log, m) == m.prev_index < LastIndex(log)

\* handle_stale_entries: from the first entry that does not match, the log is
\* cut and that one entry is appended once for each entry left.
\* (Variant: every entry counts as a mismatch.)
AlwaysMismatch(log, e) == TRUE
Mismatch(log, e) ==
  \/ e.index > LastIndex(log)
  \/ EntryAt(log, e.index).epoch # e.epoch

StaleAborts(log, es) ==
  \E k \in DOMAIN es :
    /\ \/ EntryAtAborts(log, es[k].index)
       \/ Mismatch(log, es[k]) /\ PosAborts(es[k].index)
    /\ \A j \in 1..(k-1) : ~Mismatch(log, es[j])

AfterStaleEntries(log, es) ==
  LET bad == {k \in DOMAIN es : Mismatch(log, es[k])}
  IN IF bad = {}
       THEN log
       ELSE LET k == CHOOSE k \in bad : \A j \in bad : k <= j
            IN AppendAll(Truncate(log, es[k].index),
                         [j \in 1..(Len(es) - k + 1) |-> es[k]])

AfterEntries(log, m) ==
  IF Stale(log, m) THEN AfterStaleEntries(log, m.entries)
                   ELSE AppendAll(log, m.entries)

\* The commit index a follower takes from a message: min(msg.commit, last)
LearnedCommit(log, commit, m) ==
  IF m.commit <= commit THEN commit
  ELSE CommitTo(commit, IF m.commit < LastIndex(log) THEN m.commit
                                                     ELSE LastIndex(log))

\* The reply handle_append_entries sends (variant: names the next index)
NextIndexReply(log, me, to, success) ==
  [type |-> "append_reply", from |-> me, to |-> to,
   success |-> success, index |-> LastIndex(log) + 1]
AppendReply(log, me, to, success) ==
  [type |-> "append_reply", from |-> me, to |-> to,
   success |-> success, index |-> LastIndex(log)]

\* handle_append_entries
HandleAppendEntries(s, me, m) ==
  LET safe == Safe(s.log, m)
      log  == IF safe THEN AfterEntries(s.log, m) ELSE s.log
  IN [smr   |-> [log    |-> log,
                 commit |-> IF safe THEN LearnedCommit(log, s.commit, m)
                                    ELSE s.commit,
                 votes  |-> s.votes,
                 prs    |-> s.prs],
      out   |-> {AppendReply(log, me, m.from, safe)},
      apply |-> <<>>,
      abort |-> safe /\ Stale(s.log, m) /\ StaleAborts(s.log, m.entries)]

\* The entries handed to notify_apply when the commit index moves to i
\* (variants: the entry of index i alone; all but the entry of index i)
OnlyVotedEntry(s, i) == PartEntries(s.log, i, i)
AllButVotedEntry(s, i) == PartEntries(s.log, s.commit + 1, i - 1)
NewlyCommitted(s, i) == PartEntries(s.log, s.commit + 1, i)

\* handle_append_entries_reply: a refusal is ignored ("tbd"), a success is a
\* vote, and the vote that completes an index commits up to it and hands the
\* newly committed entries over for applying.
HandleAppendEntriesReply(s, me, m) ==
  LET completes == m.success /\ VoteCompletes(s.votes, m.from, m.index)
      commits   == completes /\ ~CommitAborts(s.log, m.index)
      moves     == commits /\ CommitMoves(s.commit, m.index)
  IN [smr   |-> [log    |-> s.log,
                 commit |-> IF completes THEN CommitTo(s.commit, m.index)
                                         ELSE s.commit,
                 votes  |-> IF m.success
                              THEN AfterVote(s.votes, m.from, m.index)
                              ELSE s.votes,
                 prs    |-> s.prs],
      out   |-> {},
      apply |-> IF moves THEN NewlyCommitted(s, m.index) ELSE <<>>,
      abort |-> \/ completes /\ ~commits
                \/ moves /\ PartAborts(s.commit + 1, m.index)]
=============================================================================
