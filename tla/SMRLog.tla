------------------------------- MODULE SMRLog -------------------------------
(***************************************************************************)
(* The replicated log of one SMR group (class SMRLog, core/smr.cpp) as     *)
(* operators on sequences of entries.  The dummy entry in front of the     *)
(* vector keeps epoch 0 and index 0 for ever (nothing assigns it), so the  *)
(* entry of index i is log[i].  An operator whose C++ method can reach     *)
(* ABORT_F comes with a predicate saying when it does.                     *)
(*                                                                         *)
(* The vector is reserved for 1,000,000 entries; append reads a dangling   *)
(* reference if a push reallocates it (the "caveat" comment).  Logs here   *)
(* stay below that capacity.                                               *)
(*                                                                         *)
(* In this and the other modules a few definitions are preceded by a       *)
(* faulty variant of theirs with the same parameters.  No definition uses  *)
(* a variant; substituted for the definition, it shows that some property  *)
(* would notice the fault.                                                 *)
(***************************************************************************)
EXTENDS Naturals, Sequences

\* m_dummy_entry(0, 0)
Dummy == [epoch |-> 0, index |-> 0]

LastEntry(log) == IF log = <<>> THEN Dummy ELSE log[Len(log)]
LastIndex(log) == LastEntry(log).index

\* entry_pos: the vector has no entry of index 0.
PosAborts(i) == i = 0

\* entry_at; it aborts beyond the end of the log.
EntryAtAborts(log, i) == i > Len(log)
EntryAt(log, i) == IF i = 0 THEN Dummy ELSE log[i]

\* append(e, epoch): the new entry takes the index after the last one.
AppendAs(log, data, epoch) ==
  Append(log, [epoch |-> epoch, index |-> LastIndex(log) + 1, data |-> data])

\* append(e), once for each element of es in turn (variant: the epoch is left
\* as the constructor sets it)
AppendAllWithoutEpoch(log, es) ==
  log \o [k \in 1..Len(es) |-> [epoch |-> 0,
                                index |-> LastIndex(log) + k,
                                data  |-> es[k].data]]
AppendAll(log, es) ==
  log \o [k \in 1..Len(es) |-> [epoch |-> es[k].epoch,
                                index |-> LastIndex(log) + k,
                                data  |-> es[k].data]]

\* truncate(t): drop the entry of index t and everything behind it (variant:
\* keeps the entry of index t)
TruncateKeepsEntry(log, t) == IF t > Len(log) THEN log ELSE SubSeq(log, 1, t)
Truncate(log, t) == IF t > Len(log) THEN log ELSE SubSeq(log, 1, t - 1)

\* get_part_entries(first, last), both ends included, and get_tail_entries;
\* they abort if the ends are out of order.
PartAborts(first, last) == last < first \/ PosAborts(first)
PartEntries(log, first, last) == SubSeq(log, first, last)
TailAborts(log, first) == PartAborts(first, LastIndex(log))
TailEntries(log, first) == PartEntries(log, first, LastIndex(log))

\* commit_to(i): aborts beyond the last entry, otherwise only moves forward.
CommitAborts(log, i) == i > LastIndex(log)
CommitMoves(commit, i) == i > commit
CommitTo(commit, i) == IF CommitMoves(commit, i) THEN i ELSE commit

\* log t starts with log s
IsPrefixOf(s, t) == Len(s) <= Len(t) /\ \A i \in 1..Len(s) : s[i] = t[i]
=============================================================================
