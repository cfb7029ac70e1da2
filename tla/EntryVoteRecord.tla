--------------------------- MODULE EntryVoteRecord ---------------------------
(***************************************************************************)
(* The vote record of one SMR group (class EntryVoteRecord, core/smr.cpp): *)
(* m_records is the set of pairs <<index, replica>> whose bit is set,      *)
(* m_entry_complete the set of indices that reached the quorum.            *)
(***************************************************************************)
EXTENDS Naturals, FiniteSets

CONSTANT Replica

\* init: m_quorum = num / 2 + 1 (variant: half of the replicas, rounded up,
\* which is no majority of an even number of them)
HalfOfThem == (Cardinality(Replica) + 1) \div 2
Quorum == Cardinality(Replica) \div 2 + 1

NoVotes == [records |-> {}, complete |-> {}]

Voters(records, i) == {r \in Replica : <<i, r>> \in records}

\* vote(id, i) returns true: i was open and this vote brings it to the quorum.
VoteCompletes(v, id, i) ==
  /\ i \notin v.complete
  /\ Cardinality(Voters(v.records \cup {<<i, id>>}, i)) = Quorum

\* The record after vote(id, i): a complete index takes no further votes.
AfterVote(v, id, i) ==
  IF i \in v.complete
    THEN v
    ELSE [records  |-> v.records \cup {<<i, id>>},
          complete |-> v.complete \cup
                         {j \in {i} : VoteCompletes(v, id, i)}]
=============================================================================
