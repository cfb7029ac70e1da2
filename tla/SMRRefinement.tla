---------------------------- MODULE SMRRefinement ----------------------------
(***************************************************************************)
(* SMR implements PrimaryBackup: the accepted sequence is the owner's log, *)
(* a replica holds as many operations as its log has entries and knows as  *)
(* many as its commit index says, and the executed operations are those of *)
(* the entries the owner was notified to apply.                            *)
(***************************************************************************)
EXTENDS SMR

Operations(log) == [i \in 1..Len(log) |-> log[i].data]

Abstract ==
  INSTANCE PrimaryBackup WITH
    Primary  <- Owner,
    Op       <- Data,
    accepted <- Operations(smr[Owner].log),
    stored   <- [r \in Replica |-> Len(smr[r].log)],
    executed <- Operations(applied[Owner]),
    known    <- [r \in Replica |-> smr[r].commit]

\* Every step of the group, under loss, repetition and reordering of messages,
\* is a step of the promise or leaves it as it is.
ImplementsPrimaryBackup == Abstract!Spec
=============================================================================
