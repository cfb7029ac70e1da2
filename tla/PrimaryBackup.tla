---------------------------- MODULE PrimaryBackup ----------------------------
(***************************************************************************)
(* What one replication group promises, without messages, votes or logs of *)
(* entries.  The primary puts the operations it accepts into one sequence; *)
(* backups copy a prefix of it; an operation is executed, in sequence and  *)
(* once, only when a majority holds it and everything before it; and a     *)
(* backup may know how far the execution has come, but never too much.     *)
(***************************************************************************)
EXTENDS Naturals, Sequences, FiniteSets

CONSTANTS Replica, Primary, Op

VARIABLES
  accepted,  \* the operations in the order the primary accepted them
  stored,    \* stored[r]: how many of them replica r holds
  executed,  \* the operations executed
  known      \* known[r]: how many of them replica r knows to be executed

vars == <<accepted, stored, executed, known>>

IsMajority(Q) == 2 * Cardinality(Q) > Cardinality(Replica)

Init ==
  /\ accepted = <<>>
  /\ stored = [r \in Replica |-> 0]
  /\ executed = <<>>
  /\ known = [r \in Replica |-> 0]

Accept(op) ==
  /\ accepted' = Append(accepted, op)
  /\ stored' = [stored EXCEPT ![Primary] = Len(accepted) + 1]
  /\ UNCHANGED <<executed, known>>

\* Backup b comes to hold the first n operations and to know of k of them.
Copy(b, n, k) ==
  /\ n \in stored[b]..Len(accepted)
  /\ k \in known[b]..Len(executed)
  /\ k <= n
  /\ stored' = [stored EXCEPT ![b] = n]
  /\ known' = [known EXCEPT ![b] = k]
  /\ UNCHANGED <<accepted, executed>>

Execute(n) ==
  /\ n \in (Len(executed) + 1)..Len(accepted)
  /\ \E Q \in SUBSET Replica :
       IsMajority(Q) /\ \A r \in Q : stored[r] >= n
  /\ executed' = SubSeq(accepted, 1, n)
  /\ known' = [known EXCEPT ![Primary] = n]
  /\ UNCHANGED <<accepted, stored>>

Next ==
  \/ \E op \in Op : Accept(op)
  \/ \E b \in Replica \ {Primary}, n \in 0..Len(accepted) :
       \E k \in 0..n : Copy(b, n, k)
  \/ \E n \in 1..Len(accepted) : Execute(n)

Spec == Init /\ [][Next]_vars
=============================================================================
