----------------------------- MODULE SMRRestart -----------------------------
(***************************************************************************)
(* One replication group whose servers crash and are started again.  A     *)
(* server keeps nothing on disk: it comes back with the empty SMR objects  *)
(* its constructor builds and an empty storage, and with the UDP transport *)
(* (app/server2.cpp) it exchanges messages again at once, those sent       *)
(* before the crash included.                                              *)
(***************************************************************************)
EXTENDS SMR

CONSTANTS
  Restartable,  \* the replicas that may restart
  MaxRestarts   \* bound on the restarts of a behaviour

ASSUME RestartAssumption == Restartable \subseteq Replica /\ MaxRestarts \in Nat

VARIABLE restarts

restartVars == <<vars, restarts>>

InitR == Init /\ restarts = 0

Restart(r) ==
  /\ restarts < MaxRestarts
  /\ restarts' = restarts + 1
  /\ smr' = [smr EXCEPT ![r] = InitSMR]
  /\ applied' = [applied EXCEPT ![r] = <<>>]
  /\ aborted' = aborted \ {r}
  /\ UNCHANGED msgs

NextR ==
  \/ Next /\ UNCHANGED restarts
  \/ \E r \in Restartable : Restart(r)

SpecR == InitR /\ [][NextR]_restartVars

-----------------------------------------------------------------------------

Holders(i) ==
  {r \in Replica : i <= Len(smr[r].log) /\ smr[r].log[i] = smr[Owner].log[i]}

\* A restart of a follower costs copies and nothing else.  Its log is still a
\* prefix of the owner's and nobody aborts, although messages to and from its
\* former life arrive; but the votes the owner remembers outlive the logs they
\* spoke for, so that a committed entry may have fewer copies than a majority,
\* by at most the number of restarts.
RestartsCostCopies ==
  /\ FollowerLogIsPrefix /\ NoAbort
  /\ \A i \in 1..smr[Owner].commit :
       2 * (Cardinality(Holders(i)) + restarts) > Cardinality(Replica)

=============================================================================
