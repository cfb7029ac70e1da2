----------------------------- MODULE MCGuidance -----------------------------
(***************************************************************************)
(* The guidance operators against reference definitions.  A behaviour      *)
(* starts from the guidance every replica builds and calls the setters of  *)
(* NodeStatus in any order; ref holds what each word should stand for.     *)
(***************************************************************************)
EXTENDS Guidance, FiniteSets

CONSTANTS SomePos, MaxSets  \* positions handed to set_pos; bound on its calls

VARIABLES cluster, ref, sets

vars == <<cluster, ref, sets>>

Init ==
  /\ cluster = InitCluster
  /\ ref = [i \in Node |->
              [first |-> FirstPos(i), last |-> LastPos(i), alive |-> TRUE]]
  /\ sets = 0

DoSetPos(i, first, last) ==
  /\ sets < MaxSets
  /\ sets' = sets + 1
  /\ cluster' = [cluster EXCEPT ![i] = SetPos(@, first, last)]
  /\ ref' = [ref EXCEPT ![i].first = first, ![i].last = last]

DoSetAlive(i) ==
  /\ cluster' = [cluster EXCEPT ![i] = SetAlive(@)]
  /\ ref' = [ref EXCEPT ![i].alive = TRUE]
  /\ UNCHANGED sets

DoSetDead(i) ==
  /\ cluster' = [cluster EXCEPT ![i] = SetDead(@)]
  /\ ref' = [ref EXCEPT ![i].alive = FALSE]
  /\ UNCHANGED sets

Next ==
  \E i \in Node :
    \/ \E first, last \in SomePos : DoSetPos(i, first, last)
    \/ DoSetAlive(i)
    \/ DoSetDead(i)

Spec == Init /\ [][Next]_vars

-----------------------------------------------------------------------------

\* Going round the ring of 256 positions from the first one, the positions of
\* a range are the steps up to its last one.
InRange(pos, first, last) ==
  (pos + 256 - first) % 256 <= (last + 256 - first) % 256

\* No setter disturbs what another one set in the same word, and pos_is_in
\* accepts exactly the positions of the ring segment of a node alive, ranges
\* that wrap around position 255 included.
WordsMeanRanges ==
  \A i \in Node, pos \in 0..255 :
    PosIsIn(cluster[i], pos) <=>
      /\ ref[i].alive
      /\ InRange(pos, ref[i].first, ref[i].last)

\* While no range has been moved, every key position has exactly one node, and
\* map_node_id names it as long as that node is alive and nobody otherwise:
\* two clients never send operations of one group to different replicas.
OneOwner ==
  sets = 0 =>
    \A pos \in Position :
      \E i \in Node :
        /\ \A j \in Node :
             InRange(pos, ref[j].first, ref[j].last) <=> j = i
        /\ MapNodeId(cluster, pos) = IF ref[i].alive THEN i ELSE NoNode
=============================================================================
