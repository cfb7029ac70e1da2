------------------------------ MODULE Guidance ------------------------------
(***************************************************************************)
(* The guidance (core/guidance.h, core/morphling.cpp): which replica the   *)
(* clients must send the operations of a key to.  A NodeStatus packs the   *)
(* first and the last key position of a node and its flags into one 32-bit *)
(* word, 8 bits each; the operators below do the same with arithmetic.     *)
(***************************************************************************)
EXTENDS Naturals

CONSTANTS
  KeySpace,    \* DEFAULT_KEY_SPACE, 256 in the code
  ClusterSize  \* HARD_CODE_REPLICAS, 3 in the code

ASSUME GuidanceAssumption ==
  /\ ClusterSize \in Nat \ {0}
  /\ KeySpace \in ClusterSize..256

Node == 0..(ClusterSize - 1)
Position == 0..(KeySpace - 1)

\* calc_key_pos: bits 8 to 15 of the key hash
CalcKeyPos(key) == (key \div 256) % 256

-----------------------------------------------------------------------------
(* NodeStatus *)

StartPos(w) == w % 256
EndPos(w) == (w \div 256) % 256
Flags(w) == (w \div 65536) % 256

\* set_pos(first, last): the arguments are uint8_t, the upper half is kept
SetPos(w, first, last) ==
  (w - (w % 65536)) + (first % 256) + 256 * (last % 256)

SetAlive(w) == (w % 65536) + 65536
SetDead(w) == w % 65536

\* pos_is_in: a range whose first position is behind its last wraps around
PosIsIn(w, pos) ==
  /\ Flags(w) # 0
  /\ IF StartPos(w) > EndPos(w)
       THEN StartPos(w) <= pos \/ pos <= EndPos(w)
       ELSE StartPos(w) <= pos /\ pos <= EndPos(w)

-----------------------------------------------------------------------------
(* Guidance: the words of the nodes *)

\* init_local_guidance (variant: the first position of the next node belongs to
\* both)
FirstPos(i) == (i * KeySpace) \div ClusterSize
LastPosInclusive(i) == ((i + 1) * KeySpace) \div ClusterSize
LastPos(i) == ((i + 1) * KeySpace) \div ClusterSize - 1

InitCluster == [i \in Node |-> SetAlive(SetPos(0, FirstPos(i), LastPos(i)))]

\* map_node_id: the first node that has the position, -1 (here NoNode) if none
NoNode == ClusterSize
MapNodeId(cluster, pos) ==
  LET in == {i \in Node : PosIsIn(cluster[i], pos)}
  IN IF in = {} THEN NoNode ELSE CHOOSE i \in in : \A j \in in : i <= j
=============================================================================
