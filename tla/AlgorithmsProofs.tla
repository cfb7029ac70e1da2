-------------------------- MODULE AlgorithmsProofs --------------------------
(***************************************************************************)
(* Proofs about the sequential parts that MCAlgorithms puts side by side,  *)
(* for all sizes.  A behaviour is one of a single part: each theorem rests *)
(* on an invariant of its part alone.  Sums of sizes are the cardinality   *)
(* of a set of bytes, so that what adding a size does to the sum follows   *)
(* from what adding elements does to a set.                                *)
(***************************************************************************)
EXTENDS MCAlgorithms, FiniteSetTheorems, SequenceTheorems, TLAPS

\* A behaviour starts in one part
LEMMA InitOfPart ==
  ASSUME Init
  PROVE  /\ part = "guidance" => G!Init
         /\ part = "append" => L!Init
         /\ part = "arena" => A!Init
         /\ part = "client" => B!Init
         /\ part = "framing" => F!Init
         /\ part = "echo" => E!Init
BY DEF Init

\* and stays in it.
LEMMA NextOfPart ==
  ASSUME [Next]_vars
  PROVE  /\ part' = part
         /\ part = "guidance" => [G!Next]_gVars
         /\ part = "append" => [L!Handle]_lVars
         /\ part = "arena" => [A!Next]_aVars
         /\ part = "client" => [B!Next]_bVars
         /\ part = "framing" => [F!Next]_fVars
         /\ part = "echo" => [E!Next]_eVars
BY DEF Next, vars

-----------------------------------------------------------------------------
(* Sums of sizes *)

\* The cells of k things of sizes f[1], ..., f[k]
Cells(f, k) == UNION {{i} \X (1..f[i]) : i \in 1..k}
Sized(f, k) == \A i \in 1..k : f[i] \in Nat

LEMMA CellsFinite ==
  ASSUME NEW k \in Nat, NEW f, Sized(f, k)
  PROVE  IsFiniteSet(Cells(f, k)) /\ Cardinality(Cells(f, k)) \in Nat
<1>1. PICK S : S = {{i} \X (1..f[i]) : i \in 1..k}
  OBVIOUS
<1>2. PICK g : g = [i \in 1..k |-> {i} \X (1..f[i])]
  OBVIOUS
<1>3. g \in Surjection(1..k, S)
  BY <1>1, <1>2 DEF Surjection
<1>4. IsFiniteSet(S)
  <2>1. IsFiniteSet(1..k)
    BY FS_Interval
  <2> QED BY <2>1, <1>3, FS_Surjection
<1>5. ASSUME NEW T \in S PROVE IsFiniteSet(T)
  <2>1. PICK i \in 1..k : T = {i} \X (1..f[i])
    BY <1>1
  <2>2. PICK s \in Nat : s = f[i]
    BY DEF Sized
  <2>3. IsFiniteSet({i})
    BY FS_Singleton
  <2>4. IsFiniteSet(1..s)
    BY FS_Interval
  <2> QED BY <2>1, <2>2, <2>3, <2>4, FS_Product
<1>6. IsFiniteSet(UNION S)
  BY <1>4, <1>5, FS_UNION
<1>7. Cells(f, k) = UNION S
  BY <1>1 DEF Cells
<1> QED BY <1>6, <1>7, FS_CardinalityType

LEMMA CellsNext ==
  ASSUME NEW k \in Nat, NEW f, Sized(f, k + 1)
  PROVE  Cardinality(Cells(f, k + 1)) = Cardinality(Cells(f, k)) + f[k + 1]
<1>1. Sized(f, k)
  BY DEF Sized
<1>2. PICK s \in Nat : s = f[k + 1]
  BY DEF Sized
<1>3. PICK T : T = {k + 1} \X (1..s)
  OBVIOUS
<1>4. IsFiniteSet(T) /\ Cardinality(T) = s
  <2>1. PICK S : S = {k + 1}
    OBVIOUS
  <2>2. PICK U : U = 1..s
    OBVIOUS
  <2>3. IsFiniteSet(S) /\ Cardinality(S) = 1
    BY <2>1, FS_Singleton
  <2>4. IsFiniteSet(U) /\ Cardinality(U) = s
    BY <2>2, FS_Interval
  <2>5. IsFiniteSet(S \X U) /\ Cardinality(S \X U) = Cardinality(S) * Cardinality(U)
    BY <2>3, <2>4, FS_Product
  <2> QED BY <2>1, <2>2, <2>3, <2>4, <2>5, <1>3
<1>5. PICK S : S = Cells(f, k)
  OBVIOUS
<1>6. IsFiniteSet(S) /\ Cardinality(S) \in Nat
  BY <1>1, <1>5, CellsFinite
<1>7. Cells(f, k + 1) = S \cup T
  <2>1. \A i : i \in 1..(k + 1) <=> i \in 1..k \/ i = k + 1
    OBVIOUS
  <2> QED BY <2>1, <1>2, <1>3, <1>5 DEF Cells
<1>8. S \cap T = {}
  BY <1>3, <1>5 DEF Cells
<1>9. Cardinality(S \cup T) = Cardinality(S) + Cardinality(T) - Cardinality(S \cap T)
  BY <1>4, <1>6, FS_Union
<1>10. Cardinality(S \cap T) = 0
  BY <1>8, FS_EmptySet
<1>11. Cardinality(S \cup T) = Cardinality(S) + s
  BY <1>4, <1>6, <1>9, <1>10
<1> QED BY <1>2, <1>11, <1>5, <1>7, Zenon

\* Cells depend on the sizes of the things alone.
LEMMA CellsSame ==
  ASSUME NEW k \in Nat, NEW f, NEW g, \A i \in 1..k : f[i] = g[i]
  PROVE  Cells(f, k) = Cells(g, k)
BY DEF Cells

LEMMA NoCells ==
  ASSUME NEW f
  PROVE  Cardinality(Cells(f, 0)) = 0
<1>1. Cells(f, 0) = {}
  BY DEF Cells
<1> QED BY <1>1, FS_EmptySet

LEMMA CellsGrow ==
  ASSUME NEW k \in Nat, NEW m \in 0..k, NEW f, Sized(f, k)
  PROVE  Cardinality(Cells(f, m)) <= Cardinality(Cells(f, k))
<1>1. Cells(f, m) \subseteq Cells(f, k)
  BY DEF Cells
<1> QED BY <1>1, CellsFinite, FS_Subset

\* The instances have a Cardinality of their own.
LEMMA SameCardinality ==
  \A S : /\ A!Cardinality(S) = Cardinality(S) /\ F!Cardinality(S) = Cardinality(S)
         /\ E!Cardinality(S) = Cardinality(S)
BY DEF Cardinality, A!Cardinality, F!Cardinality, E!Cardinality

-----------------------------------------------------------------------------
(* The guidance *)

\* The quotient and the rest of a division
LEMMA Division ==
  ASSUME NEW a \in Nat, NEW d \in Nat \ {0}
  PROVE  /\ a \div d \in Nat /\ a % d \in 0..(d - 1)
         /\ d * (a \div d) <= a /\ a < d * (a \div d) + d
OBVIOUS

\* A quotient is at least q if the number is at least q times the divisor.
LEMMA QuotientAtLeast ==
  ASSUME NEW a \in Nat, NEW d \in Nat \ {0}, NEW q \in Nat
  PROVE  q <= a \div d <=> d * q <= a
<1> DEFINE p == a \div d
<1>1. p \in Nat /\ d * p <= a /\ a < d * p + d
  BY Division
<1> HIDE DEF p
<1>2. ASSUME q <= p PROVE d * q <= a
  <2>1. PICK x \in Nat : p = q + x
    BY <1>1, <1>2
  <2>2. d * p = d * q + d * x /\ d * x >= 0 /\ d * q \in Nat /\ d * x \in Nat
    BY <2>1
  <2> QED BY <1>1, <2>2
<1>3. ASSUME d * q <= a, q > p PROVE FALSE
  <2>1. PICK x \in Nat : q = p + 1 + x
    BY <1>1, <1>3
  <2>2. /\ d * q = d * p + d + d * x /\ d * x >= 0
        /\ d * p \in Nat /\ d * x \in Nat
    BY <2>1, <1>1
  <2> QED BY <1>1, <1>3, <2>2
<1> QED BY <1>1, <1>2, <1>3 DEF p

\* A position is behind the beginning of range i if it is at least i-th of C
\* parts of K.
LEMMA BehindBeginning ==
  ASSUME NEW C \in Nat \ {0}, NEW K \in Nat, NEW i \in Nat, NEW pos \in Nat
  PROVE  /\ (i * K) \div C \in Nat
         /\ (i * K) \div C <= pos <=> i * K < C * (pos + 1)
<1>1. PICK a \in Nat : a = i * K
  OBVIOUS
<1>2. PICK b \in Nat : b = C * (pos + 1)
  OBVIOUS
<1>3. a \div C \in Nat
  BY Division
<1>4. pos + 1 <= a \div C <=> b <= a
  BY <1>2, QuotientAtLeast
<1> QED BY <1>1, <1>2, <1>3, <1>4

\* Of C ranges that divide K positions, one has the position.
LEMMA OneRange ==
  ASSUME NEW C \in Nat \ {0}, NEW K \in Nat \ {0}, NEW pos \in 0..(K - 1)
  PROVE  \E i \in 0..(C - 1) : \A j \in 0..(C - 1) :
           (j * K) \div C <= pos /\ pos < ((j + 1) * K) \div C <=> j = i
<1>1. PICK b \in Nat \ {0} : b = C * (pos + 1)
  <2>1. C * (pos + 1) = C * pos + C /\ C * pos \in Nat
    OBVIOUS
  <2> QED BY <2>1
<1>2. PICK i \in Nat : i = (b - 1) \div K
  BY Division
<1>3. \A j \in Nat : j <= i <=> K * j <= b - 1
  BY <1>2, QuotientAtLeast
<1>4. i < C
  <2>1. PICK x \in Nat : K = pos + 1 + x
    OBVIOUS
  <2>2. K * C = b + C * x /\ C * x \in Nat
    BY <2>1, <1>1
  <2>3. ~(K * C <= b - 1)
    BY <2>2
  <2> QED BY <2>3, <1>3
<1>5. \A j \in Nat : (j * K) \div C <= pos <=> j <= i
  <2> SUFFICES ASSUME NEW j \in Nat PROVE (j * K) \div C <= pos <=> j <= i
    OBVIOUS
  <2>1. (j * K) \div C <= pos <=> j * K < b
    BY <1>1, BehindBeginning
  <2>2. j * K = K * j /\ K * j \in Nat
    OBVIOUS
  <2> QED BY <2>1, <2>2, <1>3
<1>6. ASSUME NEW j \in 0..(C - 1)
      PROVE  (j * K) \div C <= pos /\ pos < ((j + 1) * K) \div C <=> j = i
  <2>1. (j * K) \div C <= pos <=> j <= i
    BY <1>5
  <2>2. ((j + 1) * K) \div C <= pos <=> j + 1 <= i
    BY <1>5
  <2>3. ((j + 1) * K) \div C \in Nat
    BY BehindBeginning
  <2> QED BY <2>1, <2>2, <2>3
<1>7. i \in 0..(C - 1)
  BY <1>4
<1>8. \A j \in 0..(C - 1) :
        (j * K) \div C <= pos /\ pos < ((j + 1) * K) \div C <=> j = i
  BY <1>6, Zenon
<1> QED BY <1>7, <1>8, Zenon

Byte == 0..255
Bit == {0, 1}

\* The ranges of the nodes are no longer than the ring and do not wrap.
LEMMA RangesOfNodes ==
  ASSUME NEW i \in G!Node
  PROVE  /\ G!FirstPos(i) \in Byte /\ G!LastPos(i) \in Byte
         /\ G!FirstPos(i) <= G!LastPos(i)
         /\ G!FirstPos(i) = (i * KeySpace) \div ClusterSize
         /\ G!LastPos(i) + 1 = ((i + 1) * KeySpace) \div ClusterSize
<1>1. PICK C \in Nat \ {0}, K \in Nat \ {0} :
        C = ClusterSize /\ K = KeySpace /\ C <= K /\ K <= 256
  BY GuidanceSizes
<1>2. i \in Nat /\ i < C
  BY <1>1 DEF G!Node
<1>3. PICK a \in Nat, b \in Nat : a = (i * K) \div C /\ b = ((i + 1) * K) \div C
  BY <1>1, <1>2, BehindBeginning
<1>4. a < b
  <2>1. PICK d \in Nat : d = i * K
    BY <1>1, <1>2
  <2>2. C * a <= d
    BY <2>1, <1>1, <1>3, Division
  <2>3. C * (a + 1) = C * a + C /\ C * a \in Nat /\ (i + 1) * K = d + K
    BY <2>1, <1>1, <1>2
  <2>4. C * (a + 1) <= (i + 1) * K
    BY <2>1, <2>2, <2>3, <1>1
  <2>5. a + 1 <= b
    BY <2>4, <2>1, <2>3, <1>1, <1>3, QuotientAtLeast
  <2> QED BY <2>5
<1>5. b <= K
  <2>1. PICK x \in Nat : C = i + 1 + x
    BY <1>1, <1>2
  <2>2. C * K = (i + 1) * K + x * K /\ x * K \in Nat /\ (i + 1) * K \in Nat
    BY <2>1, <1>1, <1>2
  <2>3. C * (K + 1) = C * K + C
    BY <1>1
  <2>4. (i + 1) * K < C * (K + 1)
    BY <2>2, <2>3, <1>1
  <2>5. ((i + 1) * K) \div C <= K
    BY <2>4, <1>1, <1>2, BehindBeginning
  <2> QED BY <2>5, <1>3
<1> QED BY <1>1, <1>3, <1>4, <1>5 DEF G!FirstPos, G!LastPos, Byte

-----------------------------------------------------------------------------

\* The word of a node, alive if on = 1
Word(first, last, on) == first + 256 * last + 65536 * on

LEMMA WordFields ==
  ASSUME NEW first \in Byte, NEW last \in Byte, NEW on \in Bit, NEW w,
         w = Word(first, last, on)
  PROVE  /\ w \in Nat /\ G!StartPos(w) = first /\ G!EndPos(w) = last
         /\ G!Flags(w) = on
<1>1. CASE on = 1
  <2>1. w = first + 256 * last + 65536 /\ first \in 0..255 /\ last \in 0..255
    BY <1>1 DEF Word, Byte
  <2>2. w % 256 = first
    BY <2>1
  <2>3. w \div 256 = last + 256
    BY <2>1
  <2>4. w \div 65536 = 1
    BY <2>1
  <2>5. (last + 256) % 256 = last
    BY <2>1
  <2> QED BY <1>1, <2>1, <2>2, <2>3, <2>4, <2>5
        DEF G!StartPos, G!EndPos, G!Flags
<1>2. CASE on = 0
  <2>1. w = first + 256 * last /\ first \in 0..255 /\ last \in 0..255
    BY <1>2 DEF Word, Byte
  <2>2. w % 256 = first
    BY <2>1
  <2>3. w \div 256 = last
    BY <2>1
  <2>4. w \div 65536 = 0
    BY <2>1
  <2>5. last % 256 = last
    BY <2>1
  <2> QED BY <1>2, <2>1, <2>2, <2>3, <2>4, <2>5
        DEF G!StartPos, G!EndPos, G!Flags
<1> QED BY <1>1, <1>2 DEF Bit

\* What the setters do to it
LEMMA LowerHalf ==
  ASSUME NEW first \in Byte, NEW last \in Byte, NEW on \in Bit
  PROVE  Word(first, last, on) % 65536 = first + 256 * last
<1>1. PICK v \in Nat : v = first + 256 * last /\ v < 65536
  BY DEF Byte
<1>2. Word(first, last, on) = v + 65536 * on
  BY <1>1 DEF Word
<1>3. CASE on = 0
  BY <1>1, <1>2, <1>3
<1>4. CASE on = 1
  BY <1>1, <1>2, <1>4
<1> QED BY <1>3, <1>4 DEF Bit

LEMMA WordLives ==
  ASSUME NEW first \in Byte, NEW last \in Byte, NEW on \in Bit
  PROVE  /\ G!SetAlive(Word(first, last, on)) = Word(first, last, 1)
         /\ G!SetDead(Word(first, last, on)) = Word(first, last, 0)
<1>1. Word(first, last, on) % 65536 = first + 256 * last
  BY LowerHalf
<1>2. /\ Word(first, last, 1) = first + 256 * last + 65536
      /\ Word(first, last, 0) = first + 256 * last
  BY DEF Word, Byte
<1> QED BY <1>1, <1>2 DEF G!SetAlive, G!SetDead

LEMMA WordMoves ==
  ASSUME NEW first \in Byte, NEW last \in Byte, NEW on \in Bit,
         NEW f \in Byte, NEW l \in Byte
  PROVE  G!SetPos(Word(first, last, on), f, l) = Word(f, l, on)
<1>1. PICK w : w = Word(first, last, on)
  OBVIOUS
<1>2. w % 65536 = first + 256 * last
  BY <1>1, LowerHalf
<1>3. w - (w % 65536) = 65536 * on
  BY <1>1, <1>2 DEF Word, Byte, Bit
<1>4. f % 256 = f /\ l % 256 = l
  BY DEF Byte
<1>5. G!SetPos(w, f, l) = 65536 * on + f + 256 * l
  BY <1>3, <1>4 DEF G!SetPos
<1>6. G!SetPos(w, f, l) = Word(f, l, on)
  BY <1>5 DEF Word, Byte, Bit
<1> QED BY <1>1, <1>6

\* pos_is_in goes round the ring.
LEMMA RingIs ==
  ASSUME NEW first \in Byte, NEW last \in Byte, NEW pos \in Byte
  PROVE  G!InRange(pos, first, last) <=>
           IF first > last THEN first <= pos \/ pos <= last
                           ELSE first <= pos /\ pos <= last
<1>1. (pos + 256 - first) % 256
        = IF first <= pos THEN pos - first ELSE pos + 256 - first
  <2>1. CASE first <= pos
    BY <2>1 DEF Byte
  <2>2. CASE first > pos
    BY <2>2 DEF Byte
  <2> QED BY <2>1, <2>2 DEF Byte
<1>2. (last + 256 - first) % 256
        = IF first <= last THEN last - first ELSE last + 256 - first
  <2>1. CASE first <= last
    BY <2>1 DEF Byte
  <2>2. CASE first > last
    BY <2>2 DEF Byte
  <2> QED BY <2>1, <2>2 DEF Byte
<1> QED BY <1>1, <1>2 DEF G!InRange, Byte

LEMMA PosIsInRing ==
  ASSUME NEW first \in Byte, NEW last \in Byte, NEW on \in Bit, NEW pos \in Byte
  PROVE  G!PosIsIn(Word(first, last, on), pos)
           <=> on = 1 /\ G!InRange(pos, first, last)
<1>1. PICK w : w = Word(first, last, on)
  OBVIOUS
<1>2. G!StartPos(w) = first /\ G!EndPos(w) = last /\ G!Flags(w) = on
  BY <1>1, WordFields, Zenon
<1>3. G!InRange(pos, first, last) <=>
        IF first > last THEN first <= pos \/ pos <= last
                        ELSE first <= pos /\ pos <= last
  BY RingIs, Zenon
<1>4. on # 0 <=> on = 1
  BY DEF Bit
<1>5. G!PosIsIn(w, pos) <=> on = 1 /\ G!InRange(pos, first, last)
  BY <1>2, <1>3, <1>4, Zenon DEF G!PosIsIn
<1> QED BY <1>1, <1>5, Zenon

\* Each word stands for what has been set, and until a range is moved for the
\* ranges of the beginning.
Stands(w, st) ==
  \E on \in Bit : w = Word(st.first, st.last, on) /\ (on = 1 <=> st.alive)
GuidanceInv ==
  /\ DOMAIN cluster = G!Node
  /\ ref \in [G!Node -> [first : Byte, last : Byte, alive : BOOLEAN]]
  /\ sets \in Nat
  /\ \A i \in G!Node : Stands(cluster[i], ref[i])
  /\ sets = 0 => \A i \in G!Node :
       ref[i].first = G!FirstPos(i) /\ ref[i].last = G!LastPos(i)

LEMMA GuidanceInit == G!Init => GuidanceInv
<1> SUFFICES ASSUME G!Init PROVE GuidanceInv
  OBVIOUS
<1>1. \A i \in G!Node : G!FirstPos(i) \in Byte /\ G!LastPos(i) \in Byte
  BY RangesOfNodes
<1>2. ref = [i \in G!Node |-> [first |-> G!FirstPos(i), last |-> G!LastPos(i),
                               alive |-> TRUE]]
  BY DEF G!Init
<1>3. ref \in [G!Node -> [first : Byte, last : Byte, alive : BOOLEAN]]
  BY <1>1, <1>2
<1>4. \A i \in G!Node : /\ ref[i].first = G!FirstPos(i)
                        /\ ref[i].last = G!LastPos(i)
  BY <1>2
<1>5. \A i \in G!Node : ref[i].alive
  BY <1>2
<1>6. cluster = [i \in G!Node |->
                   G!SetAlive(G!SetPos(0, G!FirstPos(i), G!LastPos(i)))]
  BY DEF G!Init, G!InitCluster
<1>7. ASSUME NEW i \in G!Node
      PROVE  Stands(cluster[i], ref[i])
  <2>1. PICK f \in Byte, l \in Byte : f = G!FirstPos(i) /\ l = G!LastPos(i)
    BY <1>1
  <2>2. Word(0, 0, 0) = 0 /\ 0 \in Byte /\ 0 \in Bit
    BY DEF Word, Byte, Bit
  <2>3. G!SetPos(Word(0, 0, 0), f, l) = Word(f, l, 0)
    BY <2>2, WordMoves
  <2>4. G!SetAlive(Word(f, l, 0)) = Word(f, l, 1)
    BY <2>2, WordLives
  <2>5. cluster[i] = Word(f, l, 1)
    BY <2>1, <2>2, <2>3, <2>4, <1>6
  <2>6. cluster[i] = Word(ref[i].first, ref[i].last, 1)
    BY <2>1, <2>5, <1>4
  <2> QED BY <2>6, <1>5 DEF Stands, Bit
<1>8. sets \in Nat /\ DOMAIN cluster = G!Node
  BY <1>6 DEF G!Init
<1> QED BY <1>3, <1>4, <1>7, <1>8 DEF GuidanceInv

LEMMA WordStands ==
  ASSUME GuidanceInv, NEW i \in G!Node
  PROVE  \E f \in Byte, l \in Byte, on \in Bit :
           /\ f = ref[i].first /\ l = ref[i].last
           /\ cluster[i] = Word(f, l, on) /\ (on = 1 <=> ref[i].alive)
<1>1. ref[i] \in [first : Byte, last : Byte, alive : BOOLEAN]
  BY DEF GuidanceInv
<1>2. ref[i].first \in Byte /\ ref[i].last \in Byte
  BY <1>1
<1>3. Stands(cluster[i], ref[i])
  BY DEF GuidanceInv
<1> QED BY <1>2, <1>3, Zenon DEF Stands

\* A step sets the word and the reference of one node, and counts if it moves
\* the range of the node.
LEMMA GuidanceSet ==
  ASSUME GuidanceInv, NEW i \in G!Node, NEW w, NEW st,
         st \in [first : Byte, last : Byte, alive : BOOLEAN], Stands(w, st),
         cluster' = [cluster EXCEPT ![i] = w], ref' = [ref EXCEPT ![i] = st],
         sets' \in Nat,
         sets' = 0 => sets = 0 /\ st.first = ref[i].first /\ st.last = ref[i].last
  PROVE  GuidanceInv'
<1>1. /\ DOMAIN cluster' = G!Node
      /\ ref' \in [G!Node -> [first : Byte, last : Byte, alive : BOOLEAN]]
  BY DEF GuidanceInv
<1>2. cluster'[i] = w /\ ref'[i] = st
  BY DEF GuidanceInv
<1>3. \A j \in G!Node : j # i => cluster'[j] = cluster[j] /\ ref'[j] = ref[j]
  BY DEF GuidanceInv
<1>4. \A j \in G!Node : Stands(cluster'[j], ref'[j])
  BY <1>2, <1>3 DEF GuidanceInv
<1>5. ASSUME sets' = 0, NEW j \in G!Node
      PROVE  ref'[j].first = G!FirstPos(j) /\ ref'[j].last = G!LastPos(j)
  BY <1>2, <1>3, <1>5 DEF GuidanceInv
<1> QED BY <1>1, <1>4, <1>5 DEF GuidanceInv

LEMMA GuidanceStep == GuidanceInv /\ [G!Next]_gVars => GuidanceInv'
<1> SUFFICES ASSUME GuidanceInv, [G!Next]_gVars PROVE GuidanceInv'
  OBVIOUS
<1>1. CASE UNCHANGED gVars
  BY <1>1 DEF gVars, GuidanceInv
<1>2. ASSUME NEW i \in G!Node, NEW f \in SomePos, NEW l \in SomePos,
             G!DoSetPos(i, f, l)
      PROVE  GuidanceInv'
  <2>1. f \in Byte /\ l \in Byte
    BY GuidanceSizes DEF Byte
  <2>2. PICK f0 \in Byte, l0 \in Byte, on \in Bit :
          cluster[i] = Word(f0, l0, on) /\ (on = 1 <=> ref[i].alive)
    BY WordStands, Zenon
  <2>3. PICK v, w : v = cluster[i] /\ w = G!SetPos(v, f, l)
    OBVIOUS
  <2>4. w = Word(f, l, on)
    <3>1. v = Word(f0, l0, on)
      BY <2>2, <2>3
    <3>2. G!SetPos(Word(f0, l0, on), f, l) = Word(f, l, on)
      BY <2>1, WordMoves
    <3> QED BY <3>1, <3>2, <2>3
  <2>5. PICK st : st = [ref[i] EXCEPT !.first = f, !.last = l]
    OBVIOUS
  <2>6. /\ st \in [first : Byte, last : Byte, alive : BOOLEAN]
        /\ st.first = f /\ st.last = l /\ (st.alive <=> ref[i].alive)
    <3>1. PICK o : o = ref[i]
      OBVIOUS
    <3>2. o \in [first : Byte, last : Byte, alive : BOOLEAN]
      BY <3>1 DEF GuidanceInv
    <3>3. st = [o EXCEPT !.first = f, !.last = l]
      BY <3>1, <2>5
    <3>4. st \in [first : Byte, last : Byte, alive : BOOLEAN]
      BY <3>2, <3>3, <2>1
    <3>5. st.first = f /\ st.last = l /\ st.alive = o.alive
      BY <3>2, <3>3
    <3> QED BY <3>1, <3>4, <3>5, Zenon
  <2>7. Stands(w, st)
    BY <2>2, <2>4, <2>6 DEF Stands
  <2>8. cluster' = [cluster EXCEPT ![i] = w] /\ ref' = [ref EXCEPT ![i] = st]
    BY <2>3, <2>5, <1>2 DEF G!DoSetPos
  <2>9. sets' \in Nat /\ sets' # 0
    BY <1>2 DEF G!DoSetPos, GuidanceInv
  <2> QED BY <2>6, <2>7, <2>8, <2>9, GuidanceSet
<1>3. ASSUME NEW i \in G!Node, NEW a \in BOOLEAN,
             cluster' = [cluster EXCEPT ![i] = IF a THEN G!SetAlive(@)
                                                    ELSE G!SetDead(@)],
             ref' = [ref EXCEPT ![i].alive = a], sets' = sets
      PROVE  GuidanceInv'
  <2>1. PICK f \in Byte, l \in Byte, on \in Bit :
          f = ref[i].first /\ l = ref[i].last /\ cluster[i] = Word(f, l, on)
    BY WordStands, Zenon
  <2>2. PICK v : v = cluster[i]
    OBVIOUS
  <2>3. PICK w : w = IF a THEN G!SetAlive(v) ELSE G!SetDead(v)
    OBVIOUS
  <2>4. w = Word(f, l, IF a THEN 1 ELSE 0)
    <3>1. G!SetAlive(v) = Word(f, l, 1) /\ G!SetDead(v) = Word(f, l, 0)
      <4>1. v = Word(f, l, on)
        BY <2>1, <2>2
      <4>2. /\ G!SetAlive(Word(f, l, on)) = Word(f, l, 1)
            /\ G!SetDead(Word(f, l, on)) = Word(f, l, 0)
        BY WordLives
      <4> QED BY <4>1, <4>2
    <3> QED BY <3>1, <2>3
  <2>5. PICK st : st = [ref[i] EXCEPT !.alive = a]
    OBVIOUS
  <2>6. /\ st \in [first : Byte, last : Byte, alive : BOOLEAN]
        /\ st.first = f /\ st.last = l /\ (st.alive <=> a)
    BY <2>1, <2>5 DEF GuidanceInv
  <2>7. Stands(w, st)
    BY <2>4, <2>6 DEF Stands, Bit
  <2>8. cluster' = [cluster EXCEPT ![i] = w] /\ ref' = [ref EXCEPT ![i] = st]
    BY <2>2, <2>3, <2>5, <1>3
  <2>9. sets' \in Nat
    BY <1>3 DEF GuidanceInv
  <2> QED BY <2>1, <2>6, <2>7, <2>8, <2>9, <1>3, GuidanceSet
<1>4. ASSUME NEW i \in G!Node, G!DoSetAlive(i)
      PROVE  GuidanceInv'
  BY <1>3, <1>4 DEF G!DoSetAlive
<1>5. ASSUME NEW i \in G!Node, G!DoSetDead(i)
      PROVE  GuidanceInv'
  BY <1>3, <1>5 DEF G!DoSetDead
<1> QED BY <1>1, <1>2, <1>4, <1>5 DEF G!Next

\* For every number of nodes and every size of the key space up to 256: no
\* setter disturbs another, pos_is_in accepts the positions of the ring segment
\* of a node alive, and until a range is moved each position has one owner,
\* whom map_node_id names if it is alive (core/guidance.h).
THEOREM GuidanceIsRight == Spec => []GuidanceRight
<1> DEFINE Inv == part = "guidance" => GuidanceInv
<1>1. Init => Inv
  BY InitOfPart, GuidanceInit
<1>2. Inv /\ [Next]_vars => Inv'
  BY NextOfPart, GuidanceStep
<1>3. Inv => GuidanceRight
  <2> SUFFICES ASSUME GuidanceInv PROVE G!WordsMeanRanges /\ G!OneOwner
    BY DEF GuidanceRight
  <2>1. ASSUME NEW i \in G!Node, NEW pos \in 0..255
        PROVE  G!PosIsIn(cluster[i], pos) <=>
                 ref[i].alive /\ G!InRange(pos, ref[i].first, ref[i].last)
    <3>1. pos \in Byte
      BY DEF Byte
    <3>2. PICK f \in Byte, l \in Byte, on \in Bit :
            /\ f = ref[i].first /\ l = ref[i].last
            /\ cluster[i] = Word(f, l, on) /\ (on = 1 <=> ref[i].alive)
      BY WordStands, Zenon
    <3>3. G!PosIsIn(Word(f, l, on), pos) <=> on = 1 /\ G!InRange(pos, f, l)
      BY <3>1, PosIsInRing
    <3> QED BY <3>2, <3>3, Zenon
  <2>2. ASSUME sets = 0, NEW pos \in G!Position
        PROVE  \E i \in G!Node :
                 /\ \A j \in G!Node :
                      G!InRange(pos, ref[j].first, ref[j].last) <=> j = i
                 /\ G!MapNodeId(cluster, pos) = IF ref[i].alive THEN i ELSE G!NoNode
    <3>1. PICK C \in Nat \ {0}, K \in Nat \ {0} :
            /\ C = ClusterSize /\ K = KeySpace /\ K <= 256
      BY GuidanceSizes
    <3>2. pos \in 0..(K - 1) /\ pos \in Byte /\ G!Node = 0..(C - 1)
      BY <3>1 DEF G!Position, G!Node, Byte
    <3>3. PICK i \in 0..(C - 1) : \A j \in 0..(C - 1) :
            (j * K) \div C <= pos /\ pos < ((j + 1) * K) \div C <=> j = i
      BY <3>2, OneRange
    <3>4. ASSUME NEW j \in G!Node
          PROVE  G!InRange(pos, ref[j].first, ref[j].last) <=> j = i
      <4>1. PICK f \in Byte, l \in Byte :
              /\ f = ref[j].first /\ l = ref[j].last /\ f <= l
              /\ f = (j * K) \div C /\ l + 1 = ((j + 1) * K) \div C
        BY <2>2, <3>1, RangesOfNodes DEF GuidanceInv
      <4>2. G!InRange(pos, f, l) <=> f <= pos /\ pos <= l
        <5>1. f \in Nat /\ l \in Nat
          BY DEF Byte
        <5>2. ~(f > l)
          BY <4>1, <5>1
        <5> QED BY <5>2, <3>2, RingIs, Zenon
      <4>3. f <= pos /\ pos < l + 1 <=> j = i
        BY <4>1, <3>2, <3>3
      <4>4. pos <= l <=> pos < l + 1
        BY <3>2 DEF Byte
      <4> QED BY <4>1, <4>2, <4>3, <4>4, Zenon
    <3>5. PICK S : S = {j \in G!Node : G!PosIsIn(cluster[j], pos)}
      OBVIOUS
    <3>6. \A j \in G!Node : j \in S <=> j = i /\ ref[i].alive
      <4>1. pos \in 0..255
        BY <3>2 DEF Byte
      <4>2. ASSUME NEW j \in G!Node
            PROVE  G!PosIsIn(cluster[j], pos) <=> j = i /\ ref[i].alive
        <5>1. G!PosIsIn(cluster[j], pos) <=>
                ref[j].alive /\ G!InRange(pos, ref[j].first, ref[j].last)
          BY <4>1, <2>1, Zenon
        <5> QED BY <5>1, <3>4, Zenon
      <4> QED BY <4>2, <3>5, Zenon
    <3>7. G!MapNodeId(cluster, pos)
            = IF S = {} THEN G!NoNode ELSE CHOOSE j \in S : \A k \in S : j <= k
      BY <3>5 DEF G!MapNodeId
    <3>8. G!MapNodeId(cluster, pos) = IF ref[i].alive THEN i ELSE G!NoNode
      <4>1. CASE ref[i].alive
        <5>1. S = {i}
          BY <4>1, <3>2, <3>5, <3>6
        <5>2. (CHOOSE j \in {i} : \A k \in {i} : j <= k) = i
          BY <3>2
        <5> QED BY <4>1, <5>1, <5>2, <3>7
      <4>2. CASE ~ref[i].alive
        <5>1. S = {}
          BY <4>2, <3>5, <3>6
        <5> QED BY <4>2, <5>1, <3>7
      <4> QED BY <4>1, <4>2
    <3> QED BY <3>2, <3>4, <3>8
  <2>3. G!WordsMeanRanges
    BY <2>1 DEF G!WordsMeanRanges
  <2>4. G!OneOwner
    BY <2>2 DEF G!OneOwner
  <2> QED BY <2>3, <2>4
<1> QED BY <1>1, <1>2, <1>3, PTL DEF Spec

-----------------------------------------------------------------------------
(* handle_append_entries *)

\* The logs compared are sequences of entries that know their place.
LogEntry == [epoch : Nat, index : Nat, data : Epochs \X Nat]
Placed(log) == log \in Seq(LogEntry) /\ \A i \in 1..Len(log) : log[i].index = i

LEMMA LogsArePlaced ==
  ASSUME NEW log \in L!Logs
  PROVE  Placed(log)
<1>1. PICK k \in 0..MaxLen : \E f \in [1..k -> Epochs] : log = L!LogOf(f)
  BY DEF L!Logs
<1>2. k \in Nat /\ Epochs \subseteq Nat
  BY AppendSizes
<1>3. PICK f \in [1..k -> Epochs] : log = L!LogOf(f)
  BY <1>1
<1>4. log = [i \in 1..k |-> [epoch |-> f[i], index |-> i, data |-> <<f[i], i>>]]
  BY <1>3 DEF L!LogOf
<1>5. log \in [1..k -> LogEntry]
  <2> SUFFICES ASSUME NEW i \in 1..k
               PROVE  [epoch |-> f[i], index |-> i, data |-> <<f[i], i>>] \in LogEntry
    BY <1>4
  <2>1. f[i] \in Epochs
    BY <1>3
  <2>2. f[i] \in Nat
    BY <2>1, <1>2, Zenon
  <2>3. i \in Nat
    BY <1>2
  <2> QED BY <2>1, <2>2, <2>3 DEF LogEntry
<1>6. log \in Seq(LogEntry) /\ Len(log) = k
  BY <1>2, <1>5
<1> QED BY <1>4, <1>6 DEF Placed

LEMMA LastIndexIsLength ==
  ASSUME NEW log, Placed(log)
  PROVE  L!LastIndex(log) = Len(log) /\ Len(log) \in Nat
<1>1. CASE log = << >>
  BY <1>1 DEF L!LastIndex, L!LastEntry, L!Dummy
<1>2. CASE log # << >>
  <2>1. Len(log) \in 1..Len(log)
    BY <1>2 DEF Placed
  <2> QED BY <1>2, <2>1 DEF L!LastIndex, L!LastEntry, Placed
<1> QED BY <1>1, <1>2

\* An entry appended to a log takes its place there.
LEMMA AppendPlaced ==
  ASSUME NEW log, Placed(log), NEW e \in LogEntry, e.index = Len(log) + 1
  PROVE  /\ L!AppendAll(log, <<e>>) = Append(log, e)
         /\ Placed(Append(log, e))
<1>1. log \in Seq(LogEntry) /\ Len(log) \in Nat /\ L!LastIndex(log) = Len(log)
  BY LastIndexIsLength DEF Placed
<1>2. PICK s : s = <<e>>
  OBVIOUS
<1>3. s \in Seq(LogEntry) /\ Len(s) = 1 /\ s[1] = e
  BY <1>2
<1>4. PICK t : t = [k \in 1..Len(s) |-> [epoch |-> s[k].epoch,
                                         index |-> L!LastIndex(log) + k,
                                         data  |-> s[k].data]]
  OBVIOUS
<1>5. [epoch |-> e.epoch, index |-> Len(log) + 1, data |-> e.data] = e
  BY DEF LogEntry
<1>6. t = <<e>>
  BY <1>1, <1>3, <1>4, <1>5
<1>7. L!AppendAll(log, s) = log \o t
  BY <1>4 DEF L!AppendAll
<1>8. log \o <<e>> = Append(log, e)
  BY <1>1
<1>9. Placed(Append(log, e))
  BY <1>1 DEF Placed
<1> QED BY <1>2, <1>6, <1>7, <1>8, <1>9

\* What a log keeps in front of a conflicting entry
LEMMA FrontPlaced ==
  ASSUME NEW log, Placed(log), NEW i \in 1..Len(log)
  PROVE  /\ L!Truncate(log, i) = SubSeq(log, 1, i - 1)
         /\ Placed(SubSeq(log, 1, i - 1)) /\ Len(SubSeq(log, 1, i - 1)) = i - 1
         /\ \A j \in 1..(i - 1) : SubSeq(log, 1, i - 1)[j] = log[j]
<1>1. log \in Seq(LogEntry) /\ Len(log) \in Nat
  BY DEF Placed
<1>2. L!Truncate(log, i) = SubSeq(log, 1, i - 1)
  BY <1>1 DEF L!Truncate
<1>3. PICK s : s = SubSeq(log, 1, i - 1)
  OBVIOUS
<1>4. s \in Seq(LogEntry) /\ Len(s) = i - 1 /\ \A j \in 1..(i - 1) : s[j] = log[j]
  BY <1>1, <1>3
<1>5. Placed(s)
  BY <1>1, <1>4 DEF Placed
<1> QED BY <1>2, <1>3, <1>4, <1>5

\* The message for index i, and the state that handles it
LEMMA MessageIs ==
  ASSUME NEW log, Placed(log), NEW i \in 1..Len(log), NEW c \in Nat
  PROVE  LET m == L!MessageFor(log, i, c) IN
         /\ m.prev_index = i - 1 /\ m.commit = c /\ m.entries = <<log[i]>>
         /\ m.prev_term = L!EntryAt(log, i - 1).epoch
<1>1. log \in Seq(LogEntry) /\ Len(log) \in Nat
  BY DEF Placed
<1>2. PICK s : s = SubSeq(log, 1, i)
  OBVIOUS
<1>3. s \in Seq(LogEntry) /\ Len(s) = i /\ \A j \in 1..i : s[j] = log[j]
  BY <1>1, <1>2
<1>4. Placed(s)
  BY <1>1, <1>3 DEF Placed
<1>5. L!LastIndex(s) = i
  BY <1>3, <1>4, LastIndexIsLength
<1>6. L!TailEntries(s, i) = <<log[i]>>
  <2>1. L!TailEntries(s, i) = SubSeq(s, i, i)
    BY <1>5 DEF L!TailEntries, L!PartEntries
  <2>2. PICK t : t = SubSeq(s, i, i)
    OBVIOUS
  <2>3. t \in Seq(LogEntry) /\ Len(t) = 1 /\ t[1] = s[i]
    BY <1>1, <1>3, <2>2
  <2>4. t = [j \in 1..1 |-> log[i]]
    BY <2>3, <1>3
  <2>5. [j \in 1..1 |-> log[i]] = <<log[i]>>
    OBVIOUS
  <2> QED BY <2>1, <2>2, <2>4, <2>5, Zenon
<1>7. L!EntryAt(s, i - 1) = L!EntryAt(log, i - 1)
  BY <1>3 DEF L!EntryAt
<1>8. PICK st : st = [log |-> s, commit |-> c, votes |-> L!NoVotes,
                      prs |-> [p \in Replica |-> [match |-> 0, next |-> i]]]
  OBVIOUS
<1>9. st.log = s /\ st.commit = c /\ st.prs[Receiver].next = i
  BY <1>8, AppendSizes
<1>10. L!MessageFor(log, i, c) = L!AppendMessage(st, Sender, Receiver)
  BY <1>2, <1>8 DEF L!MessageFor
<1> QED BY <1>5, <1>6, <1>7, <1>9, <1>10 DEF L!AppendMessage

-----------------------------------------------------------------------------

\* The pair of logs and the message never change, and the handler works on
\* the log as it was before.
Asked ==
  /\ Placed(sender) /\ Placed(before) /\ L!Matching(sender, before)
  /\ \E i \in 1..Len(sender), c \in Nat :
       msg.prev_index = i - 1 /\ msg.commit = c /\ msg.entries = <<sender[i]>>
       /\ msg.prev_term = L!EntryAt(sender, i - 1).epoch
Log == IF L!Safe(before, msg) THEN L!AfterEntries(before, msg) ELSE before
Commit == IF L!Safe(before, msg) THEN L!LearnedCommit(Log, 0, msg) ELSE 0
Answered ==
  \/ after.reply = [success |-> FALSE]
  \/ /\ after.log = Log /\ after.commit = Commit
     /\ after.reply = L!AppendReply(Log, Receiver, msg.from, L!Safe(before, msg))
AppendInv == Asked /\ Answered

LEMMA AppendInit == L!Init => AppendInv
<1> SUFFICES ASSUME L!Init PROVE AppendInv
  OBVIOUS
<1>1. sender \in L!Logs /\ before \in L!Logs /\ L!Matching(sender, before)
  BY DEF L!Init
<1>2. Placed(sender) /\ Placed(before)
  BY <1>1, LogsArePlaced
<1>3. PICK i \in DOMAIN sender, c \in 0..MaxLen :
        c < i /\ msg = L!MessageFor(sender, i, c)
  BY DEF L!Init
<1>4. i \in 1..Len(sender) /\ c \in Nat
  BY <1>2, <1>3 DEF Placed
<1>5. /\ msg.prev_index = i - 1 /\ msg.commit = c /\ msg.entries = <<sender[i]>>
      /\ msg.prev_term = L!EntryAt(sender, i - 1).epoch
  BY <1>2, <1>3, <1>4, MessageIs
<1>6. Asked
  BY <1>1, <1>2, <1>4, <1>5 DEF Asked
<1>7. after.reply = [success |-> FALSE]
  BY DEF L!Init
<1> QED BY <1>6, <1>7 DEF AppendInv, Answered

LEMMA AppendStep == AppendInv /\ [L!Handle]_lVars => AppendInv'
<1> SUFFICES ASSUME AppendInv, [L!Handle]_lVars PROVE AppendInv'
  OBVIOUS
<1>1. sender' = sender /\ before' = before /\ msg' = msg
  BY DEF L!Handle, lVars
<1>2. Asked'
  BY <1>1 DEF AppendInv, Asked, Placed, L!Matching, L!EntryAt
<1>3. Log' = Log /\ Commit' = Commit /\ L!Safe(before, msg)' = L!Safe(before, msg)
  BY <1>1 DEF Log, Commit, L!Safe, L!AfterEntries, L!LearnedCommit
<1>4. CASE L!Handle
  <2>1. PICK st : st = [L!InitSMR EXCEPT !.log = before]
    OBVIOUS
  <2>2. st.log = before /\ st.commit = 0
    BY <2>1 DEF L!InitSMR
  <2>3. PICK h : h = L!HandleAppendEntries(st, Receiver, msg)
    OBVIOUS
  <2>4. /\ h.smr.log = Log /\ h.smr.commit = Commit
        /\ h.out = {L!AppendReply(Log, Receiver, msg.from, L!Safe(before, msg))}
    BY <2>2, <2>3 DEF L!HandleAppendEntries, Log, Commit
  <2>5. after' = [log |-> h.smr.log, commit |-> h.smr.commit,
                  reply |-> CHOOSE m \in h.out : TRUE]
    BY <1>4, <2>1, <2>3 DEF L!Handle
  <2>6. PICK r : r = L!AppendReply(Log, Receiver, msg.from, L!Safe(before, msg))
    OBVIOUS
  <2>7. (CHOOSE m \in h.out : TRUE) = r
    BY <2>4, <2>6
  <2>8. after'.log = Log /\ after'.commit = Commit /\ after'.reply = r
    BY <2>4, <2>5, <2>7
  <2> QED BY <1>1, <1>2, <1>3, <2>6, <2>8 DEF AppendInv, Answered, L!AppendReply
<1>5. CASE UNCHANGED lVars
  <2>1. after' = after
    BY <1>5 DEF lVars
  <2> QED BY <1>1, <1>2, <1>3, <2>1 DEF AppendInv, Answered, L!AppendReply
<1> QED BY <1>4, <1>5

\* What the handler leaves of a message it accepts
LEMMA Accepted ==
  ASSUME Placed(sender), Placed(before), L!Matching(sender, before),
         NEW i \in 1..Len(sender), msg.prev_index = i - 1,
         msg.entries = <<sender[i]>>,
         msg.prev_term = L!EntryAt(sender, i - 1).epoch, L!Safe(before, msg)
  PROVE  /\ Placed(Log) /\ Len(Log) >= i
         /\ \A j \in 1..i : Log[j] = sender[j]
         /\ Len(before) >= i /\ before[i] = sender[i] => Log = before
<1>1. /\ sender \in Seq(LogEntry) /\ before \in Seq(LogEntry)
      /\ Len(sender) \in Nat /\ Len(before) \in Nat
      /\ DOMAIN sender = 1..Len(sender) /\ DOMAIN before = 1..Len(before)
  BY DEF Placed
<1>2. L!LastIndex(before) = Len(before)
  BY LastIndexIsLength
<1>3. i - 1 <= Len(before)
      /\ L!EntryAt(before, i - 1).epoch = L!EntryAt(sender, i - 1).epoch
  BY <1>2 DEF L!Safe
<1>4. \A j \in 1..(i - 1) : before[j] = sender[j]
  <2>1. CASE i = 1
    BY <2>1
  <2>2. CASE i > 1
    <3>1. i - 1 \in DOMAIN sender \cap DOMAIN before
      BY <2>2, <1>1, <1>3
    <3>2. sender[i - 1].epoch = before[i - 1].epoch
      BY <2>2, <1>3 DEF L!EntryAt
    <3> QED BY <3>1, <3>2 DEF L!Matching
  <2> QED BY <2>1, <2>2
<1>5. PICK e : e = sender[i]
  OBVIOUS
<1>6. e \in LogEntry /\ e.index = i
  BY <1>1, <1>5 DEF Placed
<1>7. PICK es : es = <<e>>
  OBVIOUS
<1>8. msg.entries = es /\ Len(es) = 1 /\ es[1] = e /\ DOMAIN es = {1}
  BY <1>5, <1>7
<1>9. Log = L!AfterEntries(before, msg)
  BY DEF Log
<1>10. CASE ~L!Stale(before, msg)
  <2>1. i - 1 = Len(before)
    BY <1>10, <1>1, <1>2, <1>3 DEF L!Stale
  <2>2. Log = L!AppendAll(before, es)
    BY <1>8, <1>9, <1>10 DEF L!AfterEntries
  <2>3. Log = Append(before, e) /\ Placed(Log)
    <3>1. e.index = Len(before) + 1
      BY <2>1, <1>1, <1>6
    <3>2. /\ L!AppendAll(before, <<e>>) = Append(before, e)
          /\ Placed(Append(before, e))
      BY <3>1, <1>6, AppendPlaced
    <3> QED BY <3>2, <2>2, <1>7, Zenon
  <2>4. /\ Len(Log) = i /\ Log[i] = e
        /\ \A j \in 1..(i - 1) : Log[j] = before[j]
    BY <2>1, <2>3, <1>1, <1>6
  <2>5. \A j \in 1..i : Log[j] = sender[j]
    BY <2>4, <1>1, <1>4, <1>5
  <2>6. ~(Len(before) >= i) /\ Len(Log) >= i
    BY <2>1, <2>4, <1>1
  <2> QED BY <2>3, <2>5, <2>6, Zenon
<1>11. CASE L!Stale(before, msg)
  <2>1. i <= Len(before) /\ i \in 1..Len(before)
    BY <1>11, <1>1, <1>2 DEF L!Stale
  <2>2. Log = L!AfterStaleEntries(before, es)
    BY <1>8, <1>9, <1>11 DEF L!AfterEntries
  <2>3. L!Mismatch(before, e) <=> before[i].epoch # e.epoch
    BY <2>1, <1>1, <1>2, <1>6 DEF L!Mismatch, L!EntryAt
  <2>4. PICK bad : bad = {k \in DOMAIN es : L!Mismatch(before, es[k])}
    OBVIOUS
  <2>5. CASE before[i].epoch = e.epoch
    <3>1. bad = {}
      BY <2>3, <2>4, <2>5, <1>8
    <3>2. Log = before
      BY <2>2, <2>4, <3>1 DEF L!AfterStaleEntries
    <3>3. \A j \in 1..i : sender[j] = before[j]
      BY <2>1, <2>5, <1>1, <1>5 DEF L!Matching
    <3> QED BY <2>1, <3>2, <3>3
  <2>6. CASE before[i].epoch # e.epoch
    <3>1. bad = {1}
      BY <2>3, <2>4, <2>6, <1>8
    <3>2. (CHOOSE k \in bad : \A j \in bad : k <= j) = 1
      BY <3>1
    <3>3. Log = L!AppendAll(L!Truncate(before, e.index),
                            [j \in 1..(Len(es) - 1 + 1) |-> es[1]])
      BY <2>2, <2>4, <3>1, <3>2, <1>8 DEF L!AfterStaleEntries
    <3>4. [j \in 1..(Len(es) - 1 + 1) |-> es[1]] = <<e>>
      BY <1>8
    <3>5. PICK s : s = SubSeq(before, 1, i - 1)
      OBVIOUS
    <3>6. /\ L!Truncate(before, i) = s /\ Placed(s) /\ Len(s) = i - 1
          /\ \A j \in 1..(i - 1) : s[j] = before[j]
      BY <2>1, <3>5, FrontPlaced
    <3>7. Log = L!AppendAll(s, <<e>>)
      BY <3>3, <3>4, <3>6, <1>6
    <3>8. Log = Append(s, e) /\ Placed(Log)
      <4>1. e.index = Len(s) + 1
        BY <3>6, <1>1, <1>6
      <4>2. L!AppendAll(s, <<e>>) = Append(s, e) /\ Placed(Append(s, e))
        BY <4>1, <3>6, <1>6, AppendPlaced
      <4> QED BY <4>2, <3>7, Zenon
    <3>9. s \in Seq(LogEntry)
      BY <3>6 DEF Placed
    <3>10. Len(Log) = i /\ Log[i] = e /\ \A j \in 1..(i - 1) : Log[j] = s[j]
      BY <3>6, <3>8, <3>9
    <3>11. before[i] # sender[i]
      BY <2>6, <1>5
    <3> QED BY <3>6, <3>8, <3>10, <3>11, <1>4, <1>5
  <2> QED BY <2>5, <2>6
<1> QED BY <1>10, <1>11

\* For all logs that agree where they have an epoch at an index in common,
\* and every message the sender could build: what handle_append_entries
\* accepts makes the log the sender's up to the entry it carries and drops
\* nothing that agrees with it, what it refuses it had to refuse
\* (core/smr.cpp).
THEOREM AppendEntriesIsRight == Spec => []AppendEntriesRight
<1> DEFINE Inv == part = "append" => AppendInv
<1>1. Init => Inv
  BY InitOfPart, AppendInit
<1>2. Inv /\ [Next]_vars => Inv'
  BY NextOfPart, AppendStep
<1>3. Inv => AppendEntriesRight
  <2> SUFFICES ASSUME AppendInv PROVE L!AcceptedIsSenders /\ L!RefusedOnlyOnGap
    BY DEF AppendEntriesRight
  <2>1. PICK i \in 1..Len(sender), c \in Nat :
          /\ msg.prev_index = i - 1 /\ msg.commit = c
          /\ msg.entries = <<sender[i]>>
          /\ msg.prev_term = L!EntryAt(sender, i - 1).epoch
    BY DEF AppendInv, Asked
  <2>2. Placed(sender) /\ Placed(before) /\ L!Matching(sender, before)
    BY DEF AppendInv, Asked
  <2>3. L!Index = i
    BY <2>1 DEF L!Index
  <2>4. CASE after.reply = [success |-> FALSE]
    <3>1. after.reply.success = FALSE
      BY <2>4
    <3> QED BY <2>4, <3>1, Zenon DEF L!AcceptedIsSenders, L!RefusedOnlyOnGap
  <2>5. CASE /\ after.log = Log /\ after.commit = Commit
             /\ after.reply = L!AppendReply(Log, Receiver, msg.from,
                                            L!Safe(before, msg))
    <3>1. after.reply.success <=> L!Safe(before, msg)
      BY <2>5 DEF L!AppendReply
    <3>2. CASE L!Safe(before, msg)
      <4>1. /\ Placed(Log) /\ Len(Log) >= i
            /\ \A j \in 1..i : Log[j] = sender[j]
            /\ Len(before) >= i /\ before[i] = sender[i] => Log = before
        BY <2>1, <2>2, <3>2, Accepted
      <4>2. Commit <= Len(Log)
        <5>1. L!LastIndex(Log) = Len(Log) /\ Len(Log) \in Nat
          BY <4>1, LastIndexIsLength
        <5>2. Commit = L!LearnedCommit(Log, 0, msg)
          BY <3>2 DEF Commit
        <5> QED BY <5>1, <5>2, <2>1
              DEF L!LearnedCommit, L!CommitTo, L!CommitMoves
      <4>3. L!AcceptedIsSenders
        BY <4>1, <4>2, <2>3, <2>5 DEF L!AcceptedIsSenders
      <4>4. L!RefusedOnlyOnGap
        BY <3>1, <3>2 DEF L!RefusedOnlyOnGap
      <4> QED BY <4>3, <4>4
    <3>3. CASE ~L!Safe(before, msg)
      <4>1. Log = before /\ Commit = 0
        BY <3>3 DEF Log, Commit
      <4>2. L!LastIndex(before) = Len(before) /\ Len(before) \in Nat
        BY <2>2, LastIndexIsLength
      <4>3. i > 1
        <5> SUFFICES ASSUME i = 1 PROVE L!Safe(before, msg)
          BY <3>3
        <5> QED BY <2>1, <4>2 DEF L!Safe, L!EntryAt
      <4>4. Len(before) < i - 1 \/ before[i - 1] # sender[i - 1]
        BY <2>1, <3>3, <4>2, <4>3 DEF L!Safe, L!EntryAt
      <4>5. L!AcceptedIsSenders
        BY <3>1, <3>3 DEF L!AcceptedIsSenders
      <4>6. L!RefusedOnlyOnGap
        BY <2>1, <2>5, <4>1, <4>3, <4>4 DEF L!RefusedOnlyOnGap
      <4> QED BY <4>5, <4>6
    <3> QED BY <3>2, <3>3
  <2> QED BY <2>4, <2>5 DEF AppendInv, Answered
<1> QED BY <1>1, <1>2, <1>3, PTL DEF Spec

-----------------------------------------------------------------------------
(* The client that waits for each answer *)

\* What is between two multiples of a size is no multiple of it.
LEMMA NoMultiple ==
  ASSUME NEW s \in Nat \ {0}, NEW k \in Nat, NEW m \in Nat, 0 < m, m <= s,
         (k * s + m) % s = 0
  PROVE  m = s
<1>1. PICK a : a = k * s + m
  OBVIOUS
<1>2. PICK q : q = a \div s
  OBVIOUS
<1>3. a \in Nat /\ q \in Nat /\ a = s * q
  BY <1>1, <1>2
<1>4. s * (q - k) = m
  BY <1>1, <1>3
<1>5. q - k = 1
  <2>1. q - k > 0
    <3> SUFFICES ASSUME q - k <= 0 PROVE FALSE
      BY <1>3
    <3>1. s * (q - k) <= 0
      BY <1>3
    <3> QED BY <3>1, <1>4
  <2>2. q - k < 2
    <3> SUFFICES ASSUME q - k >= 2 PROVE FALSE
      BY <1>3
    <3>1. s * (q - k) >= s * 2
      BY <1>3
    <3> QED BY <3>1, <1>4
  <2> QED BY <2>1, <2>2, <1>3
<1> QED BY <1>4, <1>5

\* While the server stays: what it wrote and what it owes are answers to all
\* operations; each recv took a byte at least; and as long as none was cut, one
\* recv took one answer.
InStep ==
  LET waiting == IF pc = "recv" THEN 1 ELSE 0 IN
  /\ read <= written /\ owed <= loop
  /\ written = (loop - owed) * size
  /\ loop >= waiting /\ read >= loop - waiting
  /\ ~cut => read = (loop - waiting) * size /\ owed <= waiting

ClientInv ==
  /\ size \in ReplySizes
  /\ pc \in {"connect", "send", "recv", "failed", "done", "killed"}
  /\ link \in {"up", "closed", "reset"} /\ cut \in BOOLEAN
  /\ loop \in Nat /\ owed \in Nat /\ written \in Nat /\ read \in Nat
  /\ pc = "connect" => loop = 0
  /\ read <= written
  /\ link = "up" => InStep

\* Every step of the client, of the server and of the connection keeps it.
LEMMA ClientInvStep == ClientInv /\ [B!Next]_bVars => ClientInv'
<1> SUFFICES ASSUME ClientInv, [B!Next]_bVars PROVE ClientInv'
  OBVIOUS
<1>1. /\ size \in Nat \ {0} /\ RecvSize \in Nat \ {0} /\ SendNums \in Nat
      /\ loop \in Nat /\ owed \in Nat /\ written \in Nat /\ read \in Nat
  BY ClientSizes DEF ClientInv
<1>2. CASE B!Connect \/ B!Killed \/ B!Close \/ B!Reset \/ UNCHANGED bVars
  BY <1>1, <1>2 DEF ClientInv, InStep, B!Connect, B!Killed, B!Close, B!Reset, bVars
<1>3. CASE B!SendOperation
  <2>1. /\ pc = "send" /\ pc' = "recv" /\ loop' = loop + 1
        /\ owed' = IF link = "up" THEN owed + 1 ELSE owed
        /\ UNCHANGED <<size, written, read, link, cut>>
    BY <1>3 DEF B!SendOperation
  <2>2. CASE link = "up"
    <3>1. InStep'
      BY <2>1, <2>2, <1>1 DEF ClientInv, InStep
    <3> QED BY <3>1, <2>1, <2>2, <1>1 DEF ClientInv
  <2> QED BY <2>1, <2>2, <1>1 DEF ClientInv
<1>4. CASE B!Answer
  <2>1. /\ link = "up" /\ owed > 0 /\ owed' = owed - 1
        /\ written' = written + size
        /\ UNCHANGED <<size, pc, loop, read, link, cut>>
    BY <1>4 DEF B!Answer
  <2>2. (loop - (owed - 1)) * size = (loop - owed) * size + size
    BY <1>1
  <2>3. InStep'
    BY <2>1, <2>2, <1>1 DEF ClientInv, InStep
  <2> QED BY <2>1, <2>3, <1>1 DEF ClientInv
<1>5. CASE B!Recv
  <2>1. PICK k \in B!Taken : /\ read' = read + k
                             /\ cut' = (cut \/ (read + k) % size # 0)
    BY <1>5 DEF B!Recv
  <2>2. /\ pc = "recv" /\ pc' \in {"send", "done"}
        /\ UNCHANGED <<size, loop, owed, written, link>>
    BY <1>5 DEF B!Recv
  <2>3. /\ k \in Nat /\ read + k <= written
        /\ link = "up" => k > 0
    <3>1. CASE written = read
      BY <3>1, <2>1, <1>1 DEF B!Taken
    <3>2. CASE written # read
      <4>1. PICK m : m = B!Min({RecvSize, written - read})
        OBVIOUS
      <4>2. m <= written - read /\ m \in Nat
        <5>1. read < written
          BY <3>2, <1>1 DEF ClientInv
        <5> QED BY <5>1, <4>1, <1>1 DEF B!Min
      <4>3. k \in 1..m
        BY <3>2, <2>1, <4>1 DEF B!Taken
      <4> QED BY <4>2, <4>3, <1>1
    <3> QED BY <3>1, <3>2
  <2>4. ASSUME link = "up" PROVE InStep'
    <3>1. /\ owed <= loop /\ written = (loop - owed) * size
          /\ loop >= 1 /\ read >= loop - 1
          /\ ~cut => read = (loop - 1) * size /\ owed <= 1
      BY <2>2, <2>4 DEF ClientInv, InStep
    <3>2. ASSUME ~cut' PROVE read' = loop * size /\ owed = 0
      <4>1. /\ ~cut /\ (read + k) % size = 0
        BY <3>2, <2>1, <1>1
      <4>2. owed = 0
        <5>1. owed = 1 => written = read
          BY <3>1, <4>1
        <5> QED BY <5>1, <4>1, <3>1, <2>3, <2>4, <1>1
      <4>3. written = read + size
        BY <4>1, <4>2, <3>1, <1>1
      <4>4. k = size
        <5>1. loop - 1 \in Nat /\ read = (loop - 1) * size
          BY <3>1, <4>1, <1>1
        <5>2. 0 < k /\ k <= size
          BY <4>3, <2>3, <2>4, <1>1
        <5>3. ((loop - 1) * size + k) % size = 0
          BY <5>1, <4>1
        <5>4. PICK j : j = loop - 1
          OBVIOUS
        <5> QED BY <5>1, <5>2, <5>3, <5>4, <2>3, <1>1, NoMultiple
      <4> QED BY <4>1, <4>2, <4>4, <3>1, <2>1, <1>1
    <3> QED BY <3>1, <3>2, <2>1, <2>2, <2>3, <2>4, <1>1 DEF InStep
  <2>5. cut' \in BOOLEAN
    BY <2>1
  <2> QED BY <2>1, <2>2, <2>3, <2>4, <2>5, <1>1 DEF ClientInv
<1> QED BY <1>2, <1>3, <1>4, <1>5 DEF B!Next

\* For every size of answers and of reads, the blocking client is in step with
\* its server unless an answer was cut, and never ahead of it (app/client.cpp).
THEOREM ClientStaysInStep == Spec => []ClientInStep
<1> DEFINE Inv == part = "client" => ClientInv
<1>1. Init => Inv
  <2> SUFFICES ASSUME Init, part = "client" PROVE ClientInv
    OBVIOUS
  <2>1. B!Init
    BY InitOfPart
  <2>2. /\ size \in ReplySizes /\ pc = "connect" /\ loop = 0 /\ owed = 0
        /\ written = 0 /\ read = 0 /\ link = "up" /\ cut = FALSE
    BY <2>1 DEF B!Init
  <2>3. size \in Nat /\ (0 - 0) * size = 0
    BY <2>2, ClientSizes
  <2>4. InStep
    BY <2>2, <2>3 DEF InStep
  <2>5. cut \in BOOLEAN
    BY <2>2, Zenon
  <2>6. /\ loop \in Nat /\ owed \in Nat /\ written \in Nat /\ read \in Nat
        /\ read <= written
    BY <2>2
  <2>7. /\ pc \in {"connect", "send", "recv", "failed", "done", "killed"}
        /\ link \in {"up", "closed", "reset"}
    BY <2>2
  <2> QED BY <2>2, <2>4, <2>5, <2>6, <2>7, Zenon DEF ClientInv
<1>2. Inv /\ [Next]_vars => Inv'
  BY NextOfPart, ClientInvStep
<1>3. Inv => ClientInStep
  <2> SUFFICES ASSUME ClientInv PROVE B!AnsweredInStep /\ B!AheadIsBounded
    BY DEF ClientInStep
  <2> QED BY ClientSizes
          DEF ClientInv, InStep, B!AnsweredInStep, B!AheadIsBounded
<1> QED BY <1>1, <1>2, <1>3, PTL DEF Spec

-----------------------------------------------------------------------------
(* The arena.  The bytes that remain are the end of the current block, and *)
(* no piece of that block reaches into them.                               *)

Pieces == [block : Nat, first : Nat, bytes : Nat, aligned : BOOLEAN]

ArenaTypes ==
  /\ blocks \in Seq(Nat)
  /\ alloc \in [block : Nat, offset : Nat]
  /\ remaining \in Nat
  /\ given \in Seq(Pieces)

RestIsFree ==
  /\ alloc.block \in 0..Len(blocks)
  /\ alloc.block = 0 => remaining = 0
  /\ alloc.block # 0 => alloc.offset + remaining = blocks[alloc.block]
  /\ \A i \in DOMAIN given : given[i].block = alloc.block =>
       given[i].first + given[i].bytes <= alloc.offset

PiecesInv == ArenaTypes /\ RestIsFree /\ A!PiecesApart


\* What appending does to a sequence
LEMMA AppendFacts ==
  ASSUME NEW S, NEW q \in Seq(S), NEW x \in S
  PROVE  LET t == Append(q, x) IN
           /\ t \in Seq(S) /\ Len(t) = Len(q) + 1 /\ t[Len(q) + 1] = x
           /\ \A i \in 1..Len(q) : t[i] = q[i]
           /\ DOMAIN q = 1..Len(q) /\ DOMAIN t = 1..(Len(q) + 1)
           /\ Len(q) \in Nat
OBVIOUS

\* A!Slop bytes on, an offset is a multiple of the alignment.
LEMMA SlopAligns ==
  ASSUME NEW o \in Nat
  PROVE  A!Slop(o) \in Nat /\ (o + A!Slop(o)) % PtrSize = 0
<1> DEFINE q == o \div PtrSize
           rest == o % PtrSize
<1>1. PtrSize \in Nat \ {0}
  BY ArenaSizes
<1>2. q \in Nat /\ rest \in 0..(PtrSize - 1) /\ o = PtrSize * q + rest
  BY <1>1
<1>3. A!Slop(o) = (PtrSize - rest) % PtrSize
  BY DEF A!Slop
<1> HIDE DEF q, rest
<1>4. CASE rest = 0
  <2>1. A!Slop(o) = 0
    BY <1>1, <1>3, <1>4
  <2>2. o + A!Slop(o) = PtrSize * q
    BY <1>1, <1>2, <1>4, <2>1
  <2>3. (PtrSize * q) % PtrSize = 0
    BY <1>1, <1>2
  <2> QED BY <2>1, <2>2, <2>3
<1>5. CASE rest # 0
  <2>1. PtrSize - rest \in 0..(PtrSize - 1)
    BY <1>1, <1>2, <1>5
  <2>2. A!Slop(o) = PtrSize - rest
    BY <1>1, <1>3, <2>1
  <2>3. o + A!Slop(o) = PtrSize * (q + 1)
    BY <1>1, <1>2, <2>2
  <2>4. (PtrSize * (q + 1)) % PtrSize = 0
    BY <1>1, <1>2
  <2> QED BY <2>1, <2>2, <2>3, <2>4
<1> QED BY <1>4, <1>5

\* An aligned piece that lies in its block and apart from all others may be
\* handed out.
LEMMA MayBeGiven ==
  ASSUME ArenaTypes, A!PiecesApart,
         NEW p \in Pieces, given' = Append(given, p),
         blocks' \in Seq(Nat), Len(blocks) <= Len(blocks'),
         \A b \in 1..Len(blocks) : blocks'[b] = blocks[b],
         p.block \in 1..Len(blocks'), p.first + p.bytes <= blocks'[p.block],
         p.aligned => p.first % PtrSize = 0,
         \A i \in DOMAIN given : A!Apart(given[i], p)
  PROVE  given' \in Seq(Pieces) /\ A!PiecesApart'
<1> DEFINE k == Len(given)
<1>1. /\ given' \in Seq(Pieces) /\ k \in Nat /\ given'[k + 1] = p
      /\ DOMAIN given = 1..k /\ DOMAIN given' = 1..(k + 1)
      /\ \A i \in 1..k : given'[i] = given[i] /\ given[i] \in Pieces
  BY AppendFacts DEF ArenaTypes
<1>2. Len(blocks) \in Nat /\ Len(blocks') \in Nat
  BY DEF ArenaTypes
<1>3. A!PiecesInside'
  <2> SUFFICES ASSUME NEW i \in 1..(k + 1) 
               PROVE  /\ given'[i].block \in 1..Len(blocks')
                      /\ given'[i].first + given'[i].bytes
                           <= blocks'[given'[i].block]
    BY <1>1 DEF A!PiecesInside, A!InsideBlock
  <2>1. CASE i = k + 1
    BY <1>1, <2>1
  <2>2. CASE i \in 1..k
    <3>1. A!InsideBlock(given[i])
      BY <1>1, <2>2 DEF A!PiecesApart, A!PiecesInside
    <3> QED BY <1>1, <1>2, <2>2, <3>1 DEF A!InsideBlock
  <2>3. i \in 1..k \/ i = k + 1
    BY <1>1
  <2> QED BY <2>1, <2>2, <2>3
<1>4. A!PiecesDisjoint'
  <2> SUFFICES ASSUME NEW i \in 1..(k + 1), NEW j \in 1..(k + 1), i # j
               PROVE  A!Apart(given'[i], given'[j])
    BY <1>1 DEF A!PiecesDisjoint
  <2>1. CASE i \in 1..k /\ j \in 1..k
    BY <1>1, <2>1 DEF A!PiecesApart, A!PiecesDisjoint
  <2>2. CASE i = k + 1 /\ j \in 1..k
    <3>1. A!Apart(given[j], p)
      BY <1>1, <2>2
    <3> QED BY <1>1, <2>2, <3>1 DEF A!Apart
  <2>3. CASE j = k + 1 /\ i \in 1..k
    BY <1>1, <2>3
  <2> QED BY <1>1, <2>1, <2>2, <2>3
<1>5. A!PiecesAligned'
  BY <1>1 DEF A!PiecesApart, A!PiecesAligned
<1> QED BY <1>1, <1>3, <1>4, <1>5 DEF A!PiecesApart

\* The front of what remains is free.
LEMMA BumpKeepsInv ==
  ASSUME PiecesInv, NEW slop \in Nat, NEW bytes \in Nat \ {0},
         NEW aligned \in BOOLEAN, A!Bump(slop, bytes, aligned),
         aligned => (alloc.offset + slop) % PtrSize = 0
  PROVE  PiecesInv'
<1> DEFINE p == A!Piece(alloc.block, alloc.offset + slop, bytes, aligned)
<1>1. /\ alloc.block \in Nat /\ alloc.offset \in Nat /\ remaining \in Nat
      /\ alloc = [block |-> alloc.block, offset |-> alloc.offset]
      /\ blocks' = blocks /\ blocks \in Seq(Nat) /\ Len(blocks) \in Nat
      /\ given \in Seq(Pieces)
  BY DEF PiecesInv, ArenaTypes, A!Bump
<1>2. /\ alloc' = [block |-> alloc.block,
                   offset |-> alloc.offset + slop + bytes]
      /\ remaining' = remaining - (slop + bytes)
      /\ slop + bytes <= remaining
      /\ given' = Append(given, p)
  BY <1>1 DEF A!Bump
<1>3. alloc.block \in 1..Len(blocks)
  BY <1>1, <1>2 DEF PiecesInv, RestIsFree
<1>4. alloc.offset + remaining = blocks[alloc.block]
      /\ blocks[alloc.block] \in Nat
  BY <1>1, <1>3 DEF PiecesInv, RestIsFree
<1>5. /\ p \in Pieces /\ p.block = alloc.block
      /\ p.first = alloc.offset + slop /\ p.bytes = bytes
      /\ p.aligned = aligned
  BY <1>1 DEF A!Piece, Pieces
<1> HIDE DEF p
<1>6. p.block \in 1..Len(blocks') /\ p.first + p.bytes <= blocks'[p.block]
  BY <1>1, <1>2, <1>3, <1>4, <1>5
<1>7. \A i \in DOMAIN given : A!Apart(given[i], p)
  <2> SUFFICES ASSUME NEW i \in DOMAIN given, given[i].block = alloc.block
               PROVE  given[i].first + given[i].bytes <= p.first
    BY <1>5 DEF A!Apart
  <2>1. given[i].first + given[i].bytes <= alloc.offset
    BY DEF PiecesInv, RestIsFree
  <2>2. given[i] \in Pieces
    BY <1>1
  <2> QED BY <2>1, <2>2, <1>1, <1>5 DEF Pieces
<1>8. given' \in Seq(Pieces) /\ A!PiecesApart'
  <2>1. /\ ArenaTypes /\ A!PiecesApart /\ blocks' \in Seq(Nat)
        /\ Len(blocks) <= Len(blocks')
        /\ \A b \in 1..Len(blocks) : blocks'[b] = blocks[b]
    BY <1>1 DEF PiecesInv
  <2>2. given' = Append(given, p) /\ (p.aligned => p.first % PtrSize = 0)
    BY <1>2, <1>5
  <2> QED BY <2>1, <2>2, <1>5, <1>6, <1>7, MayBeGiven
<1>9. /\ alloc'.block = alloc.block
      /\ alloc'.offset = alloc.offset + slop + bytes
      /\ alloc' \in [block : Nat, offset : Nat] /\ remaining' \in Nat
  BY <1>1, <1>2
<1>10. RestIsFree'
  <2>1. \A i \in DOMAIN given' : given'[i].block = alloc'.block =>
          given'[i].first + given'[i].bytes <= alloc'.offset
    <3> SUFFICES ASSUME NEW i \in DOMAIN given',
                        given'[i].block = alloc.block
                 PROVE  given'[i].first + given'[i].bytes
                          <= alloc.offset + slop + bytes
      BY <1>9
    <3>1. CASE i = Len(given) + 1
      <4>1. given'[i] = p
        BY <1>1, <1>2, <1>5, <3>1, AppendFacts
      <4>2. p.first + p.bytes <= alloc.offset + slop + bytes
        BY <1>1, <1>5
      <4> QED BY <4>1, <4>2
    <3>2. CASE i \in DOMAIN given
      <4>1. given'[i] = given[i] /\ given[i] \in Pieces
        BY <1>1, <1>2, <1>5, <3>2, AppendFacts
      <4>2. given[i].first + given[i].bytes <= alloc.offset
        BY <3>2, <4>1 DEF PiecesInv, RestIsFree
      <4> QED BY <1>1, <4>1, <4>2 DEF Pieces
    <3>3. i \in DOMAIN given \/ i = Len(given) + 1
      <4>1. /\ DOMAIN given = 1..Len(given) /\ Len(given) \in Nat
            /\ DOMAIN given' = 1..(Len(given) + 1)
        BY <1>1, <1>2, <1>5, AppendFacts
      <4> QED BY <4>1
    <3> QED BY <3>1, <3>2, <3>3
  <2>2. /\ alloc'.block \in 0..Len(blocks') /\ alloc'.block # 0
        /\ alloc'.offset + remaining' = blocks'[alloc'.block]
    <3>1. alloc'.block = alloc.block /\ blocks' = blocks
      BY <1>1, <1>9
    <3>2. alloc'.offset + remaining' = alloc.offset + remaining
      BY <1>1, <1>2, <1>9
    <3> QED BY <1>1, <1>3, <1>4, <3>1, <3>2
  <2> QED BY <2>1, <2>2 DEF RestIsFree
<1> QED BY <1>1, <1>8, <1>9, <1>10 DEF PiecesInv, ArenaTypes

\* A new block of s bytes, for one piece alone or to go on with
Opened(bytes, aligned, s) ==
  /\ blocks' = Append(blocks, s) /\ usage' = usage + s + PtrSize
  /\ given' = Append(given, A!Piece(Len(blocks'), 0, bytes, aligned))
  /\ \/ s = bytes /\ alloc' = alloc /\ remaining' = remaining
     \/ /\ bytes <= BlockSize \div 4 /\ bytes <= s
        /\ alloc' = [block |-> Len(blocks'), offset |-> bytes]
        /\ remaining' = s - bytes

LEMMA FallbackOpens ==
  ASSUME NEW bytes \in Nat \ {0}, NEW aligned \in BOOLEAN,
         A!Fallback(bytes, aligned)
  PROVE  \E s \in Nat : Opened(bytes, aligned, s)
<1>1. CASE bytes > BlockSize \div 4
  <2>1. bytes \in Nat /\ ~(bytes <= BlockSize \div 4)
    BY <1>1, ArenaSizes
  <2>2. Opened(bytes, aligned, bytes)
    BY <2>1, <1>1 DEF A!Fallback, A!NewBlock, Opened
  <2> QED BY <2>1, <2>2
<1>2. CASE bytes <= BlockSize \div 4
  <2>1. BlockSize \in Nat /\ bytes <= BlockSize
    BY <1>2, ArenaSizes
  <2>2. Opened(bytes, aligned, BlockSize)
    BY <1>2, <2>1, ArenaSizes DEF A!Fallback, A!NewBlock, Opened
  <2> QED BY <2>1, <2>2
<1> QED BY <1>1, <1>2, ArenaSizes

\* Nothing of a new block was handed out before.
LEMMA FallbackKeepsInv ==
  ASSUME PiecesInv, NEW bytes \in Nat \ {0},
         NEW aligned \in BOOLEAN, A!Fallback(bytes, aligned)
  PROVE  PiecesInv'
<1> DEFINE k == Len(blocks)
           p == A!Piece(k + 1, 0, bytes, aligned)
<1>1. /\ alloc.block \in 0..k /\ alloc.offset \in Nat /\ remaining \in Nat
      /\ blocks \in Seq(Nat) /\ k \in Nat /\ given \in Seq(Pieces)
      /\ alloc \in [block : Nat, offset : Nat]
  BY DEF PiecesInv, ArenaTypes, RestIsFree
<1>2. PICK s \in Nat : Opened(bytes, aligned, s)
  BY FallbackOpens DEF PiecesInv
<1>3. /\ blocks' = Append(blocks, s) /\ bytes <= s
      /\ \/ alloc' = alloc /\ remaining' = remaining
         \/ /\ alloc' = [block |-> Len(blocks'), offset |-> bytes]
            /\ remaining' = s - bytes
      /\ given' = Append(given, A!Piece(Len(blocks'), 0, bytes, aligned))
  BY <1>2, ArenaSizes DEF Opened
<1>4. /\ blocks' \in Seq(Nat) /\ Len(blocks') = k + 1
      /\ blocks'[k + 1] = s
      /\ \A b \in 1..k : blocks'[b] = blocks[b]
  BY <1>1, <1>3, AppendFacts
<1>5. given' = Append(given, p)
  BY <1>3, <1>4
<1>6. p \in Pieces /\ p.block = k + 1 /\ p.first = 0 /\ p.bytes = bytes
      /\ (p.aligned => p.first % PtrSize = 0)
  BY <1>1, ArenaSizes DEF A!Piece, Pieces
<1> HIDE DEF p
<1>7. p.block \in 1..Len(blocks') /\ p.first + p.bytes <= blocks'[p.block]
  BY <1>1, <1>3, <1>4, <1>6
<1>8. \A i \in DOMAIN given : given[i] \in Pieces /\ given[i].block \in 1..k
  BY <1>1 DEF PiecesInv, A!PiecesApart, A!PiecesInside, A!InsideBlock
<1>9. \A i \in DOMAIN given : A!Apart(given[i], p)
  BY <1>1, <1>6, <1>8 DEF A!Apart
<1>10. given' \in Seq(Pieces) /\ A!PiecesApart'
  <2>1. /\ ArenaTypes /\ A!PiecesApart /\ blocks' \in Seq(Nat)
        /\ Len(blocks) <= Len(blocks')
        /\ \A b \in 1..Len(blocks) : blocks'[b] = blocks[b]
    BY <1>1, <1>4 DEF PiecesInv
  <2> QED BY <2>1, <1>5, <1>6, <1>7, <1>9, MayBeGiven
<1>11. /\ DOMAIN given' = 1..(Len(given) + 1) /\ DOMAIN given = 1..Len(given)
       /\ given'[Len(given) + 1] = p /\ Len(given) \in Nat
       /\ \A i \in DOMAIN given : given'[i] = given[i]
  BY <1>1, <1>5, <1>6, AppendFacts
<1>12. \A i \in DOMAIN given' : i \in DOMAIN given \/ given'[i] = p
  BY <1>11
<1>13. CASE alloc' = alloc /\ remaining' = remaining
  <2>1. \A i \in DOMAIN given' : given'[i].block = alloc.block =>
          given'[i].first + given'[i].bytes <= alloc.offset
    <3> SUFFICES ASSUME NEW i \in DOMAIN given',
                        given'[i].block = alloc.block
                 PROVE  given'[i].first + given'[i].bytes <= alloc.offset
      OBVIOUS
    <3>1. i \in DOMAIN given
      BY <1>1, <1>6, <1>12
    <3> QED BY <3>1, <1>11 DEF PiecesInv, RestIsFree
  <2>2. RestIsFree'
    BY <1>1, <1>4, <1>13, <2>1 DEF PiecesInv, RestIsFree
  <2> QED BY <1>1, <1>4, <1>10, <1>13, <2>2 DEF PiecesInv, ArenaTypes
<1>14. CASE /\ alloc' = [block |-> Len(blocks'), offset |-> bytes]
            /\ remaining' = s - bytes
  <2>1. /\ alloc'.block = k + 1 /\ alloc'.offset = bytes
        /\ alloc' \in [block : Nat, offset : Nat] /\ remaining' \in Nat
    BY <1>1, <1>3, <1>4, <1>14
  <2>2. \A i \in DOMAIN given' : given'[i].block = k + 1 =>
          given'[i].first + given'[i].bytes <= bytes
    BY <1>1, <1>6, <1>8, <1>11, <1>12
  <2>3. RestIsFree'
    BY <1>1, <1>3, <1>4, <1>14, <2>1, <2>2 DEF RestIsFree
  <2> QED BY <1>4, <1>10, <2>1, <2>3 DEF PiecesInv, ArenaTypes
<1> QED BY <1>3, <1>13, <1>14

\* What was handed out stays so, and what a piece ends at is used.
LEMMA UsedGrows ==
  ASSUME given \in Seq(Pieces), NEW p \in Pieces, given' = Append(given, p)
  PROVE  /\ \A b : A!Used(b) \subseteq A!Used(b)'
         /\ \A b : p.block = b => p.first + p.bytes \in A!Used(b)'
<1>1. /\ DOMAIN given = 1..Len(given) /\ DOMAIN given' = 1..(Len(given) + 1)
      /\ given'[Len(given) + 1] = p /\ Len(given) \in Nat
      /\ \A i \in 1..Len(given) : given'[i] = given[i]
  BY AppendFacts
<1>2. A!ToSet(given) \subseteq A!ToSet(given') /\ p \in A!ToSet(given')
  BY <1>1 DEF A!ToSet
<1> QED BY <1>2 DEF A!Used

\* The pieces of the current block reach to what remains, and the blocks left
\* behind are used but for less than a small request and its alignment.
WasteInv ==
  /\ A!WasteIsBounded
  /\ alloc.block # 0 => alloc.offset \in A!Used(alloc.block)

LEMMA BumpKeepsWaste ==
  ASSUME PiecesInv, WasteInv, NEW slop \in Nat, NEW bytes \in Nat \ {0},
         NEW aligned \in BOOLEAN, A!Bump(slop, bytes, aligned)
  PROVE  WasteInv'
<1>1. PICK p : p = A!Piece(alloc.block, alloc.offset + slop, bytes, aligned)
  OBVIOUS
<1>2. /\ alloc.block \in Nat /\ alloc.offset \in Nat
      /\ alloc = [block |-> alloc.block, offset |-> alloc.offset]
      /\ given \in Seq(Pieces)
  BY DEF PiecesInv, ArenaTypes
<1>3. /\ p \in Pieces /\ p.block = alloc.block
      /\ p.first + p.bytes = alloc.offset + slop + bytes
  BY <1>1, <1>2 DEF A!Piece, Pieces
<1>4. /\ blocks' = blocks /\ given' = Append(given, p)
      /\ alloc'.block = alloc.block
      /\ alloc'.offset = alloc.offset + slop + bytes
  BY <1>1, <1>2 DEF A!Bump
<1>5. \A b : A!Used(b) \subseteq A!Used(b)'
  BY <1>2, <1>3, <1>4, UsedGrows
<1>6. A!WasteIsBounded'
  BY <1>4, <1>5 DEF WasteInv, A!WasteIsBounded
<1>7. alloc'.offset \in A!Used(alloc.block)'
  <2>1. PICK b : b = alloc.block
    OBVIOUS
  <2>2. p.first + p.bytes \in A!Used(b)'
    BY <2>1, <1>2, <1>3, <1>4, UsedGrows
  <2>3. alloc'.block = b
    BY <2>1, <1>4
  <2> QED BY <2>2, <2>3, <1>3, <1>4 DEF A!Used
<1> QED BY <1>6, <1>7, <1>4 DEF WasteInv, A!Used

LEMMA FallbackKeepsWaste ==
  ASSUME PiecesInv, WasteInv, NEW slop \in 0..PtrSize - 1,
         NEW bytes \in Nat \ {0}, NEW aligned \in BOOLEAN,
         slop + bytes > remaining, A!Fallback(bytes, aligned)
  PROVE  WasteInv'
<1>1. PICK s \in Nat : Opened(bytes, aligned, s)
  BY FallbackOpens
<1>2. PICK k : k = Len(blocks)
  OBVIOUS
<1>3. /\ alloc.block \in 0..k /\ alloc.offset \in Nat /\ remaining \in Nat
      /\ alloc.block # 0 => alloc.offset + remaining = blocks[alloc.block]
      /\ blocks \in Seq(Nat) /\ k \in Nat /\ given \in Seq(Pieces)
      /\ PtrSize \in Nat \ {0} /\ BlockSize \in Nat
  BY <1>2, ArenaSizes DEF PiecesInv, ArenaTypes, RestIsFree
<1>4. /\ blocks' \in Seq(Nat) /\ Len(blocks') = k + 1 /\ blocks'[k + 1] = s
      /\ \A b \in 1..k : blocks'[b] = blocks[b]
  BY <1>1, <1>2, <1>3, AppendFacts DEF Opened
<1>5. PICK p : p = A!Piece(k + 1, 0, bytes, aligned)
  OBVIOUS
<1>6. /\ p \in Pieces /\ p.block = k + 1 /\ p.first + p.bytes = bytes
      /\ given' = Append(given, p)
  BY <1>1, <1>3, <1>4, <1>5 DEF A!Piece, Pieces, Opened
<1>7. (\A b : A!Used(b) \subseteq A!Used(b)') /\ bytes \in A!Used(k + 1)'
  BY <1>3, <1>6, UsedGrows
<1>8. PICK q \in Nat : q = BlockSize \div 4
  BY <1>3
<1>9. ASSUME NEW b \in 1..k, b # alloc.block
      PROVE  \E u \in A!Used(b)' : blocks'[b] - u < q + PtrSize
  <2>1. PICK u \in A!Used(b) : blocks[b] - u < q + PtrSize
    BY <1>2, <1>8, <1>9 DEF WasteInv, A!WasteIsBounded
  <2> QED BY <2>1, <1>4, <1>7
<1>10. ASSUME s = bytes, alloc' = alloc
       PROVE  WasteInv'
  <2>1. ASSUME NEW b \in 1..(k + 1), b # alloc.block
        PROVE  \E u \in A!Used(b)' : blocks'[b] - u < q + PtrSize
    <3>1. CASE b = k + 1
      <4>1. blocks'[b] - bytes < q + PtrSize
        BY <3>1, <1>3, <1>4, <1>8, <1>10
      <4> QED BY <4>1, <3>1, <1>7
    <3> QED BY <3>1, <2>1, <1>3, <1>9
  <2>2. A!WasteIsBounded'
    BY <2>1, <1>4, <1>8, <1>10 DEF A!WasteIsBounded, A!Used
  <2>3. PICK b : b = alloc.block
    OBVIOUS
  <2>4. b # 0 => alloc.offset \in A!Used(b)'
    BY <2>3, <1>7 DEF WasteInv
  <2>5. alloc'.block = b /\ alloc'.offset = alloc.offset
    BY <2>3, <1>10
  <2> QED BY <2>2, <2>4, <2>5 DEF WasteInv, A!Used
<1>11. ASSUME bytes <= q, alloc' = [block |-> k + 1, offset |-> bytes]
       PROVE  WasteInv'
  <2>1. alloc'.block = k + 1 /\ alloc'.offset = bytes
    BY <1>11
  <2>2. ASSUME NEW b \in 1..(k + 1), b # k + 1
        PROVE  \E u \in A!Used(b)' : blocks'[b] - u < q + PtrSize
    <3>1. b \in 1..k
      BY <2>2, <1>3
    <3>2. CASE b = alloc.block
      <4>1. alloc.offset \in A!Used(b)
        BY <3>1, <3>2, <1>3 DEF WasteInv
      <4>2. blocks'[b] = alloc.offset + remaining
        BY <3>1, <3>2, <1>3, <1>4
      <4>3. blocks'[b] - alloc.offset < q + PtrSize
        BY <4>2, <1>3, <1>8, <1>11
      <4> QED BY <4>1, <4>3, <1>7
    <3> QED BY <3>1, <3>2, <1>9
  <2>3. A!WasteIsBounded'
    BY <2>1, <2>2, <1>4, <1>8 DEF A!WasteIsBounded, A!Used
  <2> QED BY <2>1, <2>3, <1>7 DEF WasteInv, A!Used
<1> QED BY <1>1, <1>4, <1>8, <1>10, <1>11 DEF Opened

\* The counter is the number of the bytes of all blocks.
UsageInv == usage \in Nat /\ A!UsageCounts

LEMMA FallbackKeepsUsage ==
  ASSUME PiecesInv, UsageInv, NEW bytes \in Nat \ {0},
         NEW aligned \in BOOLEAN, A!Fallback(bytes, aligned)
  PROVE  UsageInv'
<1>1. PICK s \in Nat : Opened(bytes, aligned, s)
  BY FallbackOpens
<1>2. PICK k : k = Len(blocks)
  OBVIOUS
<1>3. /\ blocks \in Seq(Nat) /\ k \in Nat /\ PtrSize \in Nat
      /\ Len(blocks') = k + 1 /\ blocks'[k + 1] = s
      /\ \A b \in 1..k : blocks'[b] = blocks[b] /\ blocks[b] \in Nat
  <2>1. blocks \in Seq(Nat) /\ PtrSize \in Nat /\ blocks' = Append(blocks, s)
    BY <1>1, ArenaSizes DEF PiecesInv, ArenaTypes, Opened
  <2> QED BY <2>1, <1>2, AppendFacts
<1>4. PICK f : f = [b \in 1..k |-> blocks[b] + PtrSize]
  OBVIOUS
<1>5. PICK g : g = [b \in 1..(k + 1) |-> blocks'[b] + PtrSize]
  OBVIOUS
<1>6. A!Bytes = Cells(f, k)
  BY <1>2, <1>4 DEF A!Bytes, Cells
<1>7. A!Bytes' = Cells(g, k + 1)
  BY <1>3, <1>5 DEF A!Bytes, Cells
<1>8. Sized(g, k + 1) /\ g[k + 1] = s + PtrSize /\ \A b \in 1..k : f[b] = g[b]
  <2>1. \A b \in 1..(k + 1) : blocks'[b] \in Nat
    BY <1>3
  <2>2. \A b \in 1..(k + 1) : g[b] = blocks'[b] + PtrSize
    BY <1>5
  <2> QED BY <2>1, <2>2, <1>3, <1>4 DEF Sized
<1>9. Cells(f, k) = Cells(g, k)
  BY <1>3, <1>8, CellsSame
<1>10. PICK m : m = Cardinality(Cells(g, k))
  OBVIOUS
<1>11. Cardinality(Cells(g, k + 1)) = m + (s + PtrSize)
  <2>1. Cardinality(Cells(g, k + 1)) = Cardinality(Cells(g, k)) + g[k + 1]
    BY <1>3, <1>8, CellsNext
  <2> QED BY <2>1, <1>8, <1>10
<1>12. usage = m /\ m \in Nat
  BY <1>6, <1>9, <1>10, SameCardinality DEF UsageInv, A!UsageCounts
<1>13. usage' = m + (s + PtrSize)
  <2>1. usage' = usage + s + PtrSize
    BY <1>1 DEF Opened
  <2> QED BY <2>1, <1>3, <1>12
<1>14. A!UsageCounts'
  BY <1>7, <1>11, <1>13, SameCardinality DEF A!UsageCounts
<1>15. usage' \in Nat
  BY <1>1, <1>3, <1>12, <1>13
<1> QED BY <1>14, <1>15 DEF UsageInv

ArenaInv == PiecesInv /\ WasteInv /\ UsageInv

\* Each of the two allocations takes the front of the rest or a new block.
LEMMA ArenaInvStep == ArenaInv /\ [A!Next]_aVars => ArenaInv'
<1> SUFFICES ASSUME ArenaInv, [A!Next]_aVars PROVE ArenaInv'
  OBVIOUS
<1>1. ASSUME NEW slop \in Nat, NEW bytes \in Nat \ {0}, NEW aligned \in BOOLEAN,
             A!Bump(slop, bytes, aligned),
             aligned => (alloc.offset + slop) % PtrSize = 0
      PROVE  ArenaInv'
  <2>1. blocks' = blocks /\ usage' = usage
    BY <1>1 DEF A!Bump
  <2>2. UsageInv'
    BY <2>1 DEF ArenaInv, UsageInv, A!UsageCounts, A!Bytes
  <2> QED BY <2>2, <1>1, BumpKeepsInv, BumpKeepsWaste DEF ArenaInv
<1>2. ASSUME NEW slop \in 0..PtrSize - 1, NEW bytes \in Nat \ {0},
             NEW aligned \in BOOLEAN, slop + bytes > remaining,
             A!Fallback(bytes, aligned)
      PROVE  ArenaInv'
  BY <1>2, FallbackKeepsInv, FallbackKeepsWaste, FallbackKeepsUsage DEF ArenaInv
<1>3. ASSUME NEW bytes \in Requests, A!Allocate(bytes) PROVE ArenaInv'
  <2>1. bytes \in Nat \ {0} /\ 0 \in 0..PtrSize - 1 /\ 0 + bytes = bytes
    BY ArenaSizes
  <2>2. CASE A!Bump(0, bytes, FALSE)
    BY <2>1, <2>2, <1>1
  <2>3. CASE bytes > remaining /\ A!Fallback(bytes, FALSE)
    BY <2>1, <2>3, <1>2, <1>3 DEF A!Allocate
  <2> QED BY <2>2, <2>3, <1>3 DEF A!Allocate
<1>4. ASSUME NEW bytes \in Requests, A!AllocateAligned(bytes) PROVE ArenaInv'
  <2>1. PICK slop : slop = A!Slop(alloc.offset)
    OBVIOUS
  <2>2. slop \in Nat /\ (alloc.offset + slop) % PtrSize = 0
    BY <2>1, SlopAligns DEF ArenaInv, PiecesInv, ArenaTypes
  <2>3. slop \in 0..PtrSize - 1
    <3>1. PICK z : z = PtrSize - (alloc.offset % PtrSize)
      OBVIOUS
    <3>2. z \in Nat /\ PtrSize \in Nat \ {0}
      BY <3>1, ArenaSizes DEF ArenaInv, PiecesInv, ArenaTypes
    <3>3. slop = z % PtrSize
      BY <2>1, <3>1 DEF A!Slop
    <3> QED BY <3>2, <3>3
  <2>4. bytes \in Nat \ {0}
    BY ArenaSizes
  <2>5. CASE A!Bump(slop, bytes, TRUE)
    BY <2>2, <2>4, <2>5, <1>1
  <2>6. CASE slop + bytes > remaining /\ A!Fallback(bytes, TRUE)
    BY <2>3, <2>4, <2>6, <1>2, <1>4 DEF A!AllocateAligned
  <2> QED BY <2>1, <2>5, <2>6, <1>4 DEF A!AllocateAligned
<1>5. CASE UNCHANGED aVars
  <2>1. UNCHANGED <<blocks, alloc, remaining, usage, given>>
    BY <1>5 DEF aVars
  <2>2. PiecesInv'
    BY <2>1 DEF ArenaInv, PiecesInv, ArenaTypes, RestIsFree, A!PiecesApart,
       A!PiecesInside, A!InsideBlock, A!PiecesDisjoint, A!Apart, A!PiecesAligned
  <2>3. WasteInv' /\ UsageInv'
    BY <2>1 DEF ArenaInv, WasteInv, A!WasteIsBounded, A!Used, UsageInv,
       A!UsageCounts, A!Bytes
  <2> QED BY <2>2, <2>3 DEF ArenaInv
<1> QED BY <1>3, <1>4, <1>5 DEF A!Next

\* Nothing remains of a null block, and nothing was handed out.
LEMMA ArenaInvInit == A!Init => ArenaInv
<1> SUFFICES ASSUME A!Init PROVE ArenaInv
  OBVIOUS
<1>1. /\ blocks = << >> /\ given = << >> /\ remaining = 0 /\ usage = 0
      /\ alloc = [block |-> 0, offset |-> 0]
      /\ DOMAIN << >> = {} /\ Len(<< >>) = 0
  BY DEF A!Init
<1>2. PiecesInv
  BY <1>1 DEF PiecesInv, ArenaTypes, RestIsFree, A!PiecesApart, A!PiecesInside,
     A!PiecesDisjoint, A!PiecesAligned, Pieces
<1>3. WasteInv
  BY <1>1 DEF WasteInv, A!WasteIsBounded
<1>4. A!Bytes = {}
  BY <1>1 DEF A!Bytes
<1>5. Cardinality(A!Bytes) = 0
  BY <1>4, FS_EmptySet
<1> QED BY <1>1, <1>2, <1>3, <1>5, SameCardinality
        DEF ArenaInv, UsageInv, A!UsageCounts

\* For all sizes of blocks, pointers and requests, and in every order of the
\* requests: no byte is handed out twice, little is wasted, and the usage is
\* right (extra/arena.cpp).
THEOREM ArenaIsRight == Spec => []ArenaRight
<1> DEFINE Inv == part = "arena" => ArenaInv
<1>1. Init => Inv
  BY InitOfPart, ArenaInvInit
<1>2. Inv /\ [Next]_vars => Inv'
  BY NextOfPart, ArenaInvStep
<1>3. Inv => ArenaRight
  BY DEF ArenaRight, ArenaInv, PiecesInv, WasteInv, UsageInv
<1> QED BY <1>1, <1>2, <1>3, PTL DEF Spec

-----------------------------------------------------------------------------
(* Framing *)

\* A set of numbers that has with each number all smaller ones is an interval.
LEMMA DownToZero ==
  ASSUME NEW m \in Nat, NEW S, S \subseteq 0..m, 0 \in S,
         \A k \in S : 0..k \subseteq S
  PROVE  \E w \in S : S = 0..w
<1>1. IsFiniteSet(0..m)
  BY FS_Interval
<1>2. PICK c \in Nat : IsFiniteSet(S) /\ c = Cardinality(S)
  BY <1>1, FS_Subset, FS_CardinalityType
<1>3. ASSUME NEW k \in S PROVE k + 1 <= c
  <2>1. k \in Nat /\ 0..k \subseteq S
    OBVIOUS
  <2>2. PICK T : T = 0..k
    OBVIOUS
  <2>3. Cardinality(T) = k + 1
    BY <2>1, <2>2, FS_Interval
  <2>4. Cardinality(T) <= Cardinality(S)
    BY <2>1, <2>2, <1>2, FS_Subset
  <2> QED BY <2>3, <2>4, <1>2
<1>4. c - 1 \in Nat
  BY <1>3, <1>2
<1>5. PICK w \in Nat : w = c - 1
  BY <1>4
<1>6. PICK T : T = 0..w
  OBVIOUS
<1>7. S \subseteq T
  BY <1>3, <1>5, <1>6
<1>8. IsFiniteSet(T) /\ Cardinality(T) = w + 1
  BY <1>6, FS_Interval
<1>9. Cardinality(S) = Cardinality(T)
  BY <1>2, <1>5, <1>8
<1>10. S = T
  BY <1>7, <1>8, <1>9, FS_Subset
<1> QED BY <1>5, <1>6, <1>10

\* Each message adds its header and its payload.
LEMMA BytesAdd ==
  ASSUME payloads \in Seq(Nat)
  PROVE  /\ F!Bytes(0) = 0 /\ Len(payloads) \in Nat
         /\ \A k \in 0..Len(payloads) : F!Bytes(k) \in Nat
         /\ \A k \in 0..Len(payloads) - 1 : F!Bytes(k) < F!Bytes(k + 1)
         /\ \A k \in 0..Len(payloads) : \A j \in 0..k : F!Bytes(j) <= F!Bytes(k)
<1>1. PICK m \in Nat : m = Len(payloads)
  OBVIOUS
<1>2. PICK f : f = [i \in 1..m |-> HeaderSize + payloads[i]]
  OBVIOUS
<1>3. \A i \in 1..m : f[i] \in Nat \ {0}
  BY <1>1, <1>2, FramingSizes
<1>4. \A k \in 0..m : F!Bytes(k) = Cardinality(Cells(f, k))
  <2> SUFFICES ASSUME NEW k \in 0..m
               PROVE  F!Bytes(k) = Cardinality(Cells(f, k))
    OBVIOUS
  <2>1. \A i \in 1..k : f[i] = HeaderSize + payloads[i]
    BY <1>2
  <2>2. Cells(f, k) = UNION {{i} \X (1..HeaderSize + payloads[i]) : i \in 1..k}
    BY <2>1 DEF Cells
  <2> QED BY <2>2, SameCardinality DEF F!Bytes
<1>5. \A k \in 0..m : Sized(f, k)
  BY <1>3 DEF Sized
<1>6. F!Bytes(0) = 0
  BY <1>4, NoCells
<1>7. \A k \in 0..m : F!Bytes(k) \in Nat
  BY <1>4, <1>5, CellsFinite
<1>8. ASSUME NEW k \in 0..m - 1
      PROVE  F!Bytes(k) < F!Bytes(k + 1)
  <2>1. k \in Nat /\ k \in 0..m /\ k + 1 \in 0..m /\ k + 1 \in 1..m
    OBVIOUS
  <2>2. Cardinality(Cells(f, k + 1)) = Cardinality(Cells(f, k)) + f[k + 1]
    BY <2>1, <1>5, CellsNext
  <2>3. F!Bytes(k + 1) = F!Bytes(k) + f[k + 1]
    BY <2>1, <2>2, <1>4
  <2> QED BY <2>1, <2>3, <1>3, <1>7
<1>9. ASSUME NEW k \in 0..m, NEW j \in 0..k
      PROVE  F!Bytes(j) <= F!Bytes(k)
  <2>1. Cardinality(Cells(f, j)) <= Cardinality(Cells(f, k))
    BY <1>5, CellsGrow
  <2> QED BY <2>1, <1>4
<1> QED BY <1>1, <1>6, <1>7, <1>8, <1>9

\* What has arrived reaches to the message to be handled next, and ends in it
\* when the server is held up there.
FramingInv ==
  /\ payloads \in Seq(Nat) /\ framed \in 0..Len(payloads)
  /\ arrived \in Nat /\ arrivals \in Nat /\ spinning \in BOOLEAN
  /\ handled \in 0..framed
  /\ spinning => handled < framed
  /\ \A k \in 0..framed : k = handled =>
       /\ F!Bytes(k) <= arrived
       /\ spinning => F!Bytes(k) < arrived /\ arrived < F!Bytes(k + 1)
  /\ handled = IF spinning THEN arrivals - 1 ELSE arrivals

LEMMA FramingInvStep == FramingInv /\ [F!Next]_fVars => FramingInv'
<1> SUFFICES ASSUME FramingInv, [F!Next]_fVars PROVE FramingInv'
  OBVIOUS
<1>1. PICK m \in Nat : m = Len(payloads)
  BY DEF FramingInv
<1>2. PICK g : g = [k \in 0..m |-> F!Bytes(k)]
  OBVIOUS
<1>3. /\ payloads \in Seq(Nat) /\ framed \in 0..m /\ arrived \in Nat
      /\ arrivals \in Nat /\ spinning \in BOOLEAN /\ handled \in 0..framed
      /\ spinning => handled < framed
      /\ handled = IF spinning THEN arrivals - 1 ELSE arrivals
      /\ \A k \in 0..m : g[k] = F!Bytes(k) /\ g[k] \in Nat
      /\ g[handled] <= arrived
      /\ spinning => g[handled] < arrived /\ arrived < g[handled + 1]
  <2>1. \A k \in 0..m : g[k] = F!Bytes(k) /\ g[k] \in Nat
    BY <1>1, <1>2, BytesAdd DEF FramingInv
  <2> QED BY <2>1, <1>1 DEF FramingInv
<1>4. \A k \in 0..m : \A j \in 0..k : g[j] <= g[k]
  BY <1>1, <1>3, BytesAdd
<1>5. ASSUME payloads' = payloads
      PROVE  \A k \in 0..m : F!Bytes(k)' = g[k]
  BY <1>3, <1>5 DEF F!Bytes
<1>6. ASSUME payloads' = payloads, framed' \in 0..m, arrived' \in Nat,
             arrivals' \in Nat, spinning' \in BOOLEAN, handled' \in 0..framed',
             spinning' => handled' < framed',
             handled' = IF spinning' THEN arrivals' - 1 ELSE arrivals',
             NEW h \in 0..m, h = handled', g[h] <= arrived',
             spinning' => g[h] < arrived' /\ arrived' < g[h + 1]
      PROVE  FramingInv'
  <2>1. \A k \in 0..framed' : k = handled' =>
          /\ F!Bytes(k)' <= arrived'
          /\ spinning' => F!Bytes(k)' < arrived' /\ arrived' < F!Bytes(k + 1)'
    <3>1. F!Bytes(h)' = g[h]
      BY <1>5, <1>6
    <3>2. ASSUME spinning' PROVE F!Bytes(h + 1)' = g[h + 1]
      <4>1. framed' \in 0..m /\ h \in 0..framed' /\ h < framed'
        BY <3>2, <1>6
      <4>2. h + 1 \in 0..m
        BY <4>1
      <4> QED BY <4>2, <1>5, <1>6
    <3> QED BY <3>1, <3>2, <1>6
  <2>2. payloads' \in Seq(Nat) /\ framed' \in 0..Len(payloads')
    BY <1>1, <1>3, <1>6
  <2> QED BY <2>1, <2>2, <1>6 DEF FramingInv
<1>7. CASE F!Send
  <2>1. /\ framed' = framed + 1 /\ framed < m /\ payloads' = payloads
        /\ UNCHANGED <<arrived, handled, arrivals, spinning>>
    BY <1>1, <1>7 DEF F!Send
  <2>2. PICK h : h = handled
    OBVIOUS
  <2> QED BY <2>1, <2>2, <1>3, <1>6
<1>8. ASSUME NEW bytes \in 1..F!Bytes(framed), F!Arrive(bytes)
      PROVE  FramingInv'
  <2>1. /\ ~spinning /\ bytes \in (arrived + 1)..F!Bytes(framed)
        /\ arrived' = bytes /\ arrivals' = arrivals + 1
        /\ handled' = IF F!Complete(bytes, handled) THEN handled + 1 ELSE handled
        /\ spinning' = ~F!Complete(bytes, handled)
        /\ payloads' = payloads /\ framed' = framed
    BY <1>8 DEF F!Arrive
  <2>2. bytes \in Nat /\ arrived < bytes /\ bytes <= g[framed]
    BY <2>1, <1>3
  <2>3. handled < framed
    BY <2>2, <1>3
  <2>4. handled + 1 \in 0..m /\ (F!Complete(bytes, handled) <=> bytes >= g[handled + 1])
    BY <2>3, <1>3 DEF F!Complete
  <2>5. CASE F!Complete(bytes, handled)
    <3>1. handled' = handled + 1 /\ spinning' = FALSE
      BY <2>1, <2>5
    <3>2. PICK h : h = handled + 1
      OBVIOUS
    <3> QED BY <3>1, <3>2, <2>1, <2>2, <2>3, <2>4, <2>5, <1>3, <1>6
  <2>6. CASE ~F!Complete(bytes, handled)
    <3>1. handled' = handled /\ spinning' = TRUE
      BY <2>1, <2>6
    <3>2. PICK h : h = handled
      OBVIOUS
    <3> QED BY <3>1, <3>2, <2>1, <2>2, <2>3, <2>4, <2>6, <1>3, <1>6
  <2> QED BY <2>5, <2>6
<1>9. CASE UNCHANGED fVars
  <2>1. UNCHANGED <<payloads, framed, arrived, handled, arrivals, spinning>>
    BY <1>9 DEF fVars
  <2>2. PICK h : h = handled
    OBVIOUS
  <2> QED BY <2>1, <2>2, <1>3, <1>6
<1> QED BY <1>7, <1>8, <1>9 DEF F!Next

\* For all sizes of headers and payloads: no message is handled before all of
\* it is there, a server is held up only inside the next one, and one arrival
\* is good for one message (app/utils.cpp, app/server.cpp).
THEOREM FramingIsRight == Spec => []FramingRight
<1> DEFINE Inv == part = "framing" => FramingInv
<1>1. Init => Inv
  <2> SUFFICES ASSUME F!Init PROVE FramingInv
    BY InitOfPart
  <2>1. /\ framed = 0 /\ arrived = 0 /\ handled = 0 /\ arrivals = 0
        /\ spinning = FALSE
    BY DEF F!Init
  <2>2. payloads \in Seq(Nat)
    <3>1. PICK k \in 1..MaxMessages : payloads \in [1..k -> PayloadSizes]
      BY DEF F!Init
    <3>2. k \in Nat /\ PayloadSizes \subseteq Nat
      BY <3>1, FramingSizes
    <3>3. payloads \in [1..k -> Nat]
      BY <3>1, <3>2, Zenon
    <3> QED BY <3>2, <3>3, SeqDef
  <2>3. F!Bytes(0) = 0 /\ Len(payloads) \in Nat
    BY <2>2, BytesAdd
  <2>4. \A k \in 0..framed : F!Bytes(k) <= arrived
    BY <2>1, <2>3
  <2>5. framed \in 0..Len(payloads) /\ handled \in 0..framed
    BY <2>1, <2>3
  <2>6. spinning \in BOOLEAN /\ ~spinning
    BY <2>1, Zenon
  <2>7. arrived \in Nat /\ arrivals \in Nat /\ handled = arrivals
    BY <2>1
  <2> QED BY <2>2, <2>4, <2>5, <2>6, <2>7, Zenon DEF FramingInv
<1>2. Inv /\ [Next]_vars => Inv'
  BY NextOfPart, FramingInvStep
<1>3. Inv => FramingRight
  <2> SUFFICES ASSUME FramingInv
               PROVE  F!HeldUpInsideMessage /\ F!OneForEachArrival
    BY DEF FramingRight
  <2>1. PICK m \in Nat : m = framed
    BY BytesAdd DEF FramingInv
  <2>2. PICK S : S = {k \in 0..m : F!Bytes(k) <= arrived}
    OBVIOUS
  <2>3. /\ arrived \in Nat /\ F!Bytes(0) = 0
        /\ \A k \in 0..m : F!Bytes(k) \in Nat
        /\ \A k \in 0..m : \A j \in 0..k : F!Bytes(j) <= F!Bytes(k)
    BY <2>1, BytesAdd DEF FramingInv
  <2>4. S \subseteq 0..m /\ 0 \in S /\ \A k \in S : 0..k \subseteq S
    BY <2>2, <2>3
  <2>5. PICK w \in S : S = 0..w
    BY <2>4, DownToZero
  <2>6. F!Whole = w
    <3>1. F!Whole = F!Max(S)
      BY <2>1, <2>2 DEF F!Whole
    <3>2. w \in Nat
      BY <2>4, <2>5
    <3> QED BY <3>1, <3>2, <2>5 DEF F!Max
  <2>7. PICK h : h = handled
    OBVIOUS
  <2>8. h \in 0..m /\ F!Bytes(h) <= arrived
    BY <2>1, <2>7 DEF FramingInv
  <2>9. h <= w
    BY <2>2, <2>5, <2>8
  <2>10. ASSUME spinning PROVE h = w /\ arrived > F!Bytes(w)
    <3>1. h < m /\ F!Bytes(h) < arrived /\ arrived < F!Bytes(h + 1)
      BY <2>1, <2>7, <2>8, <2>10 DEF FramingInv
    <3>2. h + 1 \in 0..m /\ F!Bytes(h + 1) \in Nat
      BY <3>1, <2>3, <2>8
    <3>3. h + 1 \notin S
      BY <3>1, <3>2, <2>2, <2>3
    <3>4. h = w
      BY <3>3, <2>4, <2>5, <2>8, <2>9
    <3> QED BY <3>1, <3>4, <2>3, <2>8
  <2>11. F!HeldUpInsideMessage
    BY <2>6, <2>7, <2>9, <2>10 DEF F!HeldUpInsideMessage
  <2> QED BY <2>11 DEF FramingInv, F!OneForEachArrival
<1> QED BY <1>1, <1>2, <1>3, PTL DEF Spec

-----------------------------------------------------------------------------
(* The gauges of the echo server *)

\* What the methods that record do to a gauge that is not disabled
IsGauge(g) ==
  /\ g \in [probe1 : Seq(Nat), probe2 : Seq(Nat), disable : BOOLEAN, last : Nat]
  /\ ~g.disable

LEMMA GaugeStarts ==
  ASSUME NEW g, IsGauge(g), NEW x \in Nat, NEW h, h = E!SetProbe1(g, x)
  PROVE  /\ IsGauge(h)
         /\ h.probe1 = Append(g.probe1, x) /\ h.probe2 = g.probe2
         /\ h.last = g.last
<1>1. E!SetProbe1(g, x) = [g EXCEPT !.probe1 = Append(@, x)]
  BY Zenon DEF IsGauge, E!SetProbe1
<1>2. h = [g EXCEPT !.probe1 = Append(@, x)]
  BY <1>1
<1>3. h.probe1 = Append(g.probe1, x) /\ h.probe2 = g.probe2 /\ h.last = g.last
  BY <1>2 DEF IsGauge
<1>4. h.disable = g.disable
  BY <1>2 DEF IsGauge
<1>5. Append(g.probe1, x) \in Seq(Nat)
  BY DEF IsGauge
<1>6. h \in [probe1 : Seq(Nat), probe2 : Seq(Nat), disable : BOOLEAN, last : Nat]
  BY <1>2, <1>5 DEF IsGauge
<1>7. IsGauge(h)
  BY <1>4, <1>6, Zenon DEF IsGauge
<1> QED BY <1>3, <1>7, Zenon

LEMMA GaugeEnds ==
  ASSUME NEW g, IsGauge(g), NEW x \in Nat, NEW h, h = E!SetProbe2(g, x)
  PROVE  /\ IsGauge(h)
         /\ h.probe1 = g.probe1 /\ h.probe2 = Append(g.probe2, x)
         /\ h.last = g.last
<1>1. E!SetProbe2(g, x) = [g EXCEPT !.probe2 = Append(@, x)]
  BY Zenon DEF IsGauge, E!SetProbe2
<1>2. h = [g EXCEPT !.probe2 = Append(@, x)]
  BY <1>1
<1>3. h.probe1 = g.probe1 /\ h.probe2 = Append(g.probe2, x) /\ h.last = g.last
  BY <1>2 DEF IsGauge
<1>4. h.disable = g.disable
  BY <1>2 DEF IsGauge
<1>5. Append(g.probe2, x) \in Seq(Nat)
  BY DEF IsGauge
<1>6. h \in [probe1 : Seq(Nat), probe2 : Seq(Nat), disable : BOOLEAN, last : Nat]
  BY <1>2, <1>5 DEF IsGauge
<1>7. IsGauge(h)
  BY <1>4, <1>6, Zenon DEF IsGauge
<1> QED BY <1>3, <1>7, Zenon

LEMMA GaugeAverages ==
  ASSUME NEW g, IsGauge(g), NEW h, h = E!AverageTime(g)
  PROVE  /\ IsGauge(h)
         /\ h.probe1 = g.probe1 /\ h.probe2 = g.probe2
         /\ h.last = Len(g.probe2)
<1>1. PICK k : k = IF g.disable THEN g.last ELSE Len(g.probe2)
  OBVIOUS
<1>2. k = Len(g.probe2) /\ k \in Nat
  BY <1>1 DEF IsGauge
<1>3. E!AverageTime(g) = [g EXCEPT !.last = k]
  BY <1>1 DEF E!AverageTime
<1>4. h = [g EXCEPT !.last = k]
  BY <1>3
<1>5. h.probe1 = g.probe1 /\ h.probe2 = g.probe2 /\ h.last = k
  BY <1>4 DEF IsGauge
<1>6. h.disable = g.disable
  BY <1>4 DEF IsGauge
<1>7. h \in [probe1 : Seq(Nat), probe2 : Seq(Nat), disable : BOOLEAN, last : Nat]
  BY <1>2, <1>4 DEF IsGauge
<1>8. IsGauge(h)
  BY <1>6, <1>7, Zenon DEF IsGauge
<1> QED BY <1>2, <1>5, <1>8, Zenon

\* A gauge both of whose probes are set for each datagram
Paired(g) ==
  IsGauge(g) /\ g.probe1 = g.probe2 /\ g.last <= Len(g.probe2)

LEMMA PairedStays ==
  ASSUME NEW g, Paired(g), NEW x \in Nat
  PROVE  Paired(E!SetProbe2(E!SetProbe1(g, x), x)) /\ Paired(E!AverageTime(g))
<1>1. PICK h : h = E!SetProbe1(g, x)
  OBVIOUS
<1>2. /\ IsGauge(h) /\ h.probe1 = Append(g.probe1, x) /\ h.probe2 = g.probe2
      /\ h.last = g.last
  BY <1>1, GaugeStarts DEF Paired
<1>3. PICK e : e = E!SetProbe2(h, x)
  OBVIOUS
<1>4. /\ IsGauge(e) /\ e.probe1 = h.probe1 /\ e.probe2 = Append(h.probe2, x)
      /\ e.last = h.last
  BY <1>2, <1>3, GaugeEnds
<1>5. e.last <= Len(e.probe2)
  <2>1. g.probe2 \in Seq(Nat) /\ g.last \in Nat /\ g.last <= Len(g.probe2)
    BY DEF Paired, IsGauge
  <2>2. Len(Append(g.probe2, x)) = Len(g.probe2) + 1 /\ Len(g.probe2) \in Nat
    BY <2>1
  <2> QED BY <1>2, <1>4, <2>1, <2>2
<1>6. Paired(e)
  BY <1>2, <1>4, <1>5 DEF Paired
<1>7. PICK a : a = E!AverageTime(g)
  OBVIOUS
<1>8. /\ IsGauge(a) /\ a.probe1 = g.probe1 /\ a.probe2 = g.probe2
      /\ a.last = Len(g.probe2)
  BY <1>7, GaugeAverages DEF Paired
<1>9. Len(a.probe2) \in Nat
  BY <1>8 DEF IsGauge
<1>10. Paired(a)
  BY <1>8, <1>9 DEF Paired
<1> QED BY <1>1, <1>3, <1>6, <1>7, <1>10

\* The client gauge: it is started for every datagram and ended for all but
\* the strays.  An end is behind its place in the list by the strays that
\* came before it.
EndsRight(ends, gone, m) ==
  /\ Len(ends) + Cardinality(gone) = m
  /\ \A i \in 1..Len(ends) :
       /\ ends[i] \in 1..m \ gone
       /\ ends[i] - i = Cardinality({s \in gone : s < ends[i]})
  /\ Len(ends) > 0 => \A s \in 1..m : s > ends[Len(ends)] => s \in gone
EchoInv ==
  /\ n \in Nat /\ strays \subseteq 1..n
  /\ Paired(recv) /\ Paired(send)
  /\ IsGauge(client) /\ client.last <= Len(client.probe2)
  /\ Len(client.probe1) = n /\ \A i \in 1..n : client.probe1[i] = i
  /\ EndsRight(client.probe2, strays, n)
  /\ reported \in Seq(Nat \X Nat) /\ Len(reported) = client.last
  /\ \A i \in 1..client.last : reported[i][2] = client.probe2[i]

LEMMA EchoInit == E!Init => EchoInv
<1> SUFFICES ASSUME E!Init PROVE EchoInv
  OBVIOUS
<1>1. PICK g : g = E!NewGauge
  OBVIOUS
<1>2. recv = g /\ send = g /\ client = [g EXCEPT !.disable = FALSE]
  BY <1>1 DEF E!Init, E!SetDisable
<1>3. g = [probe1 |-> << >>, probe2 |-> << >>, disable |-> FALSE, last |-> 0]
  BY <1>1 DEF E!NewGauge
<1>4. client = g
  <2>1. PICK c : c = client
    OBVIOUS
  <2>2. c = [[probe1 |-> << >>, probe2 |-> << >>, disable |-> FALSE, last |-> 0]
               EXCEPT !.disable = FALSE]
    BY <2>1, <1>2, <1>3, Zenon
  <2>3. c = [probe1 |-> << >>, probe2 |-> << >>, disable |-> FALSE, last |-> 0]
    BY <2>2, Zenon
  <2> QED BY <2>1, <2>3, <1>3, Zenon
<1>5. g.probe1 = << >> /\ g.probe2 = << >> /\ g.last = 0 /\ Len(g.probe2) = 0
  BY <1>3
<1>6. g.disable = FALSE
  BY <1>3
<1>7. g \in [probe1 : Seq(Nat), probe2 : Seq(Nat), disable : BOOLEAN, last : Nat]
  BY <1>3
<1>8. IsGauge(g)
  BY <1>6, <1>7, Zenon DEF IsGauge
<1>9. Paired(g)
  BY <1>5, <1>8 DEF Paired
<1>10. n = 0 /\ strays = {} /\ reported = << >>
  BY DEF E!Init
<1>11. Cardinality(strays) = 0
  BY <1>10, FS_EmptySet
<1>12. PICK e, m : e = g.probe2 /\ m = n
  OBVIOUS
<1>13. EndsRight(e, strays, m)
  BY <1>5, <1>10, <1>11, <1>12 DEF EndsRight
<1>14. EndsRight(client.probe2, strays, n)
  BY <1>4, <1>12, <1>13, Zenon
<1>15. /\ reported \in Seq(Nat \X Nat) /\ Len(reported) = client.last
       /\ \A i \in 1..client.last : reported[i][2] = client.probe2[i]
  BY <1>4, <1>5, <1>10
<1>16. n \in Nat /\ strays \subseteq 1..n
  BY <1>10
<1>17. Len(client.probe1) = n /\ \A i \in 1..n : client.probe1[i] = i
  BY <1>4, <1>5, <1>10
<1>18. IsGauge(client) /\ client.last <= Len(client.probe2)
  BY <1>4, <1>5, <1>8
<1>19. Paired(recv) /\ Paired(send)
  BY <1>2, <1>9
<1> QED BY <1>14, <1>15, <1>16, <1>17, <1>18, <1>19 DEF EchoInv

LEMMA StraysFinite ==
  ASSUME EchoInv
  PROVE  IsFiniteSet(strays) /\ Cardinality(strays) \in Nat
<1>1. PICK m \in Nat : m = n
  BY DEF EchoInv
<1>2. IsFiniteSet(1..m)
  BY FS_Interval
<1>3. strays \subseteq 1..m
  BY <1>1 DEF EchoInv
<1> QED BY <1>2, <1>3, FS_Subset, FS_CardinalityType

LEMMA EchoInvStep == EchoInv /\ [E!Next]_eVars => EchoInv'
<1> SUFFICES ASSUME EchoInv, [E!Next]_eVars PROVE EchoInv'
  OBVIOUS
<1>1. PICK k \in Nat, m \in Nat : k = Len(client.probe2) /\ m = n
  BY DEF EchoInv, IsGauge
<1>2. PICK p1, p2, z : p1 = client.probe1 /\ p2 = client.probe2 /\ z = strays
  OBVIOUS
<1>3. p1 \in Seq(Nat) /\ Len(p1) = m /\ \A i \in 1..m : p1[i] = i
  BY <1>1, <1>2 DEF EchoInv, IsGauge
<1>4. p2 \in Seq(Nat) /\ Len(p2) = k
  BY <1>1, <1>2 DEF EchoInv, IsGauge
<1>5. /\ z \subseteq 1..m /\ IsFiniteSet(z) /\ Cardinality(z) \in Nat
      /\ m + 1 \notin z
  BY <1>1, <1>2, StraysFinite DEF EchoInv
<1>6. EndsRight(p2, z, m)
  BY <1>1, <1>2 DEF EchoInv
<1>7. k + Cardinality(z) = m
  BY <1>4, <1>6 DEF EndsRight
<1>8. \A i \in 1..k : /\ p2[i] \in 1..m \ z
                     /\ p2[i] - i = Cardinality({s \in z : s < p2[i]})
  BY <1>4, <1>6 DEF EndsRight
<1>9. PICK x \in Nat : x = m + 1
  BY <1>1
<1>10. PICK c, cs : c = client /\ cs = E!SetProbe1(c, x)
  OBVIOUS
<1>11. IsGauge(c)
  BY <1>10 DEF EchoInv
<1>12. /\ IsGauge(cs) /\ cs.probe1 = Append(p1, x) /\ cs.probe2 = p2
       /\ cs.last = c.last
  BY <1>2, <1>9, <1>10, <1>11, GaugeStarts
<1>13. Len(Append(p1, x)) = x /\ \A i \in 1..x : Append(p1, x)[i] = i
  BY <1>3, <1>9
<1>14. PICK l \in Nat : l = c.last
  BY <1>11 DEF IsGauge
<1>15. PICK r : r = reported
  OBVIOUS
<1>16. /\ l <= k /\ r \in Seq(Nat \X Nat) /\ Len(r) = l
       /\ \A i \in 1..l : r[i][2] = p2[i]
  BY <1>1, <1>2, <1>10, <1>14, <1>15 DEF EchoInv
<1>17. ASSUME NEW g, Paired(g)
       PROVE  Paired(E!SetProbe2(E!SetProbe1(g, x), x)) /\ Paired(E!AverageTime(g))
  BY <1>9, <1>17, PairedStays, Zenon
<1>18. ASSUME E!Peek
       PROVE  n' = x /\ Paired(recv')
  <2>1. n' = x /\ E!Number = x
    BY <1>1, <1>9, <1>18 DEF E!Peek, E!Number
  <2>2. recv' = E!SetProbe2(E!SetProbe1(recv, x), x)
    BY <1>18, <2>1 DEF E!Peek, E!Ended, E!Started
  <2>3. PICK g : g = recv
    OBVIOUS
  <2>4. Paired(g)
    BY <2>3 DEF EchoInv
  <2> QED BY <2>1, <2>2, <2>3, <2>4, <1>17
<1>19. CASE UNCHANGED <<n, strays, client, recv, send, reported>>
  BY <1>19 DEF EchoInv
<1>20. CASE E!HandleClient
  <2>1. n' = x /\ Paired(recv') /\ strays' = z /\ reported' = r
    BY <1>2, <1>15, <1>18, <1>20 DEF E!HandleClient
  <2>2. E!Number = x
    BY <1>1, <1>9 DEF E!Number
  <2>3. Paired(send')
    <3>1. send' = E!SetProbe2(E!SetProbe1(send, x), x)
      BY <1>20, <2>2 DEF E!HandleClient, E!RecvMsg, E!Ended, E!Started
    <3>2. PICK g : g = send
      OBVIOUS
    <3>3. Paired(g)
      BY <3>2 DEF EchoInv
    <3> QED BY <3>1, <3>2, <3>3, <1>17
  <2>4. PICK ce, q : ce = E!SetProbe2(cs, x) /\ q = Append(p2, x)
    OBVIOUS
  <2>5. client' = ce
    BY <1>10, <1>20, <2>2, <2>4 DEF E!HandleClient, E!Ended, E!Started
  <2>6. /\ IsGauge(ce) /\ ce.probe1 = Append(p1, x) /\ ce.probe2 = q
        /\ ce.last = l
    <3>1. /\ IsGauge(ce) /\ ce.probe1 = cs.probe1
          /\ ce.probe2 = Append(cs.probe2, x) /\ ce.last = cs.last
      <4>1. IsGauge(cs) /\ x \in Nat /\ ce = E!SetProbe2(cs, x)
        BY <1>12, <2>4
      <4> QED BY <4>1, GaugeEnds, Zenon
    <3> QED BY <3>1, <1>12, <1>14, <2>4, Zenon
  <2>7. /\ Len(q) = k + 1 /\ q[k + 1] = x /\ \A i \in 1..k : q[i] = p2[i]
    BY <1>4, <2>4
  <2>8. {s \in z : s < x} = z
    <3>1. \A s \in z : s < x
      BY <1>5, <1>9
    <3> QED BY <3>1, Zenon
  <2>9. \A i \in 1..(k + 1) :
          /\ q[i] \in 1..x \ z
          /\ q[i] - i = Cardinality({s \in z : s < q[i]})
    <3> SUFFICES ASSUME NEW i \in 1..(k + 1)
                 PROVE  /\ q[i] \in 1..x \ z
                        /\ q[i] - i = Cardinality({s \in z : s < q[i]})
      OBVIOUS
    <3>1. CASE i = k + 1
      <4>1. q[i] = x /\ x \in 1..x \ z
        BY <3>1, <2>7, <1>5, <1>9
      <4>2. x - i = Cardinality(z)
        BY <3>1, <1>5, <1>7, <1>9
      <4> QED BY <4>1, <4>2, <2>8
    <3>2. CASE i \in 1..k
      <4>1. q[i] = p2[i]
        BY <3>2, <2>7
      <4>2. p2[i] \in 1..m \ z /\ p2[i] - i = Cardinality({s \in z : s < p2[i]})
        BY <3>2, <1>8
      <4>3. p2[i] \in 1..x \ z
        BY <4>2, <1>9
      <4> QED BY <4>1, <4>2, <4>3
    <3> QED BY <3>1, <3>2
  <2>10. Len(q) > 0 => \A s \in 1..x : s > q[Len(q)] => s \in z
    BY <2>7
  <2>11. Len(q) + Cardinality(z) = x
    BY <2>7, <1>5, <1>7, <1>9
  <2>12. EndsRight(q, z, x)
    BY <2>7, <2>9, <2>10, <2>11 DEF EndsRight
  <2>13. l <= Len(q) /\ \A i \in 1..l : r[i][2] = q[i]
    BY <2>7, <1>16
  <2>14. x \in Nat /\ z \subseteq 1..x
    BY <1>5, <1>9
  <2> QED BY <2>1, <2>3, <2>5, <2>6, <2>12, <2>13, <2>14, <1>13, <1>16
          DEF EchoInv
<1>21. CASE E!HandleUnregistered
  <2>1. n' = x /\ Paired(recv') /\ send' = send /\ reported' = r
    BY <1>15, <1>18, <1>21 DEF E!HandleUnregistered
  <2>2. E!Number = x
    BY <1>1, <1>9 DEF E!Number
  <2>3. PICK y : y = z \cup {x}
    OBVIOUS
  <2>4. strays' = y
    BY <1>2, <1>21, <2>2, <2>3 DEF E!HandleUnregistered
  <2>5. client' = cs
    BY <1>10, <1>21, <2>2 DEF E!HandleUnregistered, E!Started
  <2>6. x \notin z /\ y \subseteq 1..x
    BY <2>3, <1>5, <1>9
  <2>7. Cardinality(y) = Cardinality(z) + 1
    BY <2>3, <2>6, <1>5, FS_AddElement
  <2>8. \A i \in 1..k : /\ p2[i] \in 1..x \ y
                       /\ p2[i] - i = Cardinality({s \in y : s < p2[i]})
    <3> SUFFICES ASSUME NEW i \in 1..k
                 PROVE  /\ p2[i] \in 1..x \ y
                        /\ p2[i] - i = Cardinality({s \in y : s < p2[i]})
      OBVIOUS
    <3>1. p2[i] \in 1..m \ z /\ p2[i] - i = Cardinality({s \in z : s < p2[i]})
      BY <1>8
    <3>2. {s \in y : s < p2[i]} = {s \in z : s < p2[i]}
      BY <2>3, <3>1, <1>9
    <3>3. p2[i] \in 1..x \ y
      BY <2>3, <3>1, <1>9
    <3> QED BY <3>1, <3>2, <3>3
  <2>9. k > 0 => \A s \in 1..x : s > p2[k] => s \in y
    <3>1. k > 0 => \A s \in 1..m : s > p2[k] => s \in z
      BY <1>4, <1>6 DEF EndsRight
    <3> QED BY <3>1, <2>3, <1>9
  <2>10. k + Cardinality(y) = x
    BY <2>7, <1>5, <1>7, <1>9
  <2>11. EndsRight(p2, y, x)
    BY <2>8, <2>9, <2>10, <1>4 DEF EndsRight
  <2>12. Paired(send')
    BY <2>1 DEF EchoInv
  <2> QED BY <2>1, <2>4, <2>5, <2>6, <2>11, <2>12, <1>4, <1>9, <1>12, <1>13,
             <1>14, <1>16 DEF EchoInv
<1>22. CASE E!Report
  <2>1. /\ reported' = r \o E!AveragePoints(c) /\ client' = E!AverageTime(c)
        /\ recv' = E!AverageTime(recv) /\ send' = E!AverageTime(send)
        /\ strays' = strays /\ n' = n
    BY <1>10, <1>15, <1>22 DEF E!Report, E!Reported
  <2>2. PICK a : a = E!AverageTime(c)
    OBVIOUS
  <2>3. IsGauge(a) /\ a.probe1 = p1 /\ a.probe2 = p2 /\ a.last = k
    BY <1>1, <1>2, <1>10, <1>11, <2>2, GaugeAverages
  <2>4. Paired(recv') /\ Paired(send')
    <3>1. PICK g, h : g = recv /\ h = send
      OBVIOUS
    <3>2. Paired(g) /\ Paired(h)
      BY <3>1 DEF EchoInv
    <3> QED BY <3>1, <3>2, <2>1, <1>17
  <2>5. PICK t : t = [j \in 1..(k - l) |-> <<p1[l + j], p2[l + j]>>]
    OBVIOUS
  <2>6. E!AveragePoints(c) = t
    <3>1. E!AveragePoints(c) = [j \in 1..Len(c.probe2) - c.last |->
                                  E!Interval(c, c.last + j)]
      BY <1>11, Zenon DEF E!AveragePoints, IsGauge
    <3> QED BY <3>1, <2>5, <1>1, <1>2, <1>10, <1>14 DEF E!Interval
  <2>7. k - l \in Nat
    BY <1>14, <1>16
  <2>8. \A j \in 1..(k - l) : p1[l + j] \in Nat /\ p2[l + j] \in Nat
    <3> SUFFICES ASSUME NEW j \in 1..(k - l)
                 PROVE  p1[l + j] \in Nat /\ p2[l + j] \in Nat
      OBVIOUS
    <3>1. l + j \in 1..k /\ k <= m
      BY <1>5, <1>7, <1>14
    <3>2. l + j \in 1..m
      BY <3>1
    <3> QED BY <3>1, <3>2, <1>3, <1>4
  <2>9. t \in [1..(k - l) -> Nat \X Nat]
    BY <2>5, <2>8
  <2>10. /\ t \in Seq(Nat \X Nat) /\ Len(t) = k - l
         /\ \A j \in 1..(k - l) : t[j][2] = p2[l + j]
    <3>1. PICK d \in Nat : d = k - l
      BY <2>7
    <3>2. t \in [1..d -> Nat \X Nat]
      BY <2>9, <3>1
    <3>3. t \in Seq(Nat \X Nat) /\ Len(t) = d
      BY <3>2
    <3>4. \A j \in 1..(k - l) : t[j] = <<p1[l + j], p2[l + j]>>
      BY <2>5
    <3> QED BY <3>1, <3>3, <3>4
  <2>11. PICK u : u = r \o t
    OBVIOUS
  <2>12. /\ u \in Seq(Nat \X Nat) /\ Len(u) = k
         /\ \A i \in 1..l : u[i] = r[i]
         /\ \A j \in 1..(k - l) : u[l + j] = t[j]
    <3>1. u \in Seq(Nat \X Nat) /\ Len(u) = Len(r) + Len(t)
      BY <2>10, <2>11, <1>16, ConcatProperties
    <3>2. \A i \in 1..Len(r) + Len(t) :
            u[i] = IF i <= Len(r) THEN r[i] ELSE t[i - Len(r)]
      BY <2>10, <2>11, <1>16, ConcatProperties
    <3>3. Len(r) = l /\ Len(t) = k - l /\ Len(u) = k
      BY <3>1, <2>10, <1>16
    <3> QED BY <3>1, <3>2, <3>3, <2>7
  <2>13. \A i \in 1..k : u[i][2] = p2[i]
    <3> SUFFICES ASSUME NEW i \in 1..k PROVE u[i][2] = p2[i]
      OBVIOUS
    <3>1. CASE i \in 1..l
      BY <3>1, <2>12, <1>16
    <3>2. CASE i > l
      <4>1. PICK j \in 1..(k - l) : i = l + j
        <5>1. i - l \in 1..(k - l) /\ i = l + (i - l)
          BY <3>2
        <5> QED BY <5>1
      <4> QED BY <4>1, <2>10, <2>12
    <3> QED BY <3>1, <3>2
  <2>14. reported' = u /\ client' = a /\ strays' = z /\ n' = m
    BY <2>1, <2>2, <2>6, <2>11, <1>1, <1>2
  <2>15. n' \in Nat /\ strays' \subseteq 1..n' /\ IsGauge(client')
    BY <2>3, <2>14, <1>5
  <2>16. client'.last <= Len(client'.probe2) /\ Len(client'.probe1) = n'
         /\ \A i \in 1..n' : client'.probe1[i] = i
    BY <2>3, <2>14, <1>3, <1>4
  <2>17. EndsRight(client'.probe2, strays', n')
    BY <2>3, <2>14, <1>6
  <2>18. /\ reported' \in Seq(Nat \X Nat) /\ Len(reported') = client'.last
         /\ \A i \in 1..client'.last : reported'[i][2] = client'.probe2[i]
    BY <2>3, <2>12, <2>13, <2>14
  <2> QED BY <2>4, <2>15, <2>16, <2>17, <2>18 DEF EchoInv
<1>23. ASSUME NEW s \in Senders, E!SendLoop(s) \/ E!Dropped(s)
       PROVE  UNCHANGED <<n, strays, client, recv, send, reported>>
  BY <1>23 DEF E!SendLoop, E!Dropped, E!gauges
<1>24. CASE UNCHANGED eVars
  BY <1>19, <1>24 DEF eVars
<1> QED BY <1>19, <1>20, <1>21, <1>22, <1>23, <1>24 DEF E!Next

\* For all loops and whatever the bytes in the buffers say: the gauges of the
\* echo server read within their lists, what they print is wrong by the
\* strays before it, and each interval is printed once
\* (extra/echo_server.cpp, class Gauge).
THEOREM GaugesAreRight == Spec => []GaugesRight
<1> DEFINE Inv == part = "echo" => EchoInv
<1>1. Init => Inv
  BY InitOfPart, EchoInit
<1>2. Inv /\ [Next]_vars => Inv'
  BY NextOfPart, EchoInvStep
<1>3. Inv => GaugesRight
  <2> SUFFICES ASSUME EchoInv
               PROVE  E!ReadsWithinLists /\ E!LagIsStrays /\ E!ReportedOnce
    BY DEF GaugesRight
  <2>1. PICK k \in Nat, m \in Nat : k = Len(client.probe2) /\ m = n
    <3>1. n \in Nat
      BY DEF EchoInv
    <3>2. client.probe2 \in Seq(Nat)
      BY DEF EchoInv, IsGauge
    <3>3. Len(client.probe2) \in Nat
      BY <3>2
    <3> QED BY <3>1, <3>3
  <2>2. /\ client.probe1 \in Seq(Nat) /\ Len(client.probe1) = m
        /\ \A i \in 1..m : client.probe1[i] = i
        /\ client.probe2 \in Seq(Nat) /\ DOMAIN client.probe2 = 1..k
        /\ k + Cardinality(strays) = m /\ Cardinality(strays) \in Nat
        /\ IsFiniteSet(strays)
    <3>1. client.probe1 \in Seq(Nat) /\ client.probe2 \in Seq(Nat)
      BY DEF EchoInv, IsGauge
    <3>2. Len(client.probe1) = m /\ \A i \in 1..m : client.probe1[i] = i
      BY <2>1 DEF EchoInv
    <3>3. DOMAIN client.probe2 = 1..k
      BY <2>1, <3>1
    <3>4. k + Cardinality(strays) = m
      BY <2>1 DEF EchoInv, EndsRight
    <3>5. Cardinality(strays) \in Nat /\ IsFiniteSet(strays)
      BY StraysFinite
    <3> QED BY <3>1, <3>2, <3>3, <3>4, <3>5
  <2>3. k <= m
    BY <2>2
  <2>4. ~client.disable
    BY DEF EchoInv, IsGauge
  <2>5. E!ReadsWithinLists
    <3> SUFFICES ASSUME NEW g \in {client, recv, send}
                 PROVE  /\ E!AverageTimeReads(g) /\ g.last <= Len(g.probe2)
                        /\ g.probe2 # << >> => E!InstantTimeReads(g, Len(g.probe2))
      BY DEF E!ReadsWithinLists
    <3>1. Len(g.probe2) <= Len(g.probe1) /\ Len(g.probe2) \in Nat
          /\ g.last <= Len(g.probe2)
      <4>1. CASE g = client
        BY <4>1, <2>1, <2>2, <2>3 DEF EchoInv
      <4>2. CASE Paired(g)
        BY <4>2 DEF Paired, IsGauge
      <4> QED BY <4>1, <4>2 DEF EchoInv
    <3> QED BY <3>1 DEF E!AverageTimeReads, E!InstantTimeReads
  <2>6. E!LagIsStrays
    <3>1. ASSUME NEW i \in DOMAIN client.probe2
          PROVE  LET p == E!InstantTimeAt(client, i) IN
                 p[2] - p[1] = E!Cardinality({s \in strays : s < p[2]})
      <4>1. i \in 1..k /\ i \in 1..m
        BY <3>1, <2>2, <2>3
      <4>2. E!InstantTimeAt(client, i) = <<i, client.probe2[i]>>
        BY <4>1, <2>2, <2>4 DEF E!InstantTimeAt, E!Interval
      <4>3. client.probe2[i] - i = Cardinality({s \in strays : s < client.probe2[i]})
        BY <4>1, <2>1 DEF EchoInv, EndsRight
      <4> QED BY <4>2, <4>3, SameCardinality
    <3>2. ASSUME strays # {}
          PROVE  E!IndexTime(client) = << >> /\ E!InstantTime(client) = << >>
      <4>1. Cardinality(strays) # 0
        BY <3>2, <2>2, FS_EmptySet
      <4>2. Len(client.probe1) # Len(client.probe2)
        BY <4>1, <2>1, <2>2
      <4> QED BY <4>2 DEF E!IndexTime, E!InstantTime
    <3>3. ASSUME E!TotalTime(client) # << >>
          PROVE  E!TotalTime(client) = <<1, E!Max(1..n \ strays)>>
      <4>1. client.probe2 # << >> /\ client.probe1 # << >>
            /\ E!TotalTime(client) = <<client.probe1[1], client.probe2[k]>>
        BY <3>3, <2>1 DEF E!TotalTime
      <4>2. k > 0
        BY <4>1, <2>1, <2>2
      <4>3. client.probe1[1] = 1
        BY <4>2, <2>2, <2>3
      <4>4. PICK x : x = client.probe2[k]
        OBVIOUS
      <4>5. x \in 1..m \ strays /\ \A s \in 1..m : s > x => s \in strays
        <5>1. PICK p2 : p2 = client.probe2
          OBVIOUS
        <5>2. EndsRight(p2, strays, m) /\ Len(p2) = k /\ x = p2[k] /\ k \in 1..k
          BY <4>2, <4>4, <5>1, <2>1 DEF EchoInv
        <5> QED BY <5>2, <4>2 DEF EndsRight
      <4>6. PICK S : S = 1..m \ strays
        OBVIOUS
      <4>7. x \in S /\ \A y \in S : y \in Nat /\ x >= y
        BY <4>5, <4>6
      <4>8. E!Max(S) = x
        BY <4>7 DEF E!Max
      <4> QED BY <4>1, <4>3, <4>4, <4>6, <4>8, <2>1
    <3> QED BY <3>1, <3>2, <3>3 DEF E!LagIsStrays
  <2>7. E!ReportedOnce
    <3>1. PICK l \in Nat : l = client.last /\ l <= k
      BY <2>1 DEF EchoInv, IsGauge
    <3>2. DOMAIN reported = 1..l /\ \A i \in 1..l : reported[i][2] = client.probe2[i]
      BY <3>1 DEF EchoInv
    <3>3. SubSeq(client.probe2, 1, l) = [i \in 1..l |-> client.probe2[i]]
      BY <3>1, <2>1, <2>2
    <3>4. [i \in DOMAIN reported |-> reported[i][2]]
            = SubSeq(client.probe2, 1, client.last)
      BY <3>1, <3>2, <3>3
    <3>5. \A g \in {recv, send} : \A i \in DOMAIN g.probe2 :
            g.probe1[i] = g.probe2[i]
      BY DEF EchoInv, Paired
    <3> QED BY <3>4, <3>5 DEF E!ReportedOnce
  <2> QED BY <2>5, <2>6, <2>7
<1> QED BY <1>1, <1>2, <1>3, PTL DEF Spec

=============================================================================
