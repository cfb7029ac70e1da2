------------------------ MODULE DatagramClientProofs ------------------------
(***************************************************************************)
(* Proofs about DatagramClient, for all command lines, clusters and bounds *)
(* on the network.  SurplusIsDuplicates is not inductive.  What a client   *)
(* may take for an answer depends on the bag of its datagrams: the copies  *)
(* of operations in it are numbered (Copies), so that a datagram that      *)
(* comes or goes is one element more or less of a set.  DatagramInv adds   *)
(* that operations travel between a client and the owner only, and what a  *)
(* thread's place says of its clients.                                     *)
(***************************************************************************)
EXTENDS DatagramClient, FiniteSetTheorems, TLAPS

Message(N) == [type: {"operation", "guidance"}, turn: 0..N]
BagOf(N, q) == IsABag(q) /\ DOMAIN q \subseteq Message(N)

CopiesUpTo(N, q) == UNION {{n} \X (1..CopiesOf(Operation(n), q)) : n \in 0..N}

\* The answers in q are those to duplicates, d of them, and if b is 1 one to
\* the operation that is awaited, number n of its client.
Answers(N, q, d, b, n) ==
  /\ IsFiniteSet(CopiesUpTo(N, q))
  /\ Cardinality(CopiesUpTo(N, q)) <= d + b
  /\ d = 0 => \A i \in 0..N : Operation(i) \in DOMAIN q => b = 1 /\ i = n

Awaiting(s) == IF s \in {"reading", "writing"} THEN 1 ELSE 0

Status == {"init", "reading", "waiting_guidance", "writing", "idle"}
Collections(N) == [Node -> [epoch: 0..Epoch, turn: 0..N]]

\* The datagrams of a client
OperationsAtOwner(c) ==
  \A r \in Node \ {Owner} : \A m \in DOMAIN net[c][r] : m.type = "guidance"
AnswersKnown(c) ==
  Answers(cfg.nums, net[c][Owner], duplicated[c],
          Awaiting(status[c]), turn[c])

\* What the place of a thread says of its clients
ThreadInStep(t) ==
  /\ t \notin setup =>
       \A c \in ToSet(ClientsOf(t)) : status[c] \in {"init", "idle"}
  /\ t \in setup => \A c \in ToSet(ClientsOf(t)) : leading[c] = Epoch
  /\ pc[t] \in {"top", "done"} => t \in setup
  /\ pc[t] = "done" =>
       sent >= cfg.nums /\ \A c \in ToSet(ClientsOf(t)) : status[c] = "idle"

\* g_sent_nums counts the operations sent, up to what is to be sent.
SentCounted ==
  /\ IsFiniteSet(OperationsSent)
  /\ Cardinality(OperationsSent) = IF sent <= cfg.nums THEN sent ELSE cfg.nums

NetDomains == DOMAIN net = Client /\ \A c \in Client : DOMAIN net[c] = Node

DatagramInv ==
  /\ TypeOK /\ NetDomains
  /\ \A c \in Client : OperationsAtOwner(c) /\ AnswersKnown(c)
  /\ \A t \in Thread : ThreadInStep(t)
  /\ SentCounted

-----------------------------------------------------------------------------
(* Bags *)

\* A datagram more
LEMMA OneMore ==
  ASSUME NEW q, IsABag(q), NEW m
  PROVE  /\ IsABag(q (+) One(m)) /\ DOMAIN (q (+) One(m)) = DOMAIN q \cup {m}
         /\ CopiesOf(m, q (+) One(m)) = CopiesOf(m, q) + 1
         /\ \A x : x # m => CopiesOf(x, q (+) One(m)) = CopiesOf(x, q)
<1>1. PICK p : p = q (+) One(m)
  OBVIOUS
<1>2. /\ DOMAIN p = DOMAIN q \cup {m}
      /\ \A x \in DOMAIN q \cup {m} :
           p[x] = (IF x \in DOMAIN q THEN q[x] ELSE 0)
                    + (IF x \in {m} THEN 1 ELSE 0)
      /\ p = [x \in DOMAIN p |-> p[x]]
  BY <1>1 DEF (+), One, SetToBag
<1>3. \A x \in DOMAIN q : q[x] \in Nat /\ q[x] > 0
  BY DEF IsABag
<1>4. \A x \in DOMAIN p : p[x] \in Nat /\ p[x] > 0
  BY <1>2, <1>3
<1>5. IsABag(p)
  BY <1>2, <1>4 DEF IsABag
<1>6. CopiesOf(m, p) = CopiesOf(m, q) + 1
  BY <1>2, <1>3 DEF CopiesOf, BagIn, BagToSet
<1>7. ASSUME NEW x, x # m PROVE CopiesOf(x, p) = CopiesOf(x, q)
  BY <1>2, <1>3, <1>7 DEF CopiesOf, BagIn, BagToSet
<1> QED BY <1>1, <1>2, <1>5, <1>6, <1>7

\* A datagram less
LEMMA OneLess ==
  ASSUME NEW q, IsABag(q), NEW m \in DOMAIN q
  PROVE  /\ IsABag(q (-) One(m)) /\ DOMAIN (q (-) One(m)) \subseteq DOMAIN q
         /\ CopiesOf(m, q (-) One(m)) = CopiesOf(m, q) - 1
         /\ \A x : x # m => CopiesOf(x, q (-) One(m)) = CopiesOf(x, q)
<1>1. PICK p : p = q (-) One(m)
  OBVIOUS
<1>2. PICK u : u = [x \in DOMAIN q |-> IF x \in {m} THEN q[x] - 1 ELSE q[x]]
  OBVIOUS
<1>3. \A x \in DOMAIN q : q[x] \in Nat /\ q[x] > 0
  BY DEF IsABag
<1>4. p = [x \in {y \in DOMAIN u : u[y] > 0} |-> u[x]]
  <2>1. DOMAIN One(m) = {m} /\ One(m)[m] = 1
    BY DEF One, SetToBag
  <2>2. u = [x \in DOMAIN q |-> IF x \in DOMAIN One(m) THEN q[x] - One(m)[x]
                                ELSE q[x]]
    BY <1>2, <2>1
  <2> QED BY <1>1, <2>2 DEF (-)
<1>5. /\ DOMAIN u = DOMAIN q /\ u[m] = q[m] - 1
      /\ \A x \in DOMAIN q : x # m => u[x] = q[x]
  BY <1>2
<1>6. /\ DOMAIN p = {x \in DOMAIN q : u[x] > 0}
      /\ \A x \in DOMAIN p : p[x] = u[x]
      /\ p = [x \in DOMAIN p |-> p[x]]
  BY <1>4, <1>5
<1>7. \A x \in DOMAIN p : p[x] \in Nat /\ p[x] > 0
  BY <1>3, <1>5, <1>6
<1>8. IsABag(p)
  BY <1>6, <1>7 DEF IsABag
<1>9. CopiesOf(m, p) = CopiesOf(m, q) - 1
  BY <1>3, <1>5, <1>6 DEF CopiesOf, BagIn, BagToSet
<1>10. ASSUME NEW x, x # m PROVE CopiesOf(x, p) = CopiesOf(x, q)
  BY <1>3, <1>5, <1>6, <1>10 DEF CopiesOf, BagIn, BagToSet
<1> QED BY <1>1, <1>6, <1>8, <1>9, <1>10

\* How many copies there are is a number, positive where there is one.
LEMMA CopiesNumber ==
  ASSUME NEW q, IsABag(q), NEW m
  PROVE  CopiesOf(m, q) \in Nat /\ (CopiesOf(m, q) > 0 <=> m \in DOMAIN q)
BY DEF IsABag, CopiesOf, BagIn, BagToSet

\* The elements of CopiesUpTo
LEMMA CopyOf ==
  ASSUME NEW N \in Nat, NEW q, NEW p
  PROVE  p \in CopiesUpTo(N, q) <=>
           \E n \in 0..N, i \in Nat :
             i \in 1..CopiesOf(Operation(n), q) /\ p = <<n, i>>
<1>1. p \in CopiesUpTo(N, q) <=>
        \E n \in 0..N : p \in {n} \X (1..CopiesOf(Operation(n), q))
  BY DEF CopiesUpTo
<1>2. ASSUME NEW n \in 0..N
      PROVE  p \in {n} \X (1..CopiesOf(Operation(n), q)) <=>
               \E i \in Nat : i \in 1..CopiesOf(Operation(n), q) /\ p = <<n, i>>
  OBVIOUS
<1> QED BY <1>1, <1>2

\* Operations are told apart by their turns, and from requests for guidance.
LEMMA OperationsDiffer ==
  ASSUME NEW i, NEW j
  PROVE  /\ Operation(i) = Operation(j) => i = j
         /\ Operation(i) # GetGuidance(j)
         /\ Operation(i).type = "operation" /\ Operation(i).turn = i
         /\ GetGuidance(i).type = "guidance" /\ GetGuidance(i).turn = i
<1>1. Operation(i).type = "operation" /\ Operation(i).turn = i
      /\ Operation(j).turn = j
  BY DEF Operation
<1>2. GetGuidance(i).type = "guidance" /\ GetGuidance(i).turn = i
      /\ GetGuidance(j).type = "guidance"
  BY DEF GetGuidance
<1> QED BY <1>1, <1>2

\* One copy of operation n more is one element more.
LEMMA CopyComes ==
  ASSUME NEW N \in Nat, NEW n \in 0..N, NEW q, NEW p, IsABag(q), IsABag(p),
         CopiesOf(Operation(n), p) = CopiesOf(Operation(n), q) + 1,
         \A x : x # Operation(n) => CopiesOf(x, p) = CopiesOf(x, q)
  PROVE  \E e : e \notin CopiesUpTo(N, q)
                /\ CopiesUpTo(N, p) = CopiesUpTo(N, q) \cup {e}
<1>1. PICK k \in Nat : k = CopiesOf(Operation(n), q)
  BY CopiesNumber
<1>2. \A i \in 0..N : i # n =>
        CopiesOf(Operation(i), p) = CopiesOf(Operation(i), q)
  BY OperationsDiffer
<1>3. CopiesOf(Operation(n), p) = k + 1
  BY <1>1
<1>4. PICK e : e = <<n, k + 1>>
  OBVIOUS
<1>5. e \notin CopiesUpTo(N, q)
  <2> SUFFICES ASSUME e \in CopiesUpTo(N, q) PROVE FALSE
    OBVIOUS
  <2>1. PICK j \in 0..N, i \in Nat :
          i \in 1..CopiesOf(Operation(j), q) /\ e = <<j, i>>
    BY CopyOf
  <2>2. j = n /\ i = k + 1
    BY <2>1, <1>4
  <2>3. i \in 1..k
    BY <2>1, <2>2, <1>1
  <2> QED BY <2>2, <2>3
<1>6. ASSUME NEW x \in CopiesUpTo(N, p)
      PROVE  x \in CopiesUpTo(N, q) \/ x = e
  <2>1. PICK j \in 0..N, i \in Nat :
          i \in 1..CopiesOf(Operation(j), p) /\ x = <<j, i>>
    BY CopyOf
  <2>2. CASE j = n
    <3>1. i \in 1..k \/ i = k + 1
      BY <2>1, <2>2, <1>3
    <3>2. i \in 1..k => x \in CopiesUpTo(N, q)
      BY <2>1, <2>2, <1>1, CopyOf
    <3> QED BY <3>1, <3>2, <2>1, <2>2, <1>4
  <2>3. CASE j # n
    <3>1. i \in 1..CopiesOf(Operation(j), q)
      BY <2>1, <2>3, <1>2
    <3> QED BY <3>1, <2>1, CopyOf
  <2> QED BY <2>2, <2>3
<1>7. ASSUME NEW x \in CopiesUpTo(N, q)
      PROVE  x \in CopiesUpTo(N, p)
  <2>1. PICK j \in 0..N, i \in Nat :
          i \in 1..CopiesOf(Operation(j), q) /\ x = <<j, i>>
    BY CopyOf
  <2>2. i \in 1..CopiesOf(Operation(j), p)
    BY <2>1, <1>1, <1>2, <1>3
  <2> QED BY <2>1, <2>2, CopyOf
<1>8. e \in CopiesUpTo(N, p)
  <2>1. k + 1 \in 1..CopiesOf(Operation(n), p)
    BY <1>3
  <2> QED BY <2>1, <1>4, CopyOf
<1>9. CopiesUpTo(N, p) = CopiesUpTo(N, q) \cup {e}
  BY <1>6, <1>7, <1>8
<1> QED BY <1>5, <1>9

\* Other datagrams do not count.
LEMMA SameCopies ==
  ASSUME NEW N \in Nat, NEW q, NEW p,
         \A i \in 0..N : CopiesOf(Operation(i), p) = CopiesOf(Operation(i), q)
  PROVE  CopiesUpTo(N, p) = CopiesUpTo(N, q)
BY DEF CopiesUpTo

\* The number of copies when one comes or goes
LEMMA OneElementMore ==
  ASSUME NEW S, NEW T, NEW e, e \notin S, T = S \cup {e},
         IsFiniteSet(S) \/ IsFiniteSet(T)
  PROVE  /\ IsFiniteSet(S) /\ IsFiniteSet(T)
         /\ Cardinality(S) \in Nat /\ Cardinality(T) = Cardinality(S) + 1
<1>1. S \subseteq T
  OBVIOUS
<1>2. IsFiniteSet(S)
  BY <1>1, FS_Subset
<1> QED BY <1>2, FS_AddElement, FS_CardinalityType
-----------------------------------------------------------------------------
(* The answers under way *)

\* A client that has no datagrams is awaiting nothing.
LEMMA AnswersAtFirst ==
  ASSUME NEW N \in Nat
  PROVE  BagOf(N, One(GetGuidance(0))) /\ Answers(N, One(GetGuidance(0)), 0, 0, 0)
<1>1. PICK q : q = One(GetGuidance(0))
  OBVIOUS
<1>2. DOMAIN q = {GetGuidance(0)} /\ q = [m \in {GetGuidance(0)} |-> 1]
  BY <1>1 DEF One, SetToBag
<1>3. GetGuidance(0) \in Message(N)
  BY DEF GetGuidance, Message
<1>4. BagOf(N, q)
  BY <1>2, <1>3 DEF BagOf, IsABag
<1>5. \A i \in 0..N : Operation(i) \notin DOMAIN q
  BY <1>2, OperationsDiffer
<1>6. CopiesUpTo(N, q) = {}
  BY <1>5 DEF CopiesUpTo, CopiesOf, BagIn, BagToSet
<1>7. Answers(N, q, 0, 0, 0)
  BY <1>5, <1>6, FS_EmptySet DEF Answers
<1> QED BY <1>1, <1>4, <1>7

\* Without copies there is no operation.
LEMMA NoCopies ==
  ASSUME NEW N \in Nat, NEW q, IsABag(q), CopiesUpTo(N, q) = {},
         NEW i \in 0..N
  PROVE  Operation(i) \notin DOMAIN q
<1> SUFFICES ASSUME Operation(i) \in DOMAIN q PROVE FALSE
  OBVIOUS
<1>1. 1 \in 1..CopiesOf(Operation(i), q)
  BY CopiesNumber
<1>2. PICK p : p = <<i, 1>>
  OBVIOUS
<1>3. \E n \in 0..N, k \in Nat :
        k \in 1..CopiesOf(Operation(n), q) /\ p = <<n, k>>
  BY <1>1, <1>2
<1>4. p \in CopiesUpTo(N, q)
  BY <1>3, CopyOf
<1> QED BY <1>4

\* A datagram that is gone answers nothing any more; if it was taken for the
\* answer that was awaited, what is left are answers to duplicates.
LEMMA AnswersWithout ==
  ASSUME NEW N \in Nat, NEW q, BagOf(N, q), NEW m \in DOMAIN q,
         NEW d \in Nat, NEW b \in {0, 1}, NEW n, Answers(N, q, d, b, n)
  PROVE  /\ BagOf(N, q (-) One(m)) /\ Answers(N, q (-) One(m), d, b, n)
         /\ m.type = "operation" => Answers(N, q (-) One(m), d, 0, n)
<1>1. IsABag(q) /\ DOMAIN q \subseteq Message(N)
  BY DEF BagOf
<1>2. PICK p : p = q (-) One(m)
  OBVIOUS
<1>3. /\ IsABag(p) /\ DOMAIN p \subseteq DOMAIN q
      /\ CopiesOf(m, p) = CopiesOf(m, q) - 1
      /\ \A x : x # m => CopiesOf(x, p) = CopiesOf(x, q)
  BY <1>1, <1>2, OneLess
<1>4. BagOf(N, p)
  BY <1>1, <1>3 DEF BagOf
<1>5. PICK S, T : S = CopiesUpTo(N, q) /\ T = CopiesUpTo(N, p)
  OBVIOUS
<1>6. /\ IsFiniteSet(S) /\ Cardinality(S) <= d + b
      /\ d = 0 => \A i \in 0..N : Operation(i) \in DOMAIN q => b = 1 /\ i = n
  BY <1>5 DEF Answers
<1>7. d = 0 => \A i \in 0..N : Operation(i) \in DOMAIN p => b = 1 /\ i = n
  BY <1>3, <1>6
<1>8. CASE m.type = "operation"
  <2>1. PICK i \in 0..N : m = Operation(i)
    <3>1. m \in Message(N)
      BY <1>1
    <3>2. m.turn \in 0..N /\ m = [type |-> "operation", turn |-> m.turn]
      BY <3>1, <1>8 DEF Message
    <3> QED BY <3>2 DEF Operation
  <2>2. CopiesOf(m, p) \in Nat /\ CopiesOf(m, q) \in Nat
    BY <1>1, <1>3, CopiesNumber
  <2>3. CopiesOf(Operation(i), q) = CopiesOf(Operation(i), p) + 1
    BY <2>1, <2>2, <1>3
  <2>4. \A x : x # Operation(i) => CopiesOf(x, q) = CopiesOf(x, p)
    BY <2>1, <1>3
  <2>5. PICK e : e \notin T /\ S = T \cup {e}
    BY <2>3, <2>4, <1>1, <1>3, <1>5, CopyComes
  <2>6. /\ IsFiniteSet(T) /\ Cardinality(T) \in Nat
        /\ Cardinality(S) = Cardinality(T) + 1
    BY <2>5, <1>6, OneElementMore
  <2>7. Cardinality(T) <= d + 0 /\ Cardinality(T) <= d + b
    BY <2>6, <1>6
  <2>8. d = 0 => \A j \in 0..N : Operation(j) \notin DOMAIN p
    <3> SUFFICES ASSUME d = 0, NEW j \in 0..N
                 PROVE  Operation(j) \notin DOMAIN p
      OBVIOUS
    <3>1. Cardinality(T) = 0
      BY <2>6, <2>7
    <3>2. T = {}
      BY <3>1, <2>6, FS_EmptySet
    <3> QED BY <3>2, <1>3, <1>5, NoCopies
  <2>9. Answers(N, p, d, 0, n)
    BY <2>6, <2>7, <2>8, <1>5 DEF Answers
  <2>10. Answers(N, p, d, b, n)
    BY <2>6, <2>7, <2>8, <1>5 DEF Answers
  <2> QED BY <2>9, <2>10, <1>2, <1>4
<1>9. CASE m.type # "operation"
  <2>1. \A i \in 0..N : CopiesOf(Operation(i), p) = CopiesOf(Operation(i), q)
    BY <1>3, <1>9, OperationsDiffer
  <2>2. T = S
    BY <2>1, <1>5, SameCopies
  <2>3. Answers(N, p, d, b, n)
    BY <2>2, <1>5, <1>6, <1>7 DEF Answers
  <2> QED BY <2>3, <1>2, <1>4, <1>9
<1> QED BY <1>8, <1>9

\* A datagram that is duplicated is one answer more at most.
LEMMA AnswersAndDuplicate ==
  ASSUME NEW N \in Nat, NEW q, BagOf(N, q), NEW m \in DOMAIN q,
         NEW d \in Nat, NEW b \in {0, 1}, NEW n, Answers(N, q, d, b, n)
  PROVE  /\ BagOf(N, q (+) One(m)) /\ Answers(N, q (+) One(m), d + 1, b, n)
<1>1. IsABag(q) /\ DOMAIN q \subseteq Message(N)
  BY DEF BagOf
<1>2. PICK p : p = q (+) One(m)
  OBVIOUS
<1>3. /\ IsABag(p) /\ DOMAIN p = DOMAIN q \cup {m}
      /\ CopiesOf(m, p) = CopiesOf(m, q) + 1
      /\ \A x : x # m => CopiesOf(x, p) = CopiesOf(x, q)
  BY <1>1, <1>2, OneMore
<1>4. BagOf(N, p)
  BY <1>1, <1>3 DEF BagOf
<1>5. PICK S, T : S = CopiesUpTo(N, q) /\ T = CopiesUpTo(N, p)
  OBVIOUS
<1>6. /\ IsFiniteSet(S) /\ Cardinality(S) <= d + b /\ Cardinality(S) \in Nat
  BY <1>5, FS_CardinalityType DEF Answers
<1>7. IsFiniteSet(T) /\ Cardinality(T) <= d + 1 + b
  <2>1. CASE m.type = "operation"
    <3>1. PICK i \in 0..N : m = Operation(i)
      <4>1. m \in Message(N)
        BY <1>1
      <4>2. m.turn \in 0..N /\ m = [type |-> "operation", turn |-> m.turn]
        BY <4>1, <2>1 DEF Message
      <4> QED BY <4>2 DEF Operation
    <3>2. PICK e : e \notin S /\ T = S \cup {e}
      BY <3>1, <1>1, <1>3, <1>5, CopyComes
    <3>3. IsFiniteSet(T) /\ Cardinality(T) = Cardinality(S) + 1
      BY <3>2, <1>6, OneElementMore
    <3> QED BY <3>3, <1>6
  <2>2. CASE m.type # "operation"
    <3>1. \A i \in 0..N : CopiesOf(Operation(i), p) = CopiesOf(Operation(i), q)
      BY <1>3, <2>2, OperationsDiffer
    <3>2. T = S
      BY <3>1, <1>5, SameCopies
    <3> QED BY <3>2, <1>6
  <2> QED BY <2>1, <2>2
<1>8. d + 1 # 0
  OBVIOUS
<1>9. Answers(N, p, d + 1, b, n)
  BY <1>5, <1>7, <1>8 DEF Answers
<1> QED BY <1>2, <1>4, <1>9

\* An operation that is sent is awaited.
LEMMA AnswersAndOperation ==
  ASSUME NEW N \in Nat, NEW q, BagOf(N, q), NEW d \in Nat, NEW k,
         NEW n \in 0..N, Answers(N, q, d, 0, k)
  PROVE  /\ BagOf(N, q (+) One(Operation(n)))
         /\ Answers(N, q (+) One(Operation(n)), d, 1, n)
<1>1. IsABag(q) /\ DOMAIN q \subseteq Message(N)
  BY DEF BagOf
<1>2. PICK p : p = q (+) One(Operation(n))
  OBVIOUS
<1>3. /\ IsABag(p) /\ DOMAIN p = DOMAIN q \cup {Operation(n)}
      /\ CopiesOf(Operation(n), p) = CopiesOf(Operation(n), q) + 1
      /\ \A x : x # Operation(n) => CopiesOf(x, p) = CopiesOf(x, q)
  BY <1>1, <1>2, OneMore
<1>4. Operation(n) \in Message(N)
  BY DEF Operation, Message
<1>5. BagOf(N, p)
  BY <1>1, <1>3, <1>4 DEF BagOf
<1>6. PICK S, T : S = CopiesUpTo(N, q) /\ T = CopiesUpTo(N, p)
  OBVIOUS
<1>7. /\ IsFiniteSet(S) /\ Cardinality(S) <= d /\ Cardinality(S) \in Nat
      /\ d = 0 => \A i \in 0..N : Operation(i) \notin DOMAIN q
  BY <1>6, FS_CardinalityType DEF Answers
<1>8. PICK e : e \notin S /\ T = S \cup {e}
  BY <1>1, <1>3, <1>6, CopyComes
<1>9. IsFiniteSet(T) /\ Cardinality(T) <= d + 1
  BY <1>7, <1>8, OneElementMore
<1>10. d = 0 => \A i \in 0..N : Operation(i) \in DOMAIN p => 1 = 1 /\ i = n
  BY <1>3, <1>7, OperationsDiffer
<1>11. Answers(N, p, d, 1, n)
  BY <1>6, <1>9, <1>10 DEF Answers
<1> QED BY <1>2, <1>5, <1>11
-----------------------------------------------------------------------------
(* Threads and clients *)

\* What the command line says
LEMMA Numbers ==
  ASSUME TypeOK
  PROVE  /\ cfg.nums \in Nat /\ cfg.grouping \in Nat \ {0} /\ ThreadNums \in Nat
         /\ cfg.mode \in {"write", "read", "ur"}
         /\ Owner \in Node /\ 0 \in Node
<1>1. cfg \in CommandLine
  BY CommandLineAssumption DEF TypeOK
<1>2. cfg.total \in Nat /\ cfg.grouping \in Nat \ {0} /\ cfg.nums \in Nat
      /\ cfg.mode \in {"write", "read", "ur"}
  BY <1>1 DEF CommandLine
<1>3. \A a \in Nat, d \in Nat \ {0} : a \div d \in Nat
  OBVIOUS
<1>4. ThreadNums \in Nat
  BY <1>2, <1>3 DEF ThreadNums
<1> QED BY <1>2, <1>4, OwnerAssumption, GuidanceAssumption DEF Node

\* The quotient of a number between two multiples
LEMMA QuotientOf ==
  ASSUME NEW g \in Nat \ {0}, NEW t \in Nat, NEW j \in 0..(g - 1)
  PROVE  (t * g + j) \div g = t
<1>1. PICK a \in Nat : a = t * g + j
  OBVIOUS
<1>2. PICK p \in Nat : p = a \div g /\ g * p <= a /\ a < g * p + g
  OBVIOUS
<1>3. g * t <= a /\ a < g * t + g
  <2>1. g * t = t * g /\ t * g \in Nat
    OBVIOUS
  <2> QED BY <1>1, <2>1
<1>4. ASSUME p > t PROVE FALSE
  <2>1. PICK x \in Nat : p = t + 1 + x
    BY <1>4
  <2>2. g * p = g * t + g + g * x /\ g * x \in Nat /\ g * t \in Nat
    BY <2>1
  <2> QED BY <2>2, <1>2, <1>3
<1>5. ASSUME t > p PROVE FALSE
  <2>1. PICK x \in Nat : t = p + 1 + x
    BY <1>5
  <2>2. g * t = g * p + g + g * x /\ g * x \in Nat /\ g * p \in Nat
    BY <2>1
  <2> QED BY <2>2, <1>2, <1>3
<1> QED BY <1>1, <1>2, <1>4, <1>5

\* What a thread drives are clients, and no other thread drives them.
LEMMA ClientsOfThread ==
  ASSUME TypeOK, NEW t \in Thread, NEW c \in ToSet(ClientsOf(t))
  PROVE  c \in Client /\ ThreadOf(c) = t
<1>1. PICK g \in Nat \ {0}, k \in Nat : g = cfg.grouping /\ k = ThreadNums
  BY Numbers
<1>2. t \in 0..(k - 1)
  BY <1>1 DEF Thread
<1>3. PICK i \in 1..g : c = t * g + i - 1
  BY <1>1 DEF ClientsOf, ToSet
<1>4. PICK j \in 0..(g - 1) : j = i - 1
  BY <1>3
<1>5. c = t * g + j
  <2>1. t * g \in Nat
    BY <1>2
  <2> QED BY <2>1, <1>3, <1>4
<1>6. c \in 0..(k * g - 1)
  <2>1. PICK x \in Nat : k = t + 1 + x
    BY <1>2
  <2>2. k * g = t * g + g + x * g /\ x * g \in Nat /\ t * g \in Nat
    BY <2>1, <1>2
  <2> QED BY <2>2, <1>5
<1>7. c \div g = t
  BY <1>2, <1>5, QuotientOf
<1> QED BY <1>1, <1>6, <1>7 DEF Client, ThreadOf

\* There are finitely many clients.
LEMMA ClientsFinite ==
  ASSUME TypeOK
  PROVE  IsFiniteSet(Client)
<1>1. PICK g \in Nat, k \in Nat : g = cfg.grouping /\ k = ThreadNums
  BY Numbers
<1>2. k * g \in Nat
  OBVIOUS
<1>3. PICK a \in Nat : a = k * g
  BY <1>2
<1>4. IsFiniteSet(0..(a - 1))
  BY FS_Interval
<1> QED BY <1>1, <1>3, <1>4 DEF Client

\* With the same command line there are the same threads and clients.
LEMMA SameCommandLine ==
  ASSUME cfg' = cfg
  PROVE  /\ Client' = Client /\ Thread' = Thread
         /\ \A t : ToSet(ClientsOf(t))' = ToSet(ClientsOf(t))
<1>1. \A t : ClientsOf(t)' = ClientsOf(t)
  BY DEF ClientsOf
<1> QED BY <1>1 DEF Client, Thread, ThreadNums, ToSet

\* The values of the variables
LEMMA Values ==
  ASSUME DatagramInv
  PROVE  /\ TypeOK /\ NetDomains /\ SentCounted
         /\ status \in [Client -> Status] /\ leading \in [Client -> 0..Epoch]
         /\ collection \in [Client -> Collections(cfg.nums)]
         /\ sent \in 0..(cfg.nums + 1) /\ pc \in [Thread -> {"blocked", "handling", "top", "done"}]
         /\ turn \in [Client -> 0..cfg.nums]
         /\ duplicated \in [Client -> 0..MaxDuplicated]
         /\ \A c \in Client, r \in Node : BagOf(cfg.nums, net[c][r])
         /\ \A c \in Client : OperationsAtOwner(c) /\ AnswersKnown(c)
         /\ \A t \in Thread : ThreadInStep(t)
<1>1. \A c \in Client, r \in Node : BagOf(cfg.nums, net[c][r])
  BY DEF DatagramInv, TypeOK, BagOf, Message, BagToSet
<1> QED BY <1>1 DEF DatagramInv, TypeOK, Status, Collections

\* Types are kept when each variable keeps its own.
LEMMA TypesKept ==
  ASSUME TypeOK, cfg' = cfg,
         status' \in [Client -> Status], leading' \in [Client -> 0..Epoch],
         collection' \in [Client -> Collections(cfg.nums)],
         sent' \in 0..(cfg.nums + 1), finish' \subseteq Client,
         pc' \in [Thread -> {"blocked", "handling", "top", "done"}],
         setup' \subseteq Thread, turn' \in [Client -> 0..cfg.nums],
         lost' \in 0..MaxLost, duplicated' \in [Client -> 0..MaxDuplicated],
         \A c \in Client, r \in Node : BagOf(cfg.nums, net'[c][r])
  PROVE  TypeOK'
<1>1. Client' = Client /\ Thread' = Thread
  BY SameCommandLine
<1>2. \A c \in Client', r \in Node :
        /\ IsABag(net'[c][r])
        /\ BagToSet(net'[c][r]) \subseteq [type: {"operation", "guidance"}, turn: 0..cfg'.nums]
  BY <1>1 DEF BagOf, Message, BagToSet
<1>3. /\ cfg' \in CommandLines
      /\ status' \in [Client' -> {"init", "reading", "waiting_guidance", "writing", "idle"}]
      /\ leading' \in [Client' -> 0..Epoch]
  BY <1>1 DEF TypeOK, Status
<1>4. /\ collection' \in [Client' -> [Node -> [epoch: 0..Epoch, turn: 0..cfg'.nums]]]
      /\ sent' \in 0..(cfg'.nums + 1)
      /\ finish' \subseteq Client'
  BY <1>1 DEF Collections
<1>5. /\ pc' \in [Thread' -> {"blocked", "handling", "top", "done"}]
      /\ setup' \subseteq Thread'
      /\ turn' \in [Client' -> 0..cfg'.nums]
      /\ lost' \in 0..MaxLost
      /\ duplicated' \in [Client' -> 0..MaxDuplicated]
  BY <1>1
<1> QED BY <1>2, <1>3, <1>4, <1>5 DEF TypeOK

\* A thread whose place and clients are as they were is in step as it was.
LEMMA ThreadKept ==
  ASSUME NEW t \in Thread, ThreadInStep(t), cfg' = cfg,
         pc'[t] = pc[t], t \in setup' <=> t \in setup,
         sent' = sent \/ (sent >= cfg.nums => sent' >= cfg.nums),
         \A c \in ToSet(ClientsOf(t)) :
           status'[c] = status[c] /\ leading'[c] = leading[c]
  PROVE  ThreadInStep(t)'
<1>1. ToSet(ClientsOf(t))' = ToSet(ClientsOf(t))
  BY SameCommandLine
<1>2. PICK C : C = ToSet(ClientsOf(t))
  OBVIOUS
<1> QED BY <1>1, <1>2 DEF ThreadInStep

\* The count of operations is kept when nothing is sent.
LEMMA CountKept ==
  ASSUME SentCounted, cfg' = cfg, turn' = turn, sent' = sent
  PROVE  SentCounted'
<1>1. Client' = Client
  BY SameCommandLine
<1>2. OperationsSent' = OperationsSent
  BY <1>1 DEF OperationsSent
<1> QED BY <1>2 DEF SentCounted
-----------------------------------------------------------------------------
(* The steps *)

\* A step that leaves threads, turns and answers alone
LEMMA Whole ==
  ASSUME cfg' = cfg, TypeOK', NetDomains', SentCounted',
         \A c \in Client : OperationsAtOwner(c)',
         \A c \in Client :
           Answers(cfg.nums, net'[c][Owner], duplicated'[c],
                   Awaiting(status'[c]), turn'[c]),
         \A t \in Thread : ThreadInStep(t)'
  PROVE  DatagramInv'
<1>1. Client' = Client /\ Thread' = Thread
  BY SameCommandLine
<1>2. \A c \in Client : AnswersKnown(c)'
  BY DEF AnswersKnown
<1> QED BY <1>1, <1>2 DEF DatagramInv

\* The status s and the collection coll of a client after it took m
Took(c, m, s, coll) ==
  /\ status' = [status EXCEPT ![c] = s]
  /\ collection' = [collection EXCEPT ![c] = coll]
  /\ s \in Status /\ coll \in Collections(cfg.nums)
  /\ status[c] \in {"init", "idle"} => s = status[c]
  /\ \/ Awaiting(s) = Awaiting(status[c])
     \/ m.type = "operation" /\ Awaiting(s) = 0

\* A client takes at most one answer for a datagram, and none before it is set
\* up or while it is idle.
LEMMA CallbackTakes ==
  ASSUME DatagramInv, NEW c \in Client, NEW r \in Node,
         NEW m \in Message(cfg.nums), Callback(c, r, m)
  PROVE  \E s, coll : Took(c, m, s, coll)
<1>1. /\ status \in [Client -> Status]
      /\ collection \in [Client -> Collections(cfg.nums)]
      /\ cfg.nums \in Nat
  BY Values, Numbers
<1>2. PICK N \in Nat : N = cfg.nums
  BY <1>1
<1>3. status[c] \in Status /\ collection[c] \in Collections(N)
  BY <1>1, <1>2
<1>4. /\ status = [status EXCEPT ![c] = status[c]]
      /\ collection = [collection EXCEPT ![c] = collection[c]]
  BY <1>1
<1>5. PICK k : k = Collected(c, r, m)
  OBVIOUS
<1>6. k \in Collections(N)
  <2>1. m.turn \in 0..N
    BY <1>2 DEF Message
  <2>2. [epoch |-> Epoch, turn |-> m.turn] \in [epoch: 0..Epoch, turn: 0..N]
    BY <2>1 DEF Epoch
  <2> QED BY <2>2, <1>3, <1>5 DEF Collected, Collections
<1>7. NoCollection \in Collections(N)
  <2>1. NoGuidance \in [epoch: 0..Epoch, turn: 0..N]
    BY DEF NoGuidance, Epoch
  <2> QED BY <2>1 DEF NoCollection, Collections
<1>8. m.type \in {"operation", "guidance"}
  BY DEF Message
<1>9. ASSUME UNCHANGED <<collection, status>> PROVE Took(c, m, status[c], collection[c])
  BY <1>2, <1>3, <1>4, <1>9 DEF Took
<1>10. ASSUME NEW done \in BOOLEAN, NEW coll \in Collections(N), NEW s \in Status,
              EndTurnIf(done, c, coll, s),
              status[c] \notin {"init", "idle"} \/ (~done /\ s = status[c]),
              \/ m.type = "operation" /\ Awaiting(s) = 0
              \/ /\ s = status[c]
                 /\ done => m.type = "operation" \/ Awaiting(s) = 0
       PROVE  \E t, h : Took(c, m, t, h)
  <2>1. CASE done
    <3>1. Took(c, m, "idle", NoCollection)
      BY <2>1, <1>2, <1>7, <1>10 DEF EndTurnIf, Took, Status, Awaiting
    <3> QED BY <3>1
  <2>2. CASE ~done
    <3>1. Took(c, m, s, coll)
      BY <2>2, <1>2, <1>10 DEF EndTurnIf, Took, Status, Awaiting
    <3> QED BY <3>1
  <2> QED BY <2>1, <2>2
<1>11. ASSUME cfg.mode = "ur"
       PROVE  \E s, coll : Took(c, m, s, coll)
  <2>1. HandleUrReply(c, r, m)
    BY <1>11 DEF Callback
  <2>2. CASE m.type = "guidance"
    <3>1. Took(c, m, status[c], k)
      BY <2>1, <2>2, <1>2, <1>3, <1>4, <1>5, <1>6 DEF HandleUrReply, Took
    <3> QED BY <3>1
  <2>3. CASE m.type = "operation" /\ status[c] = "reading"
    <3>1. Took(c, m, "idle", collection[c])
      BY <2>1, <2>3, <1>2, <1>3, <1>4 DEF HandleUrReply, Took, Status, Awaiting
    <3> QED BY <3>1
  <2>4. CASE m.type = "operation" /\ status[c] # "reading"
    <3>1. UNCHANGED <<collection, status>>
      BY <2>1, <2>4, <1>4 DEF HandleUrReply
    <3> QED BY <3>1, <1>9
  <2> QED BY <2>2, <2>3, <2>4, <1>8
<1>12. ASSUME cfg.mode # "ur", m.type = "guidance"
       PROVE  \E s, coll : Took(c, m, s, coll)
  <2>1. GuidanceArrives(c, r, m)
    BY <1>12 DEF Callback, HandleReply
  <2>2. PICK done \in BOOLEAN : done = EndsOnGuidance(c, k)
    BY DEF EndsOnGuidance, GuidanceQuorum
  <2>3. EndTurnIf(done, c, k, status[c])
    BY <2>1, <2>2, <1>5 DEF GuidanceArrives
  <2>4. done => status[c] = "waiting_guidance"
    BY <2>2 DEF EndsOnGuidance
  <2>5. done => Awaiting(status[c]) = 0 /\ status[c] \notin {"init", "idle"}
    BY <2>4 DEF Awaiting
  <2> QED BY <2>3, <2>5, <1>3, <1>6, <1>10
<1>13. ASSUME cfg.mode # "ur", m.type = "operation"
       PROVE  \E s, coll : Took(c, m, s, coll)
  <2>1. ReplyArrives(c, r, m)
    BY <1>13 DEF Callback, HandleReply
  <2>2. CASE status[c] = "reading"
    <3>1. PICK done \in BOOLEAN : done = GuidanceQuorum(k, leading[c])
      BY DEF GuidanceQuorum
    <3>2. EndTurnIf(done, c, k, "waiting_guidance")
      BY <2>1, <2>2, <3>1, <1>5 DEF ReplyArrives, ReadReplyArrives
    <3>3. "waiting_guidance" \in Status /\ Awaiting("waiting_guidance") = 0
          /\ status[c] \notin {"init", "idle"}
      BY <2>2 DEF Status, Awaiting
    <3> QED BY <3>2, <3>3, <1>6, <1>10, <1>13
  <2>3. CASE status[c] = "writing"
    <3>1. EndTurnIf(TRUE, c, collection[c], "idle")
      BY <2>1, <2>3 DEF ReplyArrives
    <3>2. "idle" \in Status /\ Awaiting("idle") = 0
          /\ status[c] \notin {"init", "idle"}
      BY <2>3 DEF Status, Awaiting
    <3> QED BY <3>1, <3>2, <1>3, <1>10, <1>13
  <2>4. CASE status[c] \notin {"reading", "writing"}
    <3>1. UNCHANGED <<collection, status>>
      BY <2>1, <2>4 DEF ReplyArrives
    <3> QED BY <3>1, <1>9
  <2> QED BY <2>2, <2>3, <2>4
<1> QED BY <1>8, <1>11, <1>12, <1>13

\* The bag of a client and a replica is the only one that changes.
OneBag(c, r, q) == net' = [net EXCEPT ![c][r] = q]

LEMMA OneBagChanges ==
  ASSUME NetDomains, NEW c \in Client, NEW r \in Node, NEW q, OneBag(c, r, q),
         cfg' = cfg
  PROVE  /\ NetDomains' /\ net'[c][r] = q
         /\ \A d \in Client, x \in Node :
              d # c \/ x # r => net'[d][x] = net[d][x]
<1>1. DOMAIN net = Client /\ DOMAIN net[c] = Node
  BY DEF NetDomains
<1>2. net'[c] = [net[c] EXCEPT ![r] = q]
  BY <1>1 DEF OneBag
<1>3. \A d \in Client : d # c => net'[d] = net[d]
  BY <1>1 DEF OneBag
<1>4. DOMAIN net' = Client
  BY <1>1 DEF OneBag
<1>5. net'[c][r] = q /\ \A x \in Node : x # r => net'[c][x] = net[c][x]
  BY <1>1, <1>2
<1>6. \A d \in Client : DOMAIN net'[d] = Node
  BY <1>1, <1>2, <1>3 DEF NetDomains
<1>7. NetDomains'
  BY <1>4, <1>6, SameCommandLine DEF NetDomains
<1> QED BY <1>3, <1>5, <1>7

\* Where a datagram is gone, operations still travel to the owner only.
LEMMA OperationsStay ==
  ASSUME NEW c \in Client, OperationsAtOwner(c),
         \A x \in Node \ {Owner} :
           \A m \in DOMAIN net'[c][x] :
             m \in DOMAIN net[c][x] \/ m.type = "guidance"
  PROVE  OperationsAtOwner(c)'
BY DEF OperationsAtOwner

\* The client takes a datagram that came for one it awaits, or for none.
LEMMA RecvKeepsInv ==
  ASSUME DatagramInv, NEW t \in Thread, NEW c \in ToSet(ClientsOf(t)),
         NEW r \in Node, NEW m \in BagToSet(net[c][r]), Recv(c, r, m)
  PROVE  DatagramInv'
<1>1. /\ TypeOK /\ NetDomains /\ SentCounted /\ c \in Client /\ ThreadOf(c) = t
      /\ \A d \in Client : OperationsAtOwner(d) /\ AnswersKnown(d)
      /\ \A u \in Thread : ThreadInStep(u)
      /\ cfg.nums \in Nat /\ Owner \in Node
  BY Values, Numbers, ClientsOfThread
<1>2. /\ pc[t] \in {"blocked", "handling"} /\ pc' = [pc EXCEPT ![t] = "handling"]
      /\ OneBag(c, r, net[c][r] (-) One(m)) /\ Callback(c, r, m)
      /\ cfg' = cfg /\ leading' = leading /\ turn' = turn /\ sent' = sent
      /\ finish' = finish /\ setup' = setup /\ lost' = lost
      /\ duplicated' = duplicated
  BY <1>1 DEF Recv, InLoop, OneBag
<1>3. PICK N \in Nat : N = cfg.nums
  BY <1>1
<1>4. PICK q : q = net[c][r]
  OBVIOUS
<1>5. BagOf(N, q) /\ m \in DOMAIN q /\ m \in Message(N)
  BY <1>1, <1>3, <1>4, Values DEF BagOf, BagToSet
<1>6. PICK p : p = q (-) One(m)
  OBVIOUS
<1>7. BagOf(N, p) /\ DOMAIN p \subseteq DOMAIN q
  <2>1. IsABag(q) /\ DOMAIN q \subseteq Message(N)
    BY <1>5 DEF BagOf
  <2> QED BY <2>1, <1>5, <1>6, OneLess DEF BagOf
<1>8. /\ NetDomains' /\ net'[c][r] = p
      /\ \A d \in Client, x \in Node :
           d # c \/ x # r => net'[d][x] = net[d][x]
  BY <1>1, <1>2, <1>4, <1>6, OneBagChanges
<1>9. PICK s, coll : Took(c, m, s, coll)
  BY <1>1, <1>2, <1>3, <1>5, CallbackTakes
<1>10. /\ s \in Status /\ coll \in Collections(N)
       /\ status' = [status EXCEPT ![c] = s]
       /\ collection' = [collection EXCEPT ![c] = coll]
       /\ status[c] \in {"init", "idle"} => s = status[c]
       /\ \/ Awaiting(s) = Awaiting(status[c])
          \/ m.type = "operation" /\ Awaiting(s) = 0
  BY <1>3, <1>9 DEF Took
<1>11. /\ status \in [Client -> Status]
       /\ collection \in [Client -> Collections(N)]
       /\ pc \in [Thread -> {"blocked", "handling", "top", "done"}]
       /\ turn \in [Client -> 0..N] /\ duplicated \in [Client -> 0..MaxDuplicated]
       /\ \A d \in Client, x \in Node : BagOf(N, net[d][x])
  BY <1>3, Values
<1>12. /\ status' \in [Client -> Status] /\ status'[c] = s
       /\ \A d \in Client : d # c => status'[d] = status[d]
       /\ pc' \in [Thread -> {"blocked", "handling", "top", "done"}]
       /\ pc'[t] = "handling" /\ \A u \in Thread : u # t => pc'[u] = pc[u]
  BY <1>1, <1>2, <1>10, <1>11
<1>13. TypeOK'
  <2>1. collection' \in [Client -> Collections(N)]
    BY <1>10, <1>11
  <2>2. \A d \in Client, x \in Node : BagOf(N, net'[d][x])
    BY <1>7, <1>8, <1>11
  <2>3. /\ leading' \in [Client -> 0..Epoch] /\ sent' \in 0..(N + 1)
        /\ finish' \subseteq Client /\ setup' \subseteq Thread
        /\ turn' \in [Client -> 0..N] /\ lost' \in 0..MaxLost
        /\ duplicated' \in [Client -> 0..MaxDuplicated]
    BY <1>1, <1>2, <1>3 DEF TypeOK
  <2> QED BY <2>1, <2>2, <2>3, <1>1, <1>2, <1>3, <1>12, TypesKept
<1>14. SentCounted'
  BY <1>1, <1>2, CountKept
<1>15. ASSUME NEW d \in Client PROVE OperationsAtOwner(d)'
  <2>1. \A x \in Node \ {Owner} :
          \A k \in DOMAIN net'[d][x] : k \in DOMAIN net[d][x]
    BY <1>4, <1>7, <1>8
  <2> QED BY <2>1, <1>1, OperationsStay
<1>16. ASSUME NEW d \in Client
       PROVE  Answers(N, net'[d][Owner], duplicated'[d], Awaiting(status'[d]),
                      turn'[d])
  <2>1. Answers(N, net[d][Owner], duplicated[d], Awaiting(status[d]), turn[d])
    BY <1>1, <1>3 DEF AnswersKnown
  <2>2. CASE d # c
    BY <2>1, <2>2, <1>1, <1>2, <1>8, <1>12
  <2>3. CASE d = c /\ r # Owner
    <3>1. m.type = "guidance"
      BY <2>3, <1>1, <1>4, <1>5 DEF OperationsAtOwner
    <3>2. Awaiting(s) = Awaiting(status[c])
      BY <3>1, <1>10
    <3>3. net'[c][Owner] = net[c][Owner]
      BY <2>3, <1>1, <1>8
    <3>4. Awaiting(status'[c]) = Awaiting(status[c])
      BY <3>2, <1>12
    <3> QED BY <2>1, <2>3, <3>3, <3>4, <1>2
  <2>4. CASE d = c /\ r = Owner
    <3>1. PICK b \in {0, 1} : b = Awaiting(status[c])
      BY DEF Awaiting
    <3>2. PICK k \in Nat : k = duplicated[c]
      <4>1. duplicated[c] \in 0..MaxDuplicated
        BY <1>1, <1>11
      <4> QED BY <4>1, NetworkAssumption
    <3>3. PICK n : n = turn[c]
      OBVIOUS
    <3>4. Answers(N, q, k, b, n)
      BY <2>1, <2>4, <3>1, <3>2, <3>3, <1>4
    <3>5. /\ Answers(N, p, k, b, n)
          /\ m.type = "operation" => Answers(N, p, k, 0, n)
      BY <3>4, <1>5, <1>6, AnswersWithout
    <3>6. Answers(N, p, k, Awaiting(s), n)
      <4>1. CASE Awaiting(s) = b
        BY <4>1, <3>5
      <4>2. CASE m.type = "operation" /\ Awaiting(s) = 0
        BY <4>2, <3>5
      <4> QED BY <4>1, <4>2, <3>1, <1>10
    <3> QED BY <2>4, <3>2, <3>3, <3>6, <1>2, <1>8, <1>12
  <2> QED BY <2>2, <2>3, <2>4
<1>17. ASSUME NEW u \in Thread PROVE ThreadInStep(u)'
  <2>1. CASE u # t
    <3>1. \A d \in ToSet(ClientsOf(u)) : d \in Client /\ d # c
      BY <2>1, <1>1, ClientsOfThread
    <3> QED BY <2>1, <3>1, <1>1, <1>2, <1>12, ThreadKept
  <2>2. CASE u = t
    <3>1. PICK C : C = ToSet(ClientsOf(t))
      OBVIOUS
    <3>2. C' = C /\ ToSet(ClientsOf(t))' = C
      BY <3>1, <1>2, SameCommandLine
    <3>3. \A d \in C : d \in Client
      BY <3>1, <1>1, ClientsOfThread
    <3>4. /\ t \notin setup => \A d \in C : status[d] \in {"init", "idle"}
          /\ t \in setup => \A d \in C : leading[d] = Epoch
      BY <3>1, <1>1 DEF ThreadInStep
    <3>5. t \notin setup => \A d \in C : status'[d] \in {"init", "idle"}
      BY <3>3, <3>4, <1>10, <1>12
    <3>6. pc'[t] \notin {"top", "done"}
      BY <1>12
    <3> QED BY <2>2, <3>2, <3>4, <3>5, <3>6, <1>2 DEF ThreadInStep
  <2> QED BY <2>1, <2>2
<1> QED BY <1>2, <1>3, <1>8, <1>13, <1>14, <1>15, <1>16, <1>17, Whole

\* A datagram that is lost answers nothing.
LEMMA LoseKeepsInv ==
  ASSUME DatagramInv, NEW c \in Client, NEW r \in Node,
         NEW m \in BagToSet(net[c][r]), Lose(c, r, m)
  PROVE  DatagramInv'
<1>1. /\ TypeOK /\ NetDomains /\ SentCounted
      /\ \A d \in Client : OperationsAtOwner(d) /\ AnswersKnown(d)
      /\ \A u \in Thread : ThreadInStep(u)
      /\ cfg.nums \in Nat /\ Owner \in Node
  BY Values, Numbers
<1>2. /\ OneBag(c, r, net[c][r] (-) One(m)) /\ lost < MaxLost /\ lost' = lost + 1
      /\ cfg' = cfg /\ status' = status /\ leading' = leading /\ turn' = turn
      /\ collection' = collection /\ sent' = sent /\ finish' = finish
      /\ pc' = pc /\ setup' = setup /\ duplicated' = duplicated
  BY DEF Lose, OneBag, clientVars, threadVars
<1>3. PICK N \in Nat : N = cfg.nums
  BY <1>1
<1>4. PICK q : q = net[c][r]
  OBVIOUS
<1>5. BagOf(N, q) /\ m \in DOMAIN q
  BY <1>3, <1>4, Values DEF BagToSet
<1>6. PICK p : p = q (-) One(m)
  OBVIOUS
<1>7. BagOf(N, p) /\ DOMAIN p \subseteq DOMAIN q
  <2>1. IsABag(q) /\ DOMAIN q \subseteq Message(N)
    BY <1>5 DEF BagOf
  <2> QED BY <2>1, <1>5, <1>6, OneLess DEF BagOf
<1>8. /\ NetDomains' /\ net'[c][r] = p
      /\ \A d \in Client, x \in Node :
           d # c \/ x # r => net'[d][x] = net[d][x]
  BY <1>1, <1>2, <1>4, <1>6, OneBagChanges
<1>9. TypeOK'
  <2>1. \A d \in Client, x \in Node : BagOf(N, net[d][x])
    BY <1>3, Values
  <2>2. \A d \in Client, x \in Node : BagOf(N, net'[d][x])
    BY <2>1, <1>7, <1>8
  <2>3. lost' \in 0..MaxLost
    <3>1. lost \in 0..MaxLost
      BY <1>1 DEF TypeOK
    <3> QED BY <3>1, <1>2, NetworkAssumption
  <2>4. /\ status' \in [Client -> Status] /\ leading' \in [Client -> 0..Epoch]
        /\ collection' \in [Client -> Collections(N)]
        /\ sent' \in 0..(N + 1) /\ finish' \subseteq Client
        /\ pc' \in [Thread -> {"blocked", "handling", "top", "done"}]
        /\ setup' \subseteq Thread /\ turn' \in [Client -> 0..N]
        /\ duplicated' \in [Client -> 0..MaxDuplicated]
    BY <1>1, <1>2, <1>3 DEF TypeOK, Status, Collections
  <2> QED BY <2>2, <2>3, <2>4, <1>1, <1>2, <1>3, TypesKept
<1>10. SentCounted'
  BY <1>1, <1>2, CountKept
<1>11. ASSUME NEW d \in Client PROVE OperationsAtOwner(d)'
  <2>1. \A x \in Node \ {Owner} :
          \A k \in DOMAIN net'[d][x] : k \in DOMAIN net[d][x]
    BY <1>4, <1>7, <1>8
  <2> QED BY <2>1, <1>1, OperationsStay
<1>12. ASSUME NEW d \in Client
       PROVE  Answers(N, net'[d][Owner], duplicated'[d], Awaiting(status'[d]),
                      turn'[d])
  <2>1. Answers(N, net[d][Owner], duplicated[d], Awaiting(status[d]), turn[d])
    BY <1>1, <1>3 DEF AnswersKnown
  <2>2. CASE d # c \/ r # Owner
    BY <2>1, <2>2, <1>1, <1>2, <1>8
  <2>3. CASE d = c /\ r = Owner
    <3>1. PICK b \in {0, 1} : b = Awaiting(status[c])
      BY DEF Awaiting
    <3>2. PICK k \in Nat : k = duplicated[c]
      <4>1. duplicated[c] \in 0..MaxDuplicated
        BY Values
      <4> QED BY <4>1, NetworkAssumption
    <3>3. PICK n : n = turn[c]
      OBVIOUS
    <3>4. Answers(N, q, k, b, n)
      BY <2>1, <2>3, <3>1, <3>2, <3>3, <1>4
    <3>5. Answers(N, p, k, b, n)
      BY <3>4, <1>5, <1>6, AnswersWithout
    <3> QED BY <2>3, <3>1, <3>2, <3>3, <3>5, <1>2, <1>8
  <2> QED BY <2>2, <2>3
<1>13. ASSUME NEW u \in Thread PROVE ThreadInStep(u)'
  BY <1>1, <1>2, ThreadKept
<1> QED BY <1>2, <1>3, <1>8, <1>9, <1>10, <1>11, <1>12, <1>13, Whole

\* A duplicate more allows one answer more.
LEMMA MoreDuplicates ==
  ASSUME NEW N, NEW q, NEW d \in Nat, NEW b \in {0, 1}, NEW n,
         Answers(N, q, d, b, n)
  PROVE  Answers(N, q, d + 1, b, n)
<1>1. PICK S : S = CopiesUpTo(N, q)
  OBVIOUS
<1>2. IsFiniteSet(S) /\ Cardinality(S) <= d + b /\ Cardinality(S) \in Nat
  BY <1>1, FS_CardinalityType DEF Answers
<1>3. Cardinality(S) <= (d + 1) + b /\ d + 1 # 0
  BY <1>2
<1> QED BY <1>1, <1>2, <1>3 DEF Answers

\* A client has no more duplicates than there are.
LEMMA DuplicatesOfClient ==
  ASSUME TypeOK, NEW c \in Client, Cardinality(Duplicates) < MaxDuplicated
  PROVE  duplicated[c] + 1 \in 0..MaxDuplicated
<1>1. PICK M \in Nat : M = MaxDuplicated
  BY NetworkAssumption
<1>2. PICK k \in 0..M : k = duplicated[c]
  BY <1>1 DEF TypeOK
<1>3. PICK S : S = Duplicates
  OBVIOUS
<1>4. IsFiniteSet(S)
  <2>1. IsFiniteSet(Client \X (1..M))
    <3>1. PICK C, I : C = Client /\ I = 1..M
      OBVIOUS
    <3>2. IsFiniteSet(C) /\ IsFiniteSet(I)
      BY <3>1, ClientsFinite, FS_Interval
    <3>3. IsFiniteSet(C \X I)
      BY <3>2, FS_Product
    <3> QED BY <3>1, <3>3
  <2>2. S \subseteq Client \X (1..M)
    BY <1>1, <1>3 DEF Duplicates
  <2> QED BY <2>1, <2>2, FS_Subset
<1>5. PICK T : T = {c} \X (1..k)
  OBVIOUS
<1>6. T \subseteq S
  <2> SUFFICES ASSUME NEW x \in T PROVE x \in S
    OBVIOUS
  <2>1. PICK i \in 1..k : x = <<c, i>>
    BY <1>5
  <2>2. x \in Client \X (1..M) /\ x[1] = c /\ x[2] = i
    BY <2>1
  <2>3. x[2] <= duplicated[x[1]]
    BY <2>1, <2>2, <1>2
  <2> QED BY <2>2, <2>3, <1>1, <1>3 DEF Duplicates
<1>7. Cardinality(T) = k
  <2>1. IsFiniteSet({c}) /\ Cardinality({c}) = 1
    BY FS_Singleton
  <2>2. IsFiniteSet(1..k) /\ Cardinality(1..k) = k
    BY FS_Interval
  <2>3. Cardinality(T) = Cardinality({c}) * Cardinality(1..k)
    BY <2>1, <2>2, <1>5, FS_Product
  <2> QED BY <2>1, <2>2, <2>3
<1>8. Cardinality(T) <= Cardinality(S) /\ Cardinality(S) \in Nat
  BY <1>4, <1>6, FS_Subset, FS_CardinalityType
<1>9. k < M
  BY <1>1, <1>3, <1>7, <1>8
<1> QED BY <1>1, <1>2, <1>9

\* A duplicate is counted where it may stand for an answer.
LEMMA DuplicateKeepsInv ==
  ASSUME DatagramInv, NEW c \in Client, NEW r \in Node,
         NEW m \in BagToSet(net[c][r]), Duplicate(c, r, m)
  PROVE  DatagramInv'
<1>1. /\ TypeOK /\ NetDomains /\ SentCounted
      /\ \A d \in Client : OperationsAtOwner(d) /\ AnswersKnown(d)
      /\ \A u \in Thread : ThreadInStep(u)
      /\ cfg.nums \in Nat /\ Owner \in Node
  BY Values, Numbers
<1>2. /\ OneBag(c, r, net[c][r] (+) One(m)) /\ lost' = lost
      /\ Cardinality(Duplicates) < MaxDuplicated
      /\ duplicated' = [duplicated EXCEPT ![c] = @ + 1]
      /\ cfg' = cfg /\ status' = status /\ leading' = leading /\ turn' = turn
      /\ collection' = collection /\ sent' = sent /\ finish' = finish
      /\ pc' = pc /\ setup' = setup
  BY DEF Duplicate, OneBag, clientVars, threadVars
<1>3. PICK N \in Nat : N = cfg.nums
  BY <1>1
<1>4. PICK q : q = net[c][r]
  OBVIOUS
<1>5. BagOf(N, q) /\ m \in DOMAIN q
  BY <1>3, <1>4, Values DEF BagToSet
<1>6. PICK p : p = q (+) One(m)
  OBVIOUS
<1>7. BagOf(N, p) /\ DOMAIN p = DOMAIN q
  <2>1. IsABag(q) /\ DOMAIN q \subseteq Message(N)
    BY <1>5 DEF BagOf
  <2>2. IsABag(p) /\ DOMAIN p = DOMAIN q \cup {m}
    BY <2>1, <1>6, OneMore
  <2> QED BY <2>1, <2>2, <1>5 DEF BagOf
<1>8. /\ NetDomains' /\ net'[c][r] = p
      /\ \A d \in Client, x \in Node :
           d # c \/ x # r => net'[d][x] = net[d][x]
  BY <1>1, <1>2, <1>4, <1>6, OneBagChanges
<1>9. PICK k \in Nat : k = duplicated[c]
  <2>1. duplicated[c] \in 0..MaxDuplicated
    BY Values
  <2> QED BY <2>1, NetworkAssumption
<1>10. /\ duplicated' \in [Client -> 0..MaxDuplicated] /\ duplicated'[c] = k + 1
       /\ \A d \in Client : d # c => duplicated'[d] = duplicated[d]
  <2>1. k + 1 \in 0..MaxDuplicated
    BY <1>1, <1>2, <1>9, DuplicatesOfClient
  <2>2. duplicated \in [Client -> 0..MaxDuplicated]
    BY Values
  <2>3. duplicated' = [duplicated EXCEPT ![c] = k + 1]
    BY <1>2, <1>9
  <2> QED BY <2>1, <2>2, <2>3
<1>11. TypeOK'
  <2>1. \A d \in Client, x \in Node : BagOf(N, net[d][x])
    BY <1>3, Values
  <2>2. \A d \in Client, x \in Node : BagOf(N, net'[d][x])
    BY <2>1, <1>7, <1>8
  <2>3. /\ status' \in [Client -> Status] /\ leading' \in [Client -> 0..Epoch]
        /\ collection' \in [Client -> Collections(N)]
        /\ sent' \in 0..(N + 1) /\ finish' \subseteq Client
        /\ pc' \in [Thread -> {"blocked", "handling", "top", "done"}]
        /\ setup' \subseteq Thread /\ turn' \in [Client -> 0..N]
        /\ lost' \in 0..MaxLost
    BY <1>1, <1>2, <1>3 DEF TypeOK, Status, Collections
  <2> QED BY <2>2, <2>3, <1>1, <1>2, <1>3, <1>10, TypesKept
<1>12. SentCounted'
  BY <1>1, <1>2, CountKept
<1>13. ASSUME NEW d \in Client PROVE OperationsAtOwner(d)'
  <2>1. \A x \in Node \ {Owner} :
          \A i \in DOMAIN net'[d][x] : i \in DOMAIN net[d][x]
    BY <1>4, <1>7, <1>8
  <2> QED BY <2>1, <1>1, OperationsStay
<1>14. ASSUME NEW d \in Client
       PROVE  Answers(N, net'[d][Owner], duplicated'[d], Awaiting(status'[d]),
                      turn'[d])
  <2>1. Answers(N, net[d][Owner], duplicated[d], Awaiting(status[d]), turn[d])
    BY <1>1, <1>3 DEF AnswersKnown
  <2>2. CASE d # c
    BY <2>1, <2>2, <1>1, <1>2, <1>8, <1>10
  <2>3. CASE d = c
    <3>1. PICK b \in {0, 1} : b = Awaiting(status[c])
      BY DEF Awaiting
    <3>2. PICK n, o : n = turn[c] /\ o = net[c][Owner]
      OBVIOUS
    <3>3. Answers(N, o, k, b, n)
      BY <2>1, <2>3, <3>1, <3>2, <1>9
    <3>4. CASE r = Owner
      <4>1. Answers(N, p, k + 1, b, n)
        BY <3>2, <3>3, <3>4, <1>4, <1>5, <1>6, AnswersAndDuplicate
      <4> QED BY <4>1, <2>3, <3>1, <3>2, <3>4, <1>2, <1>8, <1>10
    <3>5. CASE r # Owner
      <4>1. Answers(N, o, k + 1, b, n)
        BY <3>3, MoreDuplicates
      <4>2. net'[c][Owner] = o
        BY <3>2, <3>5, <1>1, <1>8
      <4> QED BY <4>1, <4>2, <2>3, <3>1, <3>2, <1>2, <1>10
    <3> QED BY <3>4, <3>5
  <2> QED BY <2>2, <2>3
<1>15. ASSUME NEW u \in Thread PROVE ThreadInStep(u)'
  BY <1>1, <1>2, ThreadKept
<1> QED BY <1>2, <1>3, <1>8, <1>11, <1>12, <1>13, <1>14, <1>15, Whole

\* When all guidances are there, they are of the one epoch.
LEMMA UniformIsNewest ==
  ASSUME TypeOK, NEW c \in Client, Uniform(collection[c])
  PROVE  Leading(collection[c]) = Epoch
<1>1. 0 \in Node
  BY Numbers
<1>2. PICK e : e # 0 /\ e = collection[c][0].epoch
               /\ Votes(collection[c], e) = Node
  BY DEF Uniform
<1>3. \A r \in Node : collection[c][r].epoch = e
  BY <1>2 DEF Votes
<1>4. \A r \in Node : collection[c][r].epoch \in 0..1
  BY DEF TypeOK, Epoch
<1>5. e = 1
  BY <1>1, <1>2, <1>3, <1>4
<1>6. PICK S : S = {collection[c][r].epoch : r \in Node}
  OBVIOUS
<1>7. S = {1}
  BY <1>1, <1>3, <1>5, <1>6
<1>8. Max(S) = 1
  BY <1>7 DEF Max
<1> QED BY <1>6, <1>8 DEF Leading, Newest, Epoch

\* check_setup makes clients idle that never sent anything, and lets the
\* thread go on only when all of them have all guidances.
LEMMA SetupKeepsInv ==
  ASSUME DatagramInv, NEW t \in Thread, CheckSetup(t)
  PROVE  DatagramInv'
<1>1. /\ TypeOK /\ NetDomains /\ SentCounted
      /\ \A d \in Client : OperationsAtOwner(d) /\ AnswersKnown(d)
      /\ \A u \in Thread : ThreadInStep(u)
      /\ cfg.nums \in Nat /\ Owner \in Node
  BY Values, Numbers
<1>2. PICK C, R : C = ToSet(ClientsOf(t)) /\ R = ReadyForSetup(t)
  OBVIOUS
<1>3. /\ pc[t] = "handling" /\ t \notin setup
      /\ status' = [c \in Client |-> IF c \in R THEN "idle" ELSE status[c]]
      /\ leading' = [c \in Client |->
           IF c \in R THEN Leading(collection[c]) ELSE leading[c]]
      /\ \/ R = C /\ setup' = setup \cup {t} /\ pc' = [pc EXCEPT ![t] = "top"]
         \/ setup' = setup /\ pc' = [pc EXCEPT ![t] = "blocked"]
      /\ cfg' = cfg /\ collection' = collection /\ turn' = turn /\ sent' = sent
      /\ finish' = finish /\ net' = net /\ lost' = lost
      /\ duplicated' = duplicated
  BY <1>2 DEF CheckSetup
<1>4. PICK N \in Nat : N = cfg.nums
  BY <1>1
<1>5. /\ \A c \in R : c \in C /\ Uniform(collection[c])
      /\ \A c \in C : c \in Client
      /\ \A c \in C : status[c] \in {"init", "idle"}
  <2>1. ASSUME NEW c \in R PROVE c \in C /\ Uniform(collection[c])
    <3>1. PICK g : g = ClientsOf(t)
      OBVIOUS
    <3>2. DOMAIN g = 1..cfg.grouping /\ cfg.grouping \in Nat
      BY <3>1, <1>1, Numbers DEF ClientsOf
    <3>3. PICK i \in DOMAIN g : c = g[i] /\ \A k \in 1..i : Uniform(collection[g[k]])
      BY <1>2, <3>1 DEF ReadyForSetup
    <3>4. i \in 1..i
      BY <3>2
    <3> QED BY <3>1, <3>3, <3>4, <1>2 DEF ToSet
  <2>2. \A c \in C : c \in Client
    BY <1>1, <1>2, ClientsOfThread
  <2>3. \A c \in C : status[c] \in {"init", "idle"}
    BY <1>1, <1>2, <1>3 DEF ThreadInStep
  <2> QED BY <2>1, <2>2, <2>3
<1>6. \A c \in R : c \in Client /\ Leading(collection[c]) = Epoch
  BY <1>1, <1>5, UniformIsNewest
<1>7. /\ status \in [Client -> Status] /\ leading \in [Client -> 0..Epoch]
      /\ pc \in [Thread -> {"blocked", "handling", "top", "done"}]
  BY Values
<1>8. status' \in [Client -> Status] /\ leading' \in [Client -> 0..Epoch]
  <2>1. "idle" \in Status /\ Epoch \in 0..Epoch
    BY DEF Status, Epoch
  <2> QED BY <2>1, <1>3, <1>6, <1>7
<1>9. \A c \in Client : Awaiting(status'[c]) = Awaiting(status[c])
  BY <1>3, <1>5 DEF Awaiting
<1>10. /\ pc' \in [Thread -> {"blocked", "handling", "top", "done"}]
       /\ setup' \subseteq Thread
       /\ \A u \in Thread : u # t => pc'[u] = pc[u] /\ (u \in setup' <=> u \in setup)
       /\ pc'[t] \in {"top", "blocked"} /\ (pc'[t] = "top" => t \in setup')
       /\ t \in setup' => R = C
  BY <1>1, <1>3, <1>7 DEF TypeOK
<1>11. TypeOK'
  <2>1. \A d \in Client, x \in Node : BagOf(N, net'[d][x])
    BY <1>3, <1>4, Values
  <2>2. /\ collection' \in [Client -> Collections(N)]
        /\ sent' \in 0..(N + 1) /\ finish' \subseteq Client
        /\ turn' \in [Client -> 0..N] /\ lost' \in 0..MaxLost
        /\ duplicated' \in [Client -> 0..MaxDuplicated]
    BY <1>1, <1>3, <1>4 DEF TypeOK, Status, Collections
  <2> QED BY <2>1, <2>2, <1>1, <1>3, <1>4, <1>8, <1>10, TypesKept
<1>12. SentCounted'
  BY <1>1, <1>3, CountKept
<1>13. NetDomains' /\ \A d \in Client : OperationsAtOwner(d)'
  BY <1>1, <1>3, SameCommandLine DEF NetDomains, OperationsAtOwner
<1>14. ASSUME NEW d \in Client
       PROVE  Answers(N, net'[d][Owner], duplicated'[d], Awaiting(status'[d]),
                      turn'[d])
  <2>1. Answers(N, net[d][Owner], duplicated[d], Awaiting(status[d]), turn[d])
    BY <1>1, <1>4 DEF AnswersKnown
  <2> QED BY <2>1, <1>3, <1>9
<1>15. ASSUME NEW u \in Thread PROVE ThreadInStep(u)'
  <2>1. CASE u # t
    <3>1. \A d \in ToSet(ClientsOf(u)) : d \in Client /\ d \notin C
      BY <2>1, <1>1, <1>2, ClientsOfThread
    <3>2. \A d \in ToSet(ClientsOf(u)) :
            status'[d] = status[d] /\ leading'[d] = leading[d]
      BY <3>1, <1>3, <1>5
    <3> QED BY <2>1, <3>2, <1>1, <1>3, <1>10, ThreadKept
  <2>2. CASE u = t
    <3>1. ToSet(ClientsOf(t))' = C
      BY <1>2, <1>3, SameCommandLine
    <3>2. \A d \in C : status'[d] \in {"init", "idle"}
      BY <1>3, <1>5
    <3>3. t \in setup' => \A d \in C : leading'[d] = Epoch
      BY <1>3, <1>5, <1>6, <1>10
    <3> QED BY <2>2, <3>1, <3>2, <3>3, <1>10 DEF ThreadInStep
  <2> QED BY <2>1, <2>2
<1> QED BY <1>3, <1>4, <1>11, <1>12, <1>13, <1>14, <1>15, Whole

\* Looping and finding nothing to send change neither clients nor datagrams.
LEMMA LoopKeepsInv ==
  ASSUME DatagramInv, NEW t \in Thread,
         LoopOnce(t) \/ NobodyReady(t) \/ NothingToSend(t)
  PROVE  DatagramInv'
<1>1. /\ TypeOK /\ NetDomains /\ SentCounted
      /\ \A d \in Client : OperationsAtOwner(d) /\ AnswersKnown(d)
      /\ \A u \in Thread : ThreadInStep(u)
  BY Values
<1>2. PICK N \in Nat : N = cfg.nums
  BY <1>1, Numbers
<1>3. PICK C : C = ToSet(ClientsOf(t))
  OBVIOUS
<1>4. /\ cfg' = cfg /\ status' = status /\ leading' = leading /\ turn' = turn
      /\ collection' = collection /\ setup' = setup /\ net' = net
      /\ lost' = lost /\ duplicated' = duplicated
  BY DEF LoopOnce, NobodyReady, NothingToSend, clientVars, threadVars
<1>5. \/ /\ sent' = sent /\ finish' = finish /\ t \in setup
         /\ pc' = [pc EXCEPT ![t] = "top"]
      \/ /\ sent' = sent /\ finish' = finish /\ t \in setup
         /\ pc' = [pc EXCEPT ![t] = "blocked"]
      \/ /\ sent >= N /\ sent' = N + 1 /\ finish' \subseteq Client /\ t \in setup
         /\ \/ pc' = [pc EXCEPT ![t] = "blocked"]
            \/ /\ pc' = [pc EXCEPT ![t] = "done"]
               /\ \A c \in C : status[c] = "idle"
  <2>1. CASE LoopOnce(t)
    BY <2>1 DEF LoopOnce
  <2>2. CASE NobodyReady(t)
    BY <2>2, <1>1 DEF NobodyReady, ThreadInStep
  <2>3. CASE NothingToSend(t)
    <3>1. PICK c \in C : finish' = finish \cup {c}
      BY <2>3, <1>3 DEF NothingToSend
    <3>2. c \in Client /\ finish \subseteq Client
      BY <3>1, <1>1, <1>3, ClientsOfThread DEF TypeOK
    <3>3. t \in setup
      BY <2>3, <1>1 DEF NothingToSend, ThreadInStep
    <3>4. \/ pc' = [pc EXCEPT ![t] = "blocked"]
          \/ /\ pc' = [pc EXCEPT ![t] = "done"]
             /\ \A d \in C : status[d] = "idle"
      BY <2>3, <1>3 DEF NothingToSend, MayLeave
    <3>5. sent >= N /\ sent' = N + 1
      BY <2>3, <1>2 DEF NothingToSend
    <3> QED BY <3>1, <3>2, <3>3, <3>4, <3>5
  <2> QED BY <2>1, <2>2, <2>3
<1>6. /\ sent \in 0..(N + 1)
      /\ pc \in [Thread -> {"blocked", "handling", "top", "done"}]
  BY <1>2, Values
<1>7. /\ pc' \in [Thread -> {"blocked", "handling", "top", "done"}]
      /\ \A u \in Thread : u # t => pc'[u] = pc[u]
      /\ pc'[t] = "done" => sent' >= N /\ \A c \in C : status[c] = "idle"
      /\ t \in setup
  BY <1>5, <1>6
<1>8. sent' \in 0..(N + 1) /\ (sent >= N => sent' >= N) /\ finish' \subseteq Client
  BY <1>1, <1>5, <1>6 DEF TypeOK
<1>9. TypeOK'
  <2>1. \A d \in Client, x \in Node : BagOf(N, net'[d][x])
    BY <1>2, <1>4, Values
  <2>2. /\ status' \in [Client -> Status] /\ leading' \in [Client -> 0..Epoch]
        /\ collection' \in [Client -> Collections(N)]
        /\ setup' \subseteq Thread /\ turn' \in [Client -> 0..N]
        /\ lost' \in 0..MaxLost
        /\ duplicated' \in [Client -> 0..MaxDuplicated]
    BY <1>1, <1>2, <1>4 DEF TypeOK, Status, Collections
  <2> QED BY <2>1, <2>2, <1>1, <1>2, <1>4, <1>7, <1>8, TypesKept
<1>10. SentCounted'
  <2>1. CASE sent' = sent
    BY <2>1, <1>1, <1>4, CountKept
  <2>2. CASE sent >= N /\ sent' = N + 1
    <3>1. OperationsSent' = OperationsSent
      BY <1>4, SameCommandLine DEF OperationsSent
    <3>2. PICK k : k = Cardinality(OperationsSent)
      OBVIOUS
    <3>3. IsFiniteSet(OperationsSent) /\ k = N
      BY <2>2, <3>2, <1>1, <1>2, <1>6 DEF SentCounted
    <3>4. IsFiniteSet(OperationsSent)' /\ Cardinality(OperationsSent)' = N
      BY <3>1, <3>2, <3>3
    <3>5. cfg'.nums = N /\ ~(sent' <= N)
      BY <2>2, <1>2, <1>4
    <3> QED BY <3>4, <3>5 DEF SentCounted
  <2> QED BY <2>1, <2>2, <1>5
<1>11. NetDomains' /\ \A d \in Client : OperationsAtOwner(d)'
  BY <1>1, <1>4, SameCommandLine DEF NetDomains, OperationsAtOwner
<1>12. ASSUME NEW d \in Client
       PROVE  Answers(N, net'[d][Owner], duplicated'[d], Awaiting(status'[d]),
                      turn'[d])
  <2>1. Answers(N, net[d][Owner], duplicated[d], Awaiting(status[d]), turn[d])
    BY <1>1, <1>2 DEF AnswersKnown
  <2> QED BY <2>1, <1>4
<1>13. ASSUME NEW u \in Thread PROVE ThreadInStep(u)'
  <2>1. CASE u # t
    BY <2>1, <1>1, <1>2, <1>4, <1>7, <1>8, ThreadKept
  <2>2. CASE u = t
    <3>1. ToSet(ClientsOf(t))' = C
      BY <1>3, <1>4, SameCommandLine
    <3>2. \A c \in C : leading[c] = Epoch
      BY <1>1, <1>3, <1>7 DEF ThreadInStep
    <3> QED BY <2>2, <3>1, <3>2, <1>2, <1>4, <1>7 DEF ThreadInStep
  <2> QED BY <2>1, <2>2
<1> QED BY <1>2, <1>4, <1>9, <1>10, <1>11, <1>12, <1>13, Whole

\* A client that sends has a turn left: it has sent no more than all together.
LEMMA TurnLeft ==
  ASSUME TypeOK, SentCounted, sent < cfg.nums, NEW c \in Client
  PROVE  turn[c] + 1 \in 1..cfg.nums
<1>1. PICK N \in Nat : N = cfg.nums
  BY Numbers
<1>2. PICK k \in 0..N : k = turn[c]
  BY <1>1 DEF TypeOK
<1>3. PICK S : S = OperationsSent
  OBVIOUS
<1>4. IsFiniteSet(S) /\ Cardinality(S) = sent /\ sent \in Nat /\ sent < N
  <2>1. sent \in 0..(N + 1)
    BY <1>1 DEF TypeOK
  <2> QED BY <2>1, <1>1, <1>3 DEF SentCounted
<1>5. PICK T : T = {c} \X (1..k)
  OBVIOUS
<1>6. T \subseteq S
  <2> SUFFICES ASSUME NEW x \in T PROVE x \in S
    OBVIOUS
  <2>1. PICK i \in 1..k : x = <<c, i>>
    BY <1>5
  <2>2. x \in Client \X (1..N) /\ x[1] = c /\ x[2] = i
    BY <2>1
  <2>3. x[2] <= turn[x[1]]
    BY <2>1, <2>2, <1>2
  <2> QED BY <2>2, <2>3, <1>1, <1>3 DEF OperationsSent
<1>7. Cardinality(T) = k
  <2>1. IsFiniteSet({c}) /\ Cardinality({c}) = 1
    BY FS_Singleton
  <2>2. IsFiniteSet(1..k) /\ Cardinality(1..k) = k
    BY FS_Interval
  <2>3. Cardinality(T) = Cardinality({c}) * Cardinality(1..k)
    BY <2>1, <2>2, <1>5, FS_Product
  <2> QED BY <2>1, <2>2, <2>3
<1>8. Cardinality(T) <= Cardinality(S)
  BY <1>4, <1>6, FS_Subset
<1> QED BY <1>1, <1>2, <1>4, <1>7, <1>8

\* A turn more is one operation more.
LEMMA TurnSent ==
  ASSUME TypeOK, SentCounted, sent < cfg.nums, NEW c \in Client,
         turn' = [turn EXCEPT ![c] = @ + 1], sent' = sent + 1, cfg' = cfg
  PROVE  SentCounted'
<1>1. PICK N \in Nat : N = cfg.nums
  BY Numbers
<1>2. PICK n \in 1..N : n = turn[c] + 1
  BY <1>1, TurnLeft
<1>3. /\ turn \in [Client -> 0..N] /\ sent \in 0..(N + 1) /\ sent < N
      /\ turn' = [turn EXCEPT ![c] = n]
  BY <1>1, <1>2 DEF TypeOK
<1>4. /\ turn'[c] = n /\ turn[c] = n - 1
      /\ \A d \in Client : d # c => turn'[d] = turn[d]
  <2>1. turn[c] \in 0..N
    BY <1>3
  <2> QED BY <2>1, <1>2, <1>3
<1>5. PICK S : S = OperationsSent
  OBVIOUS
<1>6. PICK T : T = {p \in Client \X (1..N) : p[2] <= turn'[p[1]]}
  OBVIOUS
<1>7. OperationsSent' = T
  BY <1>1, <1>6, SameCommandLine DEF OperationsSent
<1>8. S = {p \in Client \X (1..N) : p[2] <= turn[p[1]]}
  BY <1>1, <1>5 DEF OperationsSent
<1>9. PICK e : e = <<c, n>>
  OBVIOUS
<1>10. e \in Client \X (1..N) /\ e[1] = c /\ e[2] = n
  BY <1>9
<1>11. e \notin S /\ e \in T
  BY <1>4, <1>6, <1>8, <1>10
<1>12. ASSUME NEW p \in Client \X (1..N), p # e
       PROVE  p \in T <=> p \in S
  <2>1. PICK d \in Client, i \in 1..N : p = <<d, i>>
    OBVIOUS
  <2>2. p[1] = d /\ p[2] = i
    BY <2>1
  <2>3. p[2] <= turn'[p[1]] <=> p[2] <= turn[p[1]]
    <3>1. CASE d # c
      BY <3>1, <2>2, <1>4
    <3>2. CASE d = c
      <4>1. i # n
        BY <3>2, <2>1, <1>9, <1>12
      <4> QED BY <4>1, <3>2, <2>2, <1>4
    <3> QED BY <3>1, <3>2
  <2> QED BY <2>3, <1>6, <1>8
<1>13. T = S \cup {e}
  <2>1. \A p \in T : p \in Client \X (1..N)
    BY <1>6
  <2>2. \A p \in S : p \in Client \X (1..N)
    BY <1>8
  <2> QED BY <2>1, <2>2, <1>11, <1>12
<1>14. IsFiniteSet(S) /\ Cardinality(S) = sent
  BY <1>1, <1>3, <1>5 DEF SentCounted
<1>15. IsFiniteSet(T) /\ Cardinality(T) = sent + 1
  BY <1>11, <1>13, <1>14, OneElementMore
<1>16. sent' <= N /\ cfg'.nums = N
  BY <1>1, <1>3
<1> QED BY <1>7, <1>15, <1>16 DEF SentCounted

\* The bags of a client that sends: its operation n for the owner, and
\* requests for guidance for others.
LEMMA SentBags ==
  ASSUME DatagramInv, NEW c \in Client, NEW n \in 0..cfg.nums, cfg' = cfg,
         net' = [net EXCEPT ![c] = SendTurn(@, n)]
  PROVE  /\ NetDomains'
         /\ \A d \in Client : d # c => net'[d] = net[d]
         /\ net'[c][Owner] = net[c][Owner] (+) One(Operation(n))
         /\ \A r \in Node \ {Owner} :
              \/ net'[c][r] = net[c][r]
              \/ net'[c][r] = net[c][r] (+) One(GetGuidance(n))
<1>1. DOMAIN net = Client /\ \A d \in Client : DOMAIN net[d] = Node
  BY Values DEF NetDomains
<1>2. PICK f : f = net[c]
  OBVIOUS
<1>3. PICK g : g = SendTurn(f, n)
  OBVIOUS
<1>4. net' = [net EXCEPT ![c] = g]
  BY <1>2, <1>3
<1>5. net'[c] = g /\ \A d \in Client : d # c => net'[d] = net[d]
  BY <1>1, <1>4
<1>6. DOMAIN net' = Client
  BY <1>1, <1>4
<1>7. Owner \in Node
  BY Values, Numbers
<1>8. /\ DOMAIN g = Node /\ g[Owner] = f[Owner] (+) One(Operation(n))
      /\ \A r \in Node \ {Owner} :
           g[r] = f[r] \/ g[r] = f[r] (+) One(GetGuidance(n))
  BY <1>3, <1>7 DEF SendTurn
<1>9. \A d \in Client : DOMAIN net'[d] = Node
  BY <1>1, <1>5, <1>8
<1>10. NetDomains'
  BY <1>6, <1>9, SameCommandLine DEF NetDomains
<1> QED BY <1>2, <1>5, <1>8, <1>10

\* A client sends when it is idle: the answer it will await is one more.
LEMMA SendKeepsInv ==
  ASSUME DatagramInv, NEW t \in Thread, OneSend(t)
  PROVE  DatagramInv'
<1>1. /\ TypeOK /\ NetDomains /\ SentCounted
      /\ \A d \in Client : OperationsAtOwner(d) /\ AnswersKnown(d)
      /\ \A u \in Thread : ThreadInStep(u)
      /\ Owner \in Node
  BY Values, Numbers
<1>2. PICK c \in ToSet(ClientsOf(t)) :
        /\ FirstIdle(t, c)
        /\ turn' = [turn EXCEPT ![c] = @ + 1]
        /\ net' = [net EXCEPT ![c] = SendTurn(@, turn[c] + 1)]
        /\ status' = [status EXCEPT ![c] =
             IF cfg.mode = "write" THEN "writing" ELSE "reading"]
  BY DEF OneSend
<1>3. /\ pc[t] = "top" /\ sent < cfg.nums /\ sent' = sent + 1
      /\ pc' = [pc EXCEPT ![t] = "blocked"]
      /\ cfg' = cfg /\ leading' = leading /\ collection' = collection
      /\ finish' = finish /\ setup' = setup /\ lost' = lost
      /\ duplicated' = duplicated
  BY DEF OneSend
<1>4. c \in Client /\ ThreadOf(c) = t /\ t \in setup /\ status[c] = "idle"
  BY <1>1, <1>2, <1>3, ClientsOfThread DEF FirstIdle, ThreadInStep
<1>5. PICK N \in Nat : N = cfg.nums
  BY <1>1, Numbers
<1>6. PICK n \in 1..N : n = turn[c] + 1
  BY <1>1, <1>3, <1>4, <1>5, TurnLeft
<1>7. n \in 0..N
  OBVIOUS
<1>8. /\ NetDomains'
      /\ \A d \in Client : d # c => net'[d] = net[d]
      /\ net'[c][Owner] = net[c][Owner] (+) One(Operation(n))
      /\ \A r \in Node \ {Owner} :
           \/ net'[c][r] = net[c][r]
           \/ net'[c][r] = net[c][r] (+) One(GetGuidance(n))
  <2>1. net' = [net EXCEPT ![c] = SendTurn(@, n)]
    BY <1>2, <1>6
  <2> QED BY <2>1, <1>3, <1>4, <1>5, <1>7, SentBags
<1>9. /\ status \in [Client -> Status] /\ turn \in [Client -> 0..N]
      /\ pc \in [Thread -> {"blocked", "handling", "top", "done"}]
      /\ sent \in 0..(N + 1) /\ sent < N
      /\ \A d \in Client, x \in Node : BagOf(N, net[d][x])
  BY <1>3, <1>5, Values
<1>10. PICK s \in {"reading", "writing"} : status' = [status EXCEPT ![c] = s]
  BY <1>2
<1>11. /\ status' \in [Client -> Status] /\ status'[c] = s
       /\ \A d \in Client : d # c => status'[d] = status[d]
  BY <1>4, <1>9, <1>10 DEF Status
<1>12. /\ turn' \in [Client -> 0..N] /\ turn'[c] = n
       /\ \A d \in Client : d # c => turn'[d] = turn[d]
  <2>1. turn' = [turn EXCEPT ![c] = n]
    BY <1>2, <1>6
  <2> QED BY <2>1, <1>4, <1>7, <1>9
<1>13. /\ pc' \in [Thread -> {"blocked", "handling", "top", "done"}]
       /\ pc'[t] = "blocked" /\ \A u \in Thread : u # t => pc'[u] = pc[u]
  BY <1>3, <1>9
<1>14. PICK q, p : q = net[c][Owner] /\ p = q (+) One(Operation(n))
  OBVIOUS
<1>15. PICK k \in Nat : k = duplicated[c]
  <2>1. duplicated[c] \in 0..MaxDuplicated
    BY <1>4, Values
  <2> QED BY <2>1, NetworkAssumption
<1>16. BagOf(N, p) /\ Answers(N, p, k, 1, n)
  <2>1. Answers(N, net[c][Owner], duplicated[c], Awaiting(status[c]), turn[c])
    BY <1>1, <1>4, <1>5 DEF AnswersKnown
  <2>2. Awaiting(status[c]) = 0
    BY <1>4 DEF Awaiting
  <2>3. PICK i : i = turn[c]
    OBVIOUS
  <2>4. Answers(N, q, k, 0, i)
    BY <2>1, <2>2, <2>3, <1>14, <1>15
  <2>5. BagOf(N, q)
    BY <1>1, <1>4, <1>9, <1>14
  <2> QED BY <2>4, <2>5, <1>7, <1>14, AnswersAndOperation
<1>17. ASSUME NEW r \in Node \ {Owner}
       PROVE  /\ BagOf(N, net'[c][r])
              /\ \A m \in DOMAIN net'[c][r] :
                   m \in DOMAIN net[c][r] \/ m.type = "guidance"
  <2>1. PICK o, h : o = net[c][r] /\ h = net'[c][r]
    OBVIOUS
  <2>2. h = o \/ h = o (+) One(GetGuidance(n))
    BY <2>1, <1>8
  <2>3. BagOf(N, o)
    BY <2>1, <1>4, <1>9
  <2>4. GetGuidance(n) \in Message(N)
    BY <1>7 DEF GetGuidance, Message
  <2>5. ASSUME h = o (+) One(GetGuidance(n))
        PROVE  BagOf(N, h) /\ DOMAIN h = DOMAIN o \cup {GetGuidance(n)}
    <3>1. IsABag(o) /\ DOMAIN o \subseteq Message(N)
      BY <2>3 DEF BagOf
    <3>2. IsABag(h) /\ DOMAIN h = DOMAIN o \cup {GetGuidance(n)}
      BY <2>5, <3>1, OneMore
    <3> QED BY <3>1, <3>2, <2>4 DEF BagOf
  <2>6. GetGuidance(n).type = "guidance"
    BY OperationsDiffer
  <2> QED BY <2>1, <2>2, <2>3, <2>5, <2>6
<1>18. TypeOK'
  <2>1. ASSUME NEW d \in Client, NEW x \in Node PROVE BagOf(N, net'[d][x])
    <3>1. CASE d # c
      BY <3>1, <1>8, <1>9
    <3>2. CASE d = c /\ x = Owner
      BY <3>2, <1>8, <1>14, <1>16
    <3>3. CASE d = c /\ x # Owner
      BY <3>3, <1>17
    <3> QED BY <3>1, <3>2, <3>3
  <2>2. /\ leading' \in [Client -> 0..Epoch]
        /\ collection' \in [Client -> Collections(N)]
        /\ finish' \subseteq Client
        /\ setup' \subseteq Thread /\ lost' \in 0..MaxLost
        /\ duplicated' \in [Client -> 0..MaxDuplicated]
    BY <1>1, <1>3, <1>5 DEF TypeOK, Collections
  <2>3. sent' \in 0..(N + 1)
    BY <1>3, <1>9
  <2> QED BY <2>1, <2>2, <2>3, <1>1, <1>3, <1>5, <1>11, <1>12, <1>13, TypesKept
<1>19. SentCounted'
  BY <1>1, <1>2, <1>3, <1>4, TurnSent
<1>20. ASSUME NEW d \in Client PROVE OperationsAtOwner(d)'
  <2>1. CASE d = c
    BY <2>1, <1>1, <1>17, OperationsStay
  <2>2. CASE d # c
    BY <2>2, <1>1, <1>8, OperationsStay
  <2> QED BY <2>1, <2>2
<1>21. ASSUME NEW d \in Client
       PROVE  Answers(N, net'[d][Owner], duplicated'[d], Awaiting(status'[d]),
                      turn'[d])
  <2>1. CASE d # c
    <3>1. Answers(N, net[d][Owner], duplicated[d], Awaiting(status[d]), turn[d])
      BY <1>1, <1>5 DEF AnswersKnown
    <3> QED BY <2>1, <3>1, <1>3, <1>8, <1>11, <1>12
  <2>2. CASE d = c
    <3>1. Awaiting(status'[c]) = 1
      BY <1>11 DEF Awaiting
    <3> QED BY <2>2, <3>1, <1>3, <1>8, <1>12, <1>14, <1>15, <1>16
  <2> QED BY <2>1, <2>2
<1>22. ASSUME NEW u \in Thread PROVE ThreadInStep(u)'
  <2>1. CASE u # t
    <3>1. \A d \in ToSet(ClientsOf(u)) : d \in Client /\ d # c
      BY <2>1, <1>1, <1>4, ClientsOfThread
    <3>2. sent >= cfg.nums => sent' >= cfg.nums
      BY <1>3, <1>5, <1>9
    <3>3. \A d \in ToSet(ClientsOf(u)) :
            status'[d] = status[d] /\ leading'[d] = leading[d]
      BY <3>1, <1>3, <1>11
    <3> QED BY <2>1, <3>2, <3>3, <1>1, <1>3, <1>13, ThreadKept
  <2>2. CASE u = t
    <3>1. PICK C : C = ToSet(ClientsOf(t))
      OBVIOUS
    <3>2. ToSet(ClientsOf(t))' = C
      BY <3>1, <1>3, SameCommandLine
    <3>3. \A d \in C : leading[d] = Epoch
      BY <3>1, <1>1, <1>4 DEF ThreadInStep
    <3> QED BY <2>2, <3>2, <3>3, <1>3, <1>4, <1>13 DEF ThreadInStep
  <2> QED BY <2>1, <2>2
<1> QED BY <1>3, <1>5, <1>8, <1>18, <1>19, <1>20, <1>21, <1>22, Whole

\* At first each replica is asked for its guidance, and nothing else.
LEMMA DatagramInvInit == Init => DatagramInv
<1> SUFFICES ASSUME Init PROVE DatagramInv
  OBVIOUS
<1>1. cfg \in CommandLine
  BY CommandLineAssumption DEF Init
<1>2. PICK N \in Nat : N = cfg.nums
  BY <1>1 DEF CommandLine
<1>3. PICK q : q = One(GetGuidance(0))
  OBVIOUS
<1>4. BagOf(N, q) /\ Answers(N, q, 0, 0, 0) /\ DOMAIN q = {GetGuidance(0)}
  BY <1>3, AnswersAtFirst DEF One, SetToBag
<1>5. /\ status = [c \in Client |-> "init"] /\ leading = [c \in Client |-> 0]
      /\ collection = [c \in Client |-> NoCollection]
      /\ sent = 0 /\ finish = {} /\ pc = [t \in Thread |-> "blocked"]
      /\ setup = {} /\ net = [c \in Client |-> [r \in Node |-> q]]
      /\ turn = [c \in Client |-> 0] /\ lost = 0
      /\ duplicated = [c \in Client |-> 0]
  BY <1>3 DEF Init, One
<1>6. \A c \in Client, r \in Node : net[c][r] = q
  BY <1>5
<1>7. TypeOK
  <2>1. NoCollection \in Collections(N)
    <3>1. NoGuidance \in [epoch: 0..Epoch, turn: 0..N]
      BY DEF NoGuidance, Epoch
    <3> QED BY <3>1 DEF NoCollection, Collections
  <2>2. collection \in [Client -> [Node -> [epoch: 0..Epoch, turn: 0..cfg.nums]]]
    BY <2>1, <1>2, <1>5 DEF Collections
  <2>3. \A c \in Client, r \in Node :
          /\ IsABag(net[c][r])
          /\ BagToSet(net[c][r])
               \subseteq [type: {"operation", "guidance"}, turn: 0..cfg.nums]
    BY <1>2, <1>4, <1>6 DEF BagOf, Message, BagToSet
  <2>4. /\ cfg \in CommandLines
        /\ status \in [Client -> {"init", "reading", "waiting_guidance",
                                  "writing", "idle"}]
        /\ leading \in [Client -> 0..Epoch]
        /\ pc \in [Thread -> {"blocked", "handling", "top", "done"}]
    BY <1>5 DEF Init, Epoch
  <2>5. /\ sent \in 0..(cfg.nums + 1) /\ finish \subseteq Client
        /\ setup \subseteq Thread /\ turn \in [Client -> 0..cfg.nums]
        /\ lost \in 0..MaxLost /\ duplicated \in [Client -> 0..MaxDuplicated]
    BY <1>2, <1>5, NetworkAssumption
  <2> QED BY <2>2, <2>3, <2>4, <2>5 DEF TypeOK
<1>8. Owner \in Node
  BY OwnerAssumption
<1>9. NetDomains
  BY <1>5 DEF NetDomains
<1>10. SentCounted
  <2>1. OperationsSent = {}
    BY <1>2, <1>5 DEF OperationsSent
  <2>2. IsFiniteSet(OperationsSent) /\ Cardinality(OperationsSent) = 0
    BY <2>1, FS_EmptySet
  <2> QED BY <2>2, <1>2, <1>5 DEF SentCounted
<1>11. \A c \in Client : OperationsAtOwner(c)
  <2>1. GetGuidance(0).type = "guidance"
    BY OperationsDiffer
  <2> QED BY <2>1, <1>4, <1>6 DEF OperationsAtOwner
<1>12. \A c \in Client : AnswersKnown(c)
  BY <1>2, <1>4, <1>5, <1>6, <1>8 DEF AnswersKnown, Awaiting
<1>13. ASSUME NEW t \in Thread PROVE ThreadInStep(t)
  <2>1. \A c \in ToSet(ClientsOf(t)) : c \in Client
    BY <1>7, ClientsOfThread
  <2> QED BY <2>1, <1>5 DEF ThreadInStep
<1> QED BY <1>7, <1>9, <1>10, <1>11, <1>12, <1>13 DEF DatagramInv

\* Every step keeps the invariant.
LEMMA DatagramInvStep == DatagramInv /\ [Next]_vars => DatagramInv'
<1> SUFFICES ASSUME DatagramInv, [Next]_vars PROVE DatagramInv'
  OBVIOUS
<1>1. ASSUME NEW t \in Thread, ThreadStep(t) PROVE DatagramInv'
  BY <1>1, RecvKeepsInv, SetupKeepsInv, LoopKeepsInv, SendKeepsInv
     DEF ThreadStep
<1>2. ASSUME NEW c \in Client, NEW r \in Node, NEW m \in BagToSet(net[c][r]),
             Lose(c, r, m) \/ Duplicate(c, r, m)
      PROVE  DatagramInv'
  BY <1>2, LoseKeepsInv, DuplicateKeepsInv
<1>3. CASE UNCHANGED vars
  BY <1>3 DEF vars, clientVars, threadVars, DatagramInv, TypeOK, NetDomains,
       OperationsAtOwner, AnswersKnown, ThreadInStep, SentCounted,
       OperationsSent, Client, Thread, ThreadNums, ClientsOf, ToSet
<1> QED BY <1>1, <1>2, <1>3 DEF Next

\* Whatever is lost, overtaken or duplicated: beyond the answer it awaits a
\* client finds no more answers than datagrams of its were duplicated, without
\* duplicates it takes the right one, a thread that is done has answers to all
\* it sent, and the process sends what it was to send (client3.cpp, where
\* nothing in a reply is compared with the operation it is taken to answer).
THEOREM SurplusFromDuplicates == Spec => []SurplusIsDuplicates
<1>1. DatagramInv => SurplusIsDuplicates
  <2> SUFFICES ASSUME DatagramInv PROVE SurplusIsDuplicates
    OBVIOUS
  <2>1. /\ TypeOK /\ SentCounted /\ cfg.nums \in Nat /\ sent \in 0..(cfg.nums + 1)
        /\ \A c \in Client : AnswersKnown(c)
        /\ \A t \in Thread : ThreadInStep(t)
    BY Values, Numbers
  <2>2. PICK N \in Nat : N = cfg.nums
    BY <2>1
  <2>3. ASSUME NEW c \in Client
        PROVE  /\ Operations(c) <= duplicated[c] + Awaiting(status[c])
               /\ duplicated[c] = 0 =>
                    \A n \in 0..N : BagIn(Operation(n), net[c][Owner])
                                      => Awaiting(status[c]) = 1 /\ n = turn[c]
    <3>1. Operations(c) = Cardinality(CopiesUpTo(N, net[c][Owner]))
      BY <2>2 DEF Operations, Copies, CopiesUpTo
    <3>2. Answers(N, net[c][Owner], duplicated[c], Awaiting(status[c]), turn[c])
      BY <2>1, <2>2 DEF AnswersKnown
    <3> QED BY <3>1, <3>2 DEF Answers, BagIn, BagToSet
  <2>4. \A c \in Client : Awaiting(status[c]) = IF Busy(c) THEN 1 ELSE 0
    BY DEF Awaiting, Busy
  <2>5. ASSUME NEW c \in Client
        PROVE  /\ Operations(c) <= duplicated[c] + IF Busy(c) THEN 1 ELSE 0
               /\ duplicated[c] = 0 =>
                    \A n \in 0..cfg.nums :
                      BagIn(Operation(n), net[c][Owner]) => Busy(c) /\ n = turn[c]
    BY <2>2, <2>3, <2>4
  <2>6. ASSUME NEW t \in Thread, pc[t] = "done", NEW c \in ToSet(ClientsOf(t))
        PROVE  leading[c] = Epoch /\ Operations(c) <= duplicated[c]
    <3>1. c \in Client /\ leading[c] = Epoch /\ status[c] = "idle"
      BY <2>1, <2>6, ClientsOfThread DEF ThreadInStep
    <3>2. Awaiting(status[c]) = 0
      BY <3>1 DEF Awaiting
    <3>3. duplicated[c] \in 0..MaxDuplicated
      BY <3>1, Values
    <3>4. Operations(c) <= duplicated[c] + 0
      BY <2>3, <3>1, <3>2
    <3> QED BY <3>1, <3>3, <3>4, NetworkAssumption
  <2>7. PICK k : k = Cardinality(OperationsSent)
    OBVIOUS
  <2>8. IsFiniteSet(OperationsSent) /\ k = IF sent <= N THEN sent ELSE N
    BY <2>1, <2>2, <2>7 DEF SentCounted
  <2>9. sent \in Nat /\ k <= N
    BY <2>1, <2>2, <2>8
  <2>10. ASSUME NEW t \in Thread, pc[t] = "done" PROVE k = N
    <3>1. sent >= N
      BY <2>1, <2>2, <2>10 DEF ThreadInStep
    <3> QED BY <3>1, <2>8, <2>9
  <2>11. (Thread # {} /\ \A t \in Thread : pc[t] = "done") => k = N
    BY <2>10
  <2> QED BY <2>1, <2>2, <2>5, <2>6, <2>7, <2>8, <2>9, <2>11
          DEF SurplusIsDuplicates
<1> QED BY <1>1, DatagramInvInit, DatagramInvStep, PTL DEF Spec
=============================================================================
