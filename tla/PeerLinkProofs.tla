--------------------------- MODULE PeerLinkProofs ---------------------------
(***************************************************************************)
(* Proofs about PeerLink, for every number of servers, however often their *)
(* processes die.  That no two servers use different connections is not    *)
(* inductive: the invariant adds what the two servers know of each other   *)
(* while a hello is under way, and what has become of each bufferevent.    *)
(***************************************************************************)
EXTENDS PeerLink, TLAPS

\* The connection that s opened to p in its present life
Own(s, p) == <<s, p, life[s]>>

\* The process that opened c is the one that runs.
Current(c) == up[From(c)] /\ c[3] = life[From(c)]

\* The three forms of a context: nothing has come up; s says hello on its own
\* connection; s has adopted connection c.
Undecided(s, p) == ctx[s][p] = FreshContext(s, p, life[s])
Proactive(s, p) ==
  ctx[s][p] = [sock |-> Near(Own(s, p)), trans |-> Near(Own(s, p)),
               proactive |-> TRUE, passive |-> FALSE]
Adopted(s, p, c) ==
  ctx[s][p] = [sock |-> Far(c), trans |-> Far(c),
               proactive |-> FALSE, passive |-> TRUE]

\* Every context has one of these forms, or is not there.
ContextsFormed ==
  \A s, p \in Server :
    IF s = p \/ ~up[s] THEN ctx[s][p] = NoContext
    ELSE /\ life[s] \in Life
         /\ \/ Undecided(s, p) \/ Proactive(s, p)
            \/ \E c \in Connection :
                 From(c) = p /\ To(c) = s /\ Adopted(s, p, c)

\* The near end of a connection is there while the process that opened it
\* runs, and is freed only when that process has adopted another one.
NearsKept ==
  \A c \in Connection :
    IF Current(c)
    THEN /\ bev[Near(c)] \in {"connecting", "open", "dead", "freed"}
         /\ bev[Near(c)] = "freed" <=> ctx[From(c)][To(c)].passive
    ELSE bev[Near(c)] \in {"none", "gone"}

\* The far end is there only in a running process, and an adopted one is freed
\* only when the process at the other end is gone.
FarsKept ==
  \A c \in Connection :
    /\ ~up[To(c)] => bev[Far(c)] \in {"none", "gone"}
    /\ Adopted(To(c), From(c), c) =>
         \/ bev[Far(c)] = "open"
         \/ bev[Far(c)] = "freed" /\ ~Current(c)

\* Whoever has said hello on a connection, and still lives, is proactive and
\* uses that connection; so it is with a connection that was adopted.
HelloSaid ==
  \A c \in Connection :
    c \in hello \/ Adopted(To(c), From(c), c) =>
      /\ c[3] <= life[From(c)]
      /\ Current(c) => Proactive(From(c), To(c))

LinkInv == TypeOK /\ ContextsFormed /\ NearsKept /\ FarsKept /\ HelloSaid

-----------------------------------------------------------------------------
(* Connections and their ends *)

\* A connection has two servers, a life, and two ends.
LEMMA ConnectionParts ==
  ASSUME NEW c \in Connection
  PROVE  /\ From(c) \in Server /\ To(c) \in Server /\ From(c) # To(c)
         /\ c[3] \in Life /\ c = <<From(c), To(c), c[3]>>
         /\ Near(c) \in End /\ Far(c) \in End
<1>1. PICK sp \in Pair, n \in Life : c = <<sp[1], sp[2], n>>
  BY DEF Connection
<1>2. sp[1] \in Server /\ sp[2] \in Server /\ sp[1] # sp[2]
  BY DEF Pair
<1> QED BY <1>1, <1>2 DEF From, To, Near, Far, End

\* There is one for every two servers and every life.
LEMMA ConnectionExists ==
  ASSUME NEW s \in Server, NEW p \in Server, s # p, NEW n \in Life
  PROVE  /\ <<s, p, n>> \in Connection
         /\ From(<<s, p, n>>) = s /\ To(<<s, p, n>>) = p
         /\ <<s, p, n>>[3] = n
<1>1. <<s, p>> \in Pair /\ <<s, p>>[1] = s /\ <<s, p>>[2] = p
  BY DEF Pair
<1> QED BY <1>1 DEF Connection, From, To

\* Different connections have different ends.
LEMMA EndsDiffer ==
  /\ \A c, d : Near(c) # Far(d)
  /\ \A c, d : Near(c) = Near(d) => c = d
  /\ \A c, d : Far(c) = Far(d) => c = d
  /\ \A c : Near(c) # NoBev /\ Far(c) # NoBev
  /\ \A c : Opposite(Near(c)) = Far(c) /\ Opposite(Far(c)) = Near(c)
  /\ \A c : Near(c)[1] = c /\ Far(c)[1] = c /\ Near(c)[2] = "near"
            /\ Far(c)[2] = "far"
BY DEF Near, Far, NoBev, Opposite

\* Every end is the near or the far end of a connection.
LEMMA EndParts ==
  ASSUME NEW e \in End
  PROVE  \E c \in Connection : e = Near(c) \/ e = Far(c)
BY DEF End, Near, Far

\* A server has the near ends of its own connections and the far ends of those
\* of the others.
LEMMA EndsOfServer ==
  ASSUME NEW s, NEW c \in Connection
  PROVE  /\ Near(c) \in EndsOf(s) <=> From(c) = s
         /\ Far(c) \in EndsOf(s) <=> To(c) = s
BY EndsDiffer DEF EndsOf

\* The three forms of a context exclude each other.
LEMMA FormsDiffer ==
  ASSUME NEW s, NEW p
  PROVE  /\ Undecided(s, p) =>
              /\ ~ctx[s][p].passive /\ ~ctx[s][p].proactive
              /\ ctx[s][p].sock = Near(Own(s, p)) /\ ctx[s][p].trans = NoBev
         /\ Proactive(s, p) =>
              /\ ~ctx[s][p].passive /\ ctx[s][p].proactive
              /\ ctx[s][p].sock = Near(Own(s, p))
              /\ ctx[s][p].trans = Near(Own(s, p))
         /\ \A c : Adopted(s, p, c) =>
              /\ ctx[s][p].passive /\ ~ctx[s][p].proactive
              /\ ctx[s][p].sock = Far(c) /\ ctx[s][p].trans = Far(c)
         /\ ctx[s][p] = NoContext =>
              /\ ~ctx[s][p].passive /\ ~ctx[s][p].proactive
              /\ ctx[s][p].sock = NoBev /\ ctx[s][p].trans = NoBev
BY DEF Undecided, Proactive, Adopted, FreshContext, NoContext, Own

\* A context that is not changed keeps its form.
LEMMA FormsKept ==
  ASSUME NEW s, NEW p, ctx'[s][p] = ctx[s][p], life'[s] = life[s]
  PROVE  /\ Undecided(s, p)' <=> Undecided(s, p)
         /\ Proactive(s, p)' <=> Proactive(s, p)
         /\ \A c : Adopted(s, p, c)' <=> Adopted(s, p, c)
BY DEF Undecided, Proactive, Adopted, Own, FreshContext

\* What LinkInv says of the context of a running server
LEMMA ContextFacts ==
  ASSUME LinkInv, NEW s \in Server, NEW p \in Server, s # p, up[s]
  PROVE  /\ life[s] \in Life
         /\ Own(s, p) \in Connection /\ From(Own(s, p)) = s
         /\ To(Own(s, p)) = p /\ Own(s, p)[3] = life[s]
         /\ Current(Own(s, p))
         /\ \/ Undecided(s, p) \/ Proactive(s, p)
            \/ \E c \in Connection :
                 From(c) = p /\ To(c) = s /\ Adopted(s, p, c)
<1>1. /\ life[s] \in Life
      /\ \/ Undecided(s, p) \/ Proactive(s, p)
         \/ \E c \in Connection : From(c) = p /\ To(c) = s /\ Adopted(s, p, c)
  BY DEF LinkInv, ContextsFormed
<1> QED BY <1>1, ConnectionExists DEF Own, Current

\* A current connection is the one its server opened in this life.
LEMMA CurrentIsOwn ==
  ASSUME NEW c \in Connection, Current(c)
  PROVE  c = Own(From(c), To(c))
BY ConnectionParts DEF Current, Own

-----------------------------------------------------------------------------
(* The invariant *)

\* LinkInv without the types, and what is needed of the types.
LEMMA InvParts ==
  ASSUME LinkInv
  PROVE  /\ TypeOK /\ ContextsFormed /\ NearsKept /\ FarsKept /\ HelloSaid
         /\ bev \in [End -> EndState] /\ hello \subseteq Connection
         /\ ctx \in [Server -> [Server -> Context]]
         /\ up \in [Server -> BOOLEAN] /\ life \in [Server -> 0..MaxCrashes + 1]
         /\ MaxCrashes \in Nat /\ \A s \in Server : life[s] \in Nat
BY PeerLinkAssumption DEF LinkInv, TypeOK

\* Nothing is open at first.
LEMMA LinkInvInit == Init => LinkInv
<1> SUFFICES ASSUME Init PROVE LinkInv
  OBVIOUS
<1>1. /\ up = [s \in Server |-> FALSE] /\ life = [s \in Server |-> 0]
      /\ bev = [e \in End |-> "none"] /\ hello = {} /\ crashes = 0
      /\ ctx = [s \in Server |-> [p \in Server |-> NoContext]]
  BY DEF Init
<1>2. NoContext \in Context /\ NoContext.sock = NoBev
  BY DEF NoContext, Context
<1>3. \A s, p \in Server : ~up[s] /\ ctx[s][p] = NoContext /\ life[s] = 0
  BY <1>1
<1>4. TypeOK
  <2>1. ctx \in [Server -> [Server -> Context]]
    BY <1>1, <1>2
  <2>2. \A s, p \in Server : s # p => (ctx[s][p].sock = NoBev <=> ~up[s])
    BY <1>2, <1>3
  <2>3. /\ up \in [Server -> BOOLEAN] /\ life \in [Server -> 0..MaxCrashes + 1]
        /\ crashes \in 0..MaxCrashes
    BY <1>1, PeerLinkAssumption
  <2>4. bev \in [End -> EndState] /\ hello \subseteq Connection
    BY <1>1 DEF EndState
  <2> QED BY <2>1, <2>2, <2>3, <2>4 DEF TypeOK
<1>5. ContextsFormed
  BY <1>3 DEF ContextsFormed
<1>6. \A c \in Connection :
        /\ ~Current(c) /\ bev[Near(c)] = "none" /\ bev[Far(c)] = "none"
        /\ ~up[To(c)] /\ ~Adopted(To(c), From(c), c)
  <2> TAKE c \in Connection
  <2>1. From(c) \in Server /\ To(c) \in Server /\ Near(c) \in End /\ Far(c) \in End
    BY ConnectionParts
  <2>2. ~Adopted(To(c), From(c), c)
    BY <2>1, <1>3, FormsDiffer
  <2> QED BY <2>1, <2>2, <1>1 DEF Current
<1>7. NearsKept /\ FarsKept /\ HelloSaid
  BY <1>1, <1>6 DEF NearsKept, FarsKept, HelloSaid
<1> QED BY <1>4, <1>5, <1>7 DEF LinkInv

\* A step that changes bufferevents alone: a near end may die and a far end may
\* come to be, and a far end is freed before its hello was read, or when the
\* near end is no more.
BevStep ==
  /\ UNCHANGED <<up, life, ctx>> /\ hello' \subseteq hello
  /\ crashes' = crashes /\ bev' \in [End -> EndState]
  /\ \A c \in Connection :
       /\ \/ bev'[Near(c)] = bev[Near(c)]
          \/ bev[Near(c)] \in {"connecting", "open"} /\ bev'[Near(c)] = "dead"
       /\ \/ bev'[Far(c)] = bev[Far(c)]
          \/ up[To(c)] /\ bev[Far(c)] = "none" /\ bev'[Far(c)] = "init"
          \/ bev[Far(c)] = "init" /\ bev'[Far(c)] = "freed"
          \/ /\ bev[Far(c)] = "open" /\ bev'[Far(c)] = "freed"
             /\ Closed(Near(c))

\* An end that is closed is not the near end of a connection in use.
LEMMA ClosedIsOver ==
  ASSUME LinkInv, NEW c \in Connection, Adopted(To(c), From(c), c),
         Closed(Near(c))
  PROVE  ~Current(c)
<1> SUFFICES ASSUME Current(c) PROVE FALSE
  OBVIOUS
<1>1. Proactive(From(c), To(c))
  BY DEF LinkInv, HelloSaid
<1>2. ~ctx[From(c)][To(c)].passive
  BY <1>1, FormsDiffer
<1>3. bev[Near(c)] \in {"connecting", "open", "dead"}
  BY <1>2 DEF LinkInv, NearsKept
<1> QED BY <1>3 DEF Closed

\* Such a step keeps the invariant.
LEMMA BevStepKeepsInv ==
  ASSUME LinkInv, BevStep
  PROVE  LinkInv'
<1>1. /\ TypeOK /\ ContextsFormed /\ NearsKept /\ FarsKept /\ HelloSaid
      /\ up' = up /\ life' = life /\ ctx' = ctx /\ hello' \subseteq hello
  BY DEF LinkInv, BevStep
<1>2. TypeOK'
  BY <1>1 DEF TypeOK, BevStep
<1>3. ContextsFormed'
  BY <1>1 DEF ContextsFormed, Undecided, Proactive, Adopted, Own, FreshContext
<1>4. ASSUME NEW c \in Connection
      PROVE  /\ Current(c)' <=> Current(c)
             /\ Adopted(To(c), From(c), c)' <=> Adopted(To(c), From(c), c)
             /\ Proactive(From(c), To(c))' <=> Proactive(From(c), To(c))
  BY <1>1 DEF Current, Adopted, Proactive, Own
<1>5. NearsKept'
  BY <1>1, <1>4 DEF NearsKept, BevStep
<1>6. FarsKept'
  <2> SUFFICES ASSUME NEW c \in Connection
               PROVE  /\ ~up'[To(c)] => bev'[Far(c)] \in {"none", "gone"}
                      /\ Adopted(To(c), From(c), c) =>
                           \/ bev'[Far(c)] = "open"
                           \/ bev'[Far(c)] = "freed" /\ ~Current(c)
    BY <1>4 DEF FarsKept
  <2>1. /\ ~up[To(c)] => bev[Far(c)] \in {"none", "gone"}
        /\ Adopted(To(c), From(c), c) =>
             \/ bev[Far(c)] = "open"
             \/ bev[Far(c)] = "freed" /\ ~Current(c)
    BY <1>1 DEF FarsKept
  <2>2. \/ bev'[Far(c)] = bev[Far(c)]
        \/ up[To(c)] /\ bev[Far(c)] = "none" /\ bev'[Far(c)] = "init"
        \/ bev[Far(c)] = "init" /\ bev'[Far(c)] = "freed"
        \/ /\ bev[Far(c)] = "open" /\ bev'[Far(c)] = "freed"
           /\ Closed(Near(c))
    BY DEF BevStep
  <2>3. Adopted(To(c), From(c), c) /\ Closed(Near(c)) => ~Current(c)
    BY ClosedIsOver
  <2> QED BY <1>1, <2>1, <2>2, <2>3
<1>7. HelloSaid'
  BY <1>1, <1>4 DEF HelloSaid
<1> QED BY <1>2, <1>3, <1>5, <1>6, <1>7 DEF LinkInv

\* What changing the state of a near end does to the ends of the connections
LEMMA NearChanged ==
  ASSUME LinkInv, NEW c \in Connection, NEW v \in EndState,
         bev' = [bev EXCEPT ![Near(c)] = v]
  PROVE  /\ bev' \in [End -> EndState] /\ bev'[Near(c)] = v
         /\ \A d \in Connection :
              /\ d # c => bev'[Near(d)] = bev[Near(d)]
              /\ bev'[Far(d)] = bev[Far(d)]
<1>1. bev \in [End -> EndState]
  BY InvParts
<1>2. ASSUME NEW d \in Connection
      PROVE  /\ Near(d) \in End /\ Far(d) \in End /\ Far(d) # Near(c)
             /\ d # c => Near(d) # Near(c)
  BY ConnectionParts, EndsDiffer
<1> QED BY <1>1, <1>2

\* The same for a far end
LEMMA FarChanged ==
  ASSUME LinkInv, NEW c \in Connection, NEW v \in EndState,
         bev' = [bev EXCEPT ![Far(c)] = v]
  PROVE  /\ bev' \in [End -> EndState] /\ bev'[Far(c)] = v
         /\ \A d \in Connection :
              /\ bev'[Near(d)] = bev[Near(d)]
              /\ d # c => bev'[Far(d)] = bev[Far(d)]
<1>1. bev \in [End -> EndState]
  BY InvParts
<1>2. ASSUME NEW d \in Connection
      PROVE  /\ Near(d) \in End /\ Far(d) \in End /\ Near(d) # Far(c)
             /\ d # c => Far(d) # Far(c)
  BY ConnectionParts, EndsDiffer
<1> QED BY <1>1, <1>2

\* Accepting, failing, ending and giving up change bufferevents alone.
LEMMA BevActionsKeepInv ==
  ASSUME LinkInv, NEW c \in Connection,
         \/ Accept(c) \/ ConnectFails(c) \/ NearEnds(c) \/ FarEnds(c)
         \/ /\ bev[Far(c)] = "init" /\ GiveUp(c)
            /\ hello' = hello \ {c} /\ crashes' = crashes
  PROVE  LinkInv'
<1>1. {"init", "dead", "freed"} \subseteq EndState
  BY DEF EndState
<1>2. CASE Accept(c)
  <2>1. /\ bev' = [bev EXCEPT ![Far(c)] = "init"] /\ bev[Far(c)] = "none"
        /\ up[To(c)] /\ UNCHANGED <<up, life, ctx, hello, crashes>>
    BY <1>2 DEF Accept
  <2> QED BY <2>1, <1>1, FarChanged, BevStepKeepsInv DEF BevStep
<1>3. CASE ConnectFails(c) \/ NearEnds(c)
  <2>1. /\ bev' = [bev EXCEPT ![Near(c)] = "dead"]
        /\ bev[Near(c)] \in {"connecting", "open"}
        /\ UNCHANGED <<up, life, ctx, hello, crashes>>
    BY <1>3 DEF ConnectFails, NearEnds
  <2> QED BY <2>1, <1>1, NearChanged, BevStepKeepsInv DEF BevStep
<1>4. CASE FarEnds(c)
  <2>1. /\ bev' = [bev EXCEPT ![Far(c)] = "freed"]
        /\ bev[Far(c)] \in {"init", "open"} /\ Closed(Near(c))
        /\ UNCHANGED <<up, life, ctx, crashes>> /\ hello' \subseteq hello
    BY <1>4 DEF FarEnds
  <2> QED BY <2>1, <1>1, FarChanged, BevStepKeepsInv DEF BevStep
<1>5. CASE /\ bev[Far(c)] = "init" /\ GiveUp(c)
           /\ hello' = hello \ {c} /\ crashes' = crashes
  <2>1. /\ bev' = [bev EXCEPT ![Far(c)] = "freed"] /\ bev[Far(c)] = "init"
        /\ UNCHANGED <<up, life, ctx, crashes>> /\ hello' \subseteq hello
    BY <1>5 DEF GiveUp
  <2> QED BY <2>1, <1>1, FarChanged, BevStepKeepsInv DEF BevStep
<1> QED BY <1>2, <1>3, <1>4, <1>5

\* The types of the contexts and of up go together.
LEMMA TypesOfContexts ==
  ASSUME TypeOK,
         ctx' \in [Server -> [Server -> Context]], ContextsFormed',
         up' \in [Server -> BOOLEAN], life' \in [Server -> 0..MaxCrashes + 1],
         bev' \in [End -> EndState], hello' \subseteq Connection,
         crashes' \in 0..MaxCrashes
  PROVE  TypeOK'
<1>1. ASSUME NEW s \in Server, NEW p \in Server, s # p
      PROVE  ctx'[s][p].sock = NoBev <=> ~up'[s]
  <2>1. CASE ~up'[s]
    <3>1. ctx'[s][p] = NoContext
      BY <2>1 DEF ContextsFormed
    <3> QED BY <3>1, <2>1 DEF NoContext
  <2>2. CASE up'[s]
    <3>1. \/ Undecided(s, p)' \/ Proactive(s, p)'
          \/ \E c \in Connection : Adopted(s, p, c)'
      BY <1>1, <2>2 DEF ContextsFormed
    <3>2. \E c : ctx'[s][p].sock = Near(c) \/ ctx'[s][p].sock = Far(c)
      <4>1. Undecided(s, p)' => ctx'[s][p].sock = Near(<<s, p, life'[s]>>)
        BY DEF Undecided, FreshContext, NoContext
      <4>2. Proactive(s, p)' => ctx'[s][p].sock = Near(<<s, p, life'[s]>>)
        BY DEF Proactive, Own
      <4>3. \A c : Adopted(s, p, c)' => ctx'[s][p].sock = Far(c)
        BY DEF Adopted
      <4> QED BY <3>1, <4>1, <4>2, <4>3
    <3> QED BY <3>2, <2>2, EndsDiffer
  <2> QED BY <2>1, <2>2
<1> QED BY <1>1 DEF TypeOK

\* The context after the connection of a server came up
LEMMA ConnectedContext ==
  ASSUME NEW c, NEW t
  PROVE  AfterConnect([sock |-> Near(c), trans |-> t,
                       proactive |-> FALSE, passive |-> FALSE], c)
           = [sock |-> Near(c), trans |-> Near(c),
              proactive |-> TRUE, passive |-> FALSE]
         /\ AfterConnect([sock |-> Near(c), trans |-> t,
                          proactive |-> TRUE, passive |-> FALSE], c)
           = [sock |-> Near(c), trans |-> Near(c),
              proactive |-> TRUE, passive |-> FALSE]
BY DEF AfterConnect

\* A connection comes up: its server is undecided then, and says hello.
LEMMA ConnectedKeepsInv ==
  ASSUME LinkInv, NEW c \in Connection, Connected(c)
  PROVE  LinkInv'
<1>0. PICK s, p : s = From(c) /\ p = To(c)
  OBVIOUS
<1>1. /\ s \in Server /\ p \in Server /\ s # p /\ c[3] \in Life
      /\ TypeOK /\ ContextsFormed /\ NearsKept /\ FarsKept /\ HelloSaid
  BY <1>0, ConnectionParts, InvParts
<1>2. /\ bev[Near(c)] = "connecting" /\ bev' = [bev EXCEPT ![Near(c)] = "open"]
      /\ up' = up /\ life' = life /\ crashes' = crashes
  BY DEF Connected
<1>3. Current(c) /\ ~ctx[s][p].passive
  BY <1>0, <1>1, <1>2 DEF NearsKept
<1>4. up[s] /\ c = Own(s, p) /\ c[3] = life[s]
  BY <1>0, <1>3, CurrentIsOwn DEF Current
<1>5. Undecided(s, p) \/ Proactive(s, p)
  BY <1>1, <1>3, <1>4, ContextFacts, FormsDiffer
<1>6. /\ Undecided(s, p) =>
           ctx[s][p] = [sock |-> Near(c), trans |-> NoBev,
                        proactive |-> FALSE, passive |-> FALSE]
      /\ Proactive(s, p) =>
           ctx[s][p] = [sock |-> Near(c), trans |-> Near(c),
                        proactive |-> TRUE, passive |-> FALSE]
  BY <1>4 DEF Undecided, Proactive, FreshContext, NoContext, Own
<1>7. PICK x : /\ x = [sock |-> Near(c), trans |-> Near(c),
                       proactive |-> TRUE, passive |-> FALSE]
               /\ ctx' = [ctx EXCEPT ![s][p] = x]
               /\ hello' = hello \cup {c}
  <2>1. /\ ctx' = [ctx EXCEPT ![s][p] = AfterConnect(ctx[s][p], c)]
        /\ hello' = hello \cup {c}
    BY <1>0, <1>3 DEF Connected
  <2>2. AfterConnect(ctx[s][p], c) = [sock |-> Near(c), trans |-> Near(c),
                                      proactive |-> TRUE, passive |-> FALSE]
    <3>1. CASE Undecided(s, p)
      BY <3>1, <1>6, ConnectedContext
    <3>2. CASE Proactive(s, p)
      BY <3>2, <1>6, ConnectedContext
    <3> QED BY <3>1, <3>2, <1>5
  <2> QED BY <2>1, <2>2
<1>8. x \in Context
  BY <1>7, ConnectionParts DEF Context
<1>9. /\ bev' \in [End -> EndState] /\ bev'[Near(c)] = "open"
      /\ \A d \in Connection : /\ d # c => bev'[Near(d)] = bev[Near(d)]
                               /\ bev'[Far(d)] = bev[Far(d)]
  <2>1. "open" \in EndState
    BY DEF EndState
  <2> QED BY <2>1, <1>2, NearChanged
<1>10. /\ ctx' \in [Server -> [Server -> Context]] /\ ctx'[s][p] = x
       /\ \A q, r \in Server : q # s \/ r # p => ctx'[q][r] = ctx[q][r]
  <2>1. s \in Server /\ p \in Server /\ ctx' = [ctx EXCEPT ![s][p] = x]
    BY <1>1, <1>7
  <2>2. ctx \in [Server -> [Server -> Context]]
    BY InvParts
  <2> QED BY <2>1, <2>2, <1>8
<1>11. Proactive(s, p)'
  <2>1. c = Own(s, p)'
    BY <1>2, <1>4 DEF Own
  <2> QED BY <2>1, <1>7, <1>10 DEF Proactive
<1>12. ~ctx'[s][p].passive /\ \A d : ~Adopted(s, p, d)'
  BY <1>7, <1>10 DEF Adopted
<1>13. ASSUME NEW q \in Server, NEW r \in Server, q # s \/ r # p
       PROVE  /\ Undecided(q, r)' <=> Undecided(q, r)
              /\ Proactive(q, r)' <=> Proactive(q, r)
              /\ \A d : Adopted(q, r, d)' <=> Adopted(q, r, d)
  BY <1>2, <1>10, <1>13, FormsKept
<1>14. \A d : Current(d)' <=> Current(d)
  BY <1>2 DEF Current
<1>15. ContextsFormed'
  <2> SUFFICES ASSUME NEW q \in Server, NEW r \in Server
               PROVE  IF q = r \/ ~up'[q] THEN ctx'[q][r] = NoContext
                      ELSE /\ life'[q] \in Life
                           /\ \/ Undecided(q, r)' \/ Proactive(q, r)'
                              \/ \E d \in Connection : /\ From(d) = r /\ To(d) = q
                                                       /\ Adopted(q, r, d)'
    BY DEF ContextsFormed
  <2>1. CASE q = s /\ r = p
    BY <2>1, <1>1, <1>2, <1>4, <1>11
  <2>2. CASE q # s \/ r # p
    BY <2>2, <1>1, <1>2, <1>10, <1>13 DEF ContextsFormed
  <2> QED BY <2>1, <2>2
<1>16. ASSUME NEW d \in Connection
       PROVE  /\ From(d) \in Server /\ To(d) \in Server
              /\ Adopted(To(d), From(d), d)' => Adopted(To(d), From(d), d)
              /\ Proactive(From(d), To(d)) => Proactive(From(d), To(d))'
              /\ ctx'[From(d)][To(d)].passive <=> ctx[From(d)][To(d)].passive
  <2>1. From(d) \in Server /\ To(d) \in Server
    BY ConnectionParts
  <2>2. Adopted(To(d), From(d), d)' => Adopted(To(d), From(d), d)
    BY <2>1, <1>12, <1>13
  <2>3. Proactive(From(d), To(d)) => Proactive(From(d), To(d))'
    BY <2>1, <1>11, <1>13
  <2>4. ctx'[From(d)][To(d)].passive <=> ctx[From(d)][To(d)].passive
    BY <2>1, <1>3, <1>10, <1>12
  <2> QED BY <2>1, <2>2, <2>3, <2>4
<1>17. NearsKept'
  <2> SUFFICES ASSUME NEW d \in Connection
               PROVE  IF Current(d)'
                      THEN /\ bev'[Near(d)] \in {"connecting", "open", "dead", "freed"}
                           /\ bev'[Near(d)] = "freed" <=> ctx'[From(d)][To(d)].passive
                      ELSE bev'[Near(d)] \in {"none", "gone"}
    BY DEF NearsKept
  <2>1. CASE d = c
    BY <2>1, <1>0, <1>3, <1>9, <1>12, <1>14
  <2>2. CASE d # c
    BY <2>2, <1>1, <1>9, <1>14, <1>16 DEF NearsKept
  <2> QED BY <2>1, <2>2
<1>18. FarsKept'
  BY <1>1, <1>2, <1>9, <1>14, <1>16 DEF FarsKept
<1>19. HelloSaid'
  <2> SUFFICES ASSUME NEW d \in Connection,
                      d \in hello' \/ Adopted(To(d), From(d), d)'
               PROVE  /\ d[3] <= life'[From(d)]
                      /\ Current(d)' => Proactive(From(d), To(d))'
    BY DEF HelloSaid
  <2>1. CASE d = c
    <3>1. c[3] <= life[s]
      BY <1>1, <1>4, InvParts
    <3> QED BY <3>1, <2>1, <1>0, <1>2, <1>11
  <2>2. CASE d # c
    BY <2>2, <1>1, <1>2, <1>7, <1>14, <1>16 DEF HelloSaid
  <2> QED BY <2>1, <2>2
<1>20. TypeOK'
  BY <1>1, <1>2, <1>7, <1>9, <1>10, <1>15, TypesOfContexts DEF TypeOK
<1> QED BY <1>15, <1>17, <1>18, <1>19, <1>20 DEF LinkInv

\* What adopting a connection does to the bufferevents: the one that was used
\* for the peer until then is freed, the far end of c is open.
LEMMA AdoptedEnds ==
  ASSUME LinkInv, NEW c \in Connection, NEW e \in End, e # Far(c),
         bev' = [bev EXCEPT ![e] = "freed", ![Far(c)] = "open"]
  PROVE  /\ bev' \in [End -> EndState]
         /\ bev'[e] = "freed" /\ bev'[Far(c)] = "open"
         /\ \A d \in Connection :
              /\ Near(d) # e => bev'[Near(d)] = bev[Near(d)]
              /\ Far(d) # e /\ d # c => bev'[Far(d)] = bev[Far(d)]
<1>1. bev \in [End -> EndState] /\ {"freed", "open"} \subseteq EndState
  BY InvParts DEF EndState
<1>2. ASSUME NEW d \in Connection
      PROVE  /\ Near(d) \in End /\ Far(d) \in End /\ Near(d) # Far(c)
             /\ d # c => Far(d) # Far(c)
  BY ConnectionParts, EndsDiffer
<1> QED BY <1>1, <1>2, ConnectionParts

\* The context after adopting a connection
LEMMA AdoptedContext ==
  ASSUME NEW m \in Context, ~m.proactive, NEW c \in Connection
  PROVE  AfterAdopt(m, c) = [sock |-> Far(c), trans |-> Far(c),
                             proactive |-> FALSE, passive |-> TRUE]
<1>1. PICK x : x = AfterAdopt(m, c)
  OBVIOUS
<1>2. x \in Context
  BY <1>1, ConnectionParts DEF AfterAdopt, Context
<1>3. x.sock = Far(c) /\ x.trans = Far(c)
  BY <1>1 DEF AfterAdopt, Context
<1>4. x.proactive = FALSE /\ x.passive = TRUE
  BY <1>1 DEF AfterAdopt, Context
<1>5. x = [sock |-> Far(c), trans |-> Far(c), proactive |-> FALSE, passive |-> TRUE]
  BY <1>2, <1>3, <1>4 DEF Context
<1> QED BY <1>1, <1>5

\* A server that has no connection of its own up adopts the one on which it
\* reads a hello, instead of its own or of one it adopted before.
LEMMA AdoptKeepsInv ==
  ASSUME LinkInv, NEW c \in Connection, c \in hello, bev[Far(c)] = "init",
         ~ctx[To(c)][From(c)].proactive, Adopt(c),
         hello' = hello \ {c}, crashes' = crashes
  PROVE  LinkInv'
<1>0. PICK s, p : s = From(c) /\ p = To(c)
  OBVIOUS
<1>1. /\ s \in Server /\ p \in Server /\ s # p
      /\ TypeOK /\ ContextsFormed /\ NearsKept /\ FarsKept /\ HelloSaid
  BY <1>0, ConnectionParts, InvParts
<1>2. up[p] /\ ~ctx[p][s].proactive
  BY <1>0, <1>1 DEF FarsKept
<1>3. up' = up /\ life' = life
  BY DEF Adopt
<1>4. /\ Own(p, s) \in Connection /\ Current(Own(p, s)) /\ life[p] \in Life
      /\ From(Own(p, s)) = p /\ To(Own(p, s)) = s
      /\ \/ Undecided(p, s)
         \/ \E d \in Connection : From(d) = s /\ To(d) = p /\ Adopted(p, s, d)
  BY <1>1, <1>2, ContextFacts, FormsDiffer
<1>5. PICK e : e = ctx[p][s].sock
  OBVIOUS
<1>6. /\ e \in End /\ e # Far(c)
      /\ \/ Undecided(p, s) /\ e = Near(Own(p, s))
         \/ /\ ctx[p][s].passive
            /\ \E d \in Connection : From(d) = s /\ To(d) = p /\ e = Far(d)
  <2>1. CASE Undecided(p, s)
    BY <2>1, <1>4, <1>5, FormsDiffer, ConnectionParts, EndsDiffer
  <2>2. ASSUME NEW d \in Connection, From(d) = s, To(d) = p, Adopted(p, s, d)
        PROVE  /\ e \in End /\ e # Far(c) /\ ctx[p][s].passive
               /\ From(d) = s /\ To(d) = p /\ e = Far(d)
    <3>1. bev[Far(d)] \in {"open", "freed"}
      BY <1>1, <2>2 DEF FarsKept
    <3>2. d # c
      BY <3>1
    <3> QED BY <2>2, <3>2, <1>5, FormsDiffer, ConnectionParts, EndsDiffer
  <2> QED BY <2>1, <2>2, <1>4
<1>7. PICK x : /\ x = [sock |-> Far(c), trans |-> Far(c),
                       proactive |-> FALSE, passive |-> TRUE]
               /\ ctx' = [ctx EXCEPT ![p][s] = x]
  <2>1. ctx' = [ctx EXCEPT ![p][s] = AfterAdopt(ctx[p][s], c)]
    BY <1>0 DEF Adopt
  <2>2. ctx[p][s] \in Context
    BY <1>1, InvParts
  <2>3. AfterAdopt(ctx[p][s], c) = [sock |-> Far(c), trans |-> Far(c),
                                    proactive |-> FALSE, passive |-> TRUE]
    BY <2>2, <1>2, AdoptedContext
  <2> QED BY <2>1, <2>3
<1>8. x \in Context
  BY <1>7, ConnectionParts DEF Context
<1>9. /\ bev' \in [End -> EndState]
      /\ bev'[e] = "freed" /\ bev'[Far(c)] = "open"
      /\ \A d \in Connection :
           /\ Near(d) # e => bev'[Near(d)] = bev[Near(d)]
           /\ Far(d) # e /\ d # c => bev'[Far(d)] = bev[Far(d)]
  <2>1. bev' = [bev EXCEPT ![e] = "freed", ![Far(c)] = "open"]
    BY <1>0, <1>5 DEF Adopt
  <2> QED BY <2>1, <1>6, AdoptedEnds
<1>10. /\ ctx' \in [Server -> [Server -> Context]] /\ ctx'[p][s] = x
       /\ \A q, r \in Server : q # p \/ r # s => ctx'[q][r] = ctx[q][r]
  <2>1. ctx' = [ctx EXCEPT ![p][s] = x] /\ ctx \in [Server -> [Server -> Context]]
    BY <1>7, InvParts
  <2> QED BY <2>1, <1>1, <1>8
<1>11. /\ Adopted(p, s, c)' /\ ctx'[p][s].passive
       /\ \A d : Adopted(p, s, d)' => d = c
  BY <1>7, <1>10, EndsDiffer DEF Adopted
<1>12. ASSUME NEW q \in Server, NEW r \in Server, q # p \/ r # s
       PROVE  /\ Undecided(q, r)' <=> Undecided(q, r)
              /\ Proactive(q, r)' <=> Proactive(q, r)
              /\ \A d : Adopted(q, r, d)' <=> Adopted(q, r, d)
  BY <1>3, <1>10, <1>12, FormsKept
<1>13. \A d : Current(d)' <=> Current(d)
  BY <1>3 DEF Current
<1>14. ContextsFormed'
  <2> SUFFICES ASSUME NEW q \in Server, NEW r \in Server
               PROVE  IF q = r \/ ~up'[q] THEN ctx'[q][r] = NoContext
                      ELSE /\ life'[q] \in Life
                           /\ \/ Undecided(q, r)' \/ Proactive(q, r)'
                              \/ \E d \in Connection : /\ From(d) = r /\ To(d) = q
                                                       /\ Adopted(q, r, d)'
    BY DEF ContextsFormed
  <2>1. CASE q = p /\ r = s
    BY <2>1, <1>0, <1>1, <1>2, <1>3, <1>4, <1>11
  <2>2. CASE q # p \/ r # s
    BY <2>2, <1>1, <1>3, <1>10, <1>12 DEF ContextsFormed
  <2> QED BY <2>1, <2>2
<1>15. ASSUME NEW d \in Connection
       PROVE  /\ From(d) \in Server /\ To(d) \in Server
              /\ Adopted(To(d), From(d), d)' =>
                   d = c \/ Adopted(To(d), From(d), d)
              /\ Proactive(From(d), To(d)) => Proactive(From(d), To(d))'
  <2>1. From(d) \in Server /\ To(d) \in Server
    BY ConnectionParts
  <2>2. Adopted(To(d), From(d), d)' => d = c \/ Adopted(To(d), From(d), d)
    BY <2>1, <1>11, <1>12
  <2>3. ~Proactive(p, s)
    BY <1>2, FormsDiffer
  <2>4. Proactive(From(d), To(d)) => Proactive(From(d), To(d))'
    BY <2>1, <2>3, <1>12
  <2> QED BY <2>1, <2>2, <2>4
<1>16. NearsKept'
  <2> SUFFICES ASSUME NEW d \in Connection
               PROVE  IF Current(d)
                      THEN /\ bev'[Near(d)] \in {"connecting", "open", "dead", "freed"}
                           /\ bev'[Near(d)] = "freed" <=> ctx'[From(d)][To(d)].passive
                      ELSE bev'[Near(d)] \in {"none", "gone"}
    BY <1>13 DEF NearsKept
  <2>1. /\ IF Current(d)
           THEN /\ bev[Near(d)] \in {"connecting", "open", "dead", "freed"}
                /\ bev[Near(d)] = "freed" <=> ctx[From(d)][To(d)].passive
           ELSE bev[Near(d)] \in {"none", "gone"}
        /\ From(d) \in Server /\ To(d) \in Server
    BY <1>1, <1>15 DEF NearsKept
  <2>2. CASE Near(d) = e
    <3>1. d = Own(p, s)
      BY <2>2, <1>6, EndsDiffer
    <3> QED BY <3>1, <2>2, <1>4, <1>9, <1>11
  <2>3. CASE Near(d) # e
    <3>1. bev'[Near(d)] = bev[Near(d)]
      BY <2>3, <1>9
    <3>2. CASE From(d) = p /\ To(d) = s /\ Current(d)
      <4>1. d = Own(p, s)
        BY <3>2, CurrentIsOwn
      <4>2. ctx[p][s].passive
        BY <4>1, <2>3, <1>6
      <4> QED BY <3>1, <3>2, <4>2, <2>1, <1>11
    <3>3. CASE From(d) # p \/ To(d) # s
      BY <3>1, <3>3, <2>1, <1>10
    <3>4. CASE ~Current(d)
      BY <3>1, <3>4, <2>1
    <3> QED BY <3>2, <3>3, <3>4
  <2> QED BY <2>2, <2>3
<1>17. FarsKept'
  <2> SUFFICES ASSUME NEW d \in Connection
               PROVE  /\ ~up[To(d)] => bev'[Far(d)] \in {"none", "gone"}
                      /\ Adopted(To(d), From(d), d)' =>
                           \/ bev'[Far(d)] = "open"
                           \/ bev'[Far(d)] = "freed" /\ ~Current(d)
    BY <1>3, <1>13 DEF FarsKept
  <2>1. CASE d = c
    BY <2>1, <1>0, <1>2, <1>9
  <2>2. CASE d # c /\ Far(d) # e
    BY <2>2, <1>1, <1>9, <1>15 DEF FarsKept
  <2>3. CASE d # c /\ Far(d) = e
    <3>1. From(d) = s /\ To(d) = p
      BY <2>3, <1>6, EndsDiffer
    <3> QED BY <3>1, <2>3, <1>2, <1>11
  <2> QED BY <2>1, <2>2, <2>3
<1>18. HelloSaid'
  <2> SUFFICES ASSUME NEW d \in Connection,
                      d \in hello' \/ Adopted(To(d), From(d), d)'
               PROVE  /\ d[3] <= life[From(d)]
                      /\ Current(d) => Proactive(From(d), To(d))'
    BY <1>3, <1>13 DEF HelloSaid
  <2>1. d \in hello \/ Adopted(To(d), From(d), d)
    BY <1>15
  <2> QED BY <2>1, <1>1, <1>15 DEF HelloSaid
<1>19. TypeOK'
  <2>1. /\ up' \in [Server -> BOOLEAN] /\ life' \in [Server -> 0..MaxCrashes + 1]
        /\ crashes' \in 0..MaxCrashes /\ hello' \subseteq Connection
    BY <1>1, <1>3 DEF TypeOK
  <2> QED BY <2>1, <1>1, <1>9, <1>10, <1>14, TypesOfContexts
<1> QED BY <1>14, <1>16, <1>17, <1>18, <1>19 DEF LinkInv

\* A server starts: the connections of its new life are new, and all it opened
\* before are of the past.
LEMMA StartKeepsInv ==
  ASSUME LinkInv, NEW s \in Server, Start(s)
  PROVE  LinkInv'
<1>1. PICK n : n = life[s] + 1
  OBVIOUS
<1>2. /\ TypeOK /\ ContextsFormed /\ NearsKept /\ FarsKept /\ HelloSaid
      /\ ~up[s] /\ n \in Life /\ life[s] \in Nat /\ n > life[s]
  BY <1>1, InvParts DEF Start, Life
<1>3. /\ life' = [life EXCEPT ![s] = n] /\ up' = [up EXCEPT ![s] = TRUE]
      /\ ctx' = [ctx EXCEPT ![s] =
                   [p \in Server |-> IF p = s THEN NoContext
                                     ELSE FreshContext(s, p, n)]]
      /\ bev' = [e \in End |-> IF \E p \in Server \ {s} : e = Near(<<s, p, n>>)
                               THEN "connecting" ELSE bev[e]]
      /\ hello' = hello /\ crashes' = crashes
  BY <1>1 DEF Start
<1>4. /\ up' \in [Server -> BOOLEAN] /\ life' \in [Server -> 0..MaxCrashes + 1]
      /\ up'[s] /\ life'[s] = n
      /\ \A q \in Server : q # s => up'[q] = up[q] /\ life'[q] = life[q]
  BY <1>2, <1>3, InvParts DEF Life
<1>5. /\ ctx'[s][s] = NoContext
      /\ \A p \in Server : p # s => ctx'[s][p] = FreshContext(s, p, n)
      /\ \A q, r \in Server : q # s => ctx'[q][r] = ctx[q][r]
  BY <1>3, InvParts
<1>6. ctx' \in [Server -> [Server -> Context]]
  <2>1. NoContext \in Context
    BY DEF NoContext, Context
  <2>2. ASSUME NEW p \in Server, p # s
        PROVE  FreshContext(s, p, n) \in Context
    BY <2>2, <1>2, ConnectionExists, ConnectionParts
       DEF FreshContext, NoContext, Context
  <2> QED BY <2>1, <2>2, <1>3, InvParts
<1>7. ASSUME NEW d \in Connection
      PROVE  /\ From(d) \in Server /\ To(d) \in Server /\ From(d) # To(d)
             /\ bev'[Far(d)] = bev[Far(d)]
             /\ From(d) # s \/ d[3] # n => bev'[Near(d)] = bev[Near(d)]
             /\ From(d) = s /\ d[3] = n => bev'[Near(d)] = "connecting"
  <2>1. /\ From(d) \in Server /\ To(d) \in Server /\ From(d) # To(d)
        /\ d = <<From(d), To(d), d[3]>> /\ Near(d) \in End /\ Far(d) \in End
    BY ConnectionParts
  <2>2. \A p \in Server : Far(d) # Near(<<s, p, n>>)
    BY EndsDiffer
  <2>3. \A p \in Server :
          Near(d) = Near(<<s, p, n>>) => From(d) = s /\ d[3] = n
    BY EndsDiffer DEF From
  <2> QED BY <2>1, <2>2, <2>3, <1>3
<1>8. bev' \in [End -> EndState]
  BY <1>3, InvParts DEF EndState
<1>9. ASSUME NEW q \in Server, NEW r \in Server, q # s
      PROVE  /\ Undecided(q, r)' <=> Undecided(q, r)
             /\ Proactive(q, r)' <=> Proactive(q, r)
             /\ \A d : Adopted(q, r, d)' <=> Adopted(q, r, d)
  BY <1>4, <1>5, <1>9, FormsKept
<1>10. ASSUME NEW p \in Server
       PROVE  /\ p # s => Undecided(s, p)'
              /\ ~ctx'[s][p].passive
              /\ \A d : ~Adopted(s, p, d)'
  <2>1. p # s => Undecided(s, p)'
    BY <1>4, <1>5 DEF Undecided
  <2>2. ~ctx'[s][p].passive
    <3>1. ~NoContext.passive /\ ~FreshContext(s, p, n).passive
      BY DEF FreshContext, NoContext
    <3> QED BY <3>1, <1>5
  <2> QED BY <2>1, <2>2 DEF Adopted
<1>11. ASSUME NEW d \in Connection
       PROVE  /\ From(d) # s => (Current(d)' <=> Current(d))
              /\ From(d) = s => ~Current(d) /\ (Current(d)' <=> d[3] = n)
  BY <1>2, <1>4, <1>7 DEF Current
<1>12. ASSUME NEW d \in Connection
       PROVE  Adopted(To(d), From(d), d)' =>
                To(d) # s /\ Adopted(To(d), From(d), d)
  BY <1>7, <1>9, <1>10
<1>13. ASSUME NEW d \in Connection,
              d \in hello \/ Adopted(To(d), From(d), d)
       PROVE  /\ d[3] <= life'[From(d)]
              /\ Current(d)' => From(d) # s /\ Current(d)
  <2>1. d[3] <= life[From(d)] /\ d[3] \in Nat
    BY <1>2, <1>13, ConnectionParts, InvParts DEF HelloSaid, Life
  <2>2. d[3] # n \/ From(d) # s
    BY <2>1, <1>2
  <2>3. life'[From(d)] >= life[From(d)]
    BY <1>2, <1>4, <1>7, InvParts
  <2>4. life'[From(d)] \in Nat /\ life[From(d)] \in Nat
    BY <1>4, <1>7, InvParts
  <2> QED BY <2>1, <2>2, <2>3, <2>4, <1>11
<1>14. ContextsFormed'
  <2> SUFFICES ASSUME NEW q \in Server, NEW r \in Server
               PROVE  IF q = r \/ ~up'[q] THEN ctx'[q][r] = NoContext
                      ELSE /\ life'[q] \in Life
                           /\ \/ Undecided(q, r)' \/ Proactive(q, r)'
                              \/ \E d \in Connection : /\ From(d) = r /\ To(d) = q
                                                       /\ Adopted(q, r, d)'
    BY DEF ContextsFormed
  <2>1. CASE q = s
    BY <2>1, <1>2, <1>4, <1>5, <1>10
  <2>2. CASE q # s
    BY <2>2, <1>2, <1>4, <1>5, <1>9 DEF ContextsFormed
  <2> QED BY <2>1, <2>2
<1>15. NearsKept'
  <2> SUFFICES ASSUME NEW d \in Connection
               PROVE  IF Current(d)'
                      THEN /\ bev'[Near(d)] \in {"connecting", "open", "dead", "freed"}
                           /\ bev'[Near(d)] = "freed" <=> ctx'[From(d)][To(d)].passive
                      ELSE bev'[Near(d)] \in {"none", "gone"}
    BY DEF NearsKept
  <2>1. CASE From(d) # s
    BY <2>1, <1>2, <1>5, <1>7, <1>11 DEF NearsKept
  <2>2. CASE From(d) = s /\ d[3] = n
    BY <2>2, <1>7, <1>10, <1>11
  <2>3. CASE From(d) = s /\ d[3] # n
    BY <2>3, <1>2, <1>7, <1>11 DEF NearsKept
  <2> QED BY <2>1, <2>2, <2>3
<1>16. FarsKept'
  <2> SUFFICES ASSUME NEW d \in Connection
               PROVE  /\ ~up'[To(d)] => bev'[Far(d)] \in {"none", "gone"}
                      /\ Adopted(To(d), From(d), d)' =>
                           \/ bev'[Far(d)] = "open"
                           \/ bev'[Far(d)] = "freed" /\ ~Current(d)'
    BY DEF FarsKept
  <2>1. ~up'[To(d)] => ~up[To(d)]
    BY <1>4, <1>7
  <2> QED BY <2>1, <1>2, <1>7, <1>12, <1>13 DEF FarsKept
<1>17. HelloSaid'
  <2> SUFFICES ASSUME NEW d \in Connection,
                      d \in hello' \/ Adopted(To(d), From(d), d)'
               PROVE  /\ d[3] <= life'[From(d)]
                      /\ Current(d)' => Proactive(From(d), To(d))'
    BY DEF HelloSaid
  <2>1. d \in hello \/ Adopted(To(d), From(d), d)
    BY <1>3, <1>12
  <2>2. /\ d[3] <= life'[From(d)]
        /\ Current(d)' => From(d) # s /\ Current(d)
    BY <2>1, <1>13
  <2> QED BY <2>1, <2>2, <1>2, <1>7, <1>9 DEF HelloSaid
<1>18. TypeOK'
  <2>1. crashes' \in 0..MaxCrashes /\ hello' \subseteq Connection
    BY <1>2, <1>3 DEF TypeOK
  <2> QED BY <2>1, <1>2, <1>4, <1>6, <1>8, <1>14, TypesOfContexts
<1> QED BY <1>14, <1>15, <1>16, <1>17, <1>18 DEF LinkInv

\* A process dies: its ends and contexts are gone, and nothing that it opened
\* is current.
LEMMA DiesKeepsInv ==
  ASSUME LinkInv, NEW s \in Server, Dies(s),
         hello' \subseteq hello, crashes' \in 0..MaxCrashes
  PROVE  LinkInv'
<1>1. /\ TypeOK /\ ContextsFormed /\ NearsKept /\ FarsKept /\ HelloSaid
      /\ up' = [up EXCEPT ![s] = FALSE] /\ life' = life
      /\ bev' = [e \in End |-> IF e \in EndsOf(s) /\ bev[e] # "none"
                               THEN "gone" ELSE bev[e]]
      /\ ctx' = [ctx EXCEPT ![s] = [p \in Server |-> NoContext]]
  BY InvParts DEF Dies
<1>2. /\ up' \in [Server -> BOOLEAN] /\ ~up'[s]
      /\ \A q \in Server : q # s => up'[q] = up[q]
  BY <1>1, InvParts
<1>3. /\ \A p \in Server : ctx'[s][p] = NoContext
      /\ \A q, r \in Server : q # s => ctx'[q][r] = ctx[q][r]
  BY <1>1, InvParts
<1>4. ctx' \in [Server -> [Server -> Context]]
  <2>1. NoContext \in Context
    BY DEF NoContext, Context
  <2> QED BY <2>1, <1>1, InvParts
<1>5. ASSUME NEW d \in Connection
      PROVE  /\ From(d) \in Server /\ To(d) \in Server
             /\ From(d) = s => bev'[Near(d)] \in {"none", "gone"}
             /\ From(d) # s => bev'[Near(d)] = bev[Near(d)]
             /\ To(d) = s => bev'[Far(d)] \in {"none", "gone"}
             /\ To(d) # s => bev'[Far(d)] = bev[Far(d)]
  <2>1. /\ From(d) \in Server /\ To(d) \in Server
        /\ Near(d) \in End /\ Far(d) \in End
    BY ConnectionParts
  <2>2. /\ Near(d) \in EndsOf(s) <=> From(d) = s
        /\ Far(d) \in EndsOf(s) <=> To(d) = s
    BY EndsOfServer
  <2> QED BY <2>1, <2>2, <1>1
<1>6. bev' \in [End -> EndState]
  BY <1>1, InvParts DEF EndState
<1>7. ASSUME NEW q \in Server, NEW r \in Server, q # s
      PROVE  /\ Undecided(q, r)' <=> Undecided(q, r)
             /\ Proactive(q, r)' <=> Proactive(q, r)
             /\ \A d : Adopted(q, r, d)' <=> Adopted(q, r, d)
  BY <1>1, <1>3, <1>7, FormsKept
<1>8. ASSUME NEW p \in Server, NEW d
      PROVE  ~Adopted(s, p, d)'
  BY <1>3 DEF Adopted, NoContext
<1>9. ASSUME NEW d \in Connection
      PROVE  /\ Current(d)' <=> Current(d) /\ From(d) # s
             /\ Adopted(To(d), From(d), d)' =>
                  To(d) # s /\ Adopted(To(d), From(d), d)
  <2>1. Current(d)' <=> Current(d) /\ From(d) # s
    BY <1>1, <1>2, <1>5 DEF Current
  <2> QED BY <2>1, <1>5, <1>7, <1>8
<1>10. ContextsFormed'
  <2> SUFFICES ASSUME NEW q \in Server, NEW r \in Server
               PROVE  IF q = r \/ ~up'[q] THEN ctx'[q][r] = NoContext
                      ELSE /\ life'[q] \in Life
                           /\ \/ Undecided(q, r)' \/ Proactive(q, r)'
                              \/ \E d \in Connection : /\ From(d) = r /\ To(d) = q
                                                       /\ Adopted(q, r, d)'
    BY DEF ContextsFormed
  <2>1. CASE q = s
    BY <2>1, <1>2, <1>3
  <2>2. CASE q # s
    BY <2>2, <1>1, <1>2, <1>3, <1>7 DEF ContextsFormed
  <2> QED BY <2>1, <2>2
<1>11. NearsKept'
  BY <1>1, <1>3, <1>5, <1>9 DEF NearsKept
<1>12. FarsKept'
  BY <1>1, <1>2, <1>5, <1>9 DEF FarsKept
<1>13. HelloSaid'
  BY <1>1, <1>5, <1>7, <1>9 DEF HelloSaid
<1>14. TypeOK'
  <2>1. hello' \subseteq Connection /\ life' \in [Server -> 0..MaxCrashes + 1]
    BY <1>1, InvParts
  <2> QED BY <2>1, <1>1, <1>2, <1>4, <1>6, <1>10, TypesOfContexts
<1> QED BY <1>10, <1>11, <1>12, <1>13, <1>14 DEF LinkInv

\* Every step keeps the invariant.
LEMMA LinkInvStep == LinkInv /\ [Next]_vars => LinkInv'
<1> SUFFICES ASSUME LinkInv, [Next]_vars
             PROVE  LinkInv'
  OBVIOUS
<1>1. ASSUME NEW s \in Server, Start(s)
      PROVE  LinkInv'
  BY <1>1, StartKeepsInv
<1>2. ASSUME NEW s \in Server, Crash(s)
      PROVE  LinkInv'
  <2>1. crashes' \in 0..MaxCrashes /\ hello' \subseteq hello /\ Dies(s)
    BY <1>2, InvParts DEF Crash, TypeOK
  <2> QED BY <2>1, DiesKeepsInv
<1>3. ASSUME NEW c \in Connection,
             Accept(c) \/ ConnectFails(c) \/ NearEnds(c) \/ FarEnds(c)
      PROVE  LinkInv'
  BY <1>3, BevActionsKeepInv
<1>4. ASSUME NEW c \in Connection, Connected(c)
      PROVE  LinkInv'
  BY <1>4, ConnectedKeepsInv
<1>5. ASSUME NEW c \in Connection, ReceiveHello(c)
      PROVE  LinkInv'
  <2>1. /\ c \in hello /\ bev[Far(c)] = "init"
        /\ hello' = hello \ {c} /\ crashes' = crashes
        /\ \/ GiveUp(c)
           \/ ~ctx[To(c)][From(c)].proactive /\ Adopt(c)
           \/ Dies(To(c))
    BY <1>5 DEF ReceiveHello, GivesUp
  <2>2. CASE GiveUp(c)
    BY <2>1, <2>2, BevActionsKeepInv
  <2>3. CASE ~ctx[To(c)][From(c)].proactive /\ Adopt(c)
    BY <2>1, <2>3, AdoptKeepsInv
  <2>4. CASE Dies(To(c))
    <3>1. crashes' \in 0..MaxCrashes /\ hello' \subseteq hello /\ To(c) \in Server
      BY <2>1, InvParts, ConnectionParts DEF TypeOK
    <3> QED BY <3>1, <2>4, DiesKeepsInv
  <2> QED BY <2>1, <2>2, <2>3, <2>4
<1>6. ASSUME UNCHANGED vars
      PROVE  LinkInv'
  BY <1>6 DEF vars, LinkInv, TypeOK, ContextsFormed, NearsKept, FarsKept,
              HelloSaid, Undecided, Proactive, Adopted, Own, Current, Closed,
              FreshContext
<1> QED BY <1>1, <1>2, <1>3, <1>4, <1>5, <1>6 DEF Next

\* LinkInv is an invariant of the servers that link up.
THEOREM LinksAreKept == Spec => []LinkInv
<1>1. Init => LinkInv
  BY LinkInvInit
<1>2. LinkInv /\ [Next]_vars => LinkInv'
  BY LinkInvStep
<1> QED BY <1>1, <1>2, PTL DEF Spec

-----------------------------------------------------------------------------
(* What follows from it *)

\* A passive context is that of a running server which adopted a connection.
LEMMA PassiveAdopted ==
  ASSUME LinkInv, NEW s \in Server, NEW p \in Server, ctx[s][p].passive
  PROVE  /\ s # p
         /\ \E c \in Connection : From(c) = p /\ To(c) = s /\ Adopted(s, p, c)
<1>1. s # p /\ up[s]
  <2>1. ctx[s][p] # NoContext
    BY FormsDiffer
  <2> QED BY <2>1, InvParts DEF ContextsFormed
<1> QED BY <1>1, ContextFacts, FormsDiffer

\* The process that opened an adopted connection lives on only as long as the
\* connection is current.
LEMMA AdoptedOver ==
  ASSUME LinkInv, NEW c \in Connection, Adopted(To(c), From(c), c)
  PROVE  LifeIsOver(Far(c)) <=> ~Current(c)
<1>1. c[3] <= life[From(c)] /\ c[3] \in Nat /\ life[From(c)] \in Nat
  BY ConnectionParts, InvParts DEF HelloSaid, Life
<1> QED BY <1>1, EndsDiffer DEF LifeIsOver, Current

\* Two servers that both run never use different connections of one another,
\* and are never both passive: what one has adopted is what the other offers.
THEOREM NobodyIsMisled == Spec => []AdoptedIsOffered
<1>1. LinkInv => AdoptedIsOffered
  <2> SUFFICES ASSUME LinkInv, NEW s \in Server, NEW p \in Server,
                      ctx[s][p].passive, ~LifeIsOver(ctx[s][p].sock)
               PROVE  /\ ~ctx[s][p].proactive
                      /\ ctx[p][s].proactive
                      /\ ~ctx[p][s].passive
                      /\ InUse(p, s) = {Opposite(ctx[s][p].sock)}
    BY InvParts DEF AdoptedIsOffered
  <2>1. PICK c \in Connection : From(c) = p /\ To(c) = s /\ Adopted(s, p, c)
    BY PassiveAdopted
  <2>2. ctx[s][p].sock = Far(c) /\ ~ctx[s][p].proactive
    BY <2>1, FormsDiffer
  <2>3. Current(c) /\ c = Own(p, s)
    BY <2>1, <2>2, AdoptedOver, CurrentIsOwn
  <2>4. Proactive(p, s)
    BY <2>1, <2>3, InvParts DEF HelloSaid
  <2>5. InUse(p, s) = {Near(c)}
    BY <2>3, <2>4, FormsDiffer, EndsDiffer DEF InUse
  <2>6. Opposite(ctx[s][p].sock) = Near(c)
    BY <2>2, EndsDiffer
  <2> QED BY <2>2, <2>4, <2>5, <2>6, FormsDiffer
<1> QED BY <1>1, LinksAreKept, PTL

\* A running server points to a freed bufferevent only where it had adopted a
\* connection of a process that has died since.
THEOREM OnlyCrashesDangle == Spec => []DanglingOnlyAfterCrash
<1>1. LinkInv => DanglingOnlyAfterCrash
  <2> SUFFICES ASSUME LinkInv, NEW s \in Server, NEW p \in Server,
                      NEW e \in InUse(s, p), bev[e] = "freed"
               PROVE  ctx[s][p].passive /\ e[2] = "far" /\ LifeIsOver(e)
    BY DEF DanglingOnlyAfterCrash
  <2>1. s # p /\ up[s]
    <3>1. ctx[s][p] # NoContext
      BY FormsDiffer DEF InUse
    <3> QED BY <3>1, InvParts DEF ContextsFormed
  <2>2. ~Undecided(s, p) /\ ~Proactive(s, p)
    <3> SUFFICES ASSUME Undecided(s, p) \/ Proactive(s, p)
                 PROVE  FALSE
      OBVIOUS
    <3>1. e = Near(Own(s, p)) /\ ~ctx[s][p].passive
      BY FormsDiffer DEF InUse
    <3>2. /\ Own(s, p) \in Connection /\ Current(Own(s, p))
          /\ From(Own(s, p)) = s /\ To(Own(s, p)) = p
      BY <2>1, ContextFacts
    <3> QED BY <3>1, <3>2, InvParts DEF NearsKept
  <2>3. PICK c \in Connection : From(c) = p /\ To(c) = s /\ Adopted(s, p, c)
    BY <2>1, <2>2, ContextFacts
  <2>4. e = Far(c) /\ ctx[s][p].passive
    BY <2>3, FormsDiffer DEF InUse
  <2>5. ~Current(c)
    BY <2>3, <2>4, InvParts DEF FarsKept
  <2> QED BY <2>3, <2>4, <2>5, AdoptedOver, EndsDiffer
<1> QED BY <1>1, LinksAreKept, PTL

\* The end in the peer, once closed, stays closed.
LEMMA ClosedStays ==
  ASSUME LinkInv, [Next]_vars, NEW d \in Connection, Closed(Far(d))
  PROVE  Closed(Far(d))'
<1>1. bev \in [End -> EndState] /\ bev[Far(d)] \in {"freed", "gone"} /\ Far(d) \in End
  BY InvParts, ConnectionParts DEF Closed
<1> SUFFICES bev'[Far(d)] \in {"freed", "gone"}
  BY DEF Closed
<1>2. ASSUME NEW s \in Server, Start(s) PROVE bev'[Far(d)] \in {"freed", "gone"}
  <2>1. \A c : Far(d) # Near(c)
    BY EndsDiffer
  <2> QED BY <1>1, <1>2, <2>1 DEF Start
<1>3. ASSUME NEW s, Dies(s) PROVE bev'[Far(d)] \in {"freed", "gone"}
  BY <1>1, <1>3 DEF Dies
<1>4. ASSUME NEW c \in Connection,
             Connected(c) \/ ConnectFails(c) \/ NearEnds(c)
      PROVE  bev'[Far(d)] \in {"freed", "gone"}
  <2>1. Far(d) # Near(c)
    BY EndsDiffer
  <2> QED BY <1>1, <1>4, <2>1 DEF Connected, ConnectFails, NearEnds
<1>5. ASSUME NEW c \in Connection, Accept(c) \/ FarEnds(c) \/ GiveUp(c)
      PROVE  bev'[Far(d)] \in {"freed", "gone"}
  <2>1. CASE Accept(c)
    BY <1>1, <2>1 DEF Accept
  <2>2. CASE FarEnds(c) \/ GiveUp(c)
    BY <1>1, <2>2 DEF FarEnds, GiveUp
  <2> QED BY <1>5, <2>1, <2>2
<1>6. ASSUME NEW c \in Connection, bev[Far(c)] = "init", Adopt(c)
      PROVE  bev'[Far(d)] \in {"freed", "gone"}
  <2>1. Far(d) # Far(c)
    BY <1>1, <1>6
  <2>2. PICK e : e = ctx[To(c)][From(c)].sock
    OBVIOUS
  <2>3. bev' = [bev EXCEPT ![e] = "freed", ![Far(c)] = "open"]
    BY <1>6, <2>2 DEF Adopt
  <2> QED BY <1>1, <2>1, <2>3
<1>7. CASE UNCHANGED vars
  BY <1>1, <1>7 DEF vars
<1> QED BY <1>2, <1>3, <1>4, <1>5, <1>6, <1>7 DEF Next, Crash, ReceiveHello

\* A proactive context stays as it is as long as its server lives.
LEMMA ProactiveStays ==
  ASSUME LinkInv, [Next]_vars, NEW s \in Server, NEW p \in Server, s # p, up[s],
         Proactive(s, p)
  PROVE  ~up'[s] \/ ctx'[s][p] = ctx[s][p]
<1>1. /\ ctx \in [Server -> [Server -> Context]] /\ up \in [Server -> BOOLEAN]
      /\ ctx[s][p].proactive
  BY InvParts, FormsDiffer
<1>2. ASSUME NEW q \in Server, Start(q) PROVE ctx'[s][p] = ctx[s][p]
  <2>1. q # s
    BY <1>2 DEF Start
  <2> QED BY <1>1, <1>2, <2>1 DEF Start
<1>3. ASSUME NEW q \in Server, Dies(q) PROVE ~up'[s] \/ ctx'[s][p] = ctx[s][p]
  BY <1>1, <1>3 DEF Dies
<1>4. ASSUME NEW c \in Connection, Connected(c) PROVE ctx'[s][p] = ctx[s][p]
  <2>1. ctx' = [ctx EXCEPT ![From(c)][To(c)] = AfterConnect(@, c)]
    BY <1>4 DEF Connected
  <2>2. CASE From(c) = s /\ To(c) = p
    <3>1. Current(c)
      BY <1>4, InvParts DEF Connected, NearsKept
    <3>2. c = Own(s, p)
      BY <2>2, <3>1, CurrentIsOwn
    <3>3. AfterConnect(ctx[s][p], c) = ctx[s][p]
      BY <3>2, ConnectedContext DEF Proactive
    <3> QED BY <1>1, <2>1, <2>2, <3>3
  <2>3. CASE ~(From(c) = s /\ To(c) = p)
    BY <1>1, <2>1, <2>3, ConnectionParts
  <2> QED BY <2>2, <2>3
<1>5. ASSUME NEW c \in Connection, ~ctx[To(c)][From(c)].proactive, Adopt(c)
      PROVE  ctx'[s][p] = ctx[s][p]
  <2>1. ~(To(c) = s /\ From(c) = p)
    BY <1>1, <1>5
  <2>2. PICK q \in Server, r \in Server : q = To(c) /\ r = From(c)
    BY ConnectionParts
  <2>3. ctx' = [ctx EXCEPT ![q][r] = AfterAdopt(@, c)]
    BY <1>5, <2>2 DEF Adopt
  <2> QED BY <1>1, <2>1, <2>2, <2>3
<1>6. ASSUME NEW c \in Connection,
             Accept(c) \/ ConnectFails(c) \/ NearEnds(c) \/ FarEnds(c) \/ GiveUp(c)
      PROVE  ctx' = ctx
  BY <1>6 DEF Accept, ConnectFails, NearEnds, FarEnds, GiveUp
<1>7. CASE UNCHANGED vars
  BY <1>7 DEF vars
<1>8. ASSUME NEW c \in Connection, ReceiveHello(c)
      PROVE  ~up'[s] \/ ctx'[s][p] = ctx[s][p]
  <2>1. To(c) \in Server
    BY ConnectionParts
  <2> QED BY <1>3, <1>5, <1>6, <1>8, <2>1 DEF ReceiveHello, GivesUp
<1> QED BY <1>2, <1>3, <1>4, <1>6, <1>7, <1>8 DEF Next, Crash

\* A server whose own connection has lost its other end is not linked with
\* that peer again in this life: proactive_connected is never cleared.
THEOREM NobodyIsTakenBack == Spec => StrandedForEver
<1> DEFINE Stays == \A s, p \in Server :
       Stranded(s, p) => ~up'[s] \/ (Stranded(s, p)' /\ ~Linked(s, p)')
<1>1. ASSUME LinkInv, [Next]_vars PROVE Stays
  <2> SUFFICES ASSUME NEW s \in Server, NEW p \in Server, Stranded(s, p), up'[s]
               PROVE  Stranded(s, p)' /\ ~Linked(s, p)'
    OBVIOUS
  <2>1. s # p /\ up[s]
    <3>1. ctx[s][p] # NoContext
      BY FormsDiffer DEF Stranded
    <3> QED BY <1>1, <3>1, InvParts DEF ContextsFormed
  <2>2. Proactive(s, p)
    BY <1>1, <2>1, ContextFacts, FormsDiffer DEF Stranded
  <2>3. PICK d \in Connection : d = Own(s, p)
    BY <1>1, <2>1, ContextFacts
  <2>4. ctx[s][p].sock = Near(d) /\ ctx[s][p].trans = Near(d) /\ ctx[s][p].proactive
    BY <2>2, <2>3, FormsDiffer
  <2>5. Closed(Far(d))
    BY <2>4, EndsDiffer DEF Stranded
  <2>6. ctx'[s][p] = ctx[s][p]
    BY <1>1, <2>1, <2>2, ProactiveStays
  <2>7. bev'[Far(d)] \in {"freed", "gone"}
    BY <1>1, <2>5, ClosedStays DEF Closed
  <2>8. Stranded(s, p)'
    BY <2>4, <2>6, <2>7, EndsDiffer DEF Stranded, Closed
  <2>9. ~Linked(s, p)'
    <3> SUFFICES ASSUME NEW c \in Connection, Near(d) \in {Near(c), Far(c)},
                        bev'[Far(c)] = "open"
                 PROVE  FALSE
      BY <2>4, <2>6 DEF Linked
    <3>1. c = d
      BY EndsDiffer
    <3> QED BY <2>7, <3>1
  <2> QED BY <2>8, <2>9
<1> QED BY <1>1, LinksAreKept, PTL DEF Spec, StrandedForEver

=============================================================================
