------------------------------ MODULE PeerLink ------------------------------
(***************************************************************************)
(* How the TCP servers link up (src/app/server.cpp).  Every server that    *)
(* starts listens and connects to every peer, once.  A server whose own    *)
(* connection comes up first is PROACTIVE towards that peer, says hello on *)
(* it (a GuidanceMessage) and uses it as its transport; a server that      *)
(* reads the peer's hello first is PASSIVE, frees its own connection and   *)
(* uses the accepted one.  A proactive server that reads a hello gives up  *)
(* the connection the hello came on.                                       *)
(*                                                                         *)
(* A connection <<s, p, n>> is the one that s in its n-th life opened to   *)
(* p.  It has two bufferevents, its ends: "near" in s, "far" in p.         *)
(*                                                                         *)
(* accept_peer is run as soon as the kernel has the connection: it only    *)
(* allocates the far end, and nothing else happens to that end before the  *)
(* hello is read.  Messages other than the hello change nothing here; they *)
(* are the subject of Morphling, over links that exist.                    *)
(***************************************************************************)
EXTENDS Naturals, FiniteSets

CONSTANTS Server,       \* the servers (m_peers)
          MaxCrashes    \* bound: how many processes may die; each server
                        \* lives at most once more than that

ASSUME PeerLinkAssumption ==
  /\ IsFiniteSet(Server) /\ Cardinality(Server) > 1
  /\ MaxCrashes \in Nat

VARIABLES
  up,      \* up[s]: s runs its event loop
  life,    \* life[s]: how often s was started
  bev,     \* bev[e]: what has become of the bufferevent e
  ctx,     \* ctx[s][p]: s's PeerContext of p, and its m_peer_trans[p]
  hello,   \* the connections with a hello that the far end has not read
  crashes  \* how many processes have died, but for those of ReceiveHello

vars == <<up, life, bev, ctx, hello, crashes>>

Pair == {sp \in Server \X Server : sp[1] # sp[2]}
Life == 1..MaxCrashes + 1
Connection == {<<sp[1], sp[2], n>> : sp \in Pair, n \in Life}
From(c) == c[1]
To(c)   == c[2]

Near(c) == <<c, "near">>
Far(c)  == <<c, "far">>
End     == Connection \X {"near", "far"}
EndsOf(s) == {Near(c) : c \in {d \in Connection : From(d) = s}}
               \cup {Far(c) : c \in {d \in Connection : To(d) = s}}
Opposite(e) == <<e[1], IF e[2] = "near" THEN "far" ELSE "near">>

(***************************************************************************)
(* An end is "none" before it is allocated, then "connecting" (near) or    *)
(* "init" (far, waiting for the hello), "open" when in use, "dead" if it   *)
(* is allocated but its connection failed, "freed" by bufferevent_free,    *)
(* "gone" with its process.                                                *)
(***************************************************************************)
EndState == {"none", "connecting", "init", "open", "dead", "freed", "gone"}
Closed(e) == bev[e] \in {"freed", "gone"}

NoBev   == << >>   \* nullptr
Context == [sock: End \cup {NoBev}, trans: End \cup {NoBev},
            proactive: BOOLEAN, passive: BOOLEAN]
NoContext == [sock |-> NoBev, trans |-> NoBev,
              proactive |-> FALSE, passive |-> FALSE]

\* init_peer_ctx: a fresh bufferevent for each peer, no transport yet
FreshContext(s, p, n) == [NoContext EXCEPT !.sock = Near(<<s, p, n>>)]

Init ==
  /\ up    = [s \in Server |-> FALSE]
  /\ life  = [s \in Server |-> 0]
  /\ bev   = [e \in End |-> "none"]
  /\ ctx   = [s \in Server |-> [p \in Server |-> NoContext]]
  /\ hello = {}
  /\ crashes = 0

---------------------------------------------------------------------------
(* Server::run: contexts, listeners, one connect to every peer             *)
Start(s) ==
  /\ ~up[s]
  /\ life[s] <= MaxCrashes
  /\ LET n == life[s] + 1 IN
       /\ life' = [life EXCEPT ![s] = n]
       /\ ctx'  = [ctx EXCEPT ![s] =
                     [p \in Server |-> IF p = s THEN NoContext
                                       ELSE FreshContext(s, p, n)]]
       /\ bev'  = [e \in End |-> IF \E p \in Server \ {s} : e = Near(<<s, p, n>>)
                                 THEN "connecting" ELSE bev[e]]
  /\ up' = [up EXCEPT ![s] = TRUE]
  /\ UNCHANGED <<hello, crashes>>

(* accept_peer *)
Accept(c) ==
  /\ up[To(c)]
  /\ bev[Near(c)] = "connecting"
  /\ bev[Far(c)] = "none"
  /\ bev' = [bev EXCEPT ![Far(c)] = "init"]
  /\ UNCHANGED <<up, life, ctx, hello, crashes>>

\* A slip for comparison: the flag is forgotten
AfterConnectUnmarked(mine, c) ==
  IF mine.passive THEN mine ELSE [mine EXCEPT !.trans = Near(c)]

\* the near end is connected; its owner says hello unless it is passive
AfterConnect(mine, c) ==
  IF mine.passive THEN mine
  ELSE [mine EXCEPT !.proactive = TRUE, !.trans = Near(c)]

(* connect_peer_event_cb with BEV_EVENT_CONNECTED *)
Connected(c) ==
  LET s == From(c)  p == To(c) IN
  /\ bev[Near(c)] = "connecting"
  /\ bev[Far(c)] # "none"
  /\ bev' = [bev EXCEPT ![Near(c)] = "open"]
  /\ ctx' = [ctx EXCEPT ![s][p] = AfterConnect(@, c)]
  /\ hello' = IF ctx[s][p].passive THEN hello ELSE hello \cup {c}
  /\ UNCHANGED <<up, life, crashes>>

(* connect_peer_event_cb with an error or the end of the stream: nothing   *)
(* is freed and nobody connects again                                      *)
ConnectFails(c) ==
  /\ bev[Near(c)] = "connecting"
  /\ IF bev[Far(c)] = "none" THEN ~up[To(c)] ELSE Closed(Far(c))
  /\ bev' = [bev EXCEPT ![Near(c)] = "dead"]
  /\ UNCHANGED <<up, life, ctx, hello, crashes>>

NearEnds(c) ==
  /\ bev[Near(c)] = "open"
  /\ Closed(Far(c))
  /\ bev' = [bev EXCEPT ![Near(c)] = "dead"]
  /\ UNCHANGED <<up, life, ctx, hello, crashes>>

(* event_cb on an accepted connection: the bufferevent is freed, whoever   *)
(* points to it; a hello not yet read is lost if the other process died    *)
FarEnds(c) ==
  /\ bev[Far(c)] \in {"init", "open"}
  /\ Closed(Near(c))
  /\ bev' = [bev EXCEPT ![Far(c)] = "freed"]
  /\ hello' = hello \ {c}
  /\ UNCHANGED <<up, life, ctx, crashes>>

\* Slips for comparison: the check is missing, of the wrong flag, or forgiving
NeverGivesUp(mine) == FALSE
GivesUpIfPassive(mine) == mine.passive
GivesUpIfAlive(mine) == mine.proactive /\ bev[mine.sock] # "dead"

\* whether recv_init_msg gives up the connection it reads a hello on
GivesUp(mine) == mine.proactive

GiveUp(c) ==
  /\ bev' = [bev EXCEPT ![Far(c)] = "freed"]
  /\ UNCHANGED <<up, life, ctx>>

\* the end of a process: its bufferevents and its memory are gone
Dies(s) ==
  /\ up' = [up EXCEPT ![s] = FALSE]
  /\ bev' = [e \in End |-> IF e \in EndsOf(s) /\ bev[e] # "none"
                           THEN "gone" ELSE bev[e]]
  /\ ctx' = [ctx EXCEPT ![s] = [p \in Server |-> NoContext]]
  /\ UNCHANGED life

\* the context after the hello of c was read and its far end adopted
AfterAdopt(mine, c) ==
  [mine EXCEPT !.passive = TRUE, !.sock = Far(c), !.trans = Far(c)]

Adopt(c) ==
  LET p == To(c)  s == From(c) IN
  /\ bev' = [bev EXCEPT ![ctx[p][s].sock] = "freed", ![Far(c)] = "open"]
  /\ ctx' = [ctx EXCEPT ![p][s] = AfterAdopt(@, c)]
  /\ UNCHANGED <<up, life>>

(* peer_init_msg_cb, recv_init_msg.  A socket_bev that event_cb has freed  *)
(* is freed again here: undefined, so that the process dies or goes on.    *)
ReceiveHello(c) ==
  LET p == To(c)  s == From(c) IN
  /\ c \in hello
  /\ bev[Far(c)] = "init"
  /\ IF GivesUp(ctx[p][s]) THEN GiveUp(c)
     ELSE \/ Adopt(c)
          \/ bev[ctx[p][s].sock] = "freed" /\ Dies(p)
  /\ hello' = hello \ {c}
  /\ UNCHANGED crashes

(* The process ends: by signal_cb, by an abort, or because bcast_msgs      *)
(* dereferences the transport of a peer that is not linked yet             *)
Crash(s) ==
  /\ up[s]
  /\ crashes < MaxCrashes
  /\ crashes' = crashes + 1
  /\ Dies(s)
  /\ UNCHANGED hello

Next ==
  \/ \E s \in Server : Start(s) \/ Crash(s)
  \/ \E c \in Connection :
       Accept(c) \/ Connected(c) \/ ConnectFails(c) \/ NearEnds(c)
         \/ FarEnds(c) \/ ReceiveHello(c)

Spec == Init /\ [][Next]_vars

(***************************************************************************)
(* Every server is started, and the event loop of a running server runs    *)
(* every callback whose event has happened.                                *)
(***************************************************************************)
Fairness ==
  /\ \A s \in Server : WF_vars(Start(s))
  /\ \A c \in Connection :
       WF_vars(Accept(c) \/ Connected(c) \/ ConnectFails(c) \/ NearEnds(c)
                 \/ FarEnds(c) \/ ReceiveHello(c))

LiveSpec == Spec /\ Fairness

---------------------------------------------------------------------------
\* Types
TypeOK ==
  /\ up \in [Server -> BOOLEAN]
  /\ life \in [Server -> 0..MaxCrashes + 1]
  /\ bev \in [End -> EndState]
  /\ ctx \in [Server -> [Server -> Context]]
  /\ \A s, p \in Server : s # p => (ctx[s][p].sock = NoBev <=> ~up[s])
  /\ hello \subseteq Connection
  /\ crashes \in 0..MaxCrashes

\* The bufferevents that a server would use for a peer: the timer of
\* periodic_peer writes to socket_bev, bcast_msgs to the transport.
InUse(s, p) == {ctx[s][p].sock, ctx[s][p].trans} \ {NoBev}

\* The life of the process that opened the connection of e is over
LifeIsOver(e) ==
  LET s == From(e[1]) IN ~up[s] \/ life[s] > e[1][3]

(***************************************************************************)
(* recv_init_msg frees one of two bufferevents and event_cb frees the one  *)
(* it is called for without clearing socket_bev or m_peer_trans.  A        *)
(* running server points to a freed bufferevent only where it had adopted  *)
(* a connection whose opener has died; in particular never if none dies.   *)
(***************************************************************************)
DanglingOnlyAfterCrash ==
  \A s, p \in Server : \A e \in InUse(s, p) :
    bev[e] = "freed" =>
      /\ ctx[s][p].passive
      /\ e[2] = "far"
      /\ LifeIsOver(e)

(***************************************************************************)
(* Two servers decide on their own which connection they use.  If a        *)
(* server has taken its peer's connection, the peer, as long as it lives   *)
(* on, uses the other end of the same connection and has taken none of     *)
(* this server's: they never use different connections, and they are never *)
(* both passive.  The types of all variables are part of it.               *)
(***************************************************************************)
AdoptedIsOffered ==
  /\ TypeOK
  /\ \A s, p \in Server :
       ctx[s][p].passive /\ ~LifeIsOver(ctx[s][p].sock) =>
         /\ ~ctx[s][p].proactive
         /\ ctx[p][s].proactive
         /\ ~ctx[p][s].passive
         /\ InUse(p, s) = {Opposite(ctx[s][p].sock)}

(***************************************************************************)
(* "peer %d has proactive connect, give up this connection": of the two    *)
(* connections between two servers one is superfluous.  It is given up     *)
(* because the other one is used, so the other one is not given up too.    *)
(***************************************************************************)
GivenUp(c) == bev[Far(c)] = "freed" /\ ctx[From(c)][To(c)].proactive
OneSurvives ==
  \A s, p \in Server : ~(\E m, n \in Life : /\ s # p
                                           /\ GivenUp(<<s, p, m>>)
                                           /\ GivenUp(<<p, s, n>>))

\* s and p use the two ends of one open connection
Linked(s, p) ==
  \E c \in Connection : /\ {From(c), To(c)} = {s, p}
                       /\ {ctx[s][p].trans, ctx[p][s].trans} = {Near(c), Far(c)}
                       /\ bev[Near(c)] = "open" /\ bev[Far(c)] = "open"

\* s uses its own connection to p, and the end in p is no more: p died, or
\* gave the connection up
Stranded(s, p) == ctx[s][p].proactive /\ Closed(Opposite(ctx[s][p].sock))

(***************************************************************************)
(* The flag proactive_connected is never cleared and connect_peer is       *)
(* called once.  So a server whose connection has lost its other end gives *)
(* up every connection that its peer opens in later lives: it is not       *)
(* linked with that peer again, however often the peer is restarted, until *)
(* it is restarted itself.                                                 *)
(***************************************************************************)
StrandedForEver ==
  [][\A s, p \in Server :
       Stranded(s, p) => ~up'[s] \/ (Stranded(s, p)' /\ ~Linked(s, p)')]_vars

\* each of s and p has given up the connection of the other
Crossed(s, p) ==
  /\ ctx[s][p].proactive /\ ctx[p][s].proactive
  /\ \A e \in InUse(s, p) \cup InUse(p, s) : bev[Opposite(e)] = "freed"

(***************************************************************************)
(* If no process dies: however the servers start and however their         *)
(* callbacks interleave, two servers end up linked for good, or they have  *)
(* given up both connections; there is no third way to stay apart, such as *)
(* a connection that fails because the peer starts later.                  *)
(***************************************************************************)
LinkedUnlessCrossed ==
  \A sp \in Pair :
    <>[](crashes > 0 \/ Linked(sp[1], sp[2]) \/ Crossed(sp[1], sp[2]))

=============================================================================
