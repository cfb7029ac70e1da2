----------------------------- MODULE EchoBench -----------------------------
(***************************************************************************)
(* The echo benchmark (src/extra/echo_server.cpp) and the senders that     *)
(* load it (src/extra/loop_client.cpp), seen through the server's gauges.  *)
(* A sender sends one buffer of uninitialised bytes again and again: what  *)
(* the server takes for the type in it is a client message by accident or  *)
(* no type that is registered.  Senders do not read; the answers to them   *)
(* are left out.                                                           *)
(*                                                                         *)
(* Datagrams are numbered in the order in which the server handles them,   *)
(* and a probe holds the number of the datagram it was set for.            *)
(***************************************************************************)
EXTENDS Gauge, SequencesExt, FiniteSetsExt

CONSTANTS
  Senders,   \* processes that run loop_client
  LoopCount, \* cfg_loop_count
  MaxReports \* bound on the reports

VARIABLES
  type,     \* type[c]: what the bytes of sender c's buffer say, never changed
  sent,     \* sent[c]: datagrams of sender c
  queue,    \* types of the datagrams in the server's socket buffer
  n,        \* datagrams handled
  strays,   \* the numbers of those of no registered type; a history value
  client,   \* g_client_handler_gauge
  recv,     \* g_recv_gauge
  send,     \* g_send_gauge
  reported, \* the points all reports have printed for the client gauge
  reports   \* reports so far

gauges == <<client, recv, send>>
vars == <<type, sent, queue, n, strays, gauges, reported, reports>>

Init ==
  /\ type \in [Senders -> {"Client", "unregistered"}]
  /\ sent = [c \in Senders |-> 0]
  /\ queue = << >>
  /\ n = 0 /\ strays = {}
  /\ client = SetDisable(NewGauge, FALSE)
  /\ recv = NewGauge /\ send = NewGauge
  /\ reported = << >> /\ reports = 0

SendLoop(c) ==
  /\ sent[c] < LoopCount
  /\ sent' = [sent EXCEPT ![c] = @ + 1]
  /\ queue' = Append(queue, type[c])
  /\ UNCHANGED <<type, n, strays, gauges, reported, reports>>

\* A full buffer drops a datagram.
Dropped(c) ==
  /\ sent[c] < LoopCount
  /\ sent' = [sent EXCEPT ![c] = @ + 1]
  /\ UNCHANGED <<type, queue, n, strays, gauges, reported, reports>>

\* handle_msg up to the look at the type: two gauges are started and one of
\* them is ended.
Number == n + 1
Started(g) == SetProbe1(g, Number)
Ended(g)   == SetProbe2(g, Number)
Peek ==
  /\ queue # << >>
  /\ queue' = Tail(queue) /\ n' = Number
  /\ recv' = Ended(Started(recv))

\* recv_msg starts the third gauge, on_client_msg ends it.
RecvMsg == Started(send)
HandleClient ==
  /\ Peek /\ Head(queue) = "Client"
  /\ client' = Ended(Started(client))
  /\ send' = Ended(RecvMsg)
  /\ UNCHANGED <<type, sent, strays, reported, reports>>

\* A datagram without a callback for its type is drained; the client gauge
\* stays started (variant: it is not started before the type is known).
HandleUnregisteredUnstarted ==
  /\ Peek /\ Head(queue) # "Client"
  /\ strays' = strays \cup {Number}
  /\ UNCHANGED <<type, sent, client, send, reported, reports>>
HandleUnregistered ==
  /\ Peek /\ Head(queue) # "Client"
  /\ strays' = strays \cup {Number}
  /\ client' = Started(client)
  /\ UNCHANGED <<type, sent, send, reported, reports>>

\* The timer of init_base_service, once a second: average_time_us, as this
\* program has it, of each gauge
Reported(g) == AverageTime(g)
Report ==
  /\ reports < MaxReports
  /\ reports' = reports + 1
  /\ reported' = reported \o AveragePoints(client)
  /\ client' = Reported(client)
  /\ recv' = Reported(recv)
  /\ send' = Reported(send)
  /\ UNCHANGED <<type, sent, queue, n, strays>>

Next ==
  \/ \E c \in Senders : SendLoop(c) \/ Dropped(c)
  \/ HandleClient \/ HandleUnregistered \/ Report

Spec == Init /\ [][Next]_vars

-----------------------------------------------------------------------------

\* average_time_us and instant_time_us(idx), which on_client_msg calls with the
\* index set_probe2 returned, read the first list at the indices of the second
\* one without looking at its length: no list of ends is ever longer than the
\* list of beginnings, and every interval printed is there.
ReadsWithinLists ==
  \A g \in {client, recv, send} :
    /\ AverageTimeReads(g) /\ g.last <= Len(g.probe2)
    /\ g.probe2 # << >> => InstantTimeReads(g, Len(g.probe2))

\* The latency printed for an answer is measured from a datagram that came as
\* many datagrams before it as strays had been handled by then: it is wrong
\* for ever after one stray, and right without.  The methods that compare the
\* lengths of the lists would print nothing any more, and the throughput of
\* total_time_ms, from the first datagram to the last answer, is right still.
LagIsStrays ==
  /\ \A i \in DOMAIN client.probe2 :
       LET p == InstantTimeAt(client, i) IN
       p[2] - p[1] = Cardinality({s \in strays : s < p[2]})
  /\ strays # {} /\ client.probe2 # << >> =>
       IndexTime(client) = << >> /\ InstantTime(client) = << >>
  /\ TotalTime(client) # << >> => TotalTime(client) = <<1, Max(1..n \ strays)>>

\* The reports print every answered datagram once, in order, none before it
\* was answered; the other gauges stay paired whatever comes.
ReportedOnce ==
  /\ [i \in DOMAIN reported |-> reported[i][2]]
       = SubSeq(client.probe2, 1, client.last)
  /\ \A g \in {recv, send} : \A i \in DOMAIN g.probe2 :
       g.probe1[i] = g.probe2[i]
=============================================================================
