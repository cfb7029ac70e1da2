--------------------------- MODULE BlockingClient ---------------------------
(***************************************************************************)
(* The client that waits for each answer (src/app/client.cpp), and the     *)
(* byte stream of its connection.  One recv of at most 1024 bytes is taken *)
(* for the answer; nothing checks how much of it has come, that anything   *)
(* has, or which operation it answers.                                     *)
(***************************************************************************)
EXTENDS Naturals, FiniteSetsExt

CONSTANTS
  RecvSize,   \* bytes one recv can take: 1024 in the code
  ReplySizes, \* bytes of an answer; a read's holds the whole value
  SendNums    \* cfg_send_nums

VARIABLES
  size,    \* bytes of every answer of this connection, never changed
  pc,      \* "connect", "send", "recv", or how the program ended: "failed",
           \* "done" or "killed" (by SIGPIPE)
  loop,    \* rounds of send_loop begun
  owed,    \* operations the server has not answered
  written, \* bytes the server has written
  read,    \* bytes the client has read
  link,    \* "up", "closed" by the server, or "reset" after that
  cut      \* whether a recv ended inside an answer; a history value

vars == <<size, pc, loop, owed, written, read, link, cut>>

Init ==
  /\ size \in ReplySizes
  /\ pc = "connect" /\ loop = 0
  /\ owed = 0 /\ written = 0 /\ read = 0
  /\ link = "up" /\ cut = FALSE

\* run, up to the loop
Connect ==
  /\ pc = "connect"
  /\ pc' \in {"failed", IF SendNums = 0 THEN "done" ELSE "send"}
  /\ UNCHANGED <<size, loop, owed, written, read, link, cut>>

\* send: the first one after the server has closed still succeeds.
SendOperation ==
  /\ pc = "send" /\ link # "reset"
  /\ loop' = loop + 1
  /\ owed' = IF link = "up" THEN owed + 1 ELSE owed
  /\ pc' = "recv"
  /\ UNCHANGED <<size, written, read, link, cut>>

\* SIGPIPE is not ignored here.
Killed ==
  /\ pc = "send" /\ link = "reset"
  /\ pc' = "killed"
  /\ UNCHANGED <<size, loop, owed, written, read, link, cut>>

\* What one recv may return: any part of the stream that has arrived, and
\* nothing only at its end (variant: a socket that does not block).
TakenNoWait == 0..Min({RecvSize, written - read})
Taken ==
  CASE written # read -> 1..Min({RecvSize, written - read})
    [] written = read /\ link # "up" -> {0}
    [] OTHER -> {}

Recv ==
  /\ pc = "recv"
  /\ \E n \in Taken :
       /\ read' = read + n
       /\ cut' = (cut \/ read' % size # 0)
  /\ pc' = IF loop < SendNums THEN "send" ELSE "done"
  /\ UNCHANGED <<size, loop, owed, written, link>>

\* The server answers in turn.
Answer ==
  /\ link = "up" /\ owed > 0
  /\ owed' = owed - 1 /\ written' = written + size
  /\ UNCHANGED <<size, pc, loop, read, link, cut>>

Close ==
  /\ link = "up" /\ pc \in {"send", "recv"}
  /\ link' = "closed" /\ owed' = 0
  /\ UNCHANGED <<size, pc, loop, written, read, cut>>

\* The server's host refuses what was sent after that.
Reset ==
  /\ link = "closed" /\ pc \in {"send", "recv"} /\ loop > 0
  /\ link' = "reset"
  /\ UNCHANGED <<size, pc, loop, owed, written, read, cut>>

Next ==
  Connect \/ SendOperation \/ Killed \/ Recv \/ Answer \/ Close \/ Reset

Spec == Init /\ [][Next]_vars

-----------------------------------------------------------------------------

\* The latencies and the throughput the client prints are those of answered
\* operations as long as the server stays and each recv ends with an answer:
\* then nothing is owed or unread when the next operation is sent or the
\* client ends.  A value that does not fit into one recv cuts every answer.
AnsweredInStep ==
  pc \in {"send", "done"} /\ ~cut /\ link = "up" =>
    owed = 0 /\ written = read /\ read = loop * size

\* Even with answers cut the client is never ahead of the stream: every
\* operation but the last has an answer of which at least a byte was written,
\* so at most (size - 1) / size of all operations are unanswered at its end.
AheadIsBounded ==
  link = "up" /\ pc \in {"send", "done"} => read >= loop
=============================================================================
