------------------------------ MODULE Framing ------------------------------
(***************************************************************************)
(* Messages on a TCP connection as a server reads them (recv_msg and       *)
(* full_read, src/app/utils.cpp, called by client_msg_cb and               *)
(* peer_general_msg_cb, src/app/server.cpp).  The read callback runs once  *)
(* for each arrival of bytes and handles one message; full_read does not   *)
(* return before the message is complete, while no more bytes can arrive   *)
(* since the event loop is what it holds up.                               *)
(***************************************************************************)
EXTENDS Naturals, Sequences, FiniteSetsExt

CONSTANTS
  HeaderSize,   \* rpc_header_size, 4 in the code
  PayloadSizes, \* payloads of messages
  MaxMessages   \* bound on the messages of the connection

VARIABLES
  payloads, \* the payload sizes of the messages to be sent, never changed
  framed,   \* messages written by the other end
  arrived,  \* bytes that have arrived
  handled,  \* messages handled, the first ones
  arrivals, \* arrivals so far; a history value
  spinning  \* whether full_read waits for bytes that cannot come

vars == <<payloads, framed, arrived, handled, arrivals, spinning>>

Init ==
  /\ payloads \in UNION {[1..n -> PayloadSizes] : n \in 1..MaxMessages}
  /\ framed = 0 /\ arrived = 0 /\ handled = 0 /\ arrivals = 0
  /\ spinning = FALSE

\* The bytes of the first n messages
Bytes(n) ==
  Cardinality(UNION {{i} \X (1..HeaderSize + payloads[i]) : i \in 1..n})

\* __send: the header and the payload are two writes to one buffer.
Send ==
  /\ framed < Len(payloads)
  /\ framed' = framed + 1
  /\ UNCHANGED <<payloads, arrived, handled, arrivals, spinning>>

\* recv_msg has what full_read asks for for the message after the
\* first n (variant: it asks for the header alone).
CompleteHeader(bytes, n) == bytes >= Bytes(n) + HeaderSize
Complete(bytes, n) == bytes >= Bytes(n + 1)

\* The bytes of any number of messages arrive together or a message in parts.
Arrive(bytes) ==
  /\ ~spinning /\ bytes \in (arrived + 1)..Bytes(framed)
  /\ arrived' = bytes
  /\ arrivals' = arrivals + 1
  /\ handled' = IF Complete(bytes, handled) THEN handled + 1 ELSE handled
  /\ spinning' = ~Complete(bytes, handled)
  /\ UNCHANGED <<payloads, framed>>

Next == Send \/ \E bytes \in 1..Bytes(framed) : Arrive(bytes)

Spec == Init /\ [][Next]_vars

-----------------------------------------------------------------------------

\* The messages that have arrived as a whole
Whole == Max({n \in 0..framed : Bytes(n) <= arrived})

\* No message is handled before all of it is there, and a server is held up
\* for ever only inside the message it had to read next: it had handled every
\* message before it, and an arrival ended in that one.
HeldUpInsideMessage ==
  /\ handled <= Whole
  /\ spinning => handled = Whole /\ arrived > Bytes(Whole)

\* Every arrival that does not hold the server up handles one message, however
\* many it brings: the others wait until something else arrives.
OneForEachArrival == handled = IF spinning THEN arrivals - 1 ELSE arrivals
=============================================================================
