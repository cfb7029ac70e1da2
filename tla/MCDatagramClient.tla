-------------------------- MODULE MCDatagramClient --------------------------
(* DatagramClient for TLC: ways to start the client program.               *)
EXTENDS DatagramClient

\* Two clients in one thread, one client in each of two threads, and more
\* clients to a thread than there are clients.
MCCommandLines ==
  [mode: {"write", "ur"}, total: {2}, grouping: {2}, nums: {3}]
    \cup [mode: {"read"}, total: {2}, grouping: {2}, nums: {2}]
    \cup [mode: {"write"}, total: {2}, grouping: {1}, nums: {3}]
    \cup [mode: {"write"}, total: {1}, grouping: {2}, nums: {2}]
=============================================================================
