---------------------------- MODULE MCClientTurn ----------------------------
(* ClientTurn for TLC: ways to start the client program.                   *)
EXTENDS ClientTurn, TLC

CONSTANTS c1, c2, t1, t2

OneThread  == t1 :> <<c1, c2>> @@ t2 :> << >>
TwoThreads == t1 :> <<c1>> @@ t2 :> <<c2>>

MCCommandLines ==
  [mode: {"write", "read", "ur"}, group: {OneThread}, nums: {3}]
    \cup [mode: {"write"}, group: {TwoThreads}, nums: {3}]
=============================================================================
