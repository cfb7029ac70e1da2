---------------------------- MODULE MCAlgorithms ----------------------------
(***************************************************************************)
(* The small sequential parts of the repository side by side: a behaviour  *)
(* is one of a single part, which never changes.  The variables of the     *)
(* other parts hold None.                                                  *)
(***************************************************************************)
EXTENDS Naturals

CONSTANTS
  KeySpace, ClusterSize, SomePos, MaxSets,             \* guidance
  Replica, Sender, Receiver, Epochs, MaxLen,           \* append
  BlockSize, PtrSize, Requests, MaxBlocks,             \* arena
  RecvSize, ReplySizes, SendNums,                      \* client
  HeaderSize, PayloadSizes, MaxMessages,               \* framing
  Senders, LoopCount, MaxReports,                      \* echo
  None

\* The sizes are positive and bytes are bytes; nothing is asked of the bounds
\* but to be numbers.
ASSUME GuidanceSizes ==
  /\ ClusterSize \in Nat \ {0} /\ KeySpace \in ClusterSize..256
  /\ SomePos \subseteq 0..255 /\ MaxSets \in Nat
ASSUME AppendSizes == Receiver \in Replica /\ Epochs \subseteq Nat /\ MaxLen \in Nat
ASSUME ArenaSizes ==
  /\ BlockSize \in Nat /\ PtrSize \in Nat \ {0} /\ MaxBlocks \in Nat
  /\ Requests \subseteq Nat \ {0}  \* Allocate asserts that bytes > 0
ASSUME ClientSizes ==
  /\ RecvSize \in Nat \ {0} /\ ReplySizes \subseteq Nat \ {0} /\ SendNums \in Nat
ASSUME FramingSizes ==
  /\ HeaderSize \in Nat \ {0} /\ PayloadSizes \subseteq Nat /\ MaxMessages \in Nat
ASSUME EchoSizes == LoopCount \in Nat /\ MaxReports \in Nat

VARIABLES
  part,
  cluster, ref, sets,
  sender, before, after, msg,
  blocks, alloc, remaining, usage, given,
  size, pc, loop, owed, written, read, link, cut,
  payloads, framed, arrived, handled, arrivals, spinning,
  type, sent, queue, n, strays, client, recv, send, reported, reports

G == INSTANCE MCGuidance
L == INSTANCE MCAppendEntries
A == INSTANCE Arena
B == INSTANCE BlockingClient
F == INSTANCE Framing
E == INSTANCE EchoBench

gVars == <<cluster, ref, sets>>
lVars == <<sender, before, after, msg>>
aVars == <<blocks, alloc, remaining, usage, given>>
bVars == <<size, pc, loop, owed, written, read, link, cut>>
fVars == <<payloads, framed, arrived, handled, arrivals, spinning>>
eVars == <<type, sent, queue, n, strays, client, recv, send, reported, reports>>
vars == <<part, gVars, lVars, aVars, bVars, fVars, eVars>>

NoG == cluster = None /\ ref = None /\ sets = None
NoL == sender = None /\ before = None /\ after = None /\ msg = None
NoA == /\ blocks = None /\ alloc = None /\ remaining = None
       /\ usage = None /\ given = None
NoB == /\ size = None /\ pc = None /\ loop = None /\ owed = None
       /\ written = None /\ read = None /\ link = None /\ cut = None
NoF == /\ payloads = None /\ framed = None /\ arrived = None
       /\ handled = None /\ arrivals = None /\ spinning = None
NoE == /\ type = None /\ sent = None /\ queue = None /\ n = None
       /\ strays = None /\ client = None /\ recv = None /\ send = None
       /\ reported = None /\ reports = None

Init ==
  \/ part = "guidance" /\ G!Init /\ NoL /\ NoA /\ NoB /\ NoF /\ NoE
  \/ part = "append"   /\ NoG /\ L!Init /\ NoA /\ NoB /\ NoF /\ NoE
  \/ part = "arena"    /\ NoG /\ NoL /\ A!Init /\ NoB /\ NoF /\ NoE
  \/ part = "client"   /\ NoG /\ NoL /\ NoA /\ B!Init /\ NoF /\ NoE
  \/ part = "framing"  /\ NoG /\ NoL /\ NoA /\ NoB /\ F!Init /\ NoE
  \/ part = "echo"     /\ NoG /\ NoL /\ NoA /\ NoB /\ NoF /\ E!Init

Next ==
  \/ /\ part = "guidance" /\ G!Next
     /\ UNCHANGED <<part, lVars, aVars, bVars, fVars, eVars>>
  \/ /\ part = "append" /\ L!Handle
     /\ UNCHANGED <<part, gVars, aVars, bVars, fVars, eVars>>
  \/ /\ part = "arena" /\ A!Next
     /\ UNCHANGED <<part, gVars, lVars, bVars, fVars, eVars>>
  \/ /\ part = "client" /\ B!Next
     /\ UNCHANGED <<part, gVars, lVars, aVars, fVars, eVars>>
  \/ /\ part = "framing" /\ F!Next
     /\ UNCHANGED <<part, gVars, lVars, aVars, bVars, eVars>>
  \/ /\ part = "echo" /\ E!Next
     /\ UNCHANGED <<part, gVars, lVars, aVars, bVars, fVars>>

Spec == Init /\ [][Next]_vars

-----------------------------------------------------------------------------
(* What is right about each part; the modules of the parts explain it. *)

\* No setter of NodeStatus disturbs what another one set, pos_is_in accepts the
\* positions of the range, around 255 as well, and as long as no range has
\* been moved each of the 256 positions has one owner, whom map_node_id names
\* if and only if it is alive (core/guidance.h).
GuidanceRight ==
  part = "guidance" => G!WordsMeanRanges /\ G!OneOwner

\* Whatever log a change of epoch left behind, handle_append_entries either
\* leaves the sender's log up to the entry sent, or it refuses without effect
\* a message for an entry whose predecessor the receiver lacks.
AppendEntriesRight ==
  part = "append" => L!AcceptedIsSenders /\ L!RefusedOnlyOnGap

\* The arena hands out each byte once, inside its block and aligned, wastes
\* less than a quarter of a block and the alignment, and its memory_usage_
\* is what its blocks take.
ArenaRight ==
  part = "arena" => A!PiecesApart /\ A!WasteIsBounded /\ A!UsageCounts

\* app/client.cpp takes one recv for one answer: it is in step with the server
\* unless an answer was cut or refused, and never ahead of it.
ClientInStep ==
  part = "client" => B!AnsweredInStep /\ B!AheadIsBounded

\* One arrival is good for one message, and full_read holds a server up for
\* ever only inside the message it had to read next.
FramingRight ==
  part = "framing" => F!HeldUpInsideMessage /\ F!OneForEachArrival

\* No gauge of the echo server reads beyond its lists, each latency is printed
\* once, and it is wrong by as many datagrams as have been drained before.
GaugesRight ==
  part = "echo" => E!ReadsWithinLists /\ E!LagIsStrays /\ E!ReportedOnce
=============================================================================
