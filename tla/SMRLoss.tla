------------------------------- MODULE SMRLoss -------------------------------
(***************************************************************************)
(* One replication group over datagrams that arrive at most once: a        *)
(* datagram under way is handled or lost, in any order (app/server2.cpp).  *)
(* SMR has the weaker network in which messages stay for ever; here a      *)
(* message that is gone is gone, which shows what becomes of a group that  *)
(* sends nothing twice: a follower that missed an entry is cut off.        *)
(*                                                                         *)
(* The messages under way are a set: an append message is sent once for    *)
(* each receiver and index, and refusals that coincide change nothing.     *)
(***************************************************************************)
EXTENDS SMR

CONSTANT MaxLost  \* bound on the messages the network loses

ASSUME LossAssumption == MaxLost \in Nat

\* msgs, every message sent so far, is a history variable here.
VARIABLES
  net,  \* the messages under way
  lost  \* history: the messages lost so far

lossVars == <<vars, net, lost>>

InitL == Init /\ net = {} /\ lost = {}

\* UDPTransport::send: each message in out becomes a datagram of its own, once,
\* beside those that were sent before; those in read have been read.
Sendto(read, out) == net' = (net \ read) \cup out

\* The effect of a handler call on replica r, for the datagrams in read
StepL(r, h, read) ==
  IF h.abort
    THEN /\ aborted' = aborted \cup {r}
         /\ Sendto(read, {})
         /\ UNCHANGED <<smr, applied, msgs>>
    ELSE /\ smr' = [smr EXCEPT ![r] = h.smr]
         /\ Sendto(read, h.out)
         /\ msgs' = msgs \cup h.out
         /\ applied' = [applied EXCEPT ![r] = @ \o h.apply]
         /\ UNCHANGED aborted

ClientOperationL(op) ==
  /\ Owner \notin aborted
  /\ Len(smr[Owner].log) < MaxOps
  /\ StepL(Owner, HandleOperation(smr[Owner], Owner, op, Epoch), {})
  /\ UNCHANGED lost

RecvAppendEntriesL(m) ==
  /\ m.type = "append"
  /\ m.to \notin aborted
  /\ StepL(m.to, HandleAppendEntries(smr[m.to], m.to, m), {m})
  /\ UNCHANGED lost

RecvAppendEntriesReplyL(m) ==
  /\ m.type = "append_reply"
  /\ m.to \notin aborted
  /\ StepL(m.to, HandleAppendEntriesReply(smr[m.to], m.to, m), {m})
  /\ UNCHANGED lost

\* The network loses a datagram; nobody is told.
Lose(m) ==
  /\ Cardinality(lost) < MaxLost
  /\ net' = net \ {m}
  /\ lost' = lost \cup {m}
  /\ UNCHANGED vars

Receive == \E m \in net : RecvAppendEntriesL(m) \/ RecvAppendEntriesReplyL(m)

NextL ==
  \/ \E op \in Data : ClientOperationL(op)
  \/ \E m \in net : RecvAppendEntriesL(m)
  \/ \E m \in net : RecvAppendEntriesReplyL(m)
  \/ \E m \in net : Lose(m)

SpecL == InitL /\ [][NextL]_lossVars

\* The servers go on reading their sockets while there is something to read;
\* the operations are finitely many, so this brings in every datagram that is
\* not lost.
FairSpecL == SpecL /\ WF_lossVars(Receive)

-----------------------------------------------------------------------------

\* The messages under way that would extend the log of f
Extending(f) ==
  {m \in net : m.type = "append" /\ m.to = f /\ m.prev_index = Len(smr[f].log)}

\* A follower that lacks entries of which none is on its way
CutOff(f) == Len(smr[f].log) < Len(smr[Owner].log) /\ Extending(f) = {}

\* handle_operation points prs[f].next at the newest entry, and a refusal is
\* ignored ("tbd"): a follower that is cut off, for whatever was lost or came
\* too early, never gets another entry.
CutOffForEver ==
  [][\A f \in Follower : CutOff(f) => smr'[f].log = smr[f].log /\ CutOff(f)']_lossVars

\* The followers whose votes the owner gets, for every entry
Healthy ==
  {f \in Follower : ~CutOff(f) /\ ~\E m \in lost : m.from = f}

\* Losses and overtaking are tolerated as long as a majority, the owner
\* included, is spared: then everything is committed and applied in the end.
\* One more follower cut off stops the group for ever.
SparedMajorityCommits ==
  <>[](\/ Cardinality(Healthy) + 1 < Quorum
       \/ /\ smr[Owner].commit = Len(smr[Owner].log)
          /\ applied[Owner] = smr[Owner].log)

\* The followers that are cut off before index i
CutOffBefore(i) == {f \in Follower : CutOff(f) /\ Len(smr[f].log) < i}

\* Nobody is cut off without cause: the append message of the first entry the
\* follower lacks was lost, or it was refused, as it overtook an earlier one.
\* Where too many followers are cut off, nothing is committed any more.
CutOffHasCause ==
  /\ \A f \in Follower :
       CutOff(f) =>
         \E m \in msgs \ net :
           /\ m.type = "append" /\ m.to = f
           /\ m.prev_index = Len(smr[f].log)
           /\ \/ m \in lost
              \/ \E n \in msgs : /\ n.type = "append_reply" /\ n.from = f
                                 /\ ~n.success /\ n.index < m.prev_index
  /\ \A i \in 1..MaxOps :
       Cardinality(CutOffBefore(i)) > Cardinality(Replica) - Quorum =>
         smr[Owner].commit < i
=============================================================================
