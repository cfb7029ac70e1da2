--------------------------- MODULE MCAppendEntries ---------------------------
(***************************************************************************)
(* handle_append_entries against a reference definition, for logs that     *)
(* hold entries of several epochs.  The servers never leave epoch 1, so    *)
(* the truncating branch of the handler is not reached in SMR; this module *)
(* enumerates the pairs of a sender's and a receiver's log that a change   *)
(* of epoch could leave behind, and every message the sender could build.  *)
(* As in the code, a message carries exactly one entry.                    *)
(***************************************************************************)
EXTENDS SMRHandlers

CONSTANTS Epochs, MaxLen, Sender, Receiver

VARIABLES sender, before, after, msg

vars == <<sender, before, after, msg>>

\* A log whose epochs do not fall; the epoch and the index decide the data.
LogOf(es) == [i \in DOMAIN es |-> [epoch |-> es[i], index |-> i,
                                   data |-> <<es[i], i>>]]
Logs == UNION {{LogOf(es) : es \in {f \in [1..n -> Epochs] :
                  \A i, j \in 1..n : i <= j => f[i] <= f[j]}} : n \in 0..MaxLen}

\* Logs that agree on an epoch at an index agree up to that index.
Matching(log1, log2) ==
  \A i \in DOMAIN log1 \cap DOMAIN log2 :
    log1[i].epoch = log2[i].epoch => \A j \in 1..i : log1[j] = log2[j]

\* The message the sender builds for index i, when it has committed to c
MessageFor(log, i, c) ==
  AppendMessage([log |-> SubSeq(log, 1, i), commit |-> c, votes |-> NoVotes,
                 prs |-> [p \in Replica |-> [match |-> 0, next |-> i]]],
                Sender, Receiver)

Init ==
  /\ sender \in Logs /\ before \in Logs
  /\ Matching(sender, before)
  /\ \E i \in DOMAIN sender, c \in 0..MaxLen :
       c < i /\ msg = MessageFor(sender, i, c)
  /\ after = [log |-> before, commit |-> 0, reply |-> [success |-> FALSE]]

Handle ==
  LET h == HandleAppendEntries([InitSMR EXCEPT !.log = before], Receiver, msg)
  IN /\ after' = [log |-> h.smr.log, commit |-> h.smr.commit,
                  reply |-> CHOOSE m \in h.out : TRUE]
     /\ UNCHANGED <<sender, before, msg>>

Spec == Init /\ [][Handle]_vars

Index == msg.prev_index + 1

\* A message that was accepted leaves the sender's log up to and including the
\* entry it carried, whatever the receiver held before; a conflicting tail is
\* gone, and a tail that does not conflict survives.
AcceptedIsSenders ==
  after.reply.success =>
    /\ Len(after.log) >= Index
    /\ \A i \in 1..Index : after.log[i] = sender[i]
    /\ (Len(before) >= Index /\ before[Index] = sender[Index])
         => after.log = before
    /\ after.commit <= Len(after.log)

\* A message is refused only if the receiver lacks the entry before the one it
\* carries, and a refusal changes nothing.
RefusedOnlyOnGap ==
  after.reply # [success |-> FALSE] /\ ~after.reply.success =>
    /\ after.log = before /\ after.commit = 0
    /\ msg.prev_index > 0
    /\ \/ Len(before) < msg.prev_index
       \/ before[msg.prev_index] # sender[msg.prev_index]
=============================================================================
