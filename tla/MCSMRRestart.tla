----------------------------- MODULE MCSMRRestart -----------------------------
(* Model of SMRRestart for TLC. *)
EXTENDS SMRRestart, TLC

\* Followers are interchangeable, and so are the operations.
Symmetry == Permutations(Follower) \cup Permutations(Data)
=============================================================================
