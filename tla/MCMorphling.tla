---------------------------- MODULE MCMorphling ----------------------------
(***************************************************************************)
(* Morphling for TLC.  Key 0x5499 is the one app/client2.cpp uses; with    *)
(* 0x8099 there are two groups with different owners; 0x5499 and 0x4199    *)
(* (tests/basic_morphling_test.cpp) have key positions 84 and 65, two      *)
(* groups of replica 0.                                                    *)
(***************************************************************************)
EXTENDS Morphling, TLC

Plain(keys, n) == [keys |-> keys, epochs |-> {Epoch}, stray |-> FALSE,
                   writes |-> n, reads |-> 1, quits |-> 0]

OneKey == Plain({21657}, 3)
TwoOwners == Plain({21657, 32921}, 2)
SharedOwner == [Plain({21657, 16793}, 2) EXCEPT !.epochs = {1, 2}]
SharedOwnerQuitters ==
  [Plain({21657, 16793}, 2) EXCEPT !.reads = 0, !.quits = 1]
Quitters == [Plain({21657}, 2) EXCEPT !.quits = 1]
Strays == [Plain({21657}, 2) EXCEPT !.stray = TRUE, !.reads = 0]

\* The writers are interchangeable.
Symmetry == Permutations(Writer)

LiveUses == {Plain({21657}, 2), TwoOwners}

MCUses == {OneKey, TwoOwners, SharedOwner, SharedOwnerQuitters,
           Quitters, Strays}
=============================================================================
