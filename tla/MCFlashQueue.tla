---------------------------- MODULE MCFlashQueue ----------------------------
(***************************************************************************)
(* FlashQueue on small instances.                                          *)
(***************************************************************************)
EXTENDS FlashQueue, TLC

CONSTANTS h1, h2, u1, u2

MCHandlers == {h1, h2}
MCArtifacts == {u1, u2}
\* Two of the flasher's percentages, reported in decreasing order.
MCMarks == {88, 90}
Symmetry == Permutations(MCHandlers) \cup Permutations(MCArtifacts)
=============================================================================
