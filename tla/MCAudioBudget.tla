--------------------------- MODULE MCAudioBudget ---------------------------
(***************************************************************************)
(* Instances of AudioBudget for TLC.                                       *)
(***************************************************************************)
EXTENDS AudioBudget, TLC

CONSTANTS p1, p2, p3, c1, c2

\* c2 is twice as long as c1.
Length(c) == IF c = c2 THEN 2 ELSE 1
MCCharacters == [S \in SUBSET Clips |-> MapThenSumSet(Length, S)]

Symmetry == Permutations(Plans)
=============================================================================
