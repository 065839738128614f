---------------------------- MODULE MCProposals ----------------------------
(* Constants of the TLC instances of Proposals.                            *)
EXTENDS Proposals

CONSTANTS drill, original, changed

\* Exercises are in exercises.yaml, other blocks in lesson.md.
MCFileOf == [k \in Keys |-> IF k = drill THEN 3 ELSE 2]

MCCanonical == [k \in Keys |-> original]

\* Answers never write what the author does.
MCAnswers == [Keys -> {original, changed}]

=============================================================================
