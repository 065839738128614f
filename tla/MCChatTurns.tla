---------------------------- MODULE MCChatTurns ----------------------------
(***************************************************************************)
(* Instances of ChatTurns for TLC: jobs a1 and a2 may run turn t1, the     *)
(* second as a retry; job b may run turn t2.                               *)
(***************************************************************************)
EXTENDS ChatTurns, TLC

CONSTANTS a1, a2, b, t1, t2

MCKindOf == [j \in Jobs |-> "chat"]
MCTurnOf == [j \in Jobs |-> IF j = b THEN t2 ELSE t1]

Symmetry == Permutations(Workers)
=============================================================================
