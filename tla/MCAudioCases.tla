---------------------------- MODULE MCAudioCases ----------------------------
(***************************************************************************)
(* Two instances of AudioBudget in one run.  In the story "pair" two plans *)
(* compete for the cap of two months with one crash; in the story "faults" *)
(* one plan lives through two crashes and two failing writes, three        *)
(* months, cap changes and every finding of a fresh recording.             *)
(***************************************************************************)
EXTENDS MCAudioBudget

VARIABLE story

StoryInit ==
  /\ Init
  /\ story \in {"pair", "faults"}
  /\ story = "pair" => cap = 4

StoryStep ==
  /\ story' = story
  /\ story = "pair" =>
       /\ now' <= 1 /\ cap' = 4 /\ crashes' <= 1 /\ faults' = 0
       /\ \A c \in Clips : cache'[c] # "flawed"
  /\ story = "faults" => plan'[p2].status = "none"

StoryNext == Next /\ StoryStep

StorySpec ==
  /\ StoryInit /\ [][StoryNext]_<<vars, story>>
  /\ \A p \in Plans : WF_vars(Work(p)) /\ WF_vars(Recover(p))
=============================================================================
