---------------------------- MODULE MCChatCases ----------------------------
(***************************************************************************)
(* Two instances of ChatTurns in one run.  In the story "thread" two turns *)
(* of the thread run, and nothing is retried or restarted; in the story    *)
(* "retry" one turn does, is retried once and lives through one restart.   *)
(***************************************************************************)
EXTENDS MCChatTurns

VARIABLE story

StoryInit == Init /\ story \in {"thread", "retry"}

StoryNext ==
  /\ Next
  /\ story' = story
  /\ \/ /\ story = "thread"
        /\ status'[a2] = "none" /\ retries' = 0 /\ restarts' = 0
     \/ /\ story = "retry"
        /\ status'[b] = "none"

StorySpec == StoryInit /\ [][StoryNext]_<<vars, story>>
=============================================================================
