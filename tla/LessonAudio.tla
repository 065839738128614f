---------------------------- MODULE LessonAudio ----------------------------
(***************************************************************************)
(* The recordings of a draft (workbench_audio.py without its budget, which *)
(* is AudioBudget's): the clips a lesson shows, the plans that select      *)
(* them, the jobs that synthesize and check them, the index of checks the  *)
(* jobs merge into, and the provider client (clients/tts/google.py).       *)
(* A fingerprint stands for a text in a voice; the cache is shared with    *)
(* the other lessons.                                                      *)
(***************************************************************************)
EXTENDS Naturals

CONSTANTS
  LaBindings,    \* the spoken places of the lesson
  LaPrints,      \* fingerprints
  LaStart,       \* [LaBindings -> LaPrints] at the start
  LaJobs,
  LaAttempts,    \* K_GOOGLE_TTS_MAX_ATTEMPTS
  LaMaxEdits,    \* bound: edits and writes of other lessons
  LaNone

VARIABLES
  laText,        \* fingerprint of each binding
  laCache,       \* the recording of each fingerprint
  laIndex,       \* the stored check of each binding
  laJob,         \* plan record and job, see Idle
  laEdits

laVars == <<laText, laCache, laIndex, laJob, laEdits>>

Finds == {"fine", "flawed", "invalid"}
Check(print, found) == [print |-> print, found |-> found]
Checks == [print : LaPrints, found : Finds]

\* What there is not is no binding, no fingerprint and no check.
ASSUME LessonAudioAssumption ==
  /\ LaStart \in [LaBindings -> LaPrints]
  /\ LaAttempts \in Nat /\ LaMaxEdits \in Nat
  /\ LaNone \notin LaBindings /\ LaNone \notin LaPrints /\ LaNone \notin Checks

LaIdle ==
  [pc |-> "idle", clips |-> {}, text |-> LaStart, force |-> {}, index |-> [b \in LaBindings |-> LaNone],
   todo |-> {}, at |-> LaNone, wrote |-> {}, errors |-> FALSE,
   attempt |-> 0, token |-> FALSE, renewed |-> FALSE, alone |-> FALSE]

LaAt(j, pc) == laJob[j].pc = pc
LaRuns(j) == laJob[j].pc \notin {"idle", "planned"}
LaUpdate(j, r) == laJob' = [laJob EXCEPT ![j] = r]

(***************************************************************************)
(* What the lesson shows of its clips.                                     *)
(***************************************************************************)
Reusable(print) == laCache[print] = "fine"

\* A stored finding counts as long as its fingerprint does, whatever the
\* recording in the cache is like now.
Flawed(b) ==
  \/ laCache[laText[b]] = "flawed"
  \/ laIndex[b] # LaNone /\ laIndex[b].print = laText[b] /\ laIndex[b].found # "fine"

Status(b) ==
  IF laCache[laText[b]] # "missing" /\ ~Flawed(b) THEN "ready"
  ELSE IF Flawed(b) \/ (laIndex[b] # LaNone /\ laIndex[b].print # laText[b]) THEN "stale"
  ELSE "missing"

(***************************************************************************)
(* A plan, and its confirmation.                                           *)
(***************************************************************************)
\* The clips a plan of one block or of the lesson takes (_is_selected).
Selected(scope, selection) ==
  {b \in LaBindings : /\ scope \in {LaNone, b}
                      /\ Status(b) # "ready"
                      /\ selection \in {"both", Status(b)}}

Plan(j) ==
  /\ LaAt(j, "idle")
  /\ \E scope \in LaBindings \cup {LaNone}, selection \in {"missing", "stale", "both"} :
       LET clips == Selected(scope, selection) IN
       /\ clips # {}
       /\ LaUpdate(j, [LaIdle EXCEPT !.pc = "planned", !.clips = clips, !.text = laText,
                                     !.force = {b \in clips : ~Reusable(laText[b])}])
  /\ UNCHANGED <<laText, laCache, laIndex, laEdits>>

\* The other jobs lose the claim to have been alone.
Joined(j, r) ==
  [k \in LaJobs |-> IF k = j THEN [r EXCEPT !.alone = \A i \in LaJobs \ {j} : ~LaRuns(i)]
                    ELSE [laJob[k] EXCEPT !.alone = FALSE]]

Claim(j) ==
  /\ LaAt(j, "planned")
  /\ LET r == laJob[j] IN
     IF r.text = laText /\ \A b \in r.clips : Reusable(laText[b]) = (b \notin r.force)
     THEN \/ laJob' = Joined(j, [r EXCEPT !.pc = "begin"])
          \/ LaUpdate(j, LaIdle)   \* no credentials, over the cap
     ELSE LaUpdate(j, LaIdle)
  /\ UNCHANGED <<laText, laCache, laIndex, laEdits>>

(***************************************************************************)
(* The job.                                                                *)
(***************************************************************************)
PrintOf(j, b) == laJob[j].text[b]

Start(j) ==
  /\ LaAt(j, "begin")
  /\ LET r == laJob[j] IN
     LaUpdate(j, [r EXCEPT !.pc = "next", !.index = laIndex,
                           !.todo = {PrintOf(j, b) : b \in r.clips} \ {f \in LaPrints : Reusable(f)}])
  /\ UNCHANGED <<laText, laCache, laIndex, laEdits>>

\* The next clip, unless the month's cap refuses its reservation.
NextClip(j) ==
  /\ LaAt(j, "next") /\ laJob[j].todo # {}
  /\ \/ \E f \in laJob[j].todo :
          LaUpdate(j, [laJob[j] EXCEPT !.pc = IF laJob[j].token THEN "post" ELSE "token",
                                       !.at = f, !.todo = @ \ {f}, !.attempt = 0, !.renewed = FALSE])
     \/ LaUpdate(j, [laJob[j] EXCEPT !.pc = "raised"])
  /\ UNCHANGED <<laText, laCache, laIndex, laEdits>>

GetToken(j) ==
  /\ LaAt(j, "token")
  /\ \/ LaUpdate(j, [laJob[j] EXCEPT !.pc = "post", !.token = TRUE])
     \/ LaUpdate(j, [laJob[j] EXCEPT !.pc = "raised"])
  /\ UNCHANGED <<laText, laCache, laIndex, laEdits>>

\* One request of _synthesize_google: throttled, timed out, or unauthorized by
\* a token that expired, it is repeated; refused, it raises.
MayRetry(r) == r.attempt + 1 < LaAttempts
MayRenew(r) == ~r.renewed

Post(j) ==
  /\ LaAt(j, "post")
  /\ LET r == laJob[j] IN
     \/ LaUpdate(j, [r EXCEPT !.pc = "answer"])
     \/ MayRetry(r) /\ LaUpdate(j, [r EXCEPT !.attempt = @ + 1])
     \/ MayRenew(r) /\ LaUpdate(j, [r EXCEPT !.pc = "token", !.attempt = 0, !.renewed = TRUE])
     \/ LaUpdate(j, [r EXCEPT !.pc = "raised"])
  /\ UNCHANGED <<laText, laCache, laIndex, laEdits>>

\* The answer is booked, checked, cached unless it is no recording, and noted
\* for every selected binding of its fingerprint.
Noted(j, r, print, found) ==
  [r EXCEPT !.index = [b \in LaBindings |->
                         IF b \in r.clips /\ PrintOf(j, b) = print THEN Check(print, found) ELSE @[b]],
            !.wrote = @ \cup {b \in r.clips : PrintOf(j, b) = print}]

Answer(j) ==
  /\ LaAt(j, "answer")
  /\ \E found \in Finds :
       LET r == [laJob[j] EXCEPT !.errors = @ \/ found # "fine"] IN
       /\ \/ /\ laCache' = IF found = "invalid" THEN laCache ELSE [laCache EXCEPT ![r.at] = found]
             /\ LaUpdate(j, [Noted(j, r, r.at, found) EXCEPT !.pc = "next"])
          \/ /\ LaUpdate(j, [r EXCEPT !.pc = "raised"])     \* a write fails
             /\ UNCHANGED laCache
  /\ UNCHANGED <<laText, laIndex, laEdits>>

\* Clips that needed no synthesis are checked once more.
Reuse(j) ==
  /\ LaAt(j, "next") /\ laJob[j].todo = {}
  /\ LET r == laJob[j]
         rest == r.clips \ r.wrote
         Found(b) == IF laCache[PrintOf(j, b)] = "missing" THEN "invalid" ELSE laCache[PrintOf(j, b)]
     IN LaUpdate(j, [r EXCEPT !.pc = "persist", !.wrote = @ \cup rest,
                                 !.index = [b \in LaBindings |->
                                   IF b \in rest THEN Check(PrintOf(j, b), Found(b)) ELSE @[b]]])
  /\ UNCHANGED <<laText, laCache, laIndex, laEdits>>

\* The checks of the job's clips go into the index as it is now.
MergedWhole(j) == laJob[j].index

MergedFlawed(j) ==
  [b \in LaBindings |-> IF b \in laJob[j].wrote /\ laJob[j].index[b].found # "fine"
                        THEN laJob[j].index[b] ELSE laIndex[b]]

Merged(j) ==
  [b \in LaBindings |-> IF b \in laJob[j].clips /\ laJob[j].index[b] # LaNone
                        THEN laJob[j].index[b] ELSE laIndex[b]]

\* A job that raised stores what it has, also what it only read at its start.
Persist(j) ==
  /\ laJob[j].pc \in {"persist", "raised"}
  /\ laIndex' = Merged(j)
  /\ LaUpdate(j, LaIdle)
  /\ UNCHANGED <<laText, laCache, laEdits>>

(***************************************************************************)
(* Everyone else.                                                          *)
(***************************************************************************)
NobodyAlone == [j \in LaJobs |-> [laJob[j] EXCEPT !.alone = FALSE]]

Edit ==
  /\ laEdits < LaMaxEdits /\ laEdits' = laEdits + 1
  /\ \E b \in LaBindings, f \in LaPrints : f # laText[b] /\ laText' = [laText EXCEPT ![b] = f]
  /\ laJob' = NobodyAlone
  /\ UNCHANGED <<laCache, laIndex>>

\* A job of another lesson with the same sentence, or the author, who deletes it.
OtherLesson ==
  /\ laEdits < LaMaxEdits /\ laEdits' = laEdits + 1
  /\ \E f \in LaPrints, take \in {"missing", "fine", "flawed"} : laCache' = [laCache EXCEPT ![f] = take]
  /\ laJob' = NobodyAlone
  /\ UNCHANGED <<laText, laIndex>>

\* The process ends: what the jobs knew is gone, the files stay.
Restart ==
  /\ laEdits < LaMaxEdits /\ laEdits' = laEdits + 1
  /\ laJob' = [j \in LaJobs |-> IF LaRuns(j) THEN LaIdle ELSE laJob[j]]
  /\ UNCHANGED <<laText, laCache, laIndex>>

LaInit ==
  /\ laText = LaStart
  /\ laCache = [f \in LaPrints |-> "missing"]
  /\ laIndex = [b \in LaBindings |-> LaNone]
  /\ laJob = [j \in LaJobs |-> LaIdle]
  /\ laEdits = 0

LaNext ==
  \/ \E j \in LaJobs : \/ Plan(j) \/ Claim(j) \/ Start(j) \/ NextClip(j) \/ GetToken(j) \/ Post(j)
                       \/ Answer(j) \/ Reuse(j) \/ Persist(j)
  \/ Edit \/ OtherLesson \/ Restart

LaSpec == LaInit /\ [][LaNext]_laVars

(***************************************************************************)
(* Properties.                                                             *)
(***************************************************************************)
\* Jobs that run side by side keep each other's checks: an entry is replaced
\* only by a job that selected its clip, and by a check that job made itself
\* (one that raised may put back what it read at its start).
OwnChecksOnly ==
  [][\A b \in LaBindings : laIndex'[b] # laIndex[b] =>
       \E j \in LaJobs : /\ laJob[j].pc \in {"persist", "raised"} /\ laJob'[j] = LaIdle
                         /\ b \in laJob[j].clips
                         /\ b \in laJob[j].wrote \/ laJob[j].pc = "raised"]_laVars

\* A plan that ran alone and without an error leaves every clip it selected
\* ready, whatever had been found of the clip before.
CompletedHeals ==
  [][\A j \in LaJobs :
       laJob[j].pc = "persist" /\ laIndex' = Merged(j) /\ laJob'[j] = LaIdle /\ laJob[j].alone /\ ~laJob[j].errors =>
         \A b \in laJob[j].clips : Status(b)' = "ready"]_laVars

\* The author can trust what a lesson shows of its recordings, and mend it.
RecordingsTrusted == OwnChecksOnly /\ CompletedHeals
=============================================================================
