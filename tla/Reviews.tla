------------------------------- MODULE Reviews -------------------------------
(***************************************************************************)
(* The AI reviews of a lesson.  A review captures the source under the     *)
(* mutation lock, asks its reviewers for minutes without it, and stores    *)
(* what they found under the lock again, into a log of runs; meanwhile the *)
(* author edits, decides findings, changes settings and starts other       *)
(* reviews.  What is shown, and what counts as covered, is worked out from *)
(* the log for the text and the plan as they are now.                      *)
(*                                                                         *)
(* A finding is named by its block and its issue (the criterion and the    *)
(* cited words), whatever review raised it.                                *)
(***************************************************************************)
EXTENDS Naturals, Sequences, FiniteSets

CONSTANTS RvBlocks,     \* keyed blocks of lesson.md
          RvExercises,  \* those that are exercises
          RvPlaced,     \* the exercises that a text of the lesson places
          RvIssues,     \* issues a reviewer may raise about a block
          RvJobs,       \* review jobs of the pool
          RvMaxEdits,   \* edits of source, plan and settings
          RvMaxRuns,    \* stored runs
          RvNone

RvTexts == {1, 2}
Metadata == "metadata"            \* front matter and exercise placement
RvTargets == RvBlocks \union {Metadata}
Said == RvBlocks \X RvIssues

\* An exercise belongs to the compiled lesson where lesson.md has a marker for it;
\* exercises.yaml may have others.
ASSUME PlacedAssumption == RvPlaced \in [RvTexts -> SUBSET RvExercises]
PlacedIn(text) == RvPlaced[text[Metadata]]

VARIABLES rvText, rvPlan, rvVersion,  \* source, plan.md, reviewer settings
          rvLog,        \* the stored runs
          rvJob,        \* what each job captured and heard
          rvCandidate,  \* the review of a regenerated candidate, or RvNone
          rvEdits,      \* edits and candidates left
          rvDecided     \* history: per finding, the runs there were when decided

rvWorld == <<rvText, rvPlan, rvVersion, rvEdits>>
rvVars == <<rvWorld, rvLog, rvJob, rvCandidate, rvDecided>>

\* Three fields are history: "read" is the text and plan that a reviewer was given
\* when it raised the finding; "heard", what each reviewer answered usably about;
\* "placed", the exercises of the lesson that the run read.

RvIdle == [pc |-> "idle", queue |-> {}, scope |-> RvNone, text |-> RvNone,
           plan |-> 0, version |-> 0]

RvInit ==
    /\ rvText = [t \in RvTargets |-> 1] /\ rvPlan = 1 /\ rvVersion = 1
    /\ rvLog = <<>>
    /\ rvJob = [j \in RvJobs |-> RvIdle]
    /\ rvCandidate = RvNone
    /\ rvEdits = RvMaxEdits
    /\ rvDecided = [s \in Said |-> 0]

----------------------------------------------------------------------------
(* ReviewLedger: the view of the log for one source and plan.              *)

Runs == DOMAIN rvLog

\* The run has seen this very text of the target under the current plan.
Covers(k, t) == /\ rvLog[k].plan = rvPlan
                /\ t \in DOMAIN rvLog[k].hashes
                /\ rvLog[k].hashes[t] = rvText[t]

Covered == {t \in RvTargets : \E k \in Runs : Covers(k, t)}

\* Only the last run that covers a block speaks for it.
Speaks(k, b) == Covers(k, b) /\ \A later \in Runs : Covers(later, b) => later <= k
Shown == {s \in Runs \X UNION {rvLog[k].findings : k \in Runs} :
             /\ s[2] \in rvLog[s[1]].findings
             /\ Speaks(s[1], s[2].block)
             /\ s[2].text = rvText[s[2].block]}

ResolvedIn(log) == {<<f.block, f.issue>> : f \in
    {g \in UNION {log[k].findings : k \in DOMAIN log} : g.status = "resolved"}}

\* A finding decided before comes back decided.
PreservedNone(found) == found
Preserved(found) ==
    {IF <<f.block, f.issue>> \in ResolvedIn(rvLog)
     THEN [f EXCEPT !.status = "resolved"] ELSE f : f \in found}

MayCarryAll(f, run) == TRUE
MayCarry(f, run) == f.block \notin DOMAIN run.hashes /\ f.text = run.source[f.block]
\* A scoped run takes over what the run before it said of the other blocks.
Carried(run) ==
    LET like == {k \in Runs : /\ rvLog[k].plan = run.plan
                              /\ rvLog[k].version = run.version}
        last == CHOOSE k \in like : \A other \in like : other <= k IN
    IF run.scope = "lesson" \/ like = {} THEN {}
    ELSE {f \in rvLog[last].findings : MayCarry(f, run)}

Stored(run) ==
    [plan |-> run.plan, version |-> run.version, hashes |-> run.hashes,
     placed |-> run.placed, heard |-> run.heard,
     findings |-> Carried(run) \union Preserved(run.findings)]
RecordedSamePlan(run) == LET same(old) == old.plan = run.plan IN
                         Append(SelectSeq(rvLog, same), Stored(run))
Recorded(run) == Append(rvLog, Stored(run))

----------------------------------------------------------------------------
(* The author                                                              *)

RvEdit ==
    /\ rvEdits > 0 /\ rvEdits' = rvEdits - 1
    /\ \/ /\ \E t \in RvTargets : rvText' = [rvText EXCEPT ![t] = 3 - @]
          /\ UNCHANGED <<rvPlan, rvVersion>>
       \/ rvPlan' = 3 - rvPlan /\ UNCHANGED <<rvText, rvVersion>>
       \/ rvVersion' = 3 - rvVersion /\ UNCHANGED <<rvText, rvPlan>>
    /\ UNCHANGED <<rvLog, rvJob, rvCandidate, rvDecided>>

\* resolve_workbench_findings: only what is shown and open can be decided.
Resolve ==
    \E s \in Shown :
        /\ s[2].status = "open"
        /\ rvLog' = [rvLog EXCEPT ![s[1]].findings =
                        (@ \ {s[2]}) \union {[s[2] EXCEPT !.status = "resolved"]}]
        /\ rvDecided' = [rvDecided EXCEPT ![<<s[2].block, s[2].issue>>] = Len(rvLog)]
        /\ UNCHANGED <<rvWorld, rvJob, rvCandidate>>

----------------------------------------------------------------------------
(* A review job                                                            *)

JobStep(j, next) ==
    /\ rvJob' = [rvJob EXCEPT ![j] = next]
    /\ UNCHANGED <<rvWorld, rvCandidate>>
Quiet == UNCHANGED <<rvLog, rvDecided>>
Leaves(j) == JobStep(j, RvIdle) /\ Quiet

\* One scope, or every uncovered block: a target that is no block takes the
\* whole lesson.
Scopes == {{"lesson"}} \union {{b} : b \in RvBlocks}
          \union {IF Metadata \in RvTargets \ Covered THEN {"lesson"}
                  ELSE RvTargets \ Covered}

StartReview(j) ==
    /\ rvJob[j].pc = "idle"
    /\ \E scopes \in Scopes \ {{}} :
          JobStep(j, [RvIdle EXCEPT !.pc = "prepare", !.queue = scopes])
    /\ Quiet

SelectedBy(scope) == IF scope = "lesson" THEN RvTargets ELSE {scope}
BlocksOf(scope) == SelectedBy(scope) \intersect RvBlocks

\* Lesson blocks are read by one kind of reviewer, exercises by two: one
\* solves them, one looks at them as a learner does.
ReadersOf(b) == IF b \in RvExercises THEN {"answers", "surface"} ELSE {"prose"}

\* Only exercises of the compiled lesson are handed to reviewers: a selected
\* exercise that is not placed is read by none, and may leave nobody to ask.
ReadFor(job) == {b \in BlocksOf(job.scope) : b \in RvExercises => b \in PlacedIn(job.text)}
Readers(job) == UNION {ReadersOf(b) : b \in ReadFor(job)}

\* Source, plan and settings are captured under the lock.  A lesson that places no
\* exercise does not compile.
Prepare(j) ==
    /\ rvJob[j].pc = "prepare" /\ PlacedIn(rvText) # {}
    /\ \E scope \in rvJob[j].queue :
          JobStep(j, [rvJob[j] EXCEPT
              !.pc = "calls", !.queue = @ \ {scope}, !.scope = scope,
              !.text = rvText, !.plan = rvPlan, !.version = rvVersion])
    /\ Quiet

\* Cancelled before it began, or the lesson does not compile.
PrepareFails(j) == rvJob[j].pc = "prepare" /\ Leaves(j)

Given(job, b) == <<job.text[b], job.plan>>
HeardBy(job, reader) ==
    {<<b, Given(job, b), reader>> : b \in {c \in ReadFor(job) : reader \in ReadersOf(c)}}
Raised(job, said) ==
    {[block |-> s[1], issue |-> s[2], read |-> Given(job, s[1])] : s \in said}

\* A finding outside the scope is dropped, whatever the prompt asked for.
InScope(scope, said) == {s \in said : s[1] \in BlocksOf(scope)}

\* The run is about the source as it was captured, and covers all that was
\* selected, read or not.
SourceLive(job) == rvText
SourceOf(job) == job.text

RunOf(job, heard, found) ==
    [scope |-> job.scope, plan |-> job.plan, version |-> job.version,
     source |-> SourceOf(job),
     hashes |-> [t \in SelectedBy(job.scope) |-> SourceOf(job)[t]],
     placed |-> PlacedIn(job.text),
     heard |-> UNION {HeardBy(job, reader) : reader \in heard},
     findings |-> {[block |-> f.block, issue |-> f.issue, read |-> f.read,
                    text |-> SourceOf(job)[f.block], status |-> "open"] : f \in found}]

\* The readers that answered usably: a call that fails, has no verdict for
\* every exercise, or sees the cancel stops the others, and the review.
EnoughAlways(job, heard) == TRUE
Enough(job, heard) == heard = Readers(job)

\* The calls run without the lock on what was captured, so that only their end
\* is a step.  The log is read again, completed and written under the lock.
Store(j) ==
    /\ rvJob[j].pc = "calls" /\ Len(rvLog) < RvMaxRuns
    /\ \E heard \in SUBSET Readers(rvJob[j]), said \in SUBSET Said :
          LET found == Raised(rvJob[j], InScope(rvJob[j].scope, said)) IN
          /\ Enough(rvJob[j], heard) /\ (heard = {} => said = {})
          /\ rvLog' = Recorded(RunOf(rvJob[j], heard, found))
    /\ JobStep(j, IF rvJob[j].queue = {} THEN RvIdle
                  ELSE [RvIdle EXCEPT !.pc = "prepare", !.queue = rvJob[j].queue])
    /\ UNCHANGED rvDecided

CallFails(j) == rvJob[j].pc = "calls" /\ Leaves(j)

----------------------------------------------------------------------------
(* A regeneration reviews its candidate in a workspace of its own.         *)

\* It is reviewed in full; Regeneration models the reviews that fail.  The
\* candidate compiles, differs from the draft in at most one target, and counts as
\* an edit.
ReviewCandidate ==
    /\ rvCandidate = RvNone /\ rvEdits > 0 /\ rvEdits' = rvEdits - 1
    /\ \E t \in RvTargets, text \in RvTexts :
          /\ PlacedIn([rvText EXCEPT ![t] = text]) # {}
          /\ rvCandidate' = [RvIdle EXCEPT !.scope = "lesson", !.plan = rvPlan,
                                 !.version = rvVersion, !.text = [rvText EXCEPT ![t] = text]]
    /\ UNCHANGED <<rvText, rvPlan, rvVersion, rvLog, rvJob, rvDecided>>

\* Its review is reused when every block was accepted and nothing else differs.
StillExact(accepted) ==
    /\ accepted = rvCandidate.text
    /\ rvCandidate.plan = rvPlan /\ rvCandidate.version = rvVersion

AcceptCandidate ==
    /\ rvCandidate # RvNone /\ Len(rvLog) < RvMaxRuns
    /\ \E kept \in SUBSET RvTargets, said \in SUBSET Said :
          LET accepted == [t \in RvTargets |-> IF t \in kept THEN rvText[t]
                                             ELSE rvCandidate.text[t]] IN
          /\ rvText' = accepted
          /\ rvLog' = IF StillExact(accepted)
                      THEN Recorded(RunOf(rvCandidate, Readers(rvCandidate),
                                          Raised(rvCandidate, said)))
                      ELSE rvLog
    /\ rvCandidate' = RvNone
    /\ UNCHANGED <<rvPlan, rvVersion, rvEdits, rvJob, rvDecided>>

RvNext ==
    \/ RvEdit \/ Resolve \/ ReviewCandidate \/ AcceptCandidate
    \/ \E j \in RvJobs :
          \/ StartReview(j) \/ Prepare(j) \/ PrepareFails(j)
          \/ Store(j) \/ CallFails(j)

RvSpec == RvInit /\ [][RvNext]_rvVars

----------------------------------------------------------------------------
(* Properties                                                              *)

\* Runs keep their shape: a finding of a block the run read is about the text
\* it read.
RvTypeOK ==
    /\ rvText \in [RvTargets -> RvTexts] /\ rvPlan \in {1, 2} /\ rvVersion \in {1, 2}
    /\ \A k \in Runs :
          /\ DOMAIN rvLog[k].hashes \subseteq RvTargets
          /\ \A f \in rvLog[k].findings :
                /\ <<f.block, f.issue>> \in Said
                /\ f.block \in DOMAIN rvLog[k].hashes
                   => f.text = rvLog[k].hashes[f.block]
    /\ \A j \in RvJobs : rvJob[j].pc = "calls" => rvJob[j].scope \in RvBlocks \union {"lesson"}

\* Every finding on the page was raised by a reviewer that read the block's
\* present text under the present plan, however the source was edited, and
\* edited back, while reviews ran.
ShownWasSaid ==
    \A s \in Shown : s[2].read = <<rvText[s[2].block], rvPlan>>

\* A run that covers a block as it reads now heard every kind of reviewer the
\* block needs, usably, about this text under this plan: a review with a failed,
\* cancelled or incomplete call covers nothing.  An exercise that the lesson did not
\* place when the run read it is the exception: it is covered and nobody was asked.
CoveredWasReviewed ==
    \A k \in Runs, b \in RvBlocks :
        Covers(k, b) /\ (b \in RvExercises => b \in rvLog[k].placed) =>
            \A reader \in ReadersOf(b) :
                <<b, <<rvText[b], rvPlan>>, reader>> \in rvLog[k].heard

\* What the author decided stays decided in every run stored after it, also by
\* a review that had captured the source, and the decisions, before.
DecisionOutlivesReviews ==
    \A s \in Shown :
        LET decided == rvDecided[<<s[2].block, s[2].issue>>] IN
        s[2].status = "open" /\ decided > 0 => s[1] <= decided

\* A stored run is never lost to another review, nor changed except by the
\* author's decisions: two reviews that end together both count.
RunsKept ==
    [][\A k \in Runs : /\ k \in DOMAIN rvLog'
                       /\ rvLog'[k].hashes = rvLog[k].hashes
                       /\ ResolvedIn(rvLog) \subseteq ResolvedIn(rvLog')]_rvVars

\* The review page tells the truth about the present lesson: its findings were
\* raised for this text and its coverage earned, but for exercises outside the
\* lesson; decisions hold, no run is lost.
ReviewsTruthful ==
    /\ [](RvTypeOK /\ ShownWasSaid /\ CoveredWasReviewed /\ DecisionOutlivesReviews)
    /\ RunsKept
=============================================================================
