----------------------------- MODULE MCAuthoring -----------------------------
(***************************************************************************)
(* What an author writes on its way from the pages of the browser to the   *)
(* repository and its releases, one part at a time: `part` is chosen at    *)
(* the start and only its module moves.                                    *)
(***************************************************************************)
EXTENDS DraftCommits, Curriculum, Release, Navigation, DraftEditor, PlanEditor, PageJobs,
        Distribution, MCLessons

CONSTANTS x, y, z,     \* curriculum entries
          s1, s2,      \* new lessons (named as their jobs), tags
          f1, f2       \* speech fingerprints

\* y follows x; z follows y and also presents x.
MCStart == <<Slot(x, {}, {}, 0), Slot(y, {x}, {}, 0), Slot(z, {y}, {x}, 0)>>
MCIds == {x, y, z, s1, s2}
MCSlug == [job \in {s1, s2} |-> job]
\* The second source drops one of the first one's sentences.
MCUses == [source \in {1, 2} |-> IF source = 1 THEN {f1, f2} ELSE {f1}]
\* Two views of one lesson, and another page.
MCPageOf == [lesson |-> "lesson", source |-> "lesson", plan |-> "curriculum"]
MCPlan == <<"a", "b">>

\* y before x; x has a second text, which the gates block or the audit dislikes.
Sourced(key, text) ==
  [text |-> text, key |-> key, exercises |-> TRUE, plan |-> TRUE, practised |-> TRUE,
   audit |-> "clean", loads |-> "yes", gates |-> "pass"]
MCSources ==
  {Sourced(x, 1), Sourced(y, 1), [Sourced(x, 2) EXCEPT !.gates = "block"],
   [Sourced(x, 2) EXCEPT !.loads = "unaudited", !.audit = "material"]}
MCPlans == {<<y, x>>, <<x, y>>, <<x>>}
MCDisordered == {<<x>>}

\* Plan, catalog, drafts and baseline agree with Git whenever nobody holds the
\* lock, what Git holds can be taught, and an edit does what its author means.
CurriculumSafe ==
  [](CuTypeOK /\ WorktreeCommitted /\ NoMissingCommitted /\ BaselineIsFirst) /\ EditsAsMeant

\* What the author types outlives saves, failures, navigation and stale answers:
\* the source text of a draft, and the edits and moves of the plan.
EditorsSafe == DraftTextSafe /\ PlanEditsKept

VARIABLE part

AuthoringInit ==
  /\ part \in {"commits", "curriculum", "release", "pages", "text", "plan", "jobs", "dist", "lesson"}
  /\ DcInit /\ CuInit /\ RlInit /\ NvInit /\ DeInit /\ PeInit /\ PjInit /\ DtInit /\ LsInit
  /\ rlSource = 1
  \* Only the chosen part has more than one initial state.
  /\ part # "commits" => dcTree["draft"] = DcNone
  /\ part # "pages" => nvKnown = "lesson"
  \* Both lessons are canonical, or y is only a draft yet.
  /\ dtPlan = <<y, x>> /\ dtPackage[x] = WholePackage(Sourced(x, 1)) /\ dtDraft[x] = NoPackage
  /\ {dtPackage[y], dtDraft[y]} = {NoPackage, WholePackage(Sourced(y, 1))}
  /\ part # "dist" => dtPackage[y] # NoPackage
  /\ part # "dist" => dtDist = DtNone

\* One of: the author types in the dialog, a second request of the page, a
\* failure; two of a move and the edits.
PlanNext ==
  /\ PeNext
  /\ peCount'.types + peCount'.fetches + peCount'.fails > 1
  /\ peCount'.moves + peCount'.edits > 0

\* Two operations, the process ends during the first or in neither; or one that
\* fails.
CommitsNext ==
  /\ DcNext
  /\ dcBudget'.faults + dcBudget'.crashes > 0
  /\ dcBudget'.faults < DcMaxFaults => dcBudget'.ops > 0
  /\ dcBudget'.crashes < dcBudget.crashes => dcBudget.ops > 0

\* The two new lessons are alike: s1 begins first.  Two at once, without a Save
\* or a disturbance, or one with any of these.  A second Save only after one
\* whose commit was made and reported as failed, without new lessons and crashes.
CurriculumNext ==
  /\ CuNext
  /\ cuJob'[s2].pc # "idle" => cuJob'[s1].pc # "idle"
  /\ (\A job \in CuJobs : cuJob'[job].pc # "idle") =>
       /\ cuBudget'.crashes > 0 /\ cuBudget'.faults > 0 /\ cuBudget'.saves = CuMaxSaves
       /\ \A job \in CuJobs : cuJob'[job].tries = 0
  /\ cuPreview' # CuNone /\ cuBudget'.saves < CuMaxSaves /\ cuSave' = CuNone =>
       /\ cuUnheard.files # {} /\ cuBudget'.crashes = CuMaxCrashes
       /\ \A job \in CuJobs : cuJob'[job].pc = "idle"
  /\ cuBudget'.saves < CuMaxSaves - 1 =>
       cuBudget'.crashes = CuMaxCrashes /\ \A job \in CuJobs : cuJob'[job].pc = "idle"

\* The two tags are alike: s1 is set first, and s2 once s1 is published or failed.
ReleaseNext ==
  RlNext /\ (rlTag'[s2] # RlNone => rlGithub'[s1] # RlNone \/ rlBudget'.faults = 0)

\* Both edits on one visit of the page, or one edit and two visits;
\* then the workflow's change or a failed write.
TextNext ==
  /\ DeNext
  /\ deCount'.edits + deCount'.visits <= 3
  /\ deCount'.edits + deCount'.visits + deCount'.changes + deCount'.fails <= 4

\* One disturbance, two of the exports and the check, and no check begins while
\* an export runs (an export may begin while a check runs).
DistNext ==
  /\ DtNext
  /\ dtCount'.edits + dtCount'.tampers + dtCount'.crashes <= 1
  /\ dtCount'.exports + dtCount'.checks <= 2
  /\ dtRun'.pc # "idle" => dtCheck'.pc # "curriculum"

\* An edit of the objectives or the exercises, or up to two of the body, both
\* before its second section if two.
LessonNext ==
  /\ LsNext
  /\ lsCount' > 1 =>
       /\ lsPackage'.items = MCItems /\ lsPackage'.objectives = lsPackage.objectives
       /\ lsPackage.objectives \notin MCLsObjectives
       /\ IsSuffix(SubSeq(MCBody, 6, 8), lsPackage'.body)

AuthoringNext ==
  /\ part' = part
  /\ IF part = "commits" THEN CommitsNext ELSE UNCHANGED dcVars
  /\ IF part = "curriculum" THEN CurriculumNext ELSE UNCHANGED cuVars
  /\ IF part = "release" THEN ReleaseNext ELSE UNCHANGED rlVars
  /\ IF part = "pages" THEN NvNext ELSE UNCHANGED nvVars
  /\ IF part = "text" THEN TextNext ELSE UNCHANGED deVars
  /\ IF part = "plan" THEN PlanNext ELSE UNCHANGED peVars
  /\ IF part = "jobs" THEN PjNext ELSE UNCHANGED pjVars
  /\ IF part = "dist" THEN DistNext ELSE UNCHANGED dtVars
  /\ IF part = "lesson" THEN LessonNext ELSE UNCHANGED lsVars

AuthoringSpec ==
  /\ AuthoringInit
  /\ [][AuthoringNext]_<<part, dcVars, cuVars, rlVars, nvVars, deVars, peVars, pjVars, dtVars, lsVars>>
=============================================================================
