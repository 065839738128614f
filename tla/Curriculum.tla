------------------------------- MODULE Curriculum -------------------------------
(***************************************************************************)
(* The curriculum plan, its catalog and the lesson drafts, under two kinds *)
(* of writer: the author's previewed edits (add, remove, merge, split,     *)
(* reorder, update) saved in one request, and the jobs that create a whole *)
(* lesson: they capture plan and catalog under the mutation lock, let a    *)
(* provider write for minutes without it, and take it again to commit.     *)
(*                                                                         *)
(* A plan is the sequence of its slots in course order (sequence_index).   *)
(* Required and helpful prerequisites are sets; `text` stands for every    *)
(* other field of a slot.                                                  *)
(***************************************************************************)
EXTENDS Naturals, Sequences, FiniteSets, SequencesExt

CONSTANTS CuIds,        \* catalog ids
          CuStart,      \* the plan at the start, a sequence of slots
          CuCanonical,  \* ids that have a canonical package
          CuJobs,       \* lesson creations
          CuSlug,       \* the id each creates
          CuRepairs,    \* K_APPLICATION_WORKBENCH_DRAFT_REPAIRS
          CuMaxSaves, CuMaxFaults, CuMaxCrashes,
          CuNone

VARIABLES cuPlan, cuCatalog, cuDrafts,   \* the working tree
          cuHead,       \* what Git holds of the three
          cuUnheard,    \* history: what HEAD holds from commits reported as failed
          cuTold,       \* history: the three as the last commit reported as made had them
          cuBase,       \* the baseline record: slots before their first Save
          cuFirst,      \* history: the slots the first Save found
          cuPreview,    \* the preview the author has confirmed
          cuSave,       \* the Save that holds the lock
          cuJob,        \* the creations
          cuLock,       \* who holds the mutation lock
          cuBudget      \* saves, faults and crashes left

cuVars == <<cuPlan, cuCatalog, cuDrafts, cuHead, cuUnheard, cuTold, cuBase, cuFirst,
            cuPreview, cuSave, cuJob, cuLock, cuBudget>>
cuTree == <<cuPlan, cuCatalog, cuDrafts>>
cuGit == <<cuHead, cuUnheard, cuTold>>

Slot(id, req, help, text) == [id |-> id, req |-> req, help |-> help, text |-> text]
IdsOf(plan) == {plan[i].id : i \in DOMAIN plan}
PlaceOf(plan, id) == CHOOSE i \in DOMAIN plan : plan[i].id = id
SlotOf(plan, id) == plan[PlaceOf(plan, id)]
Others(plan, ids) == SelectSeq(plan, LAMBDA s : s.id \notin ids)

----------------------------------------------------------------------------
(* curriculum_edits                                                        *)

RelinkNone(slot, old, new) == slot
Relink(slot, old, new) ==
    LET moved(S) == (S \ old) \union (IF S \intersect old = {} THEN {} ELSE {new}) IN
    [slot EXCEPT !.req = moved(@), !.help = moved(@)]

\* None is the beginning.
InsertAfter(plan, anchor, slot) ==
    InsertAt(plan, IF anchor = CuNone THEN 1 ELSE PlaceOf(plan, anchor) + 1, slot)

\* The first selected entry in course order keeps its place and its id.
Merged(plan, ids) ==
    LET kept == SelectSeq(plan, LAMBDA s : s.id \in ids)[1]
        chosen == {s \in Range(plan) : s.id \in ids}
        req == UNION {s.req : s \in chosen} \ ids
        help == (UNION {s.help : s \in chosen} \ ids) \ req
        after(s) == IF s.id = kept.id THEN Slot(s.id, req, help, 1)
                    ELSE Relink(s, ids \ {kept.id}, kept.id)
        rest == Others(plan, ids \ {kept.id}) IN
    [i \in DOMAIN rest |-> after(rest[i])]

\* Part one keeps the id; who depended on the entry depends on the last part.
Split(plan, id, new) ==
    LET part == Slot(new, {id}, {}, 1)
        after(s) == IF s.id = id THEN s ELSE Relink(s, {id}, new)
    IN InsertAfter([i \in DOMAIN plan |-> after(plan[i])], id, part)

Edited(plan, e) ==
    CASE e.kind = "add"     -> InsertAfter(plan, e.anchor, Slot(e.new, e.req, {}, 0))
      [] e.kind = "remove"  -> Others(plan, e.ids)
      [] e.kind = "merge"   -> Merged(plan, e.ids)
      [] e.kind = "split"   -> Split(plan, e.id, e.new)
      [] e.kind = "reorder" -> [i \in DOMAIN plan |-> SlotOf(plan, e.order[i])]
      [] OTHER              -> [i \in DOMAIN plan |->
                                  IF plan[i].id = e.id THEN Slot(e.id, e.req, {}, 1)
                                  ELSE plan[i]]

\* The requests the code accepts for a plan; the selection, the anchor and
\* the new id of any other are refused while it is previewed.
EditsOf(plan) ==
    LET ids == IdsOf(plan)
        fresh == CuIds \ ids IN
    [kind : {"add"}, anchor : ids \union {CuNone}, new : fresh, req : {{}}]
    \union [kind : {"remove"}, ids : SUBSET ids \ {{}}, delete : BOOLEAN]
    \union [kind : {"merge"}, ids : {S \in SUBSET ids : Cardinality(S) >= 2}]
    \union [kind : {"split"}, id : ids, new : fresh]
    \union [kind : {"reorder"}, order : SetToSeqs(ids)]
    \union [kind : {"update"}, id : ids, req : {{}} \union {{i} : i \in ids}]

MissingNone(plan) == {}
\* collect_curriculum_dependency_findings: the missing ones forbid a Save, a
\* prerequisite that comes later is only reported.
Missing(plan) ==
    {p \in CuIds : p \notin IdsOf(plan) /\ \E s \in Range(plan) : p \in s.req}

\* Removal may delete drafts, never of a lesson that has a canonical package.
Refused(plan, e) ==
    e.kind = "remove" /\ e.delete /\ e.ids \intersect CuCanonical # {}
Deleted(plan, e) ==
    IF e.kind = "remove" /\ e.delete THEN e.ids \intersect cuDrafts ELSE {}

----------------------------------------------------------------------------
JobNone == [pc |-> "idle", anchor |-> CuNone, plan |-> <<>>, catalog |-> {},
            tries |-> 0]

CuInit ==
    /\ cuPlan = CuStart
    /\ cuCatalog = IdsOf(CuStart)
    /\ cuDrafts = IdsOf(CuStart)
    /\ cuHead = [plan |-> cuPlan, catalog |-> cuCatalog, drafts |-> cuDrafts]
    /\ cuUnheard = [files |-> {}, drafts |-> {}] /\ cuTold = cuTree
    /\ cuBase = {} /\ cuFirst = {}
    /\ cuPreview = CuNone /\ cuSave = CuNone
    /\ cuJob = [j \in CuJobs |-> JobNone]
    /\ cuLock = CuNone
    /\ cuBudget = [saves |-> CuMaxSaves, faults |-> CuMaxFaults,
                   crashes |-> CuMaxCrashes]

JobsAlone == UNCHANGED cuJob
RecordsAlone == UNCHANGED <<cuBase, cuFirst>>
Spend(what) == /\ cuBudget[what] > 0
               /\ cuBudget' = [cuBudget EXCEPT ![what] = @ - 1]

\* commit_draft commits the paths it is given.  Git may be killed after it has
\* moved HEAD, or HEAD may not be readable after the commit: then commit_draft
\* raises though the commit is made.
Commits(head, files, drafts) ==
    /\ cuHead' = head
    /\ cuUnheard' = [files |-> cuUnheard.files \ files,
                     drafts |-> cuUnheard.drafts \ drafts]
    /\ cuTold' = cuTree
CommitRaises(head, files, drafts) ==
    \/ UNCHANGED cuGit
    \/ /\ cuHead' = head
       /\ cuUnheard' = [files |-> cuUnheard.files \union files,
                        drafts |-> cuUnheard.drafts \union drafts]
       /\ UNCHANGED cuTold

----------------------------------------------------------------------------
(* Preview and Save                                                        *)

\* The digest covers the plan's bytes, the previewed result and the drafts.
PreviewEdit ==
    /\ cuLock = CuNone /\ cuPreview = CuNone /\ cuBudget.saves > 0
    /\ \E e \in EditsOf(cuPlan) :
         /\ ~ Refused(cuPlan, e)
         /\ cuPreview' = [edit |-> e, plan |-> cuPlan, deletes |-> Deleted(cuPlan, e)]
    /\ UNCHANGED <<cuTree, cuGit, cuSave, cuLock, cuBudget>> /\ JobsAlone /\ RecordsAlone

StillPreviewedAlways == TRUE
StillPreviewed ==
    /\ cuPreview.plan = cuPlan
    /\ cuPreview.deletes = Deleted(cuPlan, cuPreview.edit)

SaveRefused ==
    /\ cuLock = CuNone /\ cuPreview # CuNone
    /\ ~ (StillPreviewed /\ Missing(Edited(cuPlan, cuPreview.edit)) = {})
    /\ cuPreview' = CuNone
    /\ Spend("saves")
    /\ UNCHANGED <<cuTree, cuGit, cuSave, cuLock>> /\ JobsAlone /\ RecordsAlone

\* The old plan and the old drafts are copied aside, then both are rewritten;
\* an edit that changes neither is not committed.
SaveWrites ==
    /\ cuLock = CuNone /\ cuPreview # CuNone
    /\ StillPreviewed
    /\ LET after == Edited(cuPlan, cuPreview.edit) IN
       /\ Missing(after) = {}
       /\ cuPlan' = after
       /\ cuDrafts' = cuDrafts \ Deleted(cuPlan, cuPreview.edit)
       /\ cuSave' = [at |-> IF <<cuPlan, cuDrafts>>' = <<cuPlan, cuDrafts>>
                           THEN "baseline" ELSE "commit",
                     plan |-> cuPlan, drafts |-> cuDrafts, seen |-> Range(cuPlan)]
    /\ cuFirst' = cuFirst \union
                    {s \in Range(cuPlan) : \A f \in cuFirst : f.id # s.id}
    /\ cuLock' = "save"
    /\ Spend("saves")
    /\ UNCHANGED <<cuCatalog, cuGit, cuBase, cuPreview>> /\ JobsAlone

SaveDeleted == cuSave.drafts \ cuDrafts
HeadOfSave == [cuHead EXCEPT !.plan = cuPlan, !.drafts = @ \ SaveDeleted]

SaveCommits ==
    /\ cuSave # CuNone /\ cuSave.at = "commit" /\ HeadOfSave # cuHead
    /\ Commits(HeadOfSave, {"plan"}, SaveDeleted)
    /\ cuSave' = [cuSave EXCEPT !.at = "baseline"]
    /\ UNCHANGED <<cuTree, cuPreview, cuLock, cuBudget>> /\ JobsAlone /\ RecordsAlone

\* Any error, also Git's refusal of a commit without changes: the tree is put
\* back, whether or not a commit was made.
SaveFails ==
    /\ cuSave # CuNone /\ cuSave.at = "commit"
    /\ \/ Spend("faults") /\ CommitRaises(HeadOfSave, {"plan"}, SaveDeleted)
       \/ HeadOfSave = cuHead /\ UNCHANGED <<cuGit, cuBudget>>
    /\ cuPlan' = cuSave.plan /\ cuDrafts' = cuSave.drafts
    /\ cuFirst' = cuBase
    /\ cuSave' = CuNone /\ cuPreview' = CuNone /\ cuLock' = CuNone
    /\ UNCHANGED <<cuCatalog, cuBase>> /\ JobsAlone

BaselineAfter(seen) == cuBase \union {s \in Range(cuPlan) : \A b \in cuBase : b.id # s.id}
\* Only slots the record lacks are added to it.
Baseline(seen) == cuBase \union {s \in seen : \A b \in cuBase : b.id # s.id}

SaveBaseline ==
    /\ cuSave # CuNone /\ cuSave.at = "baseline"
    /\ cuBase' = Baseline(cuSave.seen)
    /\ cuSave' = CuNone /\ cuPreview' = CuNone /\ cuLock' = CuNone
    /\ UNCHANGED <<cuTree, cuGit, cuFirst, cuBudget>> /\ JobsAlone

----------------------------------------------------------------------------
(* create_workbench_lesson                                                 *)

ValidNewByPackage(slug, anchor) ==
    /\ slug \notin cuCatalog \union cuDrafts \union CuCanonical
    /\ anchor \in IdsOf(cuPlan) \union {CuNone}
ValidNew(slug, anchor) ==
    /\ slug \notin IdsOf(cuPlan) \union cuCatalog \union cuDrafts \union CuCanonical
    /\ anchor \in IdsOf(cuPlan) \union {CuNone}

JobGoes(j, pc) == cuJob' = [cuJob EXCEPT ![j].pc = pc]
JobEnds(j, pc) == cuJob' = [cuJob EXCEPT ![j] = [JobNone EXCEPT !.pc = pc]]
SavesAlone == UNCHANGED <<cuPreview, cuSave>> /\ RecordsAlone

Capture(j) ==
    /\ cuJob[j].pc = "idle" /\ cuLock = CuNone
    /\ \E anchor \in IdsOf(cuPlan) \union {CuNone} :
         /\ ValidNew(CuSlug[j], anchor)
         /\ cuJob' = [cuJob EXCEPT ![j] = [pc |-> "author", anchor |-> anchor,
                          plan |-> cuPlan, catalog |-> cuCatalog, tries |-> 0]]
    /\ UNCHANGED <<cuTree, cuGit, cuLock, cuBudget>> /\ SavesAlone

\* One answer: it passes the check, is sent back with the errors, or is the
\* last one allowed.
Author(j) ==
    /\ cuJob[j].pc = "author"
    /\ \/ JobGoes(j, "ready")
       \/ /\ cuJob[j].tries < CuRepairs
          /\ cuJob' = [cuJob EXCEPT ![j].tries = @ + 1]
       \/ /\ cuJob[j].tries = CuRepairs
          /\ JobEnds(j, "failed")
    /\ UNCHANGED <<cuTree, cuGit, cuLock, cuBudget>> /\ SavesAlone

\* _has_only_curriculum_insertions: every captured slot is there, unchanged
\* and in the captured order, and something was added.
OnlyInsertions(j) ==
    LET old == IdsOf(cuJob[j].plan) IN
    /\ SelectSeq(cuPlan, LAMBDA s : s.id \in old) = cuJob[j].plan
    /\ cuJob[j].catalog \subseteq cuCatalog
    /\ Len(cuPlan) > Len(cuJob[j].plan) \/ cuCatalog # cuJob[j].catalog

Same(j) == cuJob[j].plan = cuPlan /\ cuJob[j].catalog = cuCatalog

\* What the new slot is inserted into: the captured plan, or the current one
\* when lessons were only added to it meanwhile.
BaseOfCaptured(j) == cuJob[j].plan
BaseOf(j) == IF Same(j) THEN cuJob[j].plan ELSE cuPlan
AnchorLast(j, plan) ==
    LET at == IF cuJob[j].anchor = CuNone THEN 0
              ELSE PlaceOf(cuJob[j].plan, cuJob[j].anchor)
    IN IF at = 0 THEN CuNone ELSE plan[at].id
AnchorIn(j, plan) == cuJob[j].anchor

MayInsert(j) == /\ Same(j) \/ OnlyInsertions(j)
                /\ ValidNew(CuSlug[j], cuJob[j].anchor)

InsertRefused(j) ==
    /\ cuJob[j].pc = "ready" /\ cuLock = CuNone
    /\ ~ MayInsert(j)
    /\ JobEnds(j, "failed")
    /\ UNCHANGED <<cuTree, cuGit, cuLock, cuBudget>> /\ SavesAlone

InsertPlan(j) ==
    /\ cuJob[j].pc = "ready" /\ cuLock = CuNone
    /\ MayInsert(j)
    /\ cuPlan' = InsertAfter(BaseOf(j), AnchorIn(j, BaseOf(j)),
                             Slot(CuSlug[j], {}, {}, 0))
    /\ cuJob' = [cuJob EXCEPT ![j].pc = "catalog", ![j].plan = cuPlan,
                              ![j].catalog = cuCatalog]
    /\ cuLock' = j
    /\ UNCHANGED <<cuCatalog, cuDrafts, cuGit, cuBudget>> /\ SavesAlone

InsertCatalog(j) ==
    /\ cuJob[j].pc = "catalog"
    /\ cuCatalog' = cuCatalog \union {CuSlug[j]}
    /\ JobGoes(j, "draft")
    /\ UNCHANGED <<cuPlan, cuDrafts, cuGit, cuLock, cuBudget>> /\ SavesAlone

InsertDraft(j) ==
    /\ cuJob[j].pc = "draft"
    /\ cuDrafts' = cuDrafts \union {CuSlug[j]}
    /\ JobGoes(j, "commit")
    /\ UNCHANGED <<cuPlan, cuCatalog, cuGit, cuLock, cuBudget>> /\ SavesAlone

HeadOfLesson(j) == [plan |-> cuPlan, catalog |-> cuCatalog,
                    drafts |-> cuHead.drafts \union {CuSlug[j]}]

CommitLesson(j) ==
    /\ cuJob[j].pc = "commit"
    /\ Commits(HeadOfLesson(j), {"plan", "catalog"}, {CuSlug[j]})
    /\ JobEnds(j, "done")
    /\ cuLock' = CuNone
    /\ UNCHANGED <<cuTree, cuBudget>> /\ SavesAlone

RestoredCatalogNone(j) == cuCatalog
RestoredCatalog(j) == cuJob[j].catalog
\* Any error after the first write: both files are rewritten, the draft goes.
InsertFails(j) ==
    /\ cuJob[j].pc \in {"catalog", "draft", "commit"}
    /\ Spend("faults")
    /\ IF cuJob[j].pc = "commit"
       THEN CommitRaises(HeadOfLesson(j), {"plan", "catalog"}, {CuSlug[j]})
       ELSE UNCHANGED cuGit
    /\ cuPlan' = cuJob[j].plan
    /\ cuCatalog' = RestoredCatalog(j)
    /\ cuDrafts' = cuDrafts \ {CuSlug[j]}
    /\ JobEnds(j, "failed")
    /\ cuLock' = CuNone
    /\ SavesAlone

\* The process ends: jobs are not resumed, half-written trees stay.
CuCrash ==
    /\ Spend("crashes")
    /\ cuJob' = [j \in CuJobs |-> IF cuJob[j].pc \in {"idle", "done"} THEN cuJob[j]
                                  ELSE [JobNone EXCEPT !.pc = "failed"]]
    /\ cuLock' = CuNone /\ cuSave' = CuNone /\ cuPreview' = CuNone
    /\ UNCHANGED <<cuTree, cuGit>> /\ RecordsAlone

CuNext ==
    \/ PreviewEdit \/ SaveRefused \/ SaveWrites \/ SaveCommits \/ SaveFails
    \/ SaveBaseline
    \/ \E j \in CuJobs : \/ Capture(j) \/ Author(j) \/ InsertRefused(j)
                         \/ InsertPlan(j) \/ InsertCatalog(j) \/ InsertDraft(j)
                         \/ CommitLesson(j) \/ InsertFails(j)
    \/ CuCrash

CuSpec == CuInit /\ [][CuNext]_cuVars

----------------------------------------------------------------------------
(* Properties                                                              *)

\* Plan, catalog, drafts and jobs keep their types; no id is planned twice.
CuTypeOK ==
    /\ Range(cuPlan) \subseteq [id : CuIds, req : SUBSET CuIds,
                                help : SUBSET CuIds, text : 0..1]
    /\ Cardinality(IdsOf(cuPlan)) = Len(cuPlan)
    /\ cuCatalog \subseteq CuIds /\ cuDrafts \subseteq CuIds
    /\ \A j \in CuJobs : cuJob[j].tries \in 0..CuRepairs
    /\ cuLock \in CuJobs \union {CuNone, "save"}

\* While nobody holds the lock the working tree is as the last operation that
\* succeeded left it, and is what Git holds: a Save or a creation that failed at
\* any step has put back the plan, the catalog and the drafts it had written
\* (until the process ends in the middle of one).  Git is ahead only in what a
\* commit that was reported as failed wrote and no later operation committed.
WorktreeCommitted ==
    cuLock = CuNone /\ cuBudget.crashes = CuMaxCrashes
    => /\ cuTree = cuTold
       /\ "plan" \in cuUnheard.files \/ cuPlan = cuHead.plan
       /\ "catalog" \in cuUnheard.files \/ cuCatalog = cuHead.catalog
       /\ cuDrafts \ cuUnheard.drafts = cuHead.drafts \ cuUnheard.drafts

\* No commit ever holds a plan with a required prerequisite it does not plan,
\* whatever was removed, merged or created between the preview and the Save.
NoMissingCommitted ==
    \A s \in Range(cuHead.plan) : s.req \subseteq IdsOf(cuHead.plan)

\* A creation leaves every slot that is planned when it commits as it is and
\* in its order, also those added while the provider was writing, and puts
\* the new slot right behind its anchor.
InsertsOnly ==
    [][\A j \in CuJobs : cuJob[j].pc = "ready" /\ cuJob'[j].pc = "catalog"
         => /\ Others(cuPlan', {CuSlug[j]}) = cuPlan
            /\ PlaceOf(cuPlan', CuSlug[j])
                 = IF cuJob[j].anchor = CuNone THEN 1
                   ELSE PlaceOf(cuPlan, cuJob[j].anchor) + 1]_cuVars

\* Warshall's closure of the required prerequisites.
Needs(plan) ==
    FoldSet(LAMBDA via, R : R \union {<<p[1], q[2]>> : <<p, q>> \in
                {pq \in R \X R : pq[1][2] = via /\ pq[2][1] = via}},
            UNION {{s.id} \X s.req : s \in Range(plan)}, CuIds)

Heirs(plan, e, id) ==
    CASE e.kind = "split" /\ id = e.id -> {id, e.new}
      [] e.kind = "merge" /\ id \in e.ids -> e.ids \intersect IdsOf(Merged(plan, e.ids))
      [] OTHER -> {id}

\* A merge or a split keeps what the course requires: whoever needed an entry,
\* through any chain of prerequisites, still needs everything it became.
DependenceKept ==
    [][cuSave = CuNone /\ cuSave' # CuNone /\ cuPreview.edit.kind \in {"merge", "split"}
       => LET e == cuPreview.edit IN
          \A p \in Needs(cuPlan) :
             \A new \in Heirs(cuPlan, e, p[2]) :
                \E user \in Heirs(cuPlan, e, p[1]) :
                   user = new \/ <<user, new>> \in Needs(cuPlan')]_cuVars

\* What a Save writes is what its preview showed the author.
SavedAsPreviewed ==
    [][cuSave = CuNone /\ cuSave' # CuNone
       => /\ cuPlan' = Edited(cuPreview.plan, cuPreview.edit)
          /\ cuDrafts \ cuDrafts' = cuPreview.deletes]_cuVars

\* The baseline holds each slot as the first Save that was not put back found it,
\* so that every later change of it is found stale (until the process ends
\* between the commit of a Save and its baseline).
BaselineIsFirst ==
    cuSave = CuNone /\ cuBudget.crashes = CuMaxCrashes => cuBase = cuFirst

\* Whoever changes the plan changes what it meant to: a creation only inserts,
\* a Save writes its preview, and no edit drops a dependency.
EditsAsMeant == InsertsOnly /\ DependenceKept /\ SavedAsPreviewed
=============================================================================
