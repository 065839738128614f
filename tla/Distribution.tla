----------------------------- MODULE Distribution -----------------------------
(***************************************************************************)
(* dist/, the lessons as learners get them: the export that makes it of    *)
(* the curriculum plan and the lesson packages, the validation it has to   *)
(* pass, its replacement and the recovery from one that was interrupted,   *)
(* and the check of the workspace that compares it with the sources.       *)
(* Nothing holds the sources still while an export or a check runs.        *)
(***************************************************************************)
EXTENDS Naturals, Sequences, FiniteSets, SequencesExt

CONSTANTS
  DtIds,
  DtSources,     \* what a package may contain, see Compilation
  DtPlans,       \* what plan.yaml may say: sequences of lesson ids
  DtDisordered,  \* the plans that place a lesson before its prerequisite
  DtMaxEdits, DtMaxTampers, DtMaxExports, DtMaxChecks, DtMaxCrashes,
  DtNone

VARIABLES
  dtPlan,
  dtPackage,     \* content/lessons/<id>: [state, source]
  dtDraft,       \* content/drafts/<id>
  dtWorkspace,   \* the layout and the two registries
  dtDist, dtBackup,
  dtRun,         \* the export
  dtCheck,       \* check_workspace
  dtCount

Sources == <<dtPlan, dtPackage, dtDraft, dtWorkspace>>
Published == <<dtDist, dtBackup>>
dtVars == <<Sources, Published, dtRun, dtCheck, dtCount>>

NoPackage == [state |-> "none", source |-> DtNone]
WholePackage(source) == [state |-> "whole", source |-> source]
NoExport == [pc |-> "idle", ids |-> <<>>, made |-> <<>>, audio |-> FALSE, staged |-> DtNone, alone |-> TRUE]
NoCheck == [pc |-> "idle", results |-> <<>>, drafts |-> {}, todo |-> <<>>, compiled |-> <<>>,
            issues |-> FALSE, ids |-> <<>>, report |-> DtNone, alone |-> TRUE]

-----------------------------------------------------------------------------
\* A package, compiled (compile_lesson_package.py).

\* A source is a record of what each reader makes of it: exercises, plan:
\* parsed or not; audit: "clean", "material", "raises"; loads: "yes",
\* "unaudited" (only without its audit) or "no"; practised: has an exercise;
\* gates: "pass", "block", "raise"; key: the id it gives itself.
BuiltLesson(s) ==
  /\ s.loads = "yes" \/ (s.loads = "unaudited" /\ s.audit # "clean")
  /\ s.practised

CompileErrors(s) ==
  {e \in {"exercises", "audit", "plan", "lesson", "gates"} :
     CASE e = "exercises" -> ~s.exercises
       [] e = "audit" -> s.audit = "raises"
       [] e = "plan" -> ~s.plan
       [] e = "lesson" -> ~BuiltLesson(s)
       [] OTHER -> BuiltLesson(s) /\ s.gates = "raise"}

\* _require_compilation_pass
CompilesUngated(s) == s.audit = "clean" /\ CompileErrors(s) = {}
Compiles(s) ==
  /\ s.audit = "clean"
  /\ CompileErrors(s) = {}
  /\ ~(BuiltLesson(s) /\ s.gates = "block")

Compiled(package) == package.state = "whole" /\ Compiles(package.source)

-----------------------------------------------------------------------------
\* A distribution, validated (validate_distribution.py).

\* The names of the packet files are the ids.
Inventory(entries) == {e.lesson : e \in Range(entries)}
Positions(entries) == {e.position : e \in Range(entries)}

\* _validate_catalog: no id and no position twice, positions from zero.
CatalogValid(d) ==
  /\ Cardinality(Inventory(d.catalog)) = Len(d.catalog)
  /\ Cardinality(Positions(d.catalog)) = Len(d.catalog)
  /\ Positions(d.catalog) = 0 .. Len(d.catalog) - 1
  /\ Inventory(d.catalog) = DOMAIN d.packets

\* The order learners see, of a catalog that is valid.
CatalogOrder(d) ==
  [i \in DOMAIN d.catalog |-> (CHOOSE e \in Range(d.catalog) : e.position = i - 1).lesson]

ReferencedAudio(d) == UNION {d.packets[id].audio : id \in DOMAIN d.packets}

\* _load_packet and _require_packet_matches_path
PacketReads(d, id) == d.packets[id].readable /\ d.packets[id].id = id

\* _validate_packet_entries: schema, id, and audio of every packet.
PacketValid(d, id) ==
  /\ PacketReads(d, id)
  /\ \A a \in d.packets[id].audio : a.path \in DOMAIN d.files /\ d.files[a.path] = a.sha

\* _validate_distribution_schema
SchemaCurrent(d) == d.schema

NoStrayAudioUnchecked(d) == TRUE
NoStrayAudio(d) == DOMAIN d.files \subseteq {a.path : a \in ReferencedAudio(d)}
\* Without expected ids, the distribution need only agree with itself.
AnyIds == <<DtNone>>
ValidDistributionUnordered(d, ids) ==
  /\ DOMAIN d.packets # {} /\ CatalogValid(d)
  /\ ids = AnyIds \/ DOMAIN d.packets = Range(ids)
  /\ \A id \in DOMAIN d.packets : PacketValid(d, id)
  /\ NoStrayAudio(d) /\ SchemaCurrent(d)
ValidDistribution(d, ids) ==
  /\ DOMAIN d.packets # {} /\ CatalogValid(d)
  /\ ids = AnyIds \/ (DOMAIN d.packets = Range(ids) /\ CatalogOrder(d) = ids)
  /\ \A id \in DOMAIN d.packets : PacketValid(d, id)
  /\ NoStrayAudio(d) /\ SchemaCurrent(d)

Usable(d) == d # DtNone /\ ValidDistribution(d, AnyIds)

\* load_planned_lesson_ids refuses these.
PlanLoads(plan) == plan # <<>> /\ Cardinality(Range(plan)) = Len(plan)

\* validate_lesson_inventory: no directory with files missing, none unplanned.
InventoryComplete(ids) ==
  /\ \A id \in DtIds : dtPackage[id].state # "partial"
  /\ {id \in DtIds : dtPackage[id].state = "whole"} = Range(ids)

-----------------------------------------------------------------------------
\* The export (export_distribution.py).

\* A run or check during which somebody changed what it reads.
Disturbed(run) == IF run.pc = "idle" THEN run ELSE [run EXCEPT !.alone = FALSE]
ExportEnds == dtRun' = NoExport

\* _has_distribution_audio: a packet that cannot be read is passed over.
HasAudio(d) == d # DtNone /\ \E id \in DOMAIN d.packets : d.packets[id].readable /\ d.packets[id].audio # {}

\* _reconcile_dist_recovery: dist/ and its backup after it, or DtNone if it raises.
RecoveredDistBlindly ==
  CASE dtBackup # DtNone /\ dtDist = DtNone -> [dist |-> dtBackup, backup |-> DtNone]
    [] OTHER -> [dist |-> dtDist, backup |-> DtNone]
RecoveredDist ==
  CASE dtBackup # DtNone /\ dtDist = DtNone -> [dist |-> dtBackup, backup |-> DtNone]
    [] dtBackup # DtNone /\ dtDist # DtNone /\ ~Usable(dtDist) -> DtNone
    [] OTHER -> [dist |-> dtDist, backup |-> DtNone]

\* _without_draft_only, for promotions: a planned lesson that is only a draft waits.
ExportedIds(skip) ==
  IF skip THEN SelectSeq(dtPlan, LAMBDA id : dtPackage[id].state # "none" \/ dtDraft[id].state = "none")
  ELSE dtPlan

\* _require_provider_free_target, after the recovery.
MayReplaceAny(audio, dist) == TRUE
MayReplace(audio, dist) == audio \/ ~HasAudio(dist)

ExportBegin(audio, skip) ==
  /\ dtRun.pc = "idle" /\ dtCount.exports < DtMaxExports
  /\ dtCount' = [dtCount EXCEPT !.exports = @ + 1]
  /\ LET found == RecoveredDist
         ids == ExportedIds(skip) IN
     IF found = DtNone THEN UNCHANGED <<Published, dtRun>>
     ELSE /\ dtDist' = found.dist /\ dtBackup' = found.backup
          /\ dtRun' = IF PlanLoads(dtPlan) /\ InventoryComplete(ids) /\ MayReplace(audio, found.dist)
                      THEN [NoExport EXCEPT !.pc = "compile", !.ids = ids, !.audio = audio]
                      ELSE NoExport
  /\ dtCheck' = Disturbed(dtCheck)
  /\ UNCHANGED Sources

\* create_lesson_packet_from_source, and with audio, one clip of the lesson.
PacketOf(id, source, audio) ==
  [id |-> source.key, source |-> source, readable |-> TRUE,
   audio |-> IF audio THEN {[path |-> id, sha |-> source]} ELSE {}]

\* _require_matching_compiled_ids, _require_matching_packet_ids
MatchingId(id) == dtPackage[id].source.key = id

CompileNext ==
  /\ dtRun.pc = "compile" /\ Len(dtRun.made) < Len(dtRun.ids)
  /\ LET id == dtRun.ids[Len(dtRun.made) + 1] IN
     dtRun' = IF Compiled(dtPackage[id]) /\ MatchingId(id)
              THEN [dtRun EXCEPT !.made = Append(@, PacketOf(id, dtPackage[id].source, dtRun.audio))]
              ELSE NoExport
  /\ UNCHANGED <<Sources, Published, dtCheck, dtCount>>

PacketFiles(made) == [id \in {p.id : p \in Range(made)} |-> CHOOSE p \in Range(made) : p.id = id]

\* create_distribution_catalog
CatalogOf(made) == [i \in DOMAIN made |-> [lesson |-> made[i].id, position |-> i - 1]]

StagedOf(run) ==
  LET clips == UNION {p.audio : p \in Range(run.made)} IN
  [packets |-> PacketFiles(run.made), catalog |-> CatalogOf(run.made), schema |-> TRUE,
   files |-> [path \in {a.path : a \in clips} |-> (CHOOSE a \in clips : a.path = path).sha]]

StageExport ==
  /\ dtRun.pc = "compile" /\ Len(dtRun.made) = Len(dtRun.ids)
  /\ LET staged == StagedOf(dtRun) IN
     dtRun' = IF ValidDistribution(staged, dtRun.ids)
              THEN [dtRun EXCEPT !.pc = "retire", !.staged = staged]
              ELSE NoExport
  /\ UNCHANGED <<Sources, Published, dtCheck, dtCount>>

\* What the export reports of its packets and its catalog.
Created(staged, d) == {id \in DOMAIN staged.packets : d = DtNone \/ id \notin DOMAIN d.packets}
UpdatedNever(staged, d) == {}
Updated(staged, d) ==
  {id \in DOMAIN staged.packets \ Created(staged, d) : d.packets[id] # staged.packets[id]}
CatalogUnchanged(staged, d) == d # DtNone /\ d.catalog = staged.catalog

\* _replace_dist_atomically, in the steps the process may end between.
Retire ==
  /\ dtRun.pc = "retire"
  /\ IF dtBackup # DtNone THEN ExportEnds /\ UNCHANGED Published
     ELSE /\ dtBackup' = dtDist /\ dtDist' = DtNone
          /\ dtRun' = [dtRun EXCEPT !.pc = "publish"]
  /\ dtCheck' = Disturbed(dtCheck)
  /\ UNCHANGED <<Sources, dtCount>>

Publish ==
  /\ dtRun.pc = "publish"
  /\ \/ /\ dtDist' = dtRun.staged /\ dtRun' = [dtRun EXCEPT !.pc = "clean"]
        /\ UNCHANGED dtBackup
     \/ /\ dtDist' = dtBackup /\ dtBackup' = DtNone     \* the rename fails
        /\ ExportEnds
  /\ dtCheck' = Disturbed(dtCheck)
  /\ UNCHANGED <<Sources, dtCount>>

\* A backup that cannot be removed stays.
Clean ==
  /\ dtRun.pc = "clean"
  /\ dtBackup' \in {dtBackup, DtNone}
  /\ ExportEnds
  /\ UNCHANGED <<Sources, dtDist, dtCheck, dtCount>>

\* An error before the replacement, or the process ends.
ExportStops ==
  /\ \/ dtRun.pc = "compile" /\ UNCHANGED dtCount
     \/ /\ dtRun.pc # "idle" /\ dtCount.crashes < DtMaxCrashes
        /\ dtCount' = [dtCount EXCEPT !.crashes = @ + 1]
  /\ ExportEnds
  /\ UNCHANGED <<Sources, Published, dtCheck>>

-----------------------------------------------------------------------------
\* check_workspace (check_lesson_data.py).

Phases == <<"layout", "characters", "terminology", "curriculum", "sources", "distribution">>
PhaseResult(phase) == dtCheck.results[phase]
Judge(phase, result) == (phase :> result) @@ dtCheck.results
CheckStep(from, r) ==
  /\ dtCheck.pc = from /\ dtCheck' = r
  /\ UNCHANGED <<Sources, Published, dtRun, dtCount>>
Judged(ok) == IF ok THEN "passed" ELSE "failed"

\* The layout and the two registries.
CheckBegin ==
  /\ dtCheck.pc = "idle" /\ dtCount.checks < DtMaxChecks
  /\ LET content == dtWorkspace.layout # "no content"
         Of(ok) == IF content THEN Judged(ok) ELSE "skipped" IN
     dtCheck' = [NoCheck EXCEPT
                   !.pc = "curriculum",
                   !.results = [layout |-> Judged(dtWorkspace.layout = "ok"),
                                characters |-> Of(dtWorkspace.characters),
                                terminology |-> Of(dtWorkspace.terminology)]]
  /\ dtCount' = [dtCount EXCEPT !.checks = @ + 1]
  /\ UNCHANGED <<Sources, Published, dtRun>>

\* A plan in the wrong order fails, and its lessons are still known.
CheckCurriculum ==
  CheckStep("curriculum",
    LET ids == IF PhaseResult("layout") = "skipped" \/ dtWorkspace.layout = "no content" \/ ~PlanLoads(dtPlan)
               THEN <<>> ELSE dtPlan
    IN [dtCheck EXCEPT !.pc = "sources", !.ids = ids,
          !.results = Judge("curriculum", IF dtWorkspace.layout = "no content" THEN "skipped"
                                          ELSE Judged(ids # <<>> /\ dtPlan \notin DtDisordered))])

SourcesBlocked == dtWorkspace.layout \in {"no content", "no lessons"} \/ PhaseResult("terminology") # "passed"

\* The lessons that are only drafts are compiled, but not published.
CheckSourcesBegin ==
  CheckStep("sources",
    LET drafts == {id \in Range(dtCheck.ids) : dtPackage[id].state = "none" /\ dtDraft[id].state # "none"}
    IN IF SourcesBlocked THEN [dtCheck EXCEPT !.pc = "distribution", !.results = Judge("sources", "skipped")]
       ELSE [dtCheck EXCEPT !.pc = "compile", !.drafts = drafts,
               !.todo = SetToSeq({id \in DtIds : dtPackage[id].state # "none"}) \o SetToSeq(drafts)])

\* _compile_workspace_lesson: a draft has to be the lesson of its slot, too.
CheckCompile ==
  /\ dtCheck.todo # <<>>
  /\ LET id == Head(dtCheck.todo)
         drafted == id \in dtCheck.drafts
         package == IF drafted THEN dtDraft[id] ELSE dtPackage[id]
         fine == Compiled(package) /\ (drafted => package.source.key = id)
     IN CheckStep("compile",
          [dtCheck EXCEPT !.todo = Tail(@), !.issues = @ \/ ~fine,
             !.compiled = IF fine /\ ~drafted THEN (id :> package.source) @@ @ ELSE @])

\* _distribution_blockers
DistributionBlocked(results) ==
  \/ dtWorkspace.layout \in {"no content", "no lessons"}
  \/ \E phase \in {"characters", "terminology", "curriculum"} : results[phase] # "passed"
  \/ results["sources"] = "failed"

CheckSourcesEnd ==
  /\ dtCheck.todo = <<>>
  /\ CheckStep("compile", [dtCheck EXCEPT !.pc = "distribution",
                             !.results = Judge("sources", Judged(~dtCheck.issues))])

Reported(results) ==
  IF \E phase \in DOMAIN results : results[phase] = "failed" THEN "invalid" ELSE "valid"
CheckEnds(result) ==
  LET results == Judge("distribution", result)
  IN [dtCheck EXCEPT !.pc = "done", !.results = results, !.report = Reported(results)]

CanonicalIds == SelectSeq(dtCheck.ids, LAMBDA id : id \notin dtCheck.drafts)

\* validate_committed_distribution, up to the comparison with the sources.
CheckDistribution ==
  CheckStep("distribution",
    CASE DistributionBlocked(dtCheck.results) -> CheckEnds("skipped")
      [] InventoryComplete(CanonicalIds) /\ dtDist # DtNone /\ ValidDistribution(dtDist, CanonicalIds) ->
           [dtCheck EXCEPT !.pc = "compare", !.todo = CanonicalIds]
      [] OTHER -> CheckEnds("failed"))

\* _create_expected_packet: what was compiled before counts while it is what the package says.
SameSourceAlways(id) == TRUE
SameSource(id) == dtCheck.compiled[id] = dtPackage[id].source
Parity(id) ==
  /\ IF id \in DOMAIN dtCheck.compiled THEN dtPackage[id].state = "whole" /\ SameSource(id)
     ELSE Compiled(dtPackage[id])
  /\ dtDist # DtNone /\ id \in DOMAIN dtDist.packets /\ dtDist.packets[id].readable
  /\ LET expected == IF id \in DOMAIN dtCheck.compiled THEN dtCheck.compiled[id] ELSE dtPackage[id].source
     IN dtDist.packets[id].source = expected /\ dtDist.packets[id].id = expected.key

Compare ==
  CheckStep("compare",
    CASE dtCheck.todo = <<>> -> CheckEnds("passed")
      [] Parity(Head(dtCheck.todo)) -> [dtCheck EXCEPT !.todo = Tail(@)]
      [] OTHER -> CheckEnds("failed"))

CheckOver == CheckStep("done", NoCheck)

-----------------------------------------------------------------------------
\* Everyone else: authors, promotions, checkouts and accidents.

DtEdit ==
  /\ dtCount.edits < DtMaxEdits /\ dtCount' = [dtCount EXCEPT !.edits = @ + 1]
  /\ \/ dtPlan' \in DtPlans \ {dtPlan} /\ UNCHANGED <<dtPackage, dtDraft, dtWorkspace>>
     \/ /\ \E id \in DtIds, package \in {NoPackage, [NoPackage EXCEPT !.state = "partial"]}
                                         \union {WholePackage(s) : s \in DtSources} :
             \/ dtPackage' = [dtPackage EXCEPT ![id] = package] /\ UNCHANGED dtDraft
             \/ dtDraft' = [dtDraft EXCEPT ![id] = package] /\ UNCHANGED dtPackage
        /\ UNCHANGED <<dtPlan, dtWorkspace>>
     \/ /\ dtWorkspace' \in {[dtWorkspace EXCEPT !.layout = l] : l \in {"files", "no lessons", "no content"}}
                              \union {[dtWorkspace EXCEPT !.characters = FALSE],
                                      [dtWorkspace EXCEPT !.terminology = FALSE]}
        /\ UNCHANGED <<dtPlan, dtPackage, dtDraft>>
  /\ dtRun' = Disturbed(dtRun) /\ dtCheck' = Disturbed(dtCheck)
  /\ UNCHANGED Published

\* What a merge, a lost file or a stray tool may do to dist/.
Damaged(d) ==
  {[d EXCEPT !.schema = FALSE], [d EXCEPT !.catalog = Reverse(@)],
   [d EXCEPT !.catalog = Tail(@)], [d EXCEPT !.catalog = Append(@, Head(@))],
   [d EXCEPT !.catalog[1].position = 1]}
   \union {[d EXCEPT !.packets = [k \in DOMAIN @ \ {id} |-> @[k]]] : id \in DOMAIN d.packets}
   \union {[d EXCEPT !.packets[id].readable = FALSE] : id \in DOMAIN d.packets}
   \union {[d EXCEPT !.packets[id].source = s] : id \in DOMAIN d.packets, s \in DtSources}
   \union {[d EXCEPT !.packets[id].id = other] : id \in DOMAIN d.packets, other \in DtIds}
   \union {[d EXCEPT !.files = [k \in DOMAIN @ \ {path} |-> @[k]]] : path \in DOMAIN d.files}
   \union {[d EXCEPT !.files[path] = s] : path \in DOMAIN d.files, s \in DtSources}
   \union {[d EXCEPT !.files = (id :> s) @@ @] : id \in DtIds \ DOMAIN d.files, s \in DtSources}

Damage ==
  /\ dtDist # DtNone /\ dtCount.tampers < DtMaxTampers
  /\ dtCount' = [dtCount EXCEPT !.tampers = @ + 1]
  /\ dtDist' \in Damaged(dtDist)
  /\ dtRun' = Disturbed(dtRun) /\ dtCheck' = Disturbed(dtCheck)
  /\ UNCHANGED <<Sources, dtBackup>>

Exportable == \A id \in Range(dtPlan) : Compiled(dtPackage[id]) /\ dtPackage[id].source.key = id
Exported(audio) ==
  StagedOf([made |-> [i \in DOMAIN dtPlan |-> PacketOf(dtPlan[i], dtPackage[dtPlan[i]].source, audio)]])

DtInit ==
  /\ dtPlan \in DtPlans
  /\ dtPackage \in [DtIds -> {NoPackage} \union {WholePackage(s) : s \in DtSources}]
  /\ dtDraft \in [DtIds -> {NoPackage} \union {WholePackage(s) : s \in DtSources}]
  /\ dtWorkspace = [layout |-> "ok", characters |-> TRUE, terminology |-> TRUE]
  \* No distribution yet, or the one an earlier export left.
  /\ dtDist \in {DtNone} \union {Exported(audio) : audio \in {a \in BOOLEAN : Exportable}}
  /\ dtBackup = DtNone
  /\ dtRun = NoExport /\ dtCheck = NoCheck
  /\ dtCount = [edits |-> 0, tampers |-> 0, exports |-> 0, checks |-> 0, crashes |-> 0]

DtNext ==
  \/ \E audio, skip \in BOOLEAN : ExportBegin(audio, skip)
  \/ CompileNext \/ StageExport \/ Retire \/ Publish \/ Clean \/ ExportStops
  \/ CheckBegin \/ CheckCurriculum \/ CheckSourcesBegin \/ CheckCompile \/ CheckSourcesEnd
  \/ CheckDistribution \/ Compare \/ CheckOver
  \/ DtEdit \/ Damage

DtSpec == DtInit /\ [][DtNext]_dtVars

-----------------------------------------------------------------------------
\* What a distribution of these lessons is, said without the validation:
\* the i-th lesson of the plan has the i-th position in the catalog, and its packet is
\* the package as it is; every clip is there with its own bytes, and nothing else.
Right(d, ids) ==
  /\ d # DtNone /\ d.schema
  /\ Len(d.catalog) = Len(ids)
  /\ Range(d.catalog) = {[lesson |-> ids[i], position |-> i - 1] : i \in DOMAIN ids}
  /\ DOMAIN d.packets = Range(ids)
  /\ \A id \in Range(ids) :
       LET packet == d.packets[id] IN
       /\ packet.readable /\ packet.id = id /\ packet.source = dtPackage[id].source
       /\ \A a \in packet.audio : a.path \in DOMAIN d.files /\ d.files[a.path] = a.sha
  /\ \A path \in DOMAIN d.files : \E a \in ReferencedAudio(d) : a.path = path

\* A lesson whose source has no flaw any reader of it could find.
Sound(s) ==
  /\ s.exercises /\ s.plan /\ s.practised
  /\ s.audit = "clean" /\ s.loads = "yes" /\ s.gates = "pass"

\* What an export publishes is the lessons of the plan, all of them sound,
\* unless somebody changed them while it ran.
PublishedIsRight ==
  /\ dtRun.pc = "clean" /\ dtRun.alone => Right(dtDist, dtRun.ids)
  /\ dtRun.pc = "clean" => \A p \in Range(dtRun.made) : Sound(p.source) /\ p.id \in Range(dtRun.ids)

\* A workspace that was left alone meanwhile and is called valid has passed
\* every check, none was skipped, its lessons are sound and its distribution is
\* theirs.
ValidMeansCurrent ==
  dtCheck.report = "valid" /\ dtCheck.alone =>
    /\ \A phase \in Range(Phases) : PhaseResult(phase) = "passed"
    /\ Right(dtDist, CanonicalIds)
    /\ \A id \in Range(dtPlan) :
         IF id \in dtCheck.drafts THEN Sound(dtDraft[id].source) ELSE Sound(dtPackage[id].source)

\* A lesson passes the comparison only as it reads at that moment, whatever
\* was compiled of it before.
ComparedAsItReads ==
  [][dtCheck.pc = "compare" /\ dtCheck'.pc = "compare" /\ dtCheck'.todo # dtCheck.todo =>
       LET id == Head(dtCheck.todo) IN dtDist.packets[id].source = dtPackage[id].source]_dtVars

\* No step of an export that is left alone, and no crash between two of them,
\* takes away the last distribution that could be used.
UsableNeverLost ==
  [][dtCount'.tampers = dtCount.tampers /\ dtRun.alone /\
     (Usable(dtDist) \/ Usable(dtBackup))
       => (Usable(dtDist) \/ Usable(dtBackup))']_dtVars

\* An export without recordings never takes them away.
RecordingsKept ==
  [][dtCount'.tampers = dtCount.tampers /\ ~dtRun.audio /\ ~dtRun'.audio /\ (HasAudio(dtDist) \/ HasAudio(dtBackup)) =>
       (HasAudio(dtDist) \/ HasAudio(dtBackup))']_dtVars

\* An export that reports nothing new has left a usable distribution as it was.
ReportHonest ==
  dtRun.pc = "retire" /\ Usable(dtDist) =>
    LET new == Created(dtRun.staged, dtDist) \union Updated(dtRun.staged, dtDist) IN
    new = {} /\ CatalogUnchanged(dtRun.staged, dtDist) =>
      dtRun.staged.packets = dtDist.packets /\ dtRun.staged.catalog = dtDist.catalog

DtTypeOK ==
  /\ dtPlan \in DtPlans /\ Len(dtRun.made) <= Len(dtRun.ids)
  /\ dtRun.pc \in {"retire", "publish", "clean"} => Usable(dtRun.staged)

\* What learners get is what the authors wrote, and is never lost.
DistributionSound ==
  /\ [](DtTypeOK /\ PublishedIsRight /\ ValidMeansCurrent /\ ReportHonest)
  /\ ComparedAsItReads /\ UsableNeverLost /\ RecordingsKept
=============================================================================
