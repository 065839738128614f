-------------------------------- MODULE Release --------------------------------
(***************************************************************************)
(* Releases of the course: planning, the approval that synthesizes, exports*)
(* and publishes (audio to the object store first, the archive to GitHub   *)
(* after it), its resumption after a failure at any step, and the tag job  *)
(* that verifies a published archive.                                      *)
(*                                                                         *)
(* A recording is named by its fingerprint (the text, the voice and the    *)
(* settings it is made from); every synthesis of a fingerprint gives other *)
(* bytes, its take.  A source version needs the fingerprints RlUses names. *)
(***************************************************************************)
EXTENDS Naturals, FiniteSets

CONSTANTS RlSources,      \* versions of the canonical source
          RlUses,         \* the fingerprints each version needs
          RlTags,         \* release tags
          RlMaxTakes,     \* syntheses, of the workbench and of releases
          RlMaxPlans, RlMaxRuns, RlMaxFaults,
          RlNone

RlPrints == UNION {RlUses[s] : s \in RlSources}
RlTakes == 1..RlMaxTakes

\* A distribution has a recording of every fingerprint its source needs; what
\* there is not is no source, no tag, no take and no distribution.
Distributions == UNION {{[source |-> s, audio |-> a] : a \in [RlUses[s] -> RlTakes]} : s \in RlSources}

ASSUME ReleaseAssumption ==
    /\ RlMaxTakes \in Nat /\ RlMaxPlans \in Nat /\ RlMaxRuns \in Nat /\ RlMaxFaults \in Nat
    /\ RlNone \notin RlSources /\ RlNone \notin RlTags /\ RlNone \notin RlTakes
    /\ RlNone \notin Distributions

VARIABLES rlSource,   \* the source in the working tree
          rlHead,     \* the source HEAD holds
          rlTag,      \* the commit of each pushed tag
          rlPlan,     \* release-plan.json
          rlCache,    \* the shared audio cache
          rlFindings, \* fingerprints with an open audio finding
          rlOut,      \* per tag: its dist/, the backup of it, its archive
          rlStore,    \* the object store
          rlGithub,   \* the archive asset of each tag
          rlVerified, \* tags the tag job has accepted
          rlRun,      \* the approval that runs
          rlBudget    \* takes made; plans, approvals and faults left

rlVars == <<rlSource, rlHead, rlTag, rlPlan, rlCache, rlFindings, rlOut,
            rlStore, rlGithub, rlVerified, rlRun, rlBudget>>
rlTree == <<rlSource, rlHead, rlTag>>
rlWorld == <<rlStore, rlGithub, rlVerified>>

NoRun == [pc |-> "idle", tag |-> RlNone, forced |-> {}, source |-> RlNone,
          staged |-> <<>>, again |-> FALSE]
NoOut == [dist |-> RlNone, backup |-> RlNone, archive |-> RlNone]

RlInit ==
    /\ rlSource \in RlSources /\ rlHead = rlSource
    /\ rlTag = [t \in RlTags |-> RlNone]
    /\ rlPlan = RlNone
    /\ rlCache = [f \in RlPrints |-> RlNone]
    /\ rlFindings = {}
    /\ rlOut = [t \in RlTags |-> NoOut]
    /\ rlStore = [f \in RlPrints |-> RlNone]
    /\ rlGithub = [t \in RlTags |-> RlNone]
    /\ rlVerified = {}
    /\ rlRun = NoRun
    /\ rlBudget = [takes |-> 0, plans |-> RlMaxPlans, runs |-> RlMaxRuns,
                   faults |-> RlMaxFaults]

Spent(what) == rlBudget[what] > 0
SpendOf(what) == rlBudget' = [rlBudget EXCEPT ![what] = @ - 1]
NewTake == rlBudget.takes + 1
MayTake == rlBudget.takes < RlMaxTakes
Makes == rlBudget' = [rlBudget EXCEPT !.takes = @ + 1]
InRun(pc) == rlRun.pc = pc
RunGoes(pc) == rlRun' = [rlRun EXCEPT !.pc = pc]
RunEnds == rlRun' = NoRun

----------------------------------------------------------------------------
(* The author: source edits, commits, tags, recordings in the workbench.   *)

EditSource ==
    /\ \E s \in RlSources \ {rlSource} : rlSource' = s
    /\ UNCHANGED <<rlHead, rlTag, rlPlan, rlCache, rlFindings, rlOut, rlRun, rlBudget>>
    /\ UNCHANGED rlWorld

CommitAndTag ==
    /\ InRun("idle")
    /\ \E t \in RlTags : /\ rlTag[t] = RlNone
                         /\ rlTag' = [rlTag EXCEPT ![t] = rlSource]
    /\ rlHead' = rlSource
    /\ UNCHANGED <<rlSource, rlPlan, rlCache, rlFindings, rlOut, rlRun, rlBudget>>
    /\ UNCHANGED rlWorld

\* A workbench recording replaces the cached one; its check may open a finding.
Record(f) ==
    /\ InRun("idle") /\ MayTake
    /\ rlCache' = [rlCache EXCEPT ![f] = NewTake]
    /\ rlFindings' \in {rlFindings \union {f}, rlFindings \ {f}}
    /\ Makes
    /\ UNCHANGED <<rlPlan, rlOut, rlRun>> /\ UNCHANGED rlTree /\ UNCHANGED rlWorld

----------------------------------------------------------------------------
(* Planning                                                                *)

\* Historical recordings lie in the distributions of earlier releases.
Historical(f) == {rlOut[t].dist.audio[f] : t \in {u \in RlTags :
                     rlOut[u].dist # RlNone /\ f \in DOMAIN rlOut[u].dist.audio}}

\* Two different recordings of one name stop the planning.
Conflicting(f) == Cardinality(Historical(f)) > 1

ReusableOf(f) ==
    IF rlCache[f] # RlNone THEN rlCache[f]
    ELSE IF Historical(f) # {} THEN CHOOSE take \in Historical(f) : TRUE
    ELSE RlNone

PlanRelease ==
    /\ InRun("idle") /\ Spent("plans")
    /\ LET needed == RlUses[rlSource]
           excluded == needed \intersect rlFindings IN
       /\ \A f \in needed \ excluded : ~ Conflicting(f)
       /\ \E t \in RlTags :
            rlPlan' = [source |-> rlSource, tag |-> t, excluded |-> excluded,
                       reuse |-> [f \in needed |-> IF f \in excluded THEN RlNone
                                                   ELSE ReusableOf(f)]]
    /\ SpendOf("plans")
    /\ UNCHANGED <<rlCache, rlFindings, rlOut, rlRun>> /\ UNCHANGED rlTree
    /\ UNCHANGED rlWorld

----------------------------------------------------------------------------
(* Approval                                                                *)

\* The plan is still the source's, its exclusions are still the open
\* findings, and the tag names HEAD, locally and on GitHub.
Current ==
    /\ rlPlan.source = rlSource
    /\ rlPlan.excluded = DOMAIN rlPlan.reuse \intersect rlFindings
    /\ rlTag[rlPlan.tag] = rlHead /\ rlSource = rlHead

Approve ==
    /\ InRun("idle") /\ Spent("runs")
    /\ rlPlan # RlNone /\ Current
    /\ rlRun' = [NoRun EXCEPT !.pc = "seed", !.tag = rlPlan.tag,
                              !.forced = rlPlan.excluded]
    /\ SpendOf("runs")
    /\ UNCHANGED <<rlPlan, rlCache, rlFindings, rlOut>> /\ UNCHANGED rlTree
    /\ UNCHANGED rlWorld

\* Each planned recording is copied into the cache; one that is gone or has
\* changed since the plan, or that the cache contradicts, ends the run there.
SeedCache ==
    /\ InRun("seed")
    /\ LET kept == {f \in DOMAIN rlPlan.reuse : rlPlan.reuse[f] # RlNone}
           found == {f \in kept : \/ rlPlan.reuse[f] = rlCache[f]
                                  \/ rlCache[f] = RlNone /\ rlPlan.reuse[f] \in Historical(f)}
           seeded(S) == [f \in RlPrints |-> IF f \in S THEN rlPlan.reuse[f] ELSE rlCache[f]] IN
       IF found = kept THEN rlCache' = seeded(kept) /\ RunGoes("reconcile")
       ELSE RunEnds /\ \E done \in SUBSET found : rlCache' = seeded(done)
    /\ UNCHANGED <<rlPlan, rlFindings, rlOut, rlBudget>> /\ UNCHANGED rlTree
    /\ UNCHANGED rlWorld

\* _reconcile_dist_recovery: the one interrupted replacement it knows.
RecoveredNone(out) == [out EXCEPT !.backup = RlNone]
Recovered(out) ==
    IF out.dist = RlNone /\ out.backup # RlNone
    THEN [out EXCEPT !.dist = out.backup, !.backup = RlNone]
    ELSE [out EXCEPT !.backup = RlNone]

\* The packages are compiled here: this is the source the release ships.
Reconcile ==
    /\ InRun("reconcile")
    /\ rlOut' = [rlOut EXCEPT ![rlRun.tag] = Recovered(@)]
    /\ rlRun' = [rlRun EXCEPT !.pc = "stage", !.source = rlSource]
    /\ UNCHANGED <<rlPlan, rlCache, rlFindings, rlBudget>> /\ UNCHANGED rlTree
    /\ UNCHANGED rlWorld

StagedNow == DOMAIN rlRun.staged
Stages(f, take) == rlRun' = [rlRun EXCEPT !.staged =
    [g \in StagedNow \union {f} |-> IF g = f THEN take ELSE rlRun.staged[g]]]

\* A cached recording is copied; a missing or a forced one is synthesized,
\* cached and copied.
StageAudio(f) ==
    /\ InRun("stage")
    /\ f \in RlUses[rlRun.source] \ StagedNow
    /\ \/ /\ rlCache[f] # RlNone /\ f \notin rlRun.forced
          /\ Stages(f, rlCache[f])
          /\ UNCHANGED <<rlCache, rlBudget>>
       \/ /\ rlCache[f] = RlNone \/ f \in rlRun.forced
          /\ MayTake
          /\ rlCache' = [rlCache EXCEPT ![f] = NewTake]
          /\ Stages(f, NewTake)
          /\ Makes
    /\ UNCHANGED <<rlPlan, rlFindings, rlOut>> /\ UNCHANGED rlTree /\ UNCHANGED rlWorld

OutStep(pc, next, out) ==
    /\ InRun(pc)
    /\ rlOut' = [rlOut EXCEPT ![rlRun.tag] = out]
    /\ RunGoes(next)
    /\ UNCHANGED <<rlPlan, rlCache, rlFindings, rlBudget>> /\ UNCHANGED rlTree
    /\ UNCHANGED rlWorld

Out == rlOut[rlRun.tag]

\* _replace_dist_atomically: two renames, then the backup goes.
SetAsideDeleted(out) == [out EXCEPT !.dist = RlNone]
SetAside(out) == [out EXCEPT !.backup = out.dist, !.dist = RlNone]

CompleteAny == StagedNow # {}
Complete == StagedNow = RlUses[rlRun.source]

MoveOldAside == /\ InRun("stage") /\ Complete
                /\ OutStep("stage", "rename", SetAside(Out))
MoveNewIn == OutStep("rename", "cleanup", [Out EXCEPT !.dist =
                 [source |-> rlRun.source, audio |-> rlRun.staged]])
DropBackup == OutStep("cleanup", "package", [Out EXCEPT !.backup = RlNone])

\* Both validate_committed_distribution and the archive read the new dist/.
Package ==
    /\ InRun("package") /\ Out.dist.source = rlSource
    /\ OutStep("package", "upload", [Out EXCEPT !.archive = Out.dist])
PackageRefused ==
    /\ InRun("package") /\ Out.dist.source # rlSource
    /\ RunEnds
    /\ UNCHANGED <<rlPlan, rlCache, rlFindings, rlOut, rlBudget>> /\ UNCHANGED rlTree
    /\ UNCHANGED rlWorld

\* An object that is there is left alone, equal or not.
StoreTakesLast(f) == TRUE
StoreTakes(f) == rlStore[f] = RlNone
Uploaded == {f \in DOMAIN Out.dist.audio : rlStore[f] = Out.dist.audio[f]}

UploadAudio(f) ==
    /\ InRun("upload")
    /\ f \in DOMAIN Out.dist.audio \ Uploaded
    /\ StoreTakes(f)
    /\ rlStore' = [rlStore EXCEPT ![f] = Out.dist.audio[f]]
    /\ UNCHANGED <<rlPlan, rlCache, rlFindings, rlOut, rlRun, rlBudget, rlGithub,
                   rlVerified>> /\ UNCHANGED rlTree
\* Another recording under the name: the run ends, nothing is overwritten.
UploadRefused ==
    /\ InRun("upload")
    /\ \E f \in DOMAIN Out.dist.audio \ Uploaded : ~ StoreTakes(f)
    /\ RunEnds
    /\ UNCHANGED <<rlPlan, rlCache, rlFindings, rlOut, rlBudget>> /\ UNCHANGED rlTree
    /\ UNCHANGED rlWorld
AllUploadedSome == Uploaded # {}
AllUploaded == Uploaded = DOMAIN Out.dist.audio
AudioPublished ==
    /\ InRun("upload") /\ AllUploaded
    /\ OutStep("upload", "github", Out)

\* reconcile_release_asset: an equal asset is enough, another one an error,
\* and a timeout asks once more what is there.
GithubStep ==
    /\ InRun("github")
    /\ UNCHANGED <<rlPlan, rlCache, rlFindings, rlOut, rlStore, rlVerified>>
    /\ UNCHANGED rlTree
GithubFreeAlways == TRUE
GithubFree == rlGithub[rlRun.tag] = RlNone
GithubHas(asset) == rlGithub' = [rlGithub EXCEPT ![rlRun.tag] = asset]

GithubMatched ==
    /\ GithubStep
    /\ rlGithub[rlRun.tag] = Out.archive
    /\ RunGoes("voices")
    /\ UNCHANGED <<rlGithub, rlBudget>>
GithubDiffers ==
    /\ GithubStep
    /\ rlGithub[rlRun.tag] \notin {RlNone, Out.archive}
    /\ RunEnds
    /\ UNCHANGED <<rlGithub, rlBudget>>
GithubUploaded ==
    /\ GithubStep
    /\ GithubFree
    /\ GithubHas(Out.archive)
    /\ RunGoes("voices")
    /\ UNCHANGED rlBudget
GithubTimeout ==
    /\ GithubStep
    /\ GithubFree
    /\ Spent("faults") /\ SpendOf("faults")
    /\ \E arrived \in BOOLEAN : GithubHas(IF arrived THEN Out.archive ELSE rlGithub[rlRun.tag])
    /\ IF rlRun.again THEN RunEnds
       ELSE rlRun' = [rlRun EXCEPT !.again = TRUE]

\* The voices of this release become the workbench's baseline.
RecordVoices ==
    /\ InRun("voices")
    /\ RunEnds
    /\ UNCHANGED <<rlPlan, rlCache, rlFindings, rlOut, rlBudget>> /\ UNCHANGED rlTree
    /\ UNCHANGED rlWorld

\* A provider or an I/O error, or the end of the process, at any step; an error
\* of the second rename puts the old distribution back, an end leaves it aside.
RunFails ==
    /\ ~ InRun("idle")
    /\ Spent("faults") /\ SpendOf("faults")
    /\ RunEnds
    /\ \/ UNCHANGED rlOut
       \/ InRun("rename") /\ rlOut' = [rlOut EXCEPT ![rlRun.tag] = Recovered(@)]
    /\ UNCHANGED <<rlPlan, rlCache, rlFindings>> /\ UNCHANGED rlTree
    /\ UNCHANGED rlWorld

----------------------------------------------------------------------------
(* verify_release, on a checkout of the tag                                *)

ShipsAnything(archive, t) == TRUE
ShipsTag(archive, t) ==
    /\ archive.source = rlTag[t]
    /\ DOMAIN archive.audio = RlUses[rlTag[t]]

Verify(t) ==
    /\ rlGithub[t] # RlNone
    /\ ShipsTag(rlGithub[t], t)
    /\ rlVerified' = rlVerified \union {t}
    /\ UNCHANGED <<rlPlan, rlCache, rlFindings, rlOut, rlRun, rlBudget, rlStore,
                   rlGithub>> /\ UNCHANGED rlTree

RlNext ==
    \/ EditSource \/ CommitAndTag \/ (\E f \in RlPrints : Record(f))
    \/ PlanRelease \/ Approve \/ SeedCache \/ Reconcile
    \/ \E f \in RlPrints : StageAudio(f) \/ UploadAudio(f)
    \/ MoveOldAside \/ MoveNewIn \/ DropBackup \/ Package \/ PackageRefused
    \/ UploadRefused \/ AudioPublished
    \/ GithubMatched \/ GithubDiffers \/ GithubUploaded \/ GithubTimeout
    \/ RecordVoices \/ RunFails
    \/ \E t \in RlTags : Verify(t)

RlSpec == RlInit /\ [][RlNext]_rlVars

----------------------------------------------------------------------------
(* Properties                                                              *)

\* Plan, cache, outputs and run keep their types; a complete distribution has
\* exactly the recordings its source needs.
RlTypeOK ==
    /\ \A f \in RlPrints : /\ rlCache[f] \in RlTakes \union {RlNone}
                           /\ rlStore[f] \in RlTakes \union {RlNone}
    /\ rlFindings \subseteq RlPrints /\ rlVerified \subseteq RlTags
    /\ rlRun.tag \in RlTags \union {RlNone}
    /\ \A t \in RlTags : \A out \in {rlOut[t].dist, rlOut[t].backup, rlOut[t].archive} :
          out # RlNone => /\ out.source \in RlSources
                          /\ DOMAIN out.audio = RlUses[out.source]

\* Whoever downloads a published archive finds every recording it names in the
\* store, with the bytes whose digest it carries: the audio is published first
\* and no later release, and no resumed one, ever replaces it.
PublishedIsServed ==
    \A t \in RlTags : rlGithub[t] # RlNone =>
        \A f \in DOMAIN rlGithub[t].audio : rlStore[f] = rlGithub[t].audio[f]

\* What the tag job accepted is the source of its tag, also when the source was
\* edited while the approval was running.
VerifiedIsTagged ==
    \A t \in rlVerified : rlGithub[t].source = rlTag[t]

\* A distribution that was complete once is never lost: whatever step the
\* replacement ends on, dist/ or its backup has a complete one.
DistNeverLost ==
    [][\A t \in RlTags :
         rlOut[t].dist # RlNone \/ rlOut[t].backup # RlNone
         => rlOut'[t].dist # RlNone \/ rlOut'[t].backup # RlNone]_rlVars

\* A published archive never changes: a resumed or repeated approval of its tag
\* finds the same bytes or ends with an error.
ArchiveImmutable ==
    [][\A t \in RlTags : rlGithub[t] # RlNone => rlGithub'[t] = rlGithub[t]]_rlVars

\* What a release published is whole, from the source of its tag, and stays as
\* it is, however often its approval is interrupted and resumed.
ReleasesStand ==
    /\ [](RlTypeOK /\ PublishedIsServed /\ VerifiedIsTagged)
    /\ DistNeverLost /\ ArchiveImmutable
=============================================================================
