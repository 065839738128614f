---------------------------- MODULE MCWorkbench ----------------------------
(***************************************************************************)
(* The workbench at work on one lesson, one part at a time: `part` is      *)
(* chosen at the start and only its module moves.                          *)
(***************************************************************************)
EXTENDS WorkbenchJobs, Reviews, Voices, LessonAudio, ExerciseReports, Alignment, TLC

CONSTANTS provider, progress, chat, t1,  \* jobs of the pool, a chat turn
          s1, s2,                        \* workers of the pool, jobs of a lesson
          k1, k2, i1,                    \* blocks and an issue; k1 is a character, too
          x, y, z, f1, f2, m1            \* speakers, voices and fingerprints

MCKindOf == [j \in Jobs |-> CASE j = provider -> "provider"
                              [] j = progress -> "cancelable_progress"
                              [] OTHER -> "chat"]
MCTurnOf == [j \in Jobs |-> IF j = chat THEN t1 ELSE NoTurn]

\* Two sentences, spoken alike at first.
MCText == [b \in {k1, k2} |-> f1]

Turn(speaker, character, profile) ==
  [origin |-> "reading", speaker |-> speaker, character |-> character,
   profile |-> profile, named |-> TRUE, pick |-> 0]
MCTurns ==
  {Turn(x, VoNone, VoNone), Turn(y, VoNone, "f"), Turn(z, VoNone, "f"),
   Turn(y, VoNone, VoNone), Turn(x, k1, VoNone), Turn(VoNone, VoNone, VoNone),
   [Turn(VoNone, VoNone, VoNone) EXCEPT !.origin = "example", !.pick = 1],
   [Turn(z, k1, "f") EXCEPT !.named = FALSE]}
Config(pool, over, registry, pins) ==
  [narrator |-> f2, pool |-> pool, over |-> over, registry |-> registry, pins |-> pins,
   profile |-> (f1 :> "f" @@ f2 :> "f" @@ m1 :> "m")]
Known(profile) == k1 :> [name |-> k1, profile |-> profile]
MCConfigs ==
  {Config(<<f1, m1>>, <<>>, Known(VoNone), <<>>),
   Config(<<f1, m1, f2>>, x :> m1, Known("f"), k1 :> f2),
   Config(<<m1, f1>>, y :> f1, Known("m"), k1 :> m1),
   Config(<<m1>>, <<>>, Known("f"), k1 :> m1),
   Config(<<>>, <<>>, <<>>, <<>>),
   Config(<<f1, m1, f2>>, y :> m1, Known("f"), k1 :> f2)}

\* Compiled lessons: references to a whole section, to a block, to one that is
\* hidden and to a section that is not there; every kind of exercise.
MCSections == (x :> <<TRUE, FALSE, TRUE>>) @@ (y :> <<TRUE>>)
Ref(section, block) == [section |-> section, block |-> block]
MCExercise(id, operation, answer, options, references, dangling) ==
  [id |-> id, operation |-> operation, answer |-> answer, options |-> options,
   references |-> references, dangling |-> dangling]
MCOpen(id) == MCExercise(id, "write", <<>>, <<>>, <<>>, FALSE)
MCLessons ==
  {[exercises |-> exercises, sections |-> MCSections] : exercises \in
     {<<MCExercise(k1, "choose", <<"b">>, <<"a", "b">>,
                   <<Ref(y, ErWhole), Ref(x, ErWhole), Ref(y, 0)>>, FALSE), MCOpen(k2)>>,
      <<MCExercise(k1, "judge", <<"True">>, <<>>, <<Ref(z, ErWhole), Ref(x, 2)>>, TRUE),
        MCExercise(k2, "build", <<"b", "a">>, <<>>, <<>>, FALSE)>>,
      <<MCOpen(k1), MCOpen(k2)>>}}

\* An exercise loses its place in the lesson; another keeps it.
MCPlaced == 1 :> {k2, x} @@ 2 :> {x}

\* An exercise that says 1 practises one section more.
MCRefs == [e \in {k1} |-> [t \in {0, 1} |-> IF t = 0 THEN {x} ELSE {x, y}]]

\* The parts share the two values, so that one exchange serves them all.
MCSymmetry == Permutations({s1, s2})

VARIABLE part

WorkbenchInit ==
  /\ part \in {"pool", "reviews", "rereview", "voices", "audio", "reports", "alignment"}
  /\ JobsInit /\ RvInit /\ VoInit /\ LaInit /\ ErInit /\ AlInit
  /\ part # "voices" => voConfig = Config(<<>>, <<>>, <<>>, <<>>)
  /\ part # "reports" => erLesson = CHOOSE lesson \in MCLessons : TRUE
  /\ part # "alignment" => alDraft = AlNone

\* The reports come in the order of the surfaces.
ReportsNext ==
  /\ ErNext
  /\ \A i, j \in DOMAIN Surfaces :
       i < j /\ erReport'[Surfaces[i]].status = "waiting" => erReport'[Surfaces[j]].status = "waiting"

\* Three edits of one draft, or two of two.  A lesson changes in the terminal, in
\* one section and its exercises at most, once after its draft has begun; then
\* the author pulls, and regenerates with no second edit; the plan is pulled alone
\* and decided before anything else happens.
ChangedInTerminal == alCanon' # alCanon /\ alDraft' = alDraft
AlignmentNext ==
  /\ AlNext /\ alCount'.edits + alCount'.drafts <= 4
  /\ ChangedInTerminal =>
       /\ alCanon # AlNone /\ alDraft # AlNone /\ alDraft.base = alCanon
       /\ alCanon' # AlNone => alCanon'.section[y] = alCanon.section[y]
  /\ (alCount'.runs > 0 /\ alDraft' # AlNone /\ alDraft'.base # alCanon') => alCount'.edits <= 2
  /\ (alPull' # AlNone /\ alPull = AlNone) => alDraft.base # alCanon
  /\ (alPull' # AlNone /\ "plan" \in alPull'.todo) =>
       /\ alCount'.runs = 0 /\ alCount'.edits <= 2
       /\ IF alPull = AlNone THEN alPull'.todo = {"plan"}
          ELSE "plan" \in alPull.todo /\ alPull'.todo # alPull.todo

\* "reviews": two jobs, or one and a candidate, and an edit of the lesson or its
\* plan.  "rereview": one job, two edits of anything, faults of one block.  The
\* exercise that keeps its place stays as it is, nobody finds fault with it or asks
\* for its review alone.
PlacedKept ==
  /\ rvText'[x] = rvText[x]
  /\ \A k \in DOMAIN rvLog' : \A f \in rvLog'[k].findings : f.block # x
  /\ \A j \in RvJobs : rvJob[j].pc = "idle" => rvJob'[j].queue # {x}
  /\ rvCandidate' # RvNone => rvCandidate'.text[x] = rvText[x]
ReviewsNext ==
  /\ RvNext /\ PlacedKept /\ rvEdits' > 0 /\ rvVersion' = 1
  /\ rvCandidate' # RvNone => \E job \in RvJobs : rvJob'[job].pc = "idle"
RereviewNext ==
  /\ RvNext /\ PlacedKept /\ rvCandidate' = RvNone
  /\ \A k \in DOMAIN rvLog' : \A f \in rvLog'[k].findings : f.block = k2
  /\ (\E job \in RvJobs : rvJob'[job].pc = "idle")

\* While two jobs record, one the whole lesson, nobody edits and the provider
\* answers at once.
AudioNext ==
  /\ LaNext
  /\ (\A j \in LaJobs : laJob'[j].pc # "idle") =>
       /\ laEdits' = 0 /\ \E j \in LaJobs : laJob'[j].clips = LaBindings
       /\ \A j \in LaJobs : /\ laJob'[j].attempt = 0 /\ ~laJob'[j].renewed
                            /\ \A b \in laJob'[j].wrote : laJob'[j].index[b].found # "invalid"

\* What the reports say of the exercises, in the part it is about.
ReportsSay == part = "reports" => ReportsTruthful

WorkbenchNext ==
  /\ part' = part
  /\ IF part = "pool" THEN JobsNext ELSE UNCHANGED jobVars
  /\ IF part = "voices" THEN VoNext ELSE UNCHANGED voVars
  /\ IF part = "audio" THEN AudioNext ELSE UNCHANGED laVars
  /\ IF part = "reports" THEN ReportsNext ELSE UNCHANGED erVars
  /\ IF part = "alignment" THEN AlignmentNext ELSE UNCHANGED alVars
  /\ CASE part = "reviews" -> ReviewsNext
       [] part = "rereview" -> RereviewNext
       [] OTHER -> UNCHANGED rvVars

WorkbenchSpec ==
  /\ WorkbenchInit
  /\ [][WorkbenchNext]_<<part, jobVars, rvVars, voVars, laVars, erVars, alVars>>
=============================================================================
