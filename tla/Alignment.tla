------------------------------ MODULE Alignment ------------------------------
(***************************************************************************)
(* Which exercises of a lesson still fit the sections they practise.  An   *)
(* exercise is compared with what its sections said when it was last       *)
(* judged: in the canonical lesson, when the author kept it, or when a     *)
(* regenerated one was made.  A regeneration captures exercise and         *)
(* sections, works for minutes without the lock, and its result is pinned  *)
(* to what it captured, by itself when it leaves an exercise as it is, or  *)
(* by the author's decision.  The canonical lesson may change under a      *)
(* draft, which then pulls the change, file by file.                       *)
(***************************************************************************)
EXTENDS Integers

CONSTANTS
  AlExercises, AlSections,
  AlTexts,     \* what a section or an exercise may say
  AlRefs,      \* derived_from: the sections an exercise practises, by its text
  AlMaxEdits,  \* bound: edits by the author, of the draft or of the canonical lesson
  AlMaxRuns,   \* bound: regenerations
  AlMaxDrafts, \* bound: drafts begun
  AlNone

LessonSource == [section : [AlSections -> AlTexts], exercise : [AlExercises -> AlTexts]]
Drafts == [source : LessonSource, base : LessonSource \cup {AlNone}, born : 1..AlMaxDrafts]
\* The files an author pulls; what the plan says, and that it differs, is left open.
PulledFiles == {"lesson", "exercises", "plan"}
Pulls == [canon : LessonSource, before : LessonSource, todo : SUBSET PulledFiles, refused : BOOLEAN,
          apart : SUBSET AlExercises]

\* A lesson says something at first, and what there is not is no text, no lesson,
\* no draft and no pull.
ASSUME AlignmentAssumption ==
  /\ 0 \in AlTexts
  /\ AlRefs \in [AlExercises -> [AlTexts -> SUBSET AlSections]]
  /\ AlMaxEdits \in Nat /\ AlMaxRuns \in Nat /\ AlMaxDrafts \in Nat \ {0}
  /\ AlNone \notin AlTexts \cup LessonSource \cup Drafts \cup Pulls
  /\ \A n \in 0..AlMaxRuns, e \in AlExercises : <<n, e>> # AlNone

VARIABLES
  alCanon,     \* the canonical lesson
  alDraft,     \* the draft, with the canonical lesson it started from
  alLog,       \* exercise_alignments: the records, each with its time
  alRun,       \* the regeneration: what it captured and what it has made
  alProposal,  \* the blocks of the open regenerate proposal
  alPull,      \* the open canonical proposal; apart (history): exercises rewritten since
  alJudged,    \* history: <<exercise, its text, the sections' texts>> judged together
  alTouched,   \* history: exercises rewritten in the draft since it last was its base
  alCount      \* counters for the bounds, and the records' clock

alVars == <<alCanon, alDraft, alLog, alRun, alProposal, alPull, alJudged, alTouched, alCount>>

AlIdle == [pc |-> "idle", mode |-> "exercises", repair |-> FALSE, pins |-> <<>>, result |-> <<>>, todo |-> {}]
-----------------------------------------------------------------------------
\* read_workbench_source: the draft, or else the canonical lesson.
Lesson == IF alDraft # AlNone THEN alDraft.source ELSE alCanon
Seeded(source, drafts) == [source |-> source, base |-> alCanon, born |-> drafts]
\* _ensure_draft
DraftNow == IF alDraft # AlNone THEN alDraft ELSE Seeded(alCanon, alCount.drafts + 1)
DraftCount == IF alDraft # AlNone THEN alCount.drafts ELSE alCount.drafts + 1

References(e, source) == AlRefs[e][source.exercise[e]]
Against(e, source) == [s \in References(e, source) |-> source.section[s]]
\* The canonical lesson is right by definition.
JudgedIn(source) == {<<e, source.exercise[e], Against(e, source)>> : e \in AlExercises}

\* A record belongs to drafts from the same canonical text, and of a lesson
\* that has none, to the one draft.
Eligible(record, draft) ==
  /\ record.base = draft.base
  /\ draft.base = AlNone => record.born = draft.born

EligibleRecords(e) ==
  IF alDraft = AlNone THEN {} ELSE {r \in alLog : r.key = e /\ Eligible(r, alDraft)}
Latest(records) == CHOOSE r \in records : \A o \in records : o.at <= r.at

CanonicalRecord(e) ==
  [key |-> e, text |-> alCanon.exercise[e], against |-> Against(e, alCanon), outcome |-> "canonical", base |-> AlNone, born |-> 0,
   decision |-> AlNone, at |-> 0]

\* The record an exercise is compared with: the latest, the canonical one being older than any.
AlignmentOf(e) ==
  IF EligibleRecords(e) # {} THEN Latest(EligibleRecords(e))
  ELSE IF alCanon # AlNone THEN CanonicalRecord(e)
  ELSE AlNone

Before(record, s) == IF s \in DOMAIN record.against THEN record.against[s] ELSE AlNone

\* _changed_exercise_sections
ChangedSectionsNow(e) ==
  {<<s, Before(AlignmentOf(e), s), Lesson.section[s]>> :
     s \in {x \in DOMAIN AlignmentOf(e).against : Before(AlignmentOf(e), x) # Lesson.section[x]}}
ChangedSections(e) ==
  LET record == AlignmentOf(e)
  IN {<<s, Before(record, s), Lesson.section[s]>> :
        s \in {x \in References(e, Lesson) \union DOMAIN record.against :
                 Before(record, x) # Lesson.section[x]}}

AlignmentState(e) ==
  LET record == AlignmentOf(e)
      linked == References(e, Lesson) # {}
  IN IF ~linked /\ (record # AlNone => record.against = <<>>) THEN "untracked"
     ELSE IF record = AlNone THEN "unknown"
     ELSE IF ChangedSections(e) # {} THEN "stale"
     ELSE IF ~linked THEN "untracked"
     ELSE "aligned"

\* ExerciseAlignment.capture: what an exercise is about to be judged against.
CapturedPin(e) ==
  [key |-> e, against |-> Against(e, Lesson), text |-> Lesson.exercise[e],
   changed |-> IF AlignmentState(e) = "stale" THEN ChangedSections(e) ELSE {}]

\* ExerciseAlignment.pin, for the draft of the moment; a record of the same
\* decision is replaced.  What the exercise reads then is history.
PinRecordNow(pin, text, outcome, draft, decision) ==
  [key |-> pin.key, text |-> text, against |-> Against(pin.key, Lesson), outcome |-> outcome,
   base |-> IF draft = AlNone THEN AlNone ELSE draft.base,
   born |-> IF draft = AlNone THEN 0 ELSE draft.born,
   decision |-> decision, at |-> alCount.pins + 1]
PinRecord(pin, text, outcome, draft, decision) ==
  [key |-> pin.key, text |-> text, against |-> pin.against, outcome |-> outcome,
   base |-> IF draft = AlNone THEN AlNone ELSE draft.base,
   born |-> IF draft = AlNone THEN 0 ELSE draft.born,
   decision |-> decision, at |-> alCount.pins + 1]
Pinned(pin, text, outcome, draft, decision) ==
  {r \in alLog : decision = AlNone \/ r.decision # decision}
    \cup {PinRecord(pin, text, outcome, draft, decision)}

\* History: an exercise gets another text; the draft goes.
Rewritten(keys) ==
  /\ alTouched' = alTouched \union keys
  /\ alPull' = IF alPull = AlNone THEN AlNone ELSE [alPull EXCEPT !.apart = @ \union keys]
DraftGoes ==
  /\ alDraft' = AlNone /\ alTouched' = {}
  /\ alPull' = IF alPull = AlNone THEN AlNone ELSE [alPull EXCEPT !.apart = AlExercises]
-----------------------------------------------------------------------------
\* The author at the lesson.

EditSection(s) ==
  /\ alCount.edits < AlMaxEdits /\ DraftCount <= AlMaxDrafts /\ Lesson # AlNone
  /\ \E t \in AlTexts \ {Lesson.section[s]} :
       alDraft' = [DraftNow EXCEPT !.source.section[s] = t]
  /\ alCount' = [alCount EXCEPT !.edits = @ + 1, !.drafts = DraftCount]
  /\ UNCHANGED <<alCanon, alLog, alRun, alProposal, alPull, alJudged, alTouched>>

\* By hand, or by an accepted proposal of the chat.
EditExercise(e) ==
  /\ alCount.edits < AlMaxEdits /\ DraftCount <= AlMaxDrafts /\ Lesson # AlNone
  /\ \E t \in AlTexts \ {Lesson.exercise[e]} :
       alDraft' = [DraftNow EXCEPT !.source.exercise[e] = t]
  /\ Rewritten({e})
  /\ alCount' = [alCount EXCEPT !.edits = @ + 1, !.drafts = DraftCount]
  /\ UNCHANGED <<alCanon, alLog, alRun, alProposal, alJudged>>

\* keep_current: the author keeps a stale exercise as it is.
KeepCurrent(e) ==
  /\ Lesson # AlNone
  /\ AlignmentState(e) = "stale"
  /\ alLog' = Pinned(CapturedPin(e), Lesson.exercise[e], "kept", alDraft, AlNone)
  /\ alJudged' = alJudged \union {<<e, Lesson.exercise[e], Against(e, Lesson)>>}
  /\ alCount' = [alCount EXCEPT !.pins = @ + 1]
  /\ UNCHANGED <<alCanon, alDraft, alRun, alProposal, alPull, alTouched>>

\* The canonical lesson is changed, removed or restored in the author's terminal.
TerminalCanonical ==
  /\ alCount.edits < AlMaxEdits
  /\ \E lesson \in (LessonSource \cup {AlNone}) \ {alCanon} :
       /\ alCanon' = lesson
       /\ alJudged' = IF lesson = AlNone THEN alJudged ELSE alJudged \union JudgedIn(lesson)
  /\ alCount' = [alCount EXCEPT !.edits = @ + 1]
  /\ UNCHANGED <<alDraft, alLog, alRun, alProposal, alPull, alTouched>>

\* The draft becomes the canonical lesson, with no decision open and only if
\* that is still the one the draft started from.
PromoteLesson ==
  /\ alDraft # AlNone /\ alDraft.base = alCanon
  /\ alProposal = <<>> /\ alPull = AlNone
  /\ alCanon' = alDraft.source
  /\ alJudged' = alJudged \union JudgedIn(alDraft.source)
  /\ DraftGoes
  /\ UNCHANGED <<alLog, alRun, alProposal, alCount>>

\* The draft goes; its records stay in the log.
DiscardLesson ==
  /\ alDraft # AlNone
  /\ DraftGoes
  /\ UNCHANGED <<alCanon, alLog, alRun, alProposal, alJudged, alCount>>

\* A lesson that was discarded before it was ever promoted is made again.
CreateLesson ==
  /\ Lesson = AlNone /\ alCount.drafts < AlMaxDrafts
  /\ alCount' = [alCount EXCEPT !.drafts = @ + 1]
  /\ \E t \in AlTexts :
       alDraft' = [source |-> [section |-> [s \in AlSections |-> t], exercise |-> [e \in AlExercises |-> t]],
                   base |-> AlNone, born |-> alCount.drafts + 1]
  /\ alTouched' = {}
  /\ UNCHANGED <<alCanon, alLog, alRun, alProposal, alPull, alJudged>>
-----------------------------------------------------------------------------
\* The author takes the canonical lesson's changes into the draft.

Differing(lesson, other) ==
  {f \in {"lesson", "exercises"} : IF f = "lesson" THEN lesson.section # other.section ELSE lesson.exercise # other.exercise}

\* pull_canonical_proposal: a draft that reads like the canonical lesson starts
\* from it; another gets a proposal, which takes the place of the open one.
PullCanonical ==
  /\ alDraft # AlNone /\ alCanon # AlNone
  /\ \E plan \in SUBSET {"plan"} :
       IF alDraft.source = alCanon /\ plan = {}
       THEN /\ alDraft' = [alDraft EXCEPT !.base = alCanon] /\ alTouched' = {}
            /\ UNCHANGED <<alProposal, alPull>>
       ELSE /\ alPull' = [canon |-> alCanon, before |-> alDraft.source,
                          todo |-> Differing(alDraft.source, alCanon) \cup plan,
                          refused |-> FALSE, apart |-> {}]
            /\ alProposal' = <<>>
            /\ UNCHANGED <<alDraft, alTouched>>
  /\ UNCHANGED <<alCanon, alLog, alRun, alJudged, alCount>>

\* One block, or all that are undecided.
OpenBlocks(files) ==
  /\ alPull # AlNone /\ Lesson # AlNone
  /\ files = alPull.todo \/ \E f \in alPull.todo : files = {f}
PullDecided(pull) == IF pull.todo = {} THEN AlNone ELSE pull

\* _record_pulled_canonical: the draft starts from what was pulled when all of it was accepted.
TakenWhenSettled(pull) == pull.todo = {}
TakenWhole(pull) == pull.todo = {} /\ ~pull.refused

AcceptPulled(files) ==
  /\ OpenBlocks(files) /\ DraftCount <= AlMaxDrafts
  /\ Differing(Lesson, alPull.before) \cap files = {}
  /\ LET pulled == [alPull EXCEPT !.todo = @ \ files, !.apart = IF "exercises" \in files THEN {} ELSE @]
         source == [section  |-> IF "lesson" \in files THEN alPull.canon.section ELSE Lesson.section,
                    exercise |-> IF "exercises" \in files THEN alPull.canon.exercise ELSE Lesson.exercise]
         whole == TakenWhole(pulled)
     IN /\ alDraft' = [DraftNow EXCEPT !.source = source, !.base = IF whole THEN alPull.canon ELSE @]
        /\ alTouched' = IF whole THEN pulled.apart
                        ELSE alTouched \union {e \in AlExercises : source.exercise[e] # Lesson.exercise[e]}
        /\ alPull' = PullDecided(pulled)
  /\ alCount' = [alCount EXCEPT !.drafts = DraftCount]
  /\ UNCHANGED <<alCanon, alLog, alRun, alProposal, alJudged>>

RejectPulled(files) ==
  /\ OpenBlocks(files)
  /\ alPull' = PullDecided([alPull EXCEPT !.todo = @ \ files, !.refused = TRUE])
  /\ UNCHANGED <<alCanon, alDraft, alLog, alRun, alProposal, alJudged, alTouched, alCount>>
-----------------------------------------------------------------------------
\* A regeneration of exercises, or of a scope some exercises are in.

CaptureRegeneration(mode, keys) ==
  /\ Lesson # AlNone
  /\ alRun.pc = "idle" /\ alCount.runs < AlMaxRuns /\ keys # {}
  /\ mode = "exercises" => \A e \in keys : AlignmentState(e) = "stale"
  /\ alRun' = [AlIdle EXCEPT !.pc = "generate", !.mode = mode, !.todo = keys,
                             !.pins = [e \in keys |-> CapturedPin(e)],
                             !.result = [e \in keys |-> [text |-> Lesson.exercise[e], supported |-> TRUE]]]
  /\ alCount' = [alCount EXCEPT !.runs = @ + 1]
  /\ UNCHANGED <<alCanon, alDraft, alLog, alProposal, alPull, alJudged, alTouched>>

\* An answer: an exercise, all its changed strings translated or not, the
\* change explained to the owner or not.
ItemAnswers == [text : AlTexts, translated : BOOLEAN, explained : BOOLEAN]
Complete(answer, before) == answer.text = before \/ answer.translated
\* _require_exercise_decision_support
Supported(answer, before) == answer.text = before \/ (answer.translated /\ answer.explained)

\* _invoke_regeneration_item: a second attempt for missing translations only.
ItemResultsUnexplained(before) == {r \in ItemAnswers : Complete(r, before)}
ItemResults(before) ==
  {r \in ItemAnswers : Complete(r, before) /\ Supported(r, before)}
ResultOf(answer, before) == [text |-> answer.text, supported |-> Supported(answer, before)]

\* generate_exercise; a repair that answers with the captured text takes the exercise back.
GenerateExercise(e) ==
  /\ alRun.pc = "generate" /\ alRun.mode = "exercises" /\ e \in alRun.todo
  /\ \E answer \in ItemResults(alRun.pins[e].text) :
       alRun' = [alRun EXCEPT !.todo = @ \ {e}, !.result[e] = ResultOf(answer, alRun.pins[e].text)]
  /\ UNCHANGED <<alCanon, alDraft, alLog, alProposal, alPull, alJudged, alTouched, alCount>>

\* A repair that fails leaves what was made before.
RepairFails(e) ==
  /\ alRun.pc = "generate" /\ alRun.repair /\ e \in alRun.todo
  /\ alRun' = [alRun EXCEPT !.todo = @ \ {e}]
  /\ UNCHANGED <<alCanon, alDraft, alLog, alProposal, alPull, alJudged, alTouched, alCount>>

\* generate_regeneration: one answer for the scope, with something changed.
GenerateScope ==
  /\ alRun.pc = "generate" /\ alRun.mode = "scope"
  /\ \E answers \in [DOMAIN alRun.pins -> ItemAnswers] :
       /\ \A e \in DOMAIN answers : Supported(answers[e], alRun.pins[e].text)
       /\ \E e \in DOMAIN answers : answers[e].text # alRun.pins[e].text
       /\ alRun' = [alRun EXCEPT !.pc = "check", !.todo = {},
                      !.result = [e \in DOMAIN answers |-> ResultOf(answers[e], alRun.pins[e].text)]]
  /\ UNCHANGED <<alCanon, alDraft, alLog, alProposal, alPull, alJudged, alTouched, alCount>>

KeptByRun == {e \in DOMAIN alRun.pins : alRun.result[e].text = alRun.pins[e].text}

\* _is_captured_exercise_current
CapturedIsCurrentAlways(pin) == Lesson # AlNone
CapturedIsCurrent(pin) ==
  /\ Lesson # AlNone
  /\ AlignmentState(pin.key) = "stale"
  /\ Lesson.exercise[pin.key] = pin.text
  /\ ChangedSections(pin.key) = pin.changed

\* assemble_exercises, with _record_unchanged_exercise_alignments under the lock.
AssembleExercises ==
  /\ alRun.pc = "generate" /\ alRun.mode = "exercises" /\ alRun.todo = {}
  /\ LET pinned == {e \in KeptByRun : CapturedIsCurrent(alRun.pins[e])} IN
     /\ alLog' = {r \in alLog : \A e \in pinned : r.decision # <<alCount.runs, e>>}
                   \cup {PinRecord(alRun.pins[e], Lesson.exercise[e], "kept", alDraft, <<alCount.runs, e>>) :
                           e \in pinned}
     /\ alJudged' = alJudged \union {<<e, alRun.pins[e].text, alRun.pins[e].against>> : e \in KeptByRun}
  /\ alRun' = IF KeptByRun = DOMAIN alRun.pins THEN AlIdle ELSE [alRun EXCEPT !.pc = "check"]
  /\ alCount' = [alCount EXCEPT !.pins = @ + 1]
  /\ UNCHANGED <<alCanon, alDraft, alProposal, alPull, alTouched>>

\* check and auto_fix: a failed candidate is made once again.
CheckCandidate(passed) ==
  /\ alRun.pc = "check"
  /\ alRun' = IF passed \/ alRun.repair THEN [alRun EXCEPT !.pc = "review"]
              ELSE [alRun EXCEPT !.pc = "generate", !.repair = TRUE,
                                 !.todo = DOMAIN alRun.pins \ KeptByRun]
  /\ UNCHANGED <<alCanon, alDraft, alLog, alProposal, alPull, alJudged, alTouched, alCount>>

\* A repaired scope that fails goes to the review as it was.
ScopeRepairFails ==
  /\ alRun.pc = "generate" /\ alRun.mode = "scope" /\ alRun.repair
  /\ alRun' = [alRun EXCEPT !.pc = "review", !.todo = {}]
  /\ UNCHANGED <<alCanon, alDraft, alLog, alProposal, alPull, alJudged, alTouched, alCount>>

\* Cancel, deadline, an answer that is refused, the end of the process.
RegenerationEnds ==
  /\ alRun.pc # "idle" /\ alRun' = AlIdle
  /\ UNCHANGED <<alCanon, alDraft, alLog, alProposal, alPull, alJudged, alTouched, alCount>>

\* review: the proposal of the changed exercises, each with its captured pin; an
\* open one is superseded.
StoreRegenerated ==
  /\ alRun.pc = "review"
  /\ alProposal' = [e \in DOMAIN alRun.pins \ KeptByRun |->
                      [before |-> alRun.pins[e].text, after |-> alRun.result[e].text, pin |-> alRun.pins[e],
                       supported |-> alRun.result[e].supported, decision |-> <<alCount.runs, e>>]]
  /\ alRun' = AlIdle /\ alPull' = AlNone
  /\ UNCHANGED <<alCanon, alDraft, alLog, alJudged, alTouched, alCount>>
-----------------------------------------------------------------------------
\* The author's decisions; a block whose exercise has changed can only be rejected.

Undecided(e) == e \in DOMAIN alProposal /\ Lesson # AlNone
Decided(e) == [x \in DOMAIN alProposal \ {e} |-> alProposal[x]]

AcceptRegenerated(e) ==
  /\ Undecided(e) /\ Lesson.exercise[e] = alProposal[e].before /\ DraftCount <= AlMaxDrafts
  /\ alDraft' = [DraftNow EXCEPT !.source.exercise[e] = alProposal[e].after]
  /\ alLog' = Pinned(alProposal[e].pin, alProposal[e].after, "regenerated", DraftNow, alProposal[e].decision)
  /\ alJudged' = alJudged \union {<<e, alProposal[e].after, alProposal[e].pin.against>>}
  /\ Rewritten({e})
  /\ alProposal' = Decided(e)
  /\ alCount' = [alCount EXCEPT !.drafts = DraftCount, !.pins = @ + 1]
  /\ UNCHANGED <<alCanon, alRun>>

KeepProposed(e) ==
  /\ Undecided(e) /\ Lesson.exercise[e] = alProposal[e].before
  /\ alLog' = Pinned(alProposal[e].pin, Lesson.exercise[e], "kept", alDraft, alProposal[e].decision)
  /\ alJudged' = alJudged \union {<<e, alProposal[e].before, alProposal[e].pin.against>>}
  /\ alProposal' = Decided(e)
  /\ alCount' = [alCount EXCEPT !.pins = @ + 1]
  /\ UNCHANGED <<alCanon, alDraft, alRun, alPull, alTouched>>

RejectRegenerated(e) ==
  /\ Undecided(e)
  /\ alProposal' = Decided(e)
  /\ UNCHANGED <<alCanon, alDraft, alLog, alRun, alPull, alJudged, alTouched, alCount>>
-----------------------------------------------------------------------------
AlInit ==
  /\ LET source == [section |-> [s \in AlSections |-> 0], exercise |-> [e \in AlExercises |-> 0]] IN
     \/ /\ alCanon = source /\ alDraft = AlNone
        /\ alJudged = JudgedIn(source)
        /\ alCount = [edits |-> 0, runs |-> 0, drafts |-> 0, pins |-> 0]
     \/ /\ alCanon = AlNone /\ alDraft = [source |-> source, base |-> AlNone, born |-> 1]
        /\ alJudged = {}
        /\ alCount = [edits |-> 0, runs |-> 0, drafts |-> 1, pins |-> 0]
  /\ alLog = {} /\ alRun = AlIdle /\ alProposal = <<>> /\ alPull = AlNone /\ alTouched = {}

AlNext ==
  \/ \E s \in AlSections : EditSection(s)
  \/ \E e \in AlExercises :
       \/ EditExercise(e) \/ KeepCurrent(e)
       \/ GenerateExercise(e) \/ RepairFails(e)
       \/ AcceptRegenerated(e) \/ KeepProposed(e) \/ RejectRegenerated(e)
  \/ TerminalCanonical \/ PromoteLesson \/ DiscardLesson \/ CreateLesson
  \/ PullCanonical
  \/ \E files \in SUBSET PulledFiles : AcceptPulled(files) \/ RejectPulled(files)
  \/ \E mode \in {"exercises", "scope"}, keys \in SUBSET AlExercises : CaptureRegeneration(mode, keys)
  \/ GenerateScope \/ ScopeRepairFails \/ AssembleExercises \/ RegenerationEnds \/ StoreRegenerated
  \/ \E passed \in BOOLEAN : CheckCandidate(passed)

AlSpec == AlInit /\ [][AlNext]_alVars
-----------------------------------------------------------------------------
AlTypeOK ==
  /\ alDraft # AlNone => alDraft.source \in LessonSource /\ alDraft.born \in 1..AlMaxDrafts
  /\ alTouched \subseteq AlExercises /\ DOMAIN alProposal \subseteq AlExercises

\* An exercise shown as aligned was judged, as it reads now, against its
\* sections as they read now, in two cases.  It reads as it did when the record
\* it is compared with was made: whatever was edited, discarded, promoted,
\* pulled or changed in the terminal while a regeneration ran or a proposal was
\* open.  Or that record is the canonical lesson's, the draft has started from
\* that lesson or taken in the whole of it, and nobody has rewritten the
\* exercise since.  Of an exercise rewritten after its record, and of one kept
\* while the canonical lesson has become another, nothing is claimed.
AlignedWasJudged ==
  \A e \in AlExercises :
    /\ Lesson # AlNone
    /\ AlignmentState(e) = "aligned"
    /\ LET record == AlignmentOf(e) IN
         \/ Lesson.exercise[e] = record.text
         \/ /\ record.outcome = "canonical" /\ alDraft # AlNone /\ alDraft.base = alCanon
            /\ e \notin alTouched
    => \E judged \in alJudged :
         /\ judged[1] = e /\ judged[2] = Lesson.exercise[e]
         /\ \A s \in References(e, Lesson) :
              s \in DOMAIN judged[3] /\ judged[3][s] = Lesson.section[s]

\* What a regeneration offers the owner comes with its reasons and translations.
OwnerIsInformed == \A e \in DOMAIN alProposal : alProposal[e].supported /\ alProposal[e].after # alProposal[e].before

\* What is called aligned was judged, and what is offered is explained.
AlignmentSound == AlTypeOK /\ AlignedWasJudged /\ OwnerIsInformed
=============================================================================
