--------------------------- MODULE Lessons_proofs ---------------------------
(***************************************************************************)
(* What the workbench says of one lesson, for any lesson and any number of *)
(* edits, generations, recordings and reviews: which exercises still fit   *)
(* the text, which recordings are right, what a review said of what, and   *)
(* that an exercise which was accepted can be answered.                    *)
(***************************************************************************)
EXTENDS Alignment, LessonAudio, Reviews, LessonExercises, FiniteSetTheorems,
        SequenceTheorems, WellFoundedInduction, TLAPS

(***************************************************************************)
(* Exercises and the sections they practise.                               *)
(***************************************************************************)
\* What a generation remembers of an exercise: what it was read against.
Pins ==
  [key : AlExercises, against : UNION {[S -> AlTexts] : S \in SUBSET AlSections}, text : AlTexts,
   changed : SUBSET (AlSections \X (AlTexts \cup {AlNone}) \X AlTexts)]

\* What the alignment log may hold: judged, made or kept, and when.
Records ==
  [key : AlExercises, text : AlTexts, against : UNION {[S -> AlTexts] : S \in SUBSET AlSections},
   outcome : {"kept", "regenerated"}, base : LessonSource \cup {AlNone}, born : 0..AlMaxDrafts,
   decision : {AlNone} \cup ((0..AlMaxRuns) \X AlExercises), at : Nat]

\* What is made comes with its reasons and translations.
Results == [text : AlTexts, supported : {TRUE}]

\* The bounds of the edits, runs, drafts and pins.
AlCountFits ==
  alCount \in [edits : Nat, runs : 0..AlMaxRuns, drafts : 0..AlMaxDrafts, pins : Nat]

\* The lesson and its draft are a lesson and a draft.
DraftFits ==
  /\ alCanon \in LessonSource \cup {AlNone}
  /\ alDraft # AlNone => alDraft \in Drafts /\ alDraft.born <= alCount.drafts
  /\ alTouched \subseteq AlExercises

\* A record replaces only records of its own exercise.
LogFits ==
  /\ alLog \subseteq Records
  /\ \A r \in alLog :
       /\ r.at <= alCount.pins /\ r.born <= alCount.drafts
       /\ r.decision # AlNone => r.decision[2] = r.key

\* A generation remembers each exercise it is for, and has made a part of them.
RunFits ==
  /\ alRun \in [pc : {"idle", "generate", "check", "review"}, mode : {"exercises", "scope"},
                repair : BOOLEAN, pins : UNION {[S -> Pins] : S \in SUBSET AlExercises},
                result : UNION {[S -> Results] : S \in SUBSET AlExercises},
                todo : SUBSET AlExercises]
  /\ DOMAIN alRun.result = DOMAIN alRun.pins
  /\ alRun.todo \subseteq DOMAIN alRun.pins
  /\ \A e \in DOMAIN alRun.pins : alRun.pins[e].key = e

\* A proposed exercise changes the text and brings its reasons.
ProposalFits ==
  /\ DOMAIN alProposal \subseteq AlExercises
  /\ \A e \in DOMAIN alProposal :
       /\ alProposal[e] \in [before : AlTexts, after : AlTexts, pin : Pins, supported : {TRUE},
                             decision : (0..AlMaxRuns) \X {e}]
       /\ alProposal[e].pin.key = e /\ alProposal[e].after # alProposal[e].before

\* The canonical lesson is right by definition.
CanonJudged ==
  alCanon # AlNone =>
    \A e \in AlExercises : <<e, alCanon.exercise[e], Against(e, alCanon)>> \in alJudged

\* What a record pins was judged together with what the exercise read then.
RecordsJudged == \A r \in alLog : <<r.key, r.text, r.against>> \in alJudged

\* An exercise nobody rewrote reads as in the canonical lesson the draft starts from.
UnwrittenIsBase ==
  alDraft # AlNone /\ alDraft.base # AlNone =>
    \A e \in AlExercises \ alTouched : alDraft.source.exercise[e] = alDraft.base.exercise[e]

\* Once the pulled exercises are in the draft, those nobody rewrote since read as pulled.
PulledAsTaken(pull) ==
  /\ pull \in Pulls
  /\ "exercises" \notin pull.todo /\ ~pull.refused =>
       \A e \in AlExercises \ pull.apart :
         alDraft # AlNone /\ alDraft.source.exercise[e] = pull.canon.exercise[e]
PullFits == alPull # AlNone => PulledAsTaken(alPull)

\* Each text that is shown as aligned was judged, or made, as it is.
AlInv ==
  /\ AlCountFits /\ DraftFits /\ LogFits /\ RunFits /\ ProposalFits
  /\ CanonJudged /\ RecordsJudged /\ UnwrittenIsBase /\ PullFits

\* A set of naturals that is not empty and has a bound has a greatest element.
LEMMA Greatest ==
  ASSUME NEW n \in Nat, NEW S \in SUBSET (0..n), S # {}
  PROVE  \E m \in S : \A k \in S : k <= m
<1> DEFINE Above(m) == {k \in S : m <= k}
           Tails == {Above(m) : m \in S}
<1>1. IsFiniteSet(S)
  <2>1. IsFiniteSet(0..n)
    BY FS_Interval
  <2> QED BY <2>1, FS_Subset
<1>2. Tails \subseteq FiniteSubsetsOf(S) /\ Tails # {}
  <2>1. FiniteSubsetsOf(S) = SUBSET S
    BY <1>1, FS_FiniteSubsetsOfFinite
  <2>2. Tails \subseteq SUBSET S /\ Tails # {}
    OBVIOUS
  <2> QED BY <2>1, <2>2
<1>3. IsWellFoundedOn(StrictSubsetOrdering(S), FiniteSubsetsOf(S))
  BY FS_StrictSubsetOrderingWellFounded
<1>4. \E t \in Tails : \A u \in Tails : <<u, t>> \notin StrictSubsetOrdering(S)
  <2> HIDE DEF Tails
  <2> QED BY <1>2, <1>3, WFMin
<1>5. PICK m \in S : \A k \in S : <<Above(k), Above(m)>> \notin StrictSubsetOrdering(S)
  BY <1>4
<1>6. ASSUME NEW k \in S, k > m PROVE FALSE
  <2>0. m \in Int /\ k \in Int /\ \A i \in S : i \in Int
    OBVIOUS
  <2>1. Above(k) \subseteq Above(m) /\ m \in Above(m) /\ m \notin Above(k)
    <3>1. \A i \in S : k <= i => m <= i
      BY <1>6, <2>0
    <3>2. m <= m /\ ~(k <= m)
      BY <1>6, <2>0
    <3> QED BY <3>1, <3>2
  <2>2. Above(k) \in SUBSET S /\ Above(m) \in SUBSET S /\ Above(k) # Above(m)
    BY <2>1
  <2> QED BY <1>5, <2>1, <2>2 DEF StrictSubsetOrdering
<1> QED BY <1>6

\* The lesson the author sees: the working draft, or the canonical package.
LEMMA LessonFits ==
  ASSUME AlInv
  PROVE  /\ Lesson # AlNone => Lesson \in LessonSource
         /\ Lesson # AlNone /\ DraftCount <= AlMaxDrafts =>
              /\ DraftNow \in Drafts /\ DraftNow # AlNone /\ DraftNow.source = Lesson
              /\ DraftNow.born <= DraftCount /\ DraftCount \in Nat
BY AlignmentAssumption
   DEF AlInv, DraftFits, AlCountFits, Lesson, DraftNow, DraftCount, Seeded, Drafts

\* A draft that is begun reads like the canonical lesson it starts from.
LEMMA DraftNowFits ==
  ASSUME AlInv, Lesson # AlNone, DraftCount <= AlMaxDrafts
  PROVE  /\ DraftNow.base # AlNone =>
              \A e \in AlExercises \ alTouched : DraftNow.source.exercise[e] = DraftNow.base.exercise[e]
         /\ alPull # AlNone /\ "exercises" \notin alPull.todo /\ ~alPull.refused =>
              \A e \in AlExercises \ alPull.apart :
                DraftNow.source.exercise[e] = alPull.canon.exercise[e]
<1>1. CASE alDraft = AlNone
  <2>1. DraftNow.source = alCanon /\ DraftNow.base = alCanon
    BY <1>1 DEF DraftNow, Seeded
  <2> QED BY <1>1, <2>1 DEF AlInv, PullFits, PulledAsTaken
<1>2. CASE alDraft # AlNone
  BY <1>2 DEF DraftNow, AlInv, UnwrittenIsBase, PullFits, PulledAsTaken
<1> QED BY <1>1, <1>2

\* What is remembered of a pull when exercises are rewritten, or the draft goes.
LEMMA RewrittenFits ==
  ASSUME AlInv, alPull # AlNone, NEW keys \in SUBSET AlExercises,
         alPull' = [alPull EXCEPT !.apart = @ \cup keys] \/ alPull' = [alPull EXCEPT !.apart = keys]
  PROVE  /\ alPull' \in Pulls /\ alPull'.todo = alPull.todo /\ alPull'.refused = alPull.refused
         /\ alPull'.canon = alPull.canon /\ keys \subseteq alPull'.apart
         /\ alPull' = [alPull EXCEPT !.apart = @ \cup keys] => alPull.apart \subseteq alPull'.apart
BY DEF AlInv, PullFits, PulledAsTaken, Pulls

\* A draft of which some exercises are rewritten.
LEMMA DraftWritten ==
  ASSUME AlInv, Lesson # AlNone, DraftCount <= AlMaxDrafts, NEW keys \in SUBSET AlExercises,
         alDraft' # AlNone, alDraft'.base = DraftNow.base,
         \A d \in AlExercises \ keys : alDraft'.source.exercise[d] = DraftNow.source.exercise[d],
         alTouched \cup keys \subseteq alTouched',
         alPull # AlNone => \/ alPull' = alPull /\ keys = {}
                            \/ alPull' = [alPull EXCEPT !.apart = @ \cup keys],
         alPull = AlNone => alPull' = AlNone
  PROVE  UnwrittenIsBase' /\ PullFits'
<1>1. UnwrittenIsBase'
  BY DraftNowFits DEF UnwrittenIsBase
<1>2. ASSUME alPull' # AlNone PROVE PulledAsTaken(alPull)'
  <2>1. /\ alPull # AlNone /\ alPull' \in Pulls /\ alPull'.todo = alPull.todo
        /\ alPull'.refused = alPull.refused /\ alPull'.canon = alPull.canon
        /\ keys \cup alPull.apart \subseteq alPull'.apart
    <3>1. CASE alPull' = alPull /\ keys = {}
      BY <1>2, <3>1 DEF AlInv, PullFits, PulledAsTaken
    <3>2. CASE alPull' = [alPull EXCEPT !.apart = @ \cup keys]
      BY <1>2, <3>2, RewrittenFits
    <3> QED BY <1>2, <3>1, <3>2
  <2> QED BY <2>1, DraftNowFits DEF PulledAsTaken
<1> QED BY <1>1, <1>2 DEF PullFits

\* With the draft goes what was said of it.
LEMMA DraftGone ==
  ASSUME AlInv, DraftGoes
  PROVE  UnwrittenIsBase' /\ PullFits'
<1>1. UnwrittenIsBase'
  BY DEF DraftGoes, UnwrittenIsBase
<1>2. ASSUME alPull' # AlNone PROVE PulledAsTaken(alPull)'
  <2>1. alPull # AlNone /\ alPull' = [alPull EXCEPT !.apart = AlExercises]
    BY <1>2 DEF DraftGoes
  <2>2. alPull' \in Pulls /\ AlExercises \subseteq alPull'.apart
    BY <2>1, RewrittenFits
  <2> QED BY <2>2 DEF PulledAsTaken
<1> QED BY <1>1, <1>2 DEF PullFits

\* What an exercise is compared with are texts of sections.
LEMMA AgainstFits ==
  ASSUME NEW e \in AlExercises, NEW source \in LessonSource
  PROVE  /\ References(e, source) \in SUBSET AlSections
         /\ Against(e, source) \in [References(e, source) -> AlTexts]
BY AlignmentAssumption DEF References, Against, LessonSource

\* An exercise with records has a latest one.
LEMMA LatestFits ==
  ASSUME AlInv, NEW e \in AlExercises, EligibleRecords(e) # {}
  PROVE  /\ Latest(EligibleRecords(e)) \in EligibleRecords(e)
         /\ \A o \in EligibleRecords(e) : o.at <= Latest(EligibleRecords(e)).at
<1>1. \A r \in EligibleRecords(e) : r.at \in 0..alCount.pins
  BY DEF AlInv, LogFits, Records, EligibleRecords
<1>2. alCount.pins \in Nat
  BY DEF AlInv, AlCountFits
<1> DEFINE times == {r.at : r \in EligibleRecords(e)}
<1>3. \E m \in times : \A n \in times : n <= m
  <2>1. times \in SUBSET (0..alCount.pins) /\ times # {}
    BY <1>1
  <2> HIDE DEF times
  <2> QED BY <1>2, <2>1, Greatest
<1>4. PICK r \in EligibleRecords(e) : \A o \in EligibleRecords(e) : o.at <= r.at
  BY <1>3
<1> QED BY <1>4 DEF Latest

\* What an exercise is compared with.
LEMMA AlignmentFits ==
  ASSUME AlInv, NEW e \in AlExercises, AlignmentOf(e) # AlNone
  PROVE  /\ AlignmentOf(e).against \in UNION {[S -> AlTexts] : S \in SUBSET AlSections}
         /\ EligibleRecords(e) = {} => alCanon # AlNone /\ AlignmentOf(e) = CanonicalRecord(e)
         /\ EligibleRecords(e) # {} =>
              /\ AlignmentOf(e) \in EligibleRecords(e)
              /\ \A o \in EligibleRecords(e) : o.at <= AlignmentOf(e).at
<1>1. CASE EligibleRecords(e) # {}
  <2>1. AlignmentOf(e) = Latest(EligibleRecords(e))
    BY <1>1 DEF AlignmentOf
  <2>2. AlignmentOf(e) \in Records
    BY <1>1, <2>1, LatestFits DEF EligibleRecords, AlInv, LogFits
  <2> QED BY <1>1, <2>1, <2>2, LatestFits DEF Records
<1>2. CASE EligibleRecords(e) = {}
  <2>1. alCanon # AlNone /\ AlignmentOf(e) = CanonicalRecord(e)
    BY <1>2 DEF AlignmentOf
  <2>2. Against(e, alCanon) \in UNION {[S -> AlTexts] : S \in SUBSET AlSections}
    BY <2>1, AgainstFits DEF AlInv, DraftFits
  <2> QED BY <1>2, <2>1, <2>2 DEF CanonicalRecord
<1> QED BY <1>1, <1>2

\* What a generation captures is what the lesson reads.
LEMMA CapturedFits ==
  ASSUME AlInv, Lesson # AlNone, NEW e \in AlExercises
  PROVE  /\ CapturedPin(e) \in Pins /\ CapturedPin(e).key = e
         /\ CapturedPin(e).text = Lesson.exercise[e]
         /\ CapturedPin(e).against = Against(e, Lesson)
<1>1. Lesson \in LessonSource
  BY LessonFits
<1>2. Against(e, Lesson) \in UNION {[S -> AlTexts] : S \in SUBSET AlSections}
  BY <1>1, AgainstFits
<1>3. Lesson.exercise[e] \in AlTexts /\ Lesson.section \in [AlSections -> AlTexts]
  BY <1>1 DEF LessonSource
<1>4. ASSUME AlignmentState(e) = "stale"
      PROVE  ChangedSections(e) \in SUBSET (AlSections \X (AlTexts \cup {AlNone}) \X AlTexts)
  <2>1. ASSUME AlignmentOf(e) = AlNone PROVE FALSE
    <3>1. AlignmentState(e) \in {"untracked", "unknown"}
      <4>1. CASE References(e, Lesson) = {}
        BY <2>1, <4>1 DEF AlignmentState
      <4>2. CASE References(e, Lesson) # {}
        BY <2>1, <4>2 DEF AlignmentState
      <4> QED BY <4>1, <4>2
    <3> QED BY <1>4, <3>1
  <2>2. PICK S \in SUBSET AlSections : AlignmentOf(e).against \in [S -> AlTexts]
    BY <2>1, AlignmentFits
  <2>3. \A s : Before(AlignmentOf(e), s) \in AlTexts \cup {AlNone}
    BY <2>2 DEF Before
  <2>4. References(e, Lesson) \cup DOMAIN AlignmentOf(e).against \subseteq AlSections
    BY <1>1, <2>2, AgainstFits
  <2> QED BY <1>3, <2>3, <2>4 DEF ChangedSections
<1> QED BY <1>2, <1>3, <1>4 DEF CapturedPin, Pins

\* A step that leaves package, draft, log and pull alone disturbs no judgement.
LEMMA QuietFacts ==
  ASSUME AlInv, UNCHANGED <<alCanon, alDraft, alLog, alPull, alJudged, alTouched>>
  PROVE  CanonJudged' /\ RecordsJudged' /\ UnwrittenIsBase' /\ PullFits'
BY DEF AlInv, CanonJudged, RecordsJudged, UnwrittenIsBase, PullFits, PulledAsTaken

\* No generation runs.
LEMMA IdleFits ==
  ASSUME alRun' = AlIdle
  PROVE  RunFits'
<1>1. AlIdle.pins = <<>> /\ AlIdle.result = <<>> /\ DOMAIN <<>> = {}
  BY DEF AlIdle
<1>2. <<>> \in [{} -> Pins] /\ <<>> \in [{} -> Results]
  OBVIOUS
<1> QED BY <1>1, <1>2 DEF AlIdle, RunFits

\* A record made of a pin is one of the log's, with the next time.
LEMMA PinFits ==
  ASSUME AlInv, NEW pin \in Pins, NEW text \in AlTexts, NEW outcome \in {"kept", "regenerated"},
         NEW draft \in Drafts \cup {AlNone},
         NEW decision \in {AlNone} \cup ((0..AlMaxRuns) \X {pin.key}),
         NEW record, record = PinRecord(pin, text, outcome, draft, decision)
  PROVE  /\ record \in Records /\ record.at = alCount.pins + 1
         /\ record.born = IF draft = AlNone THEN 0 ELSE draft.born
         /\ record.decision = decision /\ record.key = pin.key
         /\ record.text = text /\ record.against = pin.against
BY AlignmentAssumption DEF AlInv, AlCountFits, Drafts, Pins, Records, PinRecord

\* A section of a draft is rewritten.
LEMMA SectionEdited ==
  ASSUME NEW draft \in Drafts, NEW s \in AlSections, NEW t \in AlTexts
  PROVE  /\ [draft EXCEPT !.source.section[s] = t] \in Drafts
         /\ [draft EXCEPT !.source.section[s] = t].base = draft.base
         /\ [draft EXCEPT !.source.section[s] = t].born = draft.born
         /\ [draft EXCEPT !.source.section[s] = t].source.exercise = draft.source.exercise
<1>1. /\ draft.source \in LessonSource
      /\ [draft.source.section EXCEPT ![s] = t] \in [AlSections -> AlTexts]
  BY DEF Drafts, LessonSource
<1>2. [draft.source EXCEPT !.section[s] = t] \in LessonSource
  BY <1>1 DEF LessonSource
<1> QED BY <1>1, <1>2 DEF Drafts, LessonSource

\* An exercise of a draft is rewritten.
LEMMA ExerciseEdited ==
  ASSUME NEW draft \in Drafts, NEW e \in AlExercises, NEW t \in AlTexts
  PROVE  /\ [draft EXCEPT !.source.exercise[e] = t] \in Drafts
         /\ [draft EXCEPT !.source.exercise[e] = t].base = draft.base
         /\ [draft EXCEPT !.source.exercise[e] = t].born = draft.born
         /\ [draft EXCEPT !.source.exercise[e] = t].source.exercise[e] = t
         /\ \A d \in AlExercises : d # e =>
              [draft EXCEPT !.source.exercise[e] = t].source.exercise[d] = draft.source.exercise[d]
<1>1. /\ draft.source \in LessonSource
      /\ [draft.source.exercise EXCEPT ![e] = t] \in [AlExercises -> AlTexts]
  BY DEF Drafts, LessonSource
<1>2. [draft.source EXCEPT !.exercise[e] = t] \in LessonSource
  BY <1>1 DEF LessonSource
<1> QED BY <1>1, <1>2 DEF Drafts, LessonSource

\* EditSection: the draft may be created; what was read is what was there.
LEMMA EditSectionStep ==
  ASSUME AlInv, NEW s \in AlSections, EditSection(s)
  PROVE  AlInv'
<1>0. /\ alDraft' \in Drafts /\ alDraft' # AlNone /\ alDraft'.base = DraftNow.base
      /\ alDraft'.born = DraftNow.born
      /\ alDraft'.source.exercise = DraftNow.source.exercise
  <2>1. PICK t \in AlTexts : alDraft' = [DraftNow EXCEPT !.source.section[s] = t]
    BY DEF EditSection
  <2>2. DraftNow \in Drafts
    BY LessonFits DEF EditSection
  <2>3. alDraft' \in Drafts
    BY <2>1, <2>2, SectionEdited
  <2>4. /\ alDraft'.base = DraftNow.base /\ alDraft'.born = DraftNow.born
        /\ alDraft'.source.exercise = DraftNow.source.exercise
    BY <2>1, <2>2, SectionEdited
  <2> QED BY <2>3, <2>4, AlignmentAssumption
<1>1. AlCountFits'
  <2>1. DraftCount \in 0..AlMaxDrafts
    BY LessonFits, AlignmentAssumption DEF EditSection
  <2>2. alCount'.edits \in Nat
    BY DEF EditSection, AlInv, AlCountFits
  <2>3. alCount' = [alCount EXCEPT !.edits = @ + 1, !.drafts = DraftCount]
    BY DEF EditSection
  <2> QED BY <2>1, <2>2, <2>3 DEF AlInv, AlCountFits
<1>2. DraftFits'
  <2>1. alCount'.drafts = DraftCount
    BY DEF EditSection, AlInv, AlCountFits
  <2> QED BY <1>0, <2>1, LessonFits DEF AlInv, DraftFits, EditSection
<1>3. LogFits'
  BY AlignmentAssumption DEF AlInv, AlCountFits, EditSection, DraftCount, LogFits, Records
<1>4. RunFits' /\ ProposalFits'
  BY DEF AlInv, RunFits, ProposalFits, EditSection
<1>5. CanonJudged' /\ RecordsJudged'
  BY DEF AlInv, CanonJudged, RecordsJudged, EditSection
<1>6. UnwrittenIsBase' /\ PullFits'
  <2> DEFINE keys == {}
  <2>1. keys \in SUBSET AlExercises /\ (alPull # AlNone => alPull' = alPull /\ keys = {})
    BY DEF EditSection
  <2> QED BY <1>0, <2>1, DraftWritten DEF EditSection
<1> QED BY <1>1, <1>2, <1>3, <1>4, <1>5, <1>6 DEF AlInv

\* EditExercise: the exercise is touched from now on.
LEMMA EditExerciseStep ==
  ASSUME AlInv, NEW e \in AlExercises, EditExercise(e)
  PROVE  AlInv'
<1>0. /\ alDraft' \in Drafts /\ alDraft' # AlNone /\ alDraft'.base = DraftNow.base
      /\ alDraft'.born = DraftNow.born
      /\ \A d \in AlExercises \ {e} : alDraft'.source.exercise[d] = DraftNow.source.exercise[d]
  <2>1. PICK t \in AlTexts : alDraft' = [DraftNow EXCEPT !.source.exercise[e] = t]
    BY DEF EditExercise
  <2>2. DraftNow \in Drafts
    BY LessonFits DEF EditExercise
  <2>3. alDraft' \in Drafts
    BY <2>1, <2>2, ExerciseEdited
  <2>4. /\ alDraft'.base = DraftNow.base /\ alDraft'.born = DraftNow.born
        /\ \A d \in AlExercises \ {e} : alDraft'.source.exercise[d] = DraftNow.source.exercise[d]
    BY <2>1, <2>2, ExerciseEdited
  <2> QED BY <2>3, <2>4, AlignmentAssumption
<1>1. AlCountFits'
  <2>1. DraftCount \in 0..AlMaxDrafts
    BY LessonFits, AlignmentAssumption DEF EditExercise
  <2>2. alCount'.edits \in Nat
    BY DEF EditExercise, AlInv, AlCountFits
  <2>3. alCount' = [alCount EXCEPT !.edits = @ + 1, !.drafts = DraftCount]
    BY DEF EditExercise
  <2> QED BY <2>1, <2>2, <2>3 DEF AlInv, AlCountFits
<1>2. DraftFits'
  <2>1. alCount'.drafts = DraftCount
    BY DEF EditExercise, AlInv, AlCountFits
  <2> QED BY <1>0, <2>1, LessonFits DEF AlInv, DraftFits, EditExercise, Rewritten
<1>3. LogFits'
  BY AlignmentAssumption DEF AlInv, AlCountFits, EditExercise, DraftCount, LogFits, Records
<1>4. RunFits' /\ ProposalFits'
  BY DEF AlInv, RunFits, ProposalFits, EditExercise
<1>5. CanonJudged' /\ RecordsJudged'
  BY DEF AlInv, CanonJudged, RecordsJudged, EditExercise
<1>6. UnwrittenIsBase' /\ PullFits'
  <2>1. {e} \in SUBSET AlExercises
    OBVIOUS
  <2> QED BY <1>0, <2>1, DraftWritten DEF EditExercise, Rewritten
<1> QED BY <1>1, <1>2, <1>3, <1>4, <1>5, <1>6 DEF AlInv

\* KeepCurrent: the author judges the exercise as the lesson reads now.
LEMMA KeepCurrentStep ==
  ASSUME AlInv, NEW e \in AlExercises, KeepCurrent(e)
  PROVE  AlInv'
<1>0. /\ CapturedPin(e) \in Pins /\ CapturedPin(e).key = e
      /\ CapturedPin(e).against = Against(e, Lesson) /\ Lesson.exercise[e] \in AlTexts
  BY CapturedFits, LessonFits DEF KeepCurrent, LessonSource
<1> DEFINE record == PinRecord(CapturedPin(e), Lesson.exercise[e], "kept", alDraft, AlNone)
<1>a. record = PinRecord(CapturedPin(e), Lesson.exercise[e], "kept", alDraft, AlNone)
  OBVIOUS
<1>c. alLog' = alLog \cup {record}
  BY DEF KeepCurrent, Pinned
<1> HIDE DEF record
<1>b. /\ record \in Records /\ record.at = alCount.pins + 1 /\ record.born <= alCount.drafts
      /\ record.decision = AlNone /\ record.key = e
      /\ record.text = Lesson.exercise[e] /\ record.against = Against(e, Lesson)
  <2>1. /\ alDraft \in Drafts \cup {AlNone} /\ alCount.drafts \in Nat
        /\ alDraft # AlNone => alDraft.born <= alCount.drafts
    BY DEF AlInv, DraftFits, AlCountFits
  <2>2. /\ record \in Records /\ record.at = alCount.pins + 1
        /\ record.born = IF alDraft = AlNone THEN 0 ELSE alDraft.born
        /\ record.decision = AlNone /\ record.key = CapturedPin(e).key
        /\ record.text = Lesson.exercise[e] /\ record.against = CapturedPin(e).against
    BY <1>0, <1>a, <2>1, PinFits
  <2> QED BY <1>0, <2>1, <2>2
<1>d. alCount'.pins = alCount.pins + 1 /\ alCount'.drafts = alCount.drafts
  BY DEF KeepCurrent, AlInv, AlCountFits
<1>1. AlCountFits'
  BY DEF AlInv, AlCountFits, KeepCurrent
<1>2. DraftFits'
  BY <1>d DEF AlInv, DraftFits, KeepCurrent
<1>3. LogFits'
  BY <1>b, <1>c, <1>d DEF AlInv, AlCountFits, LogFits, Records
<1>4. RunFits' /\ ProposalFits'
  BY DEF AlInv, RunFits, ProposalFits, KeepCurrent
<1>5. CanonJudged' /\ RecordsJudged'
  BY <1>b, <1>c DEF AlInv, CanonJudged, RecordsJudged, KeepCurrent
<1>6. UnwrittenIsBase' /\ PullFits'
  BY DEF AlInv, UnwrittenIsBase, PullFits, PulledAsTaken, KeepCurrent
<1> QED BY <1>1, <1>2, <1>3, <1>4, <1>5, <1>6 DEF AlInv

\* TerminalCanonical: another canonical lesson, right by definition.
LEMMA TerminalCanonicalStep ==
  ASSUME AlInv, TerminalCanonical
  PROVE  AlInv'
<1>1. AlCountFits'
  BY DEF AlInv, AlCountFits, TerminalCanonical
<1>2. DraftFits' /\ LogFits'
  <2>1. alCount'.drafts = alCount.drafts /\ alCount'.pins = alCount.pins
    BY DEF TerminalCanonical, AlInv, AlCountFits
  <2> QED BY <2>1 DEF AlInv, DraftFits, LogFits, TerminalCanonical
<1>3. RunFits' /\ ProposalFits'
  BY DEF AlInv, RunFits, ProposalFits, TerminalCanonical
<1>4. CanonJudged'
  BY DEF CanonJudged, TerminalCanonical, JudgedIn
<1>5. RecordsJudged'
  BY DEF AlInv, RecordsJudged, TerminalCanonical
<1>6. UnwrittenIsBase' /\ PullFits'
  BY DEF AlInv, UnwrittenIsBase, PullFits, PulledAsTaken, TerminalCanonical
<1> QED BY <1>1, <1>2, <1>3, <1>4, <1>5, <1>6 DEF AlInv

\* PromoteLesson: the draft becomes the package, which is right by definition.
LEMMA PromoteLessonStep ==
  ASSUME AlInv, PromoteLesson
  PROVE  AlInv'
<1>1. AlCountFits' /\ LogFits' /\ RunFits' /\ ProposalFits'
  BY DEF AlInv, AlCountFits, LogFits, RunFits, ProposalFits, PromoteLesson
<1>2. DraftFits'
  BY DEF AlInv, DraftFits, PromoteLesson, DraftGoes, Drafts
<1>3. CanonJudged' /\ RecordsJudged'
  BY DEF AlInv, CanonJudged, RecordsJudged, PromoteLesson, JudgedIn
<1>4. UnwrittenIsBase' /\ PullFits'
  BY DraftGone DEF PromoteLesson
<1> QED BY <1>1, <1>2, <1>3, <1>4 DEF AlInv

\* DiscardLesson: the draft goes, with what was touched in it.
LEMMA DiscardLessonStep ==
  ASSUME AlInv, DiscardLesson
  PROVE  AlInv'
<1>1. AlCountFits' /\ LogFits' /\ RunFits' /\ ProposalFits'
  BY DEF AlInv, AlCountFits, LogFits, RunFits, ProposalFits, DiscardLesson
<1>2. DraftFits'
  BY DEF AlInv, DraftFits, DiscardLesson, DraftGoes
<1>3. CanonJudged' /\ RecordsJudged'
  BY DEF AlInv, CanonJudged, RecordsJudged, DiscardLesson
<1>4. UnwrittenIsBase' /\ PullFits'
  BY DraftGone DEF DiscardLesson
<1> QED BY <1>1, <1>2, <1>3, <1>4 DEF AlInv

\* CreateLesson: a lesson without a package gets its first draft.
LEMMA CreateLessonStep ==
  ASSUME AlInv, CreateLesson
  PROVE  AlInv'
<1>0. alDraft = AlNone /\ alDraft' \in Drafts /\ alDraft'.base = AlNone /\ alDraft'.born = alCount.drafts + 1
  BY AlignmentAssumption DEF AlInv, AlCountFits, DraftFits, CreateLesson, Lesson, Drafts, LessonSource
<1>1. AlCountFits'
  BY AlignmentAssumption DEF AlInv, AlCountFits, CreateLesson
<1>2. DraftFits'
  BY <1>0 DEF AlInv, AlCountFits, DraftFits, CreateLesson
<1>3. LogFits'
  BY AlignmentAssumption DEF AlInv, AlCountFits, CreateLesson, LogFits, Records
<1>4. RunFits' /\ ProposalFits'
  BY DEF AlInv, RunFits, ProposalFits, CreateLesson
<1>5. CanonJudged' /\ RecordsJudged'
  BY DEF AlInv, CanonJudged, RecordsJudged, CreateLesson
<1>6. UnwrittenIsBase'
  BY <1>0 DEF UnwrittenIsBase
<1>7. PullFits'
  BY <1>0 DEF AlInv, PullFits, PulledAsTaken, CreateLesson
<1> QED BY <1>1, <1>2, <1>3, <1>4, <1>5, <1>6, <1>7 DEF AlInv

\* PullCanonical: the draft starts from what it reads like, or a pull is open.
LEMMA PullCanonicalStep ==
  ASSUME AlInv, PullCanonical
  PROVE  AlInv'
<1>1. AlCountFits' /\ LogFits' /\ RunFits' /\ CanonJudged' /\ RecordsJudged'
  BY DEF AlInv, AlCountFits, LogFits, RunFits, CanonJudged, RecordsJudged, PullCanonical
<1>2. alCanon \in LessonSource /\ alDraft \in Drafts
  BY DEF AlInv, DraftFits, PullCanonical
<1>0. PICK plan \in SUBSET {"plan"} :
       IF alDraft.source = alCanon /\ plan = {}
       THEN /\ alDraft' = [alDraft EXCEPT !.base = alCanon] /\ alTouched' = {}
            /\ UNCHANGED <<alProposal, alPull>>
       ELSE /\ alPull' = [canon |-> alCanon, before |-> alDraft.source,
                          todo |-> Differing(alDraft.source, alCanon) \cup plan,
                          refused |-> FALSE, apart |-> {}]
            /\ alProposal' = <<>>
            /\ UNCHANGED <<alDraft, alTouched>>
  BY DEF PullCanonical
<1>3. CASE alDraft.source = alCanon /\ plan = {}
  <2>1. /\ alDraft' = [alDraft EXCEPT !.base = alCanon] /\ alTouched' = {}
        /\ alProposal' = alProposal /\ alPull' = alPull /\ alCanon' = alCanon /\ alCount' = alCount
    BY <1>0, <1>3 DEF PullCanonical
  <2>2. /\ alDraft' \in Drafts /\ alDraft'.base = alCanon /\ alDraft'.source = alDraft.source
        /\ alDraft'.born = alDraft.born /\ alDraft' # AlNone
    BY <1>2, <2>1, AlignmentAssumption DEF Drafts
  <2>3. DraftFits' /\ ProposalFits'
    BY <2>1, <2>2 DEF AlInv, DraftFits, ProposalFits, PullCanonical
  <2>4. UnwrittenIsBase' /\ PullFits'
    BY <1>3, <2>1, <2>2 DEF AlInv, UnwrittenIsBase, PullFits, PulledAsTaken, PullCanonical
  <2> QED BY <1>1, <2>3, <2>4 DEF AlInv
<1>4. CASE ~(alDraft.source = alCanon /\ plan = {})
  <2>1. /\ alPull' = [canon |-> alCanon, before |-> alDraft.source,
                      todo |-> Differing(alDraft.source, alCanon) \cup plan,
                      refused |-> FALSE, apart |-> {}]
        /\ alProposal' = <<>> /\ alDraft' = alDraft /\ alTouched' = alTouched
        /\ alCanon' = alCanon /\ alCount' = alCount /\ alDraft # AlNone
    BY <1>0, <1>4 DEF PullCanonical
  <2>2. DraftFits' /\ ProposalFits' /\ UnwrittenIsBase'
    BY <2>1 DEF AlInv, DraftFits, ProposalFits, UnwrittenIsBase
  <2>3. alPull' \in Pulls
    BY <1>2, <2>1 DEF Pulls, PulledFiles, Drafts, Differing
  <2>4. "exercises" \notin alPull'.todo => alDraft.source.exercise = alCanon.exercise
    BY <2>1 DEF Differing
  <2>5. PullFits'
    BY <2>1, <2>3, <2>4 DEF PullFits, PulledAsTaken
  <2> QED BY <1>1, <2>2, <2>5 DEF AlInv
<1> QED BY <1>3, <1>4

\* AcceptPulled: files of the canonical lesson go into the draft, which starts
\* from that lesson once all of it is in.
LEMMA AcceptPulledStep ==
  ASSUME AlInv, NEW files \in SUBSET PulledFiles, AcceptPulled(files)
  PROVE  AlInv'
<1> DEFINE pulled == [alPull EXCEPT !.todo = @ \ files, !.apart = IF "exercises" \in files THEN {} ELSE @]
           source == [section  |-> IF "lesson" \in files THEN alPull.canon.section ELSE Lesson.section,
                      exercise |-> IF "exercises" \in files THEN alPull.canon.exercise ELSE Lesson.exercise]
           whole == TakenWhole(pulled)
<1>a. /\ alDraft' = [DraftNow EXCEPT !.source = source, !.base = IF whole THEN alPull.canon ELSE @]
      /\ alTouched' = IF whole THEN pulled.apart
                      ELSE alTouched \cup {e \in AlExercises : source.exercise[e] # Lesson.exercise[e]}
      /\ alPull' = PullDecided(pulled)
      /\ alCount' = [alCount EXCEPT !.drafts = DraftCount]
      /\ alPull # AlNone /\ Lesson # AlNone /\ DraftCount <= AlMaxDrafts
      /\ UNCHANGED <<alCanon, alLog, alRun, alProposal, alJudged>>
  BY DEF AcceptPulled, OpenBlocks
<1>b. /\ DraftNow \in Drafts /\ DraftNow.source = Lesson /\ Lesson \in LessonSource
      /\ DraftNow.born <= DraftCount /\ DraftCount \in 0..AlMaxDrafts
  BY <1>a, LessonFits, AlignmentAssumption
<1>c. /\ alPull \in Pulls /\ alPull.canon \in LessonSource
  BY <1>a DEF AlInv, PullFits, PulledAsTaken, Pulls
<1>d. /\ pulled \in Pulls /\ pulled.todo = alPull.todo \ files /\ pulled.refused = alPull.refused
      /\ pulled.canon = alPull.canon /\ pulled.apart = IF "exercises" \in files THEN {} ELSE alPull.apart
  BY <1>c DEF Pulls
<1>e. source \in LessonSource
  BY <1>b, <1>c DEF LessonSource
<1>f. /\ source.exercise = IF "exercises" \in files THEN alPull.canon.exercise ELSE Lesson.exercise
  OBVIOUS
<1>g. "exercises" \notin pulled.todo /\ ~pulled.refused =>
        \A e \in AlExercises \ pulled.apart : source.exercise[e] = alPull.canon.exercise[e]
  <2>1. CASE "exercises" \in files
    BY <1>f, <2>1
  <2>2. CASE "exercises" \notin files
    <3>1. "exercises" \notin pulled.todo /\ ~pulled.refused =>
             "exercises" \notin alPull.todo /\ ~alPull.refused
      BY <1>d, <2>2
    <3>2. source.exercise = DraftNow.source.exercise /\ pulled.apart = alPull.apart
      BY <1>b, <1>d, <1>f, <2>2
    <3> HIDE DEF pulled, source
    <3> QED BY <1>a, <3>1, <3>2, DraftNowFits
  <2> QED BY <2>1, <2>2
<1> HIDE DEF pulled, source
<1>h. /\ alDraft' \in Drafts /\ alDraft' # AlNone /\ alDraft'.born = DraftNow.born
      /\ alDraft'.source = source /\ alDraft'.base = IF whole THEN alPull.canon ELSE DraftNow.base
  <2> HIDE DEF whole
  <2> QED BY <1>a, <1>b, <1>c, <1>e, AlignmentAssumption DEF Drafts
<1>1. AlCountFits'
  BY <1>a, <1>b DEF AlInv, AlCountFits
<1>2. DraftFits'
  <2>1. alCount'.drafts = DraftCount
    BY <1>a DEF AlInv, AlCountFits
  <2>2. alTouched' \subseteq AlExercises
    BY <1>a, <1>d DEF AlInv, DraftFits, Pulls
  <2> QED BY <1>a, <1>b, <1>h, <2>1, <2>2 DEF AlInv, DraftFits
<1>3. LogFits'
  BY <1>a, <1>b DEF AlInv, AlCountFits, DraftCount, LogFits, Records
<1>4. RunFits' /\ ProposalFits' /\ CanonJudged' /\ RecordsJudged'
  BY <1>a DEF AlInv, RunFits, ProposalFits, CanonJudged, RecordsJudged
<1>5. UnwrittenIsBase'
  <2>1. CASE whole
    BY <1>a, <1>g, <1>h, <2>1 DEF UnwrittenIsBase, TakenWhole
  <2>2. CASE ~whole
    <3>1. alTouched' = alTouched \cup {e \in AlExercises : source.exercise[e] # Lesson.exercise[e]}
      BY <1>a, <2>2
    <3>2. \A e \in AlExercises \ alTouched' : e \notin alTouched /\ source.exercise[e] = DraftNow.source.exercise[e]
      BY <1>b, <3>1
    <3> QED BY <1>a, <1>h, <2>2, <3>2, DraftNowFits DEF UnwrittenIsBase
  <2> QED BY <2>1, <2>2
<1>6. PullFits'
  <2>1. ASSUME alPull' # AlNone PROVE PulledAsTaken(alPull)'
    <3>1. alPull' = pulled
      BY <1>a, <2>1 DEF PullDecided
    <3> QED BY <1>d, <1>g, <1>h, <3>1 DEF PulledAsTaken
  <2> QED BY <2>1 DEF PullFits
<1> QED BY <1>1, <1>2, <1>3, <1>4, <1>5, <1>6 DEF AlInv

\* RejectPulled: a file is not taken, so the draft will not start from that lesson.
LEMMA RejectPulledStep ==
  ASSUME AlInv, NEW files \in SUBSET PulledFiles, RejectPulled(files)
  PROVE  AlInv'
<1>1. AlCountFits' /\ DraftFits' /\ LogFits' /\ RunFits' /\ ProposalFits'
  BY DEF AlInv, AlCountFits, DraftFits, LogFits, RunFits, ProposalFits, RejectPulled
<1>2. CanonJudged' /\ RecordsJudged' /\ UnwrittenIsBase'
  BY DEF AlInv, CanonJudged, RecordsJudged, UnwrittenIsBase, RejectPulled
<1>3. ASSUME alPull' # AlNone PROVE PulledAsTaken(alPull)'
  <2>1. alPull # AlNone /\ alPull' = [alPull EXCEPT !.todo = @ \ files, !.refused = TRUE]
    BY <1>3 DEF RejectPulled, OpenBlocks, PullDecided
  <2>2. alPull' \in Pulls /\ alPull'.refused
    BY <2>1 DEF AlInv, PullFits, PulledAsTaken, Pulls
  <2> QED BY <2>2 DEF PulledAsTaken
<1> QED BY <1>1, <1>2, <1>3 DEF AlInv, PullFits

\* CaptureRegeneration: the pins are taken from the lesson as it reads.
LEMMA CaptureRegenerationStep ==
  ASSUME AlInv, NEW mode \in {"exercises", "scope"}, NEW keys \in SUBSET AlExercises, CaptureRegeneration(mode, keys)
  PROVE  AlInv'
<1>a. /\ Lesson # AlNone /\ alRun'.pc = "generate" /\ alRun'.mode = mode
      /\ alRun'.repair = FALSE /\ alRun'.todo = keys
      /\ alRun'.pins = [e \in keys |-> CapturedPin(e)]
      /\ alRun'.result = [e \in keys |-> [text |-> Lesson.exercise[e], supported |-> TRUE]]
      /\ alRun' = [pc |-> alRun'.pc, mode |-> alRun'.mode, repair |-> alRun'.repair,
                   pins |-> alRun'.pins, result |-> alRun'.result, todo |-> alRun'.todo]
  BY DEF CaptureRegeneration, AlIdle
<1>0. \A e \in keys : /\ CapturedPin(e) \in Pins /\ CapturedPin(e).key = e
                      /\ [text |-> Lesson.exercise[e], supported |-> TRUE] \in Results
  BY <1>a, CapturedFits, LessonFits DEF Results, LessonSource
<1>1. AlCountFits'
  BY AlignmentAssumption DEF AlInv, AlCountFits, CaptureRegeneration
<1>2. DraftFits'
  BY DEF AlInv, DraftFits, CaptureRegeneration
<1>3. LogFits'
  BY DEF AlInv, LogFits, CaptureRegeneration
<1>4. RunFits'
  <2>1. alRun'.pins \in [keys -> Pins] /\ alRun'.result \in [keys -> Results]
    BY <1>a, <1>0
  <2>2. alRun'.pins \in UNION {[S -> Pins] : S \in SUBSET AlExercises}
    BY <2>1
  <2>3. alRun'.result \in UNION {[S -> Results] : S \in SUBSET AlExercises}
    BY <2>1
  <2>4. \A e \in keys : alRun'.pins[e].key = e
    BY <1>a, <1>0
  <2>5. alRun' \in [pc : {"idle", "generate", "check", "review"}, mode : {"exercises", "scope"},
                    repair : BOOLEAN, pins : UNION {[S -> Pins] : S \in SUBSET AlExercises},
                    result : UNION {[S -> Results] : S \in SUBSET AlExercises},
                    todo : SUBSET AlExercises]
    BY <1>a, <2>2, <2>3
  <2> QED BY <1>a, <2>1, <2>4, <2>5 DEF RunFits
<1>5. ProposalFits'
  BY AlignmentAssumption DEF AlInv, AlignmentAssumption, AlCountFits, DraftFits,
       CaptureRegeneration, Lesson, ProposalFits, Decided, RunFits, KeptByRun
<1>6. CanonJudged' /\ RecordsJudged' /\ UnwrittenIsBase' /\ PullFits'
  BY QuietFacts DEF CaptureRegeneration
<1> QED BY <1>1, <1>2, <1>3, <1>4, <1>5, <1>6 DEF AlInv

\* GenerateExercise: one more exercise of the generation has a result.
LEMMA GenerateExerciseStep ==
  ASSUME AlInv, NEW e \in AlExercises, GenerateExercise(e)
  PROVE  AlInv'
<1>1. AlCountFits'
  BY AlignmentAssumption DEF AlInv, AlCountFits, GenerateExercise, ItemResults, ItemAnswers,
       ResultOf
<1>2. DraftFits'
  BY DEF AlInv, DraftFits, GenerateExercise
<1>3. LogFits'
  BY DEF AlInv, LogFits, GenerateExercise
<1>4. RunFits'
  <2>1. PICK answer \in ItemResults(alRun.pins[e].text) :
          alRun' = [alRun EXCEPT !.todo = @ \ {e},
                                 !.result[e] = ResultOf(answer, alRun.pins[e].text)]
    BY DEF GenerateExercise
  <2>2. ResultOf(answer, alRun.pins[e].text) \in Results
    BY DEF ItemResults, ItemAnswers, ResultOf, Results
  <2>3. PICK S \in SUBSET AlExercises : alRun.result \in [S -> Results]
    BY DEF AlInv, RunFits
  <2>4. [alRun.result EXCEPT ![e] = ResultOf(answer, alRun.pins[e].text)] \in [S -> Results]
    BY <2>2, <2>3
  <2>5. /\ alRun'.pc = alRun.pc /\ alRun'.mode = alRun.mode /\ alRun'.repair = alRun.repair
        /\ alRun'.pins = alRun.pins /\ alRun'.todo = alRun.todo \ {e}
        /\ alRun'.result = [alRun.result EXCEPT ![e] = ResultOf(answer, alRun.pins[e].text)]
        /\ DOMAIN alRun' = DOMAIN alRun
    BY <2>1
  <2>6. alRun'.result \in [S -> Results] /\ DOMAIN alRun'.result = DOMAIN alRun'.pins
    BY <2>3, <2>4, <2>5 DEF AlInv, RunFits
  <2>7. /\ alRun'.result \in UNION {[T -> Results] : T \in SUBSET AlExercises}
        /\ alRun'.todo \in SUBSET AlExercises /\ alRun'.todo \subseteq DOMAIN alRun'.pins
    BY <2>5, <2>6 DEF AlInv, RunFits
  <2>8. alRun' = [pc |-> alRun.pc, mode |-> alRun.mode, repair |-> alRun.repair,
                  pins |-> alRun.pins, result |-> alRun'.result, todo |-> alRun'.todo]
    BY <2>1, <2>5 DEF AlInv, RunFits
  <2> QED BY <2>5, <2>6, <2>7, <2>8 DEF AlInv, RunFits
<1>5. ProposalFits'
  BY AlignmentAssumption DEF AlInv, AlignmentAssumption, AlCountFits, DraftFits, GenerateExercise,
       ItemResults, ItemAnswers, ResultOf, ProposalFits, Decided, RunFits, KeptByRun
<1>6. CanonJudged' /\ RecordsJudged' /\ UnwrittenIsBase' /\ PullFits'
  BY QuietFacts DEF GenerateExercise
<1> QED BY <1>1, <1>2, <1>3, <1>4, <1>5, <1>6 DEF AlInv

\* RepairFails: one exercise stays as it was made before.
LEMMA RepairFailsStep ==
  ASSUME AlInv, NEW e \in AlExercises, RepairFails(e)
  PROVE  AlInv'
<1>1. AlCountFits'
  BY AlignmentAssumption DEF AlInv, AlCountFits, RepairFails
<1>2. DraftFits'
  BY DEF AlInv, DraftFits, RepairFails
<1>3. LogFits'
  BY DEF AlInv, LogFits, RepairFails
<1>4. RunFits'
  BY DEF AlInv, RunFits, RepairFails
<1>5. ProposalFits'
  BY AlignmentAssumption DEF AlInv, AlignmentAssumption, AlCountFits, DraftFits, RepairFails,
       ProposalFits, Decided, RunFits, KeptByRun
<1>6. CanonJudged' /\ RecordsJudged' /\ UnwrittenIsBase' /\ PullFits'
  BY QuietFacts DEF RepairFails
<1> QED BY <1>1, <1>2, <1>3, <1>4, <1>5, <1>6 DEF AlInv

\* GenerateScope: one answer, with a text for every exercise of the scope.
LEMMA GenerateScopeStep ==
  ASSUME AlInv, GenerateScope
  PROVE  AlInv'
<1>1. AlCountFits'
  BY AlignmentAssumption DEF AlInv, AlCountFits, GenerateScope, ItemAnswers, ResultOf
<1>2. DraftFits'
  BY DEF AlInv, DraftFits, GenerateScope
<1>3. LogFits'
  BY DEF AlInv, LogFits, GenerateScope
<1>4. RunFits'
  <2>1. PICK answers \in [DOMAIN alRun.pins -> ItemAnswers] :
          /\ \A e \in DOMAIN answers : Supported(answers[e], alRun.pins[e].text)
          /\ alRun' = [alRun EXCEPT !.pc = "check", !.todo = {},
                         !.result = [e \in DOMAIN answers |-> ResultOf(answers[e], alRun.pins[e].text)]]
    BY DEF GenerateScope
  <2>2. \A e \in DOMAIN alRun.pins : ResultOf(answers[e], alRun.pins[e].text) \in Results
    BY <2>1 DEF ItemAnswers, ResultOf, Results
  <2>3. PICK S \in SUBSET AlExercises : S = DOMAIN alRun.pins
    BY DEF AlInv, RunFits
  <2>4. [e \in DOMAIN answers |-> ResultOf(answers[e], alRun.pins[e].text)] \in [S -> Results]
    BY <2>1, <2>2, <2>3
  <2>5. /\ alRun'.pc = "check" /\ alRun'.mode = alRun.mode /\ alRun'.repair = alRun.repair
        /\ alRun'.pins = alRun.pins /\ alRun'.todo = {}
        /\ alRun'.result = [e \in DOMAIN answers |-> ResultOf(answers[e], alRun.pins[e].text)]
        /\ DOMAIN answers = S
    BY <2>1, <2>3
  <2>6. alRun'.result \in [S -> Results] /\ DOMAIN alRun'.result = DOMAIN alRun'.pins
    BY <2>3, <2>4, <2>5
  <2>7. /\ alRun'.result \in UNION {[T -> Results] : T \in SUBSET AlExercises}
        /\ alRun'.todo \in SUBSET AlExercises /\ alRun'.todo \subseteq DOMAIN alRun'.pins
    BY <2>5, <2>6
  <2>8. alRun' = [pc |-> "check", mode |-> alRun.mode, repair |-> alRun.repair,
                  pins |-> alRun.pins, result |-> alRun'.result, todo |-> alRun'.todo]
    BY <2>1, <2>5 DEF AlInv, RunFits
  <2> QED BY <2>5, <2>6, <2>7, <2>8 DEF AlInv, RunFits
<1>5. ProposalFits'
  BY AlignmentAssumption DEF AlInv, AlignmentAssumption, AlCountFits, DraftFits, GenerateScope,
       ItemAnswers, ResultOf, ProposalFits, Decided, RunFits, KeptByRun
<1>6. CanonJudged' /\ RecordsJudged' /\ UnwrittenIsBase' /\ PullFits'
  BY QuietFacts DEF GenerateScope
<1> QED BY <1>1, <1>2, <1>3, <1>4, <1>5, <1>6 DEF AlInv

\* AssembleExercises: what was kept is judged, and recorded if it is still current.
LEMMA AssembleExercisesStep ==
  ASSUME AlInv, AssembleExercises
  PROVE  AlInv'
<1> DEFINE pinned == {e \in KeptByRun : CapturedIsCurrent(alRun.pins[e])}
           record(e) == PinRecord(alRun.pins[e], Lesson.exercise[e], "kept", alDraft, <<alCount.runs, e>>)
           kept == {r \in alLog : \A e \in pinned : r.decision # <<alCount.runs, e>>}
<1>a. /\ alLog' = kept \cup {record(e) : e \in pinned} /\ alCount' = [alCount EXCEPT !.pins = @ + 1]
      /\ alJudged' = alJudged \cup {<<e, alRun.pins[e].text, alRun.pins[e].against>> : e \in KeptByRun}
      /\ UNCHANGED <<alCanon, alDraft, alProposal, alPull, alTouched>>
  BY DEF AssembleExercises
<1>b. \A e \in pinned : /\ e \in AlExercises /\ e \in KeptByRun /\ alRun.pins[e] \in Pins /\ alRun.pins[e].key = e
                        /\ Lesson # AlNone /\ Lesson.exercise[e] = alRun.pins[e].text
                        /\ alRun.pins[e].text \in AlTexts
  BY DEF AlInv, RunFits, KeptByRun, CapturedIsCurrent, Pins
<1>c. /\ alCount.runs \in 0..AlMaxRuns /\ alCount.pins \in Nat
      /\ alCount'.pins = alCount.pins + 1 /\ alCount'.drafts = alCount.drafts
  BY <1>a DEF AlInv, AlCountFits
<1>d. ASSUME NEW e \in pinned
      PROVE  /\ record(e) \in Records /\ record(e).at = alCount.pins + 1 /\ record(e).born <= alCount.drafts
             /\ record(e).decision[2] = record(e).key
             /\ <<record(e).key, record(e).text, record(e).against>> \in alJudged'
  <2>1. <<alCount.runs, e>> \in (0..AlMaxRuns) \X {alRun.pins[e].key}
    BY <1>b, <1>c
  <2>2. alDraft \in Drafts \cup {AlNone} /\ (alDraft # AlNone => alDraft.born <= alCount.drafts)
    BY DEF AlInv, DraftFits
  <2>3. alCount.drafts \in Nat
    BY DEF AlInv, AlCountFits
  <2>4. Lesson.exercise[e] \in AlTexts
    BY <1>b
  <2>5. /\ record(e) \in Records /\ record(e).at = alCount.pins + 1
        /\ record(e).born = IF alDraft = AlNone THEN 0 ELSE alDraft.born
        /\ record(e).decision = <<alCount.runs, e>> /\ record(e).key = alRun.pins[e].key
        /\ record(e).text = Lesson.exercise[e] /\ record(e).against = alRun.pins[e].against
    <3>1. "kept" \in {"kept", "regenerated"} /\ <<alCount.runs, e>> \in {AlNone} \cup ((0..AlMaxRuns) \X {alRun.pins[e].key})
      BY <2>1
    <3> HIDE DEF pinned
    <3> QED BY <1>b, <2>2, <2>4, <3>1, PinFits
  <2> HIDE DEF record
  <2>6. <<e, alRun.pins[e].text, alRun.pins[e].against>> \in alJudged'
    BY <1>a, <1>b
  <2> QED BY <1>b, <2>2, <2>3, <2>5, <2>6
<1> HIDE DEF record
<1>1. AlCountFits'
  BY <1>a DEF AlInv, AlCountFits
<1>2. DraftFits' /\ ProposalFits'
  BY <1>a, <1>c DEF AlInv, DraftFits, ProposalFits
<1>3. LogFits'
  <2>1. \A r \in alLog : /\ r \in Records /\ r.at \in Nat /\ r.at <= alCount.pins /\ r.born <= alCount.drafts
                         /\ r.decision # AlNone => r.decision[2] = r.key
    BY DEF AlInv, LogFits, Records
  <2>2. \A r \in kept : r \in alLog
    OBVIOUS
  <2> HIDE DEF pinned, kept
  <2>3. SUFFICES ASSUME NEW r \in alLog'
                 PROVE  /\ r \in Records /\ r.at <= alCount.pins + 1 /\ r.born <= alCount.drafts
                        /\ r.decision # AlNone => r.decision[2] = r.key
    BY <1>c DEF LogFits
  <2>4. CASE r \in kept
    BY <1>c, <2>1, <2>2, <2>4
  <2>5. CASE r \notin kept
    <3>1. PICK e \in pinned : r = record(e)
      BY <1>a, <2>5
    <3>2. record(e).at = alCount.pins + 1
      BY <1>d
    <3>3. alCount.pins + 1 \in Int /\ alCount.pins + 1 <= alCount.pins + 1
      BY <1>c
    <3>4. /\ record(e) \in Records /\ record(e).born <= alCount.drafts
          /\ record(e).decision[2] = record(e).key
      BY <1>d
    <3> QED BY <3>1, <3>2, <3>3, <3>4
  <2> QED BY <2>4, <2>5
<1>4. RunFits'
  BY IdleFits DEF AlInv, RunFits, AssembleExercises
<1>5. CanonJudged' /\ UnwrittenIsBase' /\ PullFits'
  BY <1>a DEF AlInv, CanonJudged, UnwrittenIsBase, PullFits, PulledAsTaken
<1>6. RecordsJudged'
  <2>1. \A r \in kept : <<r.key, r.text, r.against>> \in alJudged'
    BY <1>a DEF AlInv, RecordsJudged
  <2> HIDE DEF kept, pinned
  <2> QED BY <1>a, <1>d, <2>1 DEF RecordsJudged
<1> QED BY <1>1, <1>2, <1>3, <1>4, <1>5, <1>6 DEF AlInv

\* CheckCandidate: the candidate goes to the review, or is made once again.
LEMMA CheckCandidateStep ==
  ASSUME AlInv, NEW passed \in BOOLEAN, CheckCandidate(passed)
  PROVE  AlInv'
<1>1. AlCountFits'
  BY AlignmentAssumption DEF AlInv, AlCountFits, CheckCandidate
<1>2. DraftFits'
  BY DEF AlInv, DraftFits, CheckCandidate
<1>3. LogFits'
  BY DEF AlInv, LogFits, CheckCandidate
<1>4. RunFits'
  <2>1. alRun'.todo \in SUBSET AlExercises /\ alRun'.todo \subseteq DOMAIN alRun.pins
    BY DEF AlInv, RunFits, CheckCandidate
  <2> QED BY <2>1 DEF AlInv, RunFits, CheckCandidate
<1>5. ProposalFits'
  BY AlignmentAssumption DEF AlInv, AlignmentAssumption, AlCountFits, DraftFits, CheckCandidate,
       KeptByRun, ProposalFits, Decided, RunFits
<1>6. CanonJudged' /\ RecordsJudged' /\ UnwrittenIsBase' /\ PullFits'
  BY QuietFacts DEF CheckCandidate
<1> QED BY <1>1, <1>2, <1>3, <1>4, <1>5, <1>6 DEF AlInv

\* ScopeRepairFails: the scope goes to the review as it was.
LEMMA ScopeRepairFailsStep ==
  ASSUME AlInv, ScopeRepairFails
  PROVE  AlInv'
<1>1. AlCountFits'
  BY AlignmentAssumption DEF AlInv, AlCountFits, ScopeRepairFails
<1>2. DraftFits'
  BY DEF AlInv, DraftFits, ScopeRepairFails
<1>3. LogFits'
  BY DEF AlInv, LogFits, ScopeRepairFails
<1>4. RunFits'
  BY DEF AlInv, RunFits, ScopeRepairFails
<1>5. ProposalFits'
  BY AlignmentAssumption DEF AlInv, AlignmentAssumption, AlCountFits, DraftFits, ScopeRepairFails,
       ProposalFits, Decided, RunFits, KeptByRun
<1>6. CanonJudged' /\ RecordsJudged' /\ UnwrittenIsBase' /\ PullFits'
  BY QuietFacts DEF ScopeRepairFails
<1> QED BY <1>1, <1>2, <1>3, <1>4, <1>5, <1>6 DEF AlInv

\* RegenerationEnds: a generation without a proposal.
LEMMA RegenerationEndsStep ==
  ASSUME AlInv, RegenerationEnds
  PROVE  AlInv'
<1>1. AlCountFits'
  BY AlignmentAssumption DEF AlInv, AlCountFits, RegenerationEnds
<1>2. DraftFits'
  BY DEF AlInv, DraftFits, RegenerationEnds
<1>3. LogFits'
  BY DEF AlInv, LogFits, RegenerationEnds
<1>4. RunFits'
  BY IdleFits DEF RegenerationEnds
<1>5. ProposalFits'
  BY AlignmentAssumption DEF AlInv, AlignmentAssumption, AlCountFits, DraftFits, RegenerationEnds,
       ProposalFits, Decided, RunFits, KeptByRun
<1>6. CanonJudged' /\ RecordsJudged' /\ UnwrittenIsBase' /\ PullFits'
  BY QuietFacts DEF RegenerationEnds
<1> QED BY <1>1, <1>2, <1>3, <1>4, <1>5, <1>6 DEF AlInv

\* StoreRegenerated: what differs from the lesson is proposed with its pin.
LEMMA StoreRegeneratedStep ==
  ASSUME AlInv, StoreRegenerated
  PROVE  AlInv'
<1>1. AlCountFits'
  BY AlignmentAssumption DEF AlInv, AlCountFits, StoreRegenerated
<1>2. DraftFits'
  BY DEF AlInv, DraftFits, StoreRegenerated
<1>3. LogFits'
  BY DEF AlInv, LogFits, StoreRegenerated
<1>4. RunFits'
  BY IdleFits DEF StoreRegenerated
<1>5. ProposalFits'
  <2>1. alProposal' = [e \in DOMAIN alRun.pins \ KeptByRun |->
                      [before |-> alRun.pins[e].text, after |-> alRun.result[e].text, pin |-> alRun.pins[e],
                       supported |-> alRun.result[e].supported, decision |-> <<alCount.runs, e>>]]
    BY DEF StoreRegenerated
  <2>2. \A e \in DOMAIN alRun.pins :
          /\ e \in AlExercises /\ alRun.pins[e] \in Pins /\ alRun.pins[e].key = e
          /\ alRun.result[e] \in Results
    BY DEF AlInv, RunFits
  <2>3. \A e \in DOMAIN alRun.pins : alRun.pins[e].text \in AlTexts
    BY <2>2 DEF Pins
  <2>4. \A e \in DOMAIN alRun.pins \ KeptByRun : alRun.result[e].text # alRun.pins[e].text
    BY DEF KeptByRun
  <2>5. alCount.runs \in 0..AlMaxRuns
    BY DEF AlInv, AlCountFits
  <2> QED BY <2>1, <2>2, <2>3, <2>4, <2>5 DEF ProposalFits, Results
<1>6. CanonJudged' /\ RecordsJudged' /\ UnwrittenIsBase' /\ PullFits'
  BY DEF AlInv, CanonJudged, RecordsJudged, UnwrittenIsBase, PullFits, StoreRegenerated
<1> QED BY <1>1, <1>2, <1>3, <1>4, <1>5, <1>6 DEF AlInv

\* AcceptRegenerated: the new text is written and recorded with its pin.
LEMMA AcceptRegeneratedStep ==
  ASSUME AlInv, NEW e \in AlExercises, AcceptRegenerated(e)
  PROVE  AlInv'
<1>a. /\ alProposal[e].after \in AlTexts /\ Lesson # AlNone
      /\ alProposal[e].pin \in Pins /\ alProposal[e].pin.key = e
      /\ alProposal[e].decision \in (0..AlMaxRuns) \X {e}
      /\ DraftCount <= AlMaxDrafts
  BY DEF AlInv, ProposalFits, AcceptRegenerated, Undecided
<1>b. /\ DraftNow \in Drafts /\ DraftNow # AlNone /\ DraftNow.born <= DraftCount /\ DraftCount \in 0..AlMaxDrafts
      /\ alCount'.drafts = DraftCount /\ alCount'.pins = alCount.pins + 1
  BY <1>a, LessonFits DEF AcceptRegenerated, AlInv, AlCountFits
<1>0. /\ alDraft' \in Drafts /\ alDraft' # AlNone /\ alDraft'.base = DraftNow.base
      /\ alDraft'.born = DraftNow.born
      /\ \A d \in AlExercises \ {e} : alDraft'.source.exercise[d] = DraftNow.source.exercise[d]
  <2>1. alDraft' = [DraftNow EXCEPT !.source.exercise[e] = alProposal[e].after]
    BY DEF AcceptRegenerated
  <2>2. alDraft' \in Drafts
    BY <1>a, <1>b, <2>1, ExerciseEdited
  <2>3. alDraft'.base = DraftNow.base /\ alDraft'.born = DraftNow.born
    BY <1>a, <1>b, <2>1, ExerciseEdited
  <2>4. ASSUME NEW d \in AlExercises \ {e}
        PROVE  alDraft'.source.exercise[d] = DraftNow.source.exercise[d]
    BY <1>a, <1>b, <2>1, ExerciseEdited
  <2> QED BY <2>2, <2>3, <2>4, AlignmentAssumption
<1> DEFINE record == PinRecord(alProposal[e].pin, alProposal[e].after, "regenerated", DraftNow, alProposal[e].decision)
<1>c. alLog' \subseteq alLog \cup {record}
  BY DEF AcceptRegenerated, Pinned
<1>d. /\ record \in Records /\ record.at = alCount.pins + 1 /\ record.born <= DraftCount
      /\ record.decision = alProposal[e].decision /\ record.key = e
      /\ record.text = alProposal[e].after /\ record.against = alProposal[e].pin.against
  <2>1. record = PinRecord(alProposal[e].pin, alProposal[e].after, "regenerated", DraftNow, alProposal[e].decision)
    OBVIOUS
  <2> HIDE DEF record
  <2> QED BY <1>a, <1>b, <2>1, PinFits
<1> HIDE DEF record
<1>1. AlCountFits'
  <2>1. alCount' = [alCount EXCEPT !.drafts = DraftCount, !.pins = @ + 1]
    BY DEF AcceptRegenerated
  <2>2. alCount'.pins \in Nat
    BY <1>b DEF AlInv, AlCountFits
  <2> QED BY <1>b, <2>1, <2>2 DEF AlInv, AlCountFits
<1>2. DraftFits'
  BY <1>0, <1>b DEF AlInv, DraftFits, AcceptRegenerated, Rewritten
<1>3. LogFits'
  <2>1. alProposal[e].decision[2] = e /\ alCount.drafts <= DraftCount /\ alCount.drafts \in Nat
    BY <1>a, <1>b DEF DraftCount, AlInv, AlCountFits
  <2> QED BY <1>b, <1>c, <1>d, <2>1 DEF AlInv, AlCountFits, LogFits, Records
<1>4. RunFits'
  BY DEF AlInv, RunFits, AcceptRegenerated
<1>5. ProposalFits'
  BY DEF AlInv, AcceptRegenerated, Decided, ProposalFits
<1>6. CanonJudged' /\ RecordsJudged'
  BY <1>c, <1>d DEF AlInv, CanonJudged, RecordsJudged, AcceptRegenerated
<1>7. UnwrittenIsBase' /\ PullFits'
  <2>1. {e} \in SUBSET AlExercises
    OBVIOUS
  <2> QED BY <1>0, <1>a, <2>1, DraftWritten DEF AcceptRegenerated, Rewritten
<1> QED BY <1>1, <1>2, <1>3, <1>4, <1>5, <1>6, <1>7 DEF AlInv

\* KeepProposed: the old text is kept and recorded with the pin.
LEMMA KeepProposedStep ==
  ASSUME AlInv, NEW e \in AlExercises, KeepProposed(e)
  PROVE  AlInv'
<1>0. /\ alProposal[e].pin \in Pins /\ alProposal[e].pin.key = e /\ Lesson # AlNone
      /\ alProposal[e].decision \in (0..AlMaxRuns) \X {e}
      /\ Lesson.exercise[e] = alProposal[e].before /\ alProposal[e].before \in AlTexts
  BY DEF AlInv, ProposalFits, KeepProposed, Undecided
<1> DEFINE record == PinRecord(alProposal[e].pin, Lesson.exercise[e], "kept", alDraft, alProposal[e].decision)
<1>a. record = PinRecord(alProposal[e].pin, Lesson.exercise[e], "kept", alDraft, alProposal[e].decision)
  OBVIOUS
<1>c. alLog' \subseteq alLog \cup {record}
  BY DEF KeepProposed, Pinned
<1> HIDE DEF record
<1>b. /\ record \in Records /\ record.at = alCount.pins + 1 /\ record.born <= alCount.drafts
      /\ record.decision = alProposal[e].decision /\ record.key = e
      /\ record.text = Lesson.exercise[e] /\ record.against = alProposal[e].pin.against
  <2>1. /\ alDraft \in Drafts \cup {AlNone} /\ alCount.drafts \in Nat
        /\ alDraft # AlNone => alDraft.born <= alCount.drafts
    BY DEF AlInv, DraftFits, AlCountFits
  <2>2. /\ record \in Records /\ record.at = alCount.pins + 1
        /\ record.born = IF alDraft = AlNone THEN 0 ELSE alDraft.born
        /\ record.decision = alProposal[e].decision /\ record.key = alProposal[e].pin.key
        /\ record.text = Lesson.exercise[e] /\ record.against = alProposal[e].pin.against
    <3>1. Lesson.exercise[e] \in AlTexts /\ alProposal[e].decision \in {AlNone} \cup ((0..AlMaxRuns) \X {alProposal[e].pin.key})
      BY <1>0
    <3> DEFINE pin == alProposal[e].pin
               text == Lesson.exercise[e]
               decision == alProposal[e].decision
    <3>2. /\ pin \in Pins /\ text \in AlTexts /\ decision \in {AlNone} \cup ((0..AlMaxRuns) \X {pin.key})
          /\ record = PinRecord(pin, text, "kept", alDraft, decision)
      BY <1>0, <1>a, <3>1
    <3> HIDE DEF pin, text, decision
    <3>3. /\ record \in Records /\ record.at = alCount.pins + 1
          /\ record.born = IF alDraft = AlNone THEN 0 ELSE alDraft.born
          /\ record.decision = decision /\ record.key = pin.key
          /\ record.text = text /\ record.against = pin.against
      BY <2>1, <3>2, PinFits
    <3> QED BY <3>3 DEF pin, text, decision
  <2> QED BY <1>0, <2>1, <2>2
<1>d. alCount'.pins = alCount.pins + 1 /\ alCount'.drafts = alCount.drafts
  BY DEF KeepProposed, AlInv, AlCountFits
<1>1. AlCountFits'
  BY DEF AlInv, AlCountFits, KeepProposed
<1>2. DraftFits'
  BY <1>d DEF AlInv, DraftFits, KeepProposed
<1>3. LogFits'
  BY <1>0, <1>b, <1>c, <1>d DEF AlInv, AlCountFits, LogFits, Records
<1>4. RunFits'
  BY DEF AlInv, RunFits, KeepProposed
<1>5. ProposalFits'
  BY DEF AlInv, KeepProposed, Decided, ProposalFits
<1>6. CanonJudged' /\ RecordsJudged'
  BY <1>0, <1>b, <1>c DEF AlInv, CanonJudged, RecordsJudged, KeepProposed
<1>7. UnwrittenIsBase' /\ PullFits'
  BY DEF AlInv, UnwrittenIsBase, PullFits, PulledAsTaken, KeepProposed
<1> QED BY <1>1, <1>2, <1>3, <1>4, <1>5, <1>6, <1>7 DEF AlInv

\* RejectRegenerated: nothing is written and nothing recorded.
LEMMA RejectRegeneratedStep ==
  ASSUME AlInv, NEW e \in AlExercises, RejectRegenerated(e)
  PROVE  AlInv'
<1>1. AlCountFits'
  BY AlignmentAssumption DEF AlInv, AlCountFits, RejectRegenerated
<1>2. DraftFits'
  BY DEF AlInv, DraftFits, RejectRegenerated
<1>3. LogFits'
  BY DEF AlInv, LogFits, RejectRegenerated
<1>4. RunFits'
  BY DEF AlInv, RunFits, RejectRegenerated
<1>5. ProposalFits'
  BY AlignmentAssumption DEF AlInv, AlignmentAssumption, AlCountFits, DraftFits,
       RejectRegenerated, Undecided, Decided, ProposalFits, RunFits, KeptByRun
<1>6. CanonJudged' /\ RecordsJudged' /\ UnwrittenIsBase' /\ PullFits'
  BY QuietFacts DEF RejectRegenerated
<1> QED BY <1>1, <1>2, <1>3, <1>4, <1>5, <1>6 DEF AlInv

\* It holds of the lesson as it was published.
LEMMA AlignmentInit ==
  ASSUME AlInit
  PROVE  AlInv
<1> DEFINE source == [section |-> [s \in AlSections |-> 0], exercise |-> [e \in AlExercises |-> 0]]
<1>1. source \in LessonSource
  BY AlignmentAssumption DEF LessonSource
<1>2. alLog = {} /\ alRun = AlIdle /\ alProposal = <<>> /\ alPull = AlNone /\ alTouched = {}
  BY DEF AlInit
<1>3. \/ /\ alCanon = source /\ alDraft = AlNone
         /\ alJudged = JudgedIn(source)
         /\ alCount = [edits |-> 0, runs |-> 0, drafts |-> 0, pins |-> 0]
      \/ /\ alCanon = AlNone /\ alDraft = [source |-> source, base |-> AlNone, born |-> 1]
         /\ alCount = [edits |-> 0, runs |-> 0, drafts |-> 1, pins |-> 0]
  BY DEF AlInit
<1>4. AlCountFits
  BY <1>3, AlignmentAssumption DEF AlCountFits
<1>5. DraftFits
  <2> HIDE DEF source
  <2> QED BY <1>1, <1>2, <1>3, AlignmentAssumption DEF DraftFits, Drafts
<1>6. LogFits
  BY <1>2 DEF LogFits
<1>7. RunFits
  <2>1. AlIdle.pins = <<>> /\ AlIdle.result = <<>> /\ DOMAIN <<>> = {}
    BY DEF AlIdle
  <2>2. <<>> \in [{} -> Pins] /\ <<>> \in [{} -> Results]
    OBVIOUS
  <2> QED BY <1>2, <2>1, <2>2 DEF AlIdle, RunFits
<1>8. ProposalFits
  BY <1>2 DEF ProposalFits
<1>9. CanonJudged
  <2> HIDE DEF source
  <2> QED BY <1>3 DEF CanonJudged, JudgedIn
<1>10. RecordsJudged /\ PullFits
  BY <1>2 DEF RecordsJudged, PullFits
<1>11. UnwrittenIsBase
  <2> HIDE DEF source
  <2> QED BY <1>3 DEF UnwrittenIsBase
<1> QED BY <1>4, <1>5, <1>6, <1>7, <1>8, <1>9, <1>10, <1>11 DEF AlInv

\* Every step keeps it.
LEMMA AlignmentStep ==
  ASSUME AlInv, [AlNext]_alVars
  PROVE  AlInv'
<1>1. CASE UNCHANGED alVars
  <2>1. AlCountFits' /\ DraftFits' /\ LogFits' /\ RunFits' /\ ProposalFits'
    BY <1>1 DEF alVars, AlInv, AlCountFits, DraftFits, LogFits, RunFits, ProposalFits
  <2> QED BY <1>1, <2>1, QuietFacts DEF alVars, AlInv
<1>2. CASE \E s \in AlSections : EditSection(s)
  BY <1>2, EditSectionStep
<1>3. CASE \E e \in AlExercises :
             \/ EditExercise(e) \/ KeepCurrent(e)
             \/ GenerateExercise(e) \/ RepairFails(e)
             \/ AcceptRegenerated(e) \/ KeepProposed(e) \/ RejectRegenerated(e)
  BY <1>3, EditExerciseStep, KeepCurrentStep, GenerateExerciseStep, RepairFailsStep,
     AcceptRegeneratedStep, KeepProposedStep, RejectRegeneratedStep
<1>4. CASE TerminalCanonical \/ PromoteLesson \/ DiscardLesson \/ CreateLesson \/ PullCanonical
  BY <1>4, TerminalCanonicalStep, PromoteLessonStep, DiscardLessonStep, CreateLessonStep, PullCanonicalStep
<1>5. CASE \E mode \in {"exercises", "scope"}, keys \in SUBSET AlExercises :
             CaptureRegeneration(mode, keys)
  BY <1>5, CaptureRegenerationStep
<1>6. CASE \/ GenerateScope \/ ScopeRepairFails \/ AssembleExercises
           \/ RegenerationEnds \/ StoreRegenerated
  BY <1>6, GenerateScopeStep, ScopeRepairFailsStep, AssembleExercisesStep, RegenerationEndsStep,
     StoreRegeneratedStep
<1>7. CASE \E passed \in BOOLEAN : CheckCandidate(passed)
  BY <1>7, CheckCandidateStep
<1>8. CASE \E files \in SUBSET PulledFiles : AcceptPulled(files) \/ RejectPulled(files)
  BY <1>8, AcceptPulledStep, RejectPulledStep
<1> QED BY <1>1, <1>2, <1>3, <1>4, <1>5, <1>6, <1>7, <1>8 DEF AlNext

\* An exercise shown as aligned that reads as it did for its record was judged,
\* or made, with the very text it has, against the very sections the lesson has;
\* and one that nobody rewrote reads as in the canonical lesson the draft is of.
LEMMA AlignedAsJudged ==
  ASSUME AlInv, NEW e \in AlExercises, Lesson # AlNone, AlignmentState(e) = "aligned",
         \/ Lesson.exercise[e] = AlignmentOf(e).text
         \/ /\ AlignmentOf(e).outcome = "canonical" /\ alDraft # AlNone /\ alDraft.base = alCanon
            /\ e \notin alTouched
  PROVE  \E judged \in alJudged :
           /\ judged[1] = e /\ judged[2] = Lesson.exercise[e]
           /\ \A s \in References(e, Lesson) :
                s \in DOMAIN judged[3] /\ judged[3][s] = Lesson.section[s]
<1>1. AlignmentOf(e) # AlNone /\ ChangedSections(e) = {}
  <2>1. CASE References(e, Lesson) = {}
    <3>1. AlignmentState(e) # "aligned"
      BY <2>1 DEF AlignmentState
    <3> QED BY <3>1
  <2>2. CASE References(e, Lesson) # {}
    <3>1. AlignmentState(e) = IF AlignmentOf(e) = AlNone THEN "unknown"
                              ELSE IF ChangedSections(e) # {} THEN "stale" ELSE "aligned"
      BY <2>2 DEF AlignmentState
    <3> QED BY <3>1
  <2> QED BY <2>1, <2>2
<1>2. Lesson \in LessonSource
  BY LessonFits
<1>3. \A s \in References(e, Lesson) : Before(AlignmentOf(e), s) = Lesson.section[s]
  BY <1>1 DEF ChangedSections
<1>4. \A s \in References(e, Lesson) : Lesson.section[s] \in AlTexts
  BY <1>2, AgainstFits DEF LessonSource
<1>5. \A s \in References(e, Lesson) :
        s \in DOMAIN AlignmentOf(e).against /\ AlignmentOf(e).against[s] = Lesson.section[s]
  BY <1>3, <1>4, AlignmentAssumption DEF Before
<1>6. <<e, Lesson.exercise[e], AlignmentOf(e).against>> \in alJudged
  <2>1. CASE EligibleRecords(e) = {}
    <3>1. /\ alCanon # AlNone /\ AlignmentOf(e).against = Against(e, alCanon)
          /\ AlignmentOf(e).text = alCanon.exercise[e]
      BY <1>1, <2>1, AlignmentFits DEF CanonicalRecord
    <3>2. Lesson.exercise[e] = alCanon.exercise[e]
      BY <3>1 DEF AlInv, UnwrittenIsBase, Lesson
    <3> QED BY <3>1, <3>2 DEF AlInv, CanonJudged
  <2>2. CASE EligibleRecords(e) # {}
    <3>1. AlignmentOf(e) \in EligibleRecords(e)
      BY <1>1, <2>2, AlignmentFits
    <3>2. AlignmentOf(e) \in alLog /\ AlignmentOf(e).key = e
      BY <3>1 DEF EligibleRecords
    <3>3. AlignmentOf(e).outcome # "canonical"
      BY <3>2 DEF Records, AlInv, LogFits
    <3> QED BY <3>2, <3>3 DEF AlInv, RecordsJudged
  <2> QED BY <2>1, <2>2
<1> QED BY <1>5, <1>6

\* The invariant is more than what the run checks.
LEMMA AlignmentHolds ==
  ASSUME AlInv
  PROVE  AlignmentSound
<1>1. AlTypeOK
  BY DEF AlTypeOK, AlInv, DraftFits, Drafts, ProposalFits
<1>2. AlignedWasJudged
  BY AlignedAsJudged DEF AlignedWasJudged
<1>3. OwnerIsInformed
  BY DEF AlInv, ProposalFits, OwnerIsInformed
<1> QED BY <1>1, <1>2, <1>3 DEF AlignmentSound

\* The invariant of the exercises and their records.
THEOREM AlignmentInvariant == AlSpec => []AlInv
BY AlignmentInit, AlignmentStep, PTL DEF AlSpec

\* What the workbench says of an exercise that reads as it did for its record is
\* what the author or the generation judged, for any lesson, edits, generations,
\* drafts, pulls and changes of the canonical lesson.
THEOREM AlignmentIsSound == AlSpec => []AlignmentSound
<1>1. AlSpec => []AlInv
  BY AlignmentInvariant
<1>2. AlInv => AlignmentSound
  BY AlignmentHolds
<1> QED BY <1>1, <1>2, PTL

(***************************************************************************)
(* Recordings: what a job wrote reaches the index when it ends.            *)
(***************************************************************************)
\* The steps of a job.
LaSteps == {"idle", "planned", "begin", "next", "token", "post", "answer", "raised", "persist"}

\* What the index may say of the recordings.
Indexes == [LaBindings -> Checks \cup {LaNone}]

\* A job: what it planned, what is left, and what it wrote.
AudioJobs ==
  [pc : LaSteps, clips : SUBSET LaBindings, text : [LaBindings -> LaPrints],
   force : SUBSET LaBindings, index : Indexes, todo : SUBSET LaPrints,
   at : LaPrints \cup {LaNone}, wrote : SUBSET LaBindings, errors : BOOLEAN,
   attempt : Nat, token : BOOLEAN, renewed : BOOLEAN, alone : BOOLEAN]

\* A job that is at one clip, by its print.
Synthesizes(job) == job.pc \in {"token", "post", "answer"}

\* The types; a job that synthesizes is at a print.
LaTypeOK ==
  /\ laText \in [LaBindings -> LaPrints]
  /\ laCache \in [LaPrints -> {"missing", "fine", "flawed"}]
  /\ laIndex \in Indexes
  /\ laJob \in [LaJobs -> AudioJobs]
  /\ \A j \in LaJobs : Synthesizes(laJob[j]) => laJob[j].at \in LaPrints

\* A job that is alone runs, is the only one, and reads what the lesson says.
AloneRuns ==
  \A j \in LaJobs : laJob[j].alone =>
    /\ LaRuns(j) /\ laJob[j].text = laText
    /\ \A i \in LaJobs \ {j} : ~LaRuns(i)

\* A job notes nothing before it begins, and everything before it is over.
NotesOf(job) ==
  /\ job.pc \in {"idle", "planned", "begin"} => job.wrote = {}
  /\ job.pc = "persist" => job.clips \subseteq job.wrote

\* Alone and without an error, each of a job's recordings is there, or still
\* to be made, and what it noted is that they are fine.
HealsOf(job, cache) ==
  (job.alone /\ ~job.errors /\ job.pc # "raised") =>
    \A b \in job.clips :
      /\ job.pc # "begin" =>
           \/ cache[job.text[b]] = "fine"
           \/ job.text[b] \in job.todo
           \/ Synthesizes(job) /\ job.text[b] = job.at
      /\ job.pc = "persist" => cache[job.text[b]] = "fine"
      /\ b \in job.wrote => job.index[b] = Check(job.text[b], "fine")

\* A job's notes are of the file it wrote, as long as nobody else wrote.
AudioInv ==
  /\ LaTypeOK
  /\ AloneRuns
  /\ \A j \in LaJobs : NotesOf(laJob[j]) /\ HealsOf(laJob[j], laCache)

\* A check of a file.
LEMMA ChecksTyped == ASSUME NEW print \in LaPrints, NEW found \in Finds PROVE Check(print, found) \in Checks
  BY DEF Check, Checks

\* No job.
LEMMA IdleTyped == LaIdle \in AudioJobs
  BY LessonAudioAssumption DEF LaIdle, AudioJobs, LaSteps, Indexes

\* It holds at the start.
LEMMA AudioStarts == LaInit => AudioInv
<1> SUFFICES ASSUME LaInit PROVE AudioInv
  OBVIOUS
<1> USE DEF LaInit
<1>1. LaTypeOK
  BY LessonAudioAssumption, IdleTyped DEF LaTypeOK, Indexes, LaIdle, Synthesizes
<1>2. AloneRuns
  BY DEF AloneRuns, LaIdle
<1>3. \A j \in LaJobs : NotesOf(laJob[j]) /\ HealsOf(laJob[j], laCache)
  BY DEF NotesOf, HealsOf, LaIdle
<1> QED
  BY <1>1, <1>2, <1>3 DEF AudioInv

\* One job goes on; what it knows of the files it wrote is still so.
LEMMA OneJobMoves ==
  ASSUME AudioInv, NEW j \in LaJobs, NEW r \in AudioJobs, laJob' = [laJob EXCEPT ![j] = r], laText' = laText,
         laCache' \in [LaPrints -> {"missing", "fine", "flawed"}], laIndex' \in Indexes,
         Synthesizes(r) => r.at \in LaPrints,
         r.alone => laJob[j].alone /\ r.text = laJob[j].text,
         r.alone => r.pc \notin {"idle", "planned"},
         r.pc \notin {"idle", "planned"} => LaRuns(j),
         laCache' = laCache \/ LaRuns(j),
         NotesOf(r), HealsOf(r, laCache')
  PROVE  AudioInv'
<1>1. /\ laJob'[j] = r
      /\ \A i \in LaJobs : i # j => laJob'[i] = laJob[i]
      /\ DOMAIN laJob' = LaJobs
  BY DEF AudioInv, LaTypeOK
<1>2. LaTypeOK'
  BY <1>1 DEF AudioInv, LaTypeOK
<1>3. AloneRuns'
  BY <1>1 DEF AudioInv, AloneRuns, LaRuns
<1>4. ASSUME NEW i \in LaJobs PROVE NotesOf(laJob[i])' /\ HealsOf(laJob[i], laCache)'
  <2>1. CASE i = j
    <3>1. NotesOf(r)' /\ HealsOf(r, laCache)'
      BY DEF NotesOf, HealsOf, Synthesizes
    <3> QED
      BY <2>1, <1>1 DEF NotesOf, HealsOf, Synthesizes
  <2>2. CASE i # j
    <3>1. laJob'[i] = laJob[i] /\ NotesOf(laJob[i]) /\ HealsOf(laJob[i], laCache)
      BY <2>2, <1>1 DEF AudioInv
    <3>2. laCache' = laCache \/ ~laJob[i].alone
      BY <2>2 DEF AudioInv, AloneRuns
    <3> QED
      BY <3>1, <3>2 DEF NotesOf, HealsOf, Synthesizes
  <2> QED
    BY <2>1, <2>2
<1> QED
  BY <1>2, <1>3, <1>4 DEF AudioInv

\* Plan: the job takes the clips and their texts.
LEMMA PlanKeeps == ASSUME AudioInv, NEW j \in LaJobs, Plan(j) PROVE AudioInv'
<1>1. PICK scope \in LaBindings \cup {LaNone}, selection \in {"missing", "stale", "both"} :
        LET clips == Selected(scope, selection)
        IN laJob' = [laJob EXCEPT ![j] = [LaIdle EXCEPT !.pc = "planned", !.clips = clips, !.text = laText,
                                                    !.force = {b \in clips : ~Reusable(laText[b])}]]
  BY DEF Plan, LaUpdate
<1> DEFINE clips == Selected(scope, selection)
<1> DEFINE force == {b \in clips : ~Reusable(laText[b])}
<1> DEFINE r == [LaIdle EXCEPT !.pc = "planned", !.clips = clips, !.text = laText, !.force = force]
<1>2. /\ clips \subseteq LaBindings /\ force \subseteq LaBindings
      /\ laText \in [LaBindings -> LaPrints]
  BY DEF Selected, AudioInv, LaTypeOK
<1>3. laJob' = [laJob EXCEPT ![j] = r]
  BY <1>1
<1> HIDE DEF clips, force
<1>4. r \in AudioJobs /\ r.pc = "planned" /\ ~r.alone /\ r.wrote = {}
  BY <1>2, IdleTyped DEF AudioJobs, LaSteps, LaIdle
<1> HIDE DEF r
<1>5. NotesOf(r) /\ HealsOf(r, laCache') /\ ~Synthesizes(r)
  BY <1>4 DEF NotesOf, HealsOf, Synthesizes
<1>6. UNCHANGED <<laText, laCache, laIndex>>
  BY DEF Plan
<1> QED
  BY <1>3, <1>4, <1>5, <1>6, OneJobMoves DEF AudioInv, LaTypeOK

\* A job that ends leaves the others as they were.
LEMMA GivesUpKeeps ==
  ASSUME AudioInv, NEW j \in LaJobs, LaUpdate(j, LaIdle), UNCHANGED <<laText, laCache>>, laIndex' \in Indexes
  PROVE  AudioInv'
<1>1. LaIdle.pc = "idle" /\ ~LaIdle.alone /\ LaIdle.wrote = {}
  BY DEF LaIdle
<1>2. NotesOf(LaIdle) /\ HealsOf(LaIdle, laCache') /\ ~Synthesizes(LaIdle)
  BY <1>1 DEF NotesOf, HealsOf, Synthesizes
<1> QED
  BY <1>1, <1>2, IdleTyped, OneJobMoves DEF LaUpdate, AudioInv, LaTypeOK

\* Claim: the job runs if what it planned is still so.
LEMMA ClaimKeeps == ASSUME AudioInv, NEW j \in LaJobs, Claim(j) PROVE AudioInv'
<1> DEFINE r == laJob[j]
<1>1. UNCHANGED <<laText, laCache, laIndex>> /\ laIndex' \in Indexes
  BY DEF Claim, AudioInv, LaTypeOK
<1>2. CASE LaUpdate(j, LaIdle)
  BY <1>1, <1>2, GivesUpKeeps
<1>3. CASE ~LaUpdate(j, LaIdle)
  <2>1. r.pc = "planned" /\ r.text = laText /\ laJob' = Joined(j, [r EXCEPT !.pc = "begin"])
    BY <1>3 DEF Claim, LaAt
  <2>2. r \in AudioJobs /\ r.wrote = {}
    BY <2>1 DEF AudioInv, LaTypeOK, NotesOf
  <2> DEFINE alone == \A i \in LaJobs \ {j} : ~LaRuns(i)
  <2> DEFINE n == [[r EXCEPT !.pc = "begin"] EXCEPT !.alone = alone]
  <2> DEFINE k(i) == [laJob[i] EXCEPT !.alone = FALSE]
  <2>3. /\ laJob'[j] = n
        /\ \A i \in LaJobs : i # j => laJob'[i] = k(i)
        /\ DOMAIN laJob' = LaJobs
        /\ laJob' = [i \in LaJobs |-> laJob'[i]]
    BY <2>1 DEF Joined
  <2>4. alone \in BOOLEAN
    OBVIOUS
  <2>5. /\ n \in AudioJobs /\ n.pc = "begin" /\ n.text = r.text /\ n.wrote = {}
        /\ n.alone = alone
    <3> HIDE DEF alone, r
    <3> QED
      BY <2>2, <2>4 DEF AudioJobs, LaSteps
  <2>6. ASSUME NEW i \in LaJobs PROVE /\ k(i) \in AudioJobs /\ k(i).pc = laJob[i].pc /\ ~k(i).alone
                                      /\ k(i).wrote = laJob[i].wrote
                                      /\ k(i).clips = laJob[i].clips
                                      /\ k(i).at = laJob[i].at
    BY DEF AudioJobs, AudioInv, LaTypeOK
  <2> HIDE DEF n, k, r
  <2>7. LaTypeOK'
    BY <1>1, <2>3, <2>5, <2>6 DEF LaTypeOK, AudioInv, Synthesizes
  <2>8. AloneRuns'
    <3> SUFFICES ASSUME NEW i \in LaJobs, laJob'[i].alone
                 PROVE  /\ laJob'[i].pc \notin {"idle", "planned"} /\ laJob'[i].text = laText'
                        /\ \A o \in LaJobs \ {i} : laJob'[o].pc \in {"idle", "planned"}
      BY DEF AloneRuns, LaRuns
    <3>1. i = j /\ alone
      BY <2>3, <2>5, <2>6
    <3>2. \A o \in LaJobs \ {i} : laJob'[o].pc \in {"idle", "planned"}
      BY <3>1, <2>3, <2>6 DEF LaRuns
    <3> HIDE DEF alone
    <3> QED
      BY <1>1, <2>1, <2>3, <2>5, <3>1, <3>2
  <2>9. ASSUME NEW i \in LaJobs PROVE NotesOf(laJob[i])' /\ HealsOf(laJob[i], laCache)'
    <3>1. CASE i = j
      BY <3>1, <2>3, <2>5 DEF NotesOf, HealsOf
    <3>2. CASE i # j
      <4>1. laJob'[i] = k(i) /\ NotesOf(laJob[i])
        BY <3>2, <2>3 DEF AudioInv
      <4> QED
        BY <4>1, <2>6 DEF NotesOf, HealsOf
    <3> QED
      BY <3>1, <3>2
  <2> QED
    BY <2>7, <2>8, <2>9 DEF AudioInv
<1> QED
  BY <1>2, <1>3

\* Start: what has no reusable recording is to do.
LEMMA StartKeeps == ASSUME AudioInv, NEW j \in LaJobs, Start(j) PROVE AudioInv'
<1> DEFINE r == laJob[j]
<1> DEFINE todo == {PrintOf(j, b) : b \in r.clips} \ {f \in LaPrints : Reusable(f)}
<1> DEFINE n == [r EXCEPT !.pc = "next", !.index = laIndex, !.todo = todo]
<1>1. /\ laJob' = [laJob EXCEPT ![j] = n] /\ UNCHANGED <<laText, laCache, laIndex>>
      /\ r.pc = "begin" /\ r \in AudioJobs /\ r.wrote = {} /\ laIndex \in Indexes
  BY DEF Start, LaUpdate, LaAt, AudioInv, LaTypeOK, NotesOf
<1>2. todo \subseteq LaPrints /\ \A b \in r.clips : Reusable(r.text[b]) \/ r.text[b] \in todo
  BY <1>1 DEF PrintOf, AudioJobs
<1> HIDE DEF todo
<1>3. /\ n \in AudioJobs /\ n.pc = "next" /\ n.text = r.text /\ n.wrote = {} /\ n.clips = r.clips
      /\ n.alone = r.alone /\ n.todo = todo
  <2> HIDE DEF r
  <2> QED
    BY <1>1, <1>2 DEF AudioJobs, LaSteps
<1> HIDE DEF n
<1>4. NotesOf(n) /\ ~Synthesizes(n)
  BY <1>3 DEF NotesOf, Synthesizes
<1>6. \A b \in n.clips : laCache'[n.text[b]] = "fine" \/ n.text[b] \in n.todo
  BY <1>1, <1>2, <1>3 DEF Reusable
<1>7. HealsOf(n, laCache')
  BY <1>3, <1>6 DEF HealsOf
<1>5. LaRuns(j)
  BY <1>1 DEF LaRuns
<1> HIDE DEF r
<1> QED
  BY <1>1, <1>3, <1>4, <1>5, <1>7, OneJobMoves DEF AudioInv, LaTypeOK, r

\* NextClip: the next print, or the cap refuses it.
LEMMA NextClipKeeps == ASSUME AudioInv, NEW j \in LaJobs, NextClip(j) PROVE AudioInv'
<1> DEFINE r == laJob[j]
<1>1. /\ UNCHANGED <<laText, laCache, laIndex>> /\ laIndex' \in Indexes
      /\ laCache' \in [LaPrints -> {"missing", "fine", "flawed"}]
      /\ r.pc = "next" /\ r \in AudioJobs /\ LaRuns(j) /\ HealsOf(r, laCache)
  BY DEF NextClip, LaAt, AudioInv, LaTypeOK, LaRuns
<1>2. ASSUME NEW f \in r.todo,
             LaUpdate(j, [r EXCEPT !.pc = IF laJob[j].token THEN "post" ELSE "token",
                                   !.at = f, !.todo = @ \ {f}, !.attempt = 0, !.renewed = FALSE])
      PROVE  AudioInv'
  <2> DEFINE n == [r EXCEPT !.pc = IF laJob[j].token THEN "post" ELSE "token",
                            !.at = f, !.todo = @ \ {f}, !.attempt = 0, !.renewed = FALSE]
  <2>1. laJob' = [laJob EXCEPT ![j] = n]
    BY <1>2 DEF LaUpdate
  <2>2. /\ n \in AudioJobs /\ n.pc \in {"token", "post"} /\ n.text = r.text /\ n.wrote = r.wrote
        /\ n.clips = r.clips /\ n.alone = r.alone /\ n.todo = r.todo \ {f} /\ n.at = f
        /\ n.errors = r.errors /\ n.index = r.index /\ f \in LaPrints
    <3> HIDE DEF r
    <3> QED
      BY <1>1, <1>2 DEF AudioJobs, LaSteps
  <2> HIDE DEF n, r
  <2>3. NotesOf(n)
    BY <2>2 DEF NotesOf
  <2>4. HealsOf(n, laCache')
    <3> SUFFICES ASSUME n.alone, ~n.errors, NEW b \in n.clips
                 PROVE  /\ laCache[n.text[b]] = "fine" \/ n.text[b] \in n.todo \/ n.text[b] = f
                        /\ b \in n.wrote => n.index[b] = Check(n.text[b], "fine")
      BY <1>1, <2>2 DEF HealsOf, Synthesizes
    <3> QED
      BY <1>1, <2>2 DEF HealsOf, Synthesizes
  <2> QED
    BY <1>1, <2>1, <2>2, <2>3, <2>4, OneJobMoves DEF r
<1>3. CASE LaUpdate(j, [r EXCEPT !.pc = "raised"])
  <2> DEFINE n == [r EXCEPT !.pc = "raised"]
  <2>1. laJob' = [laJob EXCEPT ![j] = n]
    BY <1>3 DEF LaUpdate
  <2>2. n \in AudioJobs /\ n.pc = "raised" /\ n.text = r.text /\ n.alone = r.alone
    <3> HIDE DEF r
    <3> QED
      BY <1>1 DEF AudioJobs, LaSteps
  <2> HIDE DEF n, r
  <2>3. NotesOf(n) /\ HealsOf(n, laCache') /\ ~Synthesizes(n)
    BY <2>2 DEF NotesOf, HealsOf, Synthesizes
  <2> QED
    BY <1>1, <2>1, <2>2, <2>3, OneJobMoves DEF r
<1> QED
  BY <1>2, <1>3 DEF NextClip

\* A job that raises keeps what it wrote.
LEMMA RaisesKeeps ==
  ASSUME AudioInv, NEW j \in LaJobs, NEW r \in AudioJobs, LaRuns(j), r.text = laJob[j].text,
         r.alone = laJob[j].alone, LaUpdate(j, [r EXCEPT !.pc = "raised"]), UNCHANGED <<laText, laCache, laIndex>>
  PROVE  AudioInv'
<1> DEFINE n == [r EXCEPT !.pc = "raised"]
<1>1. laJob' = [laJob EXCEPT ![j] = n]
  BY DEF LaUpdate
<1>2. n \in AudioJobs /\ n.pc = "raised" /\ n.text = r.text /\ n.alone = r.alone
  BY DEF AudioJobs, LaSteps
<1> HIDE DEF n
<1>3. NotesOf(n) /\ HealsOf(n, laCache') /\ ~Synthesizes(n)
  BY <1>2 DEF NotesOf, HealsOf, Synthesizes
<1>4. laIndex' \in Indexes /\ laCache' \in [LaPrints -> {"missing", "fine", "flawed"}]
  BY DEF AudioInv, LaTypeOK
<1> QED
  BY <1>1, <1>2, <1>3, <1>4, OneJobMoves

\* A job goes on with the print it is at.
LEMMA GoesOnKeeps ==
  ASSUME AudioInv, NEW j \in LaJobs, NEW n \in AudioJobs, laJob' = [laJob EXCEPT ![j] = n],
         UNCHANGED <<laText, laCache, laIndex>>,
         Synthesizes(laJob[j]), Synthesizes(n), n.at = laJob[j].at, n.text = laJob[j].text,
         n.wrote = laJob[j].wrote, n.clips = laJob[j].clips, n.alone = laJob[j].alone, n.todo = laJob[j].todo,
         n.errors = laJob[j].errors, n.index = laJob[j].index
  PROVE  AudioInv'
<1>1. /\ laIndex' \in Indexes /\ laCache' \in [LaPrints -> {"missing", "fine", "flawed"}]
      /\ HealsOf(laJob[j], laCache) /\ LaRuns(j) /\ n.at \in LaPrints
  BY DEF AudioInv, LaTypeOK, Synthesizes, LaRuns
<1>2. NotesOf(n)
  BY DEF NotesOf, Synthesizes
<1>3. HealsOf(n, laCache')
  BY <1>1 DEF HealsOf, Synthesizes
<1>4. n.pc \notin {"idle", "planned"}
  BY DEF Synthesizes
<1> QED
  BY <1>1, <1>2, <1>3, <1>4, OneJobMoves

\* GetToken: it gets one, or raises.
LEMMA GetTokenKeeps == ASSUME AudioInv, NEW j \in LaJobs, GetToken(j) PROVE AudioInv'
<1> DEFINE r == laJob[j]
<1>1. /\ UNCHANGED <<laText, laCache, laIndex>>
      /\ r.pc = "token" /\ r \in AudioJobs /\ LaRuns(j)
  BY DEF GetToken, LaAt, AudioInv, LaTypeOK, LaRuns
<1>2. CASE LaUpdate(j, [r EXCEPT !.pc = "post", !.token = TRUE])
  <2> DEFINE n == [r EXCEPT !.pc = "post", !.token = TRUE]
  <2>1. laJob' = [laJob EXCEPT ![j] = n]
    BY <1>2 DEF LaUpdate
  <2>2. /\ n \in AudioJobs /\ n.pc = "post" /\ n.text = r.text /\ n.wrote = r.wrote
        /\ n.clips = r.clips /\ n.alone = r.alone /\ n.todo = r.todo /\ n.at = r.at
        /\ n.errors = r.errors /\ n.index = r.index
    <3> HIDE DEF r
    <3> QED
      BY <1>1 DEF AudioJobs, LaSteps
  <2> HIDE DEF n
  <2>3. Synthesizes(n) /\ Synthesizes(r)
    BY <1>1, <2>2 DEF Synthesizes
  <2> QED
    BY <1>1, <2>1, <2>2, <2>3, GoesOnKeeps
<1>3. CASE LaUpdate(j, [r EXCEPT !.pc = "raised"])
  BY <1>1, <1>3, RaisesKeeps
<1> QED
  BY <1>2, <1>3 DEF GetToken

\* Post: it is answered, repeated, gets a new token, or raises.
LEMMA PostKeeps == ASSUME AudioInv, NEW j \in LaJobs, Post(j) PROVE AudioInv'
<1> DEFINE r == laJob[j]
<1>1. /\ UNCHANGED <<laText, laCache, laIndex>>
      /\ r.pc = "post" /\ r \in AudioJobs /\ LaRuns(j)
  BY DEF Post, LaAt, AudioInv, LaTypeOK, LaRuns
<1> DEFINE Same(n) == /\ n \in AudioJobs /\ n.text = r.text /\ n.wrote = r.wrote
                      /\ n.clips = r.clips /\ n.alone = r.alone /\ n.todo = r.todo /\ n.at = r.at
                      /\ n.errors = r.errors /\ n.index = r.index
<1>2. ASSUME NEW n, Same(n), n.pc \in {"token", "post", "answer"}, LaUpdate(j, n) PROVE AudioInv'
  <2>1. Synthesizes(n) /\ Synthesizes(r)
    BY <1>1, <1>2 DEF Synthesizes
  <2>2. laJob' = [laJob EXCEPT ![j] = n]
    BY <1>2 DEF LaUpdate
  <2> QED
    BY <1>1, <1>2, <2>1, <2>2, GoesOnKeeps
<1>3. CASE LaUpdate(j, [r EXCEPT !.pc = "answer"])
  <2> DEFINE n == [r EXCEPT !.pc = "answer"]
  <2>1. Same(n) /\ n.pc = "answer"
    <3> HIDE DEF r
    <3> QED
      BY <1>1 DEF AudioJobs, LaSteps
  <2> HIDE DEF Same
  <2> QED
    BY <1>2, <1>3, <2>1
<1>4. CASE LaUpdate(j, [r EXCEPT !.attempt = @ + 1])
  <2> DEFINE n == [r EXCEPT !.attempt = @ + 1]
  <2>1. Same(n) /\ n.pc = "post"
    <3> HIDE DEF r
    <3> QED
      BY <1>1 DEF AudioJobs
  <2> HIDE DEF Same
  <2> QED
    BY <1>2, <1>4, <2>1
<1>5. CASE LaUpdate(j, [r EXCEPT !.pc = "token", !.attempt = 0, !.renewed = TRUE])
  <2> DEFINE n == [r EXCEPT !.pc = "token", !.attempt = 0, !.renewed = TRUE]
  <2>1. Same(n) /\ n.pc = "token"
    <3> HIDE DEF r
    <3> QED
      BY <1>1 DEF AudioJobs, LaSteps
  <2> HIDE DEF Same
  <2> QED
    BY <1>2, <1>5, <2>1
<1>6. CASE LaUpdate(j, [r EXCEPT !.pc = "raised"])
  BY <1>1, <1>6, RaisesKeeps
<1> QED
  BY <1>3, <1>4, <1>5, <1>6 DEF Post

\* Answer: the recording is stored and noted, or a write fails.
LEMMA AnswerKeeps == ASSUME AudioInv, NEW j \in LaJobs, Answer(j) PROVE AudioInv'
<1> DEFINE o == laJob[j]
<1>1. /\ UNCHANGED <<laText, laIndex>> /\ laIndex' \in Indexes
      /\ o.pc = "answer" /\ o \in AudioJobs /\ LaRuns(j) /\ o.at \in LaPrints
      /\ HealsOf(o, laCache)
  BY DEF Answer, LaAt, AudioInv, LaTypeOK, LaRuns, Synthesizes
<1>2. PICK found \in Finds :
        LET r == [o EXCEPT !.errors = @ \/ found # "fine"]
        IN \/ /\ laCache' = IF found = "invalid" THEN laCache ELSE [laCache EXCEPT ![r.at] = found]
              /\ LaUpdate(j, [Noted(j, r, r.at, found) EXCEPT !.pc = "next"])
           \/ LaUpdate(j, [r EXCEPT !.pc = "raised"]) /\ UNCHANGED laCache
  BY DEF Answer
<1> DEFINE r == [o EXCEPT !.errors = @ \/ found # "fine"]
<1>3. /\ r \in AudioJobs /\ r.text = o.text /\ r.alone = o.alone /\ r.clips = o.clips
      /\ r.at = o.at
      /\ r.todo = o.todo /\ r.wrote = o.wrote /\ r.index = o.index
      /\ (r.errors <=> o.errors \/ found # "fine")
  <2> HIDE DEF o
  <2> QED
    BY <1>1 DEF AudioJobs
<1>4. CASE LaUpdate(j, [r EXCEPT !.pc = "raised"]) /\ UNCHANGED laCache
  <2> HIDE DEF r
  <2> QED
    BY <1>1, <1>3, <1>4, RaisesKeeps
<1>5. CASE /\ laCache' = IF found = "invalid" THEN laCache ELSE [laCache EXCEPT ![r.at] = found]
           /\ LaUpdate(j, [Noted(j, r, r.at, found) EXCEPT !.pc = "next"])
  <2> DEFINE own == {b \in r.clips : PrintOf(j, b) = r.at}
  <2> DEFINE index == [b \in LaBindings |-> IF b \in r.clips /\ PrintOf(j, b) = r.at
                                            THEN Check(r.at, found) ELSE r.index[b]]
  <2> DEFINE n == [[r EXCEPT !.index = index, !.wrote = r.wrote \cup own] EXCEPT !.pc = "next"]
  <2>1. laJob' = [laJob EXCEPT ![j] = n]
    <3>1. [Noted(j, r, r.at, found) EXCEPT !.pc = "next"] = n
      <4> HIDE DEF o, r
      <4> QED
        BY <1>3 DEF Noted, AudioJobs
    <3> QED
      BY <1>5, <3>1 DEF LaUpdate
  <2>2. index \in Indexes /\ own \subseteq LaBindings
    <3> HIDE DEF r, o
    <3> QED
      BY <1>1, <1>3, ChecksTyped DEF Indexes, AudioJobs
  <2>3. /\ laCache' \in [LaPrints -> {"missing", "fine", "flawed"}]
        /\ found = "fine" => laCache'[o.at] = "fine"
        /\ \A f \in LaPrints : f # o.at => laCache'[f] = laCache[f]
    <3> HIDE DEF r, o
    <3> QED
      BY <1>1, <1>3, <1>5 DEF AudioInv, LaTypeOK, Finds
  <2>4. /\ n \in AudioJobs /\ n.pc = "next" /\ n.text = o.text /\ n.wrote = o.wrote \cup own
        /\ n.clips = o.clips /\ n.alone = o.alone /\ n.todo = o.todo /\ n.index = index
        /\ (n.errors <=> o.errors \/ found # "fine")
    <3> HIDE DEF r, o, own, index
    <3> QED
      BY <1>3, <2>2 DEF AudioJobs, LaSteps
  <2>5. /\ \A b \in LaBindings : b \in own <=> b \in o.clips /\ o.text[b] = o.at
        /\ \A b \in LaBindings : index[b] = IF b \in own THEN Check(o.at, found) ELSE o.index[b]
    BY <1>3 DEF PrintOf
  <2>6. \A b \in o.clips : b \in LaBindings /\ o.text[b] \in LaPrints
    BY <1>1 DEF AudioJobs
  <2> HIDE DEF n, own, index, r, o
  <2>7. HealsOf(n, laCache')
    <3> SUFFICES ASSUME n.alone, ~n.errors, NEW b \in n.clips
                 PROVE  /\ laCache'[n.text[b]] = "fine" \/ n.text[b] \in n.todo
                        /\ b \in n.wrote => n.index[b] = Check(n.text[b], "fine")
      BY <2>4 DEF HealsOf, Synthesizes
    <3>1. o.alone /\ ~o.errors /\ found = "fine" /\ b \in o.clips
      BY <2>4
    <3>2. /\ laCache[o.text[b]] = "fine" \/ o.text[b] \in o.todo \/ o.text[b] = o.at
          /\ b \in o.wrote => o.index[b] = Check(o.text[b], "fine")
      BY <3>1, <1>1 DEF HealsOf
    <3>3. laCache'[n.text[b]] = "fine" \/ n.text[b] \in n.todo
      BY <3>1, <3>2, <2>3, <2>4, <2>6
    <3>4. b \in n.wrote => n.index[b] = Check(n.text[b], "fine")
      BY <3>1, <3>2, <2>4, <2>5, <2>6
    <3> QED
      BY <3>3, <3>4
  <2>8. NotesOf(n) /\ ~Synthesizes(n)
    BY <2>4 DEF NotesOf, Synthesizes
  <2> QED
    BY <1>1, <2>1, <2>3, <2>4, <2>7, <2>8, OneJobMoves DEF o
<1> QED
  BY <1>2, <1>4, <1>5

\* Reuse: the clips that needed no synthesis are checked once more.
LEMMA ReuseKeeps == ASSUME AudioInv, NEW j \in LaJobs, Reuse(j) PROVE AudioInv'
<1> DEFINE r == laJob[j]
<1> DEFINE rest == r.clips \ r.wrote
<1> DEFINE Found(b) == IF laCache[PrintOf(j, b)] = "missing" THEN "invalid" ELSE laCache[PrintOf(j, b)]
<1> DEFINE index == [b \in LaBindings |-> IF b \in rest THEN Check(PrintOf(j, b), Found(b)) ELSE r.index[b]]
<1> DEFINE n == [r EXCEPT !.pc = "persist", !.wrote = r.wrote \cup rest, !.index = index]
<1>1. /\ UNCHANGED <<laText, laCache, laIndex>> /\ laIndex' \in Indexes
      /\ laCache' \in [LaPrints -> {"missing", "fine", "flawed"}]
      /\ r.pc = "next" /\ r.todo = {} /\ r \in AudioJobs /\ LaRuns(j) /\ HealsOf(r, laCache)
  BY DEF Reuse, LaAt, AudioInv, LaTypeOK, LaRuns
<1>2. laJob' = [laJob EXCEPT ![j] = n]
  <2>1. n = [r EXCEPT !.pc = "persist", !.wrote = @ \cup rest,
                      !.index = [b \in LaBindings |-> IF b \in rest THEN Check(PrintOf(j, b), Found(b)) ELSE @[b]]]
    <3> HIDE DEF r, rest, Found
    <3> QED
      BY <1>1 DEF AudioJobs
  <2> QED
    BY <2>1 DEF Reuse, LaUpdate
<1>3. \A b \in r.clips : b \in LaBindings /\ r.text[b] \in LaPrints
  BY <1>1 DEF AudioJobs
<1>4. index \in Indexes /\ rest \subseteq LaBindings
  <2>1. ASSUME NEW b \in LaBindings PROVE index[b] \in Checks \cup {LaNone}
    <3>1. CASE b \in rest
      <4>1. laCache[r.text[b]] \in {"missing", "fine", "flawed"} /\ r.text[b] \in LaPrints
        BY <1>1, <1>3, <3>1
      <4>2. Found(b) \in Finds
        BY <4>1 DEF Finds, PrintOf
      <4> HIDE DEF Found, rest
      <4> QED
        BY <3>1, <4>1, <4>2, ChecksTyped DEF PrintOf
    <3>2. CASE b \notin rest
      <4> HIDE DEF rest, Found
      <4> QED
        BY <3>2, <1>1 DEF AudioJobs, Indexes
    <3> QED
      BY <3>1, <3>2
  <2> HIDE DEF rest, Found
  <2>2. index \in Indexes
    BY <2>1 DEF Indexes
  <2>3. rest \subseteq LaBindings
    BY <1>3 DEF rest
  <2> QED
    BY <2>2, <2>3
<1>5. \A b \in LaBindings : index[b] = IF b \in rest THEN Check(r.text[b], Found(b)) ELSE r.index[b]
  BY DEF PrintOf
<1>6. \A b \in r.clips : laCache[r.text[b]] = "fine" => Found(b) = "fine"
  BY DEF PrintOf
<1>7. \A b \in r.clips : b \in rest \/ b \in r.wrote
  OBVIOUS
<1> HIDE DEF index, Found, rest
<1>8. /\ n \in AudioJobs /\ n.pc = "persist" /\ n.text = r.text /\ n.wrote = r.wrote \cup rest
      /\ n.clips = r.clips /\ n.alone = r.alone /\ n.todo = {} /\ n.index = index
      /\ n.errors = r.errors
  <2> HIDE DEF r
  <2> QED
    BY <1>1, <1>4 DEF AudioJobs, LaSteps
<1> HIDE DEF n, r
<1>9. NotesOf(n) /\ ~Synthesizes(n)
  BY <1>7, <1>8 DEF NotesOf, Synthesizes
<1>10. HealsOf(n, laCache')
  <2> SUFFICES ASSUME n.alone, ~n.errors, NEW b \in n.clips
               PROVE  /\ laCache[n.text[b]] = "fine"
                      /\ n.index[b] = Check(n.text[b], "fine")
    BY <1>1, <1>8 DEF HealsOf, Synthesizes
  <2>1. /\ laCache[r.text[b]] = "fine"
        /\ b \in r.wrote => r.index[b] = Check(r.text[b], "fine")
    BY <1>1, <1>8 DEF HealsOf, Synthesizes
  <2> QED
    BY <2>1, <1>3, <1>5, <1>6, <1>7, <1>8
<1> QED
  BY <1>1, <1>2, <1>8, <1>9, <1>10, OneJobMoves DEF r

\* The index with a job's notes.
LEMMA MergedTyped == ASSUME AudioInv, NEW j \in LaJobs PROVE Merged(j) \in Indexes
<1>1. laJob[j].index \in Indexes /\ laIndex \in Indexes
  BY DEF AudioInv, LaTypeOK, AudioJobs
<1> QED
  BY <1>1 DEF Merged, Indexes

\* Persist: the notes go to the index.
LEMMA PersistKeeps == ASSUME AudioInv, NEW j \in LaJobs, Persist(j) PROVE AudioInv'
<1>1. laIndex' \in Indexes /\ LaUpdate(j, LaIdle) /\ UNCHANGED <<laText, laCache>>
  BY MergedTyped DEF Persist
<1> QED
  BY <1>1, GivesUpKeeps

\* Edit and OtherLesson: from then on no job is alone.
LEMMA NobodyAloneKeeps ==
  ASSUME AudioInv, laJob' = NobodyAlone, laText' \in [LaBindings -> LaPrints], laIndex' \in Indexes,
         laCache' \in [LaPrints -> {"missing", "fine", "flawed"}]
  PROVE  AudioInv'
<1> DEFINE k(i) == [laJob[i] EXCEPT !.alone = FALSE]
<1>1. laJob' = [i \in LaJobs |-> k(i)]
  BY DEF NobodyAlone
<1>2. ASSUME NEW i \in LaJobs PROVE /\ k(i) \in AudioJobs /\ k(i).pc = laJob[i].pc /\ ~k(i).alone
                                    /\ k(i).wrote = laJob[i].wrote /\ k(i).clips = laJob[i].clips
                                    /\ k(i).at = laJob[i].at
  BY DEF AudioJobs, AudioInv, LaTypeOK
<1> HIDE DEF k
<1>3. LaTypeOK'
  BY <1>1, <1>2 DEF LaTypeOK, AudioInv, Synthesizes
<1>4. AloneRuns'
  BY <1>1, <1>2 DEF AloneRuns
<1>5. ASSUME NEW i \in LaJobs PROVE NotesOf(laJob[i])' /\ HealsOf(laJob[i], laCache)'
  <2>1. laJob'[i] = k(i) /\ NotesOf(laJob[i])
    BY <1>1 DEF AudioInv
  <2> QED
    BY <2>1, <1>2 DEF NotesOf, HealsOf
<1> QED
  BY <1>3, <1>4, <1>5 DEF AudioInv

\* Restart: the jobs are gone, the files and the index stay.
LEMMA RestartKeeps == ASSUME AudioInv, Restart PROVE AudioInv'
<1>1. laJob' = [i \in LaJobs |-> IF LaRuns(i) THEN LaIdle ELSE laJob[i]] /\ UNCHANGED <<laText, laCache, laIndex>>
  BY DEF Restart
<1>2. LaIdle.pc = "idle" /\ ~LaIdle.alone /\ LaIdle.wrote = {}
  BY DEF LaIdle
<1>3. \A i \in LaJobs : laJob'[i] = LaIdle \/ (laJob'[i] = laJob[i] /\ ~LaRuns(i))
  BY <1>1
<1>4. \A i \in LaJobs : ~laJob'[i].alone
  BY <1>2, <1>3 DEF AudioInv, AloneRuns
<1>5. LaTypeOK'
  BY <1>1, <1>2, <1>3, IdleTyped DEF LaTypeOK, AudioInv, Synthesizes
<1>6. AloneRuns'
  BY <1>4 DEF AloneRuns
<1>7. ASSUME NEW i \in LaJobs PROVE NotesOf(laJob[i])' /\ HealsOf(laJob[i], laCache)'
  BY <1>2, <1>3, <1>4 DEF NotesOf, HealsOf, AudioInv
<1> QED
  BY <1>5, <1>6, <1>7 DEF AudioInv

\* Every step keeps it.
LEMMA AudioStep == AudioInv /\ [LaNext]_laVars => AudioInv'
<1> SUFFICES ASSUME AudioInv, [LaNext]_laVars PROVE AudioInv'
  OBVIOUS
<1>1. ASSUME NEW j \in LaJobs,
             \/ Plan(j) \/ Claim(j) \/ Start(j) \/ NextClip(j) \/ GetToken(j) \/ Post(j)
             \/ Answer(j) \/ Reuse(j) \/ Persist(j)
      PROVE  AudioInv'
  BY <1>1, PlanKeeps, ClaimKeeps, StartKeeps, NextClipKeeps, GetTokenKeeps, PostKeeps,
       AnswerKeeps,
     ReuseKeeps, PersistKeeps
<1>2. CASE Edit
  <2>1. laText' \in [LaBindings -> LaPrints]
    BY <1>2 DEF Edit, AudioInv, LaTypeOK
  <2> QED
    BY <1>2, <2>1, NobodyAloneKeeps DEF Edit, AudioInv, LaTypeOK
<1>3. CASE OtherLesson
  <2>1. laCache' \in [LaPrints -> {"missing", "fine", "flawed"}]
    BY <1>3 DEF OtherLesson, AudioInv, LaTypeOK
  <2> QED
    BY <1>3, <2>1, NobodyAloneKeeps DEF OtherLesson, AudioInv, LaTypeOK
<1>4. CASE Restart
  BY <1>4, RestartKeeps
<1>5. CASE UNCHANGED laVars
  BY <1>5 DEF laVars, AudioInv, LaTypeOK, AloneRuns, LaRuns, NotesOf, HealsOf, Synthesizes
<1> QED
  BY <1>1, <1>2, <1>3, <1>4, <1>5 DEF LaNext

\* The invariant of the jobs, the files and the index.
THEOREM RecordingsInvariant == LaSpec => []AudioInv
  BY AudioStarts, AudioStep, PTL DEF LaSpec

\* Only a job that ends writes to the index, and of its own clips.
LEMMA StoresItsOwn ==
  ASSUME AudioInv, [LaNext]_laVars, NEW b \in LaBindings, laIndex'[b] # laIndex[b]
  PROVE  \E j \in LaJobs : /\ laJob[j].pc \in {"persist", "raised"} /\ laJob'[j] = LaIdle
                           /\ b \in laJob[j].clips
                           /\ b \in laJob[j].wrote \/ laJob[j].pc = "raised"
<1>1. PICK j \in LaJobs : Persist(j)
  BY DEF LaNext, laVars, Plan, Claim, Start, NextClip, GetToken, Post, Answer, Reuse, Edit,
       OtherLesson, Restart
<1>2. laJob[j].pc \in {"persist", "raised"} /\ laJob'[j] = LaIdle /\ laIndex' = Merged(j)
  BY <1>1 DEF Persist, LaUpdate, AudioInv, LaTypeOK
<1>3. b \in laJob[j].clips
  BY <1>2 DEF Merged
<1>4. laJob[j].pc = "persist" => laJob[j].clips \subseteq laJob[j].wrote
  BY DEF AudioInv, NotesOf
<1> QED
  BY <1>2, <1>3, <1>4

\* The job that writes its notes leaves texts and files alone.
LEMMA FilesStay ==
  ASSUME AudioInv, [LaNext]_laVars, NEW j \in LaJobs, laJob[j].pc = "persist", laJob'[j] = LaIdle
  PROVE  UNCHANGED <<laText, laCache>>
<1>1. LaIdle.pc = "idle"
  BY DEF LaIdle
<1>2. ASSUME laJob' = NobodyAlone PROVE FALSE
  <2>1. laJob'[j] = [laJob[j] EXCEPT !.alone = FALSE] /\ laJob[j] \in AudioJobs
    BY <1>2 DEF NobodyAlone, AudioInv, LaTypeOK
  <2>2. laJob'[j].pc = "persist"
    BY <2>1 DEF AudioJobs
  <2> QED
    BY <1>1, <2>2
<1>3. ASSUME NEW i \in LaJobs, Answer(i) PROVE FALSE
  <2>1. i # j /\ \E r : laJob' = [laJob EXCEPT ![i] = r]
    BY <1>3 DEF Answer, LaAt, LaUpdate
  <2>2. laJob'[j] = laJob[j]
    BY <2>1 DEF AudioInv, LaTypeOK
  <2> QED
    BY <1>1, <2>2
<1>4. ~Edit /\ ~OtherLesson
  BY <1>2 DEF Edit, OtherLesson
<1>5. UNCHANGED laVars => UNCHANGED <<laText, laCache>>
  BY DEF laVars
<1>6. ASSUME LaNext PROVE UNCHANGED <<laText, laCache>>
  BY <1>3, <1>4, <1>6 DEF LaNext, Plan, Claim, Start, NextClip, GetToken, Post, Reuse, Persist,
       Restart
<1> QED
  BY <1>5, <1>6

\* A job that was alone and met no error leaves all its clips ready.
LEMMA HealsWhatItTook ==
  ASSUME AudioInv, [LaNext]_laVars, NEW j \in LaJobs, laJob[j].pc = "persist", laIndex' = Merged(j),
         laJob'[j] = LaIdle, laJob[j].alone, ~laJob[j].errors, NEW b \in laJob[j].clips
  PROVE  Status(b)' = "ready"
<1> DEFINE r == laJob[j]
<1>1. UNCHANGED <<laText, laCache>>
  BY FilesStay
<1>2. r \in AudioJobs /\ r.text = laText /\ b \in r.wrote /\ b \in LaBindings
  BY DEF AudioInv, LaTypeOK, AloneRuns, NotesOf, AudioJobs
<1>3. /\ laCache[r.text[b]] = "fine" /\ r.index[b] = Check(r.text[b], "fine")
      /\ r.text[b] \in LaPrints
  BY <1>2 DEF AudioInv, HealsOf, AudioJobs
<1>4. r.index[b] # LaNone
  BY <1>3, ChecksTyped, LessonAudioAssumption DEF Finds
<1>5. laIndex'[b] = r.index[b]
  BY <1>2, <1>4 DEF Merged
<1>6. /\ laIndex'[b].found = "fine" /\ laIndex'[b].print = laText'[b]
      /\ laCache'[laText'[b]] = "fine"
  BY <1>1, <1>2, <1>3, <1>5 DEF Check
<1> HIDE DEF r
<1> QED
  BY <1>6 DEF Status, Flawed

\* The two action properties of the index.
LEMMA RecordingsStep ==
  AudioInv /\ [LaNext]_laVars =>
    /\ [\A b \in LaBindings : laIndex'[b] # laIndex[b] =>
       \E j \in LaJobs : /\ laJob[j].pc \in {"persist", "raised"} /\ laJob'[j] = LaIdle
                         /\ b \in laJob[j].clips
                         /\ b \in laJob[j].wrote \/ laJob[j].pc = "raised"]_laVars
    /\ [\A j \in LaJobs :
       laJob[j].pc = "persist" /\ laIndex' = Merged(j) /\ laJob'[j] = LaIdle /\ laJob[j].alone /\ ~laJob[j].errors =>
         \A b \in laJob[j].clips : Status(b)' = "ready"]_laVars
  BY StoresItsOwn, HealsWhatItTook

\* For any clips, jobs and restarts: a job writes to the index what it made, and
\* a job that was alone and met no error leaves every clip it took ready.
THEOREM RecordingsAreTrusted == LaSpec => RecordingsTrusted
  BY RecordingsInvariant, RecordingsStep, PTL DEF LaSpec, RecordingsTrusted, OwnChecksOnly,
       CompletedHeals

(***************************************************************************)
(* Reviews.                                                                *)
(***************************************************************************)
\* A finding, with the text it was read in and the text it is shown with.
Findings ==
  [block : RvBlocks, issue : RvIssues, read : RvTexts \X {1, 2}, text : RvTexts, status : {"open", "resolved"}]

\* A run of the log: the hashes it covers, the exercises its lesson placed, who was
\* heard, what was found.
StoredRuns ==
  [plan : {1, 2}, version : {1, 2}, hashes : UNION {[S -> RvTexts] : S \in SUBSET RvTargets},
   placed : SUBSET RvExercises,
   heard : SUBSET (RvBlocks \X (RvTexts \X {1, 2}) \X {"answers", "surface", "prose"}),
   findings : SUBSET Findings]

\* What a review may be asked for.
Scoped == RvBlocks \cup {"lesson"}

\* A review under way.
ReviewJobs ==
  [pc : {"idle", "prepare", "calls"}, queue : SUBSET Scoped, scope : Scoped \cup {RvNone},
   text : [RvTargets -> RvTexts] \cup {RvNone}, plan : {0, 1, 2}, version : {0, 1, 2}]

\* What it is about is captured.
Captured(job) ==
  /\ job.scope \in Scoped /\ job.text \in [RvTargets -> RvTexts]
  /\ job.plan \in {1, 2} /\ job.version \in {1, 2}

\* A finding is of the text the run read.
FindingFits(f, run) ==
  /\ f.read = <<f.text, run.plan>>
  /\ f.block \in DOMAIN run.hashes => f.text = run.hashes[f.block]

\* A run of the log heard every reader of each block that it covers, but for the
\* exercises its lesson did not place.
RunStored(run) ==
  /\ run \in StoredRuns
  /\ \A f \in run.findings : FindingFits(f, run)
  /\ \A b \in RvBlocks \cap DOMAIN run.hashes :
       (b \in RvExercises => b \in run.placed) =>
          \A reader \in ReadersOf(b) : <<b, <<run.hashes[b], run.plan>>, reader>> \in run.heard

\* Lesson, plan, version and the reviews under way.
ReviewWorldFits ==
  /\ rvText \in [RvTargets -> RvTexts] /\ rvPlan \in {1, 2} /\ rvVersion \in {1, 2}
  /\ rvJob \in [RvJobs -> ReviewJobs]
  /\ \A j \in RvJobs : rvJob[j].pc = "calls" => Captured(rvJob[j])
  /\ rvCandidate = RvNone \/ (Captured(rvCandidate) /\ rvCandidate.scope = "lesson")

\* The log.
RunLogFits == rvLog \in Seq(StoredRuns) /\ \A k \in DOMAIN rvLog : RunStored(rvLog[k])

\* What was decided is resolved in the log; a run that still has it open was
\* stored before the decision.
DecisionsFit ==
  /\ rvDecided \in [Said -> Nat]
  /\ \A s \in Said : rvDecided[s] > 0 => s \in ResolvedIn(rvLog)
  /\ \A k \in DOMAIN rvLog : \A f \in rvLog[k].findings :
       f.block \in DOMAIN rvLog[k].hashes /\ f.status = "open" /\ rvDecided[<<f.block, f.issue>>] > 0
         => k <= rvDecided[<<f.block, f.issue>>]

\* The invariant.
ReviewsInv == ReviewWorldFits /\ RunLogFits /\ DecisionsFit

\* What is resolved in a log.
LEMMA ResolvedHas ==
  ASSUME NEW log, NEW s
  PROVE  s \in ResolvedIn(log) <=>
         \E k \in DOMAIN log : \E f \in log[k].findings : f.status = "resolved" /\ s = <<f.block, f.issue>>
  BY DEF ResolvedIn

\* A finding that is shown is in a run that speaks for its block.
LEMMA ShownHas ==
  ASSUME NEW s \in Shown
  PROVE  /\ s[1] \in DOMAIN rvLog /\ s[2] \in rvLog[s[1]].findings
         /\ Speaks(s[1], s[2].block) /\ s[2].text = rvText[s[2].block]
  BY DEF Shown, Runs

\* It holds at the start.
LEMMA ReviewsStart == RvInit => ReviewsInv
<1> SUFFICES ASSUME RvInit PROVE ReviewsInv
  OBVIOUS
<1>1. ReviewWorldFits
  BY DEF RvInit, ReviewWorldFits, RvIdle, ReviewJobs, RvTexts
<1>2. RunLogFits
  BY DEF RvInit, RunLogFits
<1>3. DecisionsFit
  BY DEF RvInit, DecisionsFit
<1> QED
  BY <1>1, <1>2, <1>3 DEF ReviewsInv

\* A step that leaves log and decisions alone.
LEMMA LogStays ==
  ASSUME ReviewsInv, UNCHANGED <<rvLog, rvDecided>>, ReviewWorldFits'
  PROVE  ReviewsInv'
<1>1. RunLogFits'
  BY DEF ReviewsInv, RunLogFits, RunStored, FindingFits
<1>2. DecisionsFit'
  BY DEF ReviewsInv, DecisionsFit, ResolvedIn
<1> QED
  BY <1>1, <1>2 DEF ReviewsInv

\* A step of one review.
LEMMA JobMoves ==
  ASSUME ReviewsInv, NEW j \in RvJobs, NEW r \in ReviewJobs, JobStep(j, r), r.pc = "calls" => Captured(r)
  PROVE  ReviewWorldFits'
<1>1. /\ rvJob' = [rvJob EXCEPT ![j] = r]
      /\ UNCHANGED <<rvText, rvPlan, rvVersion, rvCandidate>>
  BY DEF JobStep, rvWorld
<1>2. /\ rvJob' \in [RvJobs -> ReviewJobs]
      /\ \A i \in RvJobs : rvJob'[i].pc = "calls" => Captured(rvJob'[i])
  BY <1>1 DEF ReviewsInv, ReviewWorldFits
<1> QED
  BY <1>1, <1>2 DEF ReviewsInv, ReviewWorldFits, Captured

\* No review.
LEMMA ReviewIdle == RvIdle \in ReviewJobs /\ RvIdle.pc = "idle"
  BY DEF RvIdle, ReviewJobs

\* RvEdit: a block, the plan or the version is another.
LEMMA EditKeeps == ASSUME ReviewsInv, RvEdit PROVE ReviewsInv'
<1>1. rvText' \in [RvTargets -> RvTexts] /\ rvPlan' \in {1, 2} /\ rvVersion' \in {1, 2}
  BY DEF RvEdit, ReviewsInv, ReviewWorldFits, RvTexts
<1>2. UNCHANGED <<rvLog, rvDecided, rvJob, rvCandidate>>
  BY DEF RvEdit
<1>3. ReviewWorldFits'
  BY <1>1, <1>2 DEF ReviewsInv, ReviewWorldFits, Captured
<1> QED
  BY <1>2, <1>3, LogStays

\* ReviewCandidate: a candidate is captured, with what it is read with.
LEMMA CandidateKeeps == ASSUME ReviewsInv, ReviewCandidate PROVE ReviewsInv'
<1>1. PICK t \in RvTargets, text \in RvTexts :
        rvCandidate' = [RvIdle EXCEPT !.scope = "lesson", !.plan = rvPlan,
                            !.version = rvVersion, !.text = [rvText EXCEPT ![t] = text]]
  BY DEF ReviewCandidate
<1>2. UNCHANGED <<rvText, rvPlan, rvVersion, rvLog, rvJob, rvDecided>>
  BY DEF ReviewCandidate
<1>3. /\ [rvText EXCEPT ![t] = text] \in [RvTargets -> RvTexts] /\ rvPlan \in {1, 2}
      /\ rvVersion \in {1, 2}
  BY DEF ReviewsInv, ReviewWorldFits
<1>4. /\ rvCandidate'.scope = "lesson" /\ rvCandidate'.plan = rvPlan
      /\ rvCandidate'.version = rvVersion
      /\ rvCandidate'.text = [rvText EXCEPT ![t] = text]
  BY <1>1 DEF RvIdle
<1>5. Captured(rvCandidate)' /\ rvCandidate'.scope = "lesson"
  BY <1>3, <1>4 DEF Captured, Scoped
<1>6. ReviewWorldFits'
  BY <1>2, <1>5 DEF ReviewsInv, ReviewWorldFits, Captured
<1> QED
  BY <1>2, <1>6, LogStays

\* Leaves: a review ends without a run.
LEMMA LeavesKeeps == ASSUME ReviewsInv, NEW j \in RvJobs, Leaves(j) PROVE ReviewsInv'
  BY ReviewIdle, JobMoves, LogStays DEF Leaves, Quiet

\* StartReview: the request is queued.
LEMMA StartKeepsReviews == ASSUME ReviewsInv, NEW j \in RvJobs, StartReview(j) PROVE ReviewsInv'
<1>1. PICK scopes \in Scopes \ {{}} : JobStep(j, [RvIdle EXCEPT !.pc = "prepare", !.queue = scopes])
  BY DEF StartReview
<1>2. scopes \subseteq Scoped
  BY DEF Scopes, Scoped, RvTargets
<1> DEFINE r == [RvIdle EXCEPT !.pc = "prepare", !.queue = scopes]
<1>3. r \in ReviewJobs /\ r.pc = "prepare"
  BY <1>2 DEF RvIdle, ReviewJobs
<1> HIDE DEF r
<1>4. ReviewWorldFits'
  BY <1>1, <1>3, JobMoves DEF r
<1> QED
  BY <1>4, LogStays DEF StartReview, Quiet

\* Prepare: the review captures what it is about.
LEMMA PrepareKeeps == ASSUME ReviewsInv, NEW j \in RvJobs, Prepare(j) PROVE ReviewsInv'
<1>1. PICK scope \in rvJob[j].queue :
        JobStep(j, [rvJob[j] EXCEPT
              !.pc = "calls", !.queue = @ \ {scope}, !.scope = scope,
              !.text = rvText, !.plan = rvPlan, !.version = rvVersion])
  BY DEF Prepare
<1> DEFINE o == rvJob[j]
<1> DEFINE r == [o EXCEPT !.pc = "calls", !.queue = @ \ {scope}, !.scope = scope,
                          !.text = rvText, !.plan = rvPlan, !.version = rvVersion]
<1>2. /\ o \in ReviewJobs /\ rvText \in [RvTargets -> RvTexts] /\ rvPlan \in {1, 2}
      /\ rvVersion \in {1, 2}
  BY DEF ReviewsInv, ReviewWorldFits
<1>3. scope \in Scoped /\ scope \in o.queue
  BY <1>2 DEF ReviewJobs
<1>4. /\ r \in ReviewJobs /\ r.scope = scope /\ r.text = rvText /\ r.plan = rvPlan
      /\ r.version = rvVersion
  <2> HIDE DEF o
  <2> QED
    BY <1>2, <1>3 DEF ReviewJobs
<1>5. JobStep(j, r)
  BY <1>1
<1> HIDE DEF r, o
<1>6. Captured(r)
  BY <1>2, <1>3, <1>4 DEF Captured
<1>7. ReviewWorldFits'
  BY <1>4, <1>5, <1>6, JobMoves
<1> QED
  BY <1>7, LogStays DEF Prepare, Quiet

\* A finding that is carried over was in a run of the same plan.
LEMMA CarriedHas ==
  ASSUME ReviewsInv, NEW run, NEW f \in Carried(run)
  PROVE  /\ MayCarry(f, run)
         /\ \E k \in DOMAIN rvLog : rvLog[k].plan = run.plan /\ f \in rvLog[k].findings
<1> DEFINE like == {k \in Runs : /\ rvLog[k].plan = run.plan
                                 /\ rvLog[k].version = run.version}
<1> DEFINE last == CHOOSE k \in like : \A other \in like : other <= k
<1>1. like # {} /\ f \in {g \in rvLog[last].findings : MayCarry(g, run)}
  BY DEF Carried
<1>2. like \subseteq 0..Len(rvLog) /\ Len(rvLog) \in Nat
  BY DEF Runs, ReviewsInv, RunLogFits
<1>3. \E k \in like : \A other \in like : other <= k
  <2> HIDE DEF like
  <2> QED
    BY <1>1, <1>2, Greatest
<1>4. last \in like
  <2> HIDE DEF like
  <2> QED
    BY <1>3
<1> QED
  BY <1>1, <1>4 DEF Runs

\* What a review stores fits, and reopens nothing that is resolved.
LEMMA StoredFits ==
  ASSUME ReviewsInv, NEW job, Captured(job), NEW said \in SUBSET Said,
         \A s \in said : s[1] \in SelectedBy(job.scope),
         NEW run, run = RunOf(job, Readers(job), Raised(job, said))
  PROVE  /\ RunStored(Stored(run))
         /\ \A f \in Stored(run).findings :
              f.block \in DOMAIN Stored(run).hashes /\ f.status = "open" =>
                <<f.block, f.issue>> \notin ResolvedIn(rvLog)
<1> DEFINE own == {[block |-> s[1], issue |-> s[2], read |-> Given(job, s[1]), text |-> job.text[s[1]],
                    status |-> "open"] : s \in said}
<1> DEFINE hashes == [t \in SelectedBy(job.scope) |-> job.text[t]]
<1> DEFINE heard == UNION {HeardBy(job, reader) : reader \in Readers(job)}
<1>1. /\ run.plan = job.plan /\ run.version = job.version /\ run.hashes = hashes
      /\ run.placed = PlacedIn(job.text)
      /\ run.heard = heard /\ run.findings = own /\ run.source = job.text
  <2> DEFINE Opened(f) == [block |-> f.block, issue |-> f.issue, read |-> f.read,
                           text |-> job.text[f.block], status |-> "open"]
  <2>1. ASSUME NEW t
        PROVE  Opened([block |-> t[1], issue |-> t[2], read |-> Given(job, t[1])]) =
                 [block |-> t[1], issue |-> t[2], read |-> Given(job, t[1]),
                  text |-> job.text[t[1]], status |-> "open"]
    OBVIOUS
  <2>2. {Opened(f) : f \in Raised(job, said)} = own
    <3> HIDE DEF Opened
    <3> QED
      BY <2>1 DEF Raised
  <2>3. /\ run.plan = job.plan /\ run.version = job.version /\ run.hashes = hashes
        /\ run.placed = PlacedIn(job.text) /\ run.heard = heard /\ run.source = job.text
        /\ run.findings = {Opened(f) : f \in Raised(job, said)}
    BY DEF RunOf, SourceOf
  <2> QED
    BY <2>2, <2>3
<1>2. SelectedBy(job.scope) \subseteq RvTargets /\ DOMAIN hashes = SelectedBy(job.scope)
  BY DEF Captured, SelectedBy, Scoped, RvTargets
<1>3. hashes \in UNION {[S -> RvTexts] : S \in SUBSET RvTargets}
  <2>1. hashes \in [SelectedBy(job.scope) -> RvTexts]
    BY <1>2 DEF Captured
  <2> HIDE DEF hashes
  <2> QED
    BY <2>1, <1>2
<1>4. ASSUME NEW f \in own
      PROVE  /\ f \in Findings /\ f.read = <<f.text, job.plan>> /\ f.block \in SelectedBy(job.scope)
             /\ f.text = job.text[f.block] /\ f.status = "open"
  <2>1. PICK s \in said : f = [block |-> s[1], issue |-> s[2], read |-> Given(job, s[1]),
                               text |-> job.text[s[1]], status |-> "open"]
    OBVIOUS
  <2>2. s[1] \in RvBlocks /\ s[2] \in RvIssues /\ s[1] \in RvTargets
    BY DEF Said, RvTargets
  <2>3. job.text[s[1]] \in RvTexts /\ job.plan \in {1, 2}
    BY <2>2 DEF Captured
  <2> QED
    BY <2>1, <2>2, <2>3 DEF Given, Findings
<1>5. heard \subseteq RvBlocks \X (RvTexts \X {1, 2}) \X {"answers", "surface", "prose"}
  <2> SUFFICES ASSUME NEW h \in heard
               PROVE  h \in RvBlocks \X (RvTexts \X {1, 2}) \X {"answers", "surface", "prose"}
    OBVIOUS
  <2>1. PICK reader \in Readers(job) : h \in HeardBy(job, reader)
    OBVIOUS
  <2>2. PICK b \in BlocksOf(job.scope) : h = <<b, Given(job, b), reader>> /\ reader \in ReadersOf(b)
    BY <2>1 DEF HeardBy, ReadFor
  <2>3. b \in RvBlocks /\ job.text[b] \in RvTexts /\ job.plan \in {1, 2}
    BY DEF BlocksOf, Captured, RvTargets
  <2>4. reader \in {"answers", "surface", "prose"}
    BY <2>2 DEF ReadersOf
  <2> QED
    BY <2>2, <2>3, <2>4 DEF Given
<1>6. ASSUME NEW b \in RvBlocks \cap SelectedBy(job.scope), NEW reader \in ReadersOf(b),
             b \in RvExercises => b \in PlacedIn(job.text)
      PROVE  <<b, <<hashes[b], job.plan>>, reader>> \in heard
  <2>1. b \in ReadFor(job)
    BY <1>6 DEF BlocksOf, ReadFor
  <2>2. reader \in Readers(job)
    BY <2>1 DEF Readers
  <2>3. <<b, Given(job, b), reader>> \in HeardBy(job, reader)
    BY <2>1 DEF HeardBy
  <2>4. Given(job, b) = <<hashes[b], job.plan>>
    BY DEF Given
  <2> HIDE DEF hashes
  <2> QED
    BY <2>2, <2>3, <2>4
<1> HIDE DEF own, hashes, heard
<1>7. ASSUME NEW f \in Carried(run)
      PROVE  f \in Findings /\ f.read = <<f.text, job.plan>> /\ f.block \notin SelectedBy(job.scope)
  <2>1. PICK k \in DOMAIN rvLog : rvLog[k].plan = run.plan /\ f \in rvLog[k].findings
    BY CarriedHas
  <2>2. RunStored(rvLog[k])
    BY DEF ReviewsInv, RunLogFits
  <2>3. f \in Findings /\ f.read = <<f.text, rvLog[k].plan>>
    BY <2>1, <2>2 DEF RunStored, StoredRuns, FindingFits
  <2>4. f.block \notin DOMAIN run.hashes
    BY CarriedHas DEF MayCarry
  <2> QED
    BY <1>1, <1>2, <2>1, <2>3, <2>4
<1>8. ASSUME NEW f \in Preserved(run.findings)
      PROVE  /\ f \in Findings /\ f.read = <<f.text, job.plan>> /\ f.block \in SelectedBy(job.scope)
             /\ f.text = job.text[f.block]
             /\ f.status = "open" => <<f.block, f.issue>> \notin ResolvedIn(rvLog)
  <2>1. PICK g \in own : f = IF <<g.block, g.issue>> \in ResolvedIn(rvLog)
                             THEN [g EXCEPT !.status = "resolved"] ELSE g
    BY <1>1 DEF Preserved
  <2>2. /\ g \in Findings /\ g.read = <<g.text, job.plan>> /\ g.block \in SelectedBy(job.scope)
        /\ g.text = job.text[g.block]
    BY <1>4
  <2>3. CASE <<g.block, g.issue>> \in ResolvedIn(rvLog)
    <3>1. /\ f \in Findings /\ f.block = g.block /\ f.read = g.read /\ f.text = g.text
          /\ f.status = "resolved"
      BY <2>1, <2>2, <2>3 DEF Findings
    <3> QED
      BY <2>2, <3>1
  <2>4. CASE <<g.block, g.issue>> \notin ResolvedIn(rvLog)
    BY <2>1, <2>2, <2>4
  <2> QED
    BY <2>3, <2>4
<1> DEFINE stored == Stored(run)
<1>9. /\ stored.plan = job.plan /\ stored.version = job.version /\ stored.hashes = hashes
      /\ stored.placed = PlacedIn(job.text) /\ stored.heard = heard
      /\ stored.findings = Carried(run) \union Preserved(run.findings)
      /\ stored = [plan |-> job.plan, version |-> job.version, hashes |-> hashes,
                   placed |-> PlacedIn(job.text), heard |-> heard,
                   findings |-> Carried(run) \union Preserved(run.findings)]
  BY <1>1 DEF Stored
<1> HIDE DEF stored
<1>10. stored.findings \subseteq Findings
  BY <1>7, <1>8, <1>9
<1>11. stored \in StoredRuns
  <2>1. job.plan \in {1, 2} /\ job.version \in {1, 2}
    BY DEF Captured
  <2>2. PlacedIn(job.text) \subseteq RvExercises
    BY PlacedAssumption DEF Captured, PlacedIn, RvTargets
  <2> QED
    BY <1>3, <1>5, <1>9, <1>10, <2>1, <2>2 DEF StoredRuns
<1>12. \A t \in SelectedBy(job.scope) : hashes[t] = job.text[t]
  BY DEF hashes
<1>13. \A f \in stored.findings : FindingFits(f, stored)
  BY <1>2, <1>7, <1>8, <1>9, <1>12 DEF FindingFits
<1>14. \A b \in RvBlocks \cap DOMAIN stored.hashes :
         (b \in RvExercises => b \in stored.placed) =>
            \A reader \in ReadersOf(b) :
               <<b, <<stored.hashes[b], stored.plan>>, reader>> \in stored.heard
  BY <1>2, <1>6, <1>9
<1>15. RunStored(stored)
  BY <1>11, <1>13, <1>14 DEF RunStored
<1>16. \A f \in stored.findings :
         f.block \in DOMAIN stored.hashes /\ f.status = "open" => <<f.block, f.issue>> \notin ResolvedIn(rvLog)
  BY <1>2, <1>7, <1>8, <1>9
<1> QED
  BY <1>15, <1>16 DEF stored

\* The log grows by one run.
LEMMA GrowsBy ==
  ASSUME ReviewsInv, NEW new, RunStored(new), rvLog' = Append(rvLog, new)
  PROVE  /\ RunLogFits'
         /\ DOMAIN rvLog' = DOMAIN rvLog \cup {Len(rvLog) + 1}
         /\ rvLog'[Len(rvLog) + 1] = new
         /\ \A k \in DOMAIN rvLog : rvLog'[k] = rvLog[k] /\ k \in DOMAIN rvLog' /\ k # Len(rvLog) + 1
         /\ ResolvedIn(rvLog) \subseteq ResolvedIn(rvLog')
<1>1. /\ rvLog \in Seq(StoredRuns) /\ Len(rvLog) \in Nat /\ DOMAIN rvLog = 1..Len(rvLog)
      /\ new \in StoredRuns
  BY DEF ReviewsInv, RunLogFits, RunStored
<1>2. /\ rvLog' \in Seq(StoredRuns) /\ Len(rvLog') = Len(rvLog) + 1
      /\ DOMAIN rvLog' = 1..(Len(rvLog) + 1)
  BY <1>1
<1>3. rvLog'[Len(rvLog) + 1] = new
  BY <1>1
<1>4. \A k \in DOMAIN rvLog : rvLog'[k] = rvLog[k] /\ k \in DOMAIN rvLog' /\ k # Len(rvLog) + 1
  BY <1>1, <1>2
<1>5. DOMAIN rvLog' = DOMAIN rvLog \cup {Len(rvLog) + 1}
  BY <1>1, <1>2
<1>6. \A k \in DOMAIN rvLog' : RunStored(rvLog'[k])
  BY <1>3, <1>4, <1>5 DEF ReviewsInv, RunLogFits
<1>7. RunLogFits'
  BY <1>2, <1>6 DEF RunLogFits, RunStored, FindingFits
<1>8. ASSUME NEW s \in ResolvedIn(rvLog) PROVE s \in ResolvedIn(rvLog')
  <2>1. PICK k \in DOMAIN rvLog : \E f \in rvLog[k].findings : f.status = "resolved" /\ s = <<f.block, f.issue>>
    BY ResolvedHas
  <2>2. k \in DOMAIN rvLog' /\ rvLog'[k] = rvLog[k]
    BY <1>4
  <2> QED
    BY <2>1, <2>2, ResolvedHas
<1> QED
  BY <1>3, <1>4, <1>5, <1>7, <1>8

\* A review stores its run.
LEMMA StoringKeeps ==
  ASSUME ReviewsInv, NEW job, Captured(job), NEW said \in SUBSET Said,
         \A s \in said : s[1] \in SelectedBy(job.scope),
         rvLog' = Recorded(RunOf(job, Readers(job), Raised(job, said))), UNCHANGED rvDecided, ReviewWorldFits'
  PROVE  ReviewsInv'
<1> DEFINE run == RunOf(job, Readers(job), Raised(job, said))
<1> DEFINE new == Stored(run)
<1>1. RunStored(new) /\ rvLog' = Append(rvLog, new)
  BY StoredFits DEF Recorded
<1>2. \A f \in new.findings :
        f.block \in DOMAIN new.hashes /\ f.status = "open" => <<f.block, f.issue>> \notin ResolvedIn(rvLog)
  BY StoredFits
<1> HIDE DEF run, new
<1>3. /\ RunLogFits'
      /\ DOMAIN rvLog' = DOMAIN rvLog \cup {Len(rvLog) + 1}
      /\ rvLog'[Len(rvLog) + 1] = new
      /\ \A k \in DOMAIN rvLog : rvLog'[k] = rvLog[k]
      /\ ResolvedIn(rvLog) \subseteq ResolvedIn(rvLog')
  BY <1>1, GrowsBy
<1>4. DecisionsFit'
  <2>1. \A s \in Said : rvDecided'[s] > 0 => s \in ResolvedIn(rvLog')
    BY <1>3 DEF ReviewsInv, DecisionsFit
  <2>2. ASSUME NEW k \in DOMAIN rvLog', NEW f \in rvLog'[k].findings,
               f.block \in DOMAIN rvLog'[k].hashes, f.status = "open", rvDecided'[<<f.block, f.issue>>] > 0
        PROVE  k <= rvDecided'[<<f.block, f.issue>>]
    <3>1. CASE k \in DOMAIN rvLog
      <4>1. rvLog'[k] = rvLog[k]
        BY <3>1, <1>3
      <4> QED
        BY <3>1, <4>1, <2>2 DEF ReviewsInv, DecisionsFit
    <3>2. CASE k = Len(rvLog) + 1
      <4>1. rvLog'[k] = new
        BY <3>2, <1>3
      <4>2. f \in Findings
        BY <4>1, <1>1 DEF RunStored, StoredRuns
      <4>3. <<f.block, f.issue>> \in Said
        BY <4>2 DEF Findings, Said
      <4>4. <<f.block, f.issue>> \notin ResolvedIn(rvLog)
        BY <4>1, <2>2, <1>2
      <4> QED
        BY <4>3, <4>4, <2>2 DEF ReviewsInv, DecisionsFit
    <3> QED
      BY <3>1, <3>2, <1>3
  <2>3. rvDecided' \in [Said -> Nat]
    BY DEF ReviewsInv, DecisionsFit
  <2> QED
    BY <2>1, <2>2, <2>3 DEF DecisionsFit
<1> QED
  BY <1>3, <1>4 DEF ReviewsInv

\* Store: the readers' answers are merged and stored.
LEMMA StoreKeeps == ASSUME ReviewsInv, NEW j \in RvJobs, Store(j) PROVE ReviewsInv'
<1> DEFINE job == rvJob[j]
<1>1. job \in ReviewJobs /\ job.pc = "calls" /\ Captured(job)
  BY DEF Store, ReviewsInv, ReviewWorldFits
<1>2. PICK heard \in SUBSET Readers(job), said \in SUBSET Said :
        /\ heard = Readers(job)
        /\ rvLog' = Recorded(RunOf(job, heard, Raised(job, InScope(job.scope, said))))
  BY DEF Store, Enough
<1> DEFINE r == IF job.queue = {} THEN RvIdle ELSE [RvIdle EXCEPT !.pc = "prepare", !.queue = job.queue]
<1>3. JobStep(j, r) /\ UNCHANGED rvDecided
  BY DEF Store
<1>4. r \in ReviewJobs /\ r.pc # "calls"
  <2>1. job.queue \subseteq Scoped
    BY <1>1 DEF ReviewJobs
  <2> HIDE DEF job
  <2> QED
    BY <2>1 DEF RvIdle, ReviewJobs
<1>5. ReviewWorldFits'
  <2> HIDE DEF r
  <2> QED
    BY <1>3, <1>4, JobMoves
<1>6. /\ InScope(job.scope, said) \in SUBSET Said
      /\ \A s \in InScope(job.scope, said) : s[1] \in SelectedBy(job.scope)
  BY DEF InScope, BlocksOf
<1> HIDE DEF job, r
<1> QED
  BY <1>1, <1>2, <1>3, <1>5, <1>6, StoringKeeps

\* AcceptCandidate: its review is stored with the lesson.
LEMMA AcceptKeeps == ASSUME ReviewsInv, AcceptCandidate PROVE ReviewsInv'
<1>1. Captured(rvCandidate) /\ rvCandidate.scope = "lesson"
  BY DEF AcceptCandidate, ReviewsInv, ReviewWorldFits
<1>2. PICK kept \in SUBSET RvTargets, said \in SUBSET Said :
        LET accepted == [t \in RvTargets |-> IF t \in kept THEN rvText[t] ELSE rvCandidate.text[t]]
        IN /\ rvText' = accepted
           /\ rvLog' = IF StillExact(accepted)
                       THEN Recorded(RunOf(rvCandidate, Readers(rvCandidate), Raised(rvCandidate, said)))
                       ELSE rvLog
  BY DEF AcceptCandidate
<1>3. UNCHANGED <<rvPlan, rvVersion, rvJob, rvDecided>> /\ rvCandidate' = RvNone
  BY DEF AcceptCandidate
<1>4. rvText' \in [RvTargets -> RvTexts]
  <2>1. rvText \in [RvTargets -> RvTexts] /\ rvCandidate.text \in [RvTargets -> RvTexts]
    BY <1>1 DEF ReviewsInv, ReviewWorldFits, Captured
  <2> QED
    BY <1>2, <2>1
<1>5. ReviewWorldFits'
  BY <1>3, <1>4 DEF ReviewsInv, ReviewWorldFits, Captured
<1>6. \A s \in said : s[1] \in SelectedBy(rvCandidate.scope)
  BY <1>1 DEF Said, SelectedBy, RvTargets
<1>7. CASE rvLog' = rvLog
  BY <1>3, <1>5, <1>7, LogStays
<1>8. CASE rvLog' = Recorded(RunOf(rvCandidate, Readers(rvCandidate), Raised(rvCandidate, said)))
  BY <1>1, <1>3, <1>5, <1>6, <1>8, StoringKeeps
<1> QED
  BY <1>2, <1>7, <1>8

\* A finding is resolved in its run.
LEMMA Decides ==
  ASSUME ReviewsInv, NEW s \in Shown, s[2].status = "open",
         rvLog' = [rvLog EXCEPT ![s[1]].findings = (@ \ {s[2]}) \union {[s[2] EXCEPT !.status = "resolved"]}]
  PROVE  /\ RunLogFits' /\ DOMAIN rvLog' = DOMAIN rvLog
         /\ \A k \in DOMAIN rvLog : rvLog'[k].hashes = rvLog[k].hashes
         /\ ResolvedIn(rvLog) \subseteq ResolvedIn(rvLog')
         /\ <<s[2].block, s[2].issue>> \in ResolvedIn(rvLog')
         /\ \A k \in DOMAIN rvLog : \A f \in rvLog'[k].findings : f.status = "open" => f \in rvLog[k].findings
<1> DEFINE n == s[1]
<1> DEFINE old == s[2]
<1> DEFINE new == [old EXCEPT !.status = "resolved"]
<1> DEFINE o == rvLog[n]
<1> DEFINE r == [o EXCEPT !.findings = (o.findings \ {old}) \cup {new}]
<1>1. /\ n \in DOMAIN rvLog /\ old \in o.findings /\ RunStored(o) /\ rvLog \in Seq(StoredRuns)
      /\ o \in StoredRuns
  BY ShownHas DEF ReviewsInv, RunLogFits, RunStored
<1>2. old \in Findings /\ FindingFits(old, o)
  <2> HIDE DEF n, old, o
  <2> QED
    BY <1>1 DEF RunStored, StoredRuns
<1>3. /\ new \in Findings /\ new.block = old.block /\ new.issue = old.issue /\ new.read = old.read
      /\ new.text = old.text /\ new.status = "resolved"
  <2> HIDE DEF old
  <2> QED
    BY <1>2 DEF Findings
<1>4. rvLog' = [rvLog EXCEPT ![n] = r]
  OBVIOUS
<1> HIDE DEF new, o
<1>5. /\ r \in StoredRuns /\ r.plan = o.plan /\ r.version = o.version /\ r.hashes = o.hashes
      /\ r.heard = o.heard /\ r.placed = o.placed
      /\ r.findings = (o.findings \ {old}) \cup {new}
  <2> HIDE DEF n, old
  <2> QED
    BY <1>1, <1>3 DEF StoredRuns
<1> HIDE DEF r, old, n
<1>6. RunStored(r)
  <2>1. ASSUME NEW f \in r.findings PROVE FindingFits(f, r)
    <3>1. CASE f = new
      BY <3>1, <1>2, <1>3, <1>5 DEF FindingFits
    <3>2. CASE f \in o.findings
      BY <3>2, <1>1, <1>5 DEF FindingFits, RunStored
    <3> QED
      BY <3>1, <3>2, <1>5
  <2> QED
    BY <2>1, <1>1, <1>5 DEF RunStored
<1>7. /\ rvLog' \in Seq(StoredRuns) /\ DOMAIN rvLog' = DOMAIN rvLog /\ rvLog'[n] = r
      /\ \A k \in DOMAIN rvLog : k # n => rvLog'[k] = rvLog[k]
  <2>1. n \in 1..Len(rvLog) /\ DOMAIN rvLog = 1..Len(rvLog)
    BY <1>1
  <2>2. rvLog' \in Seq(StoredRuns)
    <3>1. rvLog \in Seq(StoredRuns) /\ r \in StoredRuns
      BY <1>1, <1>5
    <3>2. [rvLog EXCEPT ![n] = r] \in Seq(StoredRuns)
      BY <2>1, <3>1, ExceptSeq, Zenon
    <3> QED
      BY <1>4, <3>2
  <2> QED
    BY <1>4, <2>1, <2>2
<1>8. RunLogFits'
  <2>1. \A k \in DOMAIN rvLog' : RunStored(rvLog'[k])
    BY <1>6, <1>7 DEF ReviewsInv, RunLogFits
  <2> QED
    BY <1>7, <2>1 DEF RunLogFits, RunStored, FindingFits
<1>9. \A k \in DOMAIN rvLog : rvLog'[k].hashes = rvLog[k].hashes
  BY <1>5, <1>7 DEF o
<1>10. \A k \in DOMAIN rvLog : \A f \in rvLog'[k].findings : f.status = "open" => f \in rvLog[k].findings
  BY <1>3, <1>5, <1>7 DEF o
<1>11. ASSUME NEW x \in ResolvedIn(rvLog) PROVE x \in ResolvedIn(rvLog')
  <2>1. PICK k \in DOMAIN rvLog : \E f \in rvLog[k].findings : f.status = "resolved" /\ x = <<f.block, f.issue>>
    BY ResolvedHas
  <2>2. PICK f \in rvLog[k].findings : f.status = "resolved" /\ x = <<f.block, f.issue>>
    BY <2>1
  <2>3. f \in rvLog'[k].findings
    <3>1. f # old
      BY <2>2 DEF old
    <3> QED
      BY <3>1, <2>2, <1>5, <1>7 DEF o
  <2> QED
    BY <2>2, <2>3, <1>7, ResolvedHas
<1>12. <<old.block, old.issue>> \in ResolvedIn(rvLog')
  BY <1>1, <1>3, <1>5, <1>7, ResolvedHas
<1> QED
  BY <1>7, <1>8, <1>9, <1>10, <1>11, <1>12 DEF old

\* Resolve: the decision is remembered with the length of the log.
LEMMA ResolveKeeps == ASSUME ReviewsInv, Resolve PROVE ReviewsInv'
<1>1. PICK s \in Shown :
        /\ s[2].status = "open"
        /\ rvLog' = [rvLog EXCEPT ![s[1]].findings = (@ \ {s[2]}) \union {[s[2] EXCEPT !.status = "resolved"]}]
        /\ rvDecided' = [rvDecided EXCEPT ![<<s[2].block, s[2].issue>>] = Len(rvLog)]
        /\ UNCHANGED <<rvWorld, rvJob, rvCandidate>>
  BY DEF Resolve
<1> DEFINE it == <<s[2].block, s[2].issue>>
<1>2. /\ RunLogFits' /\ DOMAIN rvLog' = DOMAIN rvLog
      /\ \A k \in DOMAIN rvLog : rvLog'[k].hashes = rvLog[k].hashes
      /\ ResolvedIn(rvLog) \subseteq ResolvedIn(rvLog')
      /\ it \in ResolvedIn(rvLog')
      /\ \A k \in DOMAIN rvLog : \A f \in rvLog'[k].findings : f.status = "open" => f \in rvLog[k].findings
  BY <1>1, Decides
<1> HIDE DEF it
<1>3. Len(rvLog) \in Nat /\ DOMAIN rvLog = 1..Len(rvLog) /\ rvDecided \in [Said -> Nat]
  BY DEF ReviewsInv, RunLogFits, DecisionsFit
<1>4. rvDecided' = [rvDecided EXCEPT ![it] = Len(rvLog)]
  BY <1>1 DEF it
<1>5. DecisionsFit'
  <2>1. rvDecided' \in [Said -> Nat]
    BY <1>3, <1>4
  <2>2. \A x \in Said : rvDecided'[x] > 0 => x \in ResolvedIn(rvLog')
    BY <1>2, <1>3, <1>4 DEF ReviewsInv, DecisionsFit
  <2>3. ASSUME NEW k \in DOMAIN rvLog', NEW f \in rvLog'[k].findings,
               f.block \in DOMAIN rvLog'[k].hashes, f.status = "open", rvDecided'[<<f.block, f.issue>>] > 0
        PROVE  k <= rvDecided'[<<f.block, f.issue>>]
    <3>1. k \in DOMAIN rvLog /\ f \in rvLog[k].findings /\ f.block \in DOMAIN rvLog[k].hashes
      BY <2>3, <1>2
    <3>2. f \in Findings
      BY <3>1 DEF ReviewsInv, RunLogFits, RunStored, StoredRuns
    <3>3. <<f.block, f.issue>> \in Said
      BY <3>2 DEF Findings, Said
    <3>4. CASE <<f.block, f.issue>> = it
      BY <3>1, <3>3, <3>4, <1>3, <1>4
    <3>5. CASE <<f.block, f.issue>> # it
      <4>1. rvDecided'[<<f.block, f.issue>>] = rvDecided[<<f.block, f.issue>>]
        BY <3>3, <3>5, <1>3, <1>4
      <4> QED
        BY <3>1, <4>1, <2>3 DEF ReviewsInv, DecisionsFit
    <3> QED
      BY <3>4, <3>5
  <2> QED
    BY <2>1, <2>2, <2>3 DEF DecisionsFit
<1>6. ReviewWorldFits'
  BY <1>1 DEF rvWorld, ReviewsInv, ReviewWorldFits, Captured
<1> QED
  BY <1>2, <1>5, <1>6 DEF ReviewsInv

\* Every step keeps it.
LEMMA ReviewsStep == ReviewsInv /\ [RvNext]_rvVars => ReviewsInv'
<1> SUFFICES ASSUME ReviewsInv, [RvNext]_rvVars PROVE ReviewsInv'
  OBVIOUS
<1>1. CASE RvNext
  BY <1>1, EditKeeps, ResolveKeeps, CandidateKeeps, AcceptKeeps, StartKeepsReviews, PrepareKeeps,
       LeavesKeeps, StoreKeeps
  DEF RvNext, PrepareFails, CallFails
<1>2. CASE UNCHANGED rvVars
  <2>1. ReviewWorldFits'
    BY <1>2 DEF rvVars, rvWorld, ReviewsInv, ReviewWorldFits, Captured
  <2> QED
    BY <1>2, <2>1, LogStays DEF rvVars
<1> QED
  BY <1>1, <1>2

\* The invariant of the lesson, its reviews and the decisions.
THEOREM ReviewsInvariant == RvSpec => []ReviewsInv
  BY ReviewsStart, ReviewsStep, PTL DEF RvSpec

\* Types.
LEMMA ReviewsTyped == ReviewsInv => RvTypeOK
<1> SUFFICES ASSUME ReviewsInv PROVE RvTypeOK
  OBVIOUS
<1>1. ASSUME NEW k \in Runs
      PROVE  /\ DOMAIN rvLog[k].hashes \subseteq RvTargets
             /\ \A f \in rvLog[k].findings :
                   /\ <<f.block, f.issue>> \in Said
                   /\ f.block \in DOMAIN rvLog[k].hashes => f.text = rvLog[k].hashes[f.block]
  <2>1. RunStored(rvLog[k])
    BY DEF Runs, ReviewsInv, RunLogFits
  <2>2. DOMAIN rvLog[k].hashes \subseteq RvTargets
    <3>1. PICK S \in SUBSET RvTargets : rvLog[k].hashes \in [S -> RvTexts]
      BY <2>1 DEF RunStored, StoredRuns
    <3> QED
      BY <3>1
  <2>3. ASSUME NEW f \in rvLog[k].findings
        PROVE  /\ <<f.block, f.issue>> \in Said
               /\ f.block \in DOMAIN rvLog[k].hashes => f.text = rvLog[k].hashes[f.block]
    <3>1. f \in Findings /\ FindingFits(f, rvLog[k])
      BY <2>1 DEF RunStored, StoredRuns
    <3> QED
      BY <3>1 DEF Findings, Said, FindingFits
  <2> QED
    BY <2>2, <2>3
<1>2. \A j \in RvJobs : rvJob[j].pc = "calls" => rvJob[j].scope \in RvBlocks \union {"lesson"}
  BY DEF ReviewsInv, ReviewWorldFits, Captured, Scoped
<1> QED
  BY <1>1, <1>2 DEF RvTypeOK, ReviewsInv, ReviewWorldFits

\* What is shown was said of the text that is shown with it.
LEMMA ShownWasRead == ReviewsInv => ShownWasSaid
<1> SUFFICES ASSUME ReviewsInv, NEW s \in Shown PROVE s[2].read = <<rvText[s[2].block], rvPlan>>
  BY DEF ShownWasSaid
<1>1. RunStored(rvLog[s[1]]) /\ s[2] \in rvLog[s[1]].findings /\ rvLog[s[1]].plan = rvPlan
  BY ShownHas DEF ReviewsInv, RunLogFits, Speaks, Covers
<1>2. s[2].read = <<s[2].text, rvLog[s[1]].plan>>
  BY <1>1 DEF RunStored, FindingFits
<1> QED
  BY <1>1, <1>2, ShownHas

\* A block that a run covers was heard by each of its readers in that run.
LEMMA CoverageEarned == ReviewsInv => CoveredWasReviewed
<1> SUFFICES ASSUME ReviewsInv, NEW k \in Runs, NEW b \in RvBlocks, Covers(k, b),
                    b \in RvExercises => b \in rvLog[k].placed, NEW reader \in ReadersOf(b)
             PROVE  <<b, <<rvText[b], rvPlan>>, reader>> \in rvLog[k].heard
  BY DEF CoveredWasReviewed
<1>1. RunStored(rvLog[k]) /\ b \in RvBlocks \cap DOMAIN rvLog[k].hashes
  BY DEF Covers, Runs, ReviewsInv, RunLogFits
<1>2. <<b, <<rvLog[k].hashes[b], rvLog[k].plan>>, reader>> \in rvLog[k].heard
  BY <1>1 DEF RunStored
<1> QED
  BY <1>2 DEF Covers

\* A later review does not reopen what the author resolved.
LEMMA DecisionsHold == ReviewsInv => DecisionOutlivesReviews
<1> SUFFICES ASSUME ReviewsInv, NEW s \in Shown, s[2].status = "open", rvDecided[<<s[2].block, s[2].issue>>] > 0
             PROVE  s[1] <= rvDecided[<<s[2].block, s[2].issue>>]
  BY DEF DecisionOutlivesReviews
<1> QED
  BY ShownHas DEF ReviewsInv, DecisionsFit, Speaks, Covers

\* A run of the log keeps what it covers, and what is resolved stays so.
LEMMA RunsStay ==
  ReviewsInv /\ [RvNext]_rvVars =>
    [\A k \in Runs : /\ k \in DOMAIN rvLog'
                     /\ rvLog'[k].hashes = rvLog[k].hashes
                     /\ ResolvedIn(rvLog) \subseteq ResolvedIn(rvLog')]_rvVars
<1> SUFFICES ASSUME ReviewsInv, RvNext, NEW k \in Runs
             PROVE  /\ k \in DOMAIN rvLog'
                    /\ rvLog'[k].hashes = rvLog[k].hashes
                    /\ ResolvedIn(rvLog) \subseteq ResolvedIn(rvLog')
  OBVIOUS
<1>1. CASE rvLog' = rvLog
  BY <1>1 DEF Runs
<1>2. CASE Resolve
  BY <1>2, Decides DEF Resolve, Runs
<1>3. ASSUME NEW job, Captured(job), NEW said \in SUBSET Said, \A s \in said : s[1] \in SelectedBy(job.scope),
             rvLog' = Recorded(RunOf(job, Readers(job), Raised(job, said)))
      PROVE  /\ k \in DOMAIN rvLog'
             /\ rvLog'[k].hashes = rvLog[k].hashes
             /\ ResolvedIn(rvLog) \subseteq ResolvedIn(rvLog')
  <2>1. RunStored(Stored(RunOf(job, Readers(job), Raised(job, said))))
    BY <1>3, StoredFits
  <2> QED
    BY <1>3, <2>1, GrowsBy DEF Recorded, Runs
<1>4. ASSUME NEW j \in RvJobs, Store(j) PROVE /\ k \in DOMAIN rvLog'
                                              /\ rvLog'[k].hashes = rvLog[k].hashes
                                              /\ ResolvedIn(rvLog) \subseteq ResolvedIn(rvLog')
  <2>1. Captured(rvJob[j])
    BY <1>4 DEF Store, ReviewsInv, ReviewWorldFits
  <2>2. PICK said \in SUBSET Said :
          rvLog' = Recorded(RunOf(rvJob[j], Readers(rvJob[j]), Raised(rvJob[j], InScope(rvJob[j].scope, said))))
    BY <1>4 DEF Store, Enough
  <2>3. /\ InScope(rvJob[j].scope, said) \in SUBSET Said
        /\ \A s \in InScope(rvJob[j].scope, said) : s[1] \in SelectedBy(rvJob[j].scope)
    BY DEF InScope, BlocksOf
  <2> QED
    BY <1>3, <2>1, <2>2, <2>3
<1>5. CASE AcceptCandidate
  <2>1. Captured(rvCandidate) /\ rvCandidate.scope = "lesson"
    BY <1>5 DEF AcceptCandidate, ReviewsInv, ReviewWorldFits
  <2>2. PICK said \in SUBSET Said :
          rvLog' = rvLog \/ rvLog' = Recorded(RunOf(rvCandidate, Readers(rvCandidate), Raised(rvCandidate, said)))
    BY <1>5 DEF AcceptCandidate
  <2>3. \A s \in said : s[1] \in SelectedBy(rvCandidate.scope)
    BY <2>1 DEF Said, SelectedBy, RvTargets
  <2> QED
    BY <1>1, <1>3, <2>1, <2>2, <2>3
<1> QED
  BY <1>1, <1>2, <1>4, <1>5
  DEF RvNext, RvEdit, ReviewCandidate, StartReview, Prepare, PrepareFails, CallFails, Leaves, Quiet

\* The invariant is more than what the run checks.
LEMMA ReviewsHold == ReviewsInv => RvTypeOK /\ ShownWasSaid /\ CoveredWasReviewed /\ DecisionOutlivesReviews
  BY ReviewsTyped, ShownWasRead, CoverageEarned, DecisionsHold

\* For any lesson, reviewers and reviews: findings are shown with the text they
\* were said of, coverage is earned, and decisions outlive later reviews.
THEOREM ReviewsAreTruthful == RvSpec => ReviewsTruthful
  BY ReviewsInvariant, ReviewsStep, ReviewsHold, RunsStay, PTL DEF RvSpec, ReviewsTruthful,
       RunsKept

(***************************************************************************)
(* Exercises and the learner who does them.                                *)
(***************************************************************************)
\* A payload as its file may spell it, of words and ids of any kind.
Lists(Words, Names) == Seq([id : Names, text : Words \X Words])
PayloadOf(op, Words, Names) ==
  CASE op = "choose" -> [options : Seq([id : Names, text : Words \X Words, correct : BOOLEAN])]
    [] op = "recall_fill" ->
         [target : Words, joined : BOOLEAN, blanks : Seq([id : Names, options : Seq(Words \X Words), answer : Nat])]
    [] op = "match_pairs" ->
         [left : Lists(Words, Names), right : Lists(Words, Names), pairs : Seq(Names \X Names)]
    [] op = "categorize" ->
         [buckets : Lists(Words, Names), items : Seq([id : Names, text : Words \X Words, bucket : Names])]
    [] op = "judge" -> [sentence : Words, correct : BOOLEAN, feedback : BOOLEAN]
    [] op = "build" ->
         [tokens : Lists(Words, Names), order : Seq(Names), says : Words, cites : {<<>>} \cup (Names \X Nat)]
    [] op = "find_fix" ->
         [tokens : Lists(Words, Names), error : Names, feedback : BOOLEAN,
          fix : {"none", "same", "case", "length", "words"}, changes : SUBSET Names]
    [] op = "write" ->
         [criteria : Lists(Words, Names), prompt : BOOLEAN, min : Nat, max : Nat,
          asks : {"norwegian", "english", "words"}]
Operations == {"choose", "recall_fill", "match_pairs", "categorize", "judge", "build", "find_fix", "write"}

\* Texts none of which reads like another, or is blank, are told apart.
LEMMA ApartIsDecidable ==
  ASSUME NEW texts, NEW right \in SUBSET DOMAIN texts, right # {}, right # DOMAIN texts,
         NoEchoes(texts), Visible(texts)
  PROVE  Decidable(texts, right)
<1>1. \A i \in DOMAIN texts : texts[i][1] # ""
  BY DEF Visible, Range
<1>2. \A i, j \in DOMAIN texts : i # j => texts[i][1] # texts[j][1]
  BY <1>1 DEF NoEchoes, Normalized
<1>3. QED
  BY <1>1, <1>2 DEF Decidable, Graded, Reads

\* The texts of a list are its own, one for each entry.
LEMMA OwnTexts ==
  ASSUME NEW list
  PROVE  /\ DOMAIN Texts(list) = DOMAIN list /\ \A i \in DOMAIN list : Texts(list)[i] = list[i].text
         /\ DOMAIN Ids(list) = DOMAIN list /\ \A i \in DOMAIN list : Ids(list)[i] = list[i].id
BY DEF Texts, Ids, Each

\* The entries of a sequence are of the set it is over.
LEMMA EntriesIn ==
  ASSUME NEW S, NEW list \in Seq(S)
  PROVE  \A i \in DOMAIN list : list[i] \in S
OBVIOUS

\* An id of a list is that of one of its entries.
LEMMA OwnIds ==
  ASSUME NEW list, NEW id \in Range(Ids(list))
  PROVE  \E i \in DOMAIN list : list[i].id = id
<1>1. PICK i \in DOMAIN Ids(list) : Ids(list)[i] = id
  BY DEF Range
<1>2. QED
  BY <1>1, OwnTexts

\* A place that is the only one of its kind is counted once.
LEMMA OnlyOne ==
  ASSUME NEW S, NEW x, S = {x}
  PROVE  Cardinality(S) = 1
BY FS_Singleton

\* A choice has one right option, and reads apart from the wrong ones.
LEMMA ChooseAnswerable ==
  ASSUME NEW p, NEW A, p.options \in Seq(A),
         ChooseLoads(p), ChooseTyped(p), ChooseAudited(p)
  PROVE  Answerable("choose", p)
<1> DEFINE right == {i \in DOMAIN p.options : p.options[i].correct}
<1>1. DOMAIN p.options = 1..Len(p.options) /\ Len(p.options) \in Nat /\ Len(p.options) >= 2
  BY DEF ChooseTyped
<1>2. Cardinality(right) = 1 /\ IsFiniteSet(right)
  <2>1. IsFiniteSet(DOMAIN p.options)
    BY <1>1, FS_Interval
  <2>2. Cardinality(right) = 1
    BY DEF ChooseLoads
  <2>3. QED
    BY <2>1, <2>2, FS_Subset
<1>3. PICK i : right = {i}
  BY <1>2, FS_Singleton
<1>4. right # {} /\ right # DOMAIN p.options
  <2>1. i \in DOMAIN p.options
    BY <1>3
  <2>2. \E j \in DOMAIN p.options : j # i
    BY <1>1, 1 \in DOMAIN p.options, 2 \in DOMAIN p.options
  <2>3. QED
    BY <1>3, <2>1, <2>2
<1>5. Decidable(Texts(p.options), right)
  BY <1>4, ApartIsDecidable, OwnTexts DEF ChooseAudited
<1>6. QED
  BY <1>5 DEF Answerable

\* One entry of two or more leaves another.
LEMMA OneOfSeveral ==
  ASSUME NEW A, NEW texts \in Seq(A), NEW i \in DOMAIN texts, Len(texts) # 1,
         NoEchoes(texts), Visible(texts)
  PROVE  Decidable(texts, {i})
<1>1. DOMAIN texts = 1..Len(texts) /\ Len(texts) \in Nat /\ Len(texts) >= 2
  <2>1. DOMAIN texts = 1..Len(texts) /\ Len(texts) \in Nat
    OBVIOUS
  <2>2. i \in 1..Len(texts)
    BY <2>1
  <2>3. QED
    BY <2>1, <2>2
<1>2. \E j \in DOMAIN texts : j # i
  BY <1>1, 1 \in DOMAIN texts, 2 \in DOMAIN texts
<1>3. QED
  BY <1>2, ApartIsDecidable

\* Each blank has one answer, and three blanks or more not all at one place.
LEMMA RecallAnswerable ==
  ASSUME NEW p, NEW A, p.blanks \in Seq(A), NEW B, \A blank \in Range(p.blanks) : blank.options \in Seq(B),
         RecallTyped(p), RecallAudited(p), RecallGated(p)
  PROVE  Answerable("recall_fill", p)
<1>1. ASSUME NEW blank \in Range(p.blanks)
      PROVE  Decidable(blank.options, {blank.answer})
  <2>1. /\ blank.answer \in DOMAIN blank.options /\ Len(blank.options) >= 2
        /\ NoEchoes(blank.options) /\ Visible(blank.options)
    BY <1>1 DEF RecallTyped, RecallAudited, RecallGated, BlankLoads
  <2>2. blank.options \in Seq(B)
    BY <1>1
  <2>3. Len(blank.options) # 1
    <3>1. Len(blank.options) \in Nat
      BY <2>2
    <3>2. Len(blank.options) >= 2
      BY <2>1
    <3>3. \A n \in Nat : n >= 2 => n # 1
      OBVIOUS
    <3>4. QED
      BY <3>1, <3>2, <3>3, Zenon
  <2>4. QED
    BY <2>1, <2>2, <2>3, OneOfSeveral
<1>2. ASSUME Len(p.blanks) > 2
      PROVE  \E b, c \in Range(p.blanks) : b.answer # c.answer
  <2> DEFINE places == Each(p.blanks, "answer")
  <2>1. SUFFICES ASSUME \A b, c \in Range(p.blanks) : b.answer = c.answer
                 PROVE  FALSE
    OBVIOUS
  <2>2. DOMAIN p.blanks = 1..Len(p.blanks) /\ Len(p.blanks) \in Nat
    OBVIOUS
  <2>3. DOMAIN places = DOMAIN p.blanks /\ \A i \in DOMAIN p.blanks : places[i] = p.blanks[i].answer
    BY DEF Each
  <2>4. Range(places) = {p.blanks[1].answer}
    <3>1. \A i \in DOMAIN p.blanks : p.blanks[i] \in Range(p.blanks)
      BY DEF Range
    <3>2. 1 \in DOMAIN p.blanks
      BY <1>2, <2>2
    <3>3. \A i \in DOMAIN places : places[i] = p.blanks[1].answer
      BY <2>1, <2>3, <3>1, <3>2
    <3>4. QED
      BY <2>3, <3>2, <3>3 DEF Range
  <2>5. Len(places) >= 3
    <3>1. places \in Seq({p.blanks[i].answer : i \in DOMAIN p.blanks}) /\ Len(places) = Len(p.blanks)
      BY <2>2 DEF Each
    <3>2. QED
      BY <1>2, <2>2, <3>1
  <2>6. Guessable(places)
    BY <2>4, <2>5, OnlyOne DEF Guessable
  <2>7. QED
    BY <2>6 DEF RecallAudited
<1>3. p.blanks # <<>>
  BY DEF RecallAudited
<1>4. QED
  BY <1>1, <1>2, <1>3 DEF Answerable

\* Each pair names an entry of each side, and no two entries of a side read alike.
LEMMA MatchAnswerable ==
  ASSUME NEW p, NEW A, NEW B, p.left \in Seq(A), p.right \in Seq(A), p.pairs \in Seq(B \X B),
         MatchTyped(p), MatchAudited(p)
  PROVE  Answerable("match_pairs", p)
<1>1. ASSUME NEW i \in DOMAIN p.pairs
      PROVE  \E l \in DOMAIN p.left, r \in DOMAIN p.right : p.pairs[i] = <<p.left[l].id, p.right[r].id>>
  <2>1. p.pairs[i] \in Range(p.pairs) /\ p.pairs[i] \in B \X B
    BY DEF Range
  <2>2. p.pairs[i][1] \in Range(Ids(p.left)) /\ p.pairs[i][2] \in Range(Ids(p.right))
    BY <2>1 DEF MatchTyped
  <2>3. PICK l \in DOMAIN p.left, r \in DOMAIN p.right :
               p.pairs[i][1] = p.left[l].id /\ p.pairs[i][2] = p.right[r].id
    <3>1. PICK l \in DOMAIN p.left : p.left[l].id = p.pairs[i][1]
      BY <2>2, OwnIds
    <3>2. PICK r \in DOMAIN p.right : p.right[r].id = p.pairs[i][2]
      BY <2>2, OwnIds
    <3>3. QED
      BY <3>1, <3>2
  <2>4. QED
    BY <2>1, <2>3
<1>2. ASSUME NEW side \in {p.left, p.right}, NEW i \in DOMAIN side
      PROVE  Decidable(Texts(side), {i}) \/ Len(side) = 1
  <2>1. SUFFICES ASSUME Len(side) # 1
                 PROVE  Decidable(Texts(side), {i})
    OBVIOUS
  <2>2. side \in Seq(A)
    OBVIOUS
  <2>3. /\ Texts(side) \in Seq({side[j].text : j \in DOMAIN side})
        /\ Len(Texts(side)) = Len(side) /\ i \in DOMAIN Texts(side)
    BY <2>2 DEF Texts, Each
  <2>4. Visible(Texts(side)) /\ NoEchoes(Texts(side))
    BY DEF MatchAudited
  <2>5. QED
    BY <2>1, <2>3, <2>4, OneOfSeveral
<1>3. p.pairs # <<>>
  BY DEF MatchAudited
<1>4. QED
  BY <1>1, <1>2, <1>3 DEF Answerable

\* Each item belongs to a bucket, and no two buckets read alike.
LEMMA CategorizeAnswerable ==
  ASSUME NEW p, NEW A, p.buckets \in Seq(A), CategorizeTyped(p), CategorizeAudited(p)
  PROVE  Answerable("categorize", p)
<1>1. ASSUME NEW item \in Range(p.items)
      PROVE  \E i \in DOMAIN p.buckets : p.buckets[i].id = item.bucket /\ Decidable(Texts(p.buckets), {i})
  <2>1. PICK i \in DOMAIN p.buckets : p.buckets[i].id = item.bucket
    BY <1>1, OwnIds DEF CategorizeTyped
  <2>2. /\ Texts(p.buckets) \in Seq({p.buckets[j].text : j \in DOMAIN p.buckets})
        /\ Len(Texts(p.buckets)) = Len(p.buckets)
    BY DEF Texts, Each
  <2>3. Len(Texts(p.buckets)) # 1 /\ i \in DOMAIN Texts(p.buckets)
    BY <2>1, <2>2, OwnTexts DEF CategorizeTyped
  <2>4. Visible(Texts(p.buckets)) /\ NoEchoes(Texts(p.buckets))
    BY DEF CategorizeAudited
  <2>5. QED
    BY <2>1, <2>2, <2>3, <2>4, OneOfSeveral
<1>2. QED
  BY <1>1 DEF Answerable

\* Each token has one place in the answer.
LEMMA BuildAnswerable ==
  ASSUME NEW p, BuildTyped(p)
  PROVE  Answerable("build", p)
<1>1. ASSUME NEW token \in Range(p.tokens)
      PROVE  Cardinality({i \in DOMAIN p.order : p.order[i] = token.id}) = 1
  <2>1. token.id \in Range(p.order)
    BY <1>1, OwnTexts DEF BuildTyped, Range
  <2>2. PICK i \in DOMAIN p.order : p.order[i] = token.id
    BY <2>1 DEF Range
  <2>3. {j \in DOMAIN p.order : p.order[j] = token.id} = {i}
    BY <2>2 DEF BuildTyped, IsInjective
  <2>4. QED
    BY <2>3, OnlyOne
<1>2. QED
  BY <1>1 DEF Answerable, BuildTyped

\* One token is the mistake, and the sentence quoted corrects it.
LEMMA FindFixAnswerable ==
  ASSUME NEW p, FindFixTyped(p), FindFixGated(p)
  PROVE  Answerable("find_fix", p)
<1>1. PICK i \in DOMAIN p.tokens : p.tokens[i].id = p.error
  BY OwnTexts DEF FindFixTyped, Range
<1>2. {j \in DOMAIN p.tokens : p.tokens[j].id = p.error} = {i}
  BY <1>1, OwnTexts DEF FindFixTyped, IsInjective
<1>3. QED
  BY <1>2, OnlyOne DEF Answerable, FindFixGated

\* An exercise that the loader builds, the types accept, the audit of the
\* source passes and the gate passes can be answered by its learner, whatever its
\* words and ids: each choice is right or wrong and tells itself from the others.
THEOREM AcceptedIsAnswerable ==
  ASSUME NEW Words, NEW Names, NEW op \in Operations, NEW p \in PayloadOf(op, Words, Names),
         PayloadLoads(op, p), OperationAudited(op, p), PayloadGated(op, p)
  PROVE  Answerable(op, p)
<1>1. CASE op = "choose"
  BY <1>1, ChooseAnswerable DEF PayloadOf, PayloadLoads, OperationAudited
<1>2. CASE op = "recall_fill"
  <2>1. p.blanks \in Seq([id : Names, options : Seq(Words \X Words), answer : Nat])
    BY <1>2 DEF PayloadOf
  <2>2. \A blank \in Range(p.blanks) : blank.options \in Seq(Words \X Words)
    <3> DEFINE Blanks == [id : Names, options : Seq(Words \X Words), answer : Nat]
    <3>1. \A i \in DOMAIN p.blanks : p.blanks[i] \in Blanks
      BY <2>1, EntriesIn
    <3>2. \A blank \in Blanks : blank.options \in Seq(Words \X Words)
      OBVIOUS
    <3>3. QED
      BY <3>1, <3>2 DEF Range
  <2>3. RecallTyped(p) /\ RecallAudited(p) /\ RecallGated(p)
    BY <1>2 DEF PayloadLoads, OperationAudited, PayloadGated
  <2>4. QED
    BY <1>2, <2>1, <2>2, <2>3, RecallAnswerable
<1>3. CASE op = "match_pairs"
  BY <1>3, MatchAnswerable DEF PayloadOf, Lists, PayloadLoads, OperationAudited
<1>4. CASE op = "categorize"
  BY <1>4, CategorizeAnswerable DEF PayloadOf, Lists, PayloadLoads, OperationAudited
<1>5. CASE op = "judge"
  BY <1>5 DEF PayloadGated, JudgeGated, Answerable
<1>6. CASE op = "build"
  BY <1>6, BuildAnswerable DEF PayloadLoads
<1>7. CASE op = "find_fix"
  BY <1>7, FindFixAnswerable DEF PayloadLoads, PayloadGated
<1>8. CASE op = "write"
  BY <1>8 DEF PayloadLoads, WriteTyped, OperationAudited, WriteAudited, Answerable
<1>9. QED
  BY <1>1, <1>2, <1>3, <1>4, <1>5, <1>6, <1>7, <1>8 DEF Operations
=============================================================================
