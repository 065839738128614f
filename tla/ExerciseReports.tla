--------------------------- MODULE ExerciseReports ---------------------------
(***************************************************************************)
(* The reports about the exercises of a reviewed lesson: what five         *)
(* reviewers are asked, what each of their replies is turned into, and the *)
(* findings the review shows of them.  A reply is a list of verdicts; a    *)
(* reviewer may leave an exercise out, answer it twice, answer for one     *)
(* that is not there, or give no usable reply at all.                      *)
(***************************************************************************)
EXTENDS Integers, Sequences, FiniteSets, SequencesExt

CONSTANTS
  ErLessons,    \* compiled lessons: [exercises |-> Seq(exercise), sections |-> [name -> Seq(BOOLEAN)]]
  ErStranger,   \* an id no exercise has
  ErMaxBlocks,  \* K_EXERCISE_CONTEXT_MAX_BLOCKS
  ErMaxItems,   \* K_EXERCISE_CONTEXT_MAX_ITEMS
  ErMaxOdd      \* bound: verdicts of all replies that are not the plain good one

VARIABLES
  erLesson,     \* the compiled lesson, scoped to the selected exercises
  erReply,      \* history: per surface, what the reviewer replied
  erReport,     \* per surface, the report made of it
  erResult,     \* what run_workbench_review_calls returns of the exercises
  erOdd         \* counter for ErMaxOdd

erVars == <<erLesson, erReply, erReport, erResult, erOdd>>

ErWhole == -1   \* a reference to a section without a block_index
Surfaces == <<"answer", "attempt", "rubric", "semantic", "standalone">>
Unusable == {"reviewer_unavailable", "reviewer_invalid"}
-----------------------------------------------------------------------------
\* The exercises of a lesson, and what each reviewer sees of them.

Exercise(lesson, id) == lesson.exercises[CHOOSE i \in DOMAIN lesson.exercises : lesson.exercises[i].id = id]
ExerciseHandles(lesson) == {e.id : e \in Range(lesson.exercises)}
OpenHandles(lesson) == {id \in ExerciseHandles(lesson) : Exercise(lesson, id).operation = "write"}
ExpectedAnswers(lesson) == ExerciseHandles(lesson) \ OpenHandles(lesson)

Asked(lesson, surface) ==
  CASE surface = "answer" -> ExpectedAnswers(lesson)
    [] surface \in {"rubric", "semantic"} -> OpenHandles(lesson)
    [] OTHER -> ExerciseHandles(lesson)

\* A digest of exercise, position and authored id.
OpaqueOptionId(id, index, authored) == <<id, index, authored>>

\* review_to_authored_option_ids of one exercise.
OptionIdMap(exercise) ==
  IF exercise.operation # "choose" THEN <<>>
  ELSE [review \in {OpaqueOptionId(exercise.id, i, exercise.options[i]) : i \in DOMAIN exercise.options}
          |-> <<review[3]>>]

\* The blocks with something a learner sees (_build_context_block of each kind).
ShownBlocks(blocks, chosen) == SetToSortSeq({i \in chosen : blocks[i]}, <)

\* The blocks one reference adds, within what the budget leaves.
ReferenceContext(lesson, reference, limit) ==
  LET blocks == IF reference.section \in DOMAIN lesson.sections
                THEN lesson.sections[reference.section] ELSE <<>>
      chosen == IF reference.block = ErWhole THEN DOMAIN blocks
                ELSE {reference.block + 1} \intersect DOMAIN blocks
      shown == ShownBlocks(blocks, chosen)
  IN [i \in 1..(IF limit < Len(shown) THEN limit ELSE Len(shown)) |-> <<reference.section, shown[i]>>]

ExerciseContextPerReference(lesson, exercise) ==
  FoldLeft(LAMBDA context, reference : context \o ReferenceContext(lesson, reference, ErMaxBlocks),
           <<>>, exercise.references)
ExerciseContext(lesson, exercise) ==
  LET references == SubSeq(exercise.references, 1,
                           IF ErMaxItems < Len(exercise.references) THEN ErMaxItems ELSE Len(exercise.references))
  IN FoldLeft(LAMBDA context, reference :
                context \o ReferenceContext(lesson, reference, ErMaxBlocks - Len(context)),
              <<>>, references)

\* The fields of an exercise that only a judge of open answers may see.
Hidden(exercise) == IF exercise.operation = "write" THEN {"criteria", "judge_prompt"} ELSE {}
Visible(exercise) ==
  {"prompt"} \union (CASE exercise.operation = "choose" -> {"option"}
                       [] exercise.operation = "judge" -> {"sentence"}
                       [] exercise.operation = "build" -> {"token"}
                       [] OTHER -> {"response_language"})

\* What a reviewer of this surface reads of one exercise: field names, and
\* the ids by which it may name an option.
Question(lesson, surface, exercise) ==
  [fields |-> Visible(exercise) \union (IF surface \in {"rubric", "semantic"} THEN Hidden(exercise) ELSE {}),
   options |-> DOMAIN OptionIdMap(exercise),
   context |-> IF surface = "answer" THEN ExerciseContext(lesson, exercise) ELSE <<>>]
-----------------------------------------------------------------------------
\* The replies: verdicts [id, status, answer, issues].

RawAnswers(exercise) ==
  CASE exercise.operation = "choose" -> DOMAIN OptionIdMap(exercise)
    [] exercise.operation = "judge" -> {<<"True">>, <<"yes">>, <<"False">>, <<"incorrect">>}
    [] OTHER -> {exercise.answer, <<>>}

Verdict(id, status, answer, issues) == [id |-> id, status |-> status, answer |-> answer, issues |-> issues]

Verdicts(lesson, surface, id) ==
  LET exercise == Exercise(lesson, id) IN
  CASE surface = "answer" ->
         {Verdict(id, "solved", answer, issues) : answer \in RawAnswers(exercise), issues \in BOOLEAN}
           \union {Verdict(id, status, <<>>, FALSE) : status \in {"ambiguous", "unanswerable"}}
    [] surface = "semantic" -> {Verdict(id, "clear", <<>>, issues) : issues \in BOOLEAN}
    [] surface = "standalone" -> {Verdict(id, status, <<>>, FALSE) : status \in {"standalone", "context_dependent"}}
    [] OTHER -> {Verdict(id, status, <<>>, FALSE) : status \in {"clear", "ambiguous", "unanswerable"}}

\* The answers that name what the author keyed.
Keyed(exercise) ==
  CASE exercise.operation = "choose" ->
         {review \in DOMAIN OptionIdMap(exercise) : <<review[3]>> = exercise.answer}
    [] exercise.operation = "judge" ->
         IF exercise.answer = <<"True">> THEN {<<"True">>, <<"yes">>} ELSE {<<"False">>, <<"incorrect">>}
    [] OTHER -> {exercise.answer}

Good(lesson, surface, verdict) ==
  /\ verdict.status \in {"solved", "clear", "standalone"}
  /\ ~verdict.issues
  /\ surface = "answer" => verdict.answer \in Keyed(Exercise(lesson, verdict.id))

\* What a reviewer may return for one exercise.
Entries(lesson, surface, id) ==
  LET verdicts == Verdicts(lesson, surface, id)
  IN {<<>>} \union {<<v>> : v \in verdicts} \union {<<v, w>> : v, w \in verdicts}

NoReply == [usable |-> "unasked", verdicts |-> <<>>]

\* Replies with at most `odd` deviations from one good verdict each.
Replies(lesson, surface, odd) ==
  LET asked == Asked(lesson, surface)
      good == [id \in asked |-> <<CHOOSE v \in Verdicts(lesson, surface, id) : Good(lesson, surface, v)>>]
      Given(entries, strangers) ==
        [usable |-> "yes",
         verdicts |-> FlattenSeq(SetToSeq({entries[id] : id \in asked})) \o strangers]
      strange == IF odd = 0 THEN {<<>>}
                 ELSE {<<>>, <<Verdict(ErStranger, "clear", <<>>, FALSE)>>}
      changed == UNION {[ids -> UNION {Entries(lesson, surface, id) : id \in ids}] :
                          ids \in {s \in SUBSET asked : Cardinality(s) <= odd}}
      fitting == {f \in changed : \A id \in DOMAIN f : f[id] \in Entries(lesson, surface, id)}
  IN {[reply |-> Given(f @@ good, strangers), odd |-> Cardinality(DOMAIN f) + Len(strangers)] :
        f \in fitting, strangers \in strange}
-----------------------------------------------------------------------------
\* The reports.

NoFindings == [missing |-> {}, mismatches |-> {}, ambiguous |-> {}, unanswerable |-> {}, extra |-> {},
               duplicates |-> {}, issues |-> {}, dangling |-> {}, dependent |-> {}]
Report(status, findings) == [status |-> status, open |-> {}, findings |-> findings]

Answered(verdicts) == {v.id : v \in Range(verdicts)}
\* The last verdict on an exercise stands.
ById(verdicts, id) ==
  verdicts[CHOOSE i \in DOMAIN verdicts : verdicts[i].id = id /\ \A j \in DOMAIN verdicts : j > i => verdicts[j].id # id]
DuplicatesNone(verdicts) == {}
Duplicates(verdicts) ==
  {id \in Answered(verdicts) : \E i, j \in DOMAIN verdicts : i # j /\ verdicts[i].id = id /\ verdicts[j].id = id}

Coverage(handles, verdicts) ==
  [NoFindings EXCEPT !.missing = handles \ Answered(verdicts),
                     !.extra = Answered(verdicts) \ handles,
                     !.duplicates = Duplicates(verdicts)]
Incomplete(findings) == findings.missing # {} \/ findings.extra # {} \/ findings.duplicates # {}

WithStatus(handles, verdicts, status) ==
  {id \in handles \intersect Answered(verdicts) : ById(verdicts, id).status = status}
WithIssuesUnclear(handles, verdicts) == WithStatus(handles, verdicts, "issues")
WithIssues(handles, verdicts) ==
  {id \in handles \intersect Answered(verdicts) : ById(verdicts, id).issues}

RestoreAnswerIdNever(exercise, answer) == answer
RestoreAnswerId(exercise, answer) ==
  IF answer \in DOMAIN OptionIdMap(exercise) THEN OptionIdMap(exercise)[answer] ELSE answer

NormalizeAnswer(operation, answer) ==
  CASE operation = "judge" /\ answer \in {<<"True">>, <<"yes">>} -> <<"True">>
    [] operation = "judge" /\ answer \in {<<"False">>, <<"incorrect">>} -> <<"False">>
    [] OTHER -> answer

Matches(exercise, answer) ==
  NormalizeAnswer(exercise.operation, RestoreAnswerId(exercise, answer)) = exercise.answer

\* compare_answers over the solved, restored and normalised answers.
Compare(lesson, verdicts) ==
  LET expected == ExpectedAnswers(lesson)
      solved == WithStatus(expected, verdicts, "solved")
  IN [Coverage(expected, verdicts) EXCEPT
        !.mismatches = {id \in solved : ~Matches(Exercise(lesson, id), ById(verdicts, id).answer)},
        !.ambiguous = WithStatus(expected, verdicts, "ambiguous"),
        !.unanswerable = WithStatus(expected, verdicts, "unanswerable")]

\* verify_exercises: what is wrong with the coverage is left to the package.
AnswerReport(lesson, reply) ==
  LET open == OpenHandles(lesson) IN
  CASE ExpectedAnswers(lesson) = {} ->
         [Report(IF open # {} THEN "unverified_open" ELSE "pass", NoFindings) EXCEPT !.open = open]
    [] reply.usable # "yes" -> Report("reviewer_unavailable", NoFindings)
    [] OTHER ->
         [Report("pass", [Compare(lesson, reply.verdicts) EXCEPT
                            !.issues = {v.id : v \in {w \in Range(reply.verdicts) : w.issues}}])
            EXCEPT !.open = open]

\* verify_attempt_surface and verify_open_rubrics
SurfaceReport(handles, reply) ==
  LET findings == [Coverage(handles, reply.verdicts) EXCEPT
                     !.ambiguous = WithStatus(handles, reply.verdicts, "ambiguous"),
                     !.unanswerable = WithStatus(handles, reply.verdicts, "unanswerable")]
  IN CASE handles = {} -> Report("not_applicable", NoFindings)
       [] reply.usable # "yes" -> Report("reviewer_unavailable", [NoFindings EXCEPT !.missing = handles])
       [] OTHER -> Report(IF Incomplete(findings) THEN "reviewer_invalid" ELSE "pass", findings)

\* verify_open_semantics
SemanticReport(handles, reply) ==
  LET findings == [Coverage(handles, reply.verdicts) EXCEPT !.issues = WithIssues(handles, reply.verdicts)]
  IN CASE handles = {} -> Report("not_applicable", NoFindings)
       [] reply.usable # "yes" -> Report("reviewer_unavailable", [NoFindings EXCEPT !.missing = handles])
       [] OTHER -> Report(IF Incomplete(findings) THEN "reviewer_invalid" ELSE "pass", findings)

\* scan_unresolved_references over the learner-visible payloads.
DeterministicFindings(lesson) == {e.id : e \in {x \in Range(lesson.exercises) : x.dangling}}

\* review_standalone_exercises
StandaloneReport(lesson, reply) ==
  LET handles == ExerciseHandles(lesson)
      scanned == [NoFindings EXCEPT !.dangling = DeterministicFindings(lesson)]
  IN CASE handles = {} -> Report("pass", scanned)
       [] reply.usable = "unparsable" -> Report("reviewer_invalid", scanned)
       [] reply.usable = "down" -> Report("reviewer_unavailable", scanned)
       [] Incomplete(Coverage(handles, reply.verdicts)) -> Report("reviewer_invalid", scanned)
       [] OTHER -> Report(IF scanned.dangling # {} THEN "needs_human" ELSE "pass",
                          [scanned EXCEPT !.dependent =
                             WithStatus(handles, reply.verdicts, "context_dependent")])

ReportOf(lesson, surface, reply) ==
  CASE surface = "answer" -> AnswerReport(lesson, reply)
    [] surface \in {"attempt", "rubric"} -> SurfaceReport(Asked(lesson, surface), reply)
    [] surface = "semantic" -> SemanticReport(Asked(lesson, surface), reply)
    [] OTHER -> StandaloneReport(lesson, reply)

InPackage == {"answer", "attempt", "rubric", "semantic"}

\* build_exercise_package_report
PackageStatusOwn(reports) ==
  LET statuses == {reports[s].status : s \in InPackage} IN
  CASE "reviewer_unavailable" \in statuses -> "reviewer_unavailable"
    [] "reviewer_invalid" \in statuses -> "reviewer_invalid"
    [] "unverified_open" \in statuses \/ reports["answer"].open # {} -> "unverified_open"
    [] OTHER -> "pass"
PackageStatus(reports) ==
  LET statuses == {reports[s].status : s \in InPackage} IN
  CASE "reviewer_unavailable" \in statuses -> "reviewer_unavailable"
    [] "reviewer_invalid" \in statuses \/ (\E s \in InPackage : Incomplete(reports[s].findings)) ->
         "reviewer_invalid"
    [] "unverified_open" \in statuses \/ reports["answer"].open # {} -> "unverified_open"
    [] OTHER -> "pass"

\* _map_exercise_report: one finding per category and exercise.
ShownFindings(reports) ==
  {<<surface, category, id>> \in Range(Surfaces) \X (DOMAIN NoFindings) \X
        (ExerciseHandles(erLesson) \union {ErStranger}) :
     id \in reports[surface].findings[category]}
-----------------------------------------------------------------------------
ErInit ==
  /\ erLesson \in ErLessons
  /\ erReply = [s \in Range(Surfaces) |-> NoReply]
  /\ erReport = [s \in Range(Surfaces) |-> Report("waiting", NoFindings)]
  /\ erResult = [status |-> "running", shown |-> {}]
  /\ erOdd = 0

Failed == [status |-> "failed", shown |-> {}]

Deliver(surface, reply) ==
  LET report == ReportOf(erLesson, surface, reply) IN
  /\ erResult.status = "running" /\ erReport[surface].status = "waiting"
  /\ erReply' = [erReply EXCEPT ![surface] = reply]
  /\ erReport' = [erReport EXCEPT ![surface] = report]
  \* run_report raises, and the review fails with all of its calls.
  /\ erResult' = IF report.status \in Unusable THEN Failed ELSE erResult
  /\ UNCHANGED erLesson

\* A report with nothing to ask about is made without its reviewer.
ReportUnasked(surface) ==
  /\ Asked(erLesson, surface) = {}
  /\ Deliver(surface, NoReply) /\ UNCHANGED erOdd

ReviewerReplies(surface) ==
  /\ Asked(erLesson, surface) # {}
  /\ \E r \in Replies(erLesson, surface, ErMaxOdd - erOdd) :
       /\ erOdd + r.odd <= ErMaxOdd
       /\ Deliver(surface, r.reply)
       /\ erOdd' = erOdd + r.odd

\* No usable reply: the provider is down or out of quota, or nothing it said parses.
ReviewerFails(surface, how) ==
  /\ Asked(erLesson, surface) # {} /\ erOdd < ErMaxOdd
  /\ Deliver(surface, [usable |-> how, verdicts |-> <<>>])
  /\ erOdd' = erOdd + 1

\* The cancel of the review, or any other error of a call.
CallRaises(surface) ==
  /\ erResult.status = "running" /\ erReport[surface].status = "waiting" /\ erOdd < ErMaxOdd
  /\ erResult' = Failed /\ erOdd' = erOdd + 1
  /\ UNCHANGED <<erLesson, erReply, erReport>>

\* _review_exercise_quality, once every call has returned.
CollectReports ==
  LET status == PackageStatus(erReport) IN
  /\ erResult.status = "running"
  /\ \A s \in Range(Surfaces) : erReport[s].status # "waiting"
  /\ erResult' = IF status \in Unusable \/ erReport["standalone"].status \in Unusable THEN Failed
                 ELSE [status |-> status, shown |-> ShownFindings(erReport)]
  /\ UNCHANGED <<erLesson, erReply, erReport, erOdd>>

ErNext ==
  \/ CollectReports
  \/ \E surface \in Range(Surfaces) :
       \/ ReportUnasked(surface) \/ ReviewerReplies(surface) \/ CallRaises(surface)
       \/ \E how \in {"down", "unparsable"} : ReviewerFails(surface, how)

ErSpec == ErInit /\ [][ErNext]_erVars
-----------------------------------------------------------------------------
Reviewed == erResult.status \notin {"running", "failed"}

\* A review that counts has exactly one verdict of every reviewer on every
\* exercise it was asked about, and none on another: a lost, repeated or
\* invented verdict, or an outage, never reads as a reviewed exercise.
EveryoneAnswered ==
  Reviewed => \A s \in Range(Surfaces) :
    /\ Len(erReply[s].verdicts) = Cardinality(Asked(erLesson, s))
    /\ {v.id : v \in Range(erReply[s].verdicts)} = Asked(erLesson, s)

\* The findings it shows are the concerns the reviewers had, one for one,
\* and the references nothing in the exercise resolves: an answer is held
\* against the key through blinding and wording, a solved exercise may have
\* an issue besides, and no reviewer's concern is taken for another's.
ConcernsShown ==
  Reviewed =>
    {<<f[1], f[3]>> : f \in {g \in erResult.shown : g[2] # "dangling"}}
      = UNION {{<<s, v.id>> : v \in {w \in Range(erReply[s].verdicts) : ~Good(erLesson, s, w)}} :
                 s \in Range(Surfaces)}
    /\ {f[3] : f \in {g \in erResult.shown : g[2] = "dangling"}} = DeterministicFindings(erLesson)

\* Only a lesson without open tasks may be called passed.
OpenStaysOpen == erResult.status = "pass" => OpenHandles(erLesson) = {}

\* What a learner never sees reaches only the reviewers of open tasks, no
\* reviewer can tell the keyed option by its id, and the context of an
\* exercise stays within its budget, from sections the exercise names.
BlindAndBounded ==
  \A s \in Range(Surfaces), e \in Range(erLesson.exercises) : e.id \in Asked(erLesson, s) =>
    LET q == Question(erLesson, s, e) IN
    /\ s \notin {"rubric", "semantic"} => q.fields \intersect {"criteria", "judge_prompt"} = {}
    /\ \A o \in q.options : <<o>> # e.answer
    /\ Len(q.context) <= ErMaxBlocks
    /\ \A b \in Range(q.context) : \E r \in Range(e.references) : r.section = b[1]

ErTypeOK ==
  /\ erLesson \in ErLessons /\ erOdd \in 0..ErMaxOdd
  /\ erResult.status \in {"running", "failed", "pass", "unverified_open"}

\* What a review says of the exercises is what its reviewers said of them.
ReportsTruthful == ErTypeOK /\ EveryoneAnswered /\ ConcernsShown /\ OpenStaysOpen /\ BlindAndBounded
=============================================================================
