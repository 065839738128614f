# TLA+ models of the lesson workbench

The repository is an authoring system for Norwegian lessons.  Its core is the
*workbench*: a loopback HTTP server (`src/lesson_builder/web`) over plain files.
Every record (proposal log, chat transcript, audio plan, monthly spend ledger,
lesson draft, Markdown source) is a file that is replaced atomically; nothing
groups two files into a transaction except the Git transaction of promotion.
Handlers run one at a time under the server's `mutation_lock`; two worker
threads run provider calls in between and take the same lock for the writes
they make.  The process may end at any moment and the next start repairs what
it left.  Around it are the clients of the model providers (child processes,
shared caches, rotating logins), the path of a draft into Git, releases and the
distribution, and the pages of the browser, which keep state of their own.  The
models are about exactly that: many small writes, in an order, by several
threads or programs, with crashes and failures between any two of them.

Paths of Python files below are relative to `src/src/lesson_builder/`, those of
the frontend to `src/workbench/src/`.

## Modules

| module | models | proved in |
| --- | --- | --- |
| `AudioBudget` | paid speech synthesis: plans, ledgers, jobs, recovery | `AudioBudget_proofs` |
| `AudioSpend` | what the audio budget promises, abstractly | `AudioBudget_proofs` (refinement) |
| `WorkbenchJobs` | job registry, queue, workers, cancellation, shutdown | `ChatTurns_proofs` |
| `ChatTurns` | EXTENDS `WorkbenchJobs`: chat turns on the pool | `ChatTurns_proofs` |
| `Proposals` | the proposal log and the working draft of a lesson | `Regeneration_proofs` |
| `Regeneration` | EXTENDS `Proposals`: regeneration runs of the lesson | `Regeneration_proofs` |
| `OpencodeCalls` | one OpenCode call: child, streams, retries, cancellation | `Providers_proofs` |
| `OpencodeAuth` | the rotating login that parallel OpenCode calls copy | `Providers_proofs` |
| `OpencodeCache` | package cache and temporary directories of OpenCode calls | `Providers_proofs` |
| `CodexClient` | the Codex app-server: generations, requests, turns | `CodexClient_proofs` |
| `CodexAuth` | the copied login of the Codex app-server | `Providers_proofs` |
| `DraftCommits` | draft, canonical package, Git index and HEAD of a lesson | `Authoring_proofs` |
| `Curriculum` | plan, catalog, previewed edits, creation of lessons | TLC |
| `Release` | plan, approve, publish, resume, verify | `Authoring_proofs` |
| `Distribution` | export, validation and replacement of `dist/`, workspace check | TLC |
| `LessonExercises` | what four readers ask of an exercise before it is accepted | `Lessons_proofs` |
| `LessonSource` | EXTENDS `LessonExercises`: a lesson from its source to the packet of the app | TLC |
| `Reviews` | the log of lesson reviews, coverage, decisions | `Lessons_proofs` |
| `ExerciseReports` | what exercise reviewers are asked and what their verdicts become | TLC |
| `Alignment` | which exercises still fit the sections they practise | `Lessons_proofs` |
| `Voices` | which provider voice reads which turn | TLC |
| `LessonAudio` | the jobs that record one lesson, and the index of checks | `Lessons_proofs` |
| `Navigation` | the router of the browser and its guard for unsaved work | TLC |
| `DraftEditor` | the source editor, its queue of writes, the cached lesson | TLC |
| `PlanEditor` | the staged edits of the curriculum page | TLC |
| `PageJobs` | jobs of the server as the pages follow them | `Frontend_proofs` |
| `MC*` | constants of the TLC instances; `MCProviders`, `MCAuthoring` and `MCWorkbench` put several modules into one instance | |

The modules that interact are composed by extension: `ChatTurns` conjoins the
actions of `WorkbenchJobs`, `Regeneration` those of `Proposals`.  The others meet
at an interface that one side proves or checks and the other assumes: `CodexAuth`
starts a generation when the one before ended (`CodexClient!OneProcess`),
`LessonAudio` leaves the budget to `AudioBudget`, `Release` takes the replacement of
`dist/` from `Distribution`.  Invariants and action properties of one subject are
conjoined under one name (`ReviewsTruthful`, `CallsEndCleanly`, ...): the parts are
operators with their own comments, and a part that is about some states only says
so.

## Inventory

For each component: its state, its operations, what it talks to, what is hard,
and what makes it correct.

**Workbench audio budget** (`application/operations/workbench_audio.py`,
`synthesize_audio.py`, `clients/tts/google.py`).  State: a plan per confirmation
token (status, selected clips, confirmed characters, month of its reservation,
what it spent), a ledger per month (synthesized characters, one reservation per
token), a content-addressed audio cache, an index of checked recordings per
lesson.  Operations: plan, confirm, synthesize, move a reservation at month end,
book a provider answer, check a recording, merge the index, finish, fail,
recover; allocate a voice per turn.  Interacts with the job pool and the settings
(monthly cap).  Hard: plan and ledger are two files; a crash or a raising write
may fall between any two writes, also during recovery; the cache is shared by
concurrent jobs; the month changes under a running job.  Correct when: no answer
of the provider is lost from the ledgers or counted twice, a reservation belongs
to a plan that is running and is given back, no month is taken over its cap, a
check that is shown was made of the recording that is shown.

**Workbench jobs and cancellation** (`web/workbench_jobs.py`,
`clients/cancellation.py`).  State: registry, work queue, two daemon threads,
a token per job, the map from chat turn to job.  Operations: submit, cancel,
work, shut down.  Hard: a job is recorded and queued in two critical sections;
tokens are cancelled outside the lock; a poison pill per worker.  Correct when:
what a poller saw end stays ended, one worker runs a job, every job ends, and
shutdown reaches every operation that can stop.

**Chat turns** (`application/operations/workbench_chat.py`).  State: the
transcript of a thread, with a status per author turn.  Operations: begin,
retry, cancel, new chat, run, recover at start.  Interacts with the pool, the
proposal log and the Codex app-server.  Hard: the transcript says how a turn
ended before its job ends, the author may act in between, and a retry reuses
the turn's id.  Correct when: one conversation at a time, no turn blocks the
thread, only the author's cancel marks a turn cancelled, at most one answer.

**Proposals and working draft** (`workbench_proposals.py`,
`workbench_editing.py`).  State: per lesson a log of proposals with a status per
block, the working draft.  Operations: create, store (superseding the open one),
read (marking conflicts), decide, edit.  Hard: a decision applies to a source
that may have changed since the proposal was made.  Correct when: at most one
proposal is open, an accepted block is the one that was shown, an edit of the
author is never overwritten by a block it did not see.

**Regeneration workflow** (`workflow/workbench_regeneration/`,
`workbench_regeneration.py`).  State: a checkpoint per run (SQLite), generated
exercises, deadline.  Operations: start, execute, pause for the owner, resume,
recover at start.  Hard: nodes are repeated after a crash; the proposal is
stored inside a node, before the checkpoint that records it.  Correct when: a
run stores one proposal, a decided run ends, an active run resumes.

**Promotion, discard and the Git transaction** (`workbench_promotion.py`,
`workbench_lesson_gate.py`, `workspace/workbench_git.py`,
`workspace/workbench_transaction.py`, `workspace/atomic.py`).  State: draft,
canonical source, distribution, Git index and HEAD.  Operations: edit, save,
promote, pull, discard, commit, roll back.  Hard: the canonical source changes in
the author's terminal; the rollback is not crash-safe.  Correct when: no text of
the author exists nowhere after an operation that failed, and a commit contains
what the operation meant, whole.

**Exercise alignment** (`workbench_exercise_alignment.py`).  State: per exercise
what its sections said when it was last judged.  Hard: a regeneration captures
exercise and sections, works without the lock, and its result is pinned to what
it captured although both may have changed; the canonical lesson changes in the
author's terminal and is pulled, file by file, or in part.  Correct when: what is
called aligned was judged against the sections as they are.

**Lesson review** (`workbench_review*.py`, `review_exercises.py`,
`domain/lesson/services/review_*`).  State: a log of runs (findings, reviewed
blocks, hashes), decisions.  Operations: review a lesson, a block, what is
uncovered, a candidate; decide a finding; carry runs over a promotion.  Hard: a
review takes minutes, the text, the plan and the settings change meanwhile; a
verdict may be missing, double or about no exercise; a selected exercise may not be
in the lesson.  Correct when: what is shown was said of the text that is there, what
counts as covered was read, a decision outlives the next review.

**New lessons and curriculum edits** (`workbench_new_lesson*.py`,
`workbench_curriculum.py`, `domain/curriculum/services/`,
`validate_dependency_graph.py`).  State: plan, catalog, lesson drafts, a baseline.
Operations: preview and save edits; capture, author, repair, validate and commit
a lesson.  Hard: two jobs and a Save write the same plan; the plan, the catalog
and the draft are three files.  Correct when: the worktree agrees with Git
whenever nobody holds the lock, what is committed can be taught in its order, an
edit does what its author saw in the preview.

**Codex client** (`clients/codex/app_server.py`, `auth_profile.py`).  State: one
child process at a time (a generation), requests and turns waiting on one
stream, a private copy of the owner's login per generation.  Hard: answers out
of order, timeouts racing late answers, an owner who logs in again, a crash
before a refreshed token is written back.  Correct when: never two processes,
no turn cut short by a retirement, no completion lost, no valid token lost.

**OpenCode client** (`clients/llm/`).  State: a child per call, a shared package
cache with warm markers and temporary directories under file locks, the login
each call copies.  Hard: a child that installs packages while others start,
a lock that outlives its program, a cancel that races the start of the child,
tokens of which only the last is valid.  Correct when: no child is left, a
call's end is reported as what it was, no directory is shared half installed, no
login is lost.

**Release and distribution** (`release.py`, `publish_release.py`,
`export_distribution.py`, `cli/commands/check_workspace.py`,
`clients/github/releases.py`, `clients/storage/s3.py`).  State: a plan, an approval bound to the plan's digest,
`dist/`, an object store, GitHub.  Hard: uploads that are interrupted and
repeated; nothing holds the sources still during an export.  Correct when: what
is published is whole, from the tagged source and never changes, and there is
always a usable `dist/`.

**Workbench frontend** (`app/router.tsx`, `app/navigation-guard.tsx`, `lesson/`,
`curriculum/`, `jobs/`).  State: the history and a guard for unsaved work, a queue of writes per lesson, staged
curriculum edits, jobs polled.  Hard: timers, answers of requests in any order,
components that unmount while a request is in flight, history steps the
browser reports late.  Correct when: nothing typed is lost or overwritten
without consent, what is saved is what was shown, and a job's end is told as it
was.

**Workbench web server** (`web/server.py`, `workbench_actions.py`).  Routing,
the mutation lock, start-up recovery.  Its lock and its start-up order appear
in the modules above; the rest is I/O.

**Lesson formats and validation** (`formats/markdown/`, `load_lesson.py`,
`load_exercises.py`, `compile_lesson_package.py`, `domain/lesson/`).  State: the
package of a lesson (body, exercises, objectives), its compilation, its packet.
Operations: load, audit, gate, collect the transcript, bind the recordings, project,
validate.  Hard: an exercise passes four readers that each check a part of it; what
a learner may see is worked out twice, by the transcript and by the projection.
Correct when: an accepted lesson can be exported and its packet has what was written,
in that order, each sentence heard in its own words and a wrong one never, each
exercise once and answerable, each objective.

## How the models correspond to the code

### AudioBudget

`plan` is the file of a confirmation token, `entry` and `synth` the monthly
ledgers, `cache` the audio cache, `job` the local variables of
`synthesize_workbench_audio`, `lock` the mutation lock, `left` the tokens that
`recover_workbench_audio_plans` has not yet seen.  One action is one write of a
file; the writes of one `with lock` block hold `lock` from the first to the last,
so a crash may separate them but another thread may not.  `WriteRaises` makes any
write raise instead and takes the path of the code's `except`.  Clips are model
values whose lengths are a constant; wave inspection is a choice among its three
outcomes.  `billed` and `charged` are history: what the provider answered, and
what a plan added to the ledgers.

The code's `NoCredentials`, provider failure and refusal at month end are actions
of their own, and so is every exit of the recovery.  The clock moves by
`AdvanceMonth` at any time.

### WorkbenchJobs and ChatTurns

`status`, `registered` and `token` are the registry, the map `_chat_turns` and the
reasons of the tokens.  Each action is one critical section of the pool's lock
or of a token's lock.  `call` is the handler in progress: the server holds the
mutation lock for a whole request, so there is one.  `close()` runs in the main
thread and interleaves with everything.  A token keeps its first reason; the
hook it interrupts runs in a thread of its own, hence `requested`.

`ChatTurns` adds the transcript (`turn`), the program counter of each job's
operation (`op`), the Codex server turn (`server`) and the interrupt hook.  Its
actions conjoin the pool's: `ChatEnd` is `End` plus what the operation did.  A
worker's `with lock` block is enabled only when no handler is in a call.  `Exit`
ends the process at any step, `Recover` is `recover_workbench_chat_turns`.

### Proposals and Regeneration

`draft` is what the blocks of the lesson say on disk and `log` the proposal log of
the lesson, a record per proposal with a record per block.  `source[p]` is what
the operation behind proposal `p` captured: the local variable of a chat turn, or
the captured input in the checkpoint of a run.  `txn` is the decision in progress.
`Begin` is `decide_proposal` up to its first write, `DecideWrite` one write of a
source file, `DecideCommit` the write of the log, `DecideRaises` the rollback of
`workbench_transaction`, and `Forget` the end of the process, which rolls nothing
back.  A proposal made by `canonical` pull is one that is captured and stored at
once.  `Runs` are the proposals of regenerations, whose exercises may be kept.

`run` is the last checkpoint of a run: the node that comes next, whether the graph
is interrupted (`parked`), the persisted outcome, decision, candidate and check.
`worker` is the thread that executes it, with the node it has in memory.  `resuming`
and `settling` are the two ways through the gate, both under the mutation lock: a
decision resumes the run of its proposal, and every read of a run settles it if
it is parked and its proposal is closed.  `left` are the runs the start has not
read yet.

Of the graph library these things are assumed, as the code relies on them: a
completed node is in the checkpoint and is not executed again; an interrupt
belongs to the checkpoint it was raised at; `update_state` makes a new checkpoint
with the same next node and without the interrupt; invoking a finished graph does
nothing; a resumed graph runs the gate and then the resume node.  The write of an
outcome, a read and a write of the checkpoint inside the library, is one step.
The exercises of a run are generated in one step although the library executes
them in parallel; they meet at the assembly and write nothing before it.

### OpencodeCalls, OpencodeAuth, OpencodeCache

One record per call holds its program counter and its attempt.  In `OpencodeCalls`
`olQueue` is the queue the two reader threads of an attempt write into and its
collector reads; the registration of a process and the cancellation of the batch
(`BatchNotes`, then `BatchCancels` for the processes noted) are the critical
sections of `clients/llm/base.py`.  The child writes lines, closes its streams and
ends when it likes; time is the choice of a deadline while the collector waits.

In `OpencodeAuth` a call reads the owner's entry, takes the lease if the token it
read has expired, copies the entry into its directory, and its watcher writes a
refresh back, comparing with what the call started from.  `oaLatest` is the
provider's side: only the last token of a login works.  `WriteLast` is the last
look at the private file after the child has ended, which writes whatever is there.

In `OpencodeCache` the three locks are variables with their holders.  A lock is
inherited by the child and outlives its program (`ProgramDies`), not the machine
(`MachineStops`).  The files are the packages, the markers and pending records, and
the temporary directories; installing a package is two steps of the child.

### CodexClient and CodexAuth

A generation of `CodexClient` is a record of its process, reader and locks; a caller
is where its `run_turn` is.  Requests wait in `cxWire`, lines in `cxStream`.  The
app-server answers in any order, completes turns, dies or writes an invalid line.
`CodexAuth` takes from it that a generation starts when the process of the one
before has ended.  `Synced` is `_sync_codex_auth_files`: what it decides from the
two files it read, one step later than the read, with the comparison that
precedes a replacement; a crash may fall between replacing the parent file and
writing the record.  `caLatest` is the provider's side again.

### DraftCommits, Curriculum, Release, Distribution

`dcTree` is the working tree of one lesson (draft, canonical package,
distribution), next to Git's index and HEAD.  `dcOp` is the operation in progress,
each of its steps an action: copy, remove, export, add to the index, recheck,
commit, and on a failure at any of them the rollback.  The terminal of the author
commits and edits in between.

`cuJob` is a lesson being created, `cuSave` a Save; both write under `cuLock`, the
mutation lock, one file at a time.  Edits of the plan are the operators that
`domain/curriculum/services` applies, on sequences of slots.  A commit may be made and
still be reported as failed (`CommitRaises`: Git killed by its timeout after it has
moved HEAD, or HEAD not readable afterwards); the transaction then puts the old files
back.  `cuUnheard` remembers what such commits left in HEAD, `cuTold` the files as the
last operation that succeeded left them: `WorktreeCommitted` says that the worktree is
the latter, and differs from HEAD in the former only.

`rlRun` is an approval in progress.  Audio is staged and uploaded one recording at a
time; the object store and GitHub are functions from names to contents, and
`GithubTimeout` leaves open whether the upload arrived.

`dtRun` is an export: load, compile each lesson, order, validate, retire the old
`dist/`, publish the new one, clean up.  `dtCheck` is the check of the workspace,
which reads the files one after the other while they change.

### LessonExercises, LessonSource

`lsPackage` is what the author wrote.  `LsEdit` changes it, `LsCompile` compiles it
(`Compilation`: load, audit, gate), `LsExport` makes the packet with its recordings.  A
body is a sequence of headings, markers and blocks, and a block may hold blocks.
`LoadBody` is the loop of `_load_lesson_body` over it, with what is pending (`run`) and
the section that is open; `Converted` gives the examples their teaching role, from their
own attribute, from a label before them or from their first words.  `Candidates` and
`Project` are the two walks over the visible blocks, each with its own count of places.
The parser of a payload, its typed model, the audit of the source and the gate are
four operators per operation (`ChooseLoads`, `ChooseTyped`, `ChooseAudited`, `ChooseGated`).
A sentence is a word, a choice a word with the form it is written in.  Left out are
rules about wording and prompts, dialogues, terminology, tables and lists, which only
refuse more lessons, and the metadata of speakers: a recording is named by its words.

`LessonsSound` compares the packet with the body as it was written, by a reading of the
body of its own (`ShouldRead`, `HeardAsRead`, `Answerable`).

### Reviews, ExerciseReports, Alignment, Voices, LessonAudio

A review captures the text, asks without the lock and stores; what is shown and
covered (`Shown`, `Covered`) is computed from the log and the present text, as the
code does on each read.  `ExerciseReports` follows the verdicts of five reviewers
to the findings, with missing, double and stray verdicts.  A hash is the text it
is of.  `RvPlaced` gives, for each text of the front matter and placement, the exercises
that have a marker in it: only these are elements of the compiled lesson and read by
the exercise reviewers (`ReadFor`), while a run covers all that was selected.
`CoveredWasReviewed` is about each run and each block that it covers, and speaks of an
exercise only where the lesson that the run read placed it.
`alLog` is the set of alignment records with the times they were written at;
what an exercise is compared with is the latest eligible one (`Latest`).  The canonical
lesson changes by promotion and in the terminal (`TerminalCanonical`); a pull
(`alPull`) is decided file by file, and the draft starts from what was pulled only
when every file was accepted (`TakenWhole`).  The plan is a file about which only
that it differs is known.
`VoicesOf` is the allocation of voices over the turns in order, a fold; its
invariants say what a reference definition would: every voice is a possible one,
a speaker has one voice, and one is shared only when the pool is exhausted.
`LessonAudio` has the plan, the claim, each clip with the retries and the token of
the provider client, and the merge of the index, by jobs that share a cache.

### Navigation, DraftEditor, PlanEditor, PageJobs

`nvStack` is the browser's history, `nvSteps` the traversals it was asked for and has
not made; everything else is a ref or state of the router of that name.
`DraftEditor` has a text as the number of the edit that made it.  `deQueue` is the
mutation scope of the lesson: the first entry is in flight (`served`), then its
answer comes or fails.  `dePending` is the map of pending source edits that
outlives the editor.  In `PlanEditor` a preview is answered in any order and the page
drops the answers whose request id is old.  `PageJobs` has a tracker per session
and per ticket, with the request and the poll it has under way.

## Bounds

* `audio_cases` runs two stories.  `pair`: two plans and two clips of different
  lengths are the smallest instance in which reservations compete, clips are
  shared and a booking is partial, over two months and with one crash.
  `faults`: one plan, three months (needed for a reservation to move twice), two
  crashes and two raising writes, so that recovery itself can be interrupted.
  Estimates round up to 2 while characters cost 1, so rounding is visible.
* `chat_cases`: two jobs suffice for one turn and its retry, three for a retry and
  another turn.  The story `thread` has two turns and neither retry nor restart;
  `retry` has one turn, one retry and one restart.  `MaxRetries`, `MaxRestarts` bound
  the author and the process; `AutoFixRetries` is 1 in the code, 0 where repair does
  not matter.
* Proposals: a run and a chat turn are the smallest pair that can supersede one
  another; an exercise and another block lie in different files, so that a decision
  takes two writes; one edit, with a text no answer has, suffices for a conflict,
  and a decision that is cut off by the end of the process for a block that
  conflicts with its own text.
* Regeneration: one run, one chat proposal that may supersede it, one exercise,
  both modes, and two ends of the process, so that a recovered run can be cut off
  again.  With one block no decision is `mixed` and with `MaxEdits = 0` the draft
  changes only by decisions; both happen in `proposals`.
* `MCProviders`, `MCAuthoring` and `MCWorkbench` choose a part at the start and move
  only that part's module, so the parts share a run and not a state space.  Where
  one module's space would be too large, the step of that part is restricted by
  name in the MC module, never in the module itself, and never so that a kind of
  event is lost, only combinations of several rare ones:
  `CodexNext` (no interrupt after a fault; of an interrupt, a fault and the end of
  the service, two), `CacheNext` and `LoginNext` (calls that are alike begin in their
  order), `CallsNext` (one call; a third line only in its last attempt; two calls of
  one batch are independent but for the batch, whose cancel races this one),
  `CommitsNext` (two operations with one crash, or one that fails),
  `CurriculumNext` (two creations, or one with a Save, a repair, a crash or a
  failure; a second Save only after one whose commit was made and reported as failed),
  `ReleaseNext` (tags in order), `TextNext` and `PlanNext` (few of the
  author's steps with one disturbance), `DistNext` (one disturbance, two of exports
  and checks, no check begun during an export; both lessons canonical at first, or one
  of them only a draft), `LessonNext` (one edit of the
  exercises or objectives, or two of the body), `ReviewsNext` and `RereviewNext`
  (two jobs with one edit, one job with two and faults of one block), `AudioNext` (two jobs without edits and
  retries, or one with), `ReportsNext` (reviewers answer in order: each writes its own
  report), `AlignmentNext` (three edits of one draft, or two of two; one change in the
  terminal, of one section and the exercise, under a draft that has begun; a pull only
  after it, and of the plan alone or without the plan).
* Reviews: a block of prose, an exercise that loses its place in the lesson, and one that
  keeps it, so that the lesson compiles; nobody edits or faults the last (`PlacedKept`).
* Lessons: two sections, two exercises and a box suffice for a hidden tail, an empty
  box and a label to come before or in a box; the nodes to insert and the
  exercises to put in (`MCLessons`) have, per rule of the readers, one that breaks it.
* `SharedCacheSound` needs two crashes (`OcMaxCrashes`), the second in a recovery.
* The two curriculum entries, lessons and tags have different roles, so `MCAuthoring`
  has no symmetry; `MCWorkbench` has one exchange, of the values that are workers
  and jobs.  No run with a liveness property uses symmetry.
* `CHECK_DEADLOCK FALSE` everywhere: a workbench with nothing to do, or whose
  bounds are used up, really stops.

## Runs

| run | question | answer |
| --- | --- | --- |
| `audio_cases` | two plans, one ledger, a month end and a crash; one plan with crashes and raising writes anywhere, also in recovery | answers covered, settled plans charged in full, no orphaned or double reservation, cap kept, `AudioSpend` implemented; every plan settles and every reservation returns |
| `audio_stale_claim` | finding | a stale reservation is charged although nothing was spent |
| `audio_rewrite` | finding | a month ends above its cap |
| `chat_cases` | two turns on two workers; a retry while the first job ends, over a restart | one conversation until something is retried, no stuck turn, replies kept, only the author cancels, one answer |
| `chat_live` | a turn with its repair, cancelled at any point | the interrupt is always requested, every turn settles |
| `chat_late_cancel` | finding | a late mark frees the thread under a running retry |
| `proposals` | a run and a chat turn propose, the author edits and decides, writes raise, the process ends | one open proposal, decisions stand, no edit overwritten, what the log calls accepted is in the draft |
| `regeneration` | a run against its author, a chat proposal, cancel, shutdown, two crashes | obeys the log, records its decision, never forgotten, comes to rest, passes its gate once decided |
| `regeneration_outcome` | finding | a finished run is written back to running |
| `providers` | each provider client against its children, its owner, its batch and its other callers | one process, turns served, calls end as what they were and leave no child, tokens kept, the cache is shared whole |
| `authoring` | drafts and Git, curriculum and new lessons, releases, the distribution, the pages of the browser, a lesson from source to packet | no text lost, nothing committed or published that was not seen, the page and the server agree, the packet says what was written |
| `workbench` | the pool, reviews, their reports, alignment, voices, recordings | no job revives or misses shutdown, nothing is shown that nobody said, no voice moves, checks are those that were made |

Most properties of the last three runs are conjunctions, one per module; the
mutants recorded in `PROJECT.json` break their parts one by one.

## Fairness

Worker threads, the handler in progress, `close()` and recovery are weakly fair:
they are threads that are never blocked for good.  The steps of a chat operation
are strongly fair, because most need the mutation lock, which is free again and
again between requests but not continuously.  Codex turns end weakly fair: the
client has a timeout on every turn.  Nothing is assumed of the author, of
crashes, faults or the clock.  The audio liveness property speaks of behaviours in
which no write raises: when the write that marks a plan failed raises as well, the
plan stays running until the next start, which the code accepts.

In `Regeneration` the request in progress, settling and the start are weakly fair.
The workers are strongly fair, because they need the mutation lock, which is handed
over between requests.  Provider calls return or raise, or the poll of
`_invoke_provider` sees the deadline.  Nothing starts the process again and nobody
has to decide: `RunsFinish` promises nothing once the process stops.

The other modules state safety only.

## Findings

1. *A stale claim is charged* (`audio_stale_claim`).  A claim whose second write
   fails leaves a reservation of a pending plan in its month.  Confirmed again in
   the next month, and interrupted after its reservation was given back, the plan
   is charged the stale reservation as if it were uncertain spend.
2. *A reused clip is paid for* (`audio_rewrite`).  The set of clips to synthesize is
   computed again after the claim released the lock; another job may have
   replaced a reused recording by a flawed one, and the plan then spends
   characters it never reserved.
3. *A late mark* (`chat_late_cancel`).  A cancelled turn is marked twice; a retry
   between the marks is overwritten and runs on unseen.
4. *An outcome comes back* (`regeneration_outcome`).  `execute_regeneration` reads a run
   under the lock and then writes without it that the run is running.  After a
   crash between the review and its interrupt, the author's decision may finish
   the run in between; it then reads as running for good, and every start
   recovers it.

`CapHonoured` holds in `audio_cases` where no clip is flawed while two plans run, and
`ChargedOnceUnlessRaised` is about behaviours without a raised write: crashes and
interleavings alone do not break them.

Smaller flaws met while modelling.  The properties are stated around them, and the
comments of the modules name them.

Jobs, chat and audio:
* The entry of a chat turn is removed by turn id when a job ends
  (`workbench_jobs.py:369`), although a retry of the same turn may have registered
  itself; the retry cannot be cancelled.
* The second mark of a cancelled job that was replaced can unsay a reply, so that
  after two retries a turn is answered twice (`workbench_chat.py:348-353`).
* Recordings forced again are paid again after an interrupted job; a call the provider
  charged and whose answer was lost is repeated (`clients/tts/google.py:50`).
* Reviews have a gap between a cancel and the calls they have yet to start.
* `synthesize_audio.py` promises that speakers do not share a voice; they do when the
  pool is exhausted.

Provider clients:
* The docstring of the app-server client (`app_server.py:247`) promises more of draining
  than happens with an interrupt pending; the late completion of an earlier turn
  that timed out can reach a later one.
* A process that is starting when the batch is cancelled is caught a moment later,
  not at once, as the README of `clients/llm` says.

Drafts, curriculum, release:
* A Git commit that was made may be reported as failed (`workbench_git.py:62-75`): Git is
  killed by its timeout after it has moved HEAD, or HEAD cannot be read afterwards.  A
  Save or a new lesson then puts the old plan, catalog and draft back over a commit
  that has the new ones.  The same Save cannot be repeated, since Git refuses a commit
  without changes, until another edit differs from HEAD.
* A crash between the writes of plan and catalog leaves them apart until the next Save.
* Under a draft whose canonical lesson was changed in the terminal, the canonical record
  is of the new lesson (`workbench_exercise_alignment.py:177-193, 328`).  An exercise that
  was kept while its section was pulled, or typed, to read as there is shown as aligned,
  though it was never judged against that section: a pull accepted in part is enough.
* An exercise that is shown as aligned and then rewritten by hand, without a change of
  its sections, stays aligned: the record has no hash of the exercise.
* The exercise reviewers are asked about exercises of the compiled lesson only
  (`workbench_review.py:659-668`, `workbench_review_calls.py:104,117`), but the run covers
  each selected block (`workbench_review.py:454`).  An exercise without a marker is
  covered with nobody asked, by an item review without any call; placed afterwards, it
  stays covered, since its own text is the same.
* Alignment pins of a discarded draft are used again by the next draft of the same
  canonical lesson.
* `review_exercises.py:222` calls an exercise unverified only after all passed, while
  mismatches and unclear verdicts are advisory.
* A content directory that vanishes during a workspace check skips checks in a report
  that reads as valid; an export that finds the packets of a corrupted `dist/`
  unreadable may drop its recordings; damage to a new `dist/` before the backup
  is removed loses the usable copy; two exports at once are not locked.

Lessons:
* Prose between the marker of an exercise and the next heading is dropped without a
  word (`load_lesson.py:120-150`).
* A marker inside a block satisfies the audit, but its exercise is not in the lesson.
* An objective may be taught only in a section that is hidden from the packet.
* A lesson whose right sentence of a judge exercise is tagged as foreign, or that has no
  sentence to speak, compiles and fails at the export.
* The check for a handle as a heading looks at the last authored block, so a
  handle followed by a hidden request is shown before its exercise.

Pages:
* A revert to the saved text in an editor that was opened again, with a write in
  flight that fails, is taken for saved; an entry left in the pending map is written
  over later changes on a later visit; a GET of an earlier visit puts older text in
  the cache; typing while an accept is in flight overwrites it; text typed in a
  block card while it says "Writing…" is lost on success; edits younger than 800 ms
  are not covered by `beforeunload`.
* With the guard's dialog open for a link, Back and then confirming before the
  browser has stepped back leaves the router pushing from the wrong entry.
* Staged edits that contain a reorder are refused for good once a lesson creation has
  inserted an entry; a GET in flight during a Save can overwrite its result.
* A new-lesson request whose answer is lost is submitted again by the retry; "Edit
  inputs" after a lost poll abandons a running job; a reload during the request loses
  the job's id; a cancel before the answer is ignored; a ticket dies with its
  component.

## Proofs

No proof uses a bound: plans, clips, months, jobs, workers, runs, calls, logins,
retries and crashes are arbitrary.  The assumptions are the named ones of the
modules: the typing of constants, that the values standing for "no file", "nobody"
and the like are not members of the sets they are outside of (`OaNone`, `OcNone`,
`OcTorn`, `CaNone`, `CaTorn`, `CxNone`, `DcNone`, `DcPartial`, `AlNone`, `LaNone`, `RlNone`), and for the audio
budget that the length of a set of clips is the sum of its clips.

**AudioBudget_proofs**: `TypeCorrect`, `AnswersCovered`, `SettledInFull`.  The inductive
invariant says, for each plan, what may still be owed at each step of its job or
of its recovery: the answers in memory are at most the booked ones plus what the
reservation of its own month holds.  Each action touches one plan, so the proof
first shows that the other plans' parts of the ledgers are unchanged (the frame
lemma) and then goes through the steps of the one plan.

Two more theorems there are `ReservedAndChargedOnce` and `ImplementsSpend`.  The first
needs `OnceInv`: which months may hold a reservation of a plan at each step of its life
(none, its own, or its own and the one it moves to), and, while no write has
raised, that what was charged is what was booked.  The refinement maps a plan's
status, its reservations and its charges to the phases of `AudioSpend`; one lemma
per phase says which steps leave it and that each is a step of the promise or a
stutter.

**ChatTurns_proofs**, the pool: `PoolTypeCorrect`, `WorkersAgree`, `ShutdownMissesNone`,
`EndedJobsStay`.  None of these is inductive alone.  That an ended job stays
ended needs that a job still in the hands of a submitting call or in the queue
has not ended, except by a cancel that the worker will see before it marks the
job running; that shutdown reaches every operation needs that a job in a
worker's hands is marked running.  `PoolInv` says where each job is (in the
call, in the queue, with one worker, or nowhere), that it is in one place only,
and which statuses fit that place.

The turns: `InterruptRequested`, `NoStuckTurn`, `OneConversationUnretried`,
`TranscriptTruthful`, on top of `PoolInv`.  `ChatInv` ties the three records of a turn
together: the job that is its newest, the step its operation is at, and the status
in the transcript.  A turn that reads pending or running has a job that is not over,
which is in the pool and has yet to write the end; a job that has written an end
writes at most the late mark; the hook of a server turn is registered before the
turn can be running unseen, and a token that was cancelled first is seen when the
hook is registered.  These must be proved together, because a retry makes one job
the turn's newest while another still ends.  At most one retry is the premise of
"answered once", for the reason given under the findings.

**Regeneration_proofs**, the log: every property of `Proposals`.  The two action properties about
decisions need `TxnSound`: a decision in progress is about undecided blocks of an
open proposal, and one that accepts found each of its blocks pending and as it was
captured; such a block has the old text until its file is written and the
proposed text from then on.  Hence a write replaces only text the block was made
against, and when no file is left to write the log may say accepted.  Nothing but
the lock keeps an edit or a new proposal out between two writes, and `Idle` is
that lock.

The runs: `RTypeOK`, `WaitingHasProposal`, `DecisionRecorded`,
`NoRunForgotten` and `ImplementsProposals`.  `RInv` has four parts.  `GateOpen`: a run is
resumed or settled only while its proposal is closed, and a closed proposal stays
as it is (this is a lemma of the proposal log).  `Exclusive`: one request holds the
lock, none while the start reads the runs, and a process that is down has no
thread.  `CheckpointSound`: a run before or behind its gate has a proposal in the log.
`WorkerSound`: a worker in a node before the gate has the checkpoint of that node,
but one that still has to park may have been overtaken by a decision, and it then
leaves a run that is over or being settled.  A step touches one run at a time, so
each action is proved for its own run and `OneRunStep` carries the others over.
`RunsImplementProposals` makes the theorems about the log theorems about the
whole.

**Providers_proofs**: `CallsEndCleanly`, `OpencodeLoginSafe` and `CodexLoginSafe`.  For a call, `CallsInv` adds to
the property where a process can be (started and not yet registered, registered, in
the snapshot of the batch, or gone) and which answer the collected lines amount to:
an attempt ends with an answer only if its text came whole.  For the login,
`AuthInv` says that every content of every file was issued (`Issued`), that the entry a
call started from is at or behind the owner's (`BaseBehind`), that a call which can
still write back is the one that would write the last token (`WritesLast`), and that
one call holds the lease (`OneHolder`).  The heart is `Kept`: the last token is in the
owner's file, or in the file of a call that has not looked for the last time and
whose comparison will succeed.

For `CodexLoginSafe`, action property included, `CaInv` follows the one token of the
copied login that still works.  `TokenKept`: it is in the owner's file, or in the profile of the
generation that the record names, and the record then names the content of that
file, so the next synchronisation, or the recovery of the next start, writes it.
`OwnerShape` and `OwnerAgrees` say what the record promises of that generation;
`NothingLate` is what makes the loser harmless: a generation that lost the record
either saw the parent change or has no refresh, or the parent is no longer what it
last agreed on, so its late comparison fails.  `NoReturn` keeps that true: what
the owner of the record writes is never what another generation once agreed on,
because tokens of a login only grow.  `ReadHolds` relates what the holder of the file
lock read to what is there when it decides.  A synchronisation has three outcomes
(`Stayed`, `GaveUp`, `Wrote`; lemma `SyncedIs` goes through the eight cases of
`_sync_codex_auth_files`), and poll, last sync, restore and crash are proved from
these.  The provider's rule that only the last token can be refreshed is an
assumption of the model (`caLatest`), as is that a generation starts after the
process before it ended.

**CodexClient_proofs**: `ClientSound`, as its halves `ProcessesAccounted` and `TurnsServed`, of
`CxSpec` as it is, while the run takes an interrupt, a fault and the end of the
service only two at a time and the interrupt first.  `ClientInv` says who may know
what.  That one process runs needs `UpIsKnown` and `StartLock`: a process that is up
and was not told to stop is the current generation, or belongs to the caller that
holds the start lock, and then the current one is not up.  That a retirement cuts no
turn short needs the count of a generation to be the number of its callers between
`Reserve` and `Leave` (`TurnsCounted`), and that no other caller has a generation
before it is initialised (`OwnGeneration`).  `DrainEnds` follows the same count: the
last caller that leaves, or the last failing request, retires the generation, and
`DrainIsFinal` and `WayOut` keep it on its way; the author's interrupt, whose reply
may be outstanding then, is the exception the property names.  For the answers,
`Asked`, `WireFits` and `RepliesFit` follow a turn from its request over the process to
the reply; `Completed` then says where the completion of a turn that is over can be
(on the stream, or with its caller), for a turn whose reply is still unread too,
and `Abandoned` that a turn is given up with its interrupt on the way.  There is one
lemma per action; the reader's, whose line may be a reply, a completion or garbage,
has one for each.

For `SharedCacheSound`, both action properties included, `SharedInv` says which locks a
call holds at each of its steps (`CallShape`), whose a directory is (`DirShape`), that
the holder of the exclusive lock is alone (`ExclAlone`) and that after a recovery
nothing abandoned is left (`AgainAlone`).  The heart is `HalfOwned`: a package that is
half installed belongs to a call that lives, to one whose pending record will be
found, to a marker that was written too early, or a marker was torn.  The last case
was missing from `NothingHalfLeft` and is reached by two crashes, the second one in
a recovery: with a torn marker nothing may be removed that it could have named.

**Lessons_proofs**: `AlignmentSound`, `RecordingsTrusted` and `ReviewsTruthful`.  For the alignment,
`AlInv` says that what a record names, the text of the exercise when it was made and
what its sections said, was judged together (`RecordsJudged`), as is the canonical lesson
(`CanonJudged`); that an exercise nobody rewrote reads as in the lesson its draft started
from (`UnwrittenIsBase`); and that of a pull with nothing refused, whose exercises are
decided, the draft has the exercises (`PulledAsTaken`), which is what a draft needs to
start from the lesson it pulled.  A pin is sound for the text it was taken of, and the
run that would store it compares that text first.  The theorem claims alignment where
an exercise reads as for its record, or the record is the canonical one of the lesson
the draft started from: elsewhere the code shows more than was judged (see the flaws
above).  For the recordings, `AudioInv` follows a job
that is alone: as long as nobody else wrote, every clip is ready, or still to be made,
and what the job noted of it is what is in the cache (`HealsOf`).  For the reviews,
`ReviewsInv` says that a finding is of the text its run read, that each block a run
covers was heard by every reader, unless it is an exercise that the lesson of the run did
not place (`RunStored`), and of a decision that it is resolved in the log,
a run that has it open having been stored before.

`AcceptedIsAnswerable` is about the operators of `LessonExercises` alone: whatever its words
and ids, a payload that the loader builds, its model accepts and the audit and the
gate pass can be answered.  No reader alone implies it: that choices read apart comes
from the audit (`NoEchoes`, `Visible`), that there are two of them from the model, that
one is right from the loader, and that a correction corrects its token from the gate.

**Authoring_proofs**: `DraftsSafe` and `ReleasesStand`.  An operation on a draft has a step,
the copies it took when it began, the paths it has still to put back and the index it
captured.  `DraftsInv` says for each step which of them agree: what is not left to
restore is as it was (`Untouched`), the copies are those of the beginning (`SavedFit`), the
index is captured before anything is added (`IndexTaken`), and a path that is gone can
be had from its copy until the operation is over.  `KnownBeforeReplaced`, `LeavesAsWas`
and `DistWithPackage` are then properties of single steps.  Failures may come at each
step, of the rollback too, and the process may end anywhere; the three trees, the
index and the commits are arbitrary values of the model's sets.  `ReleaseInv` follows an
approval: what it has staged is of the source of its plan (`ApprovalFits`), what is in the
store or on GitHub is what such a run put there (`WorldFits`, `OutputsFit`); so an upload
that timed out, and may have arrived, is of the same archive when it is tried again.

**Frontend_proofs**: `PagesFollowJobs`.  `OwnFollowed` is what `RunningIsFollowed` needs of the
past: a job that runs, is known and was not given up is followed by the very tracker
it was started for; `UnderWay` says that a submission under way is for the tracker as it
is, so its answer can find no other job there.  `StaysFollowed` is the one condition on
the new state of a tracker from which every action keeps the invariant.

What the proofs changed in the models: `NothingHalfLeft` has the exception named
above; the alignment log is a set of records with times, since the code takes the
latest by time and not the last; a few `CASE`s whose guards overlapped, which TLC
evaluates in order and a prover may not, are `IF`s now.

What TLC alone checks, and why:
* liveness under fairness (`NothingLeftOver`, `ChatEnds`, `RunsFinish`): out of the
  prover's reach;
* `CapHonoured`, a sum over all reservations, `VoicesSound` and `ReportsSay`: folds over data of
  any length, so induction over data;
* `DistributionSound`, `EditorsSafe` and `CurriculumSafe`: they select from
  sequences of packets, writes, edits or slots (`SelectSeq`, `FoldLeft`), about which
  again only an induction over their length would say something;
* `LessonsSound`: a body is a tree of any depth, so its operators are recursive;
* `NavigationSafe`: what is promised at the end of a queue of browser steps that can be
  of any length.

## Plan

1. Done: the modules of the table above, and the proofs of this section.
2. Next to prove: the parts of `CurriculumSafe` and `DistributionSound` that need no
   selection from a sequence.
3. Not planned: parsing of inline Markdown and slides, prompt building, HTTP
   and JSON shapes, rendering, statistics.  They are sequential text functions
   that unit tests reach, or I/O.
