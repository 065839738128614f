----------------------------- MODULE LessonSource -----------------------------
(***************************************************************************)
(* One lesson from its authored package to the packet of the app: the body *)
(* of lesson.md is split into sections and exercises (load_lesson.py,      *)
(* pandoc_blocks.py), audited and gated (compile_lesson_package.py), its   *)
(* sentences are collected for synthesis (transcript.py) and the packet is *)
(* projected and validated (export_serializer.py, export.py).  What the    *)
(* learner may see, and where a recording belongs, is worked out twice, by *)
(* the transcript and by the projection; the tests compare few lessons.    *)
(***************************************************************************)
EXTENDS LessonExercises, SequencesExt

CONSTANTS LsPackages,   \* the packages an author may begin with
          LsNodes,      \* what may be inserted in the body of a lesson
          LsItems,      \* the exercises that may replace the last one
          LsObjectives, \* lists of objectives
          LsTagged,     \* words in another language, marked so by the author
          LsStatus,     \* the role of the words that begin with one, as "Wrong:" does
          LsMaxEdits,
          LsFailed,     \* the outcome of an export that fails
          LsNone

VARIABLES lsPackage, \* [kind, objectives, body, items]
          lsLesson,  \* [valid, elements] of its compilation, or LsNone
          lsPacket,  \* the packet, LsFailed or LsNone
          lsCount    \* edits made
lsVars == <<lsPackage, lsLesson, lsPacket, lsCount>>

\* A node of the body: [node: "heading", id, role, objectives, request],
\* [node: "marker", handle], [node: "partial"] or [node: "block", block]; a block:
\* [kind, says, anchor, role, blocks].  `anchor`, `request`: it begins with an
\* internal request.  "label" prints a handle in bold, "status" is
\* "Incorrect:" or "Not normally:" on its own and says the role it gives.  The
\* conversion of a "bad" one raises.
ExampleKinds == {"example", "examples"}
Roles == {"orient", "model", "contrast", "recap"}

-----------------------------------------------------------------------------
\* _marker_handles: the markers by their lines, in whatever block they stand.
RECURSIVE NestedMarkers(_)
NestedMarkers(blocks) ==
  FlattenSeq([i \in DOMAIN blocks |->
    IF blocks[i].kind = "marker" THEN <<blocks[i].says>> ELSE NestedMarkers(blocks[i].blocks)])
Markers(body) ==
  FlattenSeq([i \in DOMAIN body |->
    CASE body[i].node = "marker" -> <<body[i].handle>>
      [] body[i].node = "block" -> NestedMarkers(<<body[i].block>>)
      [] OTHER -> <<>>])

\* _compare_handles
HandlesOnlyKnown(handles, markers) == Range(markers) \subseteq Range(handles)
HandlesAgree(handles, markers) == Range(handles) = Range(markers)

\* audit_exercise_source: no material finding.
AuditClean(package) ==
  LET markers == Markers(package.body)
  IN  /\ \A node \in Range(package.body) : node.node # "partial"
      /\ IsInjective(markers) /\ HandlesAgree(Each(package.items, "handle"), markers)
      /\ ExercisesLoad(package.items)
      /\ \A item \in Range(package.items) : OperationAudited(item.op, item.payload)

-----------------------------------------------------------------------------
\* convert_blocks: a status label is taken by the examples right after it.
TakenAsLabel(run, i) ==
  run[i].kind = "status" /\ i < Len(run) /\ run[i + 1].kind \in ExampleKinds
RECURSIVE Convertible(_)
Convertible(run) ==
  \A i \in DOMAIN run :
    /\ run[i].kind # "bad" /\ Convertible(run[i].blocks)
    /\ TakenAsLabel(run, i) => run[i + 1].role \in {"", run[i].says}

\* _resolve_example_teaching_role: its own, that of the label, that of its words.
Resolved(block, inherited) ==
  LET role == IF block.role # "" THEN block.role ELSE inherited
      RoleOf(says) == IF role # "" THEN role ELSE IF says \in DOMAIN LsStatus THEN LsStatus[says] ELSE "model"
  IN  [block EXCEPT !.role = RoleOf(block.says),
         !.blocks = [i \in DOMAIN @ |-> [block.blocks[i] EXCEPT !.role = RoleOf(block.blocks[i].says)]]]
RECURSIVE Converted(_)
Converted(run) ==
  LET kept == SelectSeq([i \in DOMAIN run |-> i], LAMBDA i : ~TakenAsLabel(run, i))
  IN  [k \in DOMAIN kept |->
        LET i == kept[k]
        IN  CASE run[i].kind \in ExampleKinds ->
                   Resolved(run[i], IF i > 1 /\ TakenAsLabel(run, i - 1) THEN run[i - 1].says ELSE "")
              [] run[i].kind = "callout" -> [run[i] EXCEPT !.blocks = Converted(@)]
              [] OTHER -> run[i]]

\* flush_pending_blocks: what no section holds is converted and dropped.
Flushed(load) ==
  [load EXCEPT !.ok = @ /\ Convertible(load.run), !.run = <<>>,
     !.elements = IF load.open /\ load.ok /\ Convertible(load.run)
                    THEN [@ EXCEPT ![Len(@)].blocks = @ \o Converted(load.run)] ELSE @]

LoadHeading(load, node) ==
  [Flushed(load) EXCEPT !.ok = @ /\ node.role \in Roles, !.open = TRUE,
     !.elements = Append(@, [element |-> "section", id |-> node.id, role |-> node.role,
                             objectives |-> node.objectives, request |-> node.request, blocks |-> <<>>])]
\* _require_exercise and _require_known_objective
MarkerUnflushed(load, node, package) ==
  LET known == SelectSeq(package.items, LAMBDA item : item.handle = node.handle)
      flushed == [load EXCEPT !.open = FALSE]
  IN  IF known = <<>> \/ known[1].objective \notin Range(package.objectives) THEN [flushed EXCEPT !.ok = FALSE]
      ELSE [flushed EXCEPT !.elements = Append(@, [element |-> "exercise", item |-> known[1]])]
LoadMarker(load, node, package) ==
  LET known == SelectSeq(package.items, LAMBDA item : item.handle = node.handle)
      flushed == [Flushed(load) EXCEPT !.open = FALSE]
  IN  IF known = <<>> \/ known[1].objective \notin Range(package.objectives) THEN [flushed EXCEPT !.ok = FALSE]
      ELSE [flushed EXCEPT !.elements = Append(@, [element |-> "exercise", item |-> known[1]])]

\* _load_lesson_body
LoadBody(package) ==
  Flushed(FoldLeft(LAMBDA load, node :
    CASE node.node = "heading" -> LoadHeading(load, node)
      [] node.node = "marker" -> LoadMarker(load, node, package)
      [] node.node = "partial" -> [load EXCEPT !.ok = FALSE]
      [] node.node = "block" -> [load EXCEPT !.run = Append(@, node.block)],
    [elements |-> <<>>, run |-> <<>>, open |-> FALSE, ok |-> TRUE], package.body))

Sections(elements) == SelectSeq(elements, LAMBDA e : e.element = "section")
Exercises(elements) ==
  LET found == SelectSeq(elements, LAMBDA e : e.element = "exercise")
  IN  [i \in DOMAIN found |-> found[i].item]
\* load_lesson_source: the front matter, the body and the typed lesson.
LessonLoads(package) ==
  LET load == LoadBody(package)
      sections == Range(Sections(load.elements))
  IN  /\ ExercisesLoad(package.items) /\ package.objectives # <<>> /\ load.ok
      /\ \E section \in sections : section.role = "recap"
      /\ \A section \in sections :
           /\ section.objectives # <<>>
           /\ section.role \in {"model", "contrast"} => Len(section.objectives) = 1

\* _review_pool: for each objective its exercises, as they come.
Pools(elements, objectives) ==
  [i \in DOMAIN objectives |->
    [objective |-> objectives[i],
     exercises |-> Ids(SelectSeq(Exercises(elements), LAMBDA item : item.objective = objectives[i]))]]

-----------------------------------------------------------------------------
\* block_anchor_text and is_internal_request_anchor
RECURSIVE Anchored(_)
Anchored(block) ==
  CASE block.kind = "reading" -> FALSE
    [] block.kind = "callout" -> block.blocks # <<>> /\ Anchored(block.blocks[1])
    [] OTHER -> block.anchor
\* visible_block_indexes
AllIndexes(blocks) == [i \in DOMAIN blocks |-> i]
VisibleIndexes(blocks) ==
  SelectSeq([i \in DOMAIN blocks |-> i], LAMBDA i : \A j \in 1..i : ~Anchored(blocks[j]))

\* audio_binding_key
BlockKey(section, path, item) == <<section, path, item>>
ExerciseKey(id) == <<id, <<>>, 0>>

\* _build_blocks: public ids count what is projected, audio keys what was written.
RECURSIVE Project(_, _, _, _, _)
ProjectPathDense(path, i, out) == Append(path, Len(out) + 1)
ProjectPath(path, i, out) == Append(path, i)
ProjectBlock(block, id, section, path, bindings) ==
  LET Sound(key) == IF key \in DOMAIN bindings THEN bindings[key] ELSE ""
  IN  [kind |-> block.kind, says |-> block.says, role |-> block.role, id |-> id,
       audio |-> IF block.kind \in {"reading", "example"} THEN Sound(BlockKey(section, path, 0)) ELSE "",
       blocks |->
         CASE block.kind = "callout" -> Project(block.blocks, id, section, path, bindings)
           [] block.kind = "examples" ->
                [j \in DOMAIN block.blocks |->
                  [kind |-> "item", says |-> block.blocks[j].says, role |-> block.blocks[j].role,
                   id |-> id \o <<0, j>>, audio |-> Sound(BlockKey(section, path, j)), blocks |-> <<>>]]
           [] OTHER -> <<>>]
Project(blocks, id, section, path, bindings) ==
  FoldLeft(LAMBDA out, i :
    LET block == ProjectBlock(blocks[i], Append(id, Len(out) + 1), section, ProjectPath(path, i, out), bindings)
    IN  IF block.kind = "callout" /\ block.blocks = <<>> THEN out ELSE Append(out, block),
    <<>>, VisibleIndexes(blocks))

\* _build_section and _build_exercise
PacketSection(e, bindings) ==
  [id |-> e.id, objectives |-> e.objectives,
   blocks |-> IF e.request THEN <<>> ELSE Project(e.blocks, <<e.id>>, e.id, <<>>, bindings)]
PacketExercise(item, bindings) ==
  LET key == ExerciseKey(item.id)
  IN  [item |-> item, audio |-> IF key \in DOMAIN bindings THEN bindings[key] ELSE ""]
\* to_export_dict: a section of which nothing is left to see is dropped.
Packet(elements, objectives, bindings, media) ==
  LET Content(e) ==
        IF e.element = "section" THEN [content |-> "section", it |-> PacketSection(e, bindings)]
        ELSE [content |-> "exercise", it |-> PacketExercise(e.item, bindings)]
      all == [i \in DOMAIN elements |-> Content(elements[i])]
  IN  [objectives |-> objectives, groups |-> Pools(elements, objectives), media |-> media,
       content |-> SelectSeq(all, LAMBDA c : c.content = "section" => c.it.blocks # <<>>)]

SectionsOf(packet) == SelectSeq(packet.content, LAMBDA c : c.content = "section")
ExercisesOf(packet) == SelectSeq(packet.content, LAMBDA c : c.content = "exercise")
RECURSIVE Blocks(_)
Blocks(blocks) == blocks \o FlattenSeq([i \in DOMAIN blocks |-> Blocks(blocks[i].blocks)])
PublicBlocks(packet) ==
  FlattenSeq([i \in DOMAIN SectionsOf(packet) |-> Blocks(SectionsOf(packet)[i].it.blocks)])

\* _audio_references_are_resolvable: a recording is named by its words.
AudioResolves(packet) ==
  packet.media =
    ({block.audio : block \in Range(PublicBlocks(packet))}
      \cup {c.it.audio : c \in Range(ExercisesOf(packet))}) \ {""}
\* _lesson_references_are_resolvable
ReferencesResolve(packet) ==
  LET Id(c) == c.it.item.id
      exercises == [i \in DOMAIN ExercisesOf(packet) |-> Id(ExercisesOf(packet)[i])]
      enrolled == FlattenSeq(Each(packet.groups, "exercises"))
  IN  /\ \A c \in Range(SectionsOf(packet)) : Range(c.it.objectives) \subseteq Range(packet.objectives)
      /\ \A c \in Range(ExercisesOf(packet)) : c.it.item.objective \in Range(packet.objectives)
      /\ IsInjective([i \in DOMAIN SectionsOf(packet) |-> SectionsOf(packet)[i].it.id])
      /\ IsInjective(exercises) /\ IsInjective(enrolled) /\ Range(enrolled) = Range(exercises)
\* _all_public_ids_are_unique
IdsUnique(packet) ==
  IsInjective(packet.objectives) /\ IsInjective(Ids(PublicBlocks(packet)))
\* ExportedLesson
LessonPacketValid(packet) == AudioResolves(packet) /\ ReferencesResolve(packet) /\ IdsUnique(packet)

-----------------------------------------------------------------------------
\* exercise_structural_checks: a build must say what the example it cites says.
BuildsAsCited(elements) ==
  \A item \in Range(Exercises(elements)) : item.op = "build" =>
    \A e \in Range(Sections(elements)) : \A i \in DOMAIN e.blocks :
      (item.payload.cites = <<e.id, i>> /\ e.blocks[i].kind = "example")
        => e.blocks[i].says = item.payload.says
\* internal_exercise_heading_check
NoHandleShown(elements) ==
  \A i \in 2..Len(elements) :
    LET before == elements[i - 1]
    IN  /\ elements[i].element = "exercise" /\ before.element = "section"
        /\ before.blocks # <<>> /\ Last(before.blocks).kind = "label"
        => Last(before.blocks).says \notin {elements[i].item.handle, elements[i].item.id}
\* operation_policy_check: writing alone is no evidence of grammar.
Evidenced(elements, kind) ==
  kind = "grammar" =>
    \A item \in Range(Exercises(elements)) :
      \E other \in Range(Exercises(elements)) : other.objective = item.objective /\ other.op # "write"
\* objective_structural_check
Used(elements) ==
  UNION {Range(e.objectives) : e \in Range(Sections(elements))}
    \cup {item.objective : item \in Range(Exercises(elements))}
ObjectivesKnown(elements, objectives) == Used(elements) \subseteq Range(objectives)
ObjectivesMeant(elements, objectives) == Used(elements) = Range(objectives)
\* gate_lesson_results
GatesPass(elements, package) ==
  /\ LessonPacketValid(Packet(elements, package.objectives, <<>>, {}))
  /\ \A item \in Range(Exercises(elements)) : PayloadGated(item.op, item.payload)
  /\ BuildsAsCited(elements) /\ NoHandleShown(elements) /\ Evidenced(elements, package.kind)
  /\ ObjectivesMeant(elements, package.objectives)

\* _collect_source_snapshot; is_valid
NoCompilation == [valid |-> FALSE, elements |-> <<>>]
CompilationUnaudited(package) ==
  LET elements == LoadBody(package).elements
  IN  IF ~LessonLoads(package) \/ Exercises(elements) = <<>> THEN NoCompilation
      ELSE [valid |-> GatesPass(elements, package), elements |-> elements]
Compilation(package) ==
  LET elements == LoadBody(package).elements
  IN  IF ~LessonLoads(package) \/ Exercises(elements) = <<>> THEN NoCompilation
      ELSE [valid |-> AuditClean(package) /\ GatesPass(elements, package), elements |-> elements]

-----------------------------------------------------------------------------
\* _derive_section_transcript_blocks: a candidate is [key, text].
Spoken(says) == says \notin LsTagged \cup LsForeign \cup {""}
RECURSIVE Candidates(_, _, _)
BlockCandidates(block, section, path) ==
  CASE block.kind = "reading" \/ (block.kind = "example" /\ block.role # "incorrect") ->
         IF Spoken(block.says) THEN <<[key |-> BlockKey(section, path, 0), text |-> block.says]>> ELSE <<>>
    [] block.kind = "examples" ->
         FlattenSeq([j \in DOMAIN block.blocks |->
           IF block.blocks[j].role # "incorrect" /\ Spoken(block.blocks[j].says)
           THEN <<[key |-> BlockKey(section, path, j), text |-> block.blocks[j].says]>> ELSE <<>>])
    [] block.kind = "callout" -> Candidates(block.blocks, section, path)
    [] OTHER -> <<>>
CandidatesOfAll(blocks, section, path) ==
  FlattenSeq([i \in DOMAIN blocks |-> BlockCandidates(blocks[i], section, Append(path, i))])
Candidates(blocks, section, path) ==
  LET seen == VisibleIndexes(blocks)
  IN  FlattenSeq([k \in DOMAIN seen |-> BlockCandidates(blocks[seen[k]], section, Append(path, seen[k]))])

\* _exercise_audio_text: the sentence an exercise is about, or "".
Target(item) ==
  CASE item.op = "recall_fill" -> item.payload.target
    [] item.op = "judge" -> IF item.payload.correct THEN item.payload.sentence ELSE ""
    [] item.op = "build" -> item.payload.says
    [] OTHER -> ""
\* derive_transcript_blocks
Transcript(elements) ==
  FlattenSeq([i \in DOMAIN elements |->
    LET e == elements[i]
    IN  IF e.element = "section" THEN IF e.request THEN <<>> ELSE Candidates(e.blocks, e.id, <<>>)
        ELSE IF Target(e.item) \notin LsForeign \cup {""}
             THEN <<[key |-> ExerciseKey(e.item.id), text |-> Target(e.item)]>> ELSE <<>>])
Transcribes(elements) ==
  /\ Transcript(elements) # <<>>
  /\ \A item \in Range(Exercises(elements)) :
       item.op = "judge" /\ item.payload.correct => item.payload.sentence \notin LsTagged

\* synthesize_lesson_audio: one recording of a text, bound wherever it is said.
Bindings(transcript) ==
  FoldLeft(LAMBDA bound, candidate : (candidate.key :> candidate.text) @@ bound, <<>>, transcript)
\* _exports_with_audio
ExportedPacket(elements, objectives) ==
  LET transcript == Transcript(elements)
      packet == Packet(elements, objectives, Bindings(transcript), Range(Each(transcript, "text")))
  IN  IF Transcribes(elements) /\ LessonPacketValid(packet) THEN packet ELSE LsFailed

-----------------------------------------------------------------------------
LsInit ==
  /\ lsPackage \in LsPackages
  /\ lsLesson = LsNone /\ lsPacket = LsNone /\ lsCount = 0

\* The author, or a worker, writes into the package.
LsEdit ==
  /\ lsLesson = LsNone /\ lsCount < LsMaxEdits /\ lsCount' = lsCount + 1
  /\ \/ \E i \in 1..(Len(lsPackage.body) + 1), node \in LsNodes :
          lsPackage' = [lsPackage EXCEPT !.body = InsertAt(@, i, node)]
     \/ \E i \in DOMAIN lsPackage.body :
          lsPackage' = [lsPackage EXCEPT !.body = RemoveAt(@, i)]
     \/ lsPackage.items # <<>> /\ \E item \in LsItems :
          lsPackage' = [lsPackage EXCEPT !.items[Len(lsPackage.items)] = item]
     \/ \E item \in LsItems : lsPackage' = [lsPackage EXCEPT !.items = Append(@, item)]
     \/ \E i \in DOMAIN lsPackage.items :
          lsPackage' = [lsPackage EXCEPT !.items = RemoveAt(@, i)]
     \/ \E list \in LsObjectives : lsPackage' = [lsPackage EXCEPT !.objectives = list]
  /\ UNCHANGED <<lsLesson, lsPacket>>

\* compile_lesson_package
LsCompile ==
  /\ lsLesson = LsNone /\ lsLesson' = Compilation(lsPackage)
  /\ UNCHANGED <<lsPackage, lsPacket, lsCount>>

\* _export_distribution_unlocked, after _require_compilation_pass
LsExport ==
  /\ lsLesson # LsNone /\ lsPacket = LsNone /\ lsLesson.valid
  /\ lsPacket' = ExportedPacket(lsLesson.elements, lsPackage.objectives)
  /\ UNCHANGED <<lsPackage, lsLesson, lsCount>>

LsNext == LsEdit \/ LsCompile \/ LsExport

-----------------------------------------------------------------------------
(***************************************************************************)
(* What the lesson should be for the learner, from the body as written.    *)
(***************************************************************************)
RECURSIVE Shown(_)
Shown(block) ==
  CASE block.kind = "callout" ->
         LET inside == Converted(block.blocks)
         IN  FlattenSeq([i \in DOMAIN inside |->
               IF \E j \in 1..i : Anchored(inside[j]) THEN <<>> ELSE Shown(inside[i])])
    [] block.kind = "examples" -> Each(block.blocks, "says")
    [] OTHER -> <<block.says>>
\* Under a heading that is no request, before the first exercise and request.
ShownAt(body, i) ==
  \E h \in 1..(i - 1) :
    /\ body[h].node = "heading" /\ ~body[h].request
    /\ \A k \in (h + 1)..i : body[k].node = "block" /\ ~Anchored(Converted(<<body[k].block>>)[1])
LabelAt(body, i) ==
  i < Len(body) /\ body[i + 1].node = "block" /\ TakenAsLabel(<<body[i].block, body[i + 1].block>>, 1)
ShouldRead(package) ==
  FlattenSeq([i \in DOMAIN package.body |->
    LET node == package.body[i]
    IN  IF node.node = "marker"
          THEN <<SelectSeq(package.items, LAMBDA item : item.handle = node.handle)[1].id>>
        ELSE IF node.node = "block" /\ ShownAt(package.body, i) /\ ~LabelAt(package.body, i)
          THEN Shown(node.block) ELSE <<>>])

RECURSIVE ReadBlocks(_)
ReadBlocks(blocks) ==
  FlattenSeq([i \in DOMAIN blocks |->
    IF blocks[i].kind \in {"callout", "examples"} THEN ReadBlocks(blocks[i].blocks) ELSE <<blocks[i].says>>])
Read(packet) ==
  FlattenSeq([i \in DOMAIN packet.content |->
    LET c == packet.content[i]
    IN  IF c.content = "section" THEN ReadBlocks(c.it.blocks) ELSE <<c.it.item.id>>])

\* Every sentence is heard in its own words, and a wrong one never.
HeardAsRead(packet) ==
  /\ \A block \in Range(PublicBlocks(packet)) :
       LET heard == block.kind \in {"reading", "example", "item"} /\ block.role # "incorrect"
       IN  block.audio = IF heard /\ Spoken(block.says) THEN block.says ELSE ""
  /\ \A c \in Range(ExercisesOf(packet)) :
       c.it.audio = IF Target(c.it.item) \notin LsForeign THEN Target(c.it.item) ELSE ""

\* Each exercise is done once and can be answered; one whose marker stands in
\* another block is not done at all.
ExercisesDone(packet, package) ==
  /\ \A item \in Range(package.items) :
       LET placed == {i \in DOMAIN packet.content :
                        packet.content[i].content = "exercise" /\ packet.content[i].it.item = item}
           nested == item.handle \notin {node.handle : node \in {n \in Range(package.body) : n.node = "marker"}}
       IN  /\ Cardinality(placed) = IF nested THEN 0 ELSE 1
           /\ Answerable(item.op, item.payload)
           /\ ~nested => \E g \in Range(packet.groups) : g.objective = item.objective /\ item.id \in Range(g.exercises)

\* An objective is taught or practised; one of a hidden section alone is not.
ObjectivesMet(packet, package) ==
  \A objective \in Range(package.objectives) :
    \/ \E c \in Range(SectionsOf(packet)) : objective \in Range(c.it.objectives)
    \/ \E c \in Range(ExercisesOf(packet)) : c.it.item.objective = objective
    \/ \E e \in Range(Sections(lsLesson.elements)) :
          objective \in Range(e.objectives) /\ e.id \notin {c.it.id : c \in Range(SectionsOf(packet))}

\* A package that compiles and has a transcript is exported, and the packet has
\* the lesson as written: in its order, heard as read, every exercise and objective.
LessonsSound ==
  /\ lsPacket = LsFailed => ~Transcribes(lsLesson.elements)
  /\ lsPacket \notin {LsNone, LsFailed} =>
       /\ Read(lsPacket) = ShouldRead(lsPackage)
       /\ HeardAsRead(lsPacket)
       /\ ExercisesDone(lsPacket, lsPackage)
       /\ ObjectivesMet(lsPacket, lsPackage)
=============================================================================
