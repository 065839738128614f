--------------------------- MODULE LessonExercises ---------------------------
(***************************************************************************)
(* The exercises of a lesson package: what the loader of exercises.yaml    *)
(* (load_exercises.py), the typed payloads (elements.py), the audit of the *)
(* source (source_audit.py) and the deterministic gate (structural.py)     *)
(* each ask of the eight operations.  A package is refused when one of the *)
(* four refuses one exercise; rules about wording only refuse more, and    *)
(* are left out.                                                           *)
(***************************************************************************)
EXTENDS Naturals, Sequences, FiniteSets, Functions

\* A choice the learner sees is <<word, form>>: the form "stop" ends it with
\* punctuation, "caps" writes it in capitals.  A sentence is a word. "" is blank.
CONSTANT LsForeign  \* the words that are not Norwegian

Each(list, field) == [i \in DOMAIN list |-> list[i][field]]
Ids(list) == Each(list, "id")
Texts(list) == Each(list, "text")

\* _normalize_option_text and _normalize_text: case and spaces.
Folded(text) == <<text[1], text[2] = "stop">>
UniqueTexts(texts) == IsInjective([i \in DOMAIN texts |-> Folded(texts[i])])
\* _audit_nonempty_texts and _check_nonempty_texts
Visible(texts) == \A text \in Range(texts) : text[1] # ""

\* _normalize_visible_text: punctuation at the end as well.
NormalizedAsTyped(text) == Folded(text)
Normalized(text) == text[1]
\* _audit_text_values and _audit_duplicate_strings
NoEchoes(texts) ==
  \A i, j \in DOMAIN texts : i # j /\ Normalized(texts[i]) = Normalized(texts[j]) => Normalized(texts[i]) = ""

-----------------------------------------------------------------------------
\* choose: [options: of [id, text, correct]]

ChooseLoads(p) ==
  /\ IsInjective(Ids(p.options)) /\ UniqueTexts(Texts(p.options))
  /\ Cardinality({i \in DOMAIN p.options : p.options[i].correct}) = 1
ChooseTyped(p) == Len(p.options) >= 2 /\ IsInjective(Ids(p.options))
ChooseAudited(p) == NoEchoes(Texts(p.options)) /\ Visible(Texts(p.options))
ChooseGated(p) == Len(p.options) >= 2 /\ Visible(Texts(p.options)) /\ UniqueTexts(Texts(p.options))

\* recall_fill: [target: a sentence, joined: words run together at a blank,
\* blanks: of [id, options: of texts, answer]]

RecallLoads(p) == p.target # "" /\ ~p.joined /\ IsInjective(Ids(p.blanks))
BlankLoads(blank) ==
  /\ Len(blank.options) >= 2 /\ Visible(blank.options) /\ UniqueTexts(blank.options)
  /\ blank.answer \in DOMAIN blank.options
RecallTyped(p) ==
  /\ p.target # "" /\ IsInjective(Ids(p.blanks))
  /\ \A blank \in Range(p.blanks) : Len(blank.options) >= 2 /\ blank.answer \in DOMAIN blank.options
\* _audit_answer_position_pattern: the answers by their places.
Guessable(places) ==
  /\ Len(places) >= 3
  /\ \/ Cardinality(Range(places)) = 1
     \/ \E period \in {2, 3} :
          /\ Len(places) >= 2 * period + 2
          /\ \A i \in DOMAIN places : places[i] = places[1 + ((i - 1) % period)]
RecallAudited(p) ==
  /\ p.blanks # <<>>
  /\ \A blank \in Range(p.blanks) : NoEchoes(blank.options)
  /\ ~Guessable(Each(p.blanks, "answer"))
RecallGated(p) ==
  /\ p.blanks # <<>> /\ p.target # "" /\ p.target \notin LsForeign
  /\ \A blank \in Range(p.blanks) : BlankLoads(blank)

\* match_pairs: [left, right: of [id, text], pairs: of <<left id, right id>>]

MatchLoads(p) ==
  /\ IsInjective(p.pairs)
  /\ \A side \in {p.left, p.right} : IsInjective(Ids(side)) /\ UniqueTexts(Texts(side))
MatchTyped(p) ==
  /\ \A pair \in Range(p.pairs) : pair[1] \in Range(Ids(p.left)) /\ pair[2] \in Range(Ids(p.right))
  /\ IsInjective(p.pairs) /\ \A side \in {p.left, p.right} : IsInjective(Ids(side))
MatchAudited(p) ==
  /\ p.pairs # <<>>
  /\ \A side \in {p.left, p.right} : side # <<>> /\ Visible(Texts(side)) /\ NoEchoes(Texts(side))
MatchGated(p) ==
  /\ p.pairs # <<>>
  /\ \A side \in {p.left, p.right} : side # <<>> /\ Visible(Texts(side)) /\ UniqueTexts(Texts(side))

\* categorize: [buckets: of [id, text], items: of [id, text, bucket]]

CategorizeLoads(p) ==
  \A list \in {p.buckets, p.items} : IsInjective(Ids(list)) /\ UniqueTexts(Texts(list))
CategorizeTyped(p) ==
  /\ Len(p.buckets) >= 2 /\ \A item \in Range(p.items) : item.bucket \in Range(Ids(p.buckets))
  /\ IsInjective(Ids(p.buckets)) /\ IsInjective(Ids(p.items))
CategorizeAudited(p) ==
  /\ p.items # <<>>
  /\ \A list \in {p.buckets, p.items} : Visible(Texts(list)) /\ NoEchoes(Texts(list))
CategorizeGated(p) ==
  /\ Len(p.buckets) >= 2 /\ p.items # <<>>
  /\ \A list \in {p.buckets, p.items} : Visible(Texts(list)) /\ UniqueTexts(Texts(list))

\* judge: [sentence, correct, feedback: given]

JudgeAudited(p) == p.sentence # "" /\ (p.correct \/ p.feedback)
JudgeGated(p) == p.sentence # "" /\ (p.correct \/ p.feedback)

\* build: [tokens: of [id, text], order: of token ids, says: the sentence,
\* cites: <<section, block>> of the example it is derived from, or <<>>]

BuildLoads(p) == IsInjective(Ids(p.tokens))
BuildTyped(p) ==
  /\ IsInjective(Ids(p.tokens))
  /\ Len(p.order) = Len(p.tokens) /\ IsInjective(p.order) /\ Range(p.order) = Range(Ids(p.tokens))
\* _audit_build: the assembled answer ends a sentence.
BuildAudited(p) ==
  /\ p.tokens # <<>> /\ Visible(Texts(p.tokens)) /\ BuildTyped(p)
  /\ \E token \in Range(p.tokens) : token.id = p.order[Len(p.order)] /\ token.text[2] = "stop"
BuildGated(p) == Visible(Texts(p.tokens)) /\ BuildTyped(p)

\* find_fix: [tokens: of [id, text], error: a token id, feedback: given,
\* fix: how the sentence the feedback quotes differs, if it quotes one: "none",
\* "same", "case", "length", or "words", those of the tokens `changes`]

FindFixLoads(p) == IsInjective(Ids(p.tokens))
FindFixTyped(p) == p.error \in Range(Ids(p.tokens)) /\ IsInjective(Ids(p.tokens))
FindFixAudited(p) == Visible(Texts(p.tokens)) /\ p.feedback
\* find_fix_integrity_check, with check_error_token_alignment.
FindFixGated(p) ==
  /\ Visible(Texts(p.tokens)) /\ p.feedback
  /\ p.fix # "same" /\ (p.fix = "words" => p.error \in p.changes)

\* write: [criteria: of [id, text], prompt: the judge's, given, min, max: 0 if
\* not given, asks: what the text asks for: "norwegian", "english", "words"]

WriteLoads(p) == p.prompt /\ IsInjective(Ids(p.criteria)) /\ Visible(Texts(p.criteria))
WriteBounds(p) == p.min > 0 /\ p.max > 0 => p.min <= p.max
WriteTyped(p) == p.criteria # <<>> /\ IsInjective(Ids(p.criteria)) /\ WriteBounds(p)
WriteAudited(p) == p.asks = "norwegian"
WriteGated(p) == p.criteria # <<>> /\ p.prompt /\ Visible(Texts(p.criteria))

-----------------------------------------------------------------------------
\* _build_payload, with the payload models it ends in.
PayloadLoads(op, p) ==
  CASE op = "choose" -> ChooseLoads(p) /\ ChooseTyped(p)
    [] op = "recall_fill" -> RecallLoads(p) /\ (\A blank \in Range(p.blanks) : BlankLoads(blank)) /\ RecallTyped(p)
    [] op = "match_pairs" -> MatchLoads(p) /\ MatchTyped(p)
    [] op = "categorize" -> CategorizeLoads(p) /\ CategorizeTyped(p)
    [] op = "judge" -> TRUE
    [] op = "build" -> BuildLoads(p) /\ BuildTyped(p)
    [] op = "find_fix" -> FindFixLoads(p) /\ FindFixTyped(p)
    [] op = "write" -> WriteLoads(p) /\ WriteBounds(p) /\ WriteTyped(p)

\* _audit_operation_shape, with _audit_build
OperationAudited(op, p) ==
  CASE op = "choose" -> ChooseAudited(p)
    [] op = "recall_fill" -> RecallAudited(p)
    [] op = "match_pairs" -> MatchAudited(p)
    [] op = "categorize" -> CategorizeAudited(p)
    [] op = "judge" -> JudgeAudited(p)
    [] op = "build" -> BuildAudited(p)
    [] op = "find_fix" -> FindFixAudited(p)
    [] op = "write" -> WriteAudited(p)

\* _exercise_payload_integrity and the gates of single operations
PayloadGated(op, p) ==
  CASE op = "choose" -> ChooseGated(p)
    [] op = "recall_fill" -> RecallGated(p)
    [] op = "match_pairs" -> MatchGated(p)
    [] op = "categorize" -> CategorizeGated(p)
    [] op = "judge" -> JudgeGated(p)
    [] op = "build" -> BuildGated(p)
    [] op = "find_fix" -> FindFixGated(p)
    [] op = "write" -> WriteGated(p)

\* load_exercise_items: an exercise is [handle, id, op, objective, payload].
ExercisesLoad(items) ==
  /\ IsInjective(Each(items, "handle")) /\ IsInjective(Ids(items))
  /\ \A i \in DOMAIN items : items[i].handle # "" /\ PayloadLoads(items[i].op, items[i].payload)

-----------------------------------------------------------------------------
(***************************************************************************)
(* What an exercise is for the learner who does it.                        *)
(***************************************************************************)
\* How a choice reads, whatever its capitals and its last stop.
Reads(text) == text[1]
\* The answers that read like a right one, and like a wrong one.
Graded(texts, right) == {Reads(texts[i]) : i \in right}
Decidable(texts, right) ==
  /\ right # {} /\ right # DOMAIN texts
  /\ Graded(texts, right) \cap Graded(texts, DOMAIN texts \ right) = {}
  /\ "" \notin Graded(texts, DOMAIN texts)

\* Every answer is right or wrong, to be seen by who knows the language.
Answerable(op, p) ==
  CASE op = "choose" -> Decidable(Texts(p.options), {i \in DOMAIN p.options : p.options[i].correct})
    [] op = "recall_fill" ->
         /\ p.blanks # <<>>
         /\ \A blank \in Range(p.blanks) : Decidable(blank.options, {blank.answer})
         /\ Len(p.blanks) > 2 => \E b, c \in Range(p.blanks) : b.answer # c.answer
    [] op = "match_pairs" ->
         /\ p.pairs # <<>>
         /\ \A i \in DOMAIN p.pairs : \E l \in DOMAIN p.left, r \in DOMAIN p.right :
              p.pairs[i] = <<p.left[l].id, p.right[r].id>>
         /\ \A side \in {p.left, p.right} : \A i \in DOMAIN side : Decidable(Texts(side), {i}) \/ Len(side) = 1
    [] op = "categorize" ->
         \A item \in Range(p.items) : \E i \in DOMAIN p.buckets :
           p.buckets[i].id = item.bucket /\ Decidable(Texts(p.buckets), {i})
    [] op = "judge" -> p.sentence # "" /\ (p.correct \/ p.feedback)
    [] op = "build" ->
         /\ Len(p.order) = Len(p.tokens)
         /\ \A token \in Range(p.tokens) : Cardinality({i \in DOMAIN p.order : p.order[i] = token.id}) = 1
    [] op = "find_fix" ->
         /\ Cardinality({i \in DOMAIN p.tokens : p.tokens[i].id = p.error}) = 1
         /\ p.fix # "same" /\ (p.fix = "words" => p.error \in p.changes)
    [] op = "write" -> p.criteria # <<>> /\ p.asks = "norwegian"
=============================================================================
