------------------------------ MODULE MCLessons ------------------------------
(***************************************************************************)
(* Small lessons: two sections and two exercises to begin with, a choice   *)
(* of nodes to insert, and every operation with and without its faults.    *)
(***************************************************************************)
EXTENDS LessonSource

\* Blocks and nodes of a body.
Leaf(kind, says) == [kind |-> kind, says |-> says, anchor |-> FALSE, role |-> "", blocks |-> <<>>]
Box(kind, blocks) == [Leaf(kind, "") EXCEPT !.blocks = blocks]
Asking(block) == [block EXCEPT !.anchor = TRUE]
Stands(block) == [node |-> "block", block |-> block]
Under(id, role, objectives) ==
  [node |-> "heading", id |-> id, role |-> role, objectives |-> objectives, request |-> FALSE]
Mark(handle) == [node |-> "marker", handle |-> handle]

\* A choice between words, each with its form; a list of words by their names.
Listed(texts) == [i \in DOMAIN texts |-> [id |-> <<"a", "b", "c">>[i], text |-> texts[i]]]
Options(texts) ==
  [options |-> [i \in DOMAIN texts |-> [id |-> Listed(texts)[i].id, text |-> texts[i], correct |-> i = 1]]]
Good == <<<<"hus", "">>, <<"bil", "stop">>>>
\* The same word twice, told apart by nothing, its stop, its capitals; a blank.
Faulty ==
  {<<<<"hus", "">>, <<"hus", form>>>> : form \in {"", "stop", "caps"}} \cup {<<<<"hus", "">>, <<"", "">>>>, <<<<"hus", "">>>>}
Blank(id, texts, answer) == [id |-> id, options |-> texts, answer |-> answer]
Fill(target, blanks) == [target |-> target, joined |-> FALSE, blanks |-> blanks]
Match(left, right, pairs) == [left |-> Listed(left), right |-> Listed(right), pairs |-> pairs]
Buckets(texts, bucket) ==
  [buckets |-> Listed(texts), items |-> <<[id |-> "i", text |-> <<"rom", "">>, bucket |-> bucket]>>]
Judging(sentence, correct, feedback) == [sentence |-> sentence, correct |-> correct, feedback |-> feedback]
Build(texts, order, says, cites) == [tokens |-> Listed(texts), order |-> order, says |-> says, cites |-> cites]
Fix(fix, changes, error) ==
  [tokens |-> Listed(Good), error |-> error, feedback |-> TRUE, fix |-> fix, changes |-> changes]
Write(asks, min, max) ==
  [criteria |-> Listed(<<<<"hus", "">>>>), prompt |-> TRUE, min |-> min, max |-> max, asks |-> asks]

Exercise(op, payload) == [handle |-> "h2", id |-> "e2", op |-> op, objective |-> "o2", payload |-> payload]
Working ==
  {Exercise("choose", Options(Good)), Exercise("recall_fill", Fill("eple", <<Blank("a", Good, 1)>>)),
   Exercise("match_pairs", Match(Good, Good, <<<<"a", "b">>, <<"b", "a">>>>)), Exercise("categorize", Buckets(Good, "b")),
   Exercise("judge", Judging("katt", TRUE, FALSE)), Exercise("judge", Judging("katt", FALSE, TRUE)),
   Exercise("build", Build(Good, <<"a", "b">>, "katt", <<"s1", 2>>)), Exercise("find_fix", Fix("words", {"a"}, "a")),
   Exercise("write", Write("norwegian", 1, 2))}
Broken ==
  {Exercise("choose", Options(texts)) : texts \in Faulty}
  \cup {Exercise("recall_fill", Fill(target, <<Blank("a", texts, answer)>>)) :
          target \in {"eple", ""}, texts \in Faulty \cup {Good}, answer \in {2, 3}}
  \cup {Exercise("recall_fill", Fill("eple", [i \in 1..3 |-> Blank(<<"a", "b", "c">>[i], Good, answers[i])])) :
          answers \in {<<1, 1, 1>>, <<1, 2, 1>>}}
  \cup {Exercise("recall_fill", Fill("eple", <<>>)), Exercise("recall_fill", Fill("english", <<Blank("a", Good, 1)>>)),
        Exercise("recall_fill", [Fill("eple", <<Blank("a", Good, 1)>>) EXCEPT !.joined = TRUE])}
  \cup {Exercise("match_pairs", Match(texts, Good, pairs)) :
          texts \in Faulty \cup {Good}, pairs \in {<<>>, <<<<"a", "a">>>>, <<<<"a", "a">>, <<"a", "a">>>>, <<<<"a", "c">>>>}}
  \cup {Exercise("categorize", Buckets(texts, bucket)) : texts \in Faulty \cup {Good}, bucket \in {"a", "c"}}
  \cup {Exercise("judge", Judging(sentence, correct, FALSE)) : sentence \in {"", "tagged", "english"}, correct \in BOOLEAN}
  \cup {Exercise("build", Build(texts, order, says, cites)) :
          texts \in {Good, <<<<"hus", "">>, <<"", "stop">>>>}, order \in {<<"a", "b">>, <<"b", "a">>, <<"a", "a">>, <<"b">>},
          says \in {"katt", "hund"}, cites \in {<<>>, <<"s1", 2>>}}
  \cup {Exercise("find_fix", Fix(fix, {"a"}, error)) : fix \in {"none", "same", "case", "length", "words"}, error \in {"a", "b", "c"}}
  \cup {Exercise("write", Write(asks, 2, max)) : asks \in {"norwegian", "english", "words"}, max \in {0, 1}}
MCLsItems == Working \cup Broken

First == [handle |-> "h1", id |-> "e1", op |-> "recall_fill", objective |-> "o1",
          payload |-> Fill("eple", <<Blank("a", Good, 1)>>)]
\* What is heard and not, in a section, a box and behind an empty box.
MCBody ==
  <<Under("s1", "orient", <<"o1">>), Stands(Leaf("prose", "tekst")), Stands(Leaf("example", "katt")),
    Stands(Box("callout", <<Leaf("example", "hund"), Leaf("prose", "tekst")>>)), Mark("h1"),
    Under("s2", "recap", <<"o2">>), Stands(Leaf("reading", "fugl")), Mark("h2")>>
MCItems == <<First, Exercise("choose", Options(Good))>>
MCLsPackages ==
  {[kind |-> "grammar", objectives |-> <<"o1", "o2">>, body |-> MCBody, items |-> MCItems]}
MCLsObjectives == {<<"o1">>, <<"o2", "o1">>, <<"o1", "o2", "o3">>, <<"o1", "o2", "o1">>}
MCLsStatus == ("wrong: hest" :> "incorrect") @@ ("not normally: hest" :> "caution")

\* Headings, markers and blocks that are welcome, and that are not.
MCLsNodes ==
  {[Under("s3", "contrast", <<"o1">>) EXCEPT !.request = TRUE], Under("s3", "model", <<"o1", "o2">>),
   Under("s1", "orient", <<"o2">>), Under("s3", "", <<"o1">>), Under("s3", "orient", <<"o3">>), Under("s3", "orient", <<>>),
   Mark("h1"), Mark("h3"), [node |-> "partial"]}
  \cup {Stands(block) : block \in
         {Leaf("prose", "tekst"), Asking(Leaf("prose", "skjult")), Leaf("bad", ""), Leaf("status", "incorrect"), Leaf("status", "caution"),
          Leaf("label", "h1"), Leaf("label", "h2"), Box("callout", <<>>), Box("callout", <<Leaf("marker", "h1")>>),
          Box("callout", <<Asking(Leaf("prose", "skjult")), Leaf("example", "hest")>>),
          Box("callout", <<Leaf("prose", "tekst"), Asking(Leaf("prose", "skjult")), Leaf("example", "hest")>>),
          Box("callout", <<Box("callout", <<>>), Leaf("status", "incorrect"), Leaf("example", "hest")>>),
          Leaf("example", "wrong: hest"), [Leaf("example", "hest") EXCEPT !.role = "incorrect"],
          [Leaf("example", "hest") EXCEPT !.role = "model"], Leaf("example", "katt"),
          Leaf("reading", "english"), Leaf("reading", "tagged"),
          Box("examples", <<Leaf("example", "not normally: hest"), Leaf("example", "wrong: hest")>>)}}
=============================================================================
