-------------------------- MODULE Authoring_proofs --------------------------
(***************************************************************************)
(* What the author and the project owner publish, for any lesson, texts,   *)
(* sources, tags and clips, and any number of failures and crashes: drafts *)
(* and what they are committed as, and releases.                           *)
(***************************************************************************)
EXTENDS DraftCommits, Release, SequenceTheorems, TLAPS

(***************************************************************************)
(* Drafts: promotion, discard, Save and accepted texts, and their undoing. *)
(*                                                                         *)
(* A text can be lost only while it is nowhere else: the invariant follows *)
(* what an operation has captured and what it has still to put back.       *)
(***************************************************************************)
\* The paths a transaction may write.
Places == Tracked \union {"pull"}

\* The operations.
Kinds == {"promote", "discard", "save", "accept"}

\* Proposals that pull the canonical package.
Pulls == {DcNone} \union PulledTexts

\* The steps of each kind of operation.
Steps(kind) ==
  CASE kind = "promote" -> {"capture", "enter", "rmcanon", "copy", "copying", "rmdraft", "export",
                            "require", "add", "recheck", "commit", "report", "restore",
                            "rollback", "putback"}
    [] kind = "discard" -> {"capture", "enter", "rmdraft", "require", "add", "recheck", "commit",
                            "report", "restore", "rollback", "putback"}
    [] kind = "save"    -> {"require", "add", "recheck", "commit", "report", "restore", "rollback"}
    [] OTHER            -> {"enter", "write", "origin", "log", "rollback", "putback"}

\* An operation that has captured what it will restore.
Entered == dcOp.kind # "save" /\ dcOp.at \notin {"idle", "capture", "enter"}

\* It is being undone.
Undoing == dcOp.at \in {"rollback", "putback"}

\* What is left to restore.
Lefts(kind) ==
  CASE kind = "promote" -> {<<"draft", "canon", "dist">>, <<"canon", "dist">>, <<"dist">>, <<>>}
    [] kind = "discard" -> {<<"draft">>, <<>>}
    [] kind = "accept"  -> {<<"draft", "pull">>, <<"pull">>, <<>>}
    [] OTHER            -> {<<>>}

\* The paths that are still to be put back.
LeftIn(todo) == {todo[i] : i \in 1..Len(todo)}

\* Each path holds what may be there; a draft was made of a package seen.
TreesFit(trees, seen) ==
  /\ trees = [p \in Places |-> trees[p]]
  /\ trees["draft"] \in Drafts /\ trees["canon"] \in Packages /\ trees["dist"] \in Packages
  /\ trees["pull"] \in Pulls
  /\ trees["draft"] # DcPartial /\ trees["dist"] # DcPartial
  /\ trees["draft"] # DcNone /\ trees["draft"].from # DcNone => trees["draft"].from \in seen

\* An operation is at one of its steps.
OpFits ==
  /\ dcOp.kind \in Kinds \union {"none"} /\ (dcOp.kind = "none") = IsIdle
  /\ dcOp.kind # "none" => dcOp.at \in Steps(dcOp.kind)
  /\ dcOp.made \in BOOLEAN
  /\ dcOp = [kind |-> dcOp.kind, at |-> dcOp.at, head |-> dcOp.head, saved |-> dcOp.saved,
             index |-> dcOp.index, text |-> dcOp.text, todo |-> dcOp.todo, made |-> dcOp.made]

\* The index and the head; each commit is counted.
GitFits ==
  /\ dcIndex = [p \in Tracked |-> dcIndex[p]]
  /\ dcHead = [n |-> dcHead.n, trees |-> [p \in Tracked |-> dcHead.trees[p]]]
  /\ dcHead.n + dcBudget.commits = DcMaxCommits

\* The copies taken when the operation began.
SavedFit ==
  /\ Entered => TreesFit(dcOp.saved, dcSeen)
  /\ Entered /\ ~Undoing => dcOp.todo = Targets(dcOp.kind)
  /\ Entered /\ Undoing => dcOp.todo \in Lefts(dcOp.kind)
  /\ dcOp.at = "putback" => dcOp.todo # <<>>
  /\ ~Entered => dcOp.todo = <<>> /\ dcOp.saved = DcNone

\* What is not left to restore is as it was.
Untouched ==
  Entered => \A p \in Places : dcTree[p] = dcOp.saved[p] \/ p \in LeftIn(dcOp.todo)

\* The text being promoted.
TextFits ==
  dcOp.kind = "promote" =>
    /\ dcOp.text \in DcTexts
    /\ dcOp.at \in {"capture", "enter", "rmcanon", "copy", "copying", "rmdraft"} =>
         IsWhole(dcTree.draft) /\ dcTree.draft.text = dcOp.text
    /\ dcOp.at \in {"capture", "enter", "rmcanon"} => CanonicalUnchanged
    /\ Entered => IsWhole(dcOp.saved.draft) /\ dcOp.saved.draft.text = dcOp.text
    /\ dcOp.at \in {"rmdraft", "export", "require", "add", "recheck", "commit", "report", "restore"} =>
         dcTree.canon = dcOp.text
    /\ dcOp.at \in {"export", "require", "add", "recheck", "commit", "report", "restore"} =>
         dcTree.draft = DcNone
    /\ dcOp.at \in {"require", "add", "recheck", "commit"} => dcTree.dist = dcOp.text
    /\ dcOp.at = "rollback" /\ dcOp.todo = Targets("promote") =>
         \/ IsWhole(dcTree.draft) /\ dcTree.draft.text = dcOp.text
         \/ dcTree.canon = dcOp.text

\* What an accepted text, a discarded draft and a save need is there.
OthersFit ==
  /\ dcOp.kind = "accept" /\ dcOp.at \in {"enter", "write", "origin", "log"} =>
       IsWhole(dcTree.draft) /\ dcTree.pull # DcNone
  /\ dcOp.kind = "discard" /\ dcOp.at \in {"require", "add", "recheck", "commit"} =>
       dcTree.draft = DcNone
  /\ dcOp.kind = "save" => IsWhole(dcTree.draft)

\* The distribution that HEAD holds when a promotion commits.
DistFits ==
  dcOp.kind = "promote" =>
    /\ dcOp.at \in {"capture", "enter"} => dcTree.dist = dcHead.trees.dist
    /\ Entered /\ ~dcOp.made => dcOp.saved.dist = dcHead.trees.dist
    /\ dcOp.made => dcHead.trees.dist = dcHead.trees.canon
    /\ dcOp.made => dcOp.at \in {"report", "restore", "rollback", "putback"}

\* What a failed operation leaves in the index.
IndexFits ==
  Undoing => \/ dcLock \/ dcOp.made \/ dcOp.index = DcNone
             \/ \A p \in Committed(dcOp.kind) : dcIndex[p] = dcOp.index[p]

\* The index is captured before anything is added.
IndexTaken ==
  /\ dcOp.at \in {"capture", "enter", "rmcanon", "copy", "copying", "rmdraft", "export", "write",
                  "origin", "log", "require"} => dcOp.index = DcNone /\ ~dcOp.made
  /\ dcOp.at = "report" => dcOp.made
  /\ dcOp.at \in {"add", "recheck", "commit", "restore"} => dcOp.index = [p \in Tracked |-> dcOp.index[p]]

\* What can be restored is there until the operation has ended.
DraftsInv ==
  /\ TreesFit(dcTree, dcSeen)
  /\ DcTypeOK
  /\ OpFits
  /\ GitFits
  /\ SavedFit
  /\ Untouched
  /\ TextFits
  /\ OthersFit
  /\ DistFits
  /\ IndexFits
  /\ IndexTaken

\* The next path to be put back.
LEMMA TodoFacts ==
  ASSUME NEW kind \in Kinds, NEW todo \in Lefts(kind), todo # <<>>
  PROVE  /\ Tail(todo) \in Lefts(kind)
         /\ Head(todo) \in LeftIn(todo) /\ Head(todo) \in Places
         /\ LeftIn(todo) \subseteq LeftIn(Tail(todo)) \union {Head(todo)}
         /\ Head(todo) = "draft" <=> todo = Targets(kind)
         /\ Tail(todo) # Targets(kind)
         /\ kind = "promote" => Head(todo) # "pull"
         /\ kind = "discard" => Head(todo) = "draft"
         /\ kind = "accept" => Head(todo) \in {"draft", "pull"}
<1>1. kind = "promote" => todo \in {<<"draft", "canon", "dist">>, <<"canon", "dist">>, <<"dist">>}
  BY DEF Lefts
<1>2. kind = "discard" => todo = <<"draft">>
  BY DEF Lefts
<1>3. kind = "accept" => todo \in {<<"draft", "pull">>, <<"pull">>}
  BY DEF Lefts
<1>4. kind # "save"
  BY DEF Lefts
<1>5. CASE kind = "promote" /\ todo = <<"draft", "canon", "dist">>
  BY <1>5 DEF Lefts, LeftIn, Targets, OrderOf, Places, Tracked
<1>6. CASE kind = "promote" /\ todo = <<"canon", "dist">>
  BY <1>6 DEF Lefts, LeftIn, Targets, OrderOf, Places, Tracked
<1>7. CASE kind = "promote" /\ todo = <<"dist">>
  BY <1>7 DEF Lefts, LeftIn, Targets, OrderOf, Places, Tracked
<1>8. CASE kind = "discard" /\ todo = <<"draft">>
  BY <1>8 DEF Lefts, LeftIn, Targets, OrderOf, Places, Tracked
<1>9. CASE kind = "accept" /\ todo = <<"draft", "pull">>
  BY <1>9 DEF Lefts, LeftIn, Targets, OrderOf, Places, Tracked
<1>10. CASE kind = "accept" /\ todo = <<"pull">>
  BY <1>10 DEF Lefts, LeftIn, Targets, OrderOf, Places
<1> QED BY <1>1, <1>2, <1>3, <1>4, <1>5, <1>6, <1>7, <1>8, <1>9, <1>10 DEF Kinds

\* What an operation captures.
LEMMA TargetFacts ==
  /\ Targets("promote") = <<"draft", "canon", "dist">>
  /\ {"draft", "canon", "dist"} \subseteq LeftIn(Targets("promote"))
  /\ "draft" \in LeftIn(Targets("discard"))
  /\ {"draft", "pull"} \subseteq LeftIn(Targets("accept"))
  /\ Targets("save") = <<>>
  /\ \A kind \in Kinds : Targets(kind) \in Lefts(kind)
<1>1. Targets("promote") = <<"draft", "canon", "dist">> /\ Targets("save") = <<>>
      /\ Targets("discard") = <<"draft">> /\ Targets("accept") = <<"draft", "pull">>
  BY DEF Targets, OrderOf
<1>2. {"draft", "canon", "dist"} \subseteq LeftIn(<<"draft", "canon", "dist">>)
  BY DEF LeftIn
<1>3. "draft" \in LeftIn(<<"draft">>) /\ {"draft", "pull"} \subseteq LeftIn(<<"draft", "pull">>)
  BY DEF LeftIn
<1>4. \A kind \in Kinds : Targets(kind) \in Lefts(kind)
  BY <1>1 DEF Kinds, Lefts
<1> QED BY <1>1, <1>2, <1>3, <1>4

\* EditDraft: the author types into a draft, which is created if need be.
LEMMA EditDraftStep ==
  ASSUME DraftCommitsAssumption, DraftsInv, EditDraft
  PROVE  DraftsInv'
<1> USE DraftCommitsAssumption DEF DraftCommitsAssumption
<1>1. TreesFit(dcTree', dcSeen')
  BY DEF DraftsInv, DcTypeOK, TreesFit, OpFits, GitFits, IsIdle, Places, Tracked, Packages,
       Drafts, IsWhole, DraftTexts, PulledTexts, At, EditDraft, DraftOf
<1>2. DcTypeOK'
  BY DEF DraftsInv, DcTypeOK, TreesFit, OpFits, GitFits, IsIdle, Places, Tracked, Packages,
       Drafts, IsWhole, DraftTexts, At, EditDraft, DraftOf
<1>3. OpFits'
  BY DEF DraftsInv, OpFits, IsIdle, EditDraft
<1>4. GitFits'
  BY DEF DraftsInv, GitFits, EditDraft
<1>5. SavedFit'
  BY DEF DraftsInv, IsIdle, Entered, EditDraft, SavedFit
<1>6. Untouched'
  BY DEF IsIdle, Entered, EditDraft, Untouched
<1>7. TextFits'
  BY DEF DraftsInv, OpFits, IsIdle, EditDraft, TextFits
<1>8. OthersFit'
  BY DEF DraftsInv, OpFits, IsIdle, EditDraft, OthersFit
<1>9. DistFits'
  BY DEF DraftsInv, OpFits, IsIdle, EditDraft, DistFits
<1>10. IndexFits'
  BY DEF DraftsInv, Undoing, EditDraft, IndexFits
<1>11. IndexTaken'
  BY DEF DraftsInv, EditDraft, IndexTaken
<1> QED BY <1>1, <1>2, <1>3, <1>4, <1>5, <1>6, <1>7, <1>8, <1>9, <1>10, <1>11 DEF DraftsInv

\* Pull: the canonical package is taken in, or proposed.
LEMMA PullStep ==
  ASSUME DraftCommitsAssumption, DraftsInv, Pull
  PROVE  DraftsInv'
<1> USE DraftCommitsAssumption DEF DraftCommitsAssumption
<1>1. TreesFit(dcTree', dcSeen')
  <2>1. dcTree.draft \in DraftTexts /\ dcTree.canon \in DcTexts
    BY DEF Pull, DraftsInv, TreesFit, Drafts, Packages, IsWhole
  <2>2. CASE /\ dcTree' = [dcTree EXCEPT !.draft.from = dcTree.canon]
             /\ dcSeen' = dcSeen \union {dcTree.canon}
    <3>1. dcTree'.draft = [dcTree.draft EXCEPT !.from = dcTree.canon]
      BY <2>2
    <3>2. dcTree'.draft \in DraftTexts /\ dcTree'.draft.from = dcTree.canon
      BY <2>1, <3>1 DEF DraftTexts
    <3>3. /\ dcTree' = [p \in Places |-> dcTree'[p]]
          /\ \A p \in Places \ {"draft"} : dcTree'[p] = dcTree[p]
      BY <2>2 DEF DraftsInv, TreesFit
    <3> QED BY <2>2, <3>2, <3>3 DEF DraftsInv, TreesFit, Drafts
  <2>3. CASE /\ dcTree' = [dcTree EXCEPT !.pull = [before |-> dcTree.draft.text, after |-> dcTree.canon]]
             /\ dcSeen' = dcSeen
    <3>1. dcTree'.pull \in Pulls
      BY <2>1, <2>3 DEF Pulls, PulledTexts, DraftTexts
    <3>2. /\ dcTree' = [p \in Places |-> dcTree'[p]]
          /\ \A p \in Places \ {"pull"} : dcTree'[p] = dcTree[p]
      BY <2>3 DEF DraftsInv, TreesFit
    <3> QED BY <2>3, <3>1, <3>2 DEF DraftsInv, TreesFit
  <2> QED BY <2>2, <2>3 DEF Pull
<1>2. DcTypeOK'
  BY DEF DraftsInv, DcTypeOK, TreesFit, OpFits, GitFits, IsIdle, Places, Tracked, Packages,
       Drafts, IsWhole, DraftTexts, PulledTexts, At, Pull, DraftOf
<1>3. OpFits'
  BY DEF DraftsInv, OpFits, IsIdle, Pull
<1>4. GitFits'
  BY DEF DraftsInv, GitFits, Pull
<1>5. SavedFit'
  BY DEF DraftsInv, IsIdle, Entered, Pull, SavedFit
<1>6. Untouched'
  BY DEF IsIdle, Entered, Pull, Untouched
<1>7. TextFits'
  BY DEF DraftsInv, OpFits, IsIdle, Pull, TextFits
<1>8. OthersFit'
  BY DEF DraftsInv, OpFits, IsIdle, Pull, OthersFit
<1>9. DistFits'
  BY DEF DraftsInv, OpFits, IsIdle, Pull, DistFits
<1>10. IndexFits'
  BY DEF DraftsInv, Undoing, Pull, IndexFits
<1>11. IndexTaken'
  BY DEF DraftsInv, Pull, IndexTaken
<1> QED BY <1>1, <1>2, <1>3, <1>4, <1>5, <1>6, <1>7, <1>8, <1>9, <1>10, <1>11 DEF DraftsInv

\* RejectPull: it is turned down.
LEMMA RejectPullStep ==
  ASSUME DraftCommitsAssumption, DraftsInv, RejectPull
  PROVE  DraftsInv'
<1> USE DraftCommitsAssumption DEF DraftCommitsAssumption
<1>1. TreesFit(dcTree', dcSeen')
  BY DEF DraftsInv, TreesFit, Pulls, RejectPull
<1>2. DcTypeOK'
  BY DEF DraftsInv, DcTypeOK, IsIdle, RejectPull
<1>3. OpFits'
  BY DEF DraftsInv, OpFits, IsIdle, RejectPull
<1>4. GitFits'
  BY DEF DraftsInv, GitFits, RejectPull
<1>5. SavedFit'
  BY DEF DraftsInv, IsIdle, Entered, RejectPull, SavedFit
<1>6. Untouched'
  BY DEF IsIdle, Entered, RejectPull, Untouched
<1>7. TextFits'
  BY DEF DraftsInv, OpFits, IsIdle, RejectPull, TextFits
<1>8. OthersFit'
  BY DEF IsIdle, RejectPull, OthersFit
<1>9. DistFits'
  BY DEF DraftsInv, OpFits, IsIdle, RejectPull, DistFits
<1>10. IndexFits'
  BY DEF DraftsInv, Undoing, RejectPull, IndexFits
<1>11. IndexTaken'
  BY DEF DraftsInv, RejectPull, IndexTaken
<1> QED BY <1>1, <1>2, <1>3, <1>4, <1>5, <1>6, <1>7, <1>8, <1>9, <1>10, <1>11 DEF DraftsInv

\* CaptureHead: the commit it starts from is noted, or a refusal ends it.
LEMMA CaptureHeadStep ==
  ASSUME DraftCommitsAssumption, DraftsInv, CaptureHead
  PROVE  DraftsInv'
<1> USE DraftCommitsAssumption DEF DraftCommitsAssumption
<1>1. TreesFit(dcTree', dcSeen')
  BY DEF DraftsInv, CaptureHead
<1>2. DcTypeOK'
  <2>1. /\ dcTree'.draft \in Drafts /\ dcTree'.canon \in Packages /\ dcTree'.dist \in Packages
        /\ dcTree'.pull \in {DcNone} \union PulledTexts
    BY <1>1 DEF TreesFit, Pulls
  <2>2. dcHead'.n \in 0..DcMaxCommits /\ dcLock' \in BOOLEAN /\ dcSeen' \subseteq DcTexts
    BY DEF DraftsInv, DcTypeOK, GitAlone, CaptureHead
  <2>3. \A p \in Tracked : dcHead'.trees[p] # DcPartial
    BY DEF DraftsInv, DcTypeOK, GitAlone, CaptureHead
  <2>4. dcBudget' \in [faults : 0..DcMaxFaults, crashes : 0..DcMaxCrashes,
                      commits : 0..DcMaxCommits, ops : 0..DcMaxOps]
    BY DEF DraftsInv, DcTypeOK, CaptureHead
  <2>5. dcOp'.at = "idle" <=> dcOp' = Idle
    <3>1. dcOp' = Idle \/ dcOp'.at = "enter"
      BY DEF DraftsInv, OpFits, DcTypeOK, IsIdle, At, Goes, CaptureHead
    <3> QED BY <3>1 DEF Idle
  <2> QED BY <2>1, <2>2, <2>3, <2>4, <2>5 DEF DcTypeOK, IsIdle
<1>3. OpFits'
  <2>1. CASE dcOp' = Idle
    BY <2>1 DEF OpFits, IsIdle, Idle, CaptureHead
  <2>2. CASE dcOp' = [dcOp EXCEPT !.at = "enter", !.head = dcHead.n]
    BY <2>2 DEF DraftsInv, DcTypeOK, TreesFit, OpFits, GitFits, IsIdle, Places, Tracked, Pulls,
         Packages, Drafts, IsWhole, DraftTexts, PulledTexts, Goes, At, GitAlone, TreesAlone,
         Entered, Undoing, Kinds, Steps, Idle, CaptureHead
  <2> QED BY <2>1, <2>2 DEF CaptureHead
<1>4. GitFits'
  BY DEF DraftsInv, GitFits, GitAlone, CaptureHead
<1>5. SavedFit'
  <2>1. CASE dcOp' = Idle
    BY <2>1 DEF Entered, Idle, CaptureHead, SavedFit
  <2>2. CASE dcOp' = [dcOp EXCEPT !.at = "enter", !.head = dcHead.n]
    BY <2>2 DEF DraftsInv, At, Entered, CaptureHead, SavedFit
  <2> QED BY <2>1, <2>2 DEF CaptureHead
<1>6. Untouched'
  <2>1. CASE dcOp' = Idle
    BY <2>1 DEF Entered, Idle, CaptureHead, Untouched
  <2>2. CASE dcOp' = [dcOp EXCEPT !.at = "enter", !.head = dcHead.n]
    BY <2>2 DEF Entered, CaptureHead, Untouched
  <2> QED BY <2>1, <2>2 DEF CaptureHead
<1>7. TextFits'
  <2>1. CASE dcOp' = Idle
    BY <2>1 DEF Idle, CaptureHead, TextFits
  <2>2. CASE dcOp' = [dcOp EXCEPT !.at = "enter", !.head = dcHead.n]
    BY <2>2 DEF DraftsInv, At, Entered, CaptureHead, TextFits, CanonicalUnchanged, Targets,
         OrderOf
  <2> QED BY <2>1, <2>2 DEF CaptureHead
<1>8. OthersFit'
  <2>1. CASE dcOp' = Idle
    BY <2>1 DEF Idle, CaptureHead, OthersFit
  <2>2. CASE dcOp' = [dcOp EXCEPT !.at = "enter", !.head = dcHead.n]
    BY <2>2 DEF DraftsInv, OpFits, At, Steps, CaptureHead, OthersFit
  <2> QED BY <2>1, <2>2 DEF CaptureHead
<1>9. DistFits'
  <2>1. CASE dcOp' = Idle
    BY <2>1 DEF Idle, CaptureHead, DistFits
  <2>2. CASE dcOp' = [dcOp EXCEPT !.at = "enter", !.head = dcHead.n]
    BY <2>2 DEF DraftsInv, At, GitAlone, Entered, CaptureHead, DistFits, TextFits
  <2> QED BY <2>1, <2>2 DEF CaptureHead
<1>10. IndexFits'
  <2>1. CASE dcOp' = Idle
    BY <2>1 DEF Idle, CaptureHead, IndexFits
  <2>2. CASE dcOp' = [dcOp EXCEPT !.at = "enter", !.head = dcHead.n]
    BY <2>2 DEF DraftsInv, At, CaptureHead, IndexFits, IndexTaken
  <2> QED BY <2>1, <2>2 DEF CaptureHead
<1>11. IndexTaken'
  <2>1. CASE dcOp' = Idle
    BY <2>1 DEF Idle, CaptureHead, IndexTaken
  <2>2. CASE dcOp' = [dcOp EXCEPT !.at = "enter", !.head = dcHead.n]
    BY <2>2 DEF DraftsInv, At, CaptureHead, IndexTaken
  <2> QED BY <2>1, <2>2 DEF CaptureHead
<1> QED BY <1>1, <1>2, <1>3, <1>4, <1>5, <1>6, <1>7, <1>8, <1>9, <1>10, <1>11 DEF DraftsInv

\* EnterTransaction: it copies what it will write.
LEMMA EnterTransactionStep ==
  ASSUME DraftCommitsAssumption, DraftsInv, EnterTransaction
  PROVE  DraftsInv'
<1> USE DraftCommitsAssumption DEF DraftCommitsAssumption
<1>1. TreesFit(dcTree', dcSeen')
  BY DEF DraftsInv, EnterTransaction
<1>2. DcTypeOK'
  BY DEF DraftsInv, DcTypeOK, TreesFit, OpFits, GitFits, IsIdle, Places, Tracked, Pulls, Packages,
       Drafts, IsWhole, DraftTexts, PulledTexts, Goes, At, GitAlone, TreesAlone, Entered, Undoing,
       Kinds, Steps, Idle, EnterTransaction, SavedFit
<1>3. OpFits'
  BY DEF DraftsInv, DcTypeOK, TreesFit, OpFits, GitFits, IsIdle, Places, Tracked, Pulls, Packages,
       Drafts, IsWhole, DraftTexts, PulledTexts, Goes, At, GitAlone, TreesAlone, Entered, Undoing,
       Kinds, Steps, Idle, EnterTransaction, SavedFit
<1>4. GitFits'
  BY DEF DraftsInv, GitFits, GitAlone, EnterTransaction
<1>5. SavedFit'
  BY DEF DraftsInv, OpFits, At, Entered, Steps, EnterTransaction, SavedFit, Lefts, Targets,
       OrderOf
<1>6. Untouched'
  BY DEF EnterTransaction, Untouched
<1>7. TextFits'
  BY DEF DraftsInv, At, EnterTransaction, TextFits, CanonicalUnchanged
<1>8. OthersFit'
  BY DEF DraftsInv, At, EnterTransaction, OthersFit
<1>9. DistFits'
  BY DEF DraftsInv, At, GitAlone, EnterTransaction, DistFits
<1>10. IndexFits'
  BY DEF DraftsInv, At, EnterTransaction, IndexFits, IndexTaken
<1>11. IndexTaken'
  BY DEF DraftsInv, At, EnterTransaction, IndexTaken
<1> QED BY <1>1, <1>2, <1>3, <1>4, <1>5, <1>6, <1>7, <1>8, <1>9, <1>10, <1>11 DEF DraftsInv

\* RemoveCanonical: the old package goes.
LEMMA RemoveCanonicalStep ==
  ASSUME DraftCommitsAssumption, DraftsInv, RemoveCanonical
  PROVE  DraftsInv'
<1> USE DraftCommitsAssumption DEF DraftCommitsAssumption
<1>1. TreesFit(dcTree', dcSeen')
  BY DEF DraftsInv, DcTypeOK, TreesFit, OpFits, Packages, Drafts, IsWhole, DraftTexts,
       PulledTexts, GitAlone, TreesAlone, Idle, RemoveCanonical, Sets
<1>2. DcTypeOK'
  BY DEF DraftsInv, DcTypeOK, TreesFit, OpFits, GitFits, IsIdle, Packages, Goes, GitAlone, Idle,
       RemoveCanonical, Sets
<1>3. OpFits'
  BY DEF DraftsInv, OpFits, IsIdle, Goes, At, Steps, RemoveCanonical, Sets
<1>4. GitFits'
  BY DEF DraftsInv, GitFits, GitAlone, RemoveCanonical, Sets
<1>5. SavedFit'
  BY DEF DraftsInv, Goes, At, Entered, Undoing, RemoveCanonical, Sets, SavedFit, Lefts, Targets,
       OrderOf
<1>6. Untouched'
  <2>1. /\ dcOp'.saved = dcOp.saved /\ dcOp'.todo = dcOp.todo /\ Entered
        /\ \A p \in Places : p # "canon" => dcTree'[p] = dcTree[p]
    BY DEF DraftsInv, DcTypeOK, OpFits, Goes, At, Entered, Steps, RemoveCanonical, Sets
  <2>2. "canon" \in LeftIn(dcOp.todo)
    BY TargetFacts DEF DraftsInv, OpFits, IsIdle, At, Entered, Undoing, Steps, RemoveCanonical,
         Sets, SavedFit
  <2> QED BY <2>1, <2>2 DEF DraftsInv, Untouched
<1>7. TextFits'
  BY DEF DraftsInv, Goes, At, Entered, RemoveCanonical, Sets, TextFits, CanonicalUnchanged,
       Targets, OrderOf, Lefts
<1>8. OthersFit'
  BY DEF DraftsInv, Goes, RemoveCanonical, Sets, OthersFit
<1>9. DistFits'
  BY DEF DraftsInv, DcTypeOK, OpFits, Goes, At, GitAlone, Entered, RemoveCanonical, Sets,
       DistFits, SavedFit, TextFits
<1>10. IndexFits'
  BY DEF DraftsInv, Goes, At, RemoveCanonical, Sets, IndexFits, IndexTaken
<1>11. IndexTaken'
  BY DEF DraftsInv, Goes, At, RemoveCanonical, Sets, IndexTaken
<1> QED BY <1>1, <1>2, <1>3, <1>4, <1>5, <1>6, <1>7, <1>8, <1>9, <1>10, <1>11 DEF DraftsInv

\* CopyStarts: the draft is copied to its place.
LEMMA CopyStartsStep ==
  ASSUME DraftCommitsAssumption, DraftsInv, CopyStarts
  PROVE  DraftsInv'
<1> USE DraftCommitsAssumption DEF DraftCommitsAssumption
<1>1. TreesFit(dcTree', dcSeen')
  BY DEF DraftsInv, DcTypeOK, TreesFit, OpFits, Packages, Drafts, IsWhole, DraftTexts,
       PulledTexts, GitAlone, TreesAlone, Idle, CopyStarts, Sets
<1>2. DcTypeOK'
  BY DEF DraftsInv, DcTypeOK, TreesFit, OpFits, GitFits, IsIdle, Packages, Goes, GitAlone, Idle,
       CopyStarts, Sets
<1>3. OpFits'
  BY DEF DraftsInv, OpFits, IsIdle, Goes, At, Steps, CopyStarts, Sets
<1>4. GitFits'
  BY DEF DraftsInv, GitFits, GitAlone, CopyStarts, Sets
<1>5. SavedFit'
  BY DEF DraftsInv, Goes, At, Entered, Undoing, CopyStarts, Sets, SavedFit, Lefts, Targets,
       OrderOf
<1>6. Untouched'
  <2>1. /\ dcOp'.saved = dcOp.saved /\ dcOp'.todo = dcOp.todo /\ Entered
        /\ \A p \in Places : p # "canon" => dcTree'[p] = dcTree[p]
    BY DEF DraftsInv, DcTypeOK, OpFits, Goes, At, Entered, Steps, CopyStarts, Sets
  <2>2. "canon" \in LeftIn(dcOp.todo)
    BY TargetFacts DEF DraftsInv, OpFits, IsIdle, At, Entered, Undoing, Steps, CopyStarts, Sets,
         SavedFit
  <2> QED BY <2>1, <2>2 DEF DraftsInv, Untouched
<1>7. TextFits'
  BY DEF DraftsInv, Goes, At, Entered, CopyStarts, Sets, TextFits, CanonicalUnchanged, Targets,
       OrderOf, Lefts
<1>8. OthersFit'
  BY DEF DraftsInv, Goes, CopyStarts, Sets, OthersFit
<1>9. DistFits'
  BY DEF DraftsInv, DcTypeOK, OpFits, Goes, At, GitAlone, Entered, CopyStarts, Sets, DistFits,
       SavedFit, TextFits
<1>10. IndexFits'
  BY DEF DraftsInv, Goes, At, CopyStarts, Sets, IndexFits, IndexTaken
<1>11. IndexTaken'
  BY DEF DraftsInv, Goes, At, CopyStarts, Sets, IndexTaken
<1> QED BY <1>1, <1>2, <1>3, <1>4, <1>5, <1>6, <1>7, <1>8, <1>9, <1>10, <1>11 DEF DraftsInv

\* CopyEnds: the copy is whole.
LEMMA CopyEndsStep ==
  ASSUME DraftCommitsAssumption, DraftsInv, CopyEnds
  PROVE  DraftsInv'
<1> USE DraftCommitsAssumption DEF DraftCommitsAssumption
<1>1. TreesFit(dcTree', dcSeen')
  BY DEF DraftsInv, DcTypeOK, TreesFit, OpFits, GitFits, IsIdle, Pulls, Packages, Drafts, IsWhole,
       DraftTexts, PulledTexts, At, GitAlone, TreesAlone, Steps, Idle, CopyEnds, Sets, OthersFit,
       TextFits
<1>2. DcTypeOK'
  <2>1. /\ dcTree'.draft \in Drafts /\ dcTree'.canon \in Packages /\ dcTree'.dist \in Packages
        /\ dcTree'.pull \in {DcNone} \union PulledTexts
    BY <1>1 DEF TreesFit, Pulls
  <2>2. dcHead'.n \in 0..DcMaxCommits /\ dcLock' \in BOOLEAN /\ dcSeen' \subseteq DcTexts
    BY DEF DraftsInv, DcTypeOK, GitAlone, CopyEnds, Sets
  <2>3. \A p \in Tracked : dcHead'.trees[p] # DcPartial
    BY DEF DraftsInv, DcTypeOK, GitAlone, CopyEnds, Sets
  <2>4. dcBudget' \in [faults : 0..DcMaxFaults, crashes : 0..DcMaxCrashes,
                      commits : 0..DcMaxCommits, ops : 0..DcMaxOps]
    BY DEF DraftsInv, DcTypeOK, CopyEnds, Sets
  <2>5. dcOp'.at = "idle" <=> dcOp' = Idle
    BY DEF Goes, Idle, CopyEnds, Sets
  <2> QED BY <2>1, <2>2, <2>3, <2>4, <2>5 DEF DcTypeOK, IsIdle
<1>3. OpFits'
  BY DEF DraftsInv, DcTypeOK, OpFits, IsIdle, Packages, PulledTexts, Goes, At, Steps, CopyEnds,
       Sets, OthersFit, TextFits
<1>4. GitFits'
  BY DEF DraftsInv, GitFits, GitAlone, CopyEnds, Sets
<1>5. SavedFit'
  BY DEF DraftsInv, Goes, At, Entered, Undoing, CopyEnds, Sets, SavedFit, Lefts, Targets, OrderOf,
       OthersFit, TextFits
<1>6. Untouched'
  <2>1. /\ dcOp'.saved = dcOp.saved /\ dcOp'.todo = dcOp.todo /\ Entered
        /\ \A p \in Places : p # "canon" => dcTree'[p] = dcTree[p]
    BY DEF DraftsInv, DcTypeOK, OpFits, Goes, At, Entered, Steps, CopyEnds, Sets, OthersFit,
         TextFits
  <2>2. "canon" \in LeftIn(dcOp.todo)
    BY TargetFacts DEF DraftsInv, OpFits, IsIdle, At, Entered, Undoing, Steps, CopyEnds, Sets,
         OthersFit, TextFits, SavedFit
  <2> QED BY <2>1, <2>2 DEF DraftsInv, Untouched
<1>7. TextFits'
  BY DEF DraftsInv, DcTypeOK, TreesFit, OpFits, Places, Tracked, Goes, At, Entered, CopyEnds,
       Sets, TextFits, SavedFit, CanonicalUnchanged, Targets, OrderOf, Lefts, OthersFit
<1>8. OthersFit'
  BY DEF DraftsInv, Goes, CopyEnds, Sets, OthersFit
<1>9. DistFits'
  BY DEF DraftsInv, DcTypeOK, OpFits, Goes, At, GitAlone, Entered, CopyEnds, Sets, DistFits,
       SavedFit, TextFits, OthersFit
<1>10. IndexFits'
  BY DEF DraftsInv, Goes, At, CopyEnds, Sets, IndexFits, IndexTaken, Committed
<1>11. IndexTaken'
  BY DEF DraftsInv, Goes, At, CopyEnds, Sets, IndexTaken
<1> QED BY <1>1, <1>2, <1>3, <1>4, <1>5, <1>6, <1>7, <1>8, <1>9, <1>10, <1>11 DEF DraftsInv

\* RemoveDraft: the draft goes.
LEMMA RemoveDraftStep ==
  ASSUME DraftCommitsAssumption, DraftsInv, RemoveDraft
  PROVE  DraftsInv'
<1> USE DraftCommitsAssumption DEF DraftCommitsAssumption
<1>1. TreesFit(dcTree', dcSeen')
  BY DEF DraftsInv, DcTypeOK, TreesFit, OpFits, Packages, Drafts, IsWhole, DraftTexts,
       PulledTexts, GitAlone, TreesAlone, Idle, RemoveDraft, Sets
<1>2. DcTypeOK'
  BY DEF DraftsInv, DcTypeOK, TreesFit, OpFits, GitFits, IsIdle, Drafts, Goes, GitAlone, Idle,
       RemoveDraft, Sets
<1>3. OpFits'
  BY DEF DraftsInv, OpFits, IsIdle, Goes, At, Steps, RemoveDraft, Sets
<1>4. GitFits'
  BY DEF DraftsInv, GitFits, GitAlone, RemoveDraft, Sets
<1>5. SavedFit'
  BY DEF DraftsInv, Goes, At, Entered, Undoing, RemoveDraft, Sets, SavedFit, Lefts, Targets,
       OrderOf
<1>6. Untouched'
  <2>1. /\ dcOp'.saved = dcOp.saved /\ dcOp'.todo = dcOp.todo /\ Entered
        /\ \A p \in Places : p # "draft" => dcTree'[p] = dcTree[p]
    BY DEF DraftsInv, DcTypeOK, OpFits, Goes, At, Entered, Steps, RemoveDraft, Sets
  <2>2. "draft" \in LeftIn(dcOp.todo)
    BY TargetFacts DEF DraftsInv, OpFits, IsIdle, At, Entered, Undoing, Steps, RemoveDraft, Sets,
         SavedFit
  <2> QED BY <2>1, <2>2 DEF DraftsInv, Untouched
<1>7. TextFits'
  BY DEF DraftsInv, DcTypeOK, TreesFit, OpFits, Places, Tracked, Goes, At, Entered, RemoveDraft,
       Sets, TextFits, SavedFit, CanonicalUnchanged, Targets, OrderOf, Lefts
<1>8. OthersFit'
  BY DEF DraftsInv, DcTypeOK, TreesFit, OpFits, Places, Tracked, Goes, At, Steps, RemoveDraft,
       Sets, OthersFit
<1>9. DistFits'
  BY DEF DraftsInv, DcTypeOK, OpFits, Goes, At, GitAlone, Entered, RemoveDraft, Sets, DistFits,
       SavedFit, TextFits
<1>10. IndexFits'
  BY DEF DraftsInv, Goes, At, RemoveDraft, Sets, IndexFits, IndexTaken
<1>11. IndexTaken'
  BY DEF DraftsInv, Goes, At, RemoveDraft, Sets, IndexTaken
<1> QED BY <1>1, <1>2, <1>3, <1>4, <1>5, <1>6, <1>7, <1>8, <1>9, <1>10, <1>11 DEF DraftsInv

\* Export: the exported package is made anew.
LEMMA ExportStep ==
  ASSUME DraftCommitsAssumption, DraftsInv, Export
  PROVE  DraftsInv'
<1> USE DraftCommitsAssumption DEF DraftCommitsAssumption
<1>1. TreesFit(dcTree', dcSeen')
  BY DEF DraftsInv, DcTypeOK, TreesFit, OpFits, GitFits, IsIdle, Pulls, Packages, Drafts, IsWhole,
       DraftTexts, PulledTexts, At, GitAlone, TreesAlone, Steps, Idle, Export, Sets, OthersFit,
       TextFits
<1>2. DcTypeOK'
  BY DEF DraftsInv, DcTypeOK, IsIdle, Goes, GitAlone, Idle, Export, Sets, OthersFit, TextFits
<1>3. OpFits'
  BY DEF DraftsInv, OpFits, IsIdle, Goes, At, Steps, Export, Sets, OthersFit
<1>4. GitFits'
  BY DEF DraftsInv, GitFits, GitAlone, Export, Sets
<1>5. SavedFit'
  BY DEF DraftsInv, Goes, At, Entered, Undoing, Export, Sets, SavedFit, Lefts, Targets, OrderOf,
       OthersFit, TextFits
<1>6. Untouched'
  <2>1. /\ dcOp'.saved = dcOp.saved /\ dcOp'.todo = dcOp.todo /\ Entered
        /\ \A p \in Places : p # "dist" => dcTree'[p] = dcTree[p]
    BY DEF DraftsInv, DcTypeOK, OpFits, Goes, At, Entered, Steps, Export, Sets, OthersFit,
         TextFits
  <2>2. "dist" \in LeftIn(dcOp.todo)
    BY TargetFacts DEF DraftsInv, OpFits, IsIdle, At, Entered, Undoing, Steps, Export, Sets,
         OthersFit, TextFits, SavedFit
  <2> QED BY <2>1, <2>2 DEF DraftsInv, Untouched
<1>7. TextFits'
  <2>1. /\ dcOp'.at = "require" /\ dcOp.at = "export" /\ dcOp'.kind = dcOp.kind
        /\ dcOp'.text = dcOp.text /\ dcOp'.saved = dcOp.saved /\ dcOp'.todo = dcOp.todo
    BY DEF Export, Sets, Goes, At
  <2>2. /\ dcTree'.dist = dcTree.canon /\ dcTree'.canon = dcTree.canon
        /\ dcTree'.draft = dcTree.draft
    BY DEF Export, Sets, DraftsInv, TreesFit, Places, Tracked
  <2> QED BY <2>1, <2>2 DEF DraftsInv, TextFits, Entered
<1>8. OthersFit'
  BY DEF DraftsInv, OpFits, Goes, At, Steps, Export, Sets, OthersFit
<1>9. DistFits'
  BY DEF DraftsInv, DcTypeOK, OpFits, Goes, At, GitAlone, Entered, Export, Sets, DistFits,
       SavedFit, TextFits, OthersFit
<1>10. IndexFits'
  BY DEF DraftsInv, Goes, At, Export, Sets, IndexFits, IndexTaken, Committed
<1>11. IndexTaken'
  BY DEF DraftsInv, Goes, At, Export, Sets, IndexTaken
<1> QED BY <1>1, <1>2, <1>3, <1>4, <1>5, <1>6, <1>7, <1>8, <1>9, <1>10, <1>11 DEF DraftsInv

\* AcceptText: the proposed text is written to the draft.
LEMMA AcceptTextStep ==
  ASSUME DraftCommitsAssumption, DraftsInv, AcceptText
  PROVE  DraftsInv'
<1> USE DraftCommitsAssumption DEF DraftCommitsAssumption
<1>1. TreesFit(dcTree', dcSeen')
  <2>1. dcTree.draft \in DraftTexts /\ dcTree.pull \in PulledTexts
    BY DEF AcceptText, Sets, At, DraftsInv, OthersFit, OpFits, IsIdle, Kinds, Steps, TreesFit,
         Drafts, Pulls, IsWhole
  <2>2. DraftOf(dcTree.pull.after, dcTree.draft.from) \in DraftTexts
    BY <2>1 DEF DraftOf, DraftTexts, PulledTexts
  <2>3. /\ dcTree' = [dcTree EXCEPT !["draft"] = DraftOf(dcTree.pull.after, dcTree.draft.from)]
        /\ dcSeen' = dcSeen
    BY DEF AcceptText, Sets
  <2>4. dcTree'.draft.from = dcTree.draft.from /\ dcTree'.draft \in DraftTexts
    BY <2>2, <2>3 DEF DraftsInv, TreesFit, Places, Tracked, DraftOf
  <2>5. /\ dcTree' = [p \in Places |-> dcTree'[p]]
        /\ \A p \in Places \ {"draft"} : dcTree'[p] = dcTree[p]
    BY <2>3 DEF DraftsInv, TreesFit
  <2> QED BY <2>1, <2>3, <2>4, <2>5 DEF DraftsInv, TreesFit, Drafts
<1>2. DcTypeOK'
  BY DEF DraftsInv, DcTypeOK, TreesFit, OpFits, GitFits, IsIdle, Tracked, Drafts, IsWhole,
       DraftTexts, PulledTexts, Goes, At, GitAlone, Entered, Undoing, Kinds, Steps, Idle,
       AcceptText, Sets, DraftOf, OthersFit, TextFits
<1>3. OpFits'
  BY DEF DraftsInv, OpFits, IsIdle, Goes, At, Steps, AcceptText, Sets, DraftOf, OthersFit
<1>4. GitFits'
  BY DEF DraftsInv, GitFits, GitAlone, AcceptText, Sets, DraftOf
<1>5. SavedFit'
  BY DEF DraftsInv, Goes, At, Entered, Undoing, AcceptText, Sets, DraftOf, SavedFit, Lefts,
       Targets, OrderOf, OthersFit, TextFits
<1>6. Untouched'
  <2>1. /\ dcOp'.saved = dcOp.saved /\ dcOp'.todo = dcOp.todo /\ Entered
        /\ \A p \in Places : p # "draft" => dcTree'[p] = dcTree[p]
    BY DEF DraftsInv, DcTypeOK, OpFits, Goes, At, Entered, Steps, AcceptText, Sets, DraftOf,
         OthersFit, TextFits
  <2>2. "draft" \in LeftIn(dcOp.todo)
    BY TargetFacts DEF DraftsInv, DcTypeOK, OpFits, IsIdle, At, Entered, Undoing, Kinds, Steps,
         AcceptText, Sets, DraftOf, OthersFit, TextFits, SavedFit
  <2> QED BY <2>1, <2>2 DEF DraftsInv, Untouched
<1>7. TextFits'
  BY DEF DraftsInv, Goes, At, Entered, AcceptText, Sets, DraftOf, TextFits, CanonicalUnchanged,
       Targets, OrderOf, Lefts, OthersFit
<1>8. OthersFit'
  BY DEF DraftsInv, DcTypeOK, TreesFit, OpFits, GitFits, IsWhole, DraftTexts, PulledTexts, Goes,
       At, Steps, AcceptText, Sets, DraftOf, OthersFit, TextFits
<1>9. DistFits'
  BY DEF DraftsInv, OpFits, Goes, At, Steps, AcceptText, Sets, DraftOf, DistFits, TextFits,
       OthersFit
<1>10. IndexFits'
  BY DEF DraftsInv, Goes, At, AcceptText, Sets, DraftOf, IndexFits, IndexTaken, Committed
<1>11. IndexTaken'
  BY DEF DraftsInv, Goes, At, AcceptText, Sets, DraftOf, IndexTaken
<1> QED BY <1>1, <1>2, <1>3, <1>4, <1>5, <1>6, <1>7, <1>8, <1>9, <1>10, <1>11 DEF DraftsInv

\* AcceptOrigin: the package it came from is noted.
LEMMA AcceptOriginStep ==
  ASSUME DraftCommitsAssumption, DraftsInv, AcceptOrigin
  PROVE  DraftsInv'
<1> USE DraftCommitsAssumption DEF DraftCommitsAssumption
<1>1. TreesFit(dcTree', dcSeen')
  BY DEF DraftsInv, DcTypeOK, TreesFit, OpFits, GitFits, IsIdle, Places, Tracked, Packages,
       Drafts, IsWhole, DraftTexts, PulledTexts, At, Kinds, Steps, AcceptOrigin, PulledOrigin,
       OthersFit, TextFits
<1>2. DcTypeOK'
  BY DEF DraftsInv, DcTypeOK, TreesFit, OpFits, GitFits, IsIdle, Places, Tracked, Drafts, IsWhole,
       DraftTexts, PulledTexts, Goes, At, GitAlone, Entered, Undoing, Kinds, Steps, Idle,
       AcceptOrigin, PulledOrigin, OthersFit, TextFits
<1>3. OpFits'
  BY DEF DraftsInv, OpFits, IsIdle, Goes, At, Steps, AcceptOrigin, PulledOrigin, OthersFit
<1>4. GitFits'
  BY DEF DraftsInv, GitFits, GitAlone, AcceptOrigin, PulledOrigin
<1>5. SavedFit'
  BY DEF DraftsInv, TreesFit, Goes, At, Entered, Undoing, AcceptOrigin, PulledOrigin, SavedFit,
       Lefts, Targets, OrderOf, OthersFit, TextFits
<1>6. Untouched'
  <2>1. /\ dcOp'.saved = dcOp.saved /\ dcOp'.todo = dcOp.todo /\ Entered
        /\ \A p \in Places : p # "draft" => dcTree'[p] = dcTree[p]
    BY DEF AcceptOrigin, DraftsInv, OpFits, TreesFit, Goes, At, Entered, Steps
  <2>2. "draft" \in LeftIn(dcOp.todo)
    BY TargetFacts DEF AcceptOrigin, DraftsInv, OpFits, SavedFit, Entered, Undoing, At, Steps,
         Kinds, IsIdle
  <2> QED BY <2>1, <2>2 DEF DraftsInv, Untouched
<1>7. TextFits'
  BY DEF DraftsInv, Goes, At, Entered, AcceptOrigin, PulledOrigin, TextFits, CanonicalUnchanged,
       Targets, OrderOf, Lefts, OthersFit
<1>8. OthersFit'
  BY DEF DraftsInv, DcTypeOK, TreesFit, OpFits, GitFits, IsIdle, Places, Tracked, Drafts, IsWhole,
       DraftTexts, PulledTexts, Goes, At, Kinds, Steps, AcceptOrigin, PulledOrigin, OthersFit,
       TextFits
<1>9. DistFits'
  BY DEF DraftsInv, OpFits, Goes, At, Steps, AcceptOrigin, PulledOrigin, DistFits, TextFits,
       OthersFit
<1>10. IndexFits'
  BY DEF DraftsInv, Goes, At, AcceptOrigin, PulledOrigin, IndexFits, IndexTaken, Committed
<1>11. IndexTaken'
  BY DEF DraftsInv, Goes, At, AcceptOrigin, PulledOrigin, IndexTaken
<1> QED BY <1>1, <1>2, <1>3, <1>4, <1>5, <1>6, <1>7, <1>8, <1>9, <1>10, <1>11 DEF DraftsInv

\* AcceptLog: the proposal is closed.
LEMMA AcceptLogStep ==
  ASSUME DraftCommitsAssumption, DraftsInv, AcceptLog
  PROVE  DraftsInv'
<1> USE DraftCommitsAssumption DEF DraftCommitsAssumption
<1>1. TreesFit(dcTree', dcSeen')
  BY DEF DraftsInv, TreesFit, Pulls, AcceptLog
<1>2. DcTypeOK'
  BY DEF DraftsInv, DcTypeOK, IsIdle, GitAlone, Idle, AcceptLog, OthersFit
<1>3. OpFits'
  BY DEF OpFits, IsIdle, Idle, AcceptLog
<1>4. GitFits'
  BY DEF DraftsInv, GitFits, GitAlone, AcceptLog
<1>5. SavedFit'
  BY DEF Entered, Idle, AcceptLog, SavedFit
<1>6. Untouched'
  BY DEF Entered, Idle, AcceptLog, Untouched
<1>7. TextFits'
  BY DEF Idle, AcceptLog, TextFits
<1>8. OthersFit'
  BY DEF Idle, AcceptLog, OthersFit
<1>9. DistFits'
  BY DEF Idle, AcceptLog, DistFits
<1>10. IndexFits'
  BY DEF Idle, AcceptLog, IndexFits
<1>11. IndexTaken'
  BY DEF Idle, AcceptLog, IndexTaken
<1> QED BY <1>1, <1>2, <1>3, <1>4, <1>5, <1>6, <1>7, <1>8, <1>9, <1>10, <1>11 DEF DraftsInv

\* RequireCommit: HEAD has not moved and the index is captured, or it is undone.
LEMMA RequireCommitStep ==
  ASSUME DraftCommitsAssumption, DraftsInv, RequireCommit
  PROVE  DraftsInv'
<1> USE DraftCommitsAssumption DEF DraftCommitsAssumption
<1>1. TreesFit(dcTree', dcSeen')
  BY DEF DraftsInv, RequireCommit
<1>2. DcTypeOK'
  <2>1. /\ dcTree'.draft \in Drafts /\ dcTree'.canon \in Packages /\ dcTree'.dist \in Packages
        /\ dcTree'.pull \in {DcNone} \union PulledTexts
    BY <1>1 DEF TreesFit, Pulls
  <2>2. dcHead'.n \in 0..DcMaxCommits /\ dcLock' \in BOOLEAN /\ dcSeen' \subseteq DcTexts
    BY DEF DraftsInv, DcTypeOK, GitAlone, RequireCommit
  <2>3. \A p \in Tracked : dcHead'.trees[p] # DcPartial
    BY DEF DraftsInv, DcTypeOK, GitAlone, RequireCommit
  <2>4. dcBudget' \in [faults : 0..DcMaxFaults, crashes : 0..DcMaxCrashes,
                      commits : 0..DcMaxCommits, ops : 0..DcMaxOps]
    BY DEF DraftsInv, DcTypeOK, RequireCommit
  <2>5. dcOp'.at = "idle" <=> dcOp' = Idle
    <3>1. dcOp'.at # "idle"
      BY DEF DraftsInv, OpFits, DcTypeOK, IsIdle, At, Goes, RequireCommit
    <3> QED BY <3>1 DEF Idle
  <2> QED BY <2>1, <2>2, <2>3, <2>4, <2>5 DEF DcTypeOK, IsIdle
<1>3. OpFits'
  BY DEF DraftsInv, DcTypeOK, TreesFit, OpFits, GitFits, IsIdle, Places, Tracked, Pulls, Packages,
       Drafts, IsWhole, DraftTexts, PulledTexts, Goes, At, GitAlone, TreesAlone, Entered, Undoing,
       Kinds, Steps, Idle, RequireCommit
<1>4. GitFits'
  BY DEF DraftsInv, GitFits, GitAlone, RequireCommit
<1>5. SavedFit'
  <2>1. /\ dcOp'.at \in {"add", "rollback"} /\ dcOp'.kind = dcOp.kind /\ dcOp.at = "require"
        /\ dcOp'.saved = dcOp.saved /\ dcOp'.todo = dcOp.todo /\ dcSeen' = dcSeen
    BY DEF RequireCommit, DraftsInv, OpFits, Goes, At
  <2>2. dcOp.kind \in Kinds
    BY <2>1 DEF DraftsInv, OpFits, IsIdle
  <2> QED BY <2>1, <2>2, TargetFacts DEF DraftsInv, SavedFit, Entered, Undoing
<1>6. Untouched'
  BY DEF DraftsInv, DcTypeOK, TreesFit, OpFits, GitFits, IsIdle, Places, Tracked, Pulls, Packages,
       Drafts, IsWhole, DraftTexts, PulledTexts, Goes, At, GitAlone, TreesAlone, Entered, Undoing,
       Kinds, Steps, Idle, RequireCommit, Untouched, SavedFit
<1>7. TextFits'
  BY DEF DraftsInv, DcTypeOK, TreesFit, OpFits, GitFits, IsIdle, Places, Tracked, Pulls, Packages,
       Drafts, IsWhole, DraftTexts, PulledTexts, Goes, At, GitAlone, TreesAlone, Entered, Undoing,
       Kinds, Steps, Idle, RequireCommit, TextFits, SavedFit, CanonicalUnchanged, Targets,
       OrderOf, Lefts
<1>8. OthersFit'
  BY DEF DraftsInv, DcTypeOK, TreesFit, OpFits, GitFits, IsIdle, Places, Tracked, Pulls, Packages,
       Drafts, IsWhole, DraftTexts, PulledTexts, Goes, At, GitAlone, TreesAlone, Entered, Undoing,
       Kinds, Steps, Idle, RequireCommit, OthersFit
<1>9. DistFits'
  BY DEF DraftsInv, DcTypeOK, TreesFit, OpFits, GitFits, IsIdle, Places, Tracked, Pulls, Packages,
       Drafts, IsWhole, DraftTexts, PulledTexts, Goes, At, GitAlone, TreesAlone, Entered, Undoing,
       Kinds, Steps, Idle, RequireCommit, DistFits, SavedFit, TextFits
<1>10. IndexFits'
  BY DEF DraftsInv, DcTypeOK, TreesFit, OpFits, GitFits, IsIdle, Places, Tracked, Pulls, Packages,
       Drafts, IsWhole, DraftTexts, PulledTexts, Goes, At, GitAlone, TreesAlone, Entered, Undoing,
       Kinds, Steps, Idle, RequireCommit, IndexFits, IndexTaken, Committed
<1>11. IndexTaken'
  BY DEF DraftsInv, DcTypeOK, TreesFit, OpFits, GitFits, IsIdle, Places, Tracked, Pulls, Packages,
       Drafts, IsWhole, DraftTexts, PulledTexts, Goes, At, GitAlone, TreesAlone, Entered, Undoing,
       Kinds, Steps, Idle, RequireCommit, IndexTaken
<1> QED BY <1>1, <1>2, <1>3, <1>4, <1>5, <1>6, <1>7, <1>8, <1>9, <1>10, <1>11 DEF DraftsInv

\* AddPaths: the paths are added to the index.
LEMMA AddPathsStep ==
  ASSUME DraftCommitsAssumption, DraftsInv, AddPaths
  PROVE  DraftsInv'
<1> USE DraftCommitsAssumption DEF DraftCommitsAssumption
<1>1. TreesFit(dcTree', dcSeen')
  BY DEF DraftsInv, AddPaths, Stage
<1>2. DcTypeOK'
  BY DEF DraftsInv, DcTypeOK, IsIdle, Goes, Idle, AddPaths, Stage, CommitPaths, OthersFit,
       TextFits
<1>3. OpFits'
  BY DEF DraftsInv, DcTypeOK, OpFits, IsIdle, DraftTexts, Goes, At, Steps, AddPaths, Stage,
       CommitPaths, OthersFit, TextFits
<1>4. GitFits'
  BY DEF DraftsInv, GitFits, AddPaths, Stage
<1>5. SavedFit'
  BY DEF DraftsInv, Goes, At, Entered, Undoing, AddPaths, Stage, CommitPaths, SavedFit, Lefts,
       Targets, OrderOf, OthersFit, TextFits
<1>6. Untouched'
  BY DEF DraftsInv, Goes, At, Entered, AddPaths, Stage, CommitPaths, Untouched, OthersFit,
       TextFits
<1>7. TextFits'
  BY DEF DraftsInv, Goes, At, Entered, AddPaths, Stage, CommitPaths, TextFits, CanonicalUnchanged,
       Targets, OrderOf, Lefts, OthersFit
<1>8. OthersFit'
  BY DEF DraftsInv, Goes, At, AddPaths, Stage, OthersFit
<1>9. DistFits'
  BY DEF DraftsInv, Goes, At, Entered, AddPaths, Stage, CommitPaths, DistFits, TextFits, OthersFit
<1>10. IndexFits'
  BY DEF Goes, Undoing, AddPaths, Stage, IndexFits
<1>11. IndexTaken'
  BY DEF DraftsInv, Goes, At, AddPaths, Stage, CommitPaths, IndexTaken
<1> QED BY <1>1, <1>2, <1>3, <1>4, <1>5, <1>6, <1>7, <1>8, <1>9, <1>10, <1>11 DEF DraftsInv

\* AddLocked: the lock that a killed git left stops it.
LEMMA AddLockedStep ==
  ASSUME DraftCommitsAssumption, DraftsInv, AddLocked
  PROVE  DraftsInv'
<1> USE DraftCommitsAssumption DEF DraftCommitsAssumption
<1>1. TreesFit(dcTree', dcSeen')
  BY DEF DraftsInv, AddLocked
<1>2. DcTypeOK'
  BY DEF DraftsInv, DcTypeOK, IsIdle, Goes, GitAlone, Idle, AddLocked
<1>3. OpFits'
  BY DEF DraftsInv, OpFits, IsIdle, Goes, At, Steps, AddLocked
<1>4. GitFits'
  BY DEF DraftsInv, GitFits, GitAlone, AddLocked
<1>5. SavedFit'
  BY DEF DraftsInv, Goes, At, Entered, Undoing, AddLocked, SavedFit, Lefts, Targets, OrderOf
<1>6. Untouched'
  BY DEF DraftsInv, Goes, At, Entered, AddLocked, Untouched
<1>7. TextFits'
  BY DEF DraftsInv, Goes, At, Entered, AddLocked, TextFits, CanonicalUnchanged, Targets, OrderOf,
       Lefts
<1>8. OthersFit'
  BY DEF DraftsInv, Goes, AddLocked, OthersFit
<1>9. DistFits'
  BY DEF DraftsInv, DcTypeOK, OpFits, Goes, At, GitAlone, Entered, AddLocked, DistFits, SavedFit,
       TextFits
<1>10. IndexFits'
  BY DEF Goes, Undoing, AddLocked, IndexFits
<1>11. IndexTaken'
  BY DEF DraftsInv, Goes, At, AddLocked, IndexTaken
<1> QED BY <1>1, <1>2, <1>3, <1>4, <1>5, <1>6, <1>7, <1>8, <1>9, <1>10, <1>11 DEF DraftsInv

\* Recheck: HEAD has not moved, and there is something to commit.
LEMMA RecheckStep ==
  ASSUME DraftCommitsAssumption, DraftsInv, Recheck
  PROVE  DraftsInv'
<1> USE DraftCommitsAssumption DEF DraftCommitsAssumption
<1>1. TreesFit(dcTree', dcSeen')
  BY DEF DraftsInv, Recheck
<1>2. DcTypeOK'
  BY DEF DraftsInv, DcTypeOK, IsIdle, Goes, GitAlone, Idle, Recheck
<1>3. OpFits'
  BY DEF DraftsInv, DcTypeOK, TreesFit, OpFits, GitFits, IsIdle, Places, Tracked, Pulls, Packages,
       Drafts, IsWhole, DraftTexts, PulledTexts, Goes, At, GitAlone, TreesAlone, Entered, Undoing,
       Kinds, Steps, Idle, Recheck
<1>4. GitFits'
  BY DEF DraftsInv, GitFits, GitAlone, Recheck
<1>5. SavedFit'
  BY DEF DraftsInv, Goes, At, Entered, Undoing, Recheck, SavedFit, Lefts, Targets, OrderOf
<1>6. Untouched'
  BY DEF DraftsInv, Goes, At, Entered, Recheck, Untouched
<1>7. TextFits'
  BY DEF DraftsInv, Goes, At, Entered, Recheck, TextFits, CanonicalUnchanged, Targets, OrderOf,
       Lefts
<1>8. OthersFit'
  BY DEF DraftsInv, Goes, At, Recheck, OthersFit
<1>9. DistFits'
  BY DEF DraftsInv, DcTypeOK, OpFits, Goes, At, GitAlone, Entered, Recheck, DistFits, SavedFit,
       TextFits
<1>10. IndexFits'
  BY DEF Goes, Undoing, Recheck, IndexFits
<1>11. IndexTaken'
  BY DEF DraftsInv, Goes, At, Recheck, IndexTaken
<1> QED BY <1>1, <1>2, <1>3, <1>4, <1>5, <1>6, <1>7, <1>8, <1>9, <1>10, <1>11 DEF DraftsInv

\* Commit: the commit is made.
LEMMA CommitStep ==
  ASSUME DraftCommitsAssumption, DraftsInv, Commit
  PROVE  DraftsInv'
<1> USE DraftCommitsAssumption DEF DraftCommitsAssumption
<1>1. TreesFit(dcTree', dcSeen')
  BY DEF DraftsInv, Commit, Stage
<1>2. DcTypeOK'
  <2>1. /\ dcTree'.draft \in Drafts /\ dcTree'.canon \in Packages /\ dcTree'.dist \in Packages
        /\ dcTree'.pull \in {DcNone} \union PulledTexts
    BY <1>1 DEF TreesFit, Pulls
  <2>2. dcHead'.n \in 0..DcMaxCommits /\ dcLock' \in BOOLEAN /\ dcSeen' \subseteq DcTexts
    BY DEF DraftsInv, DcTypeOK, GitFits, Commit, Stage
  <2>3. \A p \in Tracked : dcHead'.trees[p] # DcPartial
    BY DEF DraftsInv, DcTypeOK, TreesFit, Tracked, At, Commit, Stage, CommitPaths, Committed,
         OthersFit, TextFits
  <2>4. dcBudget' \in [faults : 0..DcMaxFaults, crashes : 0..DcMaxCrashes,
                      commits : 0..DcMaxCommits, ops : 0..DcMaxOps]
    BY DEF DraftsInv, DcTypeOK, Commit
  <2>5. dcOp'.at = "idle" <=> dcOp' = Idle
    BY DEF DraftsInv, DcTypeOK, TreesFit, OpFits, GitFits, IsIdle, Places, Tracked, Pulls,
         Packages, Drafts, IsWhole, DraftTexts, PulledTexts, Goes, At, GitAlone, TreesAlone,
         Entered, Undoing, Kinds, Steps, Idle, Commit, Stage, CommitPaths, Committed, OthersFit,
         TextFits
  <2> QED BY <2>1, <2>2, <2>3, <2>4, <2>5 DEF DcTypeOK, IsIdle
<1>3. OpFits'
  BY DEF DraftsInv, DcTypeOK, TreesFit, OpFits, GitFits, IsIdle, Places, Tracked, Pulls, Packages,
       Drafts, IsWhole, DraftTexts, PulledTexts, Goes, At, GitAlone, TreesAlone, Entered, Undoing,
       Kinds, Steps, Idle, Commit, Stage, CommitPaths, Committed, OthersFit, TextFits
<1>4. GitFits'
  <2>1. dcHead' = [n |-> dcHead.n + 1, trees |-> Stage(dcHead.trees)] /\ dcIndex' = Stage(dcIndex)
    BY DEF Commit
  <2>2. dcBudget'.commits = dcBudget.commits - 1
    BY DEF Commit
  <2>3. dcHead.n \in Nat /\ dcBudget.commits \in Nat /\ dcHead.n + dcBudget.commits = DcMaxCommits
    BY DEF DraftsInv, DcTypeOK, GitFits
  <2>4. dcHead'.n + dcBudget'.commits = DcMaxCommits
    BY <2>1, <2>2, <2>3
  <2> QED BY <2>1, <2>4 DEF GitFits, Stage
<1>5. SavedFit'
  BY DEF DraftsInv, At, Entered, Undoing, Commit, Stage, SavedFit
<1>6. Untouched'
  BY DEF DraftsInv, At, Entered, Commit, Stage, CommitPaths, Untouched
<1>7. TextFits'
  BY DEF DraftsInv, At, Entered, Commit, Stage, CommitPaths, Committed, TextFits,
       CanonicalUnchanged, Targets, OrderOf, Lefts
<1>8. OthersFit'
  BY DEF DraftsInv, Commit, Stage, OthersFit
<1>9. DistFits'
  BY DEF DraftsInv, Tracked, At, Entered, Commit, Stage, CommitPaths, Committed, DistFits,
       TextFits, OthersFit
<1>10. IndexFits'
  BY DEF Commit, Stage, IndexFits
<1>11. IndexTaken'
  BY DEF Commit, Stage, IndexTaken
<1> QED BY <1>1, <1>2, <1>3, <1>4, <1>5, <1>6, <1>7, <1>8, <1>9, <1>10, <1>11 DEF DraftsInv

\* CommitKilled: git is killed, before or after it had moved HEAD.
LEMMA CommitKilledStep ==
  ASSUME DraftCommitsAssumption, DraftsInv, CommitKilled
  PROVE  DraftsInv'
<1> USE DraftCommitsAssumption DEF DraftCommitsAssumption
<1>1. TreesFit(dcTree', dcSeen')
  BY DEF DraftsInv, CommitKilled, Stage
<1>2. DcTypeOK'
  <2>1. /\ dcTree'.draft \in Drafts /\ dcTree'.canon \in Packages /\ dcTree'.dist \in Packages
        /\ dcTree'.pull \in {DcNone} \union PulledTexts
    BY <1>1 DEF TreesFit, Pulls
  <2>2. dcHead'.n \in 0..DcMaxCommits /\ dcLock' \in BOOLEAN /\ dcSeen' \subseteq DcTexts
    BY DEF DraftsInv, DcTypeOK, GitFits, CommitKilled, Stage
  <2>3. \A p \in Tracked : dcHead'.trees[p] # DcPartial
    BY DEF DraftsInv, DcTypeOK, TreesFit, Tracked, At, CommitKilled, Stage, CommitPaths,
         Committed, OthersFit, TextFits
  <2>4. dcBudget' \in [faults : 0..DcMaxFaults, crashes : 0..DcMaxCrashes,
                      commits : 0..DcMaxCommits, ops : 0..DcMaxOps]
    <3>1. PICK moved \in BOOLEAN :
            dcBudget' = [dcBudget EXCEPT !.faults = @ - 1, !.commits = IF moved THEN @ - 1 ELSE @]
      BY DEF CommitKilled
    <3>2. dcBudget.faults > 0 /\ dcBudget.commits > 0
      BY DEF CommitKilled
    <3>3. PICK left : /\ left = dcBudget.commits - 1 \/ left = dcBudget.commits
                      /\ dcBudget' = [dcBudget EXCEPT !.faults = @ - 1, !.commits = left]
      BY <3>1
    <3>4. /\ dcBudget.commits \in 0..DcMaxCommits /\ dcBudget.faults \in 0..DcMaxFaults
          /\ dcBudget \in [faults : 0..DcMaxFaults, crashes : 0..DcMaxCrashes,
                           commits : 0..DcMaxCommits, ops : 0..DcMaxOps]
      BY DEF DraftsInv, DcTypeOK
    <3>5. left \in 0..DcMaxCommits /\ dcBudget.faults - 1 \in 0..DcMaxFaults
      BY <3>2, <3>3, <3>4
    <3> QED BY <3>3, <3>4, <3>5
  <2>5. dcOp'.at = "idle" <=> dcOp' = Idle
    <3>1. dcOp'.at # "idle"
      BY DEF CommitKilled
    <3> QED BY <3>1 DEF Idle
  <2> QED BY <2>1, <2>2, <2>3, <2>4, <2>5 DEF DcTypeOK, IsIdle
<1>3. OpFits'
  BY DEF DraftsInv, DcTypeOK, TreesFit, OpFits, GitFits, IsIdle, Places, Tracked, Pulls, Packages,
       Drafts, IsWhole, DraftTexts, PulledTexts, Goes, At, GitAlone, TreesAlone, Entered, Undoing,
       Kinds, Steps, Idle, CommitKilled, Stage, CommitPaths, Committed, OthersFit, TextFits
<1>4. GitFits'
  <2>1. dcIndex' = dcIndex
    BY DEF CommitKilled
  <2>2. PICK moved \in BOOLEAN :
          /\ dcHead' = IF moved THEN [n |-> dcHead.n + 1, trees |-> Stage(dcHead.trees)] ELSE dcHead
          /\ dcBudget' = [dcBudget EXCEPT !.faults = @ - 1, !.commits = IF moved THEN @ - 1 ELSE @]
    BY DEF CommitKilled
  <2>3. dcHead.n \in Nat /\ dcBudget.commits \in Nat /\ dcHead.n + dcBudget.commits = DcMaxCommits
    BY DEF DraftsInv, DcTypeOK, GitFits
  <2>4. dcBudget'.commits = IF moved THEN dcBudget.commits - 1 ELSE dcBudget.commits
    BY <2>2
  <2>5. CASE moved
    BY <2>1, <2>2, <2>3, <2>4, <2>5 DEF DraftsInv, GitFits, Stage
  <2>6. CASE ~moved
    BY <2>1, <2>2, <2>3, <2>4, <2>6 DEF DraftsInv, GitFits
  <2> QED BY <2>5, <2>6
<1>5. SavedFit'
  BY DEF DraftsInv, At, Entered, Undoing, CommitKilled, Stage, SavedFit
<1>6. Untouched'
  BY DEF DraftsInv, At, Entered, CommitKilled, Stage, CommitPaths, Untouched
<1>7. TextFits'
  BY DEF DraftsInv, At, Entered, CommitKilled, Stage, CommitPaths, Committed, TextFits,
       CanonicalUnchanged, Targets, OrderOf, Lefts
<1>8. OthersFit'
  BY DEF DraftsInv, CommitKilled, Stage, OthersFit
<1>9. DistFits'
  BY DEF DraftsInv, Tracked, At, Entered, Kinds, CommitKilled, Stage, CommitPaths, Committed,
       DistFits, TextFits, OthersFit
<1>10. IndexFits'
  BY DEF CommitKilled, Stage, IndexFits
<1>11. IndexTaken'
  BY DEF DraftsInv, At, CommitKilled, Stage, IndexTaken
<1> QED BY <1>1, <1>2, <1>3, <1>4, <1>5, <1>6, <1>7, <1>8, <1>9, <1>10, <1>11 DEF DraftsInv

\* Report: the operation has succeeded, and ends.
LEMMA ReportStep ==
  ASSUME DraftCommitsAssumption, DraftsInv, Report
  PROVE  DraftsInv'
<1> USE DraftCommitsAssumption DEF DraftCommitsAssumption
<1>1. TreesFit(dcTree', dcSeen')
  BY DEF DraftsInv, Report
<1>2. DcTypeOK'
  BY DEF DraftsInv, DcTypeOK, IsIdle, GitAlone, Idle, Report
<1>3. OpFits'
  BY DEF OpFits, IsIdle, Idle, Report
<1>4. GitFits'
  BY DEF DraftsInv, GitFits, GitAlone, Report
<1>5. SavedFit'
  BY DEF Entered, Idle, Report, SavedFit
<1>6. Untouched'
  BY DEF Entered, Idle, Report, Untouched
<1>7. TextFits'
  BY DEF Idle, Report, TextFits
<1>8. OthersFit'
  BY DEF Idle, Report, OthersFit
<1>9. DistFits'
  BY DEF Idle, Report, DistFits
<1>10. IndexFits'
  BY DEF Idle, Report, IndexFits
<1>11. IndexTaken'
  BY DEF Idle, Report, IndexTaken
<1> QED BY <1>1, <1>2, <1>3, <1>4, <1>5, <1>6, <1>7, <1>8, <1>9, <1>10, <1>11 DEF DraftsInv

\* RestoreIndex: the captured index is put back, unless it is locked.
LEMMA RestoreIndexStep ==
  ASSUME DraftCommitsAssumption, DraftsInv, RestoreIndex
  PROVE  DraftsInv'
<1> USE DraftCommitsAssumption DEF DraftCommitsAssumption
<1>1. TreesFit(dcTree', dcSeen')
  BY DEF DraftsInv, RestoreIndex, RestoredIndex
<1>2. DcTypeOK'
  BY DEF DraftsInv, DcTypeOK, IsIdle, Goes, Idle, RestoreIndex, RestoredIndex, Committed
<1>3. OpFits'
  BY DEF DraftsInv, DcTypeOK, OpFits, IsIdle, Packages, Goes, At, Steps, RestoreIndex,
       RestoredIndex, Committed
<1>4. GitFits'
  BY DEF DraftsInv, GitFits, RestoreIndex, RestoredIndex
<1>5. SavedFit'
  BY DEF DraftsInv, Goes, At, Entered, Undoing, RestoreIndex, RestoredIndex, Committed, SavedFit,
       Lefts, Targets, OrderOf
<1>6. Untouched'
  BY DEF DraftsInv, Goes, At, Entered, RestoreIndex, RestoredIndex, Committed, Untouched
<1>7. TextFits'
  BY DEF DraftsInv, Goes, At, Entered, RestoreIndex, RestoredIndex, Committed, TextFits,
       CanonicalUnchanged, Targets, OrderOf, Lefts
<1>8. OthersFit'
  BY DEF DraftsInv, Goes, RestoreIndex, RestoredIndex, OthersFit
<1>9. DistFits'
  BY DEF DraftsInv, Goes, At, Entered, RestoreIndex, RestoredIndex, Committed, DistFits, TextFits
<1>10. IndexFits'
  BY DEF Tracked, Goes, RestoreIndex, RestoredIndex, Committed, IndexFits
<1>11. IndexTaken'
  BY DEF Goes, RestoreIndex, RestoredIndex, IndexTaken
<1> QED BY <1>1, <1>2, <1>3, <1>4, <1>5, <1>6, <1>7, <1>8, <1>9, <1>10, <1>11 DEF DraftsInv

\* RollBack: the next path is taken out, or the operation ends.
LEMMA RollBackStep ==
  ASSUME DraftCommitsAssumption, DraftsInv, RollBack
  PROVE  DraftsInv'
<1> USE DraftCommitsAssumption DEF DraftCommitsAssumption
<1>1. TreesFit(dcTree', dcSeen')
  BY DEF DraftsInv, DcTypeOK, TreesFit, OpFits, GitFits, IsIdle, Places, Tracked, Pulls, Packages,
       Drafts, At, TreesAlone, RollBack, SavedFit
<1>2. DcTypeOK'
  BY DEF DraftsInv, DcTypeOK, TreesFit, OpFits, GitFits, IsIdle, Places, Tracked, Packages,
       Drafts, Goes, At, GitAlone, TreesAlone, Idle, RollBack, SavedFit
<1>3. OpFits'
  <2>1. CASE dcOp.todo = <<>>
    <3>1. dcOp' = Idle /\ dcTree' = dcTree
      BY <2>1 DEF RollBack, TreesAlone
    <3> QED BY <3>1 DEF OpFits, Idle, IsIdle
  <2>2. CASE dcOp.todo # <<>>
    <3>1. /\ dcOp' = [dcOp EXCEPT !.at = "putback"] /\ dcOp.at = "rollback"
          /\ UNCHANGED <<dcIndex, dcHead, dcLock, dcSeen>>
      BY <2>2 DEF RollBack, Goes, At, GitAlone
    <3> QED BY <2>2, <3>1 DEF DraftsInv, OpFits, SavedFit, IsIdle, Entered, Steps
  <2> QED BY <2>1, <2>2
<1>4. GitFits'
  BY DEF DraftsInv, GitFits, GitAlone, RollBack
<1>5. SavedFit'
  <2>1. CASE dcOp.todo = <<>>
    <3>1. dcOp' = Idle /\ dcTree' = dcTree
      BY <2>1 DEF RollBack, TreesAlone
    <3> QED BY <3>1 DEF SavedFit, Idle, Entered
  <2>2. CASE dcOp.todo # <<>>
    <3>1. /\ dcOp' = [dcOp EXCEPT !.at = "putback"] /\ dcOp.at = "rollback"
          /\ UNCHANGED <<dcIndex, dcHead, dcLock, dcSeen>>
      BY <2>2 DEF RollBack, Goes, At, GitAlone
    <3> QED BY <2>2, <3>1 DEF DraftsInv, SavedFit, Entered, Undoing
  <2> QED BY <2>1, <2>2
<1>6. Untouched'
  <2>1. CASE dcOp.todo = <<>>
    BY <2>1 DEF RollBack, Untouched, Entered, Idle
  <2>2. CASE dcOp.todo # <<>>
    <3>1. dcOp.kind \in Kinds /\ dcOp.todo \in Lefts(dcOp.kind) /\ Entered
      BY <2>2 DEF RollBack, DraftsInv, OpFits, SavedFit, Undoing, At, IsIdle
    <3>2. Head(dcOp.todo) \in LeftIn(dcOp.todo)
      BY <2>2, <3>1, TodoFacts
    <3>3. /\ dcOp'.saved = dcOp.saved /\ dcOp'.todo = dcOp.todo
          /\ dcTree' = [dcTree EXCEPT ![Head(dcOp.todo)] = DcNone]
      BY <2>2 DEF RollBack, DraftsInv, OpFits, Goes
    <3>4. \A p \in Places : p # Head(dcOp.todo) => dcTree'[p] = dcTree[p]
      BY <3>3
    <3> QED BY <3>1, <3>2, <3>3, <3>4 DEF DraftsInv, Untouched
  <2> QED BY <2>1, <2>2
<1>7. TextFits'
  BY DEF DraftsInv, OpFits, IsWhole, Goes, GitAlone, Idle, RollBack, TextFits, SavedFit,
       CanonicalUnchanged, Targets, OrderOf, Lefts
<1>8. OthersFit'
  BY DEF DraftsInv, OpFits, Goes, Entered, Idle, RollBack, OthersFit, SavedFit
<1>9. DistFits'
  BY DEF DraftsInv, DcTypeOK, OpFits, Drafts, Goes, GitAlone, Idle, RollBack, DistFits, SavedFit,
       TextFits
<1>10. IndexFits'
  <2>1. CASE dcOp.todo = <<>>
    <3>1. dcOp' = Idle /\ dcTree' = dcTree
      BY <2>1 DEF RollBack, TreesAlone
    <3> QED BY <3>1 DEF IndexFits, Idle
  <2>2. CASE dcOp.todo # <<>>
    <3>1. /\ dcOp' = [dcOp EXCEPT !.at = "putback"] /\ dcOp.at = "rollback"
          /\ UNCHANGED <<dcIndex, dcHead, dcLock, dcSeen>>
      BY <2>2 DEF RollBack, Goes, At, GitAlone
    <3> QED BY <2>2, <3>1 DEF DraftsInv, IndexFits, Undoing
  <2> QED BY <2>1, <2>2
<1>11. IndexTaken'
  BY DEF DraftsInv, OpFits, Goes, Idle, RollBack, IndexTaken
<1> QED BY <1>1, <1>2, <1>3, <1>4, <1>5, <1>6, <1>7, <1>8, <1>9, <1>10, <1>11 DEF DraftsInv

\* PutBack: the path that was taken out is as it was captured.
LEMMA PutBackStep ==
  ASSUME DraftCommitsAssumption, DraftsInv, PutBack
  PROVE  DraftsInv'
<1> USE DraftCommitsAssumption DEF DraftCommitsAssumption
<1>1. TreesFit(dcTree', dcSeen')
  BY DEF DraftsInv, DcTypeOK, TreesFit, OpFits, Packages, Drafts, IsWhole, DraftTexts,
       PulledTexts, At, GitAlone, TreesAlone, Idle, PutBack, SavedFit
<1>2. DcTypeOK'
  <2>1. /\ dcTree'.draft \in Drafts /\ dcTree'.canon \in Packages /\ dcTree'.dist \in Packages
        /\ dcTree'.pull \in {DcNone} \union PulledTexts
    BY <1>1 DEF TreesFit, Pulls
  <2>2. dcHead'.n \in 0..DcMaxCommits /\ dcLock' \in BOOLEAN /\ dcSeen' \subseteq DcTexts
    BY DEF DraftsInv, DcTypeOK, GitAlone, PutBack
  <2>3. \A p \in Tracked : dcHead'.trees[p] # DcPartial
    BY DEF DraftsInv, DcTypeOK, GitAlone, PutBack
  <2>4. dcBudget' \in [faults : 0..DcMaxFaults, crashes : 0..DcMaxCrashes,
                      commits : 0..DcMaxCommits, ops : 0..DcMaxOps]
    BY DEF DraftsInv, DcTypeOK, PutBack
  <2>5. dcOp'.at = "idle" <=> dcOp' = Idle
    BY DEF DraftsInv, DcTypeOK, TreesFit, OpFits, GitFits, IsIdle, Places, Tracked, Pulls,
         Packages, Drafts, IsWhole, DraftTexts, PulledTexts, Goes, At, GitAlone, TreesAlone,
         Entered, Undoing, Kinds, Steps, Idle, PutBack, SavedFit
  <2> QED BY <2>1, <2>2, <2>3, <2>4, <2>5 DEF DcTypeOK, IsIdle
<1>3. OpFits'
  BY DEF DraftsInv, DcTypeOK, TreesFit, OpFits, GitFits, IsIdle, Places, Tracked, Pulls, Packages,
       Drafts, IsWhole, DraftTexts, PulledTexts, Goes, At, GitAlone, TreesAlone, Entered, Undoing,
       Kinds, Steps, Idle, PutBack, SavedFit
<1>4. GitFits'
  BY DEF DraftsInv, GitFits, GitAlone, PutBack
<1>5. SavedFit'
  <2>1. dcOp.kind \in Kinds /\ dcOp.todo \in Lefts(dcOp.kind) /\ Entered /\ dcOp.todo # <<>>
    BY DEF PutBack, DraftsInv, OpFits, SavedFit, Undoing, At, IsIdle
  <2>2. /\ dcOp' = [dcOp EXCEPT !.at = "rollback", !.todo = Tail(@)]
        /\ dcOp'.at = "rollback" /\ dcOp'.todo = Tail(dcOp.todo)
        /\ dcOp'.kind = dcOp.kind /\ dcOp'.saved = dcOp.saved /\ dcOp'.text = dcOp.text
        /\ dcTree' = [dcTree EXCEPT ![Head(dcOp.todo)] = dcOp.saved[Head(dcOp.todo)]]
        /\ UNCHANGED <<dcIndex, dcHead, dcLock, dcSeen>>
    BY DEF PutBack, GitAlone
  <2>3. /\ Tail(dcOp.todo) \in Lefts(dcOp.kind) /\ Tail(dcOp.todo) # Targets(dcOp.kind)
        /\ Head(dcOp.todo) \in Places
        /\ LeftIn(dcOp.todo) \subseteq LeftIn(Tail(dcOp.todo)) \union {Head(dcOp.todo)}
    BY <2>1, TodoFacts
  <2>4. \A p \in Places : dcTree'[p] = IF p = Head(dcOp.todo) THEN dcOp.saved[p] ELSE dcTree[p]
    BY <2>2, <2>3 DEF DraftsInv, TreesFit
  <2> QED BY <2>1, <2>2, <2>3 DEF DraftsInv, SavedFit, Entered, Undoing
<1>6. Untouched'
  <2>1. dcOp.kind \in Kinds /\ dcOp.todo \in Lefts(dcOp.kind) /\ Entered /\ dcOp.todo # <<>>
    BY DEF PutBack, DraftsInv, OpFits, SavedFit, Undoing, At, IsIdle
  <2>2. /\ dcOp' = [dcOp EXCEPT !.at = "rollback", !.todo = Tail(@)]
        /\ dcOp'.at = "rollback" /\ dcOp'.todo = Tail(dcOp.todo)
        /\ dcOp'.kind = dcOp.kind /\ dcOp'.saved = dcOp.saved /\ dcOp'.text = dcOp.text
        /\ dcTree' = [dcTree EXCEPT ![Head(dcOp.todo)] = dcOp.saved[Head(dcOp.todo)]]
        /\ UNCHANGED <<dcIndex, dcHead, dcLock, dcSeen>>
    BY DEF PutBack, GitAlone
  <2>3. /\ Tail(dcOp.todo) \in Lefts(dcOp.kind) /\ Tail(dcOp.todo) # Targets(dcOp.kind)
        /\ Head(dcOp.todo) \in Places
        /\ LeftIn(dcOp.todo) \subseteq LeftIn(Tail(dcOp.todo)) \union {Head(dcOp.todo)}
    BY <2>1, TodoFacts
  <2>4. \A p \in Places : dcTree'[p] = IF p = Head(dcOp.todo) THEN dcOp.saved[p] ELSE dcTree[p]
    BY <2>2, <2>3 DEF DraftsInv, TreesFit
  <2> QED BY <2>1, <2>2, <2>3, <2>4 DEF DraftsInv, Untouched
<1>7. TextFits'
  <2>1. dcOp.kind \in Kinds /\ dcOp.todo \in Lefts(dcOp.kind) /\ Entered /\ dcOp.todo # <<>>
    BY DEF PutBack, DraftsInv, OpFits, SavedFit, Undoing, At, IsIdle
  <2>2. /\ dcOp' = [dcOp EXCEPT !.at = "rollback", !.todo = Tail(@)]
        /\ dcOp'.at = "rollback" /\ dcOp'.todo = Tail(dcOp.todo)
        /\ dcOp'.kind = dcOp.kind /\ dcOp'.saved = dcOp.saved /\ dcOp'.text = dcOp.text
        /\ dcTree' = [dcTree EXCEPT ![Head(dcOp.todo)] = dcOp.saved[Head(dcOp.todo)]]
        /\ UNCHANGED <<dcIndex, dcHead, dcLock, dcSeen>>
    BY DEF PutBack, GitAlone
  <2>3. /\ Tail(dcOp.todo) \in Lefts(dcOp.kind) /\ Tail(dcOp.todo) # Targets(dcOp.kind)
        /\ Head(dcOp.todo) \in Places
        /\ LeftIn(dcOp.todo) \subseteq LeftIn(Tail(dcOp.todo)) \union {Head(dcOp.todo)}
    BY <2>1, TodoFacts
  <2>4. \A p \in Places : dcTree'[p] = IF p = Head(dcOp.todo) THEN dcOp.saved[p] ELSE dcTree[p]
    BY <2>2, <2>3 DEF DraftsInv, TreesFit
  <2>5. Entered' /\ IsWhole(dcOp'.saved.draft) = IsWhole(dcOp.saved.draft)
    BY <2>1, <2>2 DEF Entered
  <2> QED BY <2>1, <2>2, <2>3, <2>5 DEF DraftsInv, TextFits
<1>8. OthersFit'
  BY DEF DraftsInv, At, Entered, PutBack, OthersFit, SavedFit
<1>9. DistFits'
  BY DEF DraftsInv, At, GitAlone, PutBack, DistFits, SavedFit
<1>10. IndexFits'
  BY DEF DraftsInv, DcTypeOK, TreesFit, OpFits, GitFits, IsIdle, Places, Tracked, Pulls, Packages,
       Drafts, IsWhole, DraftTexts, PulledTexts, Goes, At, GitAlone, TreesAlone, Entered, Undoing,
       Kinds, Steps, Idle, PutBack, IndexFits, IndexTaken, Committed, SavedFit
<1>11. IndexTaken'
  BY DEF PutBack, IndexTaken
<1> QED BY <1>1, <1>2, <1>3, <1>4, <1>5, <1>6, <1>7, <1>8, <1>9, <1>10, <1>11 DEF DraftsInv

\* Breaks: a step raises, and the operation is undone.
LEMMA BreaksStep ==
  ASSUME DraftCommitsAssumption, DraftsInv, Breaks
  PROVE  DraftsInv'
<1> USE DraftCommitsAssumption DEF DraftCommitsAssumption
<1>1. TreesFit(dcTree', dcSeen')
  BY DEF DraftsInv, Breaks
<1>2. DcTypeOK'
  BY DEF DraftsInv, DcTypeOK, TreesFit, OpFits, GitFits, IsIdle, Places, Tracked, DraftTexts,
       PulledTexts, Goes, At, GitAlone, Kinds, Idle, Breaks
<1>3. OpFits'
  BY DEF DraftsInv, DcTypeOK, OpFits, IsIdle, DraftTexts, Goes, Steps, Breaks
<1>4. GitFits'
  BY DEF DraftsInv, GitFits, GitAlone, Breaks
<1>5. SavedFit'
  <2>1. /\ dcOp' \in {[dcOp EXCEPT !.at = "rollback"], [dcOp EXCEPT !.at = "restore"]}
        /\ dcOp.at \notin {"idle", "capture", "enter", "rollback", "putback"}
        /\ dcOp'.at = "restore" => dcOp.at \in {"add", "recheck", "commit"}
        /\ dcSeen' = dcSeen
    BY DEF Breaks, Goes, DraftsInv, OpFits
  <2>2. /\ dcOp'.at \in {"rollback", "restore"} /\ dcOp'.kind = dcOp.kind
        /\ dcOp'.saved = dcOp.saved /\ dcOp'.todo = dcOp.todo
    BY <2>1 DEF DraftsInv, OpFits
  <2>3. dcOp.kind \in Kinds
    BY <2>1 DEF DraftsInv, OpFits, IsIdle
  <2> QED BY <2>1, <2>2, <2>3, TargetFacts DEF DraftsInv, SavedFit, Entered, Undoing
<1>6. Untouched'
  BY DEF DraftsInv, DcTypeOK, OpFits, Packages, Goes, GitAlone, Entered, Breaks, Untouched,
       SavedFit
<1>7. TextFits'
  BY DEF DraftsInv, DcTypeOK, TreesFit, OpFits, GitFits, IsIdle, Places, Tracked, Pulls, Packages,
       Drafts, IsWhole, DraftTexts, PulledTexts, Goes, At, GitAlone, TreesAlone, Entered, Undoing,
       Kinds, Steps, Idle, Breaks, TextFits, SavedFit, CanonicalUnchanged, Targets, OrderOf, Lefts
<1>8. OthersFit'
  BY DEF DraftsInv, OpFits, Goes, Breaks, OthersFit
<1>9. DistFits'
  BY DEF DraftsInv, DcTypeOK, OpFits, Places, Tracked, Goes, GitAlone, Entered, Undoing, Breaks,
       DistFits, SavedFit, TextFits
<1>10. IndexFits'
  <2>1. UNCHANGED <<dcIndex, dcLock>>
    BY DEF Breaks, GitAlone
  <2>2. CASE dcOp' = [dcOp EXCEPT !.at = "restore"]
    <3>1. dcOp'.at = "restore"
      BY <2>2
    <3> QED BY <3>1 DEF IndexFits, Undoing
  <2>3. CASE /\ dcOp' = [dcOp EXCEPT !.at = "rollback"]
             /\ dcOp.at \in {"rmcanon", "copy", "copying", "rmdraft", "export", "write", "origin",
                            "log", "require", "report"}
    <3>1. dcOp'.index = dcOp.index /\ dcOp'.made = dcOp.made
      BY <2>3
    <3>2. dcOp.index = DcNone \/ dcOp.made
      BY <2>3 DEF DraftsInv, IndexTaken
    <3> QED BY <3>1, <3>2 DEF IndexFits
  <2> QED BY <2>2, <2>3 DEF Breaks, Goes
<1>11. IndexTaken'
  BY DEF DraftsInv, OpFits, Packages, Drafts, DraftTexts, PulledTexts, Goes, Breaks, IndexTaken
<1> QED BY <1>1, <1>2, <1>3, <1>4, <1>5, <1>6, <1>7, <1>8, <1>9, <1>10, <1>11 DEF DraftsInv

\* Crash: the process ends at any step.
LEMMA CrashStep ==
  ASSUME DraftCommitsAssumption, DraftsInv, Crash
  PROVE  DraftsInv'
<1> USE DraftCommitsAssumption DEF DraftCommitsAssumption
<1>1. TreesFit(dcTree', dcSeen')
  BY DEF DraftsInv, Crash
<1>2. DcTypeOK'
  BY DEF DraftsInv, DcTypeOK, OpFits, IsIdle, Drafts, PulledTexts, GitAlone, Idle, Crash
<1>3. OpFits'
  BY DEF OpFits, IsIdle, Idle, Crash
<1>4. GitFits'
  BY DEF DraftsInv, GitFits, GitAlone, Crash
<1>5. SavedFit'
  BY DEF Entered, Idle, Crash, SavedFit
<1>6. Untouched'
  BY DEF Entered, Idle, Crash, Untouched
<1>7. TextFits'
  BY DEF Idle, Crash, TextFits
<1>8. OthersFit'
  BY DEF Idle, Crash, OthersFit
<1>9. DistFits'
  BY DEF Idle, Crash, DistFits
<1>10. IndexFits'
  BY DEF Idle, Crash, IndexFits
<1>11. IndexTaken'
  BY DEF Idle, Crash, IndexTaken
<1> QED BY <1>1, <1>2, <1>3, <1>4, <1>5, <1>6, <1>7, <1>8, <1>9, <1>10, <1>11 DEF DraftsInv

\* TerminalEdit: the author writes the canonical package by hand.
LEMMA TerminalEditStep ==
  ASSUME DraftCommitsAssumption, DraftsInv, TerminalEdit
  PROVE  DraftsInv'
<1> USE DraftCommitsAssumption DEF DraftCommitsAssumption
<1>1. TreesFit(dcTree', dcSeen')
  BY DEF DraftsInv, TreesFit, Packages, TerminalEdit
<1>2. DcTypeOK'
  BY DEF DraftsInv, DcTypeOK, IsIdle, Packages, TerminalEdit
<1>3. OpFits'
  BY DEF DraftsInv, OpFits, IsIdle, TerminalEdit
<1>4. GitFits'
  BY DEF DraftsInv, GitFits, TerminalEdit
<1>5. SavedFit'
  BY DEF DraftsInv, IsIdle, Entered, TerminalEdit, SavedFit
<1>6. Untouched'
  BY DEF IsIdle, Entered, TerminalEdit, Untouched
<1>7. TextFits'
  BY DEF DraftsInv, OpFits, IsIdle, TerminalEdit, TextFits
<1>8. OthersFit'
  BY DEF DraftsInv, TerminalEdit, OthersFit
<1>9. DistFits'
  BY DEF DraftsInv, OpFits, IsIdle, TerminalEdit, DistFits
<1>10. IndexFits'
  BY DEF DraftsInv, Undoing, TerminalEdit, IndexFits
<1>11. IndexTaken'
  BY DEF DraftsInv, TerminalEdit, IndexTaken
<1> QED BY <1>1, <1>2, <1>3, <1>4, <1>5, <1>6, <1>7, <1>8, <1>9, <1>10, <1>11 DEF DraftsInv

\* TerminalCommit: the author commits, that package or something else.
LEMMA TerminalCommitStep ==
  ASSUME DraftCommitsAssumption, DraftsInv, TerminalCommit
  PROVE  DraftsInv'
<1> USE DraftCommitsAssumption DEF DraftCommitsAssumption
<1>1. TreesFit(dcTree', dcSeen')
  BY DEF DraftsInv, TerminalCommit
<1>2. DcTypeOK'
  <2>1. /\ dcTree'.draft \in Drafts /\ dcTree'.canon \in Packages /\ dcTree'.dist \in Packages
        /\ dcTree'.pull \in {DcNone} \union PulledTexts
    BY <1>1 DEF TreesFit, Pulls
  <2>2. dcHead'.n \in 0..DcMaxCommits /\ dcLock' \in BOOLEAN /\ dcSeen' \subseteq DcTexts
    BY DEF DraftsInv, DcTypeOK, GitFits, TerminalCommit
  <2>3. \A p \in Tracked : dcHead'.trees[p] # DcPartial
    BY DEF DraftsInv, DcTypeOK, GitFits, IsWhole, TerminalCommit
  <2>4. dcBudget' \in [faults : 0..DcMaxFaults, crashes : 0..DcMaxCrashes,
                      commits : 0..DcMaxCommits, ops : 0..DcMaxOps]
    BY DEF DraftsInv, DcTypeOK, Packages, TerminalCommit
  <2>5. dcOp'.at = "idle" <=> dcOp' = Idle
    BY DEF DraftsInv, DcTypeOK, IsIdle, TerminalCommit
  <2> QED BY <2>1, <2>2, <2>3, <2>4, <2>5 DEF DcTypeOK, IsIdle
<1>3. OpFits'
  BY DEF DraftsInv, OpFits, IsIdle, TerminalCommit
<1>4. GitFits'
  <2>1. PICK canon : /\ dcHead' = [n |-> dcHead.n + 1, trees |-> [dcHead.trees EXCEPT !.canon = canon]]
                     /\ dcIndex' = IF canon = dcHead.trees.canon THEN dcIndex
                                   ELSE [dcIndex EXCEPT !.canon = canon]
    BY DEF TerminalCommit
  <2>2. dcHead.n + dcBudget.commits = DcMaxCommits /\ dcHead.n \in Nat /\ dcBudget.commits \in Nat
    BY DEF DraftsInv, DcTypeOK, GitFits
  <2>3. dcBudget'.commits = dcBudget.commits - 1
    BY DEF TerminalCommit
  <2>4. dcHead'.n + dcBudget'.commits = DcMaxCommits
    BY <2>1, <2>2, <2>3
  <2>5. dcIndex' = [p \in Tracked |-> dcIndex'[p]]
    BY <2>1 DEF DraftsInv, GitFits
  <2>6. dcHead' = [n |-> dcHead'.n, trees |-> [p \in Tracked |-> dcHead'.trees[p]]]
    BY <2>1 DEF DraftsInv, GitFits
  <2> QED BY <2>4, <2>5, <2>6 DEF GitFits
<1>5. SavedFit'
  BY DEF DraftsInv, Entered, Undoing, TerminalCommit, SavedFit
<1>6. Untouched'
  BY DEF DraftsInv, Entered, TerminalCommit, Untouched
<1>7. TextFits'
  BY DEF DraftsInv, Entered, TerminalCommit, TextFits, CanonicalUnchanged
<1>8. OthersFit'
  BY DEF DraftsInv, TerminalCommit, OthersFit
<1>9. DistFits'
  BY DEF DraftsInv, DcTypeOK, TreesFit, OpFits, GitFits, Entered, TerminalCommit, DistFits
<1>10. IndexFits'
  BY DEF DraftsInv, IsIdle, Packages, Drafts, DraftTexts, PulledTexts, Undoing, TerminalCommit,
       IndexFits, IndexTaken, Committed
<1>11. IndexTaken'
  BY DEF DraftsInv, TerminalCommit, IndexTaken
<1> QED BY <1>1, <1>2, <1>3, <1>4, <1>5, <1>6, <1>7, <1>8, <1>9, <1>10, <1>11 DEF DraftsInv

\* TerminalUnlock: the lock that was left is removed.
LEMMA TerminalUnlockStep ==
  ASSUME DraftCommitsAssumption, DraftsInv, TerminalUnlock
  PROVE  DraftsInv'
<1> USE DraftCommitsAssumption DEF DraftCommitsAssumption
<1>1. TreesFit(dcTree', dcSeen')
  BY DEF DraftsInv, TerminalUnlock
<1>2. DcTypeOK'
  BY DEF DraftsInv, DcTypeOK, TreesFit, OpFits, GitFits, IsIdle, Places, Tracked, Pulls, Packages,
       Drafts, IsWhole, DraftTexts, PulledTexts, Goes, At, GitAlone, TreesAlone, Entered, Undoing,
       Kinds, Steps, Idle, TerminalUnlock
<1>3. OpFits'
  BY DEF DraftsInv, OpFits, IsIdle, TerminalUnlock
<1>4. GitFits'
  BY DEF DraftsInv, GitFits, TerminalUnlock
<1>5. SavedFit'
  BY DEF DraftsInv, IsIdle, Entered, TerminalUnlock, SavedFit
<1>6. Untouched'
  BY DEF DraftsInv, Entered, TerminalUnlock, Untouched
<1>7. TextFits'
  BY DEF DraftsInv, OpFits, IsIdle, TerminalUnlock, TextFits
<1>8. OthersFit'
  BY DEF DraftsInv, TerminalUnlock, OthersFit
<1>9. DistFits'
  BY DEF DraftsInv, OpFits, IsIdle, TerminalUnlock, DistFits
<1>10. IndexFits'
  BY DEF IsIdle, Undoing, TerminalUnlock, IndexFits
<1>11. IndexTaken'
  BY DEF DraftsInv, TerminalUnlock, IndexTaken
<1> QED BY <1>1, <1>2, <1>3, <1>4, <1>5, <1>6, <1>7, <1>8, <1>9, <1>10, <1>11 DEF DraftsInv

\* Begin: an operation takes the mutation lock.
LEMMA BeginStep ==
  ASSUME DraftCommitsAssumption, DraftsInv, NEW kind \in Kinds, Begin(kind)
  PROVE  DraftsInv'
<1> USE DraftCommitsAssumption DEF DraftCommitsAssumption
<1>1. TreesFit(dcTree', dcSeen')
  BY DEF DraftsInv, Begin, MayStart, DistClean
<1>2. DcTypeOK'
  <2>1. /\ dcTree'.draft \in Drafts /\ dcTree'.canon \in Packages /\ dcTree'.dist \in Packages
        /\ dcTree'.pull \in {DcNone} \union PulledTexts
    BY <1>1 DEF TreesFit, Pulls
  <2>2. dcHead'.n \in 0..DcMaxCommits /\ dcLock' \in BOOLEAN /\ dcSeen' \subseteq DcTexts
    BY DEF DraftsInv, DcTypeOK, Begin, MayStart, DistClean
  <2>3. \A p \in Tracked : dcHead'.trees[p] # DcPartial
    BY DEF DraftsInv, DcTypeOK, Begin, MayStart, DistClean
  <2>4. dcBudget' \in [faults : 0..DcMaxFaults, crashes : 0..DcMaxCrashes,
                      commits : 0..DcMaxCommits, ops : 0..DcMaxOps]
    BY DEF DraftsInv, DcTypeOK, Drafts, Begin, MayStart, DistClean
  <2>5. dcOp'.at = "idle" <=> dcOp' = Idle
    BY DEF DraftsInv, DcTypeOK, TreesFit, OpFits, GitFits, IsIdle, Places, Tracked, Pulls,
         Packages, Drafts, IsWhole, DraftTexts, PulledTexts, Goes, At, GitAlone, TreesAlone,
         Entered, Undoing, Kinds, Steps, Idle, Begin, MayStart, DistClean, CanonicalUnchanged
  <2> QED BY <2>1, <2>2, <2>3, <2>4, <2>5 DEF DcTypeOK, IsIdle
<1>3. OpFits'
  BY DEF DraftsInv, DcTypeOK, TreesFit, OpFits, GitFits, IsIdle, Places, Tracked, Pulls, Packages,
       Drafts, IsWhole, DraftTexts, PulledTexts, Goes, At, GitAlone, TreesAlone, Entered, Undoing,
       Kinds, Steps, Idle, Begin, MayStart, DistClean, CanonicalUnchanged
<1>4. GitFits'
  BY DEF DraftsInv, GitFits, Begin, MayStart, DistClean
<1>5. SavedFit'
  BY DEF DraftsInv, DcTypeOK, IsIdle, Entered, Begin, MayStart, DistClean, SavedFit
<1>6. Untouched'
  BY DEF Entered, Begin, MayStart, DistClean, Untouched
<1>7. TextFits'
  BY DEF DraftsInv, DcTypeOK, Drafts, IsWhole, DraftTexts, Entered, Begin, MayStart, DistClean,
       CanonicalUnchanged, TextFits, SavedFit, Targets, OrderOf, Lefts
<1>8. OthersFit'
  BY DEF Begin, MayStart, DistClean, OthersFit
<1>9. DistFits'
  BY DEF Entered, Idle, Begin, MayStart, DistClean, DistFits
<1>10. IndexFits'
  BY DEF Undoing, Begin, MayStart, DistClean, IndexFits
<1>11. IndexTaken'
  BY DEF Idle, Begin, MayStart, DistClean, IndexTaken
<1> QED BY <1>1, <1>2, <1>3, <1>4, <1>5, <1>6, <1>7, <1>8, <1>9, <1>10, <1>11 DEF DraftsInv

\* It holds at the start.
LEMMA DraftsInit ==
  ASSUME DraftCommitsAssumption, DcInit
  PROVE  DraftsInv
<1> USE DraftCommitsAssumption DEF DraftCommitsAssumption
<1> DEFINE Published == [draft |-> DcNone, canon |-> 1, dist |-> 1]
           New == [draft |-> DraftOf(1, DcNone), canon |-> DcNone, dist |-> DcNone]
<1>0. PICK trees \in {Published, New} :
        /\ dcTree = [place \in Tracked \union {"pull"} |->
                       IF place = "pull" THEN DcNone ELSE trees[place]]
        /\ dcIndex = trees
        /\ dcHead = [n |-> 0, trees |-> trees]
  BY DEF DcInit
<1>1. /\ dcOp = Idle /\ dcLock = FALSE /\ dcSeen = {}
      /\ dcBudget = [faults |-> DcMaxFaults, crashes |-> DcMaxCrashes,
                     commits |-> DcMaxCommits, ops |-> DcMaxOps]
  BY DEF DcInit
<1>2. 1 \in DcTexts /\ DraftOf(1, DcNone) \in DraftTexts
  BY DEF DcTexts, DraftOf, DraftTexts
<1>3. trees = [p \in Tracked |-> trees[p]]
  BY <1>0 DEF Tracked
<1>4. /\ trees.draft \in {DcNone, DraftOf(1, DcNone)}
      /\ trees.canon \in {DcNone, 1} /\ trees.dist \in {DcNone, 1}
  BY <1>0
<1>5. /\ dcTree.draft = trees.draft /\ dcTree.canon = trees.canon /\ dcTree.dist = trees.dist
      /\ dcTree.pull = DcNone
  BY <1>0 DEF Tracked
<1>6. TreesFit(dcTree, dcSeen)
  <2>1. dcTree = [p \in Places |-> dcTree[p]]
    BY <1>0 DEF Places
  <2>2. dcTree.draft # DcNone => dcTree.draft.from = DcNone
    BY <1>4, <1>5 DEF DraftOf
  <2> QED BY <1>2, <1>4, <1>5, <2>1, <2>2 DEF TreesFit, Drafts, Packages, Pulls
<1>7. DcTypeOK
  <2>1. \A p \in Tracked : dcHead.trees[p] # DcPartial
    BY <1>0, <1>2, <1>4 DEF Tracked
  <2>2. dcHead.n \in 0..DcMaxCommits
    BY <1>0
  <2>3. dcBudget \in [faults : 0..DcMaxFaults, crashes : 0..DcMaxCrashes,
                      commits : 0..DcMaxCommits, ops : 0..DcMaxOps]
    BY <1>1
  <2>4. IsIdle <=> dcOp = Idle
    BY <1>1 DEF IsIdle, Idle
  <2> QED BY <1>1, <1>6, <2>1, <2>2, <2>3, <2>4 DEF DcTypeOK, TreesFit, Pulls
<1>8. OpFits
  BY <1>1 DEF OpFits, Idle, IsIdle
<1>9. GitFits
  BY <1>0, <1>1, <1>3 DEF GitFits
<1>10. SavedFit /\ Untouched /\ TextFits /\ OthersFit /\ DistFits /\ IndexFits /\ IndexTaken
  BY <1>1 DEF Idle, SavedFit, Untouched, TextFits, OthersFit, DistFits, IndexFits, IndexTaken,
              Entered, Undoing
<1> QED BY <1>6, <1>7, <1>8, <1>9, <1>10 DEF DraftsInv

\* Every step keeps it.
LEMMA DraftsStep ==
  ASSUME DraftCommitsAssumption, DraftsInv, [DcNext]_dcVars
  PROVE  DraftsInv'
<1>1. CASE UNCHANGED dcVars
  BY <1>1 DEF dcVars, DraftsInv, TreesFit, DcTypeOK, OpFits, GitFits, SavedFit, Untouched,
       TextFits,
              OthersFit, DistFits, IndexFits, IndexTaken, IsIdle, Entered, Undoing, CanonicalUnchanged
<1>2. ASSUME NEW kind \in {"promote", "discard", "save", "accept"}, Begin(kind)
      PROVE  DraftsInv'
  BY <1>2, DraftCommitsAssumption, BeginStep DEF Kinds
<1> QED
  BY <1>1, <1>2, DraftCommitsAssumption, EditDraftStep, PullStep, RejectPullStep,
     CaptureHeadStep, EnterTransactionStep, RemoveCanonicalStep, CopyStartsStep, CopyEndsStep,
     RemoveDraftStep, ExportStep, AcceptTextStep, AcceptOriginStep, AcceptLogStep,
     RequireCommitStep, AddPathsStep, AddLockedStep, RecheckStep, CommitStep, CommitKilledStep,
     ReportStep, RestoreIndexStep, RollBackStep, PutBackStep, BreaksStep, CrashStep,
     TerminalEditStep, TerminalCommitStep, TerminalUnlockStep
  DEF DcNext

\* A draft, once typed, is there or committed.
LEMMA DraftTextIsKept ==
  ASSUME DraftsInv
  PROVE  DraftTextKept
<1> SUFFICES ASSUME dcOp.kind = "promote"
             PROVE  \/ IsWhole(dcTree.draft) /\ dcTree.draft.text = dcOp.text
                    \/ dcTree.canon = dcOp.text
                    \/ At("putback") /\ Head(dcOp.todo) = "draft"
  BY DEF DraftTextKept
<1>1. dcOp.at \in Steps("promote")
  BY DEF DraftsInv, OpFits
<1>2. CASE ~Undoing
  BY <1>1, <1>2 DEF DraftsInv, TextFits, Steps, Undoing
<1>3. CASE Undoing /\ dcOp.todo = Targets("promote")
  BY <1>3, TodoFacts, TargetFacts DEF DraftsInv, TextFits, Undoing, At
<1>4. CASE Undoing /\ dcOp.todo # Targets("promote")
  <2>1. Entered /\ dcOp.todo \in {<<"canon", "dist">>, <<"dist">>, <<>>}
    BY <1>4, TargetFacts DEF DraftsInv, SavedFit, Lefts, Entered, Undoing
  <2>2. "draft" \notin LeftIn(dcOp.todo)
    <3>1. \A s \in {<<"canon", "dist">>, <<"dist">>, <<>>} : "draft" \notin LeftIn(s)
      BY DEF LeftIn
    <3> QED BY <2>1, <3>1
  <2>3. dcTree["draft"] = dcOp.saved["draft"]
    BY <2>1, <2>2 DEF DraftsInv, Untouched, Places, Tracked
  <2> QED BY <2>1, <2>3 DEF DraftsInv, TextFits
<1> QED BY <1>2, <1>3, <1>4

\* A package that goes was seen by its author.
KnownBeforeReplaced ==
  At("rmcanon") /\ dcTree'.canon = DcNone /\ dcTree.canon # DcNone => dcTree.canon \in dcSeen

\* A draft was made of the package that it replaces.
LEMMA DraftKnowsCanon ==
  ASSUME DraftsInv
  PROVE  KnownBeforeReplaced
<1> SUFFICES ASSUME At("rmcanon"), dcTree.canon # DcNone
             PROVE  dcTree.canon \in dcSeen
  BY DEF KnownBeforeReplaced
<1>1. dcOp.kind = "promote"
  BY DEF DraftsInv, OpFits, Steps, IsIdle, At
<1>2. IsWhole(dcTree.draft) /\ dcTree.canon = dcTree.draft.from
  BY <1>1 DEF DraftsInv, TextFits, CanonicalUnchanged, At
<1> QED BY <1>2 DEF DraftsInv, TreesFit, IsWhole

\* An undone operation leaves the paths and the index as they were.
LeavesAsWas ==
  /\ At("rollback") /\ dcOp'.at = "idle"
  /\ dcBudget'.crashes = dcBudget.crashes
  => /\ dcOp.saved # DcNone =>
          \A p \in {"draft", "canon", "dist", "pull"} :
             p \in Committed(dcOp.kind) \union {"pull"}
             => dcTree[p] = dcOp.saved[p]
     /\ \/ dcLock \/ dcOp.made \/ dcOp.index = DcNone
        \/ \A p \in Committed(dcOp.kind) : dcIndex[p] = dcOp.index[p]

\* When it ends every path has been put back.
LEMMA RollBackEnds ==
  ASSUME DraftsInv, [DcNext]_dcVars, At("rollback"), dcOp'.at = "idle",
         dcBudget'.crashes = dcBudget.crashes
  PROVE  dcOp.todo = <<>>
<1>1. dcOp' # dcOp /\ ~IsIdle
  BY DEF At, IsIdle
<1>2. ~Crash
  BY DEF Crash, DraftsInv, DcTypeOK
<1>3. RollBack \/ PutBack \/ Breaks
  BY <1>1, <1>2 DEF DcNext, dcVars, EditDraft, Pull, RejectPull, CaptureHead, EnterTransaction,
       RemoveCanonical,
                    CopyStarts, CopyEnds, RemoveDraft, Export, AcceptText, AcceptOrigin, AcceptLog,
                    RequireCommit, AddPaths, AddLocked, Recheck, Commit, CommitKilled, Report, RestoreIndex,
                    TerminalEdit, TerminalCommit, TerminalUnlock, Begin, Sets, At, IsIdle
<1>4. ~PutBack /\ ~Breaks
  BY DEF PutBack, Breaks, At
<1>5. CASE dcOp.todo # <<>>
  <2>1. dcOp'.at = "putback"
    BY <1>3, <1>4, <1>5 DEF RollBack, Goes, DraftsInv, OpFits
  <2> QED BY <2>1
<1> QED BY <1>5

\* It does.
LEMMA FailedIsUndone ==
  ASSUME DraftsInv, [DcNext]_dcVars
  PROVE  LeavesAsWas
<1> SUFFICES ASSUME At("rollback"), dcOp'.at = "idle", dcBudget'.crashes = dcBudget.crashes
             PROVE  /\ dcOp.saved # DcNone => \A p \in Places : dcTree[p] = dcOp.saved[p]
                    /\ \/ dcLock \/ dcOp.made \/ dcOp.index = DcNone
                       \/ \A p \in Committed(dcOp.kind) : dcIndex[p] = dcOp.index[p]
  BY DEF LeavesAsWas, Places, Tracked
<1>1. dcOp.todo = <<>>
  BY RollBackEnds
<1>2. LeftIn(<<>>) = {}
  BY DEF LeftIn
<1>3. dcOp.saved # DcNone => Entered
  BY DEF DraftsInv, SavedFit
<1> QED BY <1>1, <1>2, <1>3 DEF DraftsInv, Untouched, IndexFits, Undoing, At

\* An operation stays what it is.
LEMMA KindStays ==
  ASSUME DraftsInv, [DcNext]_dcVars, ~IsIdle
  PROVE  dcOp' = Idle \/ dcOp'.kind = dcOp.kind
<1>1. CASE UNCHANGED dcVars
  BY <1>1 DEF dcVars
<1>2. CASE DcNext
  BY <1>2 DEF DcNext, EditDraft, Pull, RejectPull, CaptureHead, EnterTransaction, RemoveCanonical,
              CopyStarts, CopyEnds, RemoveDraft, Export, AcceptText, AcceptOrigin, AcceptLog,
              RequireCommit, AddPaths, AddLocked, Recheck, Commit, CommitKilled, Report, RestoreIndex,
              RollBack, PutBack, Breaks, Crash, TerminalEdit, TerminalCommit, TerminalUnlock, Begin, Sets,
              Goes, TreesAlone, DraftsInv, OpFits, IsIdle
<1> QED BY <1>1, <1>2

\* The exported package is committed with its package.
DistWithPackage ==
  dcOp.kind = "promote" /\ dcHead'.n # dcHead.n /\ dcOp'.made
  => dcHead'.trees.dist = dcHead'.trees.canon

\* It is.
LEMMA DistGoesAlong ==
  ASSUME DraftsInv, DraftsInv', [DcNext]_dcVars
  PROVE  DistWithPackage
<1> SUFFICES ASSUME dcOp.kind = "promote", dcOp'.made
             PROVE  dcHead'.trees.dist = dcHead'.trees.canon
  BY DEF DistWithPackage
<1>1. ~IsIdle
  BY DEF DraftsInv, OpFits
<1>2. dcOp' # Idle
  BY DEF Idle
<1>3. dcOp'.kind = "promote"
  BY <1>1, <1>2, KindStays
<1> QED BY <1>3 DEF DraftsInv, DistFits

\* The invariant of the drafts and their transactions.
THEOREM DraftsInvariant == DcSpec => []DraftsInv
<1>1. DcInit => DraftsInv
  BY DraftsInit, DraftCommitsAssumption
<1>2. DraftsInv /\ [DcNext]_dcVars => DraftsInv'
  BY DraftsStep, DraftCommitsAssumption
<1> QED BY <1>1, <1>2, PTL DEF DcSpec

\* For any texts, edits, failures, crashes and commits of the author's own: no
\* text is lost, a failed operation is undone, and a commit is whole.
THEOREM DraftsAreSafe == DcSpec => DraftsSafe
<1>1. DraftsInv => DcTypeOK /\ DraftTextKept
  BY DraftTextIsKept DEF DraftsInv
<1>2. DraftsInv => [KnownBeforeReplaced]_dcVars
  BY DraftKnowsCanon
<1>3. DraftsInv /\ [DcNext]_dcVars => [LeavesAsWas]_dcVars
  BY FailedIsUndone
<1>4. DraftsInv /\ DraftsInv' /\ [DcNext]_dcVars => [DistWithPackage]_dcVars
  BY DistGoesAlong
<1>5. DcSpec => [](DcTypeOK /\ DraftTextKept)
  BY DraftsInvariant, <1>1, PTL
<1>6. DcSpec => /\ [][KnownBeforeReplaced]_dcVars
                /\ [][LeavesAsWas]_dcVars
                /\ [][DistWithPackage]_dcVars
  BY DraftsInvariant, <1>2, <1>3, <1>4, PTL DEF DcSpec
<1>7. SeenBeforeReplaced <=> [][KnownBeforeReplaced]_dcVars
  BY DEF SeenBeforeReplaced, KnownBeforeReplaced
<1>8. FailedLeavesAsWas <=> [][LeavesAsWas]_dcVars
  BY DEF FailedLeavesAsWas, LeavesAsWas
<1>9. DistCommitted <=> [][DistWithPackage]_dcVars
  BY DEF DistCommitted, DistWithPackage
<1> QED BY <1>5, <1>6, <1>7, <1>8, <1>9 DEF DraftsSafe, TextsKept, CommitsWhole

(***************************************************************************)
(* Releases: the approval of a plan, step by step.                         *)
(***************************************************************************)
\* The archive of a distribution, or none.
Archives == Distributions \cup {RlNone}

\* What the release directory of a tag may hold.
Outputs == [dist : Archives, backup : Archives, archive : Archives]

\* A take, or none.
Takes == RlTakes \cup {RlNone}

\* A release plan: its tag, the clips it excludes, the takes it reuses.
Plans ==
  [source : RlSources, tag : RlTags, excluded : SUBSET RlPrints,
   reuse : UNION {[S -> Takes] : S \in SUBSET RlPrints}]

\* What is left of the bounds.
Budgets == [takes : Nat, plans : Nat, runs : Nat, faults : Nat]

\* The steps of an approval.
RunSteps ==
  {"idle", "seed", "reconcile", "stage", "rename", "cleanup", "package", "upload", "github", "voices"}

\* An approval under way.
Approvals ==
  [pc : RunSteps, tag : RlTags \cup {RlNone}, forced : SUBSET RlPrints, source : RlSources \cup {RlNone},
   staged : UNION {[S -> RlTakes] : S \in SUBSET RlPrints}, again : BOOLEAN]

\* Sources and tags.
TreeFits == rlSource \in RlSources /\ rlHead \in RlSources /\ rlTag \in [RlTags -> RlSources \cup {RlNone}]

\* The plan.
PlanFits == rlPlan \in Plans \cup {RlNone}

\* The clips, the findings and the bounds.
CacheFits ==
  /\ rlCache \in [RlPrints -> Takes] /\ rlFindings \subseteq RlPrints /\ rlBudget \in Budgets

\* The release directories.
OutputsFit == rlOut \in [RlTags -> Outputs]

\* The audio store, GitHub's assets and what the deployment verified.
WorldFits ==
  /\ rlStore \in [RlPrints -> Takes] /\ rlGithub \in [RlTags -> Archives]
  /\ rlVerified \subseteq RlTags
  /\ \A t \in rlVerified : rlGithub[t] # RlNone

\* How far the approval is.
ApprovalFits ==
  /\ rlRun \in Approvals
  /\ rlRun.pc # "idle" => rlRun.tag \in RlTags
  /\ rlRun.pc = "seed" => rlPlan # RlNone
  /\ rlRun.pc \in {"seed", "reconcile"} => DOMAIN rlRun.staged = {}
  /\ rlRun.pc \in {"stage", "rename"} => rlRun.source \in RlSources /\ DOMAIN rlRun.staged \subseteq RlUses[rlRun.source]
  /\ rlRun.pc = "rename" => DOMAIN rlRun.staged = RlUses[rlRun.source]
  /\ rlRun.pc = "stage" => Out.backup = RlNone
  /\ rlRun.pc \in {"cleanup", "package", "upload", "github"} => Out.dist # RlNone
  /\ rlRun.pc \in {"upload", "github"} => Out.archive = Out.dist
  /\ rlRun.pc = "github" => \A f \in DOMAIN Out.dist.audio : rlStore[f] = Out.dist.audio[f]

\* What is published is served by the store, step by step of the approval.
ReleaseInv ==
  /\ TreeFits /\ PlanFits /\ CacheFits /\ OutputsFit /\ WorldFits /\ ApprovalFits
  /\ PublishedIsServed /\ VerifiedIsTagged

\* The clips that a source uses.
LEMMA PrintsOf ==
  ASSUME NEW s \in RlSources
  PROVE  RlUses[s] \subseteq RlPrints
  BY DEF RlPrints

\* A distribution has a take for each clip of its source.
LEMMA DistributionHas ==
  ASSUME NEW d \in Distributions
  PROVE  /\ d.source \in RlSources /\ d.audio \in [RlUses[d.source] -> RlTakes] /\ d # RlNone
         /\ DOMAIN d.audio = RlUses[d.source] /\ DOMAIN d.audio \subseteq RlPrints
         /\ \A f \in DOMAIN d.audio : d.audio[f] \in RlTakes
<1>1. PICK s \in RlSources : \E a \in [RlUses[s] -> RlTakes] : d = [source |-> s, audio |-> a]
  BY DEF Distributions
<1>2. PICK a \in [RlUses[s] -> RlTakes] : d = [source |-> s, audio |-> a]
  BY <1>1
<1> QED
  BY <1>2, PrintsOf, ReleaseAssumption

\* A source and a take for each of its clips make a distribution.
LEMMA DistributionMade ==
  ASSUME NEW s \in RlSources, NEW a \in [RlUses[s] -> RlTakes]
  PROVE  [source |-> s, audio |-> a] \in Distributions
  BY DEF Distributions

\* No approval.
LEMMA NoRunFits == NoRun \in Approvals /\ NoRun.pc = "idle"
<1>1. <<>> \in [{} -> RlTakes]
  BY EmptySeq
<1> QED
  BY <1>1 DEF NoRun, Approvals, RunSteps

\* An empty release directory.
LEMMA NoOutFits == NoOut \in Outputs
  BY DEF NoOut, Outputs, Archives

\* It holds at the start.
LEMMA ReleaseStarts == RlInit => ReleaseInv
<1> SUFFICES ASSUME RlInit PROVE ReleaseInv
  OBVIOUS
<1>1. TreeFits /\ PlanFits
  BY DEF RlInit, TreeFits, PlanFits
<1>2. CacheFits
  BY ReleaseAssumption DEF RlInit, CacheFits, Takes, Budgets
<1>3. OutputsFit
  BY NoOutFits DEF RlInit, OutputsFit
<1>4. WorldFits
  BY DEF RlInit, WorldFits, Takes, Archives
<1>5. ApprovalFits
  BY NoRunFits DEF RlInit, ApprovalFits
<1>6. PublishedIsServed /\ VerifiedIsTagged
  BY DEF RlInit, PublishedIsServed, VerifiedIsTagged
<1> QED
  BY <1>1, <1>2, <1>3, <1>4, <1>5, <1>6 DEF ReleaseInv

\* A step of the approval that leaves sources, store and GitHub alone.
LEMMA ApprovalMoves ==
  ASSUME ReleaseInv, UNCHANGED rlPlan, UNCHANGED rlTree, UNCHANGED rlWorld, CacheFits',
         OutputsFit', ApprovalFits'
  PROVE  ReleaseInv'
<1>1. UNCHANGED <<rlSource, rlHead, rlTag>> /\ UNCHANGED <<rlStore, rlGithub, rlVerified>>
  BY DEF rlTree, rlWorld
<1>2. TreeFits' /\ PlanFits'
  BY <1>1 DEF ReleaseInv, TreeFits, PlanFits
<1>3. WorldFits' /\ PublishedIsServed' /\ VerifiedIsTagged'
  BY <1>1 DEF ReleaseInv, WorldFits, PublishedIsServed, VerifiedIsTagged
<1> QED
  BY <1>2, <1>3 DEF ReleaseInv

\* The approval ends.
LEMMA ApprovalEnds ==
  ASSUME ReleaseInv, RunEnds, UNCHANGED rlPlan, UNCHANGED rlTree, UNCHANGED rlWorld, CacheFits',
         OutputsFit'
  PROVE  ReleaseInv'
<1>1. ApprovalFits'
  BY NoRunFits DEF RunEnds, ApprovalFits
<1> QED
  BY <1>1, ApprovalMoves

\* A step of somebody else.
LEMMA ApprovalStays ==
  ASSUME ReleaseInv, UNCHANGED rlRun, UNCHANGED rlOut, UNCHANGED rlStore,
         rlPlan # RlNone => rlPlan' # RlNone
  PROVE  ApprovalFits'
  BY DEF ReleaseInv, ApprovalFits, Out

\* EditSource: the working tree is another.
LEMMA EditSourceKeeps == ASSUME ReleaseInv, EditSource PROVE ReleaseInv'
<1>1. /\ rlSource' \in RlSources
      /\ UNCHANGED <<rlHead, rlTag, rlPlan, rlCache, rlFindings, rlOut, rlRun, rlBudget>>
      /\ UNCHANGED <<rlStore, rlGithub, rlVerified>>
  BY DEF EditSource, rlWorld
<1>2. ApprovalFits'
  BY <1>1, ApprovalStays
<1> QED
  BY <1>1, <1>2
  DEF ReleaseInv, TreeFits, PlanFits, CacheFits, OutputsFit, WorldFits, PublishedIsServed, VerifiedIsTagged

\* CommitAndTag: a tag gets its source for good.
LEMMA CommitAndTagKeeps == ASSUME ReleaseInv, CommitAndTag PROVE ReleaseInv'
<1>1. /\ UNCHANGED <<rlSource, rlPlan, rlCache, rlFindings, rlOut, rlRun, rlBudget>>
      /\ UNCHANGED <<rlStore, rlGithub, rlVerified>> /\ rlHead' = rlSource
  BY DEF CommitAndTag, rlWorld
<1>2. PICK t \in RlTags : rlTag[t] = RlNone /\ rlTag' = [rlTag EXCEPT ![t] = rlSource]
  BY DEF CommitAndTag
<1>3. TreeFits'
  BY <1>1, <1>2 DEF ReleaseInv, TreeFits
<1>4. ApprovalFits'
  BY <1>1, ApprovalStays
<1>5. VerifiedIsTagged'
  <2> SUFFICES ASSUME NEW u \in rlVerified PROVE rlGithub[u].source = rlTag'[u]
    BY <1>1 DEF VerifiedIsTagged
  <2>1. rlGithub[u] \in Distributions /\ rlGithub[u].source = rlTag[u] /\ u \in RlTags
    BY DEF ReleaseInv, WorldFits, Archives, VerifiedIsTagged
  <2>2. u # t
    BY <2>1, <1>2, DistributionHas, ReleaseAssumption
  <2> QED
    BY <2>1, <2>2, <1>2 DEF ReleaseInv, TreeFits
<1> QED
  BY <1>1, <1>3, <1>4, <1>5 DEF ReleaseInv, PlanFits, CacheFits, OutputsFit, WorldFits,
       PublishedIsServed

\* A new take is one, and one less is left.
LEMMA MakesTake ==
  ASSUME CacheFits, MayTake, Makes
  PROVE  NewTake \in RlTakes /\ rlBudget' \in Budgets
<1>1. rlBudget.takes \in Nat /\ rlBudget \in Budgets
  BY DEF CacheFits, Budgets
<1>2. NewTake \in RlTakes
  BY <1>1, ReleaseAssumption DEF NewTake, MayTake, RlTakes
<1>3. rlBudget' \in Budgets
  BY <1>1 DEF Makes, Budgets
<1> QED
  BY <1>2, <1>3

\* Record: a clip is recorded, or recorded anew.
LEMMA RecordKeeps == ASSUME ReleaseInv, NEW f \in RlPrints, Record(f) PROVE ReleaseInv'
<1>1. /\ UNCHANGED <<rlPlan, rlOut, rlRun, rlSource, rlHead, rlTag, rlStore, rlGithub, rlVerified>>
      /\ rlCache' = [rlCache EXCEPT ![f] = NewTake]
      /\ rlFindings' \in {rlFindings \union {f}, rlFindings \ {f}}
      /\ MayTake /\ Makes
  BY DEF Record, rlTree, rlWorld
<1>2. CacheFits'
  BY <1>1, MakesTake DEF ReleaseInv, CacheFits, Takes
<1>3. ApprovalFits'
  BY <1>1, ApprovalStays
<1> QED
  BY <1>1, <1>2, <1>3 DEF ReleaseInv, TreeFits, PlanFits, OutputsFit, WorldFits,
       PublishedIsServed, VerifiedIsTagged

\* The takes that a published archive holds.
LEMMA HistoricalTyped == ASSUME ReleaseInv, NEW f PROVE Historical(f) \subseteq RlTakes
<1> SUFFICES ASSUME NEW t \in RlTags, rlOut[t].dist # RlNone, f \in DOMAIN rlOut[t].dist.audio
             PROVE  rlOut[t].dist.audio[f] \in RlTakes
  BY DEF Historical
<1>1. rlOut[t].dist \in Distributions
  BY DEF ReleaseInv, OutputsFit, Outputs, Archives
<1> QED
  BY <1>1, DistributionHas

\* One of a bound is spent.
LEMMA Spends ==
  ASSUME CacheFits, NEW what \in {"plans", "runs", "faults"}, Spent(what), SpendOf(what)
  PROVE  rlBudget' \in Budgets
<1>1. rlBudget \in Budgets
  BY DEF CacheFits
<1>2. CASE what = "plans"
  BY <1>1, <1>2 DEF Spent, SpendOf, Budgets
<1>3. CASE what = "runs"
  BY <1>1, <1>3 DEF Spent, SpendOf, Budgets
<1>4. CASE what = "faults"
  BY <1>1, <1>4 DEF Spent, SpendOf, Budgets
<1> QED
  BY <1>2, <1>3, <1>4

\* PlanRelease: a plan for a tag.
LEMMA PlanReleaseKeeps == ASSUME ReleaseInv, PlanRelease PROVE ReleaseInv'
<1> DEFINE needed == RlUses[rlSource]
<1> DEFINE excluded == needed \intersect rlFindings
<1> DEFINE reuse == [f \in needed |-> IF f \in excluded THEN RlNone ELSE ReusableOf(f)]
<1>1. PICK t \in RlTags : rlPlan' = [source |-> rlSource, tag |-> t, excluded |-> excluded, reuse |-> reuse]
  BY DEF PlanRelease
<1>2. /\ UNCHANGED <<rlCache, rlFindings, rlOut, rlRun, rlSource, rlHead, rlTag, rlStore, rlGithub, rlVerified>>
      /\ Spent("plans") /\ SpendOf("plans")
  BY DEF PlanRelease, rlTree, rlWorld
<1>3. rlSource \in RlSources /\ needed \subseteq RlPrints /\ excluded \subseteq RlPrints
  BY PrintsOf DEF ReleaseInv, TreeFits
<1>4. reuse \in [needed -> Takes]
  <2>1. ASSUME NEW f \in needed PROVE ReusableOf(f) \in Takes
    BY <1>3, HistoricalTyped DEF ReusableOf, ReleaseInv, CacheFits, Takes
  <2> HIDE DEF needed, excluded
  <2> QED
    BY <2>1 DEF Takes
<1>5. PlanFits'
  <2> HIDE DEF needed, excluded, reuse
  <2>1. reuse \in UNION {[S -> Takes] : S \in SUBSET RlPrints}
    BY <1>3, <1>4
  <2> QED
    BY <1>1, <1>3, <2>1 DEF PlanFits, Plans
<1>6. rlPlan' # RlNone \/ rlRun.pc # "seed"
  BY DEF PlanRelease, InRun
<1>7. CacheFits'
  BY <1>2, Spends DEF ReleaseInv, CacheFits
<1>8. ApprovalFits'
  BY <1>2, <1>6 DEF ReleaseInv, ApprovalFits, Out
<1> QED
  BY <1>2, <1>5, <1>7, <1>8 DEF ReleaseInv, TreeFits, OutputsFit, WorldFits, PublishedIsServed,
       VerifiedIsTagged

\* A plan names a tag, clips and takes.
LEMMA PlanHas ==
  ASSUME ReleaseInv, rlPlan # RlNone
  PROVE  /\ rlPlan.tag \in RlTags /\ rlPlan.excluded \subseteq RlPrints /\ DOMAIN rlPlan.reuse \subseteq RlPrints
         /\ \A f \in DOMAIN rlPlan.reuse : rlPlan.reuse[f] \in Takes
<1>1. rlPlan \in Plans
  BY DEF ReleaseInv, PlanFits
<1>2. PICK S \in SUBSET RlPrints : rlPlan.reuse \in [S -> Takes]
  BY <1>1 DEF Plans
<1> QED
  BY <1>1, <1>2 DEF Plans

\* Approve: the approval starts with the plan.
LEMMA ApproveKeeps == ASSUME ReleaseInv, Approve PROVE ReleaseInv'
<1> DEFINE r == [NoRun EXCEPT !.pc = "seed", !.tag = rlPlan.tag, !.forced = rlPlan.excluded]
<1>1. /\ rlRun' = r /\ rlPlan # RlNone /\ UNCHANGED <<rlPlan, rlCache, rlFindings, rlOut>>
      /\ UNCHANGED rlTree /\ UNCHANGED rlWorld /\ Spent("runs") /\ SpendOf("runs")
  BY DEF Approve
<1>2. r \in Approvals /\ r.pc = "seed" /\ r.tag \in RlTags /\ r.staged = NoRun.staged
  BY <1>1, NoRunFits, PlanHas DEF Approvals, RunSteps
<1>6. DOMAIN NoRun.staged = {}
  BY EmptySeq DEF NoRun
<1> HIDE DEF r
<1>3. ApprovalFits'
  BY <1>1, <1>2, <1>6 DEF ApprovalFits
<1>4. CacheFits'
  BY <1>1, Spends DEF ReleaseInv, CacheFits
<1>5. OutputsFit'
  BY <1>1 DEF ReleaseInv, OutputsFit
<1> QED
  BY <1>1, <1>3, <1>4, <1>5, ApprovalMoves

\* SeedCache: takes of the last release go to the cache.
LEMMA SeedCacheKeeps == ASSUME ReleaseInv, SeedCache PROVE ReleaseInv'
<1> DEFINE seeded(S) == [f \in RlPrints |-> IF f \in S THEN rlPlan.reuse[f] ELSE rlCache[f]]
<1>1. PICK S \in SUBSET DOMAIN rlPlan.reuse : rlCache' = seeded(S) /\ (RunEnds \/ RunGoes("reconcile"))
  BY DEF SeedCache
<1>2. /\ UNCHANGED <<rlPlan, rlFindings, rlOut, rlBudget>> /\ UNCHANGED rlTree
      /\ UNCHANGED rlWorld
      /\ rlRun.pc = "seed"
  BY DEF SeedCache, InRun
<1>3. rlPlan # RlNone /\ rlRun \in Approvals /\ rlRun.tag \in RlTags
  BY <1>2 DEF ReleaseInv, ApprovalFits
<1>4. CacheFits'
  BY <1>1, <1>2, <1>3, PlanHas DEF ReleaseInv, CacheFits
<1>5. OutputsFit'
  BY <1>2 DEF ReleaseInv, OutputsFit
<1>6. CASE RunEnds
  BY <1>2, <1>4, <1>5, <1>6, ApprovalEnds
<1>7. CASE RunGoes("reconcile")
  <2> DEFINE r == [rlRun EXCEPT !.pc = "reconcile"]
  <2>1. r \in Approvals /\ r.pc = "reconcile" /\ r.tag \in RlTags /\ r.staged = rlRun.staged
    BY <1>3 DEF Approvals, RunSteps
  <2>2. rlRun' = r
    BY <1>7 DEF RunGoes
  <2> HIDE DEF r
  <2>3. ApprovalFits'
    BY <1>2, <2>1, <2>2 DEF ReleaseInv, ApprovalFits
  <2> QED
    BY <1>2, <1>4, <1>5, <2>3, ApprovalMoves
<1> QED
  BY <1>1, <1>6, <1>7

\* What a recovery leaves of a release directory is whole.
LEMMA RecoveredFits ==
  ASSUME NEW out \in Outputs
  PROVE  /\ Recovered(out) \in Outputs /\ Recovered(out).backup = RlNone
         /\ out.dist # RlNone \/ out.backup # RlNone => Recovered(out).dist # RlNone
  BY DEF Recovered, Outputs, Archives

\* The release directory of the approval.
LEMMA OutFits == ASSUME ReleaseInv, ~InRun("idle") PROVE rlRun \in Approvals /\ rlRun.tag \in RlTags /\ Out \in Outputs
  BY DEF ReleaseInv, ApprovalFits, InRun, OutputsFit, Out

\* Reconcile: the swap of an earlier approval is finished or undone.
LEMMA ReconcileKeeps == ASSUME ReleaseInv, Reconcile PROVE ReleaseInv'
<1> DEFINE t == rlRun.tag
<1> DEFINE out == Recovered(rlOut[t])
<1> DEFINE r == [rlRun EXCEPT !.pc = "stage", !.source = rlSource]
<1>1. /\ rlOut' = [rlOut EXCEPT ![t] = out] /\ rlRun' = r /\ rlRun.pc = "reconcile"
      /\ UNCHANGED <<rlPlan, rlCache, rlFindings, rlBudget>> /\ UNCHANGED rlTree
      /\ UNCHANGED rlWorld
  BY DEF Reconcile, InRun
<1>2. rlRun \in Approvals /\ t \in RlTags /\ rlOut[t] \in Outputs /\ rlSource \in RlSources
  BY <1>1, OutFits DEF InRun, Out, ReleaseInv, TreeFits
<1>3. out \in Outputs /\ out.backup = RlNone
  BY <1>2, RecoveredFits
<1>4. /\ r \in Approvals /\ r.pc = "stage" /\ r.tag = t /\ r.source = rlSource
      /\ r.staged = rlRun.staged
  BY <1>2 DEF Approvals, RunSteps
<1>5. DOMAIN rlRun.staged = {}
  BY <1>1 DEF ReleaseInv, ApprovalFits
<1> HIDE DEF r, out, t
<1>6. OutputsFit' /\ rlOut'[t] = out
  BY <1>1, <1>2, <1>3 DEF ReleaseInv, OutputsFit
<1>7. ApprovalFits'
  BY <1>1, <1>2, <1>3, <1>4, <1>5, <1>6 DEF ApprovalFits, Out
<1>8. CacheFits'
  BY <1>1 DEF ReleaseInv, CacheFits
<1> QED
  BY <1>1, <1>6, <1>7, <1>8, ApprovalMoves

\* One more clip is staged.
LEMMA StagesFits ==
  ASSUME ReleaseInv, rlRun.pc = "stage", NEW f \in RlUses[rlRun.source] \ StagedNow,
         NEW take \in RlTakes, Stages(f, take),
         UNCHANGED <<rlPlan, rlOut>>
  PROVE  ApprovalFits'
<1> DEFINE staged == [g \in StagedNow \union {f} |-> IF g = f THEN take ELSE rlRun.staged[g]]
<1> DEFINE r == [rlRun EXCEPT !.staged = staged]
<1>1. /\ rlRun \in Approvals /\ rlRun.source \in RlSources
      /\ StagedNow \subseteq RlUses[rlRun.source]
      /\ rlRun.tag \in RlTags /\ Out.backup = RlNone
  BY DEF ReleaseInv, ApprovalFits, StagedNow
<1>2. PICK S \in SUBSET RlPrints : rlRun.staged \in [S -> RlTakes]
  BY <1>1 DEF Approvals
<1>3. staged \in [StagedNow \union {f} -> RlTakes]
  BY <1>2 DEF StagedNow
<1>4. /\ StagedNow \union {f} \subseteq RlUses[rlRun.source]
      /\ StagedNow \union {f} \subseteq RlPrints
  BY <1>1, PrintsOf
<1>5. rlRun' = r
  BY DEF Stages
<1> HIDE DEF staged
<1>6. /\ staged \in UNION {[T -> RlTakes] : T \in SUBSET RlPrints}
      /\ DOMAIN staged \subseteq RlUses[rlRun.source]
  BY <1>3, <1>4
<1>7. /\ r \in Approvals /\ r.pc = "stage" /\ r.tag = rlRun.tag /\ r.source = rlRun.source
      /\ r.staged = staged
  BY <1>1, <1>6 DEF Approvals
<1> HIDE DEF r
<1> QED
  BY <1>1, <1>5, <1>6, <1>7 DEF ApprovalFits, Out

\* StageAudio: a clip from the cache, the store or the provider.
LEMMA StageAudioKeeps == ASSUME ReleaseInv, NEW f, StageAudio(f) PROVE ReleaseInv'
<1>1. /\ UNCHANGED <<rlPlan, rlFindings, rlOut>> /\ UNCHANGED rlTree /\ UNCHANGED rlWorld
      /\ rlRun.pc = "stage" /\ f \in RlUses[rlRun.source] \ StagedNow
  BY DEF StageAudio, InRun
<1>2. f \in RlPrints
  BY <1>1, PrintsOf DEF ReleaseInv, ApprovalFits
<1>3. OutputsFit'
  BY <1>1 DEF ReleaseInv, OutputsFit
<1>4. CASE rlCache[f] # RlNone /\ Stages(f, rlCache[f]) /\ UNCHANGED <<rlCache, rlBudget>>
  <2>1. CacheFits' /\ rlCache[f] \in RlTakes
    BY <1>1, <1>2, <1>4 DEF ReleaseInv, CacheFits, Takes
  <2> QED
    BY <1>1, <1>3, <1>4, <2>1, StagesFits, ApprovalMoves
<1>5. CASE MayTake /\ rlCache' = [rlCache EXCEPT ![f] = NewTake] /\ Stages(f, NewTake) /\ Makes
  <2>1. NewTake \in RlTakes /\ rlBudget' \in Budgets
    BY <1>5, MakesTake DEF ReleaseInv
  <2>2. CacheFits'
    BY <1>1, <1>5, <2>1 DEF ReleaseInv, CacheFits, Takes
  <2> QED
    BY <1>1, <1>3, <1>5, <2>1, <2>2, StagesFits, ApprovalMoves
<1> QED
  BY <1>4, <1>5 DEF StageAudio

\* A step on the release directory.
LEMMA OutMoves ==
  ASSUME ReleaseInv, NEW pc \in RunSteps \ {"idle"}, NEW next \in RunSteps, NEW out \in Outputs,
         OutStep(pc, next, out)
  PROVE  /\ rlRun.pc = pc /\ rlRun'.pc = next /\ rlRun' \in Approvals /\ rlRun.tag \in RlTags
         /\ rlRun'.tag = rlRun.tag /\ rlRun'.source = rlRun.source /\ rlRun'.staged = rlRun.staged
         /\ Out' = out
         /\ rlOut' = [rlOut EXCEPT ![rlRun.tag] = out] /\ UNCHANGED <<rlPlan, rlStore>>
         /\ ApprovalFits' => ReleaseInv'
<1>1. /\ rlOut' = [rlOut EXCEPT ![rlRun.tag] = out] /\ rlRun' = [rlRun EXCEPT !.pc = next]
      /\ UNCHANGED <<rlPlan, rlCache, rlFindings, rlBudget>> /\ UNCHANGED rlTree
      /\ UNCHANGED rlWorld /\ rlRun.pc = pc
  BY DEF OutStep, InRun, RunGoes
<1>2. rlRun \in Approvals /\ rlRun.tag \in RlTags
  BY <1>1, OutFits DEF InRun
<1>3. /\ rlRun' \in Approvals /\ rlRun'.pc = next /\ rlRun'.tag = rlRun.tag
      /\ rlRun'.source = rlRun.source
      /\ rlRun'.staged = rlRun.staged
  BY <1>1, <1>2 DEF Approvals
<1>4. OutputsFit' /\ Out' = out
  BY <1>1, <1>2, <1>3 DEF ReleaseInv, OutputsFit, Out
<1>5. CacheFits'
  BY <1>1 DEF ReleaseInv, CacheFits
<1>6. UNCHANGED rlStore
  BY <1>1 DEF rlWorld
<1> QED
  BY <1>1, <1>2, <1>3, <1>4, <1>5, <1>6, ApprovalMoves

\* MoveOldAside: the old distribution becomes the backup.
LEMMA MoveOldAsideKeeps == ASSUME ReleaseInv, MoveOldAside PROVE ReleaseInv'
<1> DEFINE out == SetAside(Out)
<1>1. OutStep("stage", "rename", out) /\ Complete
  BY DEF MoveOldAside
<1>2. Out \in Outputs
  BY <1>1, OutFits DEF OutStep, InRun
<1>3. out \in Outputs
  BY <1>2 DEF SetAside, Outputs, Archives
<1>4. "stage" \in RunSteps \ {"idle"} /\ "rename" \in RunSteps
  BY DEF RunSteps
<1> HIDE DEF out
<1>5. /\ rlRun.pc = "stage" /\ rlRun'.pc = "rename" /\ rlRun' \in Approvals
      /\ rlRun.tag \in RlTags
      /\ rlRun'.tag = rlRun.tag /\ rlRun'.source = rlRun.source /\ rlRun'.staged = rlRun.staged
      /\ ApprovalFits' => ReleaseInv'
  BY <1>1, <1>3, <1>4, OutMoves
<1>6. rlRun.source \in RlSources /\ DOMAIN rlRun.staged = RlUses[rlRun.source]
  BY <1>1, <1>5 DEF ReleaseInv, ApprovalFits, Complete, StagedNow
<1>7. ApprovalFits'
  BY <1>5, <1>6 DEF ApprovalFits
<1> QED
  BY <1>5, <1>7

\* What was staged is a distribution.
LEMMA RenamedFits ==
  ASSUME ReleaseInv, rlRun.pc = "rename"
  PROVE  [source |-> rlRun.source, audio |-> rlRun.staged] \in Distributions
<1>1. /\ rlRun \in Approvals /\ rlRun.source \in RlSources
      /\ DOMAIN rlRun.staged = RlUses[rlRun.source]
  BY DEF ReleaseInv, ApprovalFits
<1>2. PICK S \in SUBSET RlPrints : rlRun.staged \in [S -> RlTakes]
  BY <1>1 DEF Approvals
<1>3. rlRun.staged \in [RlUses[rlRun.source] -> RlTakes]
  BY <1>1, <1>2
<1> QED
  BY <1>1, <1>3, DistributionMade

\* MoveNewIn: the new one takes its place.
LEMMA MoveNewInKeeps == ASSUME ReleaseInv, MoveNewIn PROVE ReleaseInv'
<1> DEFINE new == [source |-> rlRun.source, audio |-> rlRun.staged]
<1> DEFINE out == [Out EXCEPT !.dist = new]
<1>1. OutStep("rename", "cleanup", out)
  BY DEF MoveNewIn
<1>2. Out \in Outputs /\ new \in Distributions /\ rlRun.pc = "rename"
  BY <1>1, OutFits, RenamedFits DEF OutStep, InRun
<1> HIDE DEF new
<1>3. out \in Outputs /\ out.dist = new /\ new # RlNone
  BY <1>2, DistributionHas DEF Outputs, Archives
<1>4. "rename" \in RunSteps \ {"idle"} /\ "cleanup" \in RunSteps
  BY DEF RunSteps
<1> HIDE DEF out
<1>5. /\ rlRun'.pc = "cleanup" /\ rlRun' \in Approvals /\ rlRun'.tag \in RlTags /\ Out' = out
      /\ ApprovalFits' => ReleaseInv'
  BY <1>1, <1>3, <1>4, OutMoves
<1>7. ApprovalFits'
  BY <1>3, <1>5 DEF ApprovalFits
<1> QED
  BY <1>5, <1>7

\* DropBackup: the backup goes.
LEMMA DropBackupKeeps == ASSUME ReleaseInv, DropBackup PROVE ReleaseInv'
<1> DEFINE out == [Out EXCEPT !.backup = RlNone]
<1>1. OutStep("cleanup", "package", out)
  BY DEF DropBackup
<1>2. Out \in Outputs /\ Out.dist # RlNone
  BY <1>1, OutFits DEF OutStep, InRun, ReleaseInv, ApprovalFits
<1>3. out \in Outputs /\ out.dist = Out.dist
  BY <1>2 DEF Outputs, Archives
<1>4. "cleanup" \in RunSteps \ {"idle"} /\ "package" \in RunSteps
  BY DEF RunSteps
<1> HIDE DEF out
<1>5. /\ rlRun'.pc = "package" /\ rlRun' \in Approvals /\ rlRun'.tag \in RlTags /\ Out' = out
      /\ ApprovalFits' => ReleaseInv'
  BY <1>1, <1>3, <1>4, OutMoves
<1>7. ApprovalFits'
  BY <1>2, <1>3, <1>5 DEF ApprovalFits
<1> QED
  BY <1>5, <1>7

\* Package: the archive is made of the distribution.
LEMMA PackageKeeps == ASSUME ReleaseInv, Package PROVE ReleaseInv'
<1> DEFINE out == [Out EXCEPT !.archive = Out.dist]
<1>1. OutStep("package", "upload", out)
  BY DEF Package
<1>2. Out \in Outputs /\ Out.dist # RlNone
  BY <1>1, OutFits DEF OutStep, InRun, ReleaseInv, ApprovalFits
<1>3. out \in Outputs /\ out.dist = Out.dist /\ out.archive = Out.dist
  BY <1>2 DEF Outputs, Archives
<1>4. "package" \in RunSteps \ {"idle"} /\ "upload" \in RunSteps
  BY DEF RunSteps
<1> HIDE DEF out
<1>5. /\ rlRun'.pc = "upload" /\ rlRun' \in Approvals /\ rlRun'.tag \in RlTags /\ Out' = out
      /\ ApprovalFits' => ReleaseInv'
  BY <1>1, <1>3, <1>4, OutMoves
<1>7. ApprovalFits'
  BY <1>2, <1>3, <1>5 DEF ApprovalFits
<1> QED
  BY <1>5, <1>7

\* AudioPublished: every clip of it is in the store.
LEMMA AudioPublishedKeeps == ASSUME ReleaseInv, AudioPublished PROVE ReleaseInv'
<1>1. OutStep("upload", "github", Out) /\ AllUploaded
  BY DEF AudioPublished
<1>2. Out \in Outputs /\ Out.dist # RlNone /\ Out.archive = Out.dist
  BY <1>1, OutFits DEF OutStep, InRun, ReleaseInv, ApprovalFits
<1>3. \A f \in DOMAIN Out.dist.audio : rlStore[f] = Out.dist.audio[f]
  BY <1>1 DEF AllUploaded, Uploaded
<1>4. "upload" \in RunSteps \ {"idle"} /\ "github" \in RunSteps
  BY DEF RunSteps
<1>5. /\ rlRun'.pc = "github" /\ rlRun' \in Approvals /\ rlRun'.tag \in RlTags /\ Out' = Out
      /\ UNCHANGED rlStore
      /\ ApprovalFits' => ReleaseInv'
  BY <1>1, <1>2, <1>4, OutMoves
<1>7. ApprovalFits'
  BY <1>2, <1>3, <1>5 DEF ApprovalFits
<1> QED
  BY <1>5, <1>7

\* An approval that is refused leaves all as it was.
LEMMA RefusedKeeps ==
  ASSUME ReleaseInv, RunEnds, UNCHANGED <<rlPlan, rlCache, rlFindings, rlOut, rlBudget>>,
         UNCHANGED rlTree, UNCHANGED rlWorld
  PROVE  ReleaseInv'
<1>1. CacheFits' /\ OutputsFit'
  BY DEF ReleaseInv, CacheFits, OutputsFit
<1> QED
  BY <1>1, ApprovalEnds

\* The store gets a clip that it lacked.
LEMMA StoreGrows ==
  ASSUME ReleaseInv, NEW f, UploadAudio(f)
  PROVE  /\ \A g \in RlPrints : rlStore[g] # RlNone => rlStore'[g] = rlStore[g]
         /\ rlStore' \in [RlPrints -> Takes]
<1>1. rlStore[f] = RlNone /\ rlStore' = [rlStore EXCEPT ![f] = Out.dist.audio[f]] /\ f \in DOMAIN Out.dist.audio
      /\ rlRun.pc = "upload"
  BY DEF UploadAudio, StoreTakes, InRun
<1>2. Out \in Outputs /\ Out.dist # RlNone
  BY <1>1, OutFits DEF InRun, ReleaseInv, ApprovalFits
<1>3. Out.dist \in Distributions
  BY <1>2 DEF Outputs, Archives
<1>4. Out.dist.audio[f] \in RlTakes /\ f \in RlPrints
  BY <1>1, <1>3, DistributionHas
<1>5. rlStore \in [RlPrints -> Takes]
  BY DEF ReleaseInv, WorldFits
<1> QED
  BY <1>1, <1>4, <1>5 DEF Takes

\* UploadAudio: one clip is uploaded, unless the store has it.
LEMMA UploadAudioKeeps == ASSUME ReleaseInv, NEW f, UploadAudio(f) PROVE ReleaseInv'
<1>1. /\ UNCHANGED <<rlPlan, rlCache, rlFindings, rlOut, rlRun, rlBudget, rlGithub, rlVerified>>
      /\ UNCHANGED <<rlSource, rlHead, rlTag>> /\ rlRun.pc = "upload"
  BY DEF UploadAudio, rlTree, InRun
<1>2. /\ \A g \in RlPrints : rlStore[g] # RlNone => rlStore'[g] = rlStore[g]
      /\ rlStore' \in [RlPrints -> Takes]
  BY StoreGrows
<1>3. PublishedIsServed'
  <2> SUFFICES ASSUME NEW t \in RlTags, rlGithub[t] # RlNone, NEW g \in DOMAIN rlGithub[t].audio
               PROVE  rlStore'[g] = rlGithub[t].audio[g]
    BY <1>1 DEF PublishedIsServed
  <2>1. rlGithub[t] \in Distributions /\ rlStore[g] = rlGithub[t].audio[g]
    BY DEF ReleaseInv, WorldFits, Archives, PublishedIsServed
  <2>2. g \in RlPrints /\ rlStore[g] # RlNone
    BY <2>1, DistributionHas, ReleaseAssumption
  <2> QED
    BY <1>2, <2>1, <2>2
<1>4. ApprovalFits'
  BY <1>1 DEF ReleaseInv, ApprovalFits, Out
<1>5. WorldFits'
  BY <1>1, <1>2 DEF ReleaseInv, WorldFits
<1> QED
  BY <1>1, <1>3, <1>4, <1>5 DEF ReleaseInv, TreeFits, PlanFits, CacheFits, OutputsFit,
       VerifiedIsTagged

\* GitHub gets the archive of the release.
LEMMA AssetFits ==
  ASSUME ReleaseInv, GithubStep, rlGithub[rlRun.tag] = RlNone,
         GithubHas(Out.archive) \/ UNCHANGED rlGithub,
         rlBudget' \in Budgets, ApprovalFits'
  PROVE  ReleaseInv'
<1> DEFINE t == rlRun.tag
<1>1. /\ UNCHANGED <<rlPlan, rlCache, rlFindings, rlOut, rlStore, rlVerified, rlSource, rlHead, rlTag>>
      /\ rlRun.pc = "github"
  BY DEF GithubStep, InRun, rlTree
<1>2. /\ t \in RlTags /\ Out \in Outputs /\ Out.archive = Out.dist
      /\ \A f \in DOMAIN Out.dist.audio : rlStore[f] = Out.dist.audio[f]
  BY <1>1, OutFits DEF InRun, ReleaseInv, ApprovalFits
<1>3. Out.archive \in Archives
  BY <1>2 DEF Outputs
<1>4. /\ rlGithub' \in [RlTags -> Archives]
      /\ \A u \in RlTags : u # t => rlGithub'[u] = rlGithub[u]
      /\ rlGithub'[t] \in {Out.archive, RlNone}
  BY <1>2, <1>3 DEF GithubHas, ReleaseInv, WorldFits
<1>5. \A u \in rlVerified : u # t
  BY DEF ReleaseInv, WorldFits
<1> HIDE DEF t
<1>6. WorldFits'
  BY <1>1, <1>4, <1>5 DEF ReleaseInv, WorldFits
<1>7. PublishedIsServed'
  BY <1>1, <1>2, <1>4 DEF ReleaseInv, PublishedIsServed
<1>8. VerifiedIsTagged'
  BY <1>1, <1>4, <1>5 DEF ReleaseInv, VerifiedIsTagged, WorldFits
<1>9. CacheFits'
  BY <1>1 DEF ReleaseInv, CacheFits
<1> QED
  BY <1>1, <1>6, <1>7, <1>8, <1>9 DEF ReleaseInv, TreeFits, PlanFits, OutputsFit

\* The archive is there; the voices are next.
LEMMA RunIsUp == ASSUME ReleaseInv, rlRun.pc = "github", RunGoes("voices") PROVE ApprovalFits'
<1>1. rlRun \in Approvals /\ rlRun.tag \in RlTags /\ rlRun' = [rlRun EXCEPT !.pc = "voices"]
  BY OutFits DEF InRun, RunGoes
<1>2. rlRun' \in Approvals /\ rlRun'.pc = "voices" /\ rlRun'.tag \in RlTags
  BY <1>1 DEF Approvals, RunSteps
<1> QED
  BY <1>2 DEF ApprovalFits

\* GithubMatched: the asset is there, and the same.
LEMMA GithubMatchedKeeps == ASSUME ReleaseInv, GithubMatched PROVE ReleaseInv'
<1>1. /\ UNCHANGED <<rlPlan, rlCache, rlFindings, rlOut, rlBudget>> /\ UNCHANGED rlTree
      /\ UNCHANGED rlWorld
      /\ rlRun.pc = "github" /\ RunGoes("voices")
  BY DEF GithubMatched, GithubStep, rlWorld, InRun
<1>2. CacheFits' /\ OutputsFit'
  BY <1>1 DEF ReleaseInv, CacheFits, OutputsFit
<1> QED
  BY <1>1, <1>2, RunIsUp, ApprovalMoves

\* GithubDiffers: another one is there; the approval fails.
LEMMA GithubDiffersKeeps == ASSUME ReleaseInv, GithubDiffers PROVE ReleaseInv'
  BY RefusedKeeps DEF GithubDiffers, GithubStep, rlWorld

\* GithubUploaded: the upload is answered.
LEMMA GithubUploadedKeeps == ASSUME ReleaseInv, GithubUploaded PROVE ReleaseInv'
<1>1. /\ GithubStep /\ rlGithub[rlRun.tag] = RlNone /\ GithubHas(Out.archive)
      /\ rlRun.pc = "github" /\ RunGoes("voices")
      /\ UNCHANGED rlBudget
  BY DEF GithubUploaded, GithubFree, GithubStep, InRun
<1>2. rlBudget' \in Budgets
  BY <1>1 DEF ReleaseInv, CacheFits
<1> QED
  BY <1>1, <1>2, RunIsUp, AssetFits

\* GithubTimeout: the answer is lost, the asset may be there.
LEMMA GithubTimeoutKeeps == ASSUME ReleaseInv, GithubTimeout PROVE ReleaseInv'
<1>1. /\ GithubStep /\ rlGithub[rlRun.tag] = RlNone /\ rlRun.pc = "github"
      /\ Spent("faults") /\ SpendOf("faults")
      /\ UNCHANGED <<rlPlan, rlOut, rlStore>>
  BY DEF GithubTimeout, GithubFree, GithubStep, InRun
<1>2. PICK arrived \in BOOLEAN : GithubHas(IF arrived THEN Out.archive ELSE rlGithub[rlRun.tag])
  BY DEF GithubTimeout
<1>3. rlGithub \in [RlTags -> Archives] /\ rlRun.tag \in RlTags
  BY <1>1, OutFits DEF InRun, ReleaseInv, WorldFits
<1>4. GithubHas(Out.archive) \/ UNCHANGED rlGithub
  BY <1>2, <1>3 DEF GithubHas
<1>5. rlBudget' \in Budgets
  BY <1>1, Spends DEF ReleaseInv
<1>6. ApprovalFits'
  <2>1. CASE RunEnds
    BY <2>1, NoRunFits DEF RunEnds, ApprovalFits
  <2>2. CASE rlRun' = [rlRun EXCEPT !.again = TRUE]
    <3>1. /\ rlRun' \in Approvals /\ rlRun'.pc = "github" /\ rlRun'.tag = rlRun.tag
          /\ rlRun'.source = rlRun.source /\ rlRun'.staged = rlRun.staged
      BY <1>1, <2>2 DEF ReleaseInv, ApprovalFits, Approvals
    <3> QED
      BY <1>1, <1>3, <3>1 DEF ReleaseInv, ApprovalFits, Out
  <2> QED
    BY <2>1, <2>2 DEF GithubTimeout
<1> QED
  BY <1>1, <1>4, <1>5, <1>6, AssetFits

\* RunFails: an error at any step.
LEMMA RunFailsKeeps == ASSUME ReleaseInv, RunFails PROVE ReleaseInv'
<1>1. /\ RunEnds /\ UNCHANGED <<rlPlan, rlCache, rlFindings>> /\ UNCHANGED rlTree
      /\ UNCHANGED rlWorld
      /\ ~InRun("idle") /\ Spent("faults") /\ SpendOf("faults")
      /\ UNCHANGED rlOut \/ rlOut' = [rlOut EXCEPT ![rlRun.tag] = Recovered(rlOut[rlRun.tag])]
  BY DEF RunFails
<1>2. Out \in Outputs /\ rlRun.tag \in RlTags
  BY <1>1, OutFits
<1>3. OutputsFit'
  BY <1>1, <1>2, RecoveredFits DEF ReleaseInv, OutputsFit, Out
<1>4. CacheFits'
  BY <1>1, Spends DEF ReleaseInv, CacheFits
<1> QED
  BY <1>1, <1>3, <1>4, ApprovalEnds

\* Verify: the deployment checks what GitHub serves.
LEMMA VerifyKeeps == ASSUME ReleaseInv, NEW t \in RlTags, Verify(t) PROVE ReleaseInv'
<1>1. /\ UNCHANGED <<rlPlan, rlCache, rlFindings, rlOut, rlRun, rlBudget, rlStore, rlGithub, rlSource, rlHead, rlTag>>
      /\ rlGithub[t] # RlNone /\ rlGithub[t].source = rlTag[t]
      /\ rlVerified' = rlVerified \union {t}
  BY DEF Verify, ShipsTag, rlTree
<1>2. ApprovalFits'
  BY <1>1, ApprovalStays
<1> QED
  BY <1>1, <1>2
  DEF ReleaseInv, TreeFits, PlanFits, CacheFits, OutputsFit, WorldFits, PublishedIsServed, VerifiedIsTagged

\* Every step keeps it.
LEMMA ReleaseStep == ReleaseInv /\ [RlNext]_rlVars => ReleaseInv'
<1> SUFFICES ASSUME ReleaseInv, [RlNext]_rlVars PROVE ReleaseInv'
  OBVIOUS
<1>1. CASE PackageRefused \/ UploadRefused \/ RecordVoices
  BY <1>1, RefusedKeeps DEF PackageRefused, UploadRefused, RecordVoices
<1>2. CASE UNCHANGED rlVars
  <2>1. /\ UNCHANGED <<rlPlan, rlCache, rlFindings, rlOut, rlRun, rlBudget>> /\ UNCHANGED rlTree
        /\ UNCHANGED rlWorld
    BY <1>2 DEF rlVars, rlTree, rlWorld
  <2>2. CacheFits' /\ OutputsFit'
    BY <2>1 DEF ReleaseInv, CacheFits, OutputsFit
  <2>3. ApprovalFits'
    BY <2>1, ApprovalStays DEF rlWorld
  <2> QED
    BY <2>1, <2>2, <2>3, ApprovalMoves
<1>3. CASE \/ EditSource \/ CommitAndTag \/ (\E f \in RlPrints : Record(f))
           \/ PlanRelease \/ Approve \/ SeedCache \/ Reconcile
           \/ \E f \in RlPrints : StageAudio(f) \/ UploadAudio(f)
  BY <1>3, EditSourceKeeps, CommitAndTagKeeps, RecordKeeps, PlanReleaseKeeps, ApproveKeeps,
       SeedCacheKeeps,
     ReconcileKeeps, StageAudioKeeps, UploadAudioKeeps
<1>4. CASE \/ MoveOldAside \/ MoveNewIn \/ DropBackup \/ Package \/ AudioPublished
           \/ GithubMatched \/ GithubDiffers \/ GithubUploaded \/ GithubTimeout \/ RunFails
           \/ \E t \in RlTags : Verify(t)
  BY <1>4, MoveOldAsideKeeps, MoveNewInKeeps, DropBackupKeeps, PackageKeeps, AudioPublishedKeeps,
     GithubMatchedKeeps, GithubDiffersKeeps, GithubUploadedKeeps, GithubTimeoutKeeps, RunFailsKeeps, VerifyKeeps
<1> QED
  BY <1>1, <1>2, <1>3, <1>4 DEF RlNext

\* The invariant of a release.
THEOREM ReleaseInvariant == RlSpec => []ReleaseInv
  BY ReleaseStarts, ReleaseStep, PTL DEF RlSpec

\* Types.
LEMMA ReleaseTyped == ReleaseInv => RlTypeOK
<1> SUFFICES ASSUME ReleaseInv PROVE RlTypeOK
  OBVIOUS
<1>1. \A f \in RlPrints : /\ rlCache[f] \in RlTakes \union {RlNone}
                          /\ rlStore[f] \in RlTakes \union {RlNone}
  BY DEF ReleaseInv, CacheFits, WorldFits, Takes
<1>2. /\ rlFindings \subseteq RlPrints /\ rlVerified \subseteq RlTags
      /\ rlRun.tag \in RlTags \union {RlNone}
  BY DEF ReleaseInv, CacheFits, WorldFits, ApprovalFits, Approvals
<1>3. ASSUME NEW t \in RlTags, NEW out \in {rlOut[t].dist, rlOut[t].backup, rlOut[t].archive},
             out # RlNone
      PROVE  out.source \in RlSources /\ DOMAIN out.audio = RlUses[out.source]
  <2>1. out \in Distributions
    BY <1>3 DEF ReleaseInv, OutputsFit, Outputs, Archives
  <2> QED
    BY <2>1, DistributionHas
<1> QED
  BY <1>1, <1>2, <1>3 DEF RlTypeOK

\* A release directory that held a distribution holds one, or its backup.
LEMMA OneStays ==
  ASSUME ReleaseInv, [RlNext]_rlVars, NEW t \in RlTags,
         rlOut[t].dist # RlNone \/ rlOut[t].backup # RlNone
  PROVE  rlOut'[t].dist # RlNone \/ rlOut'[t].backup # RlNone
<1>1. CASE UNCHANGED rlOut
  BY <1>1
<1>2. ASSUME ~InRun("idle"), NEW out \in Outputs, rlOut' = [rlOut EXCEPT ![rlRun.tag] = out],
             Out.dist # RlNone \/ Out.backup # RlNone => out.dist # RlNone \/ out.backup # RlNone
      PROVE  rlOut'[t].dist # RlNone \/ rlOut'[t].backup # RlNone
  BY <1>2, OutFits DEF Out, ReleaseInv, OutputsFit
<1>3. CASE Reconcile \/ RunFails
  <2>1. /\ ~InRun("idle")
        /\ (UNCHANGED rlOut \/ rlOut' = [rlOut EXCEPT ![rlRun.tag] = Recovered(Out)])
    BY <1>3 DEF Reconcile, RunFails, InRun, Out
  <2>2. /\ Recovered(Out) \in Outputs
        /\ Out.dist # RlNone \/ Out.backup # RlNone => Recovered(Out).dist # RlNone
    BY <2>1, OutFits, RecoveredFits
  <2> QED
    BY <1>1, <1>2, <2>1, <2>2
<1>4. CASE MoveOldAside
  <2>1. /\ rlRun.pc = "stage" /\ rlOut' = [rlOut EXCEPT ![rlRun.tag] = SetAside(Out)]
        /\ ~InRun("idle")
    BY <1>4 DEF MoveOldAside, OutStep, InRun
  <2>2. Out \in Outputs /\ Out.backup = RlNone
    BY <2>1, OutFits DEF ReleaseInv, ApprovalFits
  <2>3. SetAside(Out) \in Outputs /\ SetAside(Out).backup = Out.dist
    BY <2>2 DEF SetAside, Outputs, Archives
  <2> QED
    BY <1>2, <2>1, <2>2, <2>3
<1>5. CASE MoveNewIn
  <2> DEFINE new == [source |-> rlRun.source, audio |-> rlRun.staged]
  <2>1. /\ rlRun.pc = "rename" /\ rlOut' = [rlOut EXCEPT ![rlRun.tag] = [Out EXCEPT !.dist = new]]
        /\ ~InRun("idle")
    BY <1>5 DEF MoveNewIn, OutStep, InRun
  <2>2. Out \in Outputs /\ new \in Distributions /\ new # RlNone
    BY <2>1, OutFits, RenamedFits, DistributionHas
  <2> HIDE DEF new
  <2>3. [Out EXCEPT !.dist = new] \in Outputs /\ [Out EXCEPT !.dist = new].dist = new
    BY <2>2 DEF Outputs, Archives
  <2> QED
    BY <1>2, <2>1, <2>2, <2>3
<1>6. CASE DropBackup
  <2>1. /\ rlRun.pc = "cleanup"
        /\ rlOut' = [rlOut EXCEPT ![rlRun.tag] = [Out EXCEPT !.backup = RlNone]] /\ ~InRun("idle")
    BY <1>6 DEF DropBackup, OutStep, InRun
  <2>2. Out \in Outputs /\ Out.dist # RlNone
    BY <2>1, OutFits DEF ReleaseInv, ApprovalFits
  <2>3. /\ [Out EXCEPT !.backup = RlNone] \in Outputs
        /\ [Out EXCEPT !.backup = RlNone].dist = Out.dist
    BY <2>2 DEF Outputs, Archives
  <2> QED
    BY <1>2, <2>1, <2>2, <2>3
<1>7. CASE Package
  <2>1. /\ rlRun.pc = "package"
        /\ rlOut' = [rlOut EXCEPT ![rlRun.tag] = [Out EXCEPT !.archive = Out.dist]]
        /\ ~InRun("idle")
    BY <1>7 DEF Package, OutStep, InRun
  <2>2. Out \in Outputs
    BY <2>1, OutFits
  <2>3. /\ [Out EXCEPT !.archive = Out.dist] \in Outputs
        /\ [Out EXCEPT !.archive = Out.dist].dist = Out.dist
        /\ [Out EXCEPT !.archive = Out.dist].backup = Out.backup
    BY <2>2 DEF Outputs, Archives
  <2> QED
    BY <1>2, <2>1, <2>3
<1>8. CASE AudioPublished
  <2>1. rlOut' = [rlOut EXCEPT ![rlRun.tag] = Out] /\ ~InRun("idle")
    BY <1>8 DEF AudioPublished, OutStep, InRun
  <2> QED
    BY <1>2, <2>1, OutFits
<1> QED
  BY <1>1, <1>3, <1>4, <1>5, <1>6, <1>7, <1>8
  DEF RlNext, rlVars, EditSource, CommitAndTag, Record, PlanRelease, Approve, SeedCache, StageAudio, UploadAudio,
      PackageRefused, UploadRefused, GithubMatched, GithubDiffers, GithubUploaded, GithubTimeout, GithubStep,
      RecordVoices, Verify

\* An asset stays as it was uploaded.
LEMMA ArchiveStays ==
  ASSUME ReleaseInv, [RlNext]_rlVars, NEW t \in RlTags, rlGithub[t] # RlNone
  PROVE  rlGithub'[t] = rlGithub[t]
<1>1. CASE UNCHANGED rlGithub
  BY <1>1
<1>2. CASE GithubUploaded \/ GithubTimeout
  <2>1. PICK asset : rlGithub' = [rlGithub EXCEPT ![rlRun.tag] = asset] /\ rlGithub[rlRun.tag] = RlNone
    BY <1>2 DEF GithubUploaded, GithubTimeout, GithubHas, GithubFree
  <2> QED
    BY <2>1 DEF ReleaseInv, WorldFits
<1> QED
  BY <1>1, <1>2
  DEF RlNext, rlVars, rlWorld, EditSource, CommitAndTag, Record, PlanRelease, Approve, SeedCache, Reconcile,
      StageAudio, UploadAudio, MoveOldAside, MoveNewIn, DropBackup, Package, AudioPublished, OutStep,
      PackageRefused, UploadRefused, GithubMatched, GithubDiffers, RecordVoices, RunFails, Verify

\* The two action properties of releases.
LEMMA ReleasesStep ==
  ReleaseInv /\ [RlNext]_rlVars =>
    /\ [\A t \in RlTags :
         rlOut[t].dist # RlNone \/ rlOut[t].backup # RlNone
         => rlOut'[t].dist # RlNone \/ rlOut'[t].backup # RlNone]_rlVars
    /\ [\A t \in RlTags : rlGithub[t] # RlNone => rlGithub'[t] = rlGithub[t]]_rlVars
  BY OneStays, ArchiveStays

\* The invariant is more than what the run checks.
LEMMA ReleaseHolds == ReleaseInv => RlTypeOK /\ PublishedIsServed /\ VerifiedIsTagged
  BY ReleaseTyped DEF ReleaseInv

\* For any sources, tags, clips, failures and lost answers: what is published is
\* served, what is verified is tagged, and neither a release directory nor an
\* asset is lost or replaced.
THEOREM ReleasesDoStand == RlSpec => ReleasesStand
  BY ReleaseInvariant, ReleasesStep, ReleaseHolds, PTL DEF RlSpec, ReleasesStand, DistNeverLost,
       ArchiveImmutable
=============================================================================
