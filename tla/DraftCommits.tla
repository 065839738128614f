------------------------------ MODULE DraftCommits ------------------------------
(***************************************************************************)
(* One lesson's draft, canonical package and distribution: the working     *)
(* tree, Git's index and HEAD, and the operations that move a draft        *)
(* between them: editing, Save, promotion, discard, pulling the canonical  *)
(* package and accepting the pull.  The server runs one operation at a     *)
(* time (its mutation lock); the author's terminal commits at any moment   *)
(* and edits the canonical package between two operations; the process may *)
(* end between any two steps.                                              *)
(*                                                                         *)
(* A text is a whole package.  The distribution of one lesson is named by  *)
(* the canonical text it was exported from.                                *)
(***************************************************************************)
EXTENDS Naturals, Sequences

CONSTANTS DcMaxTexts,    \* texts a package can have
          DcMaxFaults,   \* I/O errors, failed hooks and killed git calls
          DcMaxCrashes,  \* ends of the process in the middle of an operation
          DcMaxCommits,  \* commits made by anyone
          DcMaxOps,      \* operations of many steps begun
          DcNone,        \* no package, no record
          DcPartial      \* a tree that was copied or removed halfway

DcTexts == 1..DcMaxTexts
DraftTexts == [text : DcTexts, from : {DcNone} \union DcTexts]
PulledTexts == [before : DcTexts, after : DcTexts]

ASSUME DraftCommitsAssumption ==
  /\ DcMaxTexts \in Nat \ {0} /\ DcMaxFaults \in Nat /\ DcMaxCrashes \in Nat
  /\ DcMaxCommits \in Nat /\ DcMaxOps \in Nat
  /\ DcNone # DcPartial
  /\ \A none \in {DcNone, DcPartial} :
       none \notin DcTexts /\ none \notin DraftTexts /\ none \notin PulledTexts

Tracked == {"draft", "canon", "dist"}

VARIABLES dcTree,   \* the working tree: the three trees and the pull record
          dcIndex,  \* Git's index, of the three trees
          dcHead,   \* HEAD's commit number and its three trees
          dcLock,   \* a killed git left index.lock behind
          dcOp,     \* the operation running, or idle
          dcSeen,   \* history: canonical texts the draft was made from
          dcBudget  \* faults, crashes, commits and operations left

dcVars == <<dcTree, dcIndex, dcHead, dcLock, dcOp, dcSeen, dcBudget>>

DraftOf(t, from) == [text |-> t, from |-> from]
IsWhole(tree) == tree \notin {DcNone, DcPartial}

Idle == [kind |-> "none", at |-> "idle", head |-> 0, saved |-> DcNone,
         index |-> DcNone, text |-> DcNone, todo |-> <<>>, made |-> FALSE]

\* A published lesson without a draft, or a new lesson that has only one.
DcInit ==
    \E trees \in {[draft |-> DcNone, canon |-> 1, dist |-> 1],
                 [draft |-> DraftOf(1, DcNone), canon |-> DcNone, dist |-> DcNone]} :
       /\ dcTree = [place \in Tracked \union {"pull"} |->
                      IF place = "pull" THEN DcNone ELSE trees[place]]
       /\ dcIndex = trees
       /\ dcHead = [n |-> 0, trees |-> trees]
       /\ dcLock = FALSE
       /\ dcOp = Idle
       /\ dcSeen = {}
       /\ dcBudget = [faults |-> DcMaxFaults, crashes |-> DcMaxCrashes,
                      commits |-> DcMaxCommits, ops |-> DcMaxOps]

----------------------------------------------------------------------------
(* Operations of one atomic write: the editor, the pull, a rejected pull.  *)

IsIdle == dcOp.at = "idle"

\* The first edit seeds the draft from the canonical package (one rename).
EditDraft ==
    /\ IsIdle
    /\ \E t \in DcTexts :
         IF dcTree.draft = DcNone
         THEN /\ IsWhole(dcTree.canon)
              /\ dcTree' = [dcTree EXCEPT !.draft = DraftOf(t, dcTree.canon)]
              /\ dcSeen' = {dcTree.canon}
         ELSE /\ IsWhole(dcTree.draft)
              /\ dcTree' = [dcTree EXCEPT !.draft.text = t]
              /\ UNCHANGED dcSeen
    /\ UNCHANGED <<dcIndex, dcHead, dcLock, dcOp, dcBudget>>

\* An equal canonical package is taken as the draft's origin at once, any
\* other is offered as a proposal that keeps the digest it was made from.
Pull ==
    /\ IsIdle
    /\ IsWhole(dcTree.draft) /\ IsWhole(dcTree.canon)
    /\ \/ /\ dcTree.draft.text = dcTree.canon
          /\ dcTree' = [dcTree EXCEPT !.draft.from = dcTree.canon]
          /\ dcSeen' = dcSeen \union {dcTree.canon}
       \/ /\ dcTree.draft.text # dcTree.canon
          /\ dcTree' = [dcTree EXCEPT !.pull =
                [before |-> dcTree.draft.text, after |-> dcTree.canon]]
          /\ UNCHANGED dcSeen
    /\ UNCHANGED <<dcIndex, dcHead, dcLock, dcOp, dcBudget>>

RejectPull ==
    /\ IsIdle
    /\ dcTree.pull # DcNone /\ IsWhole(dcTree.draft)
    /\ dcTree' = [dcTree EXCEPT !.pull = DcNone]
    /\ UNCHANGED <<dcIndex, dcHead, dcLock, dcOp, dcSeen, dcBudget>>

----------------------------------------------------------------------------
(* Operations of many steps. `todo` is the order the transaction restores. *)

OrderOf(kind, promoted) ==
    CASE kind = "promote" -> promoted
      [] kind = "discard" -> <<"draft">>
      [] kind = "accept"  -> <<"draft", "pull">>
      [] OTHER            -> <<>>
TargetsCanonFirst(kind) == OrderOf(kind, <<"canon", "draft", "dist">>)
TargetsWithoutDist(kind) == OrderOf(kind, <<"draft", "canon">>)
Targets(kind) == OrderOf(kind, <<"draft", "canon", "dist">>)

Committed(kind) == IF kind = "promote" THEN Tracked ELSE {"draft"}

\* git status of the distribution: its tree and its index are HEAD's.
DistCleanNever == TRUE
DistClean == /\ dcTree.dist = dcHead.trees.dist
             /\ dcIndex.dist = dcHead.trees.dist

CanonicalUnchanged == dcTree.canon = dcTree.draft.from

MayStart(kind) ==
    CASE kind = "promote" -> /\ IsWhole(dcTree.draft)
                             /\ dcTree.pull = DcNone
                             /\ CanonicalUnchanged
                             /\ DistClean
      [] kind = "discard" -> dcTree.draft # DcNone
      [] kind = "save"    -> IsWhole(dcTree.draft)
      [] OTHER            -> /\ IsWhole(dcTree.draft)
                             /\ dcTree.pull # DcNone
                             /\ dcTree.pull.before = dcTree.draft.text

\* Promotion and discard capture HEAD before they touch a tree.
Begin(kind) ==
    /\ IsIdle
    /\ dcBudget.ops > 0
    /\ MayStart(kind)
    /\ dcBudget' = [dcBudget EXCEPT !.ops = @ - 1]
    /\ dcOp' = [Idle EXCEPT !.kind = kind,
                            !.at = CASE kind = "save"   -> "require"
                                     [] kind = "accept" -> "enter"
                                     [] OTHER           -> "capture",
                            !.text = IF kind = "promote" THEN dcTree.draft.text
                                                         ELSE DcNone]
    /\ UNCHANGED <<dcTree, dcIndex, dcHead, dcLock, dcSeen>>

Goes(at) == dcOp' = [dcOp EXCEPT !.at = at]
At(at) == dcOp.at = at
TreesAlone == UNCHANGED dcTree
GitAlone == UNCHANGED <<dcIndex, dcHead, dcLock>>

\* The protected branch, the detached HEAD and unrelated staged paths are
\* refusals the operation ends on before it changed anything.
CaptureHead ==
    /\ At("capture")
    /\ dcOp' \in {[dcOp EXCEPT !.at = "enter", !.head = dcHead.n], Idle}
    /\ UNCHANGED <<dcTree, dcSeen, dcBudget>> /\ GitAlone

EnterTransaction ==
    /\ At("enter")
    /\ dcOp' = [dcOp EXCEPT !.saved = dcTree, !.todo = Targets(dcOp.kind),
                            !.at = CASE dcOp.kind = "promote" -> "rmcanon"
                                     [] dcOp.kind = "discard" -> "rmdraft"
                                     [] OTHER                 -> "write"]
    /\ UNCHANGED <<dcTree, dcSeen, dcBudget>> /\ GitAlone

Sets(at, place, value, next) ==
    /\ At(at)
    /\ dcTree' = [dcTree EXCEPT ![place] = value]
    /\ Goes(next)
    /\ UNCHANGED <<dcSeen, dcBudget>> /\ GitAlone

RemoveCanonical == Sets("rmcanon", "canon", DcNone, "copy")
CopyStarts == Sets("copy", "canon", DcPartial, "copying")
CopyEndsNever == Sets("copying", "canon", DcPartial, "rmdraft")
CopyEnds == Sets("copying", "canon", dcTree.draft.text, "rmdraft")
RemoveDraft == Sets("rmdraft", "draft", DcNone,
                    IF dcOp.kind = "promote" THEN "export" ELSE "require")
Export == Sets("export", "dist", dcTree.canon, "require")

\* The accepted text, then its origin, then the proposal log.
AcceptText == Sets("write", "draft",
                   DraftOf(dcTree.pull.after, dcTree.draft.from), "origin")

PulledOriginNow == IF IsWhole(dcTree.canon) THEN dcTree.canon ELSE dcTree.pull.after
PulledOrigin == dcTree.pull.after

AcceptOrigin ==
    /\ At("origin")
    /\ dcTree' = [dcTree EXCEPT !.draft.from = PulledOrigin]
    /\ dcSeen' = dcSeen \union {dcTree.pull.after}
    /\ Goes("log")
    /\ UNCHANGED dcBudget /\ GitAlone
AcceptLog ==
    /\ At("log")
    /\ dcTree' = [dcTree EXCEPT !.pull = DcNone]
    /\ dcOp' = Idle
    /\ UNCHANGED <<dcSeen, dcBudget>> /\ GitAlone

----------------------------------------------------------------------------
(* commit_draft                                                            *)

\* Its own checks come before its try: a refusal leaves the index alone.
RequireCommit ==
    /\ At("require")
    /\ \/ /\ dcOp.kind = "save" \/ dcHead.n = dcOp.head
          /\ dcOp' = [dcOp EXCEPT !.at = "add", !.head = dcHead.n,
                                  !.index = dcIndex]
       \/ Goes("rollback")
    /\ UNCHANGED <<dcTree, dcSeen, dcBudget>> /\ GitAlone

\* Promotion commits the distribution files whose bytes the export changed.
CommitPaths ==
    {p \in Committed(dcOp.kind) :
        ~ (p = "dist" /\ dcTree.dist = dcOp.saved.dist)}
Stage(trees) == [p \in Tracked |-> IF p \in CommitPaths THEN dcTree[p] ELSE trees[p]]

AddPaths ==
    /\ At("add")
    /\ ~ dcLock
    /\ dcIndex' = Stage(dcIndex)
    /\ Goes("recheck")
    /\ UNCHANGED <<dcTree, dcHead, dcLock, dcSeen, dcBudget>>
AddLocked ==
    /\ At("add")
    /\ dcLock
    /\ Goes("restore")
    /\ UNCHANGED <<dcTree, dcSeen, dcBudget>> /\ GitAlone

Recheck ==
    /\ At("recheck")
    /\ Goes(IF /\ dcHead.n = dcOp.head
               /\ dcOp.kind = "discard"
                  \/ \E p \in CommitPaths : dcIndex[p] # dcHead.trees[p]
            THEN "commit" ELSE "restore")
    /\ UNCHANGED <<dcTree, dcSeen, dcBudget>> /\ GitAlone

Commit ==
    /\ At("commit")
    /\ dcBudget.commits > 0
    /\ dcHead' = [n |-> dcHead.n + 1, trees |-> Stage(dcHead.trees)]
    /\ dcIndex' = Stage(dcIndex)
    /\ dcBudget' = [dcBudget EXCEPT !.commits = @ - 1]
    /\ dcOp' = [dcOp EXCEPT !.at = "report", !.made = TRUE]
    /\ UNCHANGED <<dcTree, dcLock, dcSeen>>

\* git's time ran out: it was killed holding index.lock, before or after it
\* had moved HEAD.
CommitKilled ==
    /\ At("commit")
    /\ dcBudget.faults > 0 /\ dcBudget.commits > 0
    /\ \E moved \in BOOLEAN :
         /\ dcHead' = IF moved THEN [n |-> dcHead.n + 1, trees |-> Stage(dcHead.trees)]
                               ELSE dcHead
         /\ dcOp' = [dcOp EXCEPT !.at = "restore", !.made = moved]
         /\ dcBudget' = [dcBudget EXCEPT !.faults = @ - 1,
                            !.commits = IF moved THEN @ - 1 ELSE @]
    /\ dcLock' = TRUE
    /\ UNCHANGED <<dcTree, dcIndex, dcSeen>>

\* After the commit only the reading of its name is left.
Report ==
    /\ At("report")
    /\ dcOp' = Idle
    /\ UNCHANGED <<dcTree, dcSeen, dcBudget>> /\ GitAlone

\* update-index needs the lock a killed git still holds.
RestoredIndexNone == dcIndex
RestoredIndex ==
    IF dcLock THEN dcIndex
    ELSE [p \in Tracked |-> IF p \in Committed(dcOp.kind) THEN dcOp.index[p]
                                                          ELSE dcIndex[p]]

RestoreIndex ==
    /\ At("restore")
    /\ dcIndex' = RestoredIndex
    /\ Goes("rollback")
    /\ UNCHANGED <<dcTree, dcHead, dcLock, dcSeen, dcBudget>>

----------------------------------------------------------------------------
(* workbench_transaction: a failure restores each target in order.         *)

RollBack ==
    /\ At("rollback")
    /\ IF dcOp.todo = <<>>
       THEN dcOp' = Idle /\ TreesAlone
       ELSE /\ dcTree' = [dcTree EXCEPT ![Head(dcOp.todo)] = DcNone]
            /\ Goes("putback")
    /\ UNCHANGED <<dcSeen, dcBudget>> /\ GitAlone

PutBack ==
    /\ At("putback")
    /\ LET place == Head(dcOp.todo) IN
       dcTree' = [dcTree EXCEPT ![place] = dcOp.saved[place]]
    /\ dcOp' = [dcOp EXCEPT !.at = "rollback", !.todo = Tail(@)]
    /\ UNCHANGED <<dcSeen, dcBudget>> /\ GitAlone

\* An I/O error, a failed export, a hook that refuses, a git call that fails.
Breaks ==
    /\ dcBudget.faults > 0
    /\ dcBudget' = [dcBudget EXCEPT !.faults = @ - 1]
    /\ \/ /\ dcOp.at \in {"rmcanon", "copy", "copying", "rmdraft", "export",
                          "write", "origin", "log", "require", "report"}
          /\ Goes("rollback")
       \/ /\ dcOp.at \in {"add", "recheck", "commit"}
          /\ Goes("restore")
    /\ UNCHANGED <<dcTree, dcSeen>> /\ GitAlone

\* The process ends, or the rollback itself fails: the saved copies are gone
\* and nothing reads what is left when the server starts again.
Crash ==
    /\ ~ IsIdle
    /\ dcBudget.crashes > 0
    /\ dcBudget' = [dcBudget EXCEPT !.crashes = @ - 1]
    /\ dcOp' = Idle
    /\ UNCHANGED <<dcTree, dcSeen>> /\ GitAlone

----------------------------------------------------------------------------
(* The author's terminal                                                   *)

TerminalEdit ==
    /\ IsIdle
    /\ \E t \in DcTexts : /\ dcTree.canon # t
                          /\ dcTree' = [dcTree EXCEPT !.canon = t]
    /\ UNCHANGED <<dcIndex, dcHead, dcLock, dcOp, dcSeen, dcBudget>>

\* A commit of the canonical package, or of something else.
TerminalCommit ==
    /\ ~ dcLock /\ dcBudget.commits > 0
    /\ \E canon \in {dcHead.trees.canon} \union
                    (IF IsIdle /\ IsWhole(dcTree.canon) THEN {dcTree.canon} ELSE {}) :
         /\ dcHead' = [n |-> dcHead.n + 1,
                       trees |-> [dcHead.trees EXCEPT !.canon = canon]]
         /\ dcIndex' = IF canon = dcHead.trees.canon THEN dcIndex
                       ELSE [dcIndex EXCEPT !.canon = canon]
    /\ dcBudget' = [dcBudget EXCEPT !.commits = @ - 1]
    /\ UNCHANGED <<dcTree, dcLock, dcOp, dcSeen>>

TerminalUnlock ==
    /\ dcLock /\ IsIdle
    /\ dcLock' = FALSE
    /\ UNCHANGED <<dcTree, dcIndex, dcHead, dcOp, dcSeen, dcBudget>>

DcNext ==
    \/ EditDraft \/ Pull \/ RejectPull
    \/ \E kind \in {"promote", "discard", "save", "accept"} : Begin(kind)
    \/ CaptureHead \/ EnterTransaction
    \/ RemoveCanonical \/ CopyStarts \/ CopyEnds \/ RemoveDraft \/ Export
    \/ AcceptText \/ AcceptOrigin \/ AcceptLog
    \/ RequireCommit \/ AddPaths \/ AddLocked \/ Recheck \/ Commit
    \/ CommitKilled \/ Report \/ RestoreIndex
    \/ RollBack \/ PutBack \/ Breaks \/ Crash
    \/ TerminalEdit \/ TerminalCommit \/ TerminalUnlock

DcSpec == DcInit /\ [][DcNext]_dcVars

----------------------------------------------------------------------------
(* Properties                                                              *)

Drafts == {DcNone, DcPartial} \union DraftTexts
Packages == {DcNone, DcPartial} \union DcTexts

\* The trees, the index, HEAD and the running operation keep their types, and
\* no operation commits a tree it has copied halfway.
DcTypeOK ==
    /\ dcTree.draft \in Drafts /\ dcTree.canon \in Packages
    /\ dcTree.dist \in Packages
    /\ dcTree.pull \in {DcNone} \union PulledTexts
    /\ dcHead.n \in 0..DcMaxCommits
    /\ \A p \in Tracked : dcHead.trees[p] # DcPartial
    /\ dcLock \in BOOLEAN
    /\ dcSeen \subseteq DcTexts
    /\ dcBudget \in [faults : 0..DcMaxFaults, crashes : 0..DcMaxCrashes,
                     commits : 0..DcMaxCommits, ops : 0..DcMaxOps]
    /\ IsIdle <=> dcOp = Idle

\* promote_workbench_lesson copies the draft before it removes it and lists
\* the draft as the first tree to restore: at every moment, so also after the
\* process ends, the text being promoted is whole in the draft, in the
\* canonical package or in HEAD.  The one gap is the rollback's own: while it
\* has the draft out, to copy it back.
DraftTextKept ==
    dcOp.kind = "promote"
    => \/ IsWhole(dcTree.draft) /\ dcTree.draft.text = dcOp.text
       \/ dcTree.canon = dcOp.text
       \/ dcHead.trees.canon = dcOp.text
       \/ At("putback") /\ Head(dcOp.todo) = "draft"

\* An operation that failed and rolled back has left every tree it may touch
\* as it found it, and, unless a killed git kept the index locked or the
\* commit had been made before the failure, what the index held of them too.
FailedLeavesAsWas ==
    [][/\ At("rollback") /\ dcOp'.at = "idle"
       /\ dcBudget'.crashes = dcBudget.crashes
       => /\ dcOp.saved # DcNone =>
               \A p \in {"draft", "canon", "dist", "pull"} :
                  p \in Committed(dcOp.kind) \union {"pull"}
                  => dcTree[p] = dcOp.saved[p]
          /\ \/ dcLock \/ dcOp.made \/ dcOp.index = DcNone
             \/ \A p \in Committed(dcOp.kind) : dcIndex[p] = dcOp.index[p]
      ]_dcVars

\* A promotion replaces only a canonical package its draft was seeded from or
\* has taken in whole through a pull: an edit the author made to the canonical
\* package after that is never overwritten unseen.
SeenBeforeReplaced ==
    [][At("rmcanon") /\ dcTree'.canon = DcNone /\ dcTree.canon # DcNone
       => dcTree.canon \in dcSeen]_dcVars

\* The commit of a promotion carries the distribution of the package it
\* carries, although only the files the export changed are committed.
DistCommitted ==
    [][dcOp.kind = "promote" /\ dcHead'.n # dcHead.n /\ dcOp'.made
       => dcHead'.trees.dist = dcHead'.trees.canon]_dcVars

\* No text of the lesson is lost, neither the draft's by a promotion that ends
\* anywhere nor the canonical package's by one that did not know of it.
TextsKept == [](DcTypeOK /\ DraftTextKept) /\ SeenBeforeReplaced

\* A commit of the workbench is whole and a failed one leaves no trace.
CommitsWhole == FailedLeavesAsWas /\ DistCommitted

\* The drafts of the lessons and what they are committed as.
DraftsSafe == TextsKept /\ CommitsWhole
=============================================================================
