----------------------------- MODULE Proposals -----------------------------
(***************************************************************************)
(* The proposal log and the working draft of one lesson.  A chat turn or a *)
(* regeneration captures the draft, asks a provider for edits outside the  *)
(* mutation lock, and stores a proposal made against what it captured; by  *)
(* then the author may have edited the draft.  The author decides a block  *)
(* or all blocks.  A decision writes the source files, one at a time, then *)
(* the log, inside a transaction that restores both if anything raises;    *)
(* the end of the process restores nothing.                                *)
(*                                                                         *)
(* Source: application/operations/workbench_proposals.py,                  *)
(* application/operations/workbench_editing.py,                            *)
(* workspace/workbench_transaction.py.                                     *)
(***************************************************************************)
EXTENDS Integers, FiniteSets

CONSTANTS
  Ids,        \* proposal ids
  Runs,       \* the ids that are regeneration runs; the others are chat turns
  Keys,       \* source blocks of the lesson
  Exercises,  \* the blocks that are exercises
  Texts,      \* what a block may say
  Canonical,  \* the source the draft starts from
  FileOf,     \* the file a block is in, in the order accept-all writes them
  Answers,    \* bound: the sources an answer may turn the lesson into
  NoText, NoSource, NoId,
  MaxEdits    \* bound: edits by the author

ASSUME ProposalsAssumption ==
  /\ Runs \subseteq Ids
  /\ Exercises \subseteq Keys
  /\ Canonical \in [Keys -> Texts]
  /\ Answers \subseteq [Keys -> Texts]
  /\ FileOf \in [Keys -> Nat]
  /\ NoText \notin Texts
  /\ NoSource \notin [Keys -> Texts]
  /\ NoId \notin Ids
  /\ MaxEdits \in Nat
  /\ IsFiniteSet(Keys)

VARIABLES
  draft,   \* the text of each block on disk
  log,     \* the proposals on disk
  source,  \* what the operation behind a proposal captured
  txn,     \* the decision in progress
  edits

pvars == <<draft, log, source, txn, edits>>

Sources == [Keys -> Texts]

Block == [status : {"none", "pending", "conflicted", "accepted", "rejected"},
          before : Texts \cup {NoText},
          after : Texts \cup {NoText}]
NoBlock == [status |-> "none", before |-> NoText, after |-> NoText]

Proposal == [status : {"none", "open", "superseded", "settled"},
             passed : BOOLEAN,
             block : [Keys -> Block]]
NoProposal == [status |-> "none", passed |-> FALSE, block |-> [k \in Keys |-> NoBlock]]

Txn == [id : Ids \cup {NoId}, accept : BOOLEAN, keys : SUBSET Keys,
        todo : SUBSET Nat, old : Sources \cup {NoSource}]
NoTxn == [id |-> NoId, accept |-> FALSE, keys |-> {}, todo |-> {}, old |-> NoSource]

PTypeOK ==
  /\ draft \in Sources
  /\ log \in [Ids -> Proposal]
  /\ source \in [Ids -> Sources \cup {NoSource}]
  /\ txn \in Txn
  /\ edits \in 0..MaxEdits

Open(p) == log[p].status = "open"
Closed(p) == log[p].status \in {"superseded", "settled"}
Undecided(b) == b.status \in {"pending", "conflicted"}
Idle == txn.id = NoId

PInit ==
  /\ draft = Canonical
  /\ log = [p \in Ids |-> NoProposal]
  /\ source = [p \in Ids |-> NoSource]
  /\ txn = NoTxn
  /\ edits = 0

-----------------------------------------------------------------------------
(* Making and storing a proposal.                                          *)

\* The proposal that replaces the captured text src by the text new, where
\* they differ.
ProposalOf(src, new, passed) ==
  [status |-> "open",
   passed |-> passed,
   block |-> [k \in Keys |->
     IF new[k] = src[k] THEN NoBlock
     ELSE [status |-> "pending", before |-> src[k], after |-> new[k]]]]

\* Mutant of StoreProposal: other proposals are left open.
StoreBesideOthers(p, proposal) ==
  IF log[p].status # "none" THEN log ELSE [log EXCEPT ![p] = proposal]

\* Mutant of StoreProposal: a replay stores the proposal again.
StoreAgain(p, proposal) ==
  [q \in Ids |->
     IF q = p THEN proposal
     ELSE IF Open(q) THEN [log[q] EXCEPT !.status = "superseded"]
     ELSE log[q]]

\* A replayed id returns what is stored; a new proposal supersedes the open one.
StoreProposal(p, proposal) ==
  IF log[p].status # "none" THEN log
  ELSE [q \in Ids |->
          IF q = p THEN proposal
          ELSE IF Open(q) THEN [log[q] EXCEPT !.status = "superseded"]
          ELSE log[q]]

\* An author's edit of a block or file in the editor.
Edit(k, t) ==
  /\ Idle
  /\ edits < MaxEdits
  /\ draft[k] # t
  /\ draft' = [draft EXCEPT ![k] = t]
  /\ edits' = edits + 1
  /\ UNCHANGED <<log, source, txn>>

\* A chat turn or a regeneration reads the source it will work on.
Capture(p) ==
  /\ Idle
  /\ log[p].status = "none" /\ source[p] = NoSource
  /\ source' = [source EXCEPT ![p] = draft]
  /\ UNCHANGED <<draft, log, txn, edits>>

\* It stores what it made; a response without a changed block makes nothing.
\* A run keeps what it captured in its checkpoint.
Propose(p, new, passed) ==
  /\ Idle
  /\ source[p] # NoSource /\ new # source[p]
  /\ log' = StoreProposal(p, ProposalOf(source[p], new, passed))
  /\ source' = IF p \in Runs THEN source ELSE [source EXCEPT ![p] = NoSource]
  /\ UNCHANGED <<draft, txn, edits>>

-----------------------------------------------------------------------------
(* Deciding.                                                               *)

\* Mutant of MarkConflicts: the proposal is taken as it was stored.
MarkNothing(proposal, src) == proposal

\* Pending blocks whose text is no longer the one they would replace.
MarkConflicts(proposal, src) ==
  [proposal EXCEPT !.block = [k \in Keys |->
     LET b == proposal.block[k] IN
     IF b.status = "pending" /\ b.before # src[k]
     THEN [b EXCEPT !.status = "conflicted"] ELSE b]]

\* Mutant of ReadOpen: an undone edit clears the conflict.
ReadAfresh(p) ==
  /\ Idle
  /\ Open(p)
  /\ log' = [log EXCEPT ![p].block = [k \in Keys |->
       LET b == log[p].block[k] IN
       IF Undecided(b)
       THEN [b EXCEPT !.status = IF b.before = draft[k] THEN "pending" ELSE "conflicted"]
       ELSE b]]
  /\ log' # log
  /\ UNCHANGED <<draft, source, txn, edits>>

\* Showing a lesson marks the conflicts of its open proposal for good.
ReadOpen(p) ==
  /\ Idle
  /\ Open(p)
  /\ log' = [log EXCEPT ![p] = MarkConflicts(log[p], draft)]
  /\ log' # log
  /\ UNCHANGED <<draft, source, txn, edits>>

AllowedDecisions(p, k, b) ==
  CASE b.status = "pending" ->
         {"accept", "reject"} \cup IF p \in Runs /\ k \in Exercises THEN {"keep"} ELSE {}
    [] b.status = "conflicted" -> {"reject"}
    [] OTHER -> {}

\* Mutant of Begin: blocks that are settled, or not there, are not left out.
BeginAll(p, decision, selected) ==
  LET marked == MarkConflicts(log[p], draft) IN
  /\ Idle
  /\ Open(p)
  /\ \A k \in selected : Undecided(marked.block[k])
       => decision \in AllowedDecisions(p, k, marked.block[k])
  /\ txn' = [id |-> p,
             accept |-> decision = "accept",
             keys |-> selected,
             todo |-> IF decision = "accept" THEN {FileOf[k] : k \in selected} ELSE {},
             old |-> draft]
  /\ UNCHANGED <<draft, log, source, edits>>

\* decide_proposal up to its first write: a decision about the blocks in
\* selected that are undecided.  Keeping an exercise rejects its replacement.
Begin(p, decision, selected) ==
  LET marked == MarkConflicts(log[p], draft)
      keys == {k \in selected : Undecided(marked.block[k])} IN
  /\ Idle
  /\ Open(p)
  /\ keys # {}
  /\ \A k \in keys : decision \in AllowedDecisions(p, k, marked.block[k])
  /\ txn' = [id |-> p,
             accept |-> decision = "accept",
             keys |-> keys,
             todo |-> IF decision = "accept" THEN {FileOf[k] : k \in keys} ELSE {},
             old |-> draft]
  /\ UNCHANGED <<draft, log, source, edits>>

DecideOne(p, decision, k) == Begin(p, decision, {k})

\* Accept-all needs a passed check; a keep names its exercise.
DecideAll(p, decision) ==
  /\ decision # "keep"
  /\ decision = "accept" => log[p].passed
  /\ Begin(p, decision, Keys)

\* The next file that has accepted blocks is replaced.
DecideWrite ==
  /\ ~Idle
  /\ \E f \in txn.todo :
       /\ \A g \in txn.todo : f <= g
       /\ draft' = [k \in Keys |->
            IF k \in txn.keys /\ FileOf[k] = f
            THEN log[txn.id].block[k].after ELSE draft[k]]
       /\ txn' = [txn EXCEPT !.todo = @ \ {f}]
  /\ UNCHANGED <<log, source, edits>>

\* What the decision makes of the proposal it found.
Decided ==
  LET marked == MarkConflicts(log[txn.id], txn.old)
      block == [k \in Keys |->
        IF k \in txn.keys
        THEN [marked.block[k] EXCEPT !.status = IF txn.accept THEN "accepted" ELSE "rejected"]
        ELSE marked.block[k]] IN
  [marked EXCEPT
     !.block = block,
     !.status = IF \A k \in Keys : ~Undecided(block[k]) THEN "settled" ELSE @]

\* Mutant of DecideCommit: the log does not wait for the source files.
DecideCommitEarly ==
  /\ ~Idle
  /\ log' = [log EXCEPT ![txn.id] = Decided]
  /\ txn' = NoTxn
  /\ UNCHANGED <<draft, source, edits>>

\* The log is written last.
DecideCommit ==
  /\ ~Idle
  /\ txn.todo = {}
  /\ log' = [log EXCEPT ![txn.id] = Decided]
  /\ txn' = NoTxn
  /\ UNCHANGED <<draft, source, edits>>

\* A write, a check or a preview raises: the transaction restores the draft;
\* the log has not been written.
DecideRaises ==
  /\ ~Idle
  /\ draft' = txn.old
  /\ txn' = NoTxn
  /\ UNCHANGED <<log, source, edits>>

\* The process ends; what the ids in kept captured is on disk.
Forget(kept) ==
  /\ txn' = NoTxn
  /\ source' = [p \in Ids |-> IF p \in kept THEN source[p] ELSE NoSource]
  /\ UNCHANGED <<draft, log, edits>>

PNext ==
  \/ \E k \in Keys, t \in Texts : Edit(k, t)
  \/ \E p \in Ids : Capture(p) \/ ReadOpen(p)
  \/ \E p \in Ids, new \in Answers, passed \in BOOLEAN : Propose(p, new, passed)
  \/ \E p \in Ids, d \in {"accept", "reject", "keep"} :
       DecideAll(p, d) \/ \E k \in Keys : DecideOne(p, d, k)
  \/ DecideWrite \/ DecideCommit \/ DecideRaises
  \/ \E kept \in SUBSET Ids : Forget(kept)

PSpec == PInit /\ [][PNext]_pvars

-----------------------------------------------------------------------------
(* What must hold.                                                         *)

\* A lesson has at most one open proposal, whoever stores one and however
\* often a run stores its own again (store_proposal).
OneOpen == \A p, q \in Ids : Open(p) /\ Open(q) => p = q

\* What the log says of a decision stands: a closed proposal never changes,
\* a decided block stays decided, and a block once in conflict can only be
\* rejected, also when the edit that caused it is undone (read_open_proposal,
\* allowed_decisions, store_proposal).
DecisionsStand ==
  [][\A p \in Ids :
       /\ Closed(p) => log'[p] = log[p]
       /\ \A k \in Keys :
            LET s == log[p].block[k].status
                t == log'[p].block[k].status IN
            /\ s \in {"accepted", "rejected"} => t = s
            /\ s = "conflicted" => t \in {"conflicted", "rejected"}]_pvars

\* A decision replaces only text that its block was made against: what the
\* author wrote since is never overwritten unseen (decide_proposal).
NothingOverwritten ==
  [][~Idle /\ txn'.id = txn.id =>
       \A k \in Keys : draft'[k] # draft[k] =>
         /\ log[txn.id].block[k].status = "pending"
         /\ log[txn.id].block[k].before = draft[k]]_pvars

\* When the log says that a block was accepted, the draft has its text
\* (decide_proposal writes the log last; workbench_transaction).
AcceptedIsWritten ==
  [][\A p \in Ids, k \in Keys :
       /\ log[p].block[k].status # "accepted"
       /\ log'[p].block[k].status = "accepted"
       => draft'[k] = log[p].block[k].after]_pvars

=============================================================================
