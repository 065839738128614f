------------------------ MODULE Regeneration_proofs ------------------------
(***************************************************************************)
(* The proposal log and the regeneration runs, for any lesson and any      *)
(* number of proposals, edits, runs, chat turns and ends of the process.   *)
(* In the log one proposal is open, decisions stand, and a decision writes *)
(* exactly what the author was shown; the runs obey the log, a run that    *)
(* waits has a proposal, records the decision of the log, and is never     *)
(* forgotten.                                                              *)
(***************************************************************************)
EXTENDS Regeneration, TLAPS

(***************************************************************************)
(* The inductive invariant.                                                *)
(***************************************************************************)
\* A block of a stored proposal has both its texts, and a proposal that is
\* not stored has no blocks.
BlocksFilled ==
  \A p \in Ids, k \in Keys :
    LET b == log[p].block[k] IN
    /\ b.status # "none" => b.before \in Texts /\ b.after \in Texts
    /\ log[p].status = "none" => b.status = "none"

\* A decision in progress is about undecided blocks of an open proposal.  One
\* that accepts found each of them as it was captured, and has replaced those
\* whose file is written.
TxnSound ==
  ~Idle =>
    /\ txn.id \in Ids /\ Open(txn.id)
    /\ txn.old \in Sources
    /\ txn.todo # {} => txn.accept
    /\ \A k \in txn.keys :
         LET b == log[txn.id].block[k] IN
         /\ Undecided(b)
         /\ txn.accept =>
              /\ b.status = "pending" /\ b.before = txn.old[k]
              /\ draft[k] = IF FileOf[k] \in txn.todo THEN txn.old[k] ELSE b.after

PInv == PTypeOK /\ BlocksFilled /\ OneOpen /\ TxnSound

(***************************************************************************)
(* What the helpers return.                                                *)
(***************************************************************************)
\* Marking conflicts changes the status of some pending blocks.
LEMMA Marked ==
  ASSUME NEW proposal \in Proposal, NEW src \in Sources
  PROVE  LET m == MarkConflicts(proposal, src) IN
         /\ m \in Proposal
         /\ m.status = proposal.status /\ m.passed = proposal.passed
         /\ \A k \in Keys :
              /\ m.block[k].before = proposal.block[k].before
              /\ m.block[k].after = proposal.block[k].after
              /\ m.block[k].status = IF /\ proposal.block[k].status = "pending"
                                        /\ proposal.block[k].before # src[k]
                                     THEN "conflicted" ELSE proposal.block[k].status
<1> DEFINE m == MarkConflicts(proposal, src)
           mark(b, k) == IF b.status = "pending" /\ b.before # src[k]
                         THEN [b EXCEPT !.status = "conflicted"] ELSE b
<1>1. \A k \in Keys : proposal.block[k] \in Block
  BY DEF Proposal
<1>2. \A k \in Keys : mark(proposal.block[k], k) \in Block
  BY <1>1 DEF Block
<1>3. m = [proposal EXCEPT !.block = [k \in Keys |-> mark(proposal.block[k], k)]]
  BY DEF MarkConflicts
<1>4. m.block = [k \in Keys |-> mark(proposal.block[k], k)]
  BY <1>3 DEF Proposal
<1>5. m \in Proposal /\ m.status = proposal.status /\ m.passed = proposal.passed
  BY <1>2, <1>3 DEF Proposal
<1>6. \A k \in Keys : m.block[k] = mark(proposal.block[k], k)
  BY <1>4
<1>7. \A k \in Keys :
        /\ mark(proposal.block[k], k).before = proposal.block[k].before
        /\ mark(proposal.block[k], k).after = proposal.block[k].after
        /\ mark(proposal.block[k], k).status =
             IF proposal.block[k].status = "pending" /\ proposal.block[k].before # src[k]
             THEN "conflicted" ELSE proposal.block[k].status
  BY <1>1 DEF Block
<1>8. QED BY <1>5, <1>6, <1>7

\* Only a pending block may be accepted.
LEMMA AcceptNeedsPending ==
  ASSUME NEW p, NEW k, NEW b, "accept" \in AllowedDecisions(p, k, b)
  PROVE  b.status = "pending"
BY DEF AllowedDecisions

\* A new proposal is open, and has the texts that differ.
LEMMA Made ==
  ASSUME NEW src \in Sources, NEW answer \in Sources, NEW passed \in BOOLEAN
  PROVE  LET m == ProposalOf(src, answer, passed) IN
         /\ m \in Proposal /\ m.status = "open"
         /\ \A k \in Keys :
              /\ m.block[k].status \in {"none", "pending"}
              /\ m.block[k].status # "none" =>
                   m.block[k].before \in Texts /\ m.block[k].after \in Texts
<1> DEFINE m == ProposalOf(src, answer, passed)
<1>1. \A k \in Keys : src[k] \in Texts /\ answer[k] \in Texts
  BY DEF Sources
<1>2. \A k \in Keys :
        m.block[k] = IF answer[k] = src[k] THEN NoBlock
                     ELSE [status |-> "pending", before |-> src[k], after |-> answer[k]]
  BY DEF ProposalOf
<1>3. m.block \in [Keys -> Block]
  BY <1>1 DEF ProposalOf, Block, NoBlock
<1>4. m \in Proposal /\ m.status = "open"
  BY <1>3 DEF ProposalOf, Proposal
<1> HIDE DEF m
<1>5. \A k \in Keys :
        /\ m.block[k].status \in {"none", "pending"}
        /\ m.block[k].status # "none" =>
             m.block[k].before \in Texts /\ m.block[k].after \in Texts
  <2> TAKE k \in Keys
  <2> PICK b : b = m.block[k]
    OBVIOUS
  <2>1. \/ b = NoBlock
        \/ b = [status |-> "pending", before |-> src[k], after |-> answer[k]]
    BY <1>2
  <2>2. /\ b.status \in {"none", "pending"}
        /\ b.status # "none" => b.before \in Texts /\ b.after \in Texts
    BY <1>1, <2>1 DEF NoBlock
  <2>3. QED BY <2>2
<1>6. QED BY <1>4, <1>5 DEF m

\* Storing supersedes what was open and leaves the rest of the log alone.
LEMMA Stored ==
  ASSUME log \in [Ids -> Proposal], NEW p \in Ids, NEW proposal \in Proposal
  PROVE  LET l == StoreProposal(p, proposal) IN
         /\ l \in [Ids -> Proposal]
         /\ log[p].status # "none" => l = log
         /\ log[p].status = "none" =>
              /\ l[p] = proposal
              /\ \A q \in Ids \ {p} :
                   /\ l[q].block = log[q].block
                   /\ l[q].status = IF Open(q) THEN "superseded" ELSE log[q].status
                   /\ ~Open(q) => l[q] = log[q]
<1>1. \A q \in Ids : log[q] \in Proposal
  OBVIOUS
<1>2. \A q \in Ids : LET s == [log[q] EXCEPT !.status = "superseded"] IN
        s \in Proposal /\ s.block = log[q].block /\ s.status = "superseded"
  BY <1>1 DEF Proposal
<1>3. CASE log[p].status # "none"
  BY <1>3 DEF StoreProposal
<1>4. CASE log[p].status = "none"
  <2> DEFINE l == StoreProposal(p, proposal)
  <2>1. l = [q \in Ids |-> IF q = p THEN proposal
                           ELSE IF Open(q) THEN [log[q] EXCEPT !.status = "superseded"]
                           ELSE log[q]]
    BY <1>4 DEF StoreProposal
  <2>2. l \in [Ids -> Proposal]
    BY <1>1, <1>2, <2>1
  <2>3. l[p] = proposal
    BY <2>1
  <2>4. \A q \in Ids \ {p} : l[q] = IF Open(q) THEN [log[q] EXCEPT !.status = "superseded"]
                                    ELSE log[q]
    BY <2>1
  <2>5. \A q \in Ids \ {p} :
          /\ l[q].block = log[q].block
          /\ l[q].status = IF Open(q) THEN "superseded" ELSE log[q].status
          /\ ~Open(q) => l[q] = log[q]
    BY <1>2, <2>4
  <2>6. QED BY <1>4, <2>2, <2>3, <2>5
<1>5. QED BY <1>3, <1>4

\* What a decision makes of its proposal.
LEMMA DecisionIs ==
  ASSUME PInv, ~Idle
  PROVE  /\ Decided \in Proposal
         /\ Decided.status \in {"open", "settled"}
         /\ \A k \in Keys :
              LET b == log[txn.id].block[k] IN
              /\ Decided.block[k].before = b.before
              /\ Decided.block[k].after = b.after
              /\ k \in txn.keys /\ txn.accept => Decided.block[k].status = "accepted"
              /\ k \in txn.keys /\ ~txn.accept => Decided.block[k].status = "rejected"
              /\ k \notin txn.keys =>
                   \/ Decided.block[k].status = b.status
                   \/ b.status = "pending" /\ Decided.block[k].status = "conflicted"
<1> DEFINE marked == MarkConflicts(log[txn.id], txn.old)
           result == IF txn.accept THEN "accepted" ELSE "rejected"
           block == [k \in Keys |-> IF k \in txn.keys
                                    THEN [marked.block[k] EXCEPT !.status = result]
                                    ELSE marked.block[k]]
<1>1. log[txn.id] \in Proposal /\ txn.old \in Sources /\ log[txn.id].status = "open"
  BY DEF PInv, PTypeOK, TxnSound, Open
<1>2. /\ marked \in Proposal /\ marked.status = "open"
      /\ \A k \in Keys :
           /\ marked.block[k].before = log[txn.id].block[k].before
           /\ marked.block[k].after = log[txn.id].block[k].after
           /\ \/ marked.block[k].status = log[txn.id].block[k].status
              \/ log[txn.id].block[k].status = "pending" /\ marked.block[k].status = "conflicted"
  BY <1>1, Marked
<1>3. \A k \in Keys : marked.block[k] \in Block
  BY <1>2 DEF Proposal
<1>4. \A k \in Keys : LET b == [marked.block[k] EXCEPT !.status = result] IN
        /\ b \in Block /\ b.status = result
        /\ b.before = marked.block[k].before /\ b.after = marked.block[k].after
  BY <1>3 DEF Block
<1>5. block \in [Keys -> Block]
  BY <1>3, <1>4
<1>6. \E s \in {"open", "settled"} : Decided = [marked EXCEPT !.block = block, !.status = s]
  <2>1. Decided = [marked EXCEPT !.block = block,
                     !.status = IF \A k \in Keys : ~Undecided(block[k]) THEN "settled" ELSE @]
    BY DEF Decided
  <2>2. CASE \A k \in Keys : ~Undecided(block[k])
    BY <2>1, <2>2
  <2>3. CASE ~(\A k \in Keys : ~Undecided(block[k]))
    <3>1. Decided = [marked EXCEPT !.block = block, !.status = marked.status]
      BY <1>2, <2>1, <2>3 DEF Proposal
    <3>2. QED BY <1>2, <3>1
  <2>4. QED BY <2>2, <2>3
<1>7. Decided \in Proposal /\ Decided.status \in {"open", "settled"} /\ Decided.block = block
  BY <1>2, <1>5, <1>6 DEF Proposal
<1>8. QED BY <1>2, <1>4, <1>7

(***************************************************************************)
(* The invariant holds.                                                    *)
(***************************************************************************)
\* A lesson starts without proposals.
LEMMA PInitInv == PInit => PInv
<1> SUFFICES ASSUME PInit PROVE PInv
  OBVIOUS
<1>1. NoBlock \in Block
  BY DEF NoBlock, Block
<1>2. NoProposal \in Proposal
  BY <1>1 DEF NoProposal, Proposal
<1>3. NoTxn \in Txn
  BY DEF NoTxn, Txn
<1>4. PTypeOK
  BY <1>2, <1>3, ProposalsAssumption DEF PInit, PTypeOK, Sources
<1>5. \A p \in Ids, k \in Keys : log[p].status = "none" /\ log[p].block[k].status = "none"
  BY DEF PInit, NoProposal, NoBlock
<1>6. BlocksFilled
  BY <1>5 DEF BlocksFilled
<1>7. OneOpen
  <2>1. \A p \in Ids : log[p].status = "none"
    BY DEF PInit, NoProposal
  <2>2. QED BY <2>1 DEF OneOpen, Open
<1>8. TxnSound
  BY DEF PInit, TxnSound, Idle, NoTxn
<1>9. QED BY <1>4, <1>6, <1>7, <1>8 DEF PInv

\* When no decision is in progress, one may begin as it likes.
LEMMA IdleSound == Idle => TxnSound
BY DEF TxnSound

\* An edit leaves the log alone.
LEMMA EditInv ==
  ASSUME PInv, NEW k \in Keys, NEW t \in Texts, Edit(k, t)
  PROVE  PInv'
<1>1. PTypeOK'
  <2>1. draft' \in Sources
    BY DEF Edit, PInv, PTypeOK, Sources
  <2>2. edits' \in 0..MaxEdits
    BY ProposalsAssumption DEF Edit, PInv, PTypeOK
  <2>3. QED BY <2>1, <2>2 DEF Edit, PInv, PTypeOK
<1>2. BlocksFilled' /\ OneOpen'
  BY DEF Edit, PInv, BlocksFilled, OneOpen, Open
<1>3. Idle'
  BY DEF Edit, Idle
<1>4. QED BY <1>1, <1>2, <1>3 DEF PInv, TxnSound

\* Capturing changes neither the log nor the draft.
LEMMA CaptureInv ==
  ASSUME PInv, NEW p \in Ids, Capture(p)
  PROVE  PInv'
<1>1. PTypeOK'
  BY DEF Capture, PInv, PTypeOK
<1>2. BlocksFilled' /\ OneOpen'
  BY DEF Capture, PInv, BlocksFilled, OneOpen, Open
<1>3. Idle'
  BY DEF Capture, Idle
<1>4. QED BY <1>1, <1>2, <1>3 DEF PInv, TxnSound

\* What Propose stores, and what it leaves.
LEMMA ProposeIs ==
  ASSUME PInv, NEW p \in Ids, NEW answer \in Answers, NEW passed \in BOOLEAN,
         Propose(p, answer, passed)
  PROVE  LET made == ProposalOf(source[p], answer, passed) IN
         /\ made \in Proposal /\ made.status = "open"
         /\ \A k \in Keys :
              /\ made.block[k].status \in {"none", "pending"}
              /\ made.block[k].status # "none" =>
                   made.block[k].before \in Texts /\ made.block[k].after \in Texts
         /\ log' \in [Ids -> Proposal]
         /\ log[p].status # "none" => log' = log
         /\ log[p].status = "none" =>
              /\ log'[p] = made
              /\ \A q \in Ids \ {p} :
                   /\ log'[q].block = log[q].block
                   /\ log'[q].status = IF Open(q) THEN "superseded" ELSE log[q].status
                   /\ ~Open(q) => log'[q] = log[q]
<1> DEFINE made == ProposalOf(source[p], answer, passed)
<1>1. source[p] \in Sources /\ answer \in Sources
  BY ProposalsAssumption DEF Propose, PInv, PTypeOK, Sources
<1>2. /\ made \in Proposal /\ made.status = "open"
      /\ \A k \in Keys :
           /\ made.block[k].status \in {"none", "pending"}
           /\ made.block[k].status # "none" =>
                made.block[k].before \in Texts /\ made.block[k].after \in Texts
  BY <1>1, Made
<1>3. log' = StoreProposal(p, made)
  BY DEF Propose
<1>4. log \in [Ids -> Proposal]
  BY DEF PInv, PTypeOK
<1> HIDE DEF made
<1>5. /\ log' \in [Ids -> Proposal]
      /\ log[p].status # "none" => log' = log
      /\ log[p].status = "none" =>
           /\ log'[p] = made
           /\ \A q \in Ids \ {p} :
                /\ log'[q].block = log[q].block
                /\ log'[q].status = IF Open(q) THEN "superseded" ELSE log[q].status
                /\ ~Open(q) => log'[q] = log[q]
  BY <1>2, <1>3, <1>4, Stored
<1>6. QED BY <1>2, <1>5 DEF made

\* A stored proposal is the only open one.
LEMMA ProposeInv ==
  ASSUME PInv, NEW p \in Ids, NEW answer \in Answers, NEW passed \in BOOLEAN,
         Propose(p, answer, passed)
  PROVE  PInv'
<1> PICK made : /\ made \in Proposal /\ made.status = "open"
                /\ \A k \in Keys :
                     made.block[k].status # "none" =>
                       made.block[k].before \in Texts /\ made.block[k].after \in Texts
                /\ log' \in [Ids -> Proposal]
                /\ log[p].status # "none" => log' = log
                /\ log[p].status = "none" =>
                     /\ log'[p] = made
                     /\ \A q \in Ids \ {p} :
                          /\ log'[q].block = log[q].block
                          /\ log'[q].status = IF Open(q) THEN "superseded" ELSE log[q].status
  BY ProposeIs
<1>1. PTypeOK'
  <2>1. source' \in [Ids -> Sources \cup {NoSource}]
    BY DEF Propose, PInv, PTypeOK
  <2>2. QED BY <2>1 DEF Propose, PInv, PTypeOK
<1>2. BlocksFilled'
  <2> SUFFICES ASSUME NEW q \in Ids, NEW k \in Keys
               PROVE  LET b == log'[q].block[k] IN
                      /\ b.status # "none" => b.before \in Texts /\ b.after \in Texts
                      /\ log'[q].status = "none" => b.status = "none"
    BY DEF BlocksFilled
  <2>1. CASE log[p].status # "none"
    BY <2>1 DEF PInv, BlocksFilled
  <2>2. CASE log[p].status = "none" /\ q = p
    BY <2>2
  <2>3. CASE log[p].status = "none" /\ q # p
    BY <2>3 DEF PInv, BlocksFilled
  <2>4. QED BY <2>1, <2>2, <2>3
<1>3. OneOpen'
  <2>1. CASE log[p].status # "none"
    BY <2>1 DEF PInv, OneOpen, Open
  <2>2. CASE log[p].status = "none"
    BY <2>2 DEF PInv, OneOpen, Open
  <2>3. QED BY <2>1, <2>2
<1>4. Idle'
  BY DEF Propose, Idle
<1>5. QED BY <1>1, <1>2, <1>3, <1>4 DEF PInv, TxnSound

\* Showing the open proposal marks its conflicts.
LEMMA ReadOpenInv ==
  ASSUME PInv, NEW p \in Ids, ReadOpen(p)
  PROVE  PInv'
<1>1. log[p] \in Proposal /\ draft \in Sources
  BY DEF PInv, PTypeOK
<1>2. log' = [log EXCEPT ![p] = MarkConflicts(log[p], draft)]
  BY DEF ReadOpen
<1> PICK m : /\ m = MarkConflicts(log[p], draft)
             /\ m \in Proposal /\ m.status = log[p].status
             /\ \A k \in Keys :
                  /\ m.block[k].before = log[p].block[k].before
                  /\ m.block[k].after = log[p].block[k].after
                  /\ m.block[k].status = IF /\ log[p].block[k].status = "pending"
                                            /\ log[p].block[k].before # draft[k]
                                         THEN "conflicted" ELSE log[p].block[k].status
  BY <1>1, Marked
<1>3. log' = [log EXCEPT ![p] = m]
  BY <1>2
<1>4. PTypeOK'
  BY <1>3 DEF ReadOpen, PInv, PTypeOK
<1>5. log'[p] = m /\ \A q \in Ids \ {p} : log'[q] = log[q]
  BY <1>3 DEF PInv, PTypeOK
<1>6. BlocksFilled'
  <2> SUFFICES ASSUME NEW q \in Ids, NEW k \in Keys
               PROVE  LET b == log'[q].block[k] IN
                      /\ b.status # "none" => b.before \in Texts /\ b.after \in Texts
                      /\ log'[q].status = "none" => b.status = "none"
    BY DEF BlocksFilled
  <2>1. CASE q = p
    BY <1>5, <2>1 DEF PInv, BlocksFilled
  <2>2. CASE q # p
    BY <1>5, <2>2 DEF PInv, BlocksFilled
  <2>3. QED BY <2>1, <2>2
<1>7. OneOpen'
  <2>1. \A q \in Ids : log'[q].status = log[q].status
    BY <1>5
  <2>2. QED BY <2>1 DEF PInv, OneOpen, Open
<1>8. Idle'
  BY DEF ReadOpen, Idle
<1>9. QED BY <1>4, <1>6, <1>7, <1>8 DEF PInv, TxnSound

\* A decision begins with blocks that fit it.
LEMMA BeginInv ==
  ASSUME PInv, NEW p \in Ids, NEW decision, NEW selected \in SUBSET Keys,
         Begin(p, decision, selected)
  PROVE  PInv'
<1>1. log[p] \in Proposal /\ draft \in Sources
  BY DEF PInv, PTypeOK
<1> PICK m : /\ m = MarkConflicts(log[p], draft)
             /\ \A k \in Keys :
                  m.block[k].status = IF /\ log[p].block[k].status = "pending"
                                         /\ log[p].block[k].before # draft[k]
                                      THEN "conflicted" ELSE log[p].block[k].status
  BY <1>1, Marked
<1> DEFINE keys == {k \in selected : Undecided(m.block[k])}
           todo == IF decision = "accept" THEN {FileOf[k] : k \in keys} ELSE {}
<1>2. /\ \A k \in keys : decision \in AllowedDecisions(p, k, m.block[k])
      /\ txn' = [id |-> p, accept |-> decision = "accept", keys |-> keys,
                 todo |-> todo, old |-> draft]
      /\ Open(p) /\ UNCHANGED <<draft, log, source, edits>>
  BY DEF Begin
<1>3. keys \in SUBSET Keys /\ todo \in SUBSET Nat
  BY ProposalsAssumption
<1> HIDE DEF todo
<1>4. txn' \in Txn
  BY <1>1, <1>2, <1>3 DEF Txn
<1>5. PTypeOK' /\ BlocksFilled' /\ OneOpen'
  BY <1>2, <1>4 DEF PInv, PTypeOK, BlocksFilled, OneOpen, Open
<1>6. /\ txn'.id = p /\ txn'.old = draft /\ txn'.keys = keys /\ txn'.todo = todo
      /\ txn'.accept <=> decision = "accept"
  BY <1>2
<1>7. todo # {} => decision = "accept"
  BY DEF todo
<1>8. \A k \in keys : Undecided(log[p].block[k])
  BY <1>3 DEF Undecided
<1>9. ASSUME NEW k \in keys, decision = "accept"
      PROVE  /\ log[p].block[k].status = "pending" /\ log[p].block[k].before = draft[k]
             /\ FileOf[k] \in todo
  <2>1. m.block[k].status = "pending"
    BY <1>2, <1>9, AcceptNeedsPending
  <2>2. log[p].block[k].status = "pending" /\ log[p].block[k].before = draft[k]
    BY <1>3, <2>1
  <2>3. FileOf[k] \in todo
    BY <1>9 DEF todo
  <2>4. QED BY <2>2, <2>3
<1> HIDE DEF keys
<1>10. TxnSound'
  <2>1. draft' = draft /\ log' = log
    BY <1>2
  <2>2. QED BY <1>1, <1>2, <1>6, <1>7, <1>8, <1>9, <2>1 DEF TxnSound, Open, Undecided
<1>11. QED BY <1>5, <1>10 DEF PInv

\* A file that is written has the accepted texts from then on.
LEMMA WriteInv ==
  ASSUME PInv, DecideWrite
  PROVE  PInv'
<1> PICK f \in txn.todo :
      /\ draft' = [k \in Keys |-> IF k \in txn.keys /\ FileOf[k] = f
                                  THEN log[txn.id].block[k].after ELSE draft[k]]
      /\ txn' = [txn EXCEPT !.todo = @ \ {f}]
  BY DEF DecideWrite
<1>1. ~Idle /\ UNCHANGED <<log, source, edits>>
  BY DEF DecideWrite
<1>2. /\ txn.id \in Ids /\ Open(txn.id) /\ txn.old \in Sources /\ txn.accept
      /\ \A k \in txn.keys :
           LET b == log[txn.id].block[k] IN
           /\ Undecided(b) /\ b.status = "pending" /\ b.before = txn.old[k]
           /\ draft[k] = IF FileOf[k] \in txn.todo THEN txn.old[k] ELSE b.after
  BY <1>1 DEF PInv, TxnSound
<1>3. txn \in Txn /\ draft \in Sources
  BY DEF PInv, PTypeOK
<1>4. /\ txn' \in Txn /\ txn'.id = txn.id /\ txn'.old = txn.old /\ txn'.keys = txn.keys
      /\ txn'.accept = txn.accept /\ txn'.todo = txn.todo \ {f}
  BY <1>3 DEF Txn
<1>5. \A k \in txn.keys : k \in Keys /\ log[txn.id].block[k].after \in Texts
  BY <1>2, <1>3 DEF PInv, BlocksFilled, Txn
<1>6. draft' \in Sources
  BY <1>3, <1>5 DEF Sources
<1>7. PTypeOK' /\ BlocksFilled' /\ OneOpen'
  BY <1>1, <1>4, <1>6 DEF PInv, PTypeOK, BlocksFilled, OneOpen, Open
<1>8. \A k \in txn.keys :
        draft'[k] = IF FileOf[k] \in txn.todo \ {f} THEN txn.old[k]
                    ELSE log[txn.id].block[k].after
  BY <1>2, <1>5
<1>9. TxnSound'
  <2>1. log' = log
    BY <1>1
  <2>2. QED BY <1>2, <1>4, <1>8, <2>1 DEF TxnSound, Open, Undecided
<1>10. QED BY <1>7, <1>9 DEF PInv

\* The log takes over the decision.
LEMMA CommitInv ==
  ASSUME PInv, DecideCommit
  PROVE  PInv'
<1>1. ~Idle /\ txn.id \in Ids /\ log[txn.id].status = "open"
  BY DEF DecideCommit, PInv, TxnSound, Open
<1> PICK d : /\ log' = [log EXCEPT ![txn.id] = d]
             /\ d \in Proposal /\ d.status \in {"open", "settled"}
             /\ \A k \in Keys :
                  LET b == log[txn.id].block[k] IN
                  /\ d.block[k].before = b.before /\ d.block[k].after = b.after
                  /\ k \in txn.keys => Undecided(b)
                  /\ k \notin txn.keys => \/ d.block[k].status = b.status
                                          \/ b.status = "pending"
  <2>1. log' = [log EXCEPT ![txn.id] = Decided]
    BY DEF DecideCommit
  <2>2. \A k \in txn.keys : Undecided(log[txn.id].block[k])
    BY <1>1 DEF PInv, TxnSound
  <2>3. /\ Decided \in Proposal /\ Decided.status \in {"open", "settled"}
        /\ \A k \in Keys :
             LET b == log[txn.id].block[k] IN
             /\ Decided.block[k].before = b.before /\ Decided.block[k].after = b.after
             /\ k \notin txn.keys => \/ Decided.block[k].status = b.status
                                     \/ b.status = "pending"
    BY <1>1, DecisionIs
  <2>4. WITNESS Decided
  <2>5. QED BY <2>1, <2>2, <2>3
<1>2. log'[txn.id] = d /\ \A q \in Ids \ {txn.id} : log'[q] = log[q]
  BY <1>1 DEF PInv, PTypeOK
<1>3. NoTxn \in Txn
  BY DEF NoTxn, Txn
<1>4. PTypeOK'
  BY <1>3 DEF DecideCommit, PInv, PTypeOK
<1>5. BlocksFilled'
  <2> SUFFICES ASSUME NEW q \in Ids, NEW k \in Keys
               PROVE  LET b == log'[q].block[k] IN
                      /\ b.status # "none" => b.before \in Texts /\ b.after \in Texts
                      /\ log'[q].status = "none" => b.status = "none"
    BY DEF BlocksFilled
  <2>1. CASE q = txn.id
    <3>1. log[q].block[k].status # "none" =>
            log[q].block[k].before \in Texts /\ log[q].block[k].after \in Texts
      BY DEF PInv, BlocksFilled
    <3>2. d.block[k].status # "none" => log[q].block[k].status # "none"
      BY <2>1 DEF Undecided
    <3>3. QED BY <1>2, <2>1, <3>1, <3>2
  <2>2. CASE q # txn.id
    BY <1>2, <2>2 DEF PInv, BlocksFilled
  <2>3. QED BY <2>1, <2>2
<1>6. OneOpen'
  <2>1. \A q \in Ids : log'[q].status = "open" => log[q].status = "open"
    BY <1>1, <1>2
  <2>2. QED BY <2>1 DEF PInv, OneOpen, Open
<1>7. Idle'
  BY DEF DecideCommit, Idle, NoTxn
<1>8. QED BY <1>4, <1>5, <1>6, <1>7 DEF PInv, TxnSound

\* A rollback and the end of the process leave no decision in progress.
LEMMA EndInv ==
  ASSUME PInv, DecideRaises \/ \E kept \in SUBSET Ids : Forget(kept)
  PROVE  PInv'
<1>1. NoTxn \in Txn
  BY DEF NoTxn, Txn
<1>2. log' = log /\ edits' = edits /\ txn' = NoTxn
  BY DEF DecideRaises, Forget
<1>3. draft' \in Sources /\ source' \in [Ids -> Sources \cup {NoSource}]
  <2>1. CASE DecideRaises
    BY <2>1 DEF DecideRaises, PInv, PTypeOK, TxnSound
  <2>2. ASSUME NEW kept \in SUBSET Ids, Forget(kept)
        PROVE  draft' \in Sources /\ source' \in [Ids -> Sources \cup {NoSource}]
    BY <2>2 DEF Forget, PInv, PTypeOK
  <2>3. QED BY <2>1, <2>2
<1>4. PTypeOK' /\ BlocksFilled' /\ OneOpen'
  BY <1>1, <1>2, <1>3 DEF PInv, PTypeOK, BlocksFilled, OneOpen, Open
<1>5. Idle'
  BY <1>2 DEF Idle, NoTxn
<1>6. QED BY <1>4, <1>5 DEF PInv, TxnSound

\* Every step keeps the invariant.
LEMMA PStepInv == PInv /\ [PNext]_pvars => PInv'
<1> SUFFICES ASSUME PInv, [PNext]_pvars PROVE PInv'
  OBVIOUS
<1>1. ASSUME NEW k \in Keys, NEW t \in Texts, Edit(k, t) PROVE PInv'
  BY <1>1, EditInv
<1>2. ASSUME NEW p \in Ids, Capture(p) PROVE PInv'
  BY <1>2, CaptureInv
<1>3. ASSUME NEW p \in Ids, ReadOpen(p) PROVE PInv'
  BY <1>3, ReadOpenInv
<1>4. ASSUME NEW p \in Ids, NEW answer \in Answers, NEW passed \in BOOLEAN,
             Propose(p, answer, passed)
      PROVE  PInv'
  BY <1>4, ProposeInv
<1>5. ASSUME NEW p \in Ids, NEW d \in {"accept", "reject", "keep"},
             DecideAll(p, d) \/ \E k \in Keys : DecideOne(p, d, k)
      PROVE  PInv'
  <2>1. \E selected \in SUBSET Keys : Begin(p, d, selected)
    BY <1>5 DEF DecideAll, DecideOne
  <2>2. QED BY <2>1, BeginInv
<1>6. ASSUME DecideWrite PROVE PInv'
  BY <1>6, WriteInv
<1>7. ASSUME DecideCommit PROVE PInv'
  BY <1>7, CommitInv
<1>8. ASSUME DecideRaises \/ \E kept \in SUBSET Ids : Forget(kept) PROVE PInv'
  BY <1>8, EndInv
<1>9. ASSUME UNCHANGED pvars PROVE PInv'
  BY <1>9 DEF pvars, PInv, PTypeOK, BlocksFilled, OneOpen, TxnSound, Open, Idle, Undecided
<1>10. QED BY <1>1, <1>2, <1>3, <1>4, <1>5, <1>6, <1>7, <1>8, <1>9 DEF PNext

\* The invariant holds of the proposal log.
THEOREM LogInvariant == PSpec => []PInv
<1>1. QED BY PInitInv, PStepInv, PTL DEF PSpec

\* The records of drafts, proposals and decisions keep their types.
THEOREM LogTypeCorrect == PSpec => []PTypeOK
<1>1. PInv => PTypeOK
  BY DEF PInv
<1>2. QED BY <1>1, LogInvariant, PTL

\* A lesson never has two open proposals (store_proposal).
THEOREM OneProposalOpen == PSpec => []OneOpen
<1>1. PInv => OneOpen
  BY DEF PInv
<1>2. QED BY <1>1, LogInvariant, PTL

(***************************************************************************)
(* What a step may not do.                                                 *)
(***************************************************************************)
\* The steps that change the log, and how.
LEMMA LogChanges ==
  ASSUME PInv, [PNext]_pvars, log' # log
  PROVE  \/ \E p \in Ids, answer \in Answers, passed \in BOOLEAN : Propose(p, answer, passed)
         \/ \E p \in Ids : ReadOpen(p)
         \/ DecideCommit
BY DEF PNext, pvars, Edit, Capture, DecideAll, DecideOne, Begin, DecideWrite, DecideRaises,
       Forget

\* A decision writes only what its blocks were made against (decide_proposal).
THEOREM EditsKept == PSpec => NothingOverwritten
<1> DEFINE Kept == ~Idle /\ txn'.id = txn.id =>
              \A k \in Keys : draft'[k] # draft[k] =>
                /\ log[txn.id].block[k].status = "pending"
                /\ log[txn.id].block[k].before = draft[k]
<1>1. ASSUME PInv, [PNext]_pvars PROVE [Kept]_pvars
  <2> SUFFICES ASSUME ~Idle, txn'.id = txn.id, NEW k \in Keys, draft'[k] # draft[k]
               PROVE  /\ log[txn.id].block[k].status = "pending"
                      /\ log[txn.id].block[k].before = draft[k]
    OBVIOUS
  <2>1. DecideWrite
    BY <1>1 DEF PNext, pvars, Edit, Capture, ReadOpen, Propose, DecideAll, DecideOne, Begin,
                DecideCommit, DecideRaises, Forget, NoTxn, Idle
  <2>2. PICK f \in txn.todo :
          draft' = [i \in Keys |-> IF i \in txn.keys /\ FileOf[i] = f
                                  THEN log[txn.id].block[i].after ELSE draft[i]]
    BY <2>1 DEF DecideWrite
  <2>3. k \in txn.keys /\ FileOf[k] \in txn.todo /\ txn.accept
    BY <1>1, <2>2 DEF PInv, TxnSound
  <2>4. QED BY <1>1, <2>3 DEF PInv, TxnSound
<1> HIDE DEF Kept
<1>2. PSpec => [][Kept]_pvars
  BY <1>1, LogInvariant, PTL DEF PSpec
<1>3. QED BY <1>2 DEF Kept, NothingOverwritten

\* What a step makes of a proposal: what is decided stands, and what becomes
\* accepted is in the draft.
Stands(p) ==
  /\ Closed(p) => log'[p] = log[p]
  /\ \A k \in Keys :
       LET s == log[p].block[k].status
           t == log'[p].block[k].status IN
       /\ s \in {"accepted", "rejected"} => t = s
       /\ s = "conflicted" => t \in {"conflicted", "rejected"}
       /\ s # "accepted" /\ t = "accepted" => draft'[k] = log[p].block[k].after

\* A stored proposal has nothing accepted and leaves the closed ones alone.
LEMMA ProposeStands ==
  ASSUME PInv, NEW q \in Ids, NEW answer \in Answers, NEW passed \in BOOLEAN,
         Propose(q, answer, passed), NEW p \in Ids
  PROVE  Stands(p)
<1> PICK made :
      /\ \A k \in Keys : made.block[k].status \in {"none", "pending"}
      /\ log[q].status # "none" => log' = log
      /\ log[q].status = "none" =>
           /\ log'[q] = made
           /\ \A i \in Ids \ {q} :
                /\ log'[i].block = log[i].block
                /\ ~Open(i) => log'[i] = log[i]
  BY ProposeIs
<1>1. CASE log[q].status # "none"
  BY <1>1 DEF Stands
<1>2. CASE log[q].status = "none" /\ p = q
  BY <1>2 DEF Stands, Closed, PInv, BlocksFilled
<1>3. CASE log[q].status = "none" /\ p # q
  BY <1>3 DEF Stands, Closed, Open
<1>4. QED BY <1>1, <1>2, <1>3

\* Marking conflicts decides nothing.
LEMMA ReadOpenStands ==
  ASSUME PInv, NEW q \in Ids, ReadOpen(q), NEW p \in Ids
  PROVE  Stands(p)
<1>1. log[q] \in Proposal /\ draft \in Sources /\ log \in [Ids -> Proposal]
  BY DEF PInv, PTypeOK
<1> PICK m : /\ m = MarkConflicts(log[q], draft)
             /\ \A k \in Keys :
                  m.block[k].status = IF /\ log[q].block[k].status = "pending"
                                         /\ log[q].block[k].before # draft[k]
                                      THEN "conflicted" ELSE log[q].block[k].status
  BY <1>1, Marked
<1>2. Open(q) /\ log' = [log EXCEPT ![q] = m]
  BY DEF ReadOpen
<1>3. log'[q] = m /\ \A i \in Ids \ {q} : log'[i] = log[i]
  BY <1>1, <1>2
<1>4. CASE p = q
  BY <1>2, <1>3, <1>4 DEF Stands, Closed, Open
<1>5. CASE p # q
  BY <1>3, <1>5 DEF Stands
<1>6. QED BY <1>4, <1>5

\* A decision decides what was undecided, and accepts what is written.
LEMMA CommitStands ==
  ASSUME PInv, DecideCommit, NEW p \in Ids
  PROVE  Stands(p)
<1>1. ~Idle /\ txn.todo = {} /\ draft' = draft /\ log' = [log EXCEPT ![txn.id] = Decided]
  BY DEF DecideCommit
<1>2. /\ txn.id \in Ids /\ Open(txn.id)
      /\ \A k \in txn.keys :
           LET b == log[txn.id].block[k] IN
           /\ Undecided(b)
           /\ txn.accept => b.status = "pending" /\ draft[k] = b.after
  BY <1>1 DEF PInv, TxnSound
<1> PICK d : d = Decided
  OBVIOUS
<1>3. \A k \in Keys :
        LET b == log[txn.id].block[k] IN
        /\ k \in txn.keys /\ txn.accept => d.block[k].status = "accepted"
        /\ k \in txn.keys /\ ~txn.accept => d.block[k].status = "rejected"
        /\ k \notin txn.keys => \/ d.block[k].status = b.status
                                \/ b.status = "pending" /\ d.block[k].status = "conflicted"
  BY <1>1, DecisionIs
<1>4. log'[txn.id] = d /\ \A i \in Ids \ {txn.id} : log'[i] = log[i]
  BY <1>1, <1>2 DEF PInv, PTypeOK
<1>5. CASE p # txn.id
  BY <1>4, <1>5 DEF Stands
<1>6. CASE p = txn.id
  <2>1. ~Closed(p)
    BY <1>2, <1>6 DEF Open, Closed
  <2>2. ASSUME NEW k \in Keys
        PROVE  LET s == log[p].block[k].status
                   t == log'[p].block[k].status IN
               /\ s \in {"accepted", "rejected"} => t = s
               /\ s = "conflicted" => t \in {"conflicted", "rejected"}
               /\ s # "accepted" /\ t = "accepted" => draft'[k] = log[p].block[k].after
    <3>1. CASE k \in txn.keys
      BY <1>1, <1>2, <1>3, <1>4, <1>6, <3>1 DEF Undecided
    <3>2. CASE k \notin txn.keys
      BY <1>3, <1>4, <1>6, <3>2
    <3>3. QED BY <3>1, <3>2
  <2>3. QED BY <2>1, <2>2 DEF Stands
<1>7. QED BY <1>5, <1>6

\* Every step leaves the decisions standing.
LEMMA StepStands ==
  ASSUME PInv, [PNext]_pvars, NEW p \in Ids
  PROVE  Stands(p)
<1>1. CASE log' = log
  BY <1>1 DEF Stands
<1>2. CASE log' # log
  BY <1>2, LogChanges, ProposeStands, ReadOpenStands, CommitStands
<1>3. QED BY <1>1, <1>2

\* Closed proposals and decided blocks never change, and a conflict can only
\* be rejected (read_open_proposal, allowed_decisions, store_proposal).
THEOREM DecisionsAreFinal == PSpec => DecisionsStand
<1> DEFINE Final == \A p \in Ids :
       /\ Closed(p) => log'[p] = log[p]
       /\ \A k \in Keys :
            LET s == log[p].block[k].status
                t == log'[p].block[k].status IN
            /\ s \in {"accepted", "rejected"} => t = s
            /\ s = "conflicted" => t \in {"conflicted", "rejected"}
<1>1. ASSUME PInv, [PNext]_pvars PROVE [Final]_pvars
  BY <1>1, StepStands DEF Stands
<1> HIDE DEF Final
<1>2. PSpec => [][Final]_pvars
  BY <1>1, LogInvariant, PTL DEF PSpec
<1>3. QED BY <1>2 DEF Final, DecisionsStand

\* What the log calls accepted is in the draft when the log says so
\* (decide_proposal writes the log last).
THEOREM AcceptedInDraft == PSpec => AcceptedIsWritten
<1> DEFINE Written == \A p \in Ids, k \in Keys :
       /\ log[p].block[k].status # "accepted"
       /\ log'[p].block[k].status = "accepted"
       => draft'[k] = log[p].block[k].after
<1>1. ASSUME PInv, [PNext]_pvars PROVE [Written]_pvars
  BY <1>1, StepStands DEF Stands
<1> HIDE DEF Written
<1>2. PSpec => [][Written]_pvars
  BY <1>1, LogInvariant, PTL DEF PSpec
<1>3. QED BY <1>2 DEF Written, AcceptedIsWritten

-----------------------------------------------------------------------------
(* The runs.                                                               *)

(***************************************************************************)
(* The inductive invariant.                                                *)
(***************************************************************************)
RunTypes ==
  /\ run \in [Runs -> Run]
  /\ worker \in [Runs -> Job]
  /\ resuming \in [id : Runs \cup {NoId}, pc : {"none", "read", "gate"}]
  /\ settling \in Runs \cup {NoId}
  /\ left \in SUBSET Runs
  /\ phase \in {"up", "closing", "down"}
  /\ ends \in 0..MaxEnds

\* A run is resumed or settled only when its proposal is closed, and settled
\* only behind the review.
GateOpen ==
  /\ resuming.pc # "none" => resuming.id \in Runs /\ Closed(resuming.id)
  /\ settling # NoId => Closed(settling) /\ run[settling].node \in {"gate", "resume", "end"}

\* One request at a time holds the lock, none while the start is reading the
\* runs but the one it settles, and a process that is down has no thread.
Exclusive ==
  /\ ~Idle => resuming = NotResuming /\ settling = NoId
  /\ resuming # NotResuming => settling = NoId
  /\ left # {} => Idle /\ resuming = NotResuming
  /\ phase = "down" => /\ Idle /\ resuming = NotResuming /\ settling = NoId /\ left = {}
                       /\ \A r \in Runs : worker[r] = NoJob

\* What the checkpoint of a run says of itself and of the log.
CheckpointSound(r) ==
  /\ run[r].parked => run[r].node = "gate"
  /\ run[r].outcome = "done" => run[r].node = "end"
  /\ run[r].node \in {"assemble", "check", "auto_fix", "review"} => run[r].new \in Answers
  /\ run[r].node \in {"gate", "resume"} => log[r].status # "none"
  /\ run[r].decision \notin {"none", "kept"} => Closed(r) /\ run[r].decision = OwnerDecision(r)

\* A worker in a node of its run has the checkpoint of that node; one that
\* still has to park may have been overtaken; one that is through leaves
\* nothing behind but what the author decides.
WorkerSound(r) ==
  /\ worker[r].pc \in {"storing", "stored"} => worker[r].at = "review"
  /\ worker[r].pc \in {"node", "storing", "stored"} /\ worker[r].at \in WorkNodes =>
       run[r].node = worker[r].at
  /\ worker[r].pc = "stored" => log[r].status # "none"
  /\ worker[r].pc = "node" /\ worker[r].at = "gate" =>
       \/ run[r].node \in {"gate", "end"}
       \/ run[r].node = "resume" /\ settling = r
  /\ worker[r].pc = "final" => AtRest(r) \/ settling = r
  /\ worker[r].token = "shutdown" => phase # "up"

\* A run the start has been through is in somebody's hands.
InHands(r) ==
  phase = "up" /\ r \notin left /\ ~AtRest(r) => worker[r].pc # "none" \/ settling = r

RunInv(r) == CheckpointSound(r) /\ WorkerSound(r) /\ InHands(r)

RInv == PInv /\ RunTypes /\ GateOpen /\ Exclusive /\ \A r \in Runs : RunInv(r)

(***************************************************************************)
(* What a step leaves alone.                                               *)
(***************************************************************************)
\* What is stored stays stored, and a closed proposal keeps its decision.
LEMMA LogKeeps ==
  ASSUME PInv, [PNext]_pvars, NEW p \in Ids
  PROVE  /\ log[p].status # "none" => log'[p].status # "none"
         /\ Closed(p) => log'[p] = log[p] /\ Closed(p)' /\ OwnerDecision(p)' = OwnerDecision(p)
<1>1. Closed(p) => log'[p] = log[p]
  BY StepStands DEF Stands
<1>2. log[p].status # "none" => log'[p].status # "none"
  <2>1. CASE log' = log
    BY <2>1
  <2>2. ASSUME NEW q \in Ids, NEW answer \in Answers, NEW passed \in BOOLEAN,
               Propose(q, answer, passed), log[p].status # "none"
        PROVE  log'[p].status # "none"
    <3>1. /\ log[q].status # "none" => log' = log
          /\ log[q].status = "none" =>
               \A i \in Ids \ {q} :
                 log'[i].status = IF Open(i) THEN "superseded" ELSE log[i].status
      BY <2>2, ProposeIs
    <3>2. QED BY <2>2, <3>1
  <2>3. ASSUME NEW q \in Ids, ReadOpen(q), log[p].status # "none"
        PROVE  log'[p].status # "none"
    <3>1. log[q] \in Proposal /\ draft \in Sources /\ log \in [Ids -> Proposal]
      BY DEF PInv, PTypeOK
    <3> PICK m : m = MarkConflicts(log[q], draft) /\ m.status = log[q].status
      BY <3>1, Marked
    <3>2. log' = [log EXCEPT ![q] = m]
      BY <2>3 DEF ReadOpen
    <3>3. QED BY <2>3, <3>1, <3>2
  <2>4. ASSUME DecideCommit, log[p].status # "none"
        PROVE  log'[p].status # "none"
    <3>1. /\ ~Idle /\ log' = [log EXCEPT ![txn.id] = Decided]
          /\ log \in [Ids -> Proposal]
      BY <2>4 DEF DecideCommit, PInv, PTypeOK
    <3>2. Decided.status \in {"open", "settled"}
      BY <3>1, DecisionIs
    <3>3. QED BY <2>4, <3>1, <3>2
  <2>5. QED BY <2>1, <2>2, <2>3, <2>4, LogChanges
<1>3. QED BY <1>1, <1>2 DEF Closed, OwnerDecision

\* A run that a step does not touch stays as sound as it was.
LEMMA RunFrame ==
  ASSUME PInv, [PNext]_pvars, NEW r \in Runs, RunInv(r),
         run'[r] = run[r], worker'[r] = worker[r], settling = r => settling' = r,
         phase' = "up" => phase = "up", r \notin left' => r \notin left
  PROVE  RunInv(r)'
<1>1. /\ log[r].status # "none" => log'[r].status # "none"
      /\ Closed(r) => Closed(r)' /\ OwnerDecision(r)' = OwnerDecision(r)
  BY LogKeeps, ProposalsAssumption
<1>2. AtRest(r)' <=> AtRest(r)
  BY DEF AtRest
<1>3. CheckpointSound(r)'
  BY <1>1 DEF RunInv, CheckpointSound
<1>4. WorkerSound(r)'
  BY <1>1, <1>2 DEF RunInv, WorkerSound
<1>5. InHands(r)'
  BY <1>2 DEF RunInv, InHands
<1>6. QED BY <1>3, <1>4, <1>5 DEF RunInv

\* A step of one run keeps the invariant if it keeps that of its run.
LEMMA OneRunStep ==
  ASSUME RInv, [PNext]_pvars, NEW r \in Runs, RunTypes', GateOpen', Exclusive', RunInv(r)',
         \A q \in Runs \ {r} : run'[q] = run[q] /\ worker'[q] = worker[q],
         \A q \in Runs \ {r} : settling = q => settling' = q,
         \A q \in Runs \ {r} : q \notin left' => q \notin left,
         phase' = "up" => phase = "up"
  PROVE  RInv'
<1>1. PInv'
  BY PStepInv DEF RInv
<1>2. \A q \in Runs : RunInv(q)'
  <2> TAKE q \in Runs
  <2>1. CASE q = r
    BY <2>1
  <2>2. CASE q # r
    BY <2>2, RunFrame DEF RInv
  <2>3. QED BY <2>1, <2>2
<1>3. QED BY <1>1, <1>2 DEF RInv

\* A worker's step outside the lock leaves the lock alone.
LEMMA WorkersLock ==
  ASSUME RInv, NEW r \in Runs, worker[r].pc # "none",
         txn' = txn, UNCHANGED <<resuming, settling, left, phase>>
  PROVE  Exclusive' /\ phase # "down"
<1>1. phase # "down"
  BY DEF RInv, Exclusive, NoJob
<1>2. QED BY <1>1 DEF RInv, Exclusive, Idle, NotResuming

\* A request and a settlement go on being about closed proposals.
LEMMA GateKeeps ==
  ASSUME RInv, [PNext]_pvars, UNCHANGED <<resuming, settling>>,
         \A q \in Runs : settling = q => run'[q].node \in {run[q].node, "resume", "end"}
  PROVE  GateOpen'
<1>1. \A q \in Runs : Closed(q) => Closed(q)'
  BY LogKeeps, ProposalsAssumption DEF RInv
<1>2. QED BY <1>1 DEF RInv, GateOpen, RunTypes

\* A new checkpoint is the only thing that changes in run.
LEMMA CheckpointedIs ==
  ASSUME RunTypes, NEW r \in Runs, NEW c \in Run, Checkpointed(r, c)
  PROVE  /\ run' \in [Runs -> Run] /\ run'[r] = c
         /\ \A q \in Runs \ {r} : run'[q] = run[q]
BY DEF RunTypes, Checkpointed

\* A worker goes on.
LEMMA GotoIs ==
  ASSUME RunTypes, NEW r \in Runs, NEW pc, NEW at \in Nodes,
         pc \in {"none", "queued", "read", "marked", "node", "storing", "stored", "final"},
         Goto(r, pc, at)
  PROVE  /\ worker' \in [Runs -> Job]
         /\ worker'[r].pc = pc /\ worker'[r].at = at /\ worker'[r].token = worker[r].token
         /\ \A q \in Runs \ {r} : worker'[q] = worker[q]
<1>1. worker[r] \in Job /\ worker \in [Runs -> Job]
  BY DEF RunTypes
<1> PICK w : w = [worker[r] EXCEPT !.pc = pc, !.at = at]
  OBVIOUS
<1>2. w \in Job /\ w.pc = pc /\ w.at = at /\ w.token = worker[r].token
  BY <1>1 DEF Job
<1>3. worker' = [worker EXCEPT ![r] = w]
  BY <1>1 DEF Goto, Job
<1>4. QED BY <1>1, <1>2, <1>3

\* Writing the outcome keeps the rest of the checkpoint, but not the interrupt.
LEMMA PersistOutcomeIs ==
  ASSUME RunTypes, NEW r \in Runs,
         NEW o \in {"running", "failed", "cancelled", "shutdown_interrupted"},
         PersistOutcome(r, o)
  PROVE  /\ run' \in [Runs -> Run]
         /\ run'[r].outcome = o /\ run'[r].parked = FALSE /\ run'[r].node = run[r].node
         /\ run'[r].decision = run[r].decision /\ run'[r].new = run[r].new
         /\ \A q \in Runs \ {r} : run'[q] = run[q]
<1>1. run[r] \in Run /\ run \in [Runs -> Run]
  BY DEF RunTypes
<1> PICK c : c = [run[r] EXCEPT !.outcome = o, !.parked = FALSE]
  OBVIOUS
<1>2. /\ c \in Run /\ c.outcome = o /\ c.parked = FALSE /\ c.node = run[r].node
      /\ c.decision = run[r].decision /\ c.new = run[r].new
  BY <1>1 DEF Run
<1>3. run' = [run EXCEPT ![r] = c]
  BY DEF PersistOutcome, Checkpointed
<1>4. QED BY <1>1, <1>2, <1>3

(***************************************************************************)
(* The nodes of the graph.                                                 *)
(***************************************************************************)
\* A node is done: what the checkpoint and the worker become.
LEMMA ProceedIs ==
  ASSUME RunTypes, NEW r \in Runs, NEW n \in Nodes, NEW c \in Run, Proceed(r, n, c)
  PROVE  /\ UNCHANGED <<pvars, resuming, settling, left, phase, ends>>
         /\ run' \in [Runs -> Run] /\ worker' \in [Runs -> Job]
         /\ run'[r].node = n /\ run'[r].parked = FALSE
         /\ run'[r].outcome = c.outcome /\ run'[r].decision = c.decision /\ run'[r].new = c.new
         /\ worker'[r].pc = IF n = "end" THEN "final" ELSE "node"
         /\ worker'[r].at = n /\ worker'[r].token = worker[r].token
         /\ \A q \in Runs \ {r} : run'[q] = run[q] /\ worker'[q] = worker[q]
<1> PICK d : d = [c EXCEPT !.node = n, !.parked = FALSE]
  OBVIOUS
<1>1. /\ d \in Run /\ d.node = n /\ d.parked = FALSE
      /\ d.outcome = c.outcome /\ d.decision = c.decision /\ d.new = c.new
  BY DEF Run
<1>2. Checkpointed(r, d)
  BY DEF Proceed
<1>3. /\ run' \in [Runs -> Run] /\ run'[r] = d
      /\ \A q \in Runs \ {r} : run'[q] = run[q]
  BY <1>1, <1>2, CheckpointedIs
<1> PICK pc : pc = IF n = "end" THEN "final" ELSE "node"
  OBVIOUS
<1>4. Goto(r, pc, n) /\ pc \in {"final", "node"}
  BY DEF Proceed
<1>5. /\ worker' \in [Runs -> Job]
      /\ worker'[r].pc = pc /\ worker'[r].at = n /\ worker'[r].token = worker[r].token
      /\ \A q \in Runs \ {r} : worker'[q] = worker[q]
  BY <1>4, GotoIs
<1>6. UNCHANGED <<pvars, resuming, settling, left, phase, ends>>
  BY DEF Proceed
<1>7. QED BY <1>1, <1>3, <1>5, <1>6

\* A node before the gate that is done leaves a sound run.
LEMMA WorkProceeds ==
  ASSUME RInv, NEW r \in Runs, NEW n \in Nodes \ {"none", "resume"}, NEW c \in Run,
         Proceed(r, n, c),
         worker[r].pc \in {"node", "stored"}, worker[r].at \in WorkNodes,
         c.outcome = "done" => n = "end",
         n \in {"assemble", "check", "auto_fix", "review"} => c.new \in Answers,
         n = "gate" => log[r].status # "none",
         c.decision \in {"none", "kept"} \/ c.decision = run[r].decision
  PROVE  RInv'
<1>1. RunTypes /\ RunInv(r) /\ GateOpen
  BY DEF RInv
<1>2. /\ UNCHANGED <<pvars, resuming, settling, left, phase, ends>>
      /\ run' \in [Runs -> Run] /\ worker' \in [Runs -> Job]
      /\ run'[r].node = n /\ run'[r].parked = FALSE
      /\ run'[r].outcome = c.outcome /\ run'[r].decision = c.decision /\ run'[r].new = c.new
      /\ worker'[r].pc = IF n = "end" THEN "final" ELSE "node"
      /\ worker'[r].at = n /\ worker'[r].token = worker[r].token
      /\ \A q \in Runs \ {r} : run'[q] = run[q] /\ worker'[q] = worker[q]
  BY <1>1, ProceedIs
<1>3. log' = log /\ [PNext]_pvars
  BY <1>2 DEF pvars
<1>4. settling # r
  BY <1>1, ProposalsAssumption DEF GateOpen, RunInv, WorkerSound, WorkNodes
<1>5. RunTypes'
  BY <1>1, <1>2 DEF RunTypes
<1>6. GateOpen'
  BY <1>1, <1>2, <1>3, <1>4 DEF GateOpen, Closed, RunTypes
<1>7. CheckpointSound(r)'
  BY <1>1, <1>2, <1>3 DEF RunInv, CheckpointSound, Closed, OwnerDecision
<1>8. WorkerSound(r)'
  BY <1>1, <1>2, <1>3 DEF RunInv, WorkerSound, WorkNodes, AtRest
<1>9. InHands(r)'
  BY <1>2 DEF InHands
<1>10. RunInv(r)'
  BY <1>7, <1>8, <1>9 DEF RunInv
<1>11. Exclusive'
  BY <1>2, WorkersLock DEF pvars
<1>12. QED BY <1>2, <1>3, <1>5, <1>6, <1>10, <1>11, OneRunStep

\* A checkpoint with other fields is a checkpoint.
LEMMA RunFields ==
  ASSUME NEW c \in Run
  PROVE  /\ \A new \in Sources : LET d == [c EXCEPT !.new = new] IN
              d \in Run /\ d.new = new /\ d.outcome = c.outcome /\ d.decision = c.decision
         /\ \A passed \in BOOLEAN : LET d == [c EXCEPT !.passed = passed] IN
              d \in Run /\ d.new = c.new /\ d.outcome = c.outcome /\ d.decision = c.decision
         /\ LET d == [c EXCEPT !.repair = TRUE] IN
              d \in Run /\ d.new = c.new /\ d.outcome = c.outcome /\ d.decision = c.decision
         /\ LET d == [c EXCEPT !.decision = "kept", !.outcome = "done"] IN
              d \in Run /\ d.new = c.new /\ d.outcome = "done" /\ d.decision = "kept"
BY DEF Run

\* What a worker at a node of the graph knows of its run.
LEMMA AtNode ==
  ASSUME RInv, NEW r \in Runs, NEW n \in WorkNodes, At(r, n)
  PROVE  /\ worker[r].pc = "node" /\ worker[r].at = n /\ worker[r].at \in WorkNodes
         /\ run[r] \in Run /\ run[r].node = n /\ run[r].outcome # "done"
         /\ n \in {"assemble", "check", "auto_fix", "review"} => run[r].new \in Answers
BY DEF RInv, RunInv, WorkerSound, CheckpointSound, At, RunTypes, WorkNodes

LEMMA AnswersAreSources == Answers \subseteq Sources
BY ProposalsAssumption DEF Sources

\* Generating leaves a sound run.
LEMMA GenerateInv ==
  ASSUME RInv, NEW r \in Runs, NEW new \in Answers, Generate(r, new)
  PROVE  RInv'
<1>1. At(r, "generate")
  BY DEF Generate
<1>2. /\ worker[r].pc = "node" /\ worker[r].at \in WorkNodes
      /\ run[r] \in Run /\ run[r].outcome # "done"
  BY <1>1, AtNode DEF WorkNodes
<1> PICK c : c = [run[r] EXCEPT !.new = new]
  OBVIOUS
<1>3. c \in Run /\ c.new = new /\ c.outcome = run[r].outcome /\ c.decision = run[r].decision
  BY <1>2, RunFields, AnswersAreSources
<1>4. Proceed(r, "check", c) \/ Proceed(r, "assemble", c)
  BY DEF Generate
<1>5. ASSUME Proceed(r, "check", c) PROVE RInv'
  BY <1>2, <1>3, <1>5, WorkProceeds DEF Nodes, WorkNodes
<1>6. ASSUME Proceed(r, "assemble", c) PROVE RInv'
  BY <1>2, <1>3, <1>6, WorkProceeds DEF Nodes, WorkNodes
<1>7. QED BY <1>4, <1>5, <1>6

\* Assembling leaves a sound run.
LEMMA AssembleInv ==
  ASSUME RInv, NEW r \in Runs, Assemble(r)
  PROVE  RInv'
<1>1. At(r, "assemble")
  BY DEF Assemble
<1>2. /\ worker[r].pc = "node" /\ worker[r].at \in WorkNodes
      /\ run[r] \in Run /\ run[r].outcome # "done" /\ run[r].new \in Answers
  BY <1>1, AtNode DEF WorkNodes
<1> PICK c : c = [run[r] EXCEPT !.decision = "kept", !.outcome = "done"]
  OBVIOUS
<1>3. c \in Run /\ c.outcome = "done" /\ c.decision = "kept"
  BY <1>2, RunFields
<1>4. Proceed(r, "end", c) \/ Proceed(r, "check", run[r])
  BY DEF Assemble
<1>5. ASSUME Proceed(r, "end", c) PROVE RInv'
  <2>1. "end" \in Nodes \ {"none", "resume"}
    BY DEF Nodes
  <2>2. QED BY <1>2, <1>3, <1>5, <2>1, WorkProceeds
<1>6. ASSUME Proceed(r, "check", run[r]) PROVE RInv'
  BY <1>2, <1>6, WorkProceeds DEF Nodes, WorkNodes
<1>7. QED BY <1>4, <1>5, <1>6

\* Checking leaves a sound run.
LEMMA CheckInv ==
  ASSUME RInv, NEW r \in Runs, NEW passed \in BOOLEAN, Check(r, passed)
  PROVE  RInv'
<1>1. At(r, "check")
  BY DEF Check
<1>2. /\ worker[r].pc = "node" /\ worker[r].at \in WorkNodes
      /\ run[r] \in Run /\ run[r].outcome # "done" /\ run[r].new \in Answers
  BY <1>1, AtNode DEF WorkNodes
<1> PICK c : c = [run[r] EXCEPT !.passed = passed]
  OBVIOUS
<1>3. /\ c \in Run /\ c.new = run[r].new
      /\ c.outcome = run[r].outcome /\ c.decision = run[r].decision
  BY <1>2, RunFields
<1>4. Proceed(r, "review", c) \/ Proceed(r, "auto_fix", c)
  BY DEF Check
<1>5. ASSUME Proceed(r, "review", c) PROVE RInv'
  BY <1>2, <1>3, <1>5, WorkProceeds DEF Nodes, WorkNodes
<1>6. ASSUME Proceed(r, "auto_fix", c) PROVE RInv'
  BY <1>2, <1>3, <1>6, WorkProceeds DEF Nodes, WorkNodes
<1>7. QED BY <1>4, <1>5, <1>6

\* Repairing leaves a sound run.
LEMMA AutoFixInv ==
  ASSUME RInv, NEW r \in Runs, NEW new \in Answers, NEW passed \in BOOLEAN,
         AutoFix(r, new, passed)
  PROVE  RInv'
<1>1. At(r, "auto_fix")
  BY DEF AutoFix
<1>2. /\ worker[r].pc = "node" /\ worker[r].at \in WorkNodes
      /\ run[r] \in Run /\ run[r].outcome # "done"
  BY <1>1, AtNode DEF WorkNodes
<1> PICK c : c = [run[r] EXCEPT !.new = new, !.passed = passed]
  OBVIOUS
<1>3. c \in Run /\ c.new = new /\ c.outcome = run[r].outcome /\ c.decision = run[r].decision
  BY <1>2, AnswersAreSources DEF Run
<1> PICK d : d = [run[r] EXCEPT !.repair = TRUE]
  OBVIOUS
<1>4. d \in Run /\ d.outcome = run[r].outcome /\ d.decision = run[r].decision
  BY <1>2, RunFields
<1>5. Proceed(r, "review", c) \/ Proceed(r, "generate", d)
  BY DEF AutoFix
<1>6. ASSUME Proceed(r, "review", c) PROVE RInv'
  BY <1>2, <1>3, <1>6, WorkProceeds DEF Nodes, WorkNodes
<1>7. ASSUME Proceed(r, "generate", d) PROVE RInv'
  BY <1>2, <1>4, <1>7, WorkProceeds DEF Nodes, WorkNodes
<1>8. QED BY <1>5, <1>6, <1>7

\* The review that is over leaves a run that can wait: its proposal is stored.
LEMMA ReviewDoneInv ==
  ASSUME RInv, NEW r \in Runs, ReviewDone(r)
  PROVE  RInv'
<1>1. /\ worker[r].pc = "stored" /\ worker[r].at = "review" /\ log[r].status # "none"
      /\ run[r] \in Run
  BY DEF ReviewDone, RInv, RunInv, WorkerSound, RunTypes
<1> PICK c : c = AtGate(r)
  OBVIOUS
<1>2. c \in Run /\ c.outcome = "waiting" /\ c.decision = "none"
  BY <1>1 DEF AtGate, NoRun, Run, Nodes, WorkNodes
<1>3. Proceed(r, "gate", c)
  BY DEF ReviewDone
<1>4. QED BY <1>1, <1>2, <1>3, WorkProceeds DEF Nodes, WorkNodes

(***************************************************************************)
(* The other steps of a worker.                                            *)
(***************************************************************************)
\* A worker that goes on, with the checkpoint as it is, leaves a sound run if
\* what it now relies on holds.
LEMMA WorkerMoves ==
  ASSUME RInv, [PNext]_pvars, NEW r \in Runs, NEW at \in Nodes,
         NEW pc \in {"queued", "read", "marked", "node", "storing", "stored", "final"},
         Goto(r, pc, at), UNCHANGED <<run, resuming, settling, left, phase, ends>>,
         WorkerSound(r)', Exclusive'
  PROVE  RInv'
<1>1. /\ worker' \in [Runs -> Job] /\ worker'[r].pc = pc
      /\ \A q \in Runs \ {r} : worker'[q] = worker[q]
  BY GotoIs DEF RInv
<1>2. RunTypes'
  BY <1>1 DEF RInv, RunTypes
<1>3. GateOpen'
  BY GateKeeps
<1>4. CheckpointSound(r)'
  <2>1. /\ log[r].status # "none" => log'[r].status # "none"
        /\ Closed(r) => Closed(r)' /\ OwnerDecision(r)' = OwnerDecision(r)
    BY LogKeeps, ProposalsAssumption DEF RInv
  <2>2. QED BY <2>1 DEF RInv, RunInv, CheckpointSound
<1>5. InHands(r)'
  BY <1>1 DEF InHands
<1>6. QED BY <1>1, <1>2, <1>3, <1>4, <1>5, OneRunStep DEF RunInv

\* A node that is answered, and has yet to store the proposal.
LEMMA ReviewedInv ==
  ASSUME RInv, NEW r \in Runs, Reviewed(r)
  PROVE  RInv'
<1>1. At(r, "review") /\ Goto(r, "storing", "review")
      /\ UNCHANGED <<pvars, run, resuming, settling, left, phase, ends>>
  BY DEF Reviewed
<1>2. worker[r].pc = "node" /\ run[r].node = "review"
  BY <1>1, AtNode DEF WorkNodes
<1>3. "review" \in Nodes /\ [PNext]_pvars
  BY <1>1 DEF Nodes, WorkNodes
<1>4. Exclusive'
  BY <1>1, <1>2, WorkersLock DEF pvars
<1>5. worker'[r].pc = "storing" /\ worker'[r].at = "review" /\ worker'[r].token = worker[r].token
  BY <1>1, <1>3, GotoIs DEF RInv
<1>6. WorkerSound(r)'
  BY <1>1, <1>2, <1>5 DEF RInv, RunInv, WorkerSound
<1>7. QED BY <1>1, <1>3, <1>4, <1>6, WorkerMoves

\* The proposal is in the log once the node has stored it.
LEMMA ReviewStoresInv ==
  ASSUME RInv, NEW r \in Runs, ReviewStores(r)
  PROVE  RInv' /\ [PNext]_pvars
<1>1. /\ worker[r].pc = "storing" /\ Goto(r, "stored", "review")
      /\ Propose(r, run[r].new, run[r].passed)
      /\ UNCHANGED <<run, resuming, settling, left, phase, ends>>
  BY DEF ReviewStores
<1>2. /\ worker[r].at = "review" /\ run[r].node = "review"
      /\ run[r].new \in Answers /\ run[r].passed \in BOOLEAN
  BY <1>1 DEF RInv, RunInv, RunTypes, WorkerSound, CheckpointSound, WorkNodes, Run
<1>3. [PNext]_pvars
  BY <1>1, <1>2, ProposalsAssumption DEF PNext
<1>4. log'[r].status # "none"
  BY <1>1, <1>2, ProposeIs, ProposalsAssumption DEF RInv
<1>5. "review" \in Nodes
  BY DEF Nodes, WorkNodes
<1>6. Exclusive'
  BY <1>1, WorkersLock DEF Propose
<1>7. worker'[r].pc = "stored" /\ worker'[r].at = "review" /\ worker'[r].token = worker[r].token
  BY <1>1, <1>5, GotoIs DEF RInv
<1>8. WorkerSound(r)'
  BY <1>1, <1>2, <1>4, <1>7 DEF RInv, RunInv, WorkerSound
<1>9. QED BY <1>1, <1>3, <1>5, <1>6, <1>8, WorkerMoves

\* A worker that begins its graph is at the checkpoint's next node.
LEMMA WorkerInvokesInv ==
  ASSUME RInv, NEW r \in Runs, WorkerInvokes(r)
  PROVE  RInv'
<1> PICK pc : pc = IF run[r].node = "end" THEN "final" ELSE "node"
  OBVIOUS
<1>1. /\ worker[r].pc = "marked" /\ Goto(r, pc, run[r].node) /\ pc \in {"final", "node"}
      /\ UNCHANGED <<pvars, run, resuming, settling, left, phase, ends>>
  BY DEF WorkerInvokes
<1>2. run[r].node \in Nodes /\ [PNext]_pvars
  BY <1>1 DEF RInv, RunTypes, Run
<1>3. Exclusive'
  BY <1>1, WorkersLock DEF pvars
<1>4. worker'[r].pc = pc /\ worker'[r].at = run[r].node /\ worker'[r].token = worker[r].token
  BY <1>1, <1>2, GotoIs DEF RInv
<1>5. WorkerSound(r)'
  BY <1>1, <1>2, <1>4 DEF RInv, RunInv, WorkerSound, AtRest, WorkNodes
<1>6. QED BY <1>1, <1>2, <1>3, <1>5, WorkerMoves

\* A worker that writes an outcome leaves a sound run, if it goes on or if the
\* outcome is one to rest with.
LEMMA OutcomeInv ==
  ASSUME RInv, NEW r \in Runs, worker[r].pc # "none",
         NEW o \in {"running", "failed", "cancelled", "shutdown_interrupted"},
         PersistOutcome(r, o), UNCHANGED <<pvars, resuming, settling, left, phase, ends>>,
         worker' \in [Runs -> Job], \A q \in Runs \ {r} : worker'[q] = worker[q],
         worker'[r].pc \in {"none", "marked", "final"},
         worker'[r].token \in {"none", worker[r].token},
         worker'[r].pc = "marked" \/ o \in {"failed", "cancelled"} \/ phase # "up",
         worker'[r].pc = "final" => o = "failed"
  PROVE  RInv'
<1>1. /\ run' \in [Runs -> Run]
      /\ run'[r].outcome = o /\ run'[r].parked = FALSE /\ run'[r].node = run[r].node
      /\ run'[r].decision = run[r].decision /\ run'[r].new = run[r].new
      /\ \A q \in Runs \ {r} : run'[q] = run[q]
  BY PersistOutcomeIs DEF RInv
<1>2. [PNext]_pvars /\ log' = log
  BY DEF pvars
<1>3. RunTypes'
  BY <1>1 DEF RInv, RunTypes
<1>4. GateOpen'
  BY <1>1, <1>2, GateKeeps
<1>5. Exclusive'
  BY WorkersLock DEF pvars
<1>6. CheckpointSound(r)'
  BY <1>1, <1>2 DEF RInv, RunInv, CheckpointSound, Closed, OwnerDecision
<1>7. WorkerSound(r)'
  BY <1>1 DEF RInv, RunInv, WorkerSound, AtRest
<1>8. InHands(r)'
  BY <1>1 DEF InHands, AtRest
<1>9. QED BY <1>1, <1>2, <1>3, <1>4, <1>5, <1>6, <1>7, <1>8, OneRunStep DEF RunInv

\* A job that is over is gone.
LEMMA JobGone ==
  ASSUME RunTypes, NEW r \in Runs, worker' = [worker EXCEPT ![r] = NoJob]
  PROVE  /\ worker' \in [Runs -> Job]
         /\ worker'[r].pc = "none" /\ worker'[r].token = "none"
         /\ \A q \in Runs \ {r} : worker'[q] = worker[q]
<1>1. NoJob \in Job /\ NoJob.pc = "none" /\ NoJob.token = "none"
  BY DEF NoJob, Job, Nodes
<1>2. QED BY <1>1 DEF RunTypes

\* The first write of a worker, and the writes that end a job.
LEMMA WritesInv ==
  ASSUME RInv, NEW r \in Runs,
         WorkerMarks(r) \/ NodeRaises(r) \/ NodeStops(r) \/ NodeExpires(r)
  PROVE  RInv'
<1>1. RunTypes /\ "none" \in Nodes
  BY DEF RInv, Nodes
<1>2. ASSUME WorkerMarks(r) PROVE RInv'
  <2>1. /\ worker[r].pc = "read" /\ PersistOutcome(r, "running") /\ Goto(r, "marked", "none")
        /\ UNCHANGED <<pvars, resuming, settling, left, phase, ends>>
    BY <1>2 DEF WorkerMarks
  <2>2. /\ worker' \in [Runs -> Job] /\ worker'[r].pc = "marked"
        /\ worker'[r].token = worker[r].token
        /\ \A q \in Runs \ {r} : worker'[q] = worker[q]
    BY <1>1, <2>1, GotoIs
  <2>3. QED BY <2>1, <2>2, OutcomeInv
<1>3. ASSUME NodeRaises(r) PROVE RInv'
  <2>1. /\ worker[r].pc = "node" /\ PersistOutcome(r, "failed")
        /\ worker' = [worker EXCEPT ![r] = NoJob]
        /\ UNCHANGED <<pvars, resuming, settling, left, phase, ends>>
    BY <1>3 DEF NodeRaises
  <2>2. /\ worker' \in [Runs -> Job] /\ worker'[r].pc = "none" /\ worker'[r].token = "none"
        /\ \A q \in Runs \ {r} : worker'[q] = worker[q]
    BY <1>1, <2>1, JobGone
  <2>3. QED BY <2>1, <2>2, OutcomeInv
<1>4. ASSUME NodeStops(r) PROVE RInv'
  <2> PICK o : o = IF worker[r].token = "author" THEN "cancelled" ELSE "shutdown_interrupted"
    OBVIOUS
  <2>1. /\ worker[r].pc = "node" /\ PersistOutcome(r, o) /\ worker[r].token # "none"
        /\ worker' = [worker EXCEPT ![r] = NoJob]
        /\ UNCHANGED <<pvars, resuming, settling, left, phase, ends>>
    BY <1>4 DEF NodeStops
  <2>2. /\ worker' \in [Runs -> Job] /\ worker'[r].pc = "none" /\ worker'[r].token = "none"
        /\ \A q \in Runs \ {r} : worker'[q] = worker[q]
    BY <1>1, <2>1, JobGone
  <2>3. /\ o \in {"cancelled", "shutdown_interrupted"}
        /\ o = "cancelled" \/ phase # "up"
    BY <1>1, <2>1 DEF RInv, RunInv, WorkerSound, RunTypes, Job
  <2>4. QED BY <2>1, <2>2, <2>3, OutcomeInv
<1>5. ASSUME NodeExpires(r) PROVE RInv'
  <2>1. /\ worker[r].pc = "node" /\ PersistOutcome(r, "failed") /\ Goto(r, "final", "none")
        /\ UNCHANGED <<pvars, resuming, settling, left, phase, ends>>
    BY <1>5 DEF NodeExpires
  <2>2. /\ worker' \in [Runs -> Job] /\ worker'[r].pc = "final"
        /\ worker'[r].token = worker[r].token
        /\ \A q \in Runs \ {r} : worker'[q] = worker[q]
    BY <1>1, <2>1, GotoIs
  <2>3. QED BY <2>1, <2>2, OutcomeInv
<1>6. QED BY <1>2, <1>3, <1>4, <1>5

\* A worker at the gate parks its run, unless a decision has already taken it
\* further.
LEMMA ParkInv ==
  ASSUME RInv, NEW r \in Runs, Park(r)
  PROVE  RInv'
<1>1. /\ worker[r].pc = "node" /\ worker[r].at = "gate" /\ run[r] \in Run
      /\ Goto(r, "final", "gate") /\ "gate" \in Nodes
      /\ UNCHANGED <<pvars, resuming, settling, left, phase, ends>>
  BY DEF Park, At, RInv, RunTypes, Nodes
<1> PICK c : c = [run[r] EXCEPT !.parked = (@ \/ run[r].node = "gate")]
  OBVIOUS
<1>2. /\ c \in Run /\ c.node = run[r].node /\ c.outcome = run[r].outcome
      /\ c.decision = run[r].decision /\ c.new = run[r].new
      /\ c.parked <=> run[r].parked \/ run[r].node = "gate"
  BY <1>1 DEF Run
<1>3. Checkpointed(r, c)
  BY DEF Park
<1>4. /\ run' \in [Runs -> Run] /\ run'[r] = c /\ \A q \in Runs \ {r} : run'[q] = run[q]
  BY <1>2, <1>3, CheckpointedIs DEF RInv
<1>5. /\ worker' \in [Runs -> Job]
      /\ worker'[r].pc = "final" /\ worker'[r].at = "gate" /\ worker'[r].token = worker[r].token
      /\ \A q \in Runs \ {r} : worker'[q] = worker[q]
  BY <1>1, GotoIs DEF RInv
<1>6. [PNext]_pvars /\ log' = log
  BY <1>1 DEF pvars
<1>7. RunTypes' /\ GateOpen' /\ Exclusive'
  <2>1. RunTypes'
    BY <1>1, <1>4, <1>5 DEF RInv, RunTypes
  <2>2. GateOpen'
    BY <1>1, <1>2, <1>4, <1>6, GateKeeps
  <2>3. Exclusive'
    BY <1>1, WorkersLock DEF pvars
  <2>4. QED BY <2>1, <2>2, <2>3
<1>8. CheckpointSound(r)'
  BY <1>2, <1>4, <1>6 DEF RInv, RunInv, CheckpointSound, Closed, OwnerDecision
<1>9. WorkerSound(r)'
  BY <1>1, <1>2, <1>4, <1>5 DEF RInv, RunInv, WorkerSound, AtRest
<1>10. InHands(r)'
  BY <1>5 DEF InHands
<1>11. QED BY <1>1, <1>4, <1>5, <1>6, <1>7, <1>8, <1>9, <1>10, OneRunStep DEF RunInv

\* A worker that finds its run behind the gate ends it.
LEMMA ResumeNodeInv ==
  ASSUME RInv, NEW r \in Runs, ResumeNode(r)
  PROVE  RInv'
<1>1. worker[r].pc = "node" /\ run[r] \in Run /\ RunTypes
  BY DEF ResumeNode, At, RInv, RunTypes
<1>2. PICK c \in Run : c.decision = run[r].decision /\ Proceed(r, "end", c)
  <2>1. [run[r] EXCEPT !.outcome = "done"] \in Run
    BY <1>1 DEF Run
  <2>2. QED BY <1>1, <2>1 DEF ResumeNode, Run
<1>3. "end" \in Nodes
  BY DEF Nodes
<1>4. /\ UNCHANGED <<pvars, resuming, settling, left, phase, ends>>
      /\ run' \in [Runs -> Run] /\ worker' \in [Runs -> Job]
      /\ run'[r].node = "end" /\ run'[r].parked = FALSE
      /\ run'[r].decision = run[r].decision
      /\ worker'[r].pc = "final" /\ worker'[r].token = worker[r].token
      /\ \A q \in Runs \ {r} : run'[q] = run[q] /\ worker'[q] = worker[q]
  BY <1>1, <1>2, <1>3, ProceedIs
<1>5. [PNext]_pvars /\ log' = log
  BY <1>4 DEF pvars
<1>6. RunTypes' /\ GateOpen' /\ Exclusive'
  <2>1. RunTypes'
    BY <1>1, <1>4 DEF RunTypes
  <2>2. GateOpen'
    BY <1>4, <1>5, GateKeeps
  <2>3. Exclusive'
    BY <1>1, <1>4, WorkersLock DEF pvars
  <2>4. QED BY <2>1, <2>2, <2>3
<1>7. CheckpointSound(r)'
  BY <1>4, <1>5 DEF RInv, RunInv, CheckpointSound, Closed, OwnerDecision
<1>8. WorkerSound(r)' /\ InHands(r)'
  BY <1>4 DEF RInv, RunInv, WorkerSound, InHands, AtRest, WorkNodes
<1>9. QED BY <1>4, <1>5, <1>6, <1>7, <1>8, OneRunStep DEF RunInv

(***************************************************************************)
(* Reading and settling a run, under the lock.                             *)
(***************************************************************************)
\* A run whose status is final or waiting is at rest.
LEMMA StatusRests ==
  ASSUME RInv, NEW r \in Runs, StatusOf(r) \notin {"running", "shutdown_interrupted"}
  PROVE  AtRest(r)
BY DEF RInv, RunInv, RunTypes, Run, CheckpointSound, StatusOf, AtRest

\* A read of a run begins to settle it only if its proposal is closed.
LEMMA ReadGate ==
  ASSUME RInv, NEW r \in Runs, settling' = IF ToSettle(r) THEN r ELSE NoId,
         UNCHANGED <<log, run>>,
         resuming'.pc # "none" => resuming.pc # "none" /\ resuming'.id = resuming.id
  PROVE  GateOpen' /\ settling' \in Runs \cup {NoId}
<1>1. ToSettle(r) => Closed(r) /\ run[r].node = "gate"
  BY DEF ToSettle, RInv, RunInv, CheckpointSound
<1>2. resuming'.pc # "none" => resuming'.id \in Runs /\ Closed(resuming.id)'
  BY DEF RInv, GateOpen, Closed
<1>3. settling' # NoId => Closed(settling)' /\ run'[settling'].node = "gate"
  BY <1>1 DEF Closed
<1>4. QED BY <1>2, <1>3 DEF GateOpen

\* The job's first read.
LEMMA WorkerReadsInv ==
  ASSUME RInv, NEW r \in Runs, WorkerReads(r)
  PROVE  RInv'
<1>1. /\ worker[r].pc = "queued" /\ LockFree /\ RunTypes /\ "none" \in Nodes
      /\ settling' = IF ToSettle(r) THEN r ELSE NoId
      /\ UNCHANGED <<pvars, run, resuming, left, phase, ends>>
  BY DEF WorkerReads, RInv, Nodes
<1>2. settling = NoId /\ Idle /\ resuming = NotResuming /\ left = {} /\ phase # "down"
  BY <1>1 DEF LockFree
<1>3. [PNext]_pvars /\ UNCHANGED <<log, txn>>
  BY <1>1 DEF pvars
<1>4. GateOpen' /\ settling' \in Runs \cup {NoId}
  BY <1>1, <1>3, ReadGate
<1>5. /\ worker' \in [Runs -> Job]
      /\ worker'[r].pc \in {"none", "read"}
      /\ worker'[r].pc = "none" => AtRest(r)
      /\ worker'[r].token \in {"none", worker[r].token}
      /\ \A q \in Runs \ {r} : worker'[q] = worker[q]
  <2>1. CASE ToSettle(r) \/ StatusOf(r) \in Terminal \cup {"waiting"}
    <3>1. AtRest(r)
      BY <2>1, StatusRests DEF ToSettle, AtRest, Terminal
    <3>2. worker' = [worker EXCEPT ![r] = NoJob]
      BY <2>1 DEF WorkerReads
    <3>3. QED BY <1>1, <3>1, <3>2, JobGone
  <2>2. CASE ~(ToSettle(r) \/ StatusOf(r) \in Terminal \cup {"waiting"})
    <3>1. Goto(r, "read", "none")
      BY <2>2 DEF WorkerReads
    <3>2. QED BY <1>1, <3>1, GotoIs
  <2>3. QED BY <2>1, <2>2
<1>6. RunTypes'
  BY <1>1, <1>4, <1>5 DEF RunTypes
<1>7. Exclusive'
  BY <1>1, <1>2, <1>3 DEF Exclusive, Idle
<1>8. CheckpointSound(r)'
  BY <1>1, <1>3 DEF RInv, RunInv, CheckpointSound, Closed, OwnerDecision
<1>9. WorkerSound(r)' /\ InHands(r)'
  BY <1>1, <1>3, <1>5 DEF RInv, RunInv, WorkerSound, InHands, AtRest
<1>10. \A q \in Runs : settling # q
  BY <1>2, ProposalsAssumption
<1>11. QED
  BY <1>1, <1>3, <1>4, <1>5, <1>6, <1>7, <1>8, <1>9, <1>10, OneRunStep DEF RunInv

\* The job's last read.
LEMMA WorkerFinalInv ==
  ASSUME RInv, NEW r \in Runs, WorkerFinal(r)
  PROVE  RInv'
<1>1. /\ worker[r].pc = "final" /\ LockFree /\ RunTypes
      /\ settling' = IF ToSettle(r) THEN r ELSE NoId
      /\ worker' = [worker EXCEPT ![r] = NoJob]
      /\ UNCHANGED <<pvars, run, resuming, left, phase, ends>>
  BY DEF WorkerFinal, RInv
<1>2. settling = NoId /\ Idle /\ resuming = NotResuming /\ left = {} /\ phase # "down"
  BY <1>1 DEF LockFree
<1>3. [PNext]_pvars /\ UNCHANGED <<log, txn>>
  BY <1>1 DEF pvars
<1>4. GateOpen' /\ settling' \in Runs \cup {NoId}
  BY <1>1, <1>3, ReadGate
<1>5. /\ worker' \in [Runs -> Job] /\ worker'[r].pc = "none" /\ worker'[r].token = "none"
      /\ \A q \in Runs \ {r} : worker'[q] = worker[q]
  BY <1>1, JobGone
<1>6. AtRest(r)
  BY <1>1, <1>2, ProposalsAssumption DEF RInv, RunInv, WorkerSound
<1>7. RunTypes'
  BY <1>1, <1>4, <1>5 DEF RunTypes
<1>8. Exclusive'
  BY <1>1, <1>2, <1>3 DEF Exclusive, Idle
<1>9. CheckpointSound(r)'
  BY <1>1, <1>3 DEF RInv, RunInv, CheckpointSound, Closed, OwnerDecision
<1>10. WorkerSound(r)' /\ InHands(r)'
  BY <1>1, <1>5, <1>6 DEF WorkerSound, InHands, AtRest
<1>11. \A q \in Runs : settling # q
  BY <1>2, ProposalsAssumption
<1>12. QED
  BY <1>1, <1>3, <1>4, <1>5, <1>7, <1>8, <1>9, <1>10, <1>11, OneRunStep DEF RunInv

\* A step that touches no run and no job leaves the runs as they are.
LEMMA LockOnly ==
  ASSUME RInv, [PNext]_pvars, UNCHANGED <<run, worker, left, phase>>,
         \A q \in Runs : settling = q => settling' = q,
         RunTypes', GateOpen', Exclusive'
  PROVE  RInv'
<1>1. PInv'
  BY PStepInv DEF RInv
<1>2. \A q \in Runs : RunInv(q)'
  BY RunFrame DEF RInv
<1>3. QED BY <1>1, <1>2 DEF RInv

\* The browser's read.
LEMMA ReadRunInv ==
  ASSUME RInv, NEW r \in Runs, ReadRun(r)
  PROVE  RInv'
<1>1. /\ LockFree /\ ToSettle(r) /\ settling' = r
      /\ UNCHANGED <<pvars, run, worker, resuming, left, phase, ends>>
  BY DEF ReadRun, Serving
<1>2. settling = NoId /\ Idle /\ resuming = NotResuming /\ left = {} /\ phase # "down"
  BY <1>1 DEF LockFree
<1>3. [PNext]_pvars /\ UNCHANGED <<log, txn>>
  BY <1>1 DEF pvars
<1>4. GateOpen' /\ settling' \in Runs \cup {NoId}
  BY <1>1, <1>3, ReadGate
<1>5. RunTypes'
  BY <1>1, <1>4 DEF RInv, RunTypes
<1>6. Exclusive'
  BY <1>1, <1>2, <1>3 DEF Exclusive, Idle
<1>7. \A q \in Runs : settling # q
  BY <1>2, ProposalsAssumption
<1>8. QED BY <1>1, <1>3, <1>4, <1>5, <1>6, <1>7, LockOnly

\* What a request that resumes a run holds.
LEMMA Resumes ==
  ASSUME RInv, resuming.pc # "none"
  PROVE  /\ resuming.id \in Runs /\ Closed(resuming.id)
         /\ Idle /\ settling = NoId /\ left = {} /\ phase # "down"
         /\ \A q \in Runs : settling # q
<1>1. resuming # NotResuming
  BY DEF NotResuming
<1>2. QED BY <1>1, ProposalsAssumption DEF RInv, GateOpen, Exclusive

\* The request that decided reads the run.
LEMMA ResumeReadInv ==
  ASSUME RInv, ResumeRead
  PROVE  RInv'
<1> PICK r : r = resuming.id
  OBVIOUS
<1>1. /\ resuming.pc = "read" /\ UNCHANGED <<pvars, run, worker, left, phase, ends>>
      /\ settling' = IF ToSettle(r) THEN r ELSE NoId
      /\ resuming' \in {NotResuming, [resuming EXCEPT !.pc = "gate"]}
      /\ ToSettle(r) => resuming' = NotResuming
  BY DEF ResumeRead
<1>2. /\ r \in Runs /\ Idle /\ settling = NoId /\ left = {} /\ phase # "down"
      /\ \A q \in Runs : settling # q
  BY <1>1, Resumes
<1>3. [PNext]_pvars /\ UNCHANGED <<log, txn>>
  BY <1>1 DEF pvars
<1>4. /\ resuming' \in [id : Runs \cup {NoId}, pc : {"none", "read", "gate"}]
      /\ resuming'.pc # "none" => resuming'.id = resuming.id
  BY <1>1 DEF RInv, RunTypes, NotResuming
<1>5. GateOpen' /\ settling' \in Runs \cup {NoId}
  BY <1>1, <1>2, <1>3, <1>4, ReadGate
<1>6. RunTypes'
  BY <1>1, <1>4, <1>5 DEF RInv, RunTypes
<1>7. Exclusive'
  BY <1>1, <1>2, <1>3 DEF Exclusive, Idle
<1>8. QED BY <1>1, <1>2, <1>3, <1>5, <1>6, <1>7, LockOnly

\* The request that decided parks the run before its gate and takes it through.
LEMMA ResumeGateInv ==
  ASSUME RInv, ResumeGate
  PROVE  RInv'
<1> PICK r : r = resuming.id
  OBVIOUS
<1>1. /\ resuming.pc = "gate" /\ UNCHANGED <<pvars, worker, left, phase, ends>>
      /\ resuming' = NotResuming
  BY DEF ResumeGate
<1>2. /\ r \in Runs /\ Closed(r) /\ Idle /\ settling = NoId /\ left = {} /\ phase # "down"
      /\ \A q \in Runs : settling # q
  BY <1>1, Resumes
<1>3. [PNext]_pvars /\ UNCHANGED <<log, txn>> /\ run[r] \in Run
  BY <1>1, <1>2 DEF pvars, RInv, RunTypes
<1>4. /\ resuming' \in [id : Runs \cup {NoId}, pc : {"none", "read", "gate"}]
      /\ resuming'.pc = "none"
  BY <1>1 DEF NotResuming
<1>5. CASE run[r].node # "gate"
  <2>1. UNCHANGED <<run, settling>>
    BY <1>5 DEF ResumeGate
  <2>2. RunTypes' /\ GateOpen' /\ Exclusive'
    <3>1. RunTypes'
      BY <1>1, <1>4, <2>1 DEF RInv, RunTypes
    <3>2. GateOpen' /\ Exclusive'
      BY <1>1, <1>2, <1>3, <1>4, <2>1 DEF GateOpen, Exclusive, Idle
    <3>3. QED BY <3>1, <3>2
  <2>3. QED BY <1>1, <1>3, <2>1, <2>2, LockOnly
<1>6. CASE run[r].node = "gate"
  <2>1. PICK c \in Run :
          /\ Checkpointed(r, c) /\ c.node = "gate" /\ c.outcome = run[r].outcome
          /\ c.decision = run[r].decision /\ c.new = run[r].new
    <3>1. /\ [run[r] EXCEPT !.parked = TRUE] \in Run
          /\ Checkpointed(r, [run[r] EXCEPT !.parked = TRUE])
      BY <1>3, <1>6 DEF ResumeGate, Run
    <3>2. QED BY <1>3, <1>6, <3>1 DEF Run
  <2>2. settling' = r
    BY <1>6 DEF ResumeGate
  <2>3. /\ run' \in [Runs -> Run] /\ run'[r] = c /\ \A q \in Runs \ {r} : run'[q] = run[q]
    BY <1>2, <2>1, CheckpointedIs DEF RInv
  <2>4. RunTypes' /\ GateOpen' /\ Exclusive'
    <3>1. RunTypes'
      BY <1>1, <1>2, <1>4, <2>2, <2>3 DEF RInv, RunTypes
    <3>2. GateOpen' /\ Exclusive'
      BY <1>1, <1>2, <1>3, <1>4, <2>1, <2>2, <2>3 DEF GateOpen, Exclusive, Idle, Closed
    <3>3. QED BY <3>1, <3>2
  <2>5. CheckpointSound(r)'
    BY <1>2, <1>3, <1>6, <2>1, <2>3
    DEF RInv, RunInv, CheckpointSound, Closed, OwnerDecision
  <2>6. WorkerSound(r)' /\ InHands(r)'
    BY <1>1, <1>2, <1>3, <1>6, <2>1, <2>2, <2>3
    DEF RInv, RunInv, WorkerSound, InHands, WorkNodes
  <2>7. QED BY <1>1, <1>2, <1>3, <2>3, <2>4, <2>5, <2>6, OneRunStep DEF RunInv
<1>7. QED BY <1>5, <1>6

\* A run that is settled records the decision of its proposal.
LEMMA SettleDecisionInv ==
  ASSUME RInv, SettleDecision
  PROVE  RInv'
<1> PICK r : r = settling
  OBVIOUS
<1>1. /\ r # NoId /\ run[r].node = "gate"
      /\ UNCHANGED <<pvars, worker, resuming, settling, left, phase, ends>>
  BY DEF SettleDecision
<1>2. r \in Runs /\ Closed(r) /\ run[r] \in Run
  BY <1>1 DEF RInv, RunTypes, GateOpen
<1>3. [PNext]_pvars /\ UNCHANGED <<log, txn>>
  BY <1>1 DEF pvars
<1>4. PICK c \in Run :
        /\ Checkpointed(r, c) /\ c.node = "resume" /\ c.parked = FALSE
        /\ c.outcome = run[r].outcome /\ c.decision = OwnerDecision(r)
  <2>1. PICK d \in {"superseded", "accept", "reject", "mixed"} : d = OwnerDecision(r)
    BY DEF OwnerDecision
  <2>2. PICK c : c = [run[r] EXCEPT !.node = "resume", !.parked = FALSE, !.decision = d]
    OBVIOUS
  <2>3. "resume" \in Nodes
    BY DEF Nodes
  <2>4. /\ c \in Run /\ c.node = "resume" /\ c.parked = FALSE
        /\ c.outcome = run[r].outcome /\ c.decision = d
    BY <1>2, <2>2, <2>3 DEF Run
  <2>5. Checkpointed(r, c)
    BY <2>1, <2>2 DEF SettleDecision
  <2>6. QED BY <2>1, <2>4, <2>5
<1>5. /\ run' \in [Runs -> Run] /\ run'[r] = c /\ \A q \in Runs \ {r} : run'[q] = run[q]
  BY <1>2, <1>4, CheckpointedIs DEF RInv
<1>6. RunTypes'
  BY <1>1, <1>5 DEF RInv, RunTypes
<1>7. GateOpen' /\ Exclusive'
  BY <1>1, <1>2, <1>3, <1>4, <1>5 DEF RInv, GateOpen, Exclusive, Idle, Closed
<1>8. Closed(r)' /\ OwnerDecision(r)' = OwnerDecision(r) /\ log[r].status # "none"
  BY <1>2, <1>3 DEF Closed, OwnerDecision
<1>9. CheckpointSound(r)'
  BY <1>1, <1>2, <1>3, <1>4, <1>5, <1>8 DEF RInv, RunInv, CheckpointSound
<1>10. WorkerSound(r)' /\ InHands(r)'
  BY <1>1, <1>2, <1>3, <1>4, <1>5 DEF RInv, RunInv, WorkerSound, InHands, WorkNodes
<1>11. QED BY <1>1, <1>2, <1>3, <1>5, <1>6, <1>7, <1>9, <1>10, OneRunStep DEF RunInv

\* A run that is settled is over.
LEMMA SettleEndInv ==
  ASSUME RInv, SettleEnd
  PROVE  RInv'
<1> PICK r : r = settling
  OBVIOUS
<1>1. /\ r # NoId /\ run[r].node # "gate" /\ settling' = NoId
      /\ UNCHANGED <<pvars, worker, resuming, left, phase, ends>>
  BY DEF SettleEnd
<1>2. r \in Runs /\ run[r].node \in {"resume", "end"} /\ run[r] \in Run
  BY <1>1 DEF RInv, RunTypes, GateOpen
<1>3. [PNext]_pvars /\ UNCHANGED <<log, txn>>
  BY <1>1 DEF pvars
<1>4. PICK c \in Run :
        /\ Checkpointed(r, c) /\ c.node = "end" /\ c.parked = run[r].parked
        /\ c.decision = run[r].decision
  <2> PICK c : c = [run[r] EXCEPT !.node = "end", !.outcome = "done"]
    OBVIOUS
  <2>1. /\ c \in Run /\ c.node = "end" /\ c.parked = run[r].parked
        /\ c.decision = run[r].decision
    BY <1>2 DEF Run, Nodes
  <2>2. Checkpointed(r, c)
    BY DEF SettleEnd
  <2>3. QED BY <2>1, <2>2
<1>5. /\ run' \in [Runs -> Run] /\ run'[r] = c /\ \A q \in Runs \ {r} : run'[q] = run[q]
  BY <1>2, <1>4, CheckpointedIs DEF RInv
<1>6. RunTypes'
  BY <1>1, <1>5 DEF RInv, RunTypes
<1>7. GateOpen' /\ Exclusive'
  BY <1>1, <1>3 DEF RInv, GateOpen, Exclusive, Idle, Closed
<1>8. CheckpointSound(r)'
  BY <1>1, <1>2, <1>3, <1>4, <1>5
  DEF RInv, RunInv, CheckpointSound, Closed, OwnerDecision
<1>9. WorkerSound(r)' /\ InHands(r)'
  BY <1>1, <1>2, <1>3, <1>4, <1>5
  DEF RInv, RunInv, WorkerSound, InHands, AtRest, WorkNodes
<1>10. QED BY <1>1, <1>2, <1>3, <1>5, <1>6, <1>7, <1>8, <1>9, OneRunStep DEF RunInv

\* The start has read a run: it waits, has ended, or is queued.
LEMMA RecoverRunInv ==
  ASSUME RInv, NEW r \in Runs, RecoverRun(r)
  PROVE  RInv'
<1>1. /\ r \in left /\ settling = NoId /\ left' = left \ {r}
      /\ settling' = IF ToSettle(r) THEN r ELSE NoId
      /\ UNCHANGED <<pvars, run, resuming, phase, ends>>
  BY DEF RecoverRun
<1>2. Idle /\ resuming = NotResuming /\ phase # "down" /\ (\A q \in Runs : settling # q)
  BY <1>1, ProposalsAssumption DEF RInv, Exclusive
<1>3. [PNext]_pvars /\ UNCHANGED <<log, txn>>
  BY <1>1 DEF pvars
<1>4. GateOpen' /\ settling' \in Runs \cup {NoId}
  BY <1>1, <1>3, ReadGate
<1>5. /\ worker' \in [Runs -> Job]
      /\ \/ worker'[r].pc = "queued" /\ worker'[r].token = "none"
         \/ worker'[r] = worker[r] /\ AtRest(r)
      /\ \A q \in Runs \ {r} : worker'[q] = worker[q]
  <2>1. CASE ~ToSettle(r) /\ StatusOf(r) \in {"running", "shutdown_interrupted"}
    <3> PICK j : j = [NoJob EXCEPT !.pc = "queued"]
      OBVIOUS
    <3>1. j \in Job /\ j.pc = "queued" /\ j.token = "none"
      BY DEF NoJob, Job, Nodes
    <3>2. worker' = [worker EXCEPT ![r] = j]
      BY <2>1 DEF RecoverRun
    <3>3. QED BY <3>1, <3>2 DEF RInv, RunTypes
  <2>2. CASE ~(~ToSettle(r) /\ StatusOf(r) \in {"running", "shutdown_interrupted"})
    <3>1. worker' = worker
      BY <2>2 DEF RecoverRun
    <3>2. AtRest(r)
      BY <2>2, StatusRests DEF ToSettle, AtRest
    <3>3. QED BY <3>1, <3>2 DEF RInv, RunTypes
  <2>3. QED BY <2>1, <2>2
<1>6. RunTypes'
  BY <1>1, <1>4, <1>5 DEF RInv, RunTypes
<1>7. Exclusive'
  BY <1>1, <1>2, <1>3 DEF Exclusive, Idle
<1>8. CheckpointSound(r)'
  BY <1>1, <1>3 DEF RInv, RunInv, CheckpointSound, Closed, OwnerDecision
<1>9. WorkerSound(r)' /\ InHands(r)'
  <2>1. CASE worker'[r].pc = "queued" /\ worker'[r].token = "none"
    BY <2>1 DEF WorkerSound, InHands
  <2>2. CASE worker'[r] = worker[r] /\ AtRest(r)
    BY <1>1, <1>2, <1>3, <2>2 DEF RInv, RunInv, WorkerSound, InHands, AtRest
  <2>3. QED BY <1>5, <2>1, <2>2
<1>10. \A q \in Runs \ {r} : q \notin left' => q \notin left
  BY <1>1
<1>11. QED
  BY <1>1, <1>2, <1>3, <1>4, <1>5, <1>6, <1>7, <1>8, <1>9, <1>10, OneRunStep DEF RunInv

(***************************************************************************)
(* Requests, and the process.                                              *)
(***************************************************************************)
\* A run that starts is queued and has no proposal.
LEMMA StartRunInv ==
  ASSUME RInv, NEW r \in Runs, NEW mode \in Modes, StartRun(r, mode)
  PROVE  RInv' /\ [PNext]_pvars
<1>1. /\ LockFree /\ Capture(r) /\ UNCHANGED <<resuming, settling, left, phase, ends>>
  BY DEF StartRun, Serving
<1>2. /\ settling = NoId /\ Idle /\ resuming = NotResuming /\ left = {} /\ phase # "down"
      /\ \A q \in Runs : settling # q
  BY <1>1, ProposalsAssumption DEF LockFree
<1>3. [PNext]_pvars /\ UNCHANGED <<log, txn>>
  BY <1>1, ProposalsAssumption DEF PNext, Capture
<1>4. PICK c \in Run :
        /\ Checkpointed(r, c) /\ c.node = "generate" /\ c.parked = FALSE
        /\ c.outcome = "running" /\ c.decision = "none"
  <2>1. [NoRun EXCEPT !.node = "generate", !.mode = mode] \in Run
    BY RegenerationAssumption DEF NoRun, Run, Nodes, WorkNodes
  <2>2. QED BY <2>1 DEF StartRun, NoRun
<1>5. /\ run' \in [Runs -> Run] /\ run'[r] = c /\ \A q \in Runs \ {r} : run'[q] = run[q]
  BY <1>4, CheckpointedIs DEF RInv
<1>6. /\ worker' \in [Runs -> Job] /\ worker'[r].pc = "queued" /\ worker'[r].token = "none"
      /\ \A q \in Runs \ {r} : worker'[q] = worker[q]
  <2> PICK j : j = [NoJob EXCEPT !.pc = "queued"]
    OBVIOUS
  <2>1. j \in Job /\ j.pc = "queued" /\ j.token = "none"
    BY DEF NoJob, Job, Nodes
  <2>2. worker' = [worker EXCEPT ![r] = j]
    BY DEF StartRun
  <2>3. QED BY <2>1, <2>2 DEF RInv, RunTypes
<1>7. RunTypes'
  BY <1>1, <1>5, <1>6 DEF RInv, RunTypes
<1>8. GateOpen' /\ Exclusive'
  BY <1>1, <1>2, <1>3 DEF GateOpen, Exclusive, Idle, NotResuming
<1>9. RunInv(r)'
  BY <1>4, <1>5, <1>6 DEF RunInv, CheckpointSound, WorkerSound, InHands
<1>10. QED BY <1>1, <1>2, <1>3, <1>5, <1>6, <1>7, <1>8, <1>9, OneRunStep

\* A job that is cancelled is told so, no more.
LEMMA CancelRunInv ==
  ASSUME RInv, NEW r \in Runs, CancelRun(r)
  PROVE  RInv'
<1>1. /\ worker[r].pc # "none" /\ worker' = [worker EXCEPT ![r].token = "author"]
      /\ UNCHANGED <<pvars, run, resuming, settling, left, phase, ends>>
  BY DEF CancelRun
<1>2. [PNext]_pvars /\ UNCHANGED <<log, txn>>
  BY <1>1 DEF pvars
<1>3. /\ worker' \in [Runs -> Job]
      /\ worker'[r].pc = worker[r].pc /\ worker'[r].at = worker[r].at
      /\ worker'[r].token = "author"
      /\ \A q \in Runs \ {r} : worker'[q] = worker[q]
  <2>1. worker[r] \in Job /\ worker \in [Runs -> Job]
    BY DEF RInv, RunTypes
  <2> PICK j : j = [worker[r] EXCEPT !.token = "author"]
    OBVIOUS
  <2>2. j \in Job /\ j.pc = worker[r].pc /\ j.at = worker[r].at /\ j.token = "author"
    BY <2>1 DEF Job
  <2>3. worker' = [worker EXCEPT ![r] = j]
    BY <1>1, <2>1
  <2>4. QED BY <2>1, <2>2, <2>3
<1>4. RunTypes'
  BY <1>1, <1>3 DEF RInv, RunTypes
<1>5. GateOpen'
  BY <1>1, <1>2, GateKeeps
<1>6. Exclusive'
  BY <1>1, <1>2, WorkersLock
<1>7. CheckpointSound(r)'
  BY <1>1, <1>2 DEF RInv, RunInv, CheckpointSound, Closed, OwnerDecision
<1>8. WorkerSound(r)' /\ InHands(r)'
  BY <1>1, <1>2, <1>3 DEF RInv, RunInv, WorkerSound, InHands, AtRest
<1>9. QED BY <1>1, <1>2, <1>3, <1>4, <1>5, <1>6, <1>7, <1>8, OneRunStep DEF RunInv

\* The jobs are told that the process is about to end; queued ones are gone.
LEMMA ShutdownInv ==
  ASSUME RInv, Shutdown
  PROVE  RInv'
<1> DEFINE told(r) == IF worker[r].pc \in {"none", "queued"} THEN NoJob
                      ELSE IF worker[r].token = "none"
                           THEN [worker[r] EXCEPT !.token = "shutdown"]
                      ELSE worker[r]
<1>1. /\ phase = "up" /\ phase' = "closing" /\ worker' = [r \in Runs |-> told(r)]
      /\ UNCHANGED <<pvars, run, resuming, settling, left, ends>>
  BY DEF Shutdown
<1>2. [PNext]_pvars /\ UNCHANGED <<log, txn>>
  BY <1>1 DEF pvars
<1>3. ASSUME NEW r \in Runs
      PROVE  /\ told(r) \in Job
             /\ \/ told(r).pc = "none" /\ told(r).token = "none"
                \/ told(r).pc = worker[r].pc /\ told(r).at = worker[r].at
  <2>1. worker[r] \in Job
    BY DEF RInv, RunTypes
  <2>2. NoJob \in Job /\ NoJob.pc = "none" /\ NoJob.token = "none"
    BY DEF NoJob, Job, Nodes
  <2>3. LET j == [worker[r] EXCEPT !.token = "shutdown"] IN
        j \in Job /\ j.pc = worker[r].pc /\ j.at = worker[r].at
    BY <2>1 DEF Job
  <2>4. QED BY <2>1, <2>2, <2>3
<1> HIDE DEF told
<1>4. RunTypes'
  BY <1>1, <1>3 DEF RInv, RunTypes
<1>5. GateOpen'
  BY <1>1, <1>2, GateKeeps
<1>6. Exclusive'
  BY <1>1, <1>2 DEF RInv, Exclusive, Idle
<1>7. ASSUME NEW r \in Runs PROVE RunInv(r)'
  <2>1. CheckpointSound(r)'
    BY <1>1, <1>2 DEF RInv, RunInv, CheckpointSound, Closed, OwnerDecision
  <2>2. \/ worker'[r].pc = "none" /\ worker'[r].token = "none"
        \/ worker'[r].pc = worker[r].pc /\ worker'[r].at = worker[r].at
    BY <1>1, <1>3
  <2>3. WorkerSound(r)' /\ InHands(r)'
    BY <1>1, <1>2, <2>2 DEF RInv, RunInv, WorkerSound, InHands, AtRest
  <2>4. QED BY <2>1, <2>3 DEF RunInv
<1>8. PInv'
  BY <1>2, PStepInv DEF RInv
<1>9. QED BY <1>4, <1>5, <1>6, <1>7, <1>8 DEF RInv

\* The process ends, and the log and the checkpoints stay.
LEMMA ExitInv ==
  ASSUME RInv, Exit
  PROVE  RInv' /\ [PNext]_pvars
<1>1. /\ phase # "down" /\ ends < MaxEnds /\ Forget(Runs)
      /\ worker' = [r \in Runs |-> NoJob] /\ resuming' = NotResuming /\ settling' = NoId
      /\ left' = {} /\ phase' = "down" /\ ends' = ends + 1 /\ UNCHANGED run
  BY DEF Exit
<1>2. [PNext]_pvars /\ UNCHANGED log /\ Idle'
  BY <1>1, ProposalsAssumption DEF PNext, Forget, NoTxn, Idle
<1>3. NoJob \in Job /\ NoJob.pc = "none" /\ NoJob.token = "none"
  BY DEF NoJob, Job, Nodes
<1>4. RunTypes'
  <2>1. ends' \in 0..MaxEnds
    BY <1>1, RegenerationAssumption DEF RInv, RunTypes
  <2>2. resuming' \in [id : Runs \cup {NoId}, pc : {"none", "read", "gate"}]
    BY <1>1 DEF NotResuming
  <2>3. QED BY <1>1, <1>3, <2>1, <2>2 DEF RInv, RunTypes
<1>5. GateOpen' /\ Exclusive'
  BY <1>1, <1>2 DEF GateOpen, Exclusive, NotResuming
<1>6. ASSUME NEW r \in Runs PROVE RunInv(r)'
  <2>1. CheckpointSound(r)'
    BY <1>1, <1>2 DEF RInv, RunInv, CheckpointSound, Closed, OwnerDecision
  <2>2. WorkerSound(r)' /\ InHands(r)'
    BY <1>1, <1>3 DEF WorkerSound, InHands
  <2>3. QED BY <2>1, <2>2 DEF RunInv
<1>7. PInv'
  BY <1>2, PStepInv DEF RInv
<1>8. QED BY <1>2, <1>4, <1>5, <1>6, <1>7 DEF RInv

\* The start has yet to read every run there is.
LEMMA StartupInv ==
  ASSUME RInv, Startup
  PROVE  RInv'
<1>1. /\ phase = "down" /\ phase' = "up" /\ left' = {r \in Runs : run[r].node # "none"}
      /\ UNCHANGED <<pvars, run, worker, resuming, settling, ends>>
  BY DEF Startup
<1>2. /\ Idle /\ resuming = NotResuming /\ settling = NoId
      /\ \A r \in Runs : worker[r] = NoJob
  BY <1>1 DEF RInv, Exclusive
<1>3. [PNext]_pvars /\ UNCHANGED <<log, txn>>
  BY <1>1 DEF pvars
<1>4. RunTypes'
  BY <1>1 DEF RInv, RunTypes
<1>5. GateOpen' /\ Exclusive'
  BY <1>1, <1>2, <1>3 DEF GateOpen, Exclusive, Idle, NotResuming
<1>6. ASSUME NEW r \in Runs PROVE RunInv(r)'
  <2>1. CheckpointSound(r)'
    BY <1>1, <1>3 DEF RInv, RunInv, CheckpointSound, Closed, OwnerDecision
  <2>2. WorkerSound(r)'
    BY <1>1, <1>2 DEF WorkerSound, NoJob
  <2>3. InHands(r)'
    BY <1>1 DEF InHands, AtRest
  <2>4. QED BY <2>1, <2>2, <2>3 DEF RunInv
<1>7. PInv'
  BY <1>3, PStepInv DEF RInv
<1>8. QED BY <1>4, <1>5, <1>6, <1>7 DEF RInv

\* Requests and chat turns that touch no run.
LEMMA EditingInv ==
  ASSUME RInv, Editing
  PROVE  RInv' /\ [PNext]_pvars
<1>1. LockFree /\ UNCHANGED rvars
  BY DEF Editing, Serving
<1>2. PNext
  BY DEF Editing, PNext
<1>3. /\ Idle /\ resuming = NotResuming /\ settling = NoId /\ left = {} /\ phase # "down"
      /\ UNCHANGED <<run, worker, resuming, settling, left, phase, ends>>
  BY <1>1 DEF LockFree, rvars
<1>4. RunTypes'
  BY <1>3 DEF RInv, RunTypes
<1>5. GateOpen' /\ Exclusive'
  BY <1>3 DEF GateOpen, Exclusive, NotResuming
<1>6. QED BY <1>2, <1>3, <1>4, <1>5, LockOnly

\* A decision that goes on, and the request that resumes its run.
LEMMA DecidingInv ==
  ASSUME RInv, Deciding
  PROVE  RInv' /\ [PNext]_pvars
<1>1. ~Idle /\ PNext /\ UNCHANGED <<run, worker, settling, left, phase, ends>>
  BY DEF Deciding, DecideAndResume, DecideWrite, DecideRaises, DecideCommit, PNext, rvars
<1>2. /\ resuming = NotResuming /\ settling = NoId /\ left = {} /\ phase # "down"
      /\ txn.id \in Ids /\ log \in [Ids -> Proposal]
  BY <1>1 DEF RInv, Exclusive, PInv, TxnSound, PTypeOK
<1>3. \/ resuming' = NotResuming
      \/ /\ resuming' = [id |-> txn.id, pc |-> "read"] /\ Idle'
         /\ txn.id \in Runs /\ log'[txn.id].status \in {"superseded", "settled"}
  <2>1. CASE UNCHANGED rvars
    BY <1>2, <2>1 DEF rvars
  <2>2. CASE DecideAndResume
    <3>1. log' = [log EXCEPT ![txn.id] = Decided] /\ txn' = NoTxn
      BY <2>2 DEF DecideAndResume, DecideCommit
    <3>2. Decided.status \in {"open", "settled"}
      BY <1>1, DecisionIs DEF RInv
    <3>3. log'[txn.id].status \in {"open", "settled"} /\ Idle'
      BY <1>2, <3>1, <3>2 DEF NoTxn, Idle
    <3>4. resuming' = IF txn.id \in Runs /\ log'[txn.id].status # "open"
                      THEN [id |-> txn.id, pc |-> "read"] ELSE NotResuming
      BY <2>2 DEF DecideAndResume
    <3>5. QED BY <3>3, <3>4
  <2>3. QED BY <2>1, <2>2 DEF Deciding
<1>4. RunTypes'
  BY <1>1, <1>3 DEF RInv, RunTypes, NotResuming
<1>5. GateOpen' /\ Exclusive'
  BY <1>1, <1>2, <1>3 DEF GateOpen, Exclusive, NotResuming, Closed
<1>6. QED BY <1>1, <1>4, <1>5, LockOnly

(***************************************************************************)
(* The theorems.                                                           *)
(***************************************************************************)
LEMMA RInitInv == Init => RInv
<1> SUFFICES ASSUME Init PROVE RInv
  OBVIOUS
<1>1. PInv
  BY PInitInv DEF Init
<1>2. NoRun \in Run /\ NoJob \in Job
  BY DEF NoRun, Run, NoJob, Job, Nodes
<1>3. RunTypes
  BY <1>2, RegenerationAssumption DEF Init, RunTypes, NotResuming
<1>4. GateOpen /\ Exclusive
  BY DEF Init, PInit, GateOpen, Exclusive, NotResuming, Idle, NoTxn
<1>5. \A r \in Runs : RunInv(r)
  BY DEF Init, NoRun, NoJob, RunInv, CheckpointSound, WorkerSound, InHands, AtRest
<1>6. QED BY <1>1, <1>3, <1>4, <1>5 DEF RInv

\* Every step of a worker.
LEMMA WorkerStepInv ==
  ASSUME RInv, NEW r \in Runs, WorkerStep(r)
  PROVE  RInv' /\ [PNext]_pvars
<1>1. ASSUME ReviewStores(r) PROVE RInv' /\ [PNext]_pvars
  BY <1>1, ReviewStoresInv
<1>2. ASSUME ~ReviewStores(r) PROVE UNCHANGED pvars
  BY <1>2 DEF WorkerStep, WorkerReads, WorkerMarks, WorkerInvokes, Generate, Assemble, Check,
              AutoFix, Reviewed, ReviewDone, Park, ResumeNode, NodeRaises, NodeStops,
              NodeExpires, WorkerFinal, Proceed
<1>3. ASSUME WorkerReads(r) PROVE RInv'
  BY <1>3, WorkerReadsInv
<1>4. ASSUME WorkerMarks(r) \/ NodeRaises(r) \/ NodeStops(r) \/ NodeExpires(r) PROVE RInv'
  BY <1>4, WritesInv
<1>5. ASSUME WorkerInvokes(r) PROVE RInv'
  BY <1>5, WorkerInvokesInv
<1>6. ASSUME NEW new \in Answers, Generate(r, new) PROVE RInv'
  BY <1>6, GenerateInv
<1>7. ASSUME Assemble(r) PROVE RInv'
  BY <1>7, AssembleInv
<1>8. ASSUME NEW passed \in BOOLEAN, Check(r, passed) PROVE RInv'
  BY <1>8, CheckInv
<1>9. ASSUME NEW new \in Answers, NEW passed \in BOOLEAN, AutoFix(r, new, passed) PROVE RInv'
  BY <1>9, AutoFixInv
<1>10. ASSUME Reviewed(r) PROVE RInv'
  BY <1>10, ReviewedInv
<1>11. ASSUME ReviewDone(r) PROVE RInv'
  BY <1>11, ReviewDoneInv
<1>12. ASSUME Park(r) PROVE RInv'
  BY <1>12, ParkInv
<1>13. ASSUME ResumeNode(r) PROVE RInv'
  BY <1>13, ResumeNodeInv
<1>14. ASSUME WorkerFinal(r) PROVE RInv'
  BY <1>14, WorkerFinalInv
<1>15. RInv'
  BY <1>1, <1>3, <1>4, <1>5, <1>6, <1>7, <1>8, <1>9, <1>10, <1>11, <1>12, <1>13, <1>14
  DEF WorkerStep
<1>16. QED BY <1>1, <1>2, <1>15

\* Every step of the runs keeps the invariant, and is a step of the proposal
\* log or leaves it alone.
LEMMA RStepInv == RInv /\ [Next]_vars => RInv' /\ [PNext]_pvars
<1> SUFFICES ASSUME RInv, [Next]_vars PROVE RInv' /\ [PNext]_pvars
  OBVIOUS
<1>1. ASSUME Editing PROVE RInv' /\ [PNext]_pvars
  BY <1>1, EditingInv
<1>2. ASSUME Deciding PROVE RInv' /\ [PNext]_pvars
  BY <1>2, DecidingInv
<1>3. ASSUME Resuming PROVE RInv' /\ [PNext]_pvars
  <2>1. UNCHANGED pvars
    BY <1>3 DEF Resuming, ResumeRead, ResumeGate
  <2>2. QED BY <1>3, <2>1, ResumeReadInv, ResumeGateInv DEF Resuming
<1>4. ASSUME Settling PROVE RInv' /\ [PNext]_pvars
  <2>1. UNCHANGED pvars
    BY <1>4 DEF Settling, SettleDecision, SettleEnd
  <2>2. QED BY <1>4, <2>1, SettleDecisionInv, SettleEndInv DEF Settling
<1>5. ASSUME NEW r \in Runs, NEW mode \in Modes, StartRun(r, mode)
      PROVE  RInv' /\ [PNext]_pvars
  BY <1>5, StartRunInv
<1>6. ASSUME NEW r \in Runs, WorkerStep(r) PROVE RInv' /\ [PNext]_pvars
  BY <1>6, WorkerStepInv
<1>7. ASSUME NEW r \in Runs, ReadRun(r) \/ CancelRun(r) \/ RecoverRun(r)
      PROVE  RInv' /\ [PNext]_pvars
  <2>1. UNCHANGED pvars
    BY <1>7 DEF ReadRun, CancelRun, RecoverRun
  <2>2. QED BY <1>7, <2>1, ReadRunInv, CancelRunInv, RecoverRunInv
<1>8. ASSUME Shutdown \/ Startup PROVE RInv' /\ [PNext]_pvars
  <2>1. UNCHANGED pvars
    BY <1>8 DEF Shutdown, Startup
  <2>2. QED BY <1>8, <2>1, ShutdownInv, StartupInv
<1>9. ASSUME Exit PROVE RInv' /\ [PNext]_pvars
  BY <1>9, ExitInv
<1>10. ASSUME UNCHANGED vars PROVE RInv' /\ [PNext]_pvars
  <2>1. UNCHANGED <<pvars, run, worker, resuming, settling, left, phase, ends>>
    BY <1>10 DEF vars, rvars
  <2>2. RunTypes' /\ GateOpen' /\ Exclusive'
    BY <2>1 DEF pvars, RInv, RunTypes, GateOpen, Exclusive, Idle, Closed
  <2>3. QED BY <2>1, <2>2, LockOnly
<1>11. QED
  BY <1>1, <1>2, <1>3, <1>4, <1>5, <1>6, <1>7, <1>8, <1>9, <1>10 DEF Next, Recovering

\* The invariant holds of the runs.
THEOREM RunsInvariant == Spec => []RInv
<1>1. QED BY RInitInv, RStepInv, PTL DEF Spec

\* Checkpoints, jobs and the rest keep their types.
THEOREM RunsTypeCorrect == Spec => []RTypeOK
<1>1. RInv => RTypeOK
  BY DEF RInv, PInv, RunTypes, RTypeOK
<1>2. QED BY <1>1, RunsInvariant, PTL

\* Runs and chat turns together do to the proposals only what the log's
\* specification allows, so what is proved of it holds of the composed system.
THEOREM RunsImplementProposals == Spec => ImplementsProposals
<1>1. Init => PInit
  BY DEF Init
<1>2. QED BY <1>1, RStepInv, RunsInvariant, PTL DEF Spec, ImplementsProposals, PSpec

\* A run that is seen waiting has its proposal in the log (review, owner_gate).
THEOREM WaitingRunHasProposal == Spec => []WaitingHasProposal
<1>1. RInv => WaitingHasProposal
  BY DEF RInv, RunInv, RunTypes, Run, CheckpointSound, StatusOf, WaitingHasProposal
<1>2. QED BY <1>1, RunsInvariant, PTL

\* A run never records a decision but the one its closed proposal holds
\* (resume_regeneration, _owner_decision).
THEOREM DecisionsRecorded == Spec => []DecisionRecorded
<1>1. RInv => DecisionRecorded
  BY DEF RInv, RunInv, CheckpointSound, DecisionRecorded
<1>2. QED BY <1>1, RunsInvariant, PTL

\* No unfinished run is forgotten once the start is through, wherever the
\* process ended before (recoverable_regenerations).
THEOREM RunsRemembered == Spec => []NoRunForgotten
<1>1. RInv => NoRunForgotten
  BY DEF RInv, RunInv, InHands, NoRunForgotten
<1>2. QED BY <1>1, RunsInvariant, PTL
=============================================================================
