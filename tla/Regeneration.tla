---------------------------- MODULE Regeneration ----------------------------
(***************************************************************************)
(* Regeneration runs of one lesson.  A run is a graph of nodes with a      *)
(* checkpoint after each; a worker thread executes it without the mutation *)
(* lock, stores its proposal inside the review node and parks at the owner *)
(* gate.  The author's decision, a later read, or the worker itself takes  *)
(* the run through the gate.  The process may end between any two writes;  *)
(* the next start reads every run and queues the unfinished ones.          *)
(*                                                                         *)
(* The graph library is modelled from its use: a node that completed is in *)
(* the checkpoint; an interrupt belongs to the checkpoint it was raised    *)
(* at; writing the outcome makes a new checkpoint with the same next node  *)
(* and without the interrupt; going on with a finished graph does nothing. *)
(*                                                                         *)
(* Source: workflow/workbench_regeneration/graph.py and runner.py,         *)
(* web/workbench_actions.py, web/server.py.                                *)
(***************************************************************************)
EXTENDS Proposals

CONSTANTS
  Modes,   \* of {"scope", "exercises"}: whether items are generated one by one
  MaxEnds  \* bound: ends of the process

ASSUME RegenerationAssumption ==
  /\ Modes \subseteq {"scope", "exercises"}
  /\ MaxEnds \in Nat

VARIABLES
  run,       \* the checkpoint of each run
  worker,    \* the job of each run, and why it was told to stop
  resuming,  \* the run a decision is about to resume, and how far
  settling,  \* the run that is being taken through its gate, under the lock
  left,      \* the runs the start has not read yet
  phase,     \* of the process
  ends

rvars == <<run, worker, resuming, settling, left, phase, ends>>
vars == <<pvars, rvars>>

WorkNodes == {"generate", "assemble", "check", "auto_fix", "review"}
Nodes == {"none", "end", "gate", "resume"} \cup WorkNodes

Run == [node : Nodes,
        parked : BOOLEAN,
        outcome : {"running", "waiting", "done", "failed", "cancelled", "shutdown_interrupted"},
        decision : {"none", "kept", "accept", "reject", "mixed", "superseded"},
        mode : {"scope", "exercises"},
        new : Sources \cup {NoSource},
        passed : BOOLEAN,
        repair : BOOLEAN]
NoRun == [node |-> "none", parked |-> FALSE, outcome |-> "running", decision |-> "none",
          mode |-> "scope", new |-> NoSource, passed |-> FALSE, repair |-> FALSE]

\* A worker executes the node it has in memory; between nodes it has pcs of
\* its own: before and after its first write, around the store of review.
Job == [pc : {"none", "queued", "read", "marked", "node", "storing", "stored", "final"},
        at : Nodes,
        token : {"none", "author", "shutdown"}]
NoJob == [pc |-> "none", at |-> "none", token |-> "none"]

RTypeOK ==
  /\ PTypeOK
  /\ run \in [Runs -> Run]
  /\ worker \in [Runs -> Job]
  /\ resuming \in [id : Runs \cup {NoId}, pc : {"none", "read", "gate"}]
  /\ settling \in Runs \cup {NoId}
  /\ left \in SUBSET Runs
  /\ phase \in {"up", "closing", "down"}
  /\ ends \in 0..MaxEnds

NotResuming == [id |-> NoId, pc |-> "none"]

Init ==
  /\ PInit
  /\ run = [r \in Runs |-> NoRun]
  /\ worker = [r \in Runs |-> NoJob]
  /\ resuming = NotResuming
  /\ settling = NoId
  /\ left = {}
  /\ phase = "up"
  /\ ends = 0

\* Nobody holds the mutation lock.
LockFree == Idle /\ resuming = NotResuming /\ settling = NoId /\ left = {} /\ phase # "down"

\* A request is served.
Serving == LockFree /\ phase = "up"

-----------------------------------------------------------------------------
(* Reading and resuming a run.                                             *)

\* Mutant of StatusOf: the outcome is believed.
StatusStored(r) == IF run[r].parked THEN "waiting" ELSE run[r].outcome

\* A parked run waits; so does no other, whatever its checkpoint says.
StatusOf(r) ==
  CASE run[r].parked -> "waiting"
    [] ~run[r].parked /\ run[r].outcome # "waiting" -> run[r].outcome
    [] OTHER -> IF run[r].node = "end" THEN "done" ELSE "running"

Terminal == {"cancelled", "failed", "done"}

OwnerDecision(p) ==
  LET is(s) == \A k \in Keys : log[p].block[k].status \in {"none", s} IN
  CASE log[p].status = "superseded" -> "superseded"
    [] log[p].status # "superseded" /\ is("accepted") -> "accept"
    [] log[p].status # "superseded" /\ is("rejected") -> "reject"
    [] OTHER -> "mixed"

\* Mutant of ToSettle: the proposal may still be open.
ToSettleParked(r) == run[r].parked

\* A read takes a parked run whose proposal is closed through its gate.
ToSettle(r) == run[r].parked /\ Closed(r)

\* A new checkpoint of a run.
Checkpointed(r, c) == run' = [run EXCEPT ![r] = c]

\* The outcome is written beside whatever the graph is doing.
PersistOutcome(r, o) == Checkpointed(r, [run[r] EXCEPT !.outcome = o, !.parked = FALSE])

\* The resumed graph passes the gate, then the resume node.
SettleDecision ==
  /\ settling # NoId
  /\ run[settling].node = "gate"
  /\ Checkpointed(settling, [run[settling] EXCEPT
       !.node = "resume", !.parked = FALSE, !.decision = OwnerDecision(settling)])
  /\ UNCHANGED <<pvars, worker, resuming, settling, left, phase, ends>>

SettleEnd ==
  /\ settling # NoId
  /\ run[settling].node # "gate"
  /\ Checkpointed(settling, [run[settling] EXCEPT !.node = "end", !.outcome = "done"])
  /\ settling' = NoId
  /\ UNCHANGED <<pvars, worker, resuming, left, phase, ends>>

\* The browser polls a run.
ReadRun(r) ==
  /\ Serving
  /\ ToSettle(r)
  /\ settling' = r
  /\ UNCHANGED <<pvars, run, worker, resuming, left, phase, ends>>

\* Mutant of DecideAndResume: every proposal is taken for a run's.
DecideAndResumeAny ==
  /\ DecideCommit
  /\ resuming' = IF log'[txn.id].status # "open"
                 THEN [id |-> txn.id, pc |-> "read"] ELSE NotResuming
  /\ UNCHANGED <<run, worker, settling, left, phase, ends>>

\* After the decision of a run's proposal that is open no more, the same
\* request resumes the run.
DecideAndResume ==
  /\ DecideCommit
  /\ resuming' = IF txn.id \in Runs /\ log'[txn.id].status # "open"
                 THEN [id |-> txn.id, pc |-> "read"] ELSE NotResuming
  /\ UNCHANGED <<run, worker, settling, left, phase, ends>>

ResumeRead ==
  /\ resuming.pc = "read"
  /\ LET r == resuming.id IN
     /\ settling' = IF ToSettle(r) THEN r ELSE NoId
     /\ resuming' = IF ToSettle(r) \/ StatusOf(r) \in Terminal \cup {"shutdown_interrupted"}
                    THEN NotResuming ELSE [resuming EXCEPT !.pc = "gate"]
  /\ UNCHANGED <<pvars, run, worker, left, phase, ends>>

\* A run before its gate is parked first; one that is not there yet is left
\* to its worker.
ResumeGate ==
  /\ resuming.pc = "gate"
  /\ LET r == resuming.id IN
     IF run[r].node = "gate"
     THEN /\ Checkpointed(r, [run[r] EXCEPT !.parked = TRUE])
          /\ settling' = r
     ELSE UNCHANGED <<run, settling>>
  /\ resuming' = NotResuming
  /\ UNCHANGED <<pvars, worker, left, phase, ends>>

-----------------------------------------------------------------------------
(* A run and its job.                                                      *)

\* Exercises are regenerated one by one, other blocks in one answer.
StartRun(r, mode) ==
  /\ Serving
  /\ Capture(r)
  /\ Checkpointed(r, [NoRun EXCEPT !.node = "generate", !.mode = mode])
  /\ worker' = [worker EXCEPT ![r] = [NoJob EXCEPT !.pc = "queued"]]
  /\ UNCHANGED <<resuming, settling, left, phase, ends>>

Goto(r, pc, at) == worker' = [worker EXCEPT ![r].pc = pc, ![r].at = at]

\* The job reads its run first, and leaves one that waits or is over alone.
WorkerReads(r) ==
  /\ worker[r].pc = "queued"
  /\ LockFree
  /\ settling' = IF ToSettle(r) THEN r ELSE NoId
  /\ IF ToSettle(r) \/ StatusOf(r) \in Terminal \cup {"waiting"}
     THEN worker' = [worker EXCEPT ![r] = NoJob]
     ELSE Goto(r, "read", "none")
  /\ UNCHANGED <<pvars, run, resuming, left, phase, ends>>

\* It then writes, without the lock, that it is running.
WorkerMarks(r) ==
  /\ worker[r].pc = "read"
  /\ PersistOutcome(r, "running")
  /\ Goto(r, "marked", "none")
  /\ UNCHANGED <<pvars, resuming, settling, left, phase, ends>>

WorkerInvokes(r) ==
  /\ worker[r].pc = "marked"
  /\ Goto(r, IF run[r].node = "end" THEN "final" ELSE "node", run[r].node)
  /\ UNCHANGED <<pvars, run, resuming, settling, left, phase, ends>>

At(r, n) == worker[r].pc = "node" /\ worker[r].at = n

\* A node is done and the next one begins.
Proceed(r, n, c) ==
  /\ Checkpointed(r, [c EXCEPT !.node = n, !.parked = FALSE])
  /\ Goto(r, IF n = "end" THEN "final" ELSE "node", n)
  /\ UNCHANGED <<pvars, resuming, settling, left, phase, ends>>

Changed(r, new) == {k \in Keys : new[k] # source[r][k]}

\* The provider's answer.  Items may come back unchanged; a repair asks for
\* the changed items again and keeps the previous ones when it fails.
Generate(r, new) ==
  /\ At(r, "generate") /\ worker[r].token = "none"
  /\ IF run[r].mode = "scope"
     THEN /\ Changed(r, new) # {}
          /\ Proceed(r, "check", [run[r] EXCEPT !.new = new])
     ELSE /\ Changed(r, new) \subseteq IF run[r].repair THEN Changed(r, run[r].new) ELSE Exercises
          /\ Proceed(r, "assemble", [run[r] EXCEPT !.new = new])

\* Without a changed item the run ends and has no proposal.
Assemble(r) ==
  /\ At(r, "assemble") /\ worker[r].token = "none"
  /\ IF run[r].new = source[r]
     THEN Proceed(r, "end", [run[r] EXCEPT !.decision = "kept", !.outcome = "done"])
     ELSE Proceed(r, "check", run[r])

\* Mutant of Check: a failed repair is repaired again.
CheckAgain(r, passed) ==
  /\ At(r, "check") /\ worker[r].token = "none"
  /\ Proceed(r, IF passed THEN "review" ELSE "auto_fix", [run[r] EXCEPT !.passed = passed])

Check(r, passed) ==
  /\ At(r, "check") /\ worker[r].token = "none"
  /\ Proceed(r, IF passed \/ run[r].repair THEN "review" ELSE "auto_fix",
             [run[r] EXCEPT !.passed = passed])

\* One repair: of the items through generate, of a scope right here, where a
\* failing provider leaves the candidate as it is.
AutoFix(r, new, passed) ==
  /\ At(r, "auto_fix") /\ worker[r].token = "none"
  /\ IF run[r].mode = "scope"
     THEN /\ Changed(r, new) # {}
          /\ new = run[r].new => passed = run[r].passed
          /\ Proceed(r, "review", [run[r] EXCEPT !.new = new, !.passed = passed])
     ELSE Proceed(r, "generate", [run[r] EXCEPT !.repair = TRUE])

\* The checkpoint of the review node; the candidate is in the log now.
AtGate(r) == [NoRun EXCEPT !.mode = run[r].mode, !.outcome = "waiting"]

\* Mutant of Reviewed: the node is checkpointed before it stores.
ReviewedFirst(r) ==
  /\ At(r, "review") /\ worker[r].token = "none"
  /\ Proceed(r, "gate", AtGate(r))

\* The review has been answered and nobody has cancelled yet; from here the
\* node ignores its token.
Reviewed(r) ==
  /\ At(r, "review") /\ worker[r].token = "none"
  /\ Goto(r, "storing", "review")
  /\ UNCHANGED <<pvars, run, resuming, settling, left, phase, ends>>

\* Mutant of ReviewStores: the proposal gets an id of its own, once more on a
\* replay.
ReviewStoresNew(r) ==
  /\ worker[r].pc = "storing"
  /\ LockFree
  /\ log' = StoreAgain(r, ProposalOf(source[r], run[r].new, run[r].passed))
  /\ Goto(r, "stored", "review")
  /\ UNCHANGED <<draft, source, txn, edits, run, resuming, settling, left, phase, ends>>

\* The proposal is stored under the run's id.
ReviewStores(r) ==
  /\ worker[r].pc = "storing"
  /\ LockFree
  /\ Propose(r, run[r].new, run[r].passed)
  /\ Goto(r, "stored", "review")
  /\ UNCHANGED <<run, resuming, settling, left, phase, ends>>

ReviewDone(r) ==
  /\ worker[r].pc = "stored"
  /\ Proceed(r, "gate", AtGate(r))

\* The gate interrupts the checkpoint it was entered from; if the run has
\* gone on meanwhile, that is no longer the last one.
Park(r) ==
  /\ At(r, "gate")
  /\ Checkpointed(r, [run[r] EXCEPT !.parked = (@ \/ run[r].node = "gate")])
  /\ Goto(r, "final", "gate")
  /\ UNCHANGED <<pvars, resuming, settling, left, phase, ends>>

\* After an end inside a resumed graph, the worker runs its last node.
ResumeNode(r) ==
  /\ At(r, "resume")
  /\ Proceed(r, "end", [run[r] EXCEPT !.outcome = "done"])

\* A node raises: the run has failed.
NodeRaises(r) ==
  /\ worker[r].pc = "node" /\ worker[r].at \in WorkNodes /\ worker[r].token = "none"
  /\ PersistOutcome(r, "failed")
  /\ worker' = [worker EXCEPT ![r] = NoJob]
  /\ UNCHANGED <<pvars, resuming, settling, left, phase, ends>>

\* A node finds its job cancelled.
NodeStops(r) ==
  /\ worker[r].pc = "node" /\ worker[r].at \in WorkNodes /\ worker[r].token # "none"
  /\ PersistOutcome(r, IF worker[r].token = "author" THEN "cancelled" ELSE "shutdown_interrupted")
  /\ worker' = [worker EXCEPT ![r] = NoJob]
  /\ UNCHANGED <<pvars, resuming, settling, left, phase, ends>>

\* A node finds the run's time over; the job still reads the run.
NodeExpires(r) ==
  /\ worker[r].pc = "node" /\ worker[r].at \in WorkNodes /\ worker[r].token = "none"
  /\ PersistOutcome(r, "failed")
  /\ Goto(r, "final", "none")
  /\ UNCHANGED <<pvars, resuming, settling, left, phase, ends>>

\* Mutant of WorkerFinal: the job ends without reading its run.
WorkerEnds(r) ==
  /\ worker[r].pc = "final"
  /\ worker' = [worker EXCEPT ![r] = NoJob]
  /\ UNCHANGED <<pvars, run, resuming, settling, left, phase, ends>>

\* The job's last read settles a decision taken before the run was parked.
WorkerFinal(r) ==
  /\ worker[r].pc = "final"
  /\ LockFree
  /\ settling' = IF ToSettle(r) THEN r ELSE NoId
  /\ worker' = [worker EXCEPT ![r] = NoJob]
  /\ UNCHANGED <<pvars, run, resuming, left, phase, ends>>

\* The author cancels the job of a run.
CancelRun(r) ==
  /\ Serving
  /\ worker[r].pc # "none" /\ worker[r].token = "none"
  /\ worker' = [worker EXCEPT ![r].token = "author"]
  /\ UNCHANGED <<pvars, run, resuming, settling, left, phase, ends>>

-----------------------------------------------------------------------------
(* The process.                                                            *)

\* close(): active jobs are told, queued ones never begin.
Shutdown ==
  /\ phase = "up" /\ left = {}
  /\ phase' = "closing"
  /\ worker' = [r \in Runs |->
       IF worker[r].pc \in {"none", "queued"} THEN NoJob
       ELSE IF worker[r].token = "none" THEN [worker[r] EXCEPT !.token = "shutdown"]
       ELSE worker[r]]
  /\ UNCHANGED <<pvars, run, resuming, settling, left, ends>>

\* The process ends, wherever it is.
Exit ==
  /\ phase # "down" /\ ends < MaxEnds
  /\ Forget(Runs)
  /\ worker' = [r \in Runs |-> NoJob]
  /\ resuming' = NotResuming
  /\ settling' = NoId
  /\ left' = {}
  /\ phase' = "down"
  /\ ends' = ends + 1
  /\ UNCHANGED run

Startup ==
  /\ phase = "down"
  /\ phase' = "up"
  /\ left' = {r \in Runs : run[r].node # "none"}
  /\ UNCHANGED <<pvars, run, worker, resuming, settling, ends>>

\* The start reads a run, which may settle it, and queues it if it is
\* unfinished.
RecoverRun(r) ==
  /\ r \in left /\ settling = NoId
  /\ left' = left \ {r}
  /\ settling' = IF ToSettle(r) THEN r ELSE NoId
  /\ worker' = IF ~ToSettle(r) /\ StatusOf(r) \in {"running", "shutdown_interrupted"}
               THEN [worker EXCEPT ![r] = [NoJob EXCEPT !.pc = "queued"]] ELSE worker
  /\ UNCHANGED <<pvars, run, resuming, phase, ends>>

-----------------------------------------------------------------------------

\* Requests and chat turns that touch the proposals and no run.
Editing ==
  /\ Serving
  /\ \/ \E k \in Keys, t \in Texts : Edit(k, t)
     \/ \E p \in Ids \ Runs : Capture(p)
     \/ \E p \in Ids \ Runs, new \in Answers, passed \in BOOLEAN : Propose(p, new, passed)
     \/ \E p \in Ids : ReadOpen(p)
     \/ \E p \in Ids, d \in {"accept", "reject", "keep"} :
          DecideAll(p, d) \/ \E k \in Keys : DecideOne(p, d, k)
  /\ UNCHANGED rvars

\* The request that decides goes on.
Deciding ==
  \/ (DecideWrite \/ DecideRaises) /\ UNCHANGED rvars
  \/ DecideAndResume

Resuming == ResumeRead \/ ResumeGate
Settling == SettleDecision \/ SettleEnd
Recovering == \E r \in Runs : RecoverRun(r)

WorkerStep(r) ==
  \/ WorkerReads(r) \/ WorkerMarks(r) \/ WorkerInvokes(r)
  \/ \E new \in Answers : Generate(r, new)
  \/ Assemble(r)
  \/ \E passed \in BOOLEAN : Check(r, passed)
  \/ \E new \in Answers, passed \in BOOLEAN : AutoFix(r, new, passed)
  \/ Reviewed(r) \/ ReviewStores(r) \/ ReviewDone(r)
  \/ Park(r) \/ ResumeNode(r)
  \/ NodeRaises(r) \/ NodeStops(r) \/ NodeExpires(r)
  \/ WorkerFinal(r)

Next ==
  \/ Editing \/ Deciding \/ Resuming \/ Settling
  \/ \E r \in Runs, mode \in Modes : StartRun(r, mode)
  \/ \E r \in Runs : WorkerStep(r) \/ ReadRun(r) \/ CancelRun(r)
  \/ Shutdown \/ Exit \/ Startup \/ Recovering

Spec == Init /\ [][Next]_vars

\* Threads run on: the request in progress, the start, and the workers, whose
\* provider calls have timeouts; the mutation lock is free again and again
\* between two requests, but not for good.  Nothing makes the author act, and
\* nothing starts the process again.
LiveSpec ==
  /\ Spec
  /\ WF_vars(Deciding) /\ WF_vars(Resuming) /\ WF_vars(Settling) /\ WF_vars(Recovering)
  /\ \A r \in Runs : SF_vars(WorkerStep(r))

-----------------------------------------------------------------------------
(* What must hold.                                                         *)

\* The proposals of runs and chat turns obey the proposal log: every step of
\* the composed system is one of Proposals or leaves it alone.
ImplementsProposals == PSpec

\* A run that waits has a proposal to decide, stored in the log before the
\* run could be seen waiting (review, owner_gate).
WaitingHasProposal == \A r \in Runs : StatusOf(r) = "waiting" => log[r].status # "none"

\* The decision a run records is the one the log holds, after any number of
\* restarts and whoever resumed the run: nobody passes the gate of an open
\* proposal (resume_regeneration, _read_regeneration_state, _owner_decision).
DecisionRecorded ==
  \A r \in Runs :
    run[r].decision \notin {"none", "kept"} => Closed(r) /\ run[r].decision = OwnerDecision(r)

\* Nothing is left to do on a run but what the author decides.
AtRest(r) ==
  \/ run[r].parked
  \/ run[r].node \in {"none", "end"}
  \/ run[r].outcome \in {"failed", "cancelled"}

\* Once the start is through, a run that is not finished and does not wait
\* is in somebody's hands: none is forgotten by a crash, also not one between
\* the review and its interrupt (recoverable_regenerations, _stored_run_outcome).
NoRunForgotten ==
  phase = "up" /\ left = {} =>
    \A r \in Runs : ~AtRest(r) => worker[r].pc # "none" \/ settling = r

\* An ended run is over: outcomes that are final stay (recoverable_regenerations:
\* "waiting and terminal outcomes remain parked").
OutcomeStays ==
  [][\A r \in Runs : run[r].node # "none" /\ StatusOf(r) \in Terminal
       => StatusOf(r)' = StatusOf(r)]_vars

\* A run comes to rest: it waits for the author, has ended, or has failed,
\* unless the process stops first (the graph repairs once).
RunsRest == \A r \in Runs : ~AtRest(r) ~> (AtRest(r) \/ phase # "up")

\* A decided run ends: "Accepting or rejecting the proposal resumes the owner
\* gate", also when it was decided before the run reached the gate.
GateResumes ==
  \A r \in Runs :
    log[r].status = "settled" ~>
      (run[r].node = "end" \/ StatusOf(r) \in Terminal \/ phase # "up")

\* Every run finishes as far as it can: at rest or for good, and past its gate
\* once its proposal is decided.
RunsFinish == RunsRest /\ GateResumes
=============================================================================
