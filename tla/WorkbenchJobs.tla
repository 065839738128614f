--------------------------- MODULE WorkbenchJobs ---------------------------
(***************************************************************************)
(* The workbench server's job pool: a registry polled by the browser, a    *)
(* queue, two daemon workers, one cancellation token per job, and a        *)
(* shutdown that cancels what it can and stops the workers with one poison *)
(* pill each.                                                              *)
(*                                                                         *)
(* Every step is one critical section of the pool's lock or of a token's   *)
(* lock.  The handlers of the HTTP server call the pool one at a time,     *)
(* under the server's mutation lock; workers and close() do not hold it.   *)
(*                                                                         *)
(* Source: web/workbench_jobs.py, clients/cancellation.py.                 *)
(***************************************************************************)
EXTENDS Naturals, Sequences, FiniteSets

CONSTANTS
  Jobs,      \* job identities a process may hand out
  Workers,   \* worker threads
  Turns,     \* persisted chat turns
  KindOf,    \* the kind of each job
  TurnOf,    \* the chat turn of each chat job
  NoJob, NoTurn,
  Stop       \* the poison pill

Kinds == {"provider", "cancelable_progress", "chat"}

ASSUME JobsAssumption ==
  /\ NoJob \notin Jobs
  /\ Stop \notin Jobs
  /\ NoTurn \notin Turns
  /\ KindOf \in [Jobs -> Kinds]
  /\ TurnOf \in [Jobs -> Turns \cup {NoTurn}]
  /\ \A j \in Jobs : KindOf[j] = "chat" <=> TurnOf[j] \in Turns

ASSUME WorkersAssumption == IsFiniteSet(Workers)

VARIABLES
  status,      \* status of every job, "none" before it is submitted
  registered,  \* _chat_turns: the job that answers for a chat turn
  token,       \* the reason a job's token was cancelled for, or "none"
  queue,       \* the work queue
  worker,      \* what each worker thread does
  closing,     \* progress of close()
  signals,     \* tokens close() has yet to cancel
  call         \* the handler's call in progress

jobVars == <<status, registered, token, queue, worker, closing, signals, call>>

Statuses == {"none", "queued", "running", "done", "failed", "cancelled"}
Final == {"done", "failed", "cancelled"}
Reasons == {"none", "author", "shutdown", "deadline"}

Waiting == [pc |-> "waiting", job |-> NoJob]
Gone == [pc |-> "gone", job |-> NoJob]
WorkerState == {Waiting, Gone} \cup [pc : {"taken", "working", "failed"}, job : Jobs]

NoCall == [op |-> "none", job |-> NoJob]
Call == {NoCall} \cup [op : {"submit", "cancel"}, job : Jobs]

IsChat(j) == KindOf[j] = "chat"
Cancelable(j) == KindOf[j] # "provider"
Active(j) == status[j] \in {"queued", "running"}

\* The first reason wins.
Cancelled(j, reason) ==
  token' = [token EXCEPT ![j] = IF @ = "none" THEN reason ELSE @]

\* The chat turns of these jobs answer to no job any more.
Popped(jobs) ==
  [t \in Turns |-> IF \E j \in jobs : TurnOf[j] = t THEN NoJob ELSE registered[t]]

JobsInit ==
  /\ status = [j \in Jobs |-> "none"]
  /\ registered = [t \in Turns |-> NoJob]
  /\ token = [j \in Jobs |-> "none"]
  /\ queue = <<>>
  /\ worker = [w \in Workers |-> Waiting]
  /\ closing = "open"
  /\ signals = {}
  /\ call = NoCall

\* The process ends; the next one starts with an empty pool.
PoolLost ==
  /\ status' = [j \in Jobs |-> "none"]
  /\ registered' = [t \in Turns |-> NoJob]
  /\ token' = [j \in Jobs |-> "none"]
  /\ queue' = <<>>
  /\ worker' = [w \in Workers |-> Waiting]
  /\ closing' = "open"
  /\ signals' = {}
  /\ call' = NoCall

(***************************************************************************)
(* Submission takes the lock twice: the job is recorded, then queued.      *)
(***************************************************************************)
Record(j) ==
  /\ call = NoCall
  /\ status[j] = "none"
  /\ status' = [status EXCEPT ![j] = "queued"]
  /\ registered' = IF IsChat(j) THEN [registered EXCEPT ![TurnOf[j]] = j]
                                ELSE registered
  /\ call' = [op |-> "submit", job |-> j]
  /\ UNCHANGED <<token, queue, worker, closing, signals>>

\* Mutant of Enqueue: a job is queued behind the poison pills.
EnqueueAlways ==
  /\ call.op = "submit"
  /\ queue' = Append(queue, call.job)
  /\ call' = NoCall
  /\ UNCHANGED <<status, registered, token, worker, closing, signals>>

Enqueue ==
  /\ call.op = "submit"
  /\ closing = "open"
  /\ queue' = Append(queue, call.job)
  /\ call' = NoCall
  /\ UNCHANGED <<status, registered, token, worker, closing, signals>>

EnqueueTooLate ==
  /\ call.op = "submit"
  /\ closing # "open"
  /\ status' = [status EXCEPT ![call.job] = "cancelled"]
  /\ registered' = Popped({call.job})
  /\ call' = NoCall
  /\ UNCHANGED <<token, queue, worker, closing, signals>>

(***************************************************************************)
(* Cancellation: the job is looked up under the pool's lock, its token is  *)
(* cancelled after that lock is released.  A chat job is cancelled through *)
(* the entry of its turn.                                                  *)
(***************************************************************************)
RequestCancel(j) ==
  /\ call = NoCall
  /\ Active(j) /\ Cancelable(j)
  /\ LET target == IF IsChat(j) THEN registered[TurnOf[j]] ELSE j
     IN  /\ target # NoJob
         /\ call' = [op |-> "cancel", job |-> target]
  /\ UNCHANGED <<status, registered, token, queue, worker, closing, signals>>

Cancel ==
  /\ call.op = "cancel"
  /\ Cancelled(call.job, "author")
  /\ call' = NoCall
  /\ UNCHANGED <<status, registered, queue, worker, closing, signals>>

(***************************************************************************)
(* Workers.                                                                *)
(***************************************************************************)
\* Mutant of Take: a poison pill is taken for a job.
TakeAnything(w) ==
  /\ worker[w].pc = "waiting"
  /\ queue # <<>>
  /\ queue' = Tail(queue)
  /\ worker' = [worker EXCEPT ![w] = [pc |-> "taken", job |-> Head(queue)]]
  /\ UNCHANGED <<status, registered, token, closing, signals, call>>

Take(w) ==
  /\ worker[w].pc = "waiting"
  /\ queue # <<>>
  /\ queue' = Tail(queue)
  /\ worker' = [worker EXCEPT ![w] =
       IF Head(queue) = Stop THEN Gone
       ELSE [pc |-> "taken", job |-> Head(queue)]]
  /\ UNCHANGED <<status, registered, token, closing, signals, call>>

\* Mutant of Begin: the status is not looked at again.
BeginBlindly(w) ==
  /\ worker[w].pc = "taken"
  /\ status' = [status EXCEPT ![worker[w].job] = "running"]
  /\ worker' = [worker EXCEPT ![w].pc = "working"]
  /\ UNCHANGED <<registered, token, queue, closing, signals, call>>

\* Setting the status a second time, in _run, changes nothing.
Begin(w) ==
  /\ worker[w].pc = "taken"
  /\ closing = "open"
  /\ status[worker[w].job] = "queued"
  /\ status' = [status EXCEPT ![worker[w].job] = "running"]
  /\ worker' = [worker EXCEPT ![w].pc = "working"]
  /\ UNCHANGED <<registered, token, queue, closing, signals, call>>

Skip(w) ==
  /\ worker[w].pc = "taken"
  /\ closing # "open" \/ status[worker[w].job] # "queued"
  /\ status' = [status EXCEPT ![worker[w].job] = IF @ = "queued" THEN "cancelled" ELSE @]
  /\ worker' = [worker EXCEPT ![w] = Waiting]
  /\ UNCHANGED <<registered, token, queue, closing, signals, call>>

\* A regeneration cancels its own token at its run deadline, a review when
\* one of its concurrent calls fails.
CancelSelf(w) ==
  /\ worker[w].pc = "working"
  /\ Cancelable(worker[w].job)
  /\ \E reason \in {"deadline", "shutdown"} : Cancelled(worker[w].job, reason)
  /\ UNCHANGED <<status, registered, queue, worker, closing, signals, call>>

\* The operation returned, or raised Cancelled where the job's kind knows it.
End(w, outcome) ==
  /\ worker[w].pc = "working"
  /\ outcome = "cancelled" => Cancelable(worker[w].job) /\ token[worker[w].job] # "none"
  /\ status' = [status EXCEPT ![worker[w].job] = outcome]
  /\ IF outcome = "failed" /\ IsChat(worker[w].job)
     THEN /\ worker' = [worker EXCEPT ![w].pc = "failed"]
          /\ UNCHANGED registered
     ELSE /\ worker' = [worker EXCEPT ![w] = Waiting]
          /\ registered' = Popped({worker[w].job})
  /\ UNCHANGED <<token, queue, closing, signals, call>>

\* A failed chat job leaves the registry in a critical section of its own.
Forget(w) ==
  /\ worker[w].pc = "failed"
  /\ registered' = Popped({worker[w].job})
  /\ worker' = [worker EXCEPT ![w] = Waiting]
  /\ UNCHANGED <<status, token, queue, closing, signals, call>>

(***************************************************************************)
(* Shutdown.                                                               *)
(***************************************************************************)
Running == {j \in Jobs : status[j] = "running"}

\* Mutant of Queued: running jobs are marked cancelled as well.
Unfinished == {j \in Jobs : Active(j)}

Queued == {j \in Jobs : status[j] = "queued"}

\* Mutant of ToSignal: only chat jobs are told.
ChatToSignal == {j \in Running : IsChat(j)}

ToSignal == {j \in Running : Cancelable(j)}

CloseBegin ==
  /\ closing = "open"
  /\ closing' = "signalling"
  /\ signals' = ToSignal
  /\ status' = [j \in Jobs |-> IF j \in Queued THEN "cancelled" ELSE status[j]]
  /\ registered' = Popped(Queued)
  /\ queue' = queue \o [i \in 1..Cardinality(Workers) |-> Stop]
  /\ UNCHANGED <<token, worker, call>>

CloseSignal(j) ==
  /\ j \in signals
  /\ Cancelled(j, "shutdown")
  /\ signals' = signals \ {j}
  /\ UNCHANGED <<status, registered, queue, worker, closing, call>>

\* The Codex client is closed; what is left is the bounded join.
CloseClient ==
  /\ closing = "signalling"
  /\ signals = {}
  /\ closing' = "joining"
  /\ UNCHANGED <<status, registered, token, queue, worker, signals, call>>

(***************************************************************************)
(* Specification of the pool alone: any operation, any caller.             *)
(***************************************************************************)
Handler == Enqueue \/ EnqueueTooLate \/ Cancel

WorkerStep(w) ==
  \/ Take(w) \/ Begin(w) \/ Skip(w) \/ Forget(w)
  \/ \E outcome \in Final : End(w, outcome)

Close == (\E j \in Jobs : CloseSignal(j)) \/ CloseClient

JobsNext ==
  \/ \E j \in Jobs : Record(j) \/ RequestCancel(j)
  \/ Handler
  \/ \E w \in Workers : WorkerStep(w) \/ CancelSelf(w)
  \/ CloseBegin \/ Close

JobsSpec == JobsInit /\ [][JobsNext]_jobVars

(***************************************************************************)
(* Properties.                                                             *)
(***************************************************************************)
JobsTypeOK ==
  /\ status \in [Jobs -> Statuses]
  /\ registered \in [Turns -> Jobs \cup {NoJob}]
  /\ token \in [Jobs -> Reasons]
  /\ queue \in Seq(Jobs \cup {Stop})
  /\ worker \in [Workers -> WorkerState]
  /\ closing \in {"open", "signalling", "joining"}
  /\ signals \subseteq Jobs
  /\ call \in Call

\* What a poller has been told is final: no interleaving of submission,
\* workers and shutdown revives or rewrites a job that has ended.
FinalStays ==
  [][\A j \in Jobs : status[j] \in Final => status'[j] = status[j]]_jobVars

\* Once shutdown goes on to join the workers, every operation that still
\* runs and can be cancelled has been told to stop: none slips in between.
ShutdownReachesAll ==
  closing = "joining" =>
    \A w \in Workers :
      worker[w].pc = "working" /\ Cancelable(worker[w].job)
        => token[worker[w].job] # "none"

\* A job is worked on by one worker, and exactly while it is running: the
\* registry and the threads never disagree about who is busy.
OneWorkerPerJob ==
  \A j \in Jobs :
    status[j] = "running" <=>
      \E w \in Workers :
        /\ worker[w] = [pc |-> "working", job |-> j]
        /\ \A v \in Workers : worker[v].job = j => v = w

\* Every submitted job ends, even one submitted while the pool shuts down
\* (_submit_worker, _signal_job_cancellation), or its process does.
JobsEnd == \A j \in Jobs : status[j] = "queued" ~> status[j] \in Final \cup {"none"}
=============================================================================
