----------------------------- MODULE ChatTurns -----------------------------
(***************************************************************************)
(* The chat turns of one thread.  The author's message is persisted in the *)
(* transcript before a job of the pool (WorkbenchJobs) runs it on a Codex  *)
(* server turn; the job persists how the turn ended before it ends itself. *)
(* The author may cancel the turn at any moment and retry it, under the    *)
(* same turn id, once the transcript says that it failed or was cancelled. *)
(* Shutdown cancels too, and leaves the turn to the next start.            *)
(*                                                                         *)
(* A `with lock` block of a worker writes the transcript once, so it is    *)
(* one step; a handler holds the mutation lock for its whole call, so no   *)
(* such block runs while a call is in progress.                            *)
(*                                                                         *)
(* Source: application/operations/workbench_chat.py,                       *)
(* web/workbench_actions.py, web/workbench_jobs.py.                        *)
(***************************************************************************)
EXTENDS WorkbenchJobs

CONSTANTS
  AutoFixRetries,  \* server turns that may repair a proposal
  MaxRetries,      \* bound: retries by the author
  MaxRestarts      \* bound: ends of the process, with or without close()

ASSUME ChatAssumption ==
  /\ AutoFixRetries \in Nat
  /\ MaxRetries \in Nat
  /\ MaxRestarts \in Nat
  /\ \A j \in Jobs : KindOf[j] = "chat"

VARIABLES
  turn,       \* the author turns of the transcript
  down,       \* the process is not running
  op,         \* where a job's operation is
  server,     \* the Codex server turn of a job
  hook,       \* server turn a job's token would interrupt, 0 for none
  requested,  \* interrupts asked of the app-server
  answers,    \* history: assistant messages per turn
  asked,      \* history: turns the author asked to cancel
  retries, restarts

talk == <<op, server, hook, requested>>
chatHistory == <<answers, asked, retries, restarts>>
vars == <<jobVars, turn, down, talk, chatHistory>>

TurnStatuses == {"none", "pending", "running", "completed", "failed", "cancelled", "removed"}
ActiveTurn(t) == turn[t] \in {"pending", "running"}

\* Mutant of Idle: a turn that still waits for a worker is overlooked.
NoneRunning == \A t \in Turns : turn[t] # "running"

Idle == \A t \in Turns : ~ActiveTurn(t)

Steps == {"none", "prepare", "start", "noting", "hooking", "waiting", "clearing",
          "interrupted", "answered", "checking", "finish", "caught", "failing",
          "replied", "raise_cancelled", "raise_failed"}

ServerTurn == [n : 0..(AutoFixRetries + 1),
               state : {"idle", "active", "completed", "interrupted", "error"}]
NoServerTurn == [n |-> 0, state |-> "idle"]

LockFree == call = NoCall
Goto(j, step) == op' = [op EXCEPT ![j] = step]

\* Writes to a transcript that has lost the turn raise instead.
Lost(j) == turn[TurnOf[j]] = "removed"
Mark(j, s) == turn' = [turn EXCEPT ![TurnOf[j]] = s]

TalkInit ==
  /\ op = [j \in Jobs |-> "none"]
  /\ server = [j \in Jobs |-> NoServerTurn]
  /\ hook = [j \in Jobs |-> 0]
  /\ requested = {}

Init ==
  /\ JobsInit
  /\ TalkInit
  /\ turn = [t \in Turns |-> "none"]
  /\ down = FALSE
  /\ answers = [t \in Turns |-> 0]
  /\ asked = {}
  /\ retries = 0
  /\ restarts = 0

(***************************************************************************)
(* The handlers of the server.                                             *)
(***************************************************************************)
SendMessage(j) ==
  /\ ~down /\ Idle
  /\ turn[TurnOf[j]] = "none"
  /\ Mark(j, "pending")
  /\ Record(j)
  /\ UNCHANGED <<down, talk, chatHistory>>

\* Mutant of MayRetry: an answered turn may be retried as well.
MayRetryAny(t) == turn[t] \in {"failed", "cancelled", "completed"}

MayRetry(t) == turn[t] \in {"failed", "cancelled"}

Retry(j) ==
  /\ ~down /\ Idle
  /\ MayRetry(TurnOf[j])
  /\ retries < MaxRetries
  /\ retries' = retries + 1
  /\ Mark(j, "pending")
  /\ Record(j)
  /\ UNCHANGED <<down, talk, answers, asked, restarts>>

NewChat ==
  /\ ~down /\ LockFree /\ Idle
  /\ turn' = [t \in Turns |-> IF turn[t] = "none" THEN "none" ELSE "removed"]
  /\ UNCHANGED <<jobVars, down, talk, chatHistory>>

\* Setting the reason captures the hook; it runs in a thread of its own.
Interrupts(j) ==
  requested' = IF token[j] = "none" /\ hook[j] # 0
               THEN requested \cup {<<j, hook[j]>>} ELSE requested

ChatRequestCancel(j) ==
  /\ ~down
  /\ RequestCancel(j)
  /\ UNCHANGED <<turn, down, talk, chatHistory>>

ChatCancel ==
  /\ Cancel
  /\ Interrupts(call.job)
  /\ asked' = asked \cup {TurnOf[call.job]}
  /\ UNCHANGED <<turn, down, op, server, hook, answers, retries, restarts>>

ChatEnqueue ==
  /\ Enqueue \/ EnqueueTooLate
  /\ UNCHANGED <<turn, down, talk, chatHistory>>

(***************************************************************************)
(* The worker around the operation.                                        *)
(***************************************************************************)
ChatIdle(w) ==
  /\ Take(w) \/ Skip(w) \/ Forget(w)
  /\ UNCHANGED <<turn, down, talk, chatHistory>>

ChatBegin(w) ==
  /\ Begin(w)
  /\ Goto(worker[w].job, "prepare")
  /\ UNCHANGED <<turn, down, server, hook, requested, chatHistory>>

\* A regeneration the reply asked for may still be cancelled.
ChatEnd(w) ==
  /\ worker[w].pc = "working"
  /\ LET j == worker[w].job
     IN  /\ \/ op[j] = "replied" /\ (End(w, "done") \/ End(w, "cancelled"))
            \/ op[j] = "raise_cancelled" /\ End(w, "cancelled")
            \/ op[j] = "raise_failed" /\ End(w, "failed")
         /\ Goto(j, "none")
  /\ UNCHANGED <<turn, down, server, hook, requested, chatHistory>>

ChatCancelSelf(w) ==
  /\ worker[w].pc = "working" /\ op[worker[w].job] = "replied"
  /\ CancelSelf(w)
  /\ UNCHANGED <<turn, down, talk, chatHistory>>

(***************************************************************************)
(* The operation: prepare the prompt, run a server turn.                   *)
(***************************************************************************)
Prepare(j) ==
  /\ op[j] = "prepare" /\ LockFree
  /\ \/ /\ turn[TurnOf[j]] = "pending" /\ token[j] = "none"
        /\ Mark(j, "running")
        /\ Goto(j, "start")
     \/ /\ turn[TurnOf[j]] = "pending" /\ token[j] = "author"
        /\ Mark(j, "cancelled")
        /\ Goto(j, "caught")
     \/ /\ turn[TurnOf[j]] = "pending" /\ token[j] \notin {"none", "author"}
        /\ Goto(j, "caught")
        /\ UNCHANGED turn
     \/ /\ turn[TurnOf[j]] # "pending"
        /\ Goto(j, "failing")
        /\ UNCHANGED turn
  /\ UNCHANGED <<jobVars, down, server, hook, requested, chatHistory>>

\* Settings, source or plan cannot be read; Codex does not start a turn.
BreaksOff(j) ==
  /\ op[j] \in {"prepare", "start"}
  /\ Goto(j, "failing")
  /\ UNCHANGED <<jobVars, turn, down, server, hook, requested, chatHistory>>

StartTurn(j) ==
  /\ op[j] = "start" /\ closing # "joining"
  /\ server' = [server EXCEPT ![j] = [n |-> @.n + 1, state |-> "active"]]
  /\ Goto(j, "noting")
  /\ UNCHANGED <<jobVars, turn, down, hook, requested, chatHistory>>

\* The server turn's id goes into the transcript first, then to the token.
NoteTurn(j) ==
  /\ op[j] = "noting" /\ LockFree
  /\ Goto(j, IF Lost(j) THEN "failing" ELSE "hooking")
  /\ server' = [server EXCEPT ![j].state = IF Lost(j) THEN "idle" ELSE @]
  /\ UNCHANGED <<jobVars, turn, down, hook, requested, chatHistory>>

\* Mutant of SetHook: an earlier cancel is not honoured.
SetHookOnly(j) ==
  /\ op[j] = "hooking"
  /\ hook' = [hook EXCEPT ![j] = server[j].n]
  /\ Goto(j, "waiting")
  /\ UNCHANGED <<jobVars, turn, down, server, requested, chatHistory>>

SetHook(j) ==
  /\ op[j] = "hooking"
  /\ hook' = [hook EXCEPT ![j] = server[j].n]
  /\ requested' = IF token[j] # "none"
                  THEN requested \cup {<<j, server[j].n>>} ELSE requested
  /\ Goto(j, "waiting")
  /\ UNCHANGED <<jobVars, turn, down, server, chatHistory>>

WaitEnds(j) ==
  /\ op[j] = "waiting" /\ server[j].state # "active"
  /\ Goto(j, "clearing")
  /\ UNCHANGED <<jobVars, turn, down, server, hook, requested, chatHistory>>

\* Mutant of AfterTurn: one repair too many.
AfterTurnOnceMore(j) ==
  CASE server[j].state = "interrupted" -> {"interrupted"}
    [] server[j].state = "error" -> {"failing"}
    [] OTHER -> {"answered", "failing"} \cup
         IF server[j].n <= AutoFixRetries + 1 /\ \E t \in Turns : turn[t] = "running"
         THEN {"start"} ELSE {}

\* A failed check of the proposal is repaired by another server turn.
AfterTurn(j) ==
  CASE server[j].state = "interrupted" -> {"interrupted"}
    [] server[j].state = "error" -> {"failing"}
    [] OTHER -> {"answered", "failing"} \cup
         IF server[j].n <= AutoFixRetries /\ \E t \in Turns : turn[t] = "running"
         THEN {"start"} ELSE {}

\* The hook is found by the id in the transcript, which a mark removes.
ClearHook(j) ==
  /\ op[j] = "clearing" /\ LockFree
  /\ \/ /\ Lost(j)
        /\ Goto(j, "failing")
        /\ UNCHANGED hook
     \/ /\ ~Lost(j)
        /\ hook' = [hook EXCEPT ![j] = IF turn[TurnOf[j]] = "running" THEN 0 ELSE @]
        /\ \E step \in AfterTurn(j) : Goto(j, step)
  /\ server' = [server EXCEPT ![j].state = "idle"]
  /\ UNCHANGED <<jobVars, turn, down, requested, chatHistory>>

(***************************************************************************)
(* How the turn ends, in the transcript.                                   *)
(***************************************************************************)
\* Mutant of Interrupted: an interrupt nobody here asked for is not marked.
InterruptedUnmarked(j) ==
  /\ op[j] = "interrupted" /\ LockFree
  /\ IF token[j] = "author" /\ ~Lost(j) THEN Mark(j, "cancelled") ELSE UNCHANGED turn
  /\ Goto(j, IF token[j] # "none" THEN "raise_cancelled" ELSE "raise_failed")
  /\ UNCHANGED <<jobVars, down, server, hook, requested, chatHistory>>

Interrupted(j) ==
  /\ op[j] = "interrupted" /\ LockFree
  /\ \/ /\ token[j] \notin {"none", "author"}
        /\ Goto(j, "raise_cancelled")
        /\ UNCHANGED turn
     \/ /\ token[j] \in {"none", "author"} /\ ~Lost(j)
        /\ Mark(j, IF token[j] = "author" THEN "cancelled" ELSE "failed")
        /\ Goto(j, IF token[j] = "author" THEN "raise_cancelled" ELSE "raise_failed")
     \/ /\ token[j] \in {"none", "author"} /\ Lost(j)
        /\ Goto(j, "raise_failed")
        /\ UNCHANGED turn
  /\ UNCHANGED <<jobVars, down, server, hook, requested, chatHistory>>

Answered(j) ==
  /\ op[j] = "answered"
  /\ \/ /\ token[j] # "author"
        /\ Goto(j, "checking")
        /\ UNCHANGED turn
     \/ /\ token[j] = "author" /\ LockFree /\ ~Lost(j)
        /\ Mark(j, "cancelled")
        /\ Goto(j, "checking")
     \/ /\ token[j] = "author" /\ LockFree /\ Lost(j)
        /\ Goto(j, "failing")
        /\ UNCHANGED turn
  /\ UNCHANGED <<jobVars, down, server, hook, requested, chatHistory>>

Check(j) ==
  /\ op[j] = "checking"
  /\ Goto(j, IF token[j] = "none" THEN "finish" ELSE "caught")
  /\ UNCHANGED <<jobVars, turn, down, server, hook, requested, chatHistory>>

\* Mutant of Caught: a shutdown marks the turn cancelled as well.
CaughtAnyReason(j) ==
  /\ op[j] = "caught" /\ LockFree
  /\ IF Lost(j) THEN UNCHANGED turn ELSE Mark(j, "cancelled")
  /\ Goto(j, "raise_cancelled")
  /\ UNCHANGED <<jobVars, down, server, hook, requested, chatHistory>>

Caught(j) ==
  /\ op[j] = "caught"
  /\ \/ /\ token[j] # "author"
        /\ Goto(j, "raise_cancelled")
        /\ UNCHANGED turn
     \/ /\ token[j] = "author" /\ LockFree /\ ~Lost(j)
        /\ Mark(j, "cancelled")
        /\ Goto(j, "raise_cancelled")
     \/ /\ token[j] = "author" /\ LockFree /\ Lost(j)
        /\ Goto(j, "raise_failed")
        /\ UNCHANGED turn
  /\ UNCHANGED <<jobVars, down, server, hook, requested, chatHistory>>

Finish(j) ==
  /\ op[j] = "finish" /\ LockFree
  /\ ~Lost(j)
  /\ Mark(j, "completed")
  /\ answers' = [answers EXCEPT ![TurnOf[j]] = @ + 1]
  /\ Goto(j, "replied")
  /\ UNCHANGED <<jobVars, down, server, hook, requested, asked, retries, restarts>>

\* The turn is gone, or its proposal cannot be stored.
FinishRaises(j) ==
  /\ op[j] = "finish" /\ LockFree
  /\ Goto(j, "failing")
  /\ UNCHANGED <<jobVars, turn, down, server, hook, requested, chatHistory>>

Fail(j) ==
  /\ op[j] = "failing" /\ LockFree
  /\ IF Lost(j) THEN UNCHANGED turn ELSE Mark(j, "failed")
  /\ Goto(j, "raise_failed")
  /\ UNCHANGED <<jobVars, down, server, hook, requested, chatHistory>>

\* Mutant of Regenerate: a failed regeneration fails the turn as well.
RegenerateFails(j) ==
  /\ op[j] = "replied"
  /\ Goto(j, "failing")
  /\ UNCHANGED <<jobVars, turn, down, server, hook, requested, chatHistory>>

\* A regeneration the reply asked for runs in the same job, after the turn,
\* and may fail.
Regenerate(j) ==
  /\ op[j] = "replied"
  /\ Goto(j, "raise_failed")
  /\ UNCHANGED <<jobVars, turn, down, server, hook, requested, chatHistory>>

(***************************************************************************)
(* The app-server: a turn completes, is interrupted, here or by the        *)
(* server itself, or fails (a timeout, the end of the process, malformed   *)
(* output).  An interrupt that was asked for may still fail.               *)
(***************************************************************************)
CodexEnds(j) ==
  /\ server[j].state = "active"
  /\ \E state \in {"completed", "interrupted", "error"} :
       server' = [server EXCEPT ![j].state = state]
  /\ UNCHANGED <<jobVars, turn, down, op, hook, requested, chatHistory>>

(***************************************************************************)
(* Shutdown, the end of the process, and the next start.                   *)
(***************************************************************************)
ChatCloseBegin ==
  /\ ~down
  /\ CloseBegin
  /\ UNCHANGED <<turn, down, talk, chatHistory>>

ChatCloseSignal(j) ==
  /\ CloseSignal(j)
  /\ Interrupts(j)
  /\ UNCHANGED <<turn, down, op, server, hook, chatHistory>>

ChatCloseClient ==
  /\ CloseClient
  /\ server' = [j \in Jobs |->
       IF server[j].state = "active" THEN [server[j] EXCEPT !.state = "error"]
       ELSE server[j]]
  /\ UNCHANGED <<turn, down, op, hook, requested, chatHistory>>

Exit ==
  /\ ~down /\ restarts < MaxRestarts
  /\ restarts' = restarts + 1
  /\ down' = TRUE
  /\ PoolLost
  /\ op' = [j \in Jobs |-> "none"]
  /\ server' = [j \in Jobs |-> NoServerTurn]
  /\ hook' = [j \in Jobs |-> 0]
  /\ requested' = {}
  /\ UNCHANGED <<turn, answers, asked, retries>>

\* Mutant of Recover: a turn no worker had started is left pending.
RecoverRunning ==
  /\ down
  /\ down' = FALSE
  /\ turn' = [t \in Turns |-> IF turn[t] = "running" THEN "failed" ELSE turn[t]]
  /\ UNCHANGED <<jobVars, talk, chatHistory>>

Recover ==
  /\ down
  /\ down' = FALSE
  /\ turn' = [t \in Turns |-> IF ActiveTurn(t) THEN "failed" ELSE turn[t]]
  /\ UNCHANGED <<jobVars, talk, chatHistory>>

(***************************************************************************)
(* Specification.                                                          *)
(***************************************************************************)
Operation(j) ==
  \/ Prepare(j) \/ BreaksOff(j) \/ StartTurn(j) \/ NoteTurn(j) \/ SetHook(j)
  \/ WaitEnds(j) \/ ClearHook(j) \/ Interrupted(j) \/ Answered(j) \/ Check(j)
  \/ Caught(j) \/ Finish(j) \/ FinishRaises(j) \/ Fail(j) \/ Regenerate(j)

ChatWorker(w) == ChatIdle(w) \/ ChatBegin(w) \/ ChatEnd(w)

ChatHandler == ChatEnqueue \/ ChatCancel

ChatClose == (\E j \in Jobs : ChatCloseSignal(j)) \/ ChatCloseClient

Next ==
  \/ \E j \in Jobs : SendMessage(j) \/ Retry(j) \/ ChatRequestCancel(j)
                     \/ Operation(j) \/ CodexEnds(j)
  \/ \E w \in Workers : ChatWorker(w) \/ ChatCancelSelf(w)
  \/ NewChat \/ ChatHandler
  \/ ChatCloseBegin \/ ChatClose \/ Exit \/ Recover

Spec == Init /\ [][Next]_vars

\* Threads run, and a server turn ends, by its timeout if need be.  A worker
\* that wants the mutation lock gets it between two requests of the author.
\* The author and the process owe nothing.
LiveSpec ==
  /\ Spec
  /\ WF_vars(ChatHandler) /\ WF_vars(ChatClose) /\ WF_vars(Recover)
  /\ \A w \in Workers : WF_vars(ChatWorker(w))
  /\ \A j \in Jobs : SF_vars(Operation(j)) /\ WF_vars(CodexEnds(j))

(***************************************************************************)
(* Properties.                                                             *)
(***************************************************************************)
TypeOK ==
  /\ JobsTypeOK
  /\ turn \in [Turns -> TurnStatuses]
  /\ down \in BOOLEAN
  /\ op \in [Jobs -> Steps]
  /\ server \in [Jobs -> ServerTurn]
  /\ hook \in [Jobs -> 0..(AutoFixRetries + 1)]
  /\ requested \subseteq Jobs \X (1..(AutoFixRetries + 1))
  /\ answers \in [Turns -> Nat]
  /\ asked \subseteq Turns
  /\ retries \in 0..MaxRetries
  /\ restarts \in 0..MaxRestarts

\* While the server runs, a turn the transcript calls pending or running has
\* a job that will still say how it ended: the thread never stays blocked by
\* WorkbenchChatBusy until the next start.
NoStuckTurn ==
  ~down /\ closing = "open" =>
    \A t \in Turns :
      ActiveTurn(t) => \E j \in Jobs : TurnOf[j] = t /\ Active(j)

\* Only the author cancels a turn; a shutdown leaves it to the next start
\* (_mark_author_chat_turn_cancelled).
CancelledByAuthor == \A t \in Turns : turn[t] = "cancelled" => t \in asked

\* A server turn whose job was told to stop has been asked to stop, whether
\* the cancel came before or after the turn's hook was set.
InterruptRequested ==
  \A j \in Jobs :
    op[j] = "waiting" /\ token[j] # "none" => <<j, server[j].n>> \in requested

\* A turn is answered at most once, whatever is cancelled or restarted and
\* when it is retried; a second retry, of a reply that a late mark of the
\* first job unsaid, may answer again.
AnsweredOnce == retries <= 1 => \A t \in Turns : answers[t] <= 1

\* The reply the author saw stays: nothing turns a completed turn into a
\* failed or cancelled one; only starting a new chat removes it.  After a
\* retry the second mark of the job it replaced may still unsay the reply.
ReplyKept ==
  [][\A t \in Turns :
       turn[t] = "completed" /\ retries = 0 => turn'[t] \in {"completed", "removed"}]_vars

\* One conversation at a time in the thread (WorkbenchChatBusy).
Talking == {"start", "noting", "hooking", "waiting", "clearing", "interrupted",
            "answered", "finish"}
OneConversation ==
  \A i, j \in Jobs : op[i] \in Talking /\ op[j] \in Talking => i = j

\* The same, as long as the author has retried nothing: a new chat, a cancel
\* or a restart alone never makes a second conversation.
OneConversationUnretried == retries = 0 => OneConversation

\* A turn does not stay pending or running while the server runs.
TurnsSettle ==
  \A t \in Turns : ActiveTurn(t) ~> ~ActiveTurn(t) \/ closing # "open"

\* With fair threads everything submitted ends: no job stays in the pool and no
\* turn in the transcript.
ChatEnds == JobsEnd /\ TurnsSettle

\* What the transcript says of a turn happened, and stays said: cancelled only
\* by the author, answered once, and no reply unsaid.
TranscriptTruthful == [](TypeOK /\ CancelledByAuthor /\ AnsweredOnce) /\ ReplyKept
=============================================================================
