--------------------------- MODULE OpencodeCalls ---------------------------
(***************************************************************************)
(* One call of the LLM through the OpenCode program: a child process whose *)
(* two output streams are read by a thread each into one queue, the        *)
(* classification of what came, the retries, and the cancellation by the   *)
(* operation or of the whole batch, which races the start of a child.      *)
(*                                                                         *)
(* The child is external: it writes lines, closes its streams, ends.       *)
(*                                                                         *)
(* Source: clients/llm/opencode.py, invocation.py, base.py.                *)
(***************************************************************************)
EXTENDS Naturals, Sequences

CONSTANTS
  OlCalls,
  OlRetries,  \* K_LLM_BACKEND_RETRIES
  OlMaxLines  \* bound: lines a child writes

ASSUME OpencodeCallsAssumption ==
  OlRetries \in Nat /\ OlMaxLines \in Nat

VARIABLES
  olCall,     \* the calls
  olQueue,    \* events of each call its collector has not taken
  olToken,    \* the token of each: of the batch, or of an operation
  olBatch,    \* the batch cancellation: no, under way, done
  olSnapshot  \* the processes it terminates

olvars == <<olCall, olQueue, olToken, olBatch, olSnapshot>>

\* A text, a structured quota error, another error on stdout; the quota log of
\* the call itself and that of its title agent on stderr.
Lines == {"text", "quota", "error", "log", "title"}
Ends == {"stdout", "stderr"}

Attempt == [child : {"none", "runs", "ended"},
            wrote : 0..OlMaxLines,
            closed : SUBSET Ends,       \* streams whose end is in the queue
            seen : SUBSET (Lines \cup Ends),
            deferred : BOOLEAN,         \* a stderr quota waits for text
            outcome : {"none", "ok", "quota", "down", "cancelled"}]
NoAttempt == [child |-> "none", wrote |-> 0, closed |-> {}, seen |-> {}, deferred |-> FALSE,
              outcome |-> "none"]

OlTypeOK ==
  /\ olCall \in [OlCalls -> [pc : {"check", "spawn", "register", "collect", "decide", "over"},
                             n : 0..OlRetries,
                             reg : {"none", "no", "snapshot", "set"},  \* registered, when
                             try : Attempt]]
  /\ \A c \in OlCalls : \A i \in DOMAIN olQueue[c] : olQueue[c][i] \in Lines \cup Ends
  /\ olToken \in [OlCalls -> {"batch", "own", "cancelled"}]
  /\ olBatch \in {"no", "snapshot", "set"}
  /\ olSnapshot \subseteq OlCalls
  /\ \A c \in OlCalls : olCall[c].reg # "none" => olCall[c].pc = "collect"

OlInit ==
  /\ olCall = [c \in OlCalls |-> [pc |-> "check", n |-> 0, reg |-> "none", try |-> NoAttempt]]
  /\ olQueue = [c \in OlCalls |-> <<>>]
  /\ olToken \in [OlCalls -> {"batch", "own"}]
  /\ olBatch = "no"
  /\ olSnapshot = {}

OlAt(c, pc) == olCall[c].pc = pc
Try(c) == olCall[c].try
IsCancelled(c) == olToken[c] = "cancelled" \/ (olToken[c] = "batch" /\ olBatch = "set")

Cancelled(c) == IF olToken[c] = "own" THEN "cancelled" ELSE olToken[c]

\* Mutant of Stopped: the exception leaves the child running.
StoppedNot(x) == x

Stopped(x) == [x EXCEPT !.child = IF @ = "runs" THEN "ended" ELSE @]

\* Mutant of EndedAs: the process stays in the registry.
EndedRegistered(c, x, outcome) ==
  /\ olCall' = [olCall EXCEPT ![c].pc = "decide",
                              ![c].try = [Stopped(x) EXCEPT !.outcome = outcome]]
  /\ olQueue' = [olQueue EXCEPT ![c] = <<>>]

\* The attempt ended with this outcome: its child is terminated, the readers
\* joined, the process unregistered.
EndedAs(c, x, outcome) ==
  /\ olCall' = [olCall EXCEPT ![c].pc = "decide", ![c].reg = "none",
                              ![c].try = [Stopped(x) EXCEPT !.outcome = outcome]]
  /\ olQueue' = [olQueue EXCEPT ![c] = <<>>]
Ended(c, outcome) == EndedAs(c, Try(c), outcome)

-----------------------------------------------------------------------------
(* The start of an attempt.                                                *)

Check(c) ==
  /\ OlAt(c, "check")
  /\ \/ IsCancelled(c) /\ Ended(c, "cancelled")
     \/ ~IsCancelled(c) /\ olCall' = [olCall EXCEPT ![c].pc = "spawn"] /\ UNCHANGED olQueue
  /\ UNCHANGED <<olToken, olBatch, olSnapshot>>

\* The environment is set up, within the deadline of the attempt.
SpawnChild(c) ==
  /\ OlAt(c, "spawn")
  /\ \/ Ended(c, "down")
     \/ /\ olCall' = [olCall EXCEPT ![c].pc = "register", ![c].try.child = "runs"]
        /\ UNCHANGED olQueue
  /\ UNCHANGED <<olToken, olBatch, olSnapshot>>

\* Mutant of Late: a process is registered without a look at the batch.
LateNever == FALSE

Late == olBatch = "set"

\* A process registered after the batch was cancelled cancels its operation.
RegisterChild(c) ==
  /\ OlAt(c, "register")
  /\ olToken' = [olToken EXCEPT ![c] = IF Late THEN Cancelled(c) ELSE @]
  /\ olCall' = [olCall EXCEPT ![c].pc = "collect", ![c].reg = olBatch]
  /\ UNCHANGED <<olQueue, olBatch, olSnapshot>>

-----------------------------------------------------------------------------
(* The collector.                                                          *)

\* Mutant of Due: the quota log fails the call although text was produced.
DueAlways(x) == x.deferred

\* A deferred stderr quota fails the call.
Due(x) == x.deferred /\ "text" \notin x.seen

Defers(x, e) == e = "log" /\ "text" \notin x.seen

CollectEvent(c) ==
  /\ OlAt(c, "collect") /\ ~IsCancelled(c) /\ olQueue[c] # <<>>
  /\ LET e == Head(olQueue[c])
         x == [Try(c) EXCEPT !.seen = @ \cup {e}, !.deferred = @ \/ Defers(Try(c), e)]
         fails == \/ e = "quota"
                  \/ e = "stdout" /\ Due(x)
                  \/ Defers(Try(c), e) /\ "stdout" \in x.seen IN
     \/ fails /\ EndedAs(c, x, "quota")
     \/ /\ ~fails
        /\ olCall' = [olCall EXCEPT ![c].try = x]
        /\ olQueue' = [olQueue EXCEPT ![c] = Tail(@)]
  /\ UNCHANGED <<olToken, olBatch, olSnapshot>>

\* stdout stays open without text until the grace period is over.
GraceOver(c) ==
  /\ OlAt(c, "collect") /\ ~IsCancelled(c) /\ Due(Try(c))
  /\ Ended(c, "quota")
  /\ UNCHANGED <<olToken, olBatch, olSnapshot>>

DeadlineOver(c) ==
  /\ OlAt(c, "collect") /\ ~IsCancelled(c)
  /\ Ended(c, "down")
  /\ UNCHANGED <<olToken, olBatch, olSnapshot>>

StopCollecting(c) ==
  /\ OlAt(c, "collect") /\ IsCancelled(c)
  /\ Ended(c, "cancelled")
  /\ UNCHANGED <<olToken, olBatch, olSnapshot>>

Classified(seen) ==
  CASE "error" \in seen -> "down"
    [] "error" \notin seen /\ "text" \in seen -> "ok"
    [] seen \cap {"error", "text"} = {} /\ seen \cap {"log", "title"} # {} -> "quota"
    [] OTHER -> "down"

\* The child ended, both streams too, and every event was taken.
OutputComplete(c) ==
  /\ OlAt(c, "collect") /\ ~IsCancelled(c)
  /\ Try(c).child = "ended" /\ Ends \subseteq Try(c).seen /\ olQueue[c] = <<>>
  /\ Ended(c, Classified(Try(c).seen))
  /\ UNCHANGED <<olToken, olBatch, olSnapshot>>

Retries(c) == Try(c).outcome = "down" /\ olCall[c].n < OlRetries

\* The attempt is over: what the call makes of it.
Decide(c) ==
  /\ OlAt(c, "decide")
  /\ \/ /\ Retries(c) /\ ~IsCancelled(c)
        /\ olCall' = [olCall EXCEPT ![c] = [pc |-> "check", n |-> @.n + 1, reg |-> "none",
                                            try |-> NoAttempt]]
     \/ /\ ~Retries(c) \/ IsCancelled(c)
        /\ olCall' = [olCall EXCEPT ![c].pc = "over",
                                    ![c].try.outcome = IF IsCancelled(c) THEN "cancelled" ELSE @]
  /\ UNCHANGED <<olQueue, olToken, olBatch, olSnapshot>>

-----------------------------------------------------------------------------
(* Cancellation.                                                           *)

OperationCancelled(c) ==
  /\ olToken[c] = "own"
  /\ olToken' = [olToken EXCEPT ![c] = "cancelled"]
  /\ UNCHANGED <<olCall, olQueue, olBatch, olSnapshot>>

\* The batch: the registered processes and their tokens are noted, then the
\* tokens cancelled and the processes terminated.
BatchNotes ==
  /\ olBatch = "no"
  /\ olBatch' = "snapshot"
  /\ olSnapshot' = {c \in OlCalls : olCall[c].reg # "none"}
  /\ UNCHANGED <<olCall, olQueue, olToken>>

BatchCancels ==
  /\ olBatch = "snapshot"
  /\ olBatch' = "set"
  /\ olToken' = [c \in OlCalls |-> IF c \in olSnapshot THEN Cancelled(c) ELSE olToken[c]]
  /\ olCall' = [c \in OlCalls |-> IF c \in olSnapshot /\ olCall[c].reg # "none"
                                  THEN [olCall[c] EXCEPT !.try = Stopped(@)] ELSE olCall[c]]
  /\ UNCHANGED <<olQueue, olSnapshot>>

-----------------------------------------------------------------------------
(* The child and its readers: external.                                    *)

Writes(c, line) ==
  LET to == IF line \in {"log", "title"} THEN "stderr" ELSE "stdout" IN
  /\ OlAt(c, "collect") /\ Try(c).child = "runs" /\ to \notin Try(c).closed
  /\ Try(c).wrote < OlMaxLines
  /\ olQueue' = [olQueue EXCEPT ![c] = Append(@, line)]
  /\ olCall' = [olCall EXCEPT ![c].try.wrote = @ + 1]
  /\ UNCHANGED <<olToken, olBatch, olSnapshot>>

StreamEnds(c, stream) ==
  /\ OlAt(c, "collect") /\ stream \notin Try(c).closed
  /\ olQueue' = [olQueue EXCEPT ![c] = Append(@, stream)]
  /\ olCall' = [olCall EXCEPT ![c].try.closed = @ \cup {stream}]
  /\ UNCHANGED <<olToken, olBatch, olSnapshot>>

Exits(c) ==
  /\ OlAt(c, "collect") /\ Try(c).child = "runs"
  /\ olCall' = [olCall EXCEPT ![c].try.child = "ended"]
  /\ UNCHANGED <<olQueue, olToken, olBatch, olSnapshot>>

-----------------------------------------------------------------------------
OlStep(c) ==
  \/ Check(c) \/ SpawnChild(c) \/ RegisterChild(c) \/ CollectEvent(c) \/ GraceOver(c)
  \/ DeadlineOver(c) \/ StopCollecting(c) \/ OutputComplete(c) \/ Decide(c)

OlNext ==
  \/ \E c \in OlCalls : \/ OlStep(c) \/ OperationCancelled(c) \/ Exits(c)
                        \/ \E line \in Lines : Writes(c, line)
                        \/ \E s \in Ends : StreamEnds(c, s)
  \/ BatchNotes \/ BatchCancels

OlSpec == OlInit /\ [][OlNext]_olvars

-----------------------------------------------------------------------------
(* Properties.                                                             *)

\* A call that produced text is not reported as out of quota for what stands
\* in its log, whichever stream was read first: only an error event says so.
TextWins ==
  \A c \in OlCalls : "text" \in Try(c).seen /\ Try(c).outcome = "quota" => "quota" \in Try(c).seen

\* No child runs for a call that is over or between two attempts.
NoChildLeft ==
  \A c \in OlCalls : olCall[c].pc \in {"check", "decide", "over"} => Try(c).child # "runs"

\* A cancelled batch leaves no child running unseen: a process registered
\* before the registry was read, or after the batch was marked, belongs to a
\* cancelled call.  (One registered between the two keeps the token of its
\* operation, which nobody cancels.)
BatchReachesAll ==
  olBatch = "set" =>
    \A c \in OlCalls : olCall[c].reg \in {"no", "set"} /\ Try(c).child = "runs" => IsCancelled(c)

\* However a call ends - answer, deadline, rate limit, cancel, batch - it is
\* reported as what it was and leaves no child.
CallsEndCleanly == OlTypeOK /\ TextWins /\ NoChildLeft /\ BatchReachesAll
=============================================================================
