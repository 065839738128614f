---------------------------- MODULE CodexClient ----------------------------
(***************************************************************************)
(* The client of the Codex app-server.  One process at a time, a           *)
(* "generation", serves the turns of all workbench chats over one stream:  *)
(* callers send requests, one reader thread hands out the replies and the  *)
(* notifications.  A generation whose login changed takes no new turn,     *)
(* ends its turns and is retired; a caller that finds it waits for its end *)
(* and starts the next one.                                                *)
(*                                                                         *)
(* The app-server is external: it answers requests in any order, ends a    *)
(* running turn with a completion, and may die or write an invalid line.   *)
(*                                                                         *)
(* Source: clients/codex/app_server.py.                                    *)
(***************************************************************************)
EXTENDS Naturals, Sequences, FiniteSets

CONSTANTS
  CxCallers,     \* one run_turn each
  CxThreadOf,    \* the Codex thread of each
  CxCancelled,   \* the callers whose turn the author may interrupt
  CxGarbles,     \* whether the process may write an invalid line
  CxMaxGens,     \* bound: processes started
  CxMaxFaults,   \* bound: deaths, silences, invalid lines, error replies, changed logins
  CxNone

ASSUME CodexClientAssumption ==
  /\ CxCancelled \subseteq CxCallers
  /\ CxGarbles \in BOOLEAN
  /\ CxMaxGens \in Nat \ {0}
  /\ CxMaxFaults \in Nat
  /\ CxNone \notin CxCallers \cup 1..CxMaxGens

CxGens == 1..CxMaxGens

VARIABLES
  cxGen,      \* the generations, by identity
  cxCurrent,  \* _generation
  cxClosed,   \* _closed
  cxStarting, \* the holder of _start_lock
  cxCall,     \* where each run_turn is
  cxWire,     \* ordered requests each process has not answered
  cxStream,   \* lines each reader has not read
  cxTurn,     \* external: the turn of each caller, as the process has it
  cxFaults

cxvars == <<cxGen, cxCurrent, cxClosed, cxStarting, cxCall, cxWire, cxStream, cxTurn, cxFaults>>

\* One request of each kind per caller; "cancel" is the author's interrupt.
Methods == {"init", "open", "turn", "stop", "cancel"}
Requests == CxCallers \X Methods
\* The requests whose replies are ordered with the completions.
Ordered == CxCallers \X {"turn", "stop", "cancel"}

Answer == [of : CxCallers \cup {CxNone}, status : {"none", "completed", "interrupted", "failed"}]
NoAnswer == [of |-> CxNone, status |-> "none"]
Message == [kind : {"reply"}, req : Ordered, ok : BOOLEAN]
           \cup [kind : {"completed"}, answer : Answer]
           \cup [kind : {"garbage"}]

Generation == [proc : {"none", "up", "dead"},
               listed : BOOLEAN, closing : BOOLEAN, stale : BOOLEAN, retired : BOOLEAN,
               done : BOOLEAN,      \* retired_event
               turns : Nat,         \* turn_count
               pending : SUBSET Requests,
               active : SUBSET CxCallers,
               watched : BOOLEAN,   \* auth_sync_thread runs
               eof : BOOLEAN,       \* the reader ended
               tearing : BOOLEAN]   \* its retirement stops it
NoGeneration == [proc |-> "none", listed |-> FALSE, closing |-> FALSE, stale |-> FALSE,
                 retired |-> FALSE, done |-> FALSE, turns |-> 0, pending |-> {}, active |-> {},
                 watched |-> FALSE, eof |-> FALSE, tearing |-> FALSE]

Call == [pc : {"ensure", "spawn", "register", "init", "discard", "reserve", "drain", "lock",
               "open", "turn", "wait", "stop", "leave", "over"},
         gen : CxGens \cup {CxNone},
         reply : {"none", "ok", "error"},
         known : BOOLEAN,   \* turn_id is set
         answer : Answer,
         result : {"none", "done", "failed"},
         cancelled : BOOLEAN]
NoCall == [pc |-> "ensure", gen |-> CxNone, reply |-> "none", known |-> FALSE,
           answer |-> NoAnswer, result |-> "none", cancelled |-> FALSE]

\* TypeInvariant
CxTypeOK ==
  /\ cxGen \in [CxGens -> Generation]
  /\ cxCurrent \in CxGens \cup {CxNone}
  /\ cxClosed \in BOOLEAN
  /\ cxStarting \in CxCallers \cup {CxNone}
  /\ cxCall \in [CxCallers -> Call]
  /\ cxWire \in [CxGens -> SUBSET Ordered]
  /\ \A g \in CxGens : \A i \in DOMAIN cxStream[g] : cxStream[g][i] \in Message
  /\ cxTurn \in [CxCallers -> {"none", "running", "over"}]
  /\ cxFaults \in 0..CxMaxFaults

CxInit ==
  /\ cxGen = [g \in CxGens |-> NoGeneration]
  /\ cxCurrent = CxNone
  /\ cxClosed = FALSE
  /\ cxStarting = CxNone
  /\ cxCall = [w \in CxCallers |-> NoCall]
  /\ cxWire = [g \in CxGens |-> {}]
  /\ cxStream = [g \in CxGens |-> <<>>]
  /\ cxTurn = [w \in CxCallers |-> "none"]
  /\ cxFaults = 0

Fault == cxFaults < CxMaxFaults /\ cxFaults' = cxFaults + 1

Goto(w, pc) == cxCall' = [cxCall EXCEPT ![w].pc = pc]
Up(g) == cxGen[g].proc = "up"
GenOf(w) == cxCall[w].gen

-----------------------------------------------------------------------------
(* Retiring a generation.                                                  *)

\* Mutant of HasWork: a turn counts from its activation only.
HasWorkActivated(x) == x.pending # {} \/ x.active # {}

HasWork(x) == x.pending # {} \/ x.active # {} \/ x.turns > 0

\* Generation g after _retire_generation, c being the current one.
Retired(x, g, c) ==
  IF ~x.retired /\ (g # c \/ x.stale \/ x.closing \/ x.proc # "up") /\ ~HasWork(x)
  THEN [x EXCEPT !.closing = TRUE, !.retired = TRUE, !.tearing = TRUE]
  ELSE x

\* The process is stopped, its login restored, and the callers that wait for
\* its end go on.
TearDown(g) ==
  /\ cxGen[g].tearing
  /\ cxGen' = [cxGen EXCEPT ![g].proc = "dead", ![g].watched = FALSE, ![g].tearing = FALSE,
                            ![g].listed = FALSE, ![g].done = TRUE]
  /\ cxWire' = [cxWire EXCEPT ![g] = {}]
  /\ cxCurrent' = IF cxCurrent = g THEN CxNone ELSE cxCurrent
  /\ UNCHANGED <<cxClosed, cxStarting, cxCall, cxStream, cxTurn, cxFaults>>

\* The profile watcher saw that the parent login changed: the generation is
\* marked stale, then retired unless turns are left.
ParentLoginChanged(g) ==
  /\ Fault
  /\ cxGen[g].watched
  /\ LET x == [cxGen[g] EXCEPT !.stale = @ \/ ~cxGen[g].retired, !.watched = FALSE] IN
       cxGen' = [cxGen EXCEPT ![g] = Retired(x, g, cxCurrent)]
  /\ UNCHANGED <<cxCurrent, cxClosed, cxStarting, cxCall, cxWire, cxStream, cxTurn>>

\* close(): every generation not yet retired is torn down with its turns.
Close ==
  /\ ~cxClosed
  /\ cxClosed' = TRUE
  /\ cxCurrent' = CxNone
  /\ LET gone == {g \in CxGens : cxGen[g].listed /\ ~cxGen[g].retired}
         failed(w) == \E g \in gone : w \in cxGen[g].active
         told(w) == \E g \in gone : \E m \in Methods \ {"cancel"} : <<w, m>> \in cxGen[g].pending IN
     /\ cxGen' = [g \in CxGens |->
          IF g \in gone THEN [cxGen[g] EXCEPT !.closing = TRUE, !.retired = TRUE, !.pending = {},
                                              !.tearing = TRUE]
          ELSE cxGen[g]]
     /\ cxCall' = [w \in CxCallers |->
          [cxCall[w] EXCEPT !.reply = IF told(w) THEN "error" ELSE @,
                            !.answer = IF failed(w) THEN [of |-> w, status |-> "failed"] ELSE @]]
  /\ UNCHANGED <<cxStarting, cxWire, cxStream, cxTurn, cxFaults>>

-----------------------------------------------------------------------------
(* A caller gets a generation.                                             *)

\* Mutant of Usable: a stale generation is not waited for.
UsableFresh(g) == ~cxGen[g].stale /\ Up(g)

\* What _ensure_started returns without starting a process.
Usable(g) == ((cxGen[g].stale \/ cxGen[g].retired) /\ ~cxGen[g].done) \/ Up(g)

EnsureStarted(w) ==
  /\ cxCall[w].pc = "ensure" /\ cxStarting = CxNone
  /\ \/ /\ cxClosed
        /\ cxCall' = [cxCall EXCEPT ![w].pc = "over", ![w].result = "failed"]
        /\ UNCHANGED cxStarting
     \/ /\ ~cxClosed /\ cxCurrent # CxNone /\ Usable(cxCurrent)
        /\ cxCall' = [cxCall EXCEPT ![w].pc = "reserve", ![w].gen = cxCurrent]
        /\ UNCHANGED cxStarting
     \/ /\ ~cxClosed /\ ~(cxCurrent # CxNone /\ Usable(cxCurrent))
        /\ Goto(w, "spawn") /\ cxStarting' = w
  /\ UNCHANGED <<cxGen, cxCurrent, cxClosed, cxWire, cxStream, cxTurn, cxFaults>>

Spawned == {g \in CxGens : cxGen[g].proc # "none"}

\* Preparing the profile stops a watcher of this program that still runs and
\* marks its generation stale.  The process may fail to start.
Spawn(w) ==
  /\ cxCall[w].pc = "spawn"
  /\ LET n == Cardinality(Spawned) + 1
         taken == [g \in CxGens |-> IF cxGen[g].watched
                     THEN [cxGen[g] EXCEPT !.stale = @ \/ ~cxGen[g].retired, !.watched = FALSE]
                     ELSE cxGen[g]] IN
     \/ /\ n \in CxGens
        /\ cxGen' = [taken EXCEPT ![n].proc = "up"]
        /\ cxCall' = [cxCall EXCEPT ![w].pc = "register", ![w].gen = n]
        /\ UNCHANGED cxStarting
     \/ /\ cxGen' = taken
        /\ cxCall' = [cxCall EXCEPT ![w].pc = "over", ![w].result = "failed"]
        /\ cxStarting' = CxNone
  /\ UNCHANGED <<cxCurrent, cxClosed, cxWire, cxStream, cxTurn, cxFaults>>

\* Mutant of Registers: the client is taken to be open.
RegistersAlways == TRUE

Registers == ~cxClosed

\* The new process becomes the current generation and is asked to initialise;
\* the dead one it replaces is retired unless turns are left in it.  A client
\* closed meanwhile stops it.
Register(w) ==
  /\ cxCall[w].pc = "register"
  /\ LET g == GenOf(w) IN
     \/ /\ Registers
        /\ cxCurrent' = g
        /\ cxGen' = [h \in CxGens |->
             IF h = g THEN [cxGen[h] EXCEPT !.listed = TRUE, !.pending = {<<w, "init">>}]
             ELSE IF h = cxCurrent THEN Retired(cxGen[h], h, g) ELSE cxGen[h]]
        /\ cxCall' = [cxCall EXCEPT ![w].pc = "init", ![w].reply = "none"]
        /\ UNCHANGED cxStarting
     \/ /\ ~Registers
        /\ cxGen' = [cxGen EXCEPT ![g].closing = TRUE, ![g].tearing = TRUE]
        /\ cxCall' = [cxCall EXCEPT ![w].pc = "over", ![w].result = "failed"]
        /\ cxStarting' = CxNone /\ UNCHANGED cxCurrent
  /\ UNCHANGED <<cxClosed, cxWire, cxStream, cxTurn, cxFaults>>

\* _request: refused when the process ended or the generation is closing.
Send(w, m, refused) ==
  LET g == GenOf(w) IN
  /\ \/ /\ Up(g) /\ ~cxGen[g].closing
        /\ cxGen' = [cxGen EXCEPT ![g].pending = @ \cup {<<w, m>>}]
        /\ cxWire' = [cxWire EXCEPT ![g] = @ \cup ({<<w, m>>} \cap Ordered)]
        /\ cxCall' = [cxCall EXCEPT ![w].pc = m, ![w].reply = "none"]
     \/ /\ ~Up(g) \/ cxGen[g].closing
        /\ Goto(w, refused) /\ UNCHANGED <<cxGen, cxWire>>
  /\ UNCHANGED <<cxCurrent, cxClosed, cxStarting, cxStream, cxTurn, cxFaults>>

\* The process is initialised and its isolation verified: its login is watched.
Initialised(w) ==
  /\ cxCall[w].pc = "init" /\ cxCall[w].reply = "ok"
  /\ cxGen' = [cxGen EXCEPT ![GenOf(w)].watched = ~cxGen[GenOf(w)].retired]
  /\ Goto(w, "reserve")
  /\ cxStarting' = CxNone
  /\ UNCHANGED <<cxCurrent, cxClosed, cxWire, cxStream, cxTurn, cxFaults>>

\* _discard_generation, under the start lock until the process was stopped.
InitFails(w) ==
  LET g == GenOf(w) IN
  /\ cxCall[w].pc = "init" /\ cxCall[w].reply = "error"
  /\ cxGen' = [cxGen EXCEPT ![g].closing = TRUE, ![g].retired = TRUE, ![g].listed = FALSE,
                            ![g].tearing = ~cxGen[g].done]
  /\ cxCurrent' = IF cxCurrent = g THEN CxNone ELSE cxCurrent
  /\ Goto(w, "discard")
  /\ UNCHANGED <<cxClosed, cxStarting, cxWire, cxStream, cxTurn, cxFaults>>

Discarded(w) ==
  /\ cxCall[w].pc = "discard" /\ cxGen[GenOf(w)].done
  /\ cxCall' = [cxCall EXCEPT ![w].pc = "over", ![w].result = "failed"]
  /\ cxStarting' = CxNone
  /\ UNCHANGED <<cxGen, cxCurrent, cxClosed, cxWire, cxStream, cxTurn, cxFaults>>

\* The turn is counted in the generation, or the generation is retired if it
\* has no work, and its end waited for.
Reserve(w) ==
  LET g == GenOf(w) IN
  /\ cxCall[w].pc = "reserve"
  /\ \/ /\ cxCurrent = g /\ ~cxGen[g].stale /\ ~cxGen[g].closing
        /\ cxGen' = [cxGen EXCEPT ![g].turns = @ + 1]
        /\ Goto(w, "lock")
     \/ /\ cxCurrent # g \/ cxGen[g].stale \/ cxGen[g].closing
        /\ cxGen' = [cxGen EXCEPT ![g] = Retired(@, g, cxCurrent)]
        /\ Goto(w, "drain")
  /\ UNCHANGED <<cxCurrent, cxClosed, cxStarting, cxWire, cxStream, cxTurn, cxFaults>>

Drained(w) ==
  /\ cxCall[w].pc = "drain" /\ cxGen[GenOf(w)].done
  /\ Goto(w, "ensure")
  /\ UNCHANGED <<cxGen, cxCurrent, cxClosed, cxStarting, cxWire, cxStream, cxTurn, cxFaults>>

-----------------------------------------------------------------------------
(* A caller runs its turn.                                                 *)

Locked == {"open", "turn", "wait", "stop"}

\* Under the lock of the thread in this generation: the thread is resumed.
Open(w) ==
  /\ cxCall[w].pc = "lock"
  /\ \A v \in CxCallers : CxThreadOf[v] = CxThreadOf[w] /\ GenOf(v) = GenOf(w)
                          => cxCall[v].pc \notin Locked
  /\ Send(w, "open", "leave")

\* The turn becomes the thread's active one and is started; the one before it
\* may not have been taken out yet: that happens after the lock was released.
StartTurn(w) ==
  LET g == GenOf(w)
      busy == \E v \in cxGen[g].active : CxThreadOf[v] = CxThreadOf[w]
      sends == Up(g) /\ ~cxGen[g].closing IN
  /\ cxCall[w].pc = "open" /\ cxCall[w].reply = "ok"
  /\ \/ /\ ~busy
        /\ cxGen' = [cxGen EXCEPT ![g].active = @ \cup {w},
                                  ![g].pending = IF sends THEN @ \cup {<<w, "turn">>} ELSE @]
        /\ cxWire' = [cxWire EXCEPT ![g] = IF sends THEN @ \cup {<<w, "turn">>} ELSE @]
        /\ cxCall' = [cxCall EXCEPT ![w].pc = IF sends THEN "turn" ELSE "leave",
                                    ![w].reply = "none"]
     \/ /\ busy
        /\ Goto(w, "leave") /\ UNCHANGED <<cxGen, cxWire>>
  /\ UNCHANGED <<cxCurrent, cxClosed, cxStarting, cxStream, cxTurn, cxFaults>>

TurnStarted(w) ==
  /\ cxCall[w].pc = "turn" /\ cxCall[w].reply = "ok"
  /\ cxCall' = [cxCall EXCEPT ![w].pc = "wait", ![w].known = TRUE]
  /\ UNCHANGED <<cxGen, cxCurrent, cxClosed, cxStarting, cxWire, cxStream, cxTurn, cxFaults>>

TurnEnds(w) ==
  /\ cxCall[w].pc = "wait" /\ cxCall[w].answer # NoAnswer
  /\ cxCall' = [cxCall EXCEPT ![w].pc = "leave", ![w].result =
                  IF cxCall[w].answer.status = "completed" THEN "done" ELSE "failed"]
  /\ UNCHANGED <<cxGen, cxCurrent, cxClosed, cxStarting, cxWire, cxStream, cxTurn, cxFaults>>

\* Mutant of StopsTurn: the process is left to end the turn.
NeverStops(w) == FALSE

\* A turn that ends without a completion is interrupted.
StopsTurn(w) == cxCall[w].answer = NoAnswer

\* The turn times out, or the caller's own handler of its start or of its
\* text raises.
Abandon(w) ==
  /\ cxCall[w].pc = "wait"
  /\ \/ StopsTurn(w) /\ Send(w, "stop", "leave")
     \/ /\ ~StopsTurn(w) /\ Goto(w, "leave")
        /\ UNCHANGED <<cxGen, cxCurrent, cxClosed, cxStarting, cxWire, cxStream, cxTurn, cxFaults>>

\* A request failed, or an interrupt was answered.
RequestEnds(w) ==
  /\ \/ cxCall[w].pc \in {"open", "turn"} /\ cxCall[w].reply = "error"
     \/ cxCall[w].pc = "stop" /\ cxCall[w].reply # "none"
  /\ Goto(w, "leave")
  /\ UNCHANGED <<cxGen, cxCurrent, cxClosed, cxStarting, cxWire, cxStream, cxTurn, cxFaults>>

\* No answer within the RPC timeout.
RequestTimesOut(w) ==
  /\ Fault
  /\ cxCall[w].pc \in {"init", "open", "turn", "stop"} /\ cxCall[w].reply = "none"
  /\ cxGen' = [cxGen EXCEPT ![GenOf(w)].pending = @ \ {<<w, cxCall[w].pc>>}]
  /\ cxCall' = [cxCall EXCEPT ![w].reply = "error"]
  /\ UNCHANGED <<cxCurrent, cxClosed, cxStarting, cxWire, cxStream, cxTurn>>

\* Mutant of Left: the last turn does not retire its generation.
LeftWithoutRetiring(w) ==
  LET x == cxGen[GenOf(w)] IN [x EXCEPT !.active = @ \ {w}, !.turns = @ - 1]

\* Mutant of Left: the turn is given back on the error path and at the end.
LeftTwice(w) ==
  LET x == cxGen[GenOf(w)] IN
  Retired([x EXCEPT !.active = @ \ {w}, !.turns = @ - 2], GenOf(w), cxCurrent)

\* The generation of a turn that ended.
Left(w) ==
  LET x == cxGen[GenOf(w)] IN
  Retired([x EXCEPT !.active = @ \ {w}, !.turns = @ - 1], GenOf(w), cxCurrent)

Leave(w) ==
  /\ cxCall[w].pc = "leave"
  /\ cxGen' = [cxGen EXCEPT ![GenOf(w)] = Left(w)]
  /\ cxCall' = [cxCall EXCEPT ![w].pc = "over",
                              ![w].result = IF @ = "none" THEN "failed" ELSE @]
  /\ UNCHANGED <<cxCurrent, cxClosed, cxStarting, cxWire, cxStream, cxTurn, cxFaults>>

\* The author cancels the chat turn: another thread asks the generation that
\* runs it to interrupt it.
AuthorInterrupts(w) ==
  LET g == GenOf(w) IN
  /\ w \in CxCancelled /\ ~cxCall[w].cancelled
  /\ cxCall[w].known /\ w \in cxGen[g].active
  /\ Up(g) /\ ~cxGen[g].closing
  /\ cxCall' = [cxCall EXCEPT ![w].cancelled = TRUE]
  /\ cxGen' = [cxGen EXCEPT ![g].pending = @ \cup {<<w, "cancel">>}]
  /\ cxWire' = [cxWire EXCEPT ![g] = @ \cup {<<w, "cancel">>}]
  /\ UNCHANGED <<cxCurrent, cxClosed, cxStarting, cxStream, cxTurn, cxFaults>>

AuthorGivesUp(w, g) ==
  /\ <<w, "cancel">> \in cxGen[g].pending
  /\ cxGen' = [cxGen EXCEPT ![g].pending = @ \ {<<w, "cancel">>}]
  /\ UNCHANGED <<cxCurrent, cxClosed, cxStarting, cxCall, cxWire, cxStream, cxTurn, cxFaults>>

-----------------------------------------------------------------------------
(* The reader of a generation.                                             *)

\* _fail_pending, as a change of the calls.
FailedCalls(g) ==
  [w \in CxCallers |->
     [cxCall[w] EXCEPT
        !.reply = IF \E m \in Methods \ {"cancel"} : <<w, m>> \in cxGen[g].pending
                  THEN "error" ELSE @,
        !.answer = IF w \in cxGen[g].active THEN [of |-> w, status |-> "failed"] ELSE @]]

\* Mutant of Accepts: a completion counts only once the turn has its id.
AcceptsKnown(w, of) == cxCall[w].known /\ of = w

\* A turn whose id is not known yet takes any completion of its thread.
Accepts(w, of) == ~cxCall[w].known \/ of = w

ReadMessage(g) ==
  /\ cxGen[g].listed \/ cxGen[g].retired
  /\ cxStream[g] # <<>>
  /\ cxStream' = [cxStream EXCEPT ![g] = Tail(@)]
  /\ LET m == Head(cxStream[g]) IN
     \/ /\ m.kind = "reply"
        /\ cxGen' = [cxGen EXCEPT ![g].pending = @ \ {m.req}]
        /\ cxCall' = IF m.req \in cxGen[g].pending /\ m.req[2] # "cancel"
                     THEN [cxCall EXCEPT ![m.req[1]].reply = IF m.ok THEN "ok" ELSE "error"]
                     ELSE cxCall
     \/ /\ m.kind = "completed"
        /\ cxCall' = [w \in CxCallers |->
             IF w \in cxGen[g].active /\ ~cxGen[g].closing
                /\ CxThreadOf[w] = CxThreadOf[m.answer.of] /\ Accepts(w, m.answer.of)
             THEN [cxCall[w] EXCEPT !.answer = m.answer] ELSE cxCall[w]]
        /\ UNCHANGED cxGen
     \/ /\ m.kind = "garbage"
        /\ cxCall' = FailedCalls(g)
        /\ cxGen' = [cxGen EXCEPT ![g].pending = {}]
  /\ UNCHANGED <<cxCurrent, cxClosed, cxStarting, cxWire, cxTurn, cxFaults>>

\* End of the stream: everything that waits for this process is failed.
ReaderEnds(g) ==
  /\ cxGen[g].listed \/ cxGen[g].retired
  /\ cxGen[g].proc = "dead" /\ cxStream[g] = <<>> /\ ~cxGen[g].eof
  /\ cxCurrent' = IF cxCurrent = g THEN CxNone ELSE cxCurrent
  /\ cxCall' = FailedCalls(g)
  /\ cxGen' = [cxGen EXCEPT ![g] =
       Retired([@ EXCEPT !.closing = TRUE, !.eof = TRUE, !.pending = {}], g, CxNone)]
  /\ UNCHANGED <<cxClosed, cxStarting, cxWire, cxStream, cxTurn, cxFaults>>

-----------------------------------------------------------------------------
(* The process: external.                                                  *)

Replied(req, ok) == [kind |-> "reply", req |-> req, ok |-> ok]
Completion(w, s) == [kind |-> "completed", answer |-> [of |-> w, status |-> s]]

\* The replies nothing else on the stream races are read as they come.
ProcessPrepares(g, w, m) ==
  /\ Up(g) /\ m \in {"init", "open"} /\ <<w, m>> \in cxGen[g].pending
  /\ cxGen' = [cxGen EXCEPT ![g].pending = @ \ {<<w, m>>}]
  /\ \E ok \in BOOLEAN :
       /\ cxCall' = [cxCall EXCEPT ![w].reply = IF ok THEN "ok" ELSE "error"]
       /\ IF ok THEN UNCHANGED cxFaults ELSE Fault
  /\ UNCHANGED <<cxCurrent, cxClosed, cxStarting, cxWire, cxStream, cxTurn>>

ProcessStarts(g, w) ==
  /\ Up(g) /\ <<w, "turn">> \in cxWire[g]
  /\ cxWire' = [cxWire EXCEPT ![g] = @ \ {<<w, "turn">>}]
  /\ \E ok \in BOOLEAN :
       /\ cxStream' = [cxStream EXCEPT ![g] = Append(@, Replied(<<w, "turn">>, ok))]
       /\ cxTurn' = [cxTurn EXCEPT ![w] = IF ok THEN "running" ELSE @]
       /\ IF ok THEN UNCHANGED cxFaults ELSE Fault
  /\ UNCHANGED <<cxGen, cxCurrent, cxClosed, cxStarting, cxCall>>

\* An interrupt ends a running turn; its completion may come before or after
\* the reply.
ProcessInterrupts(g, req) ==
  LET w == req[1]
      done == Completion(w, "interrupted") IN
  /\ Up(g) /\ req \in cxWire[g] /\ req[2] # "turn"
  /\ cxWire' = [cxWire EXCEPT ![g] = @ \ {req}]
  /\ \E s \in IF cxTurn[w] = "running"
              THEN {<<Replied(req, TRUE), done>>, <<done, Replied(req, TRUE)>>}
              ELSE {<<Replied(req, TRUE)>>} :
       cxStream' = [cxStream EXCEPT ![g] = @ \o s]
  /\ cxTurn' = [cxTurn EXCEPT ![w] = IF @ = "running" THEN "over" ELSE @]
  /\ UNCHANGED <<cxGen, cxCurrent, cxClosed, cxStarting, cxCall, cxFaults>>

ProcessCompletes(g, w) ==
  /\ Up(g) /\ GenOf(w) = g /\ cxTurn[w] = "running"
  /\ cxStream' = [cxStream EXCEPT ![g] = Append(@, Completion(w, "completed"))]
  /\ cxTurn' = [cxTurn EXCEPT ![w] = "over"]
  /\ UNCHANGED <<cxGen, cxCurrent, cxClosed, cxStarting, cxCall, cxWire, cxFaults>>

ProcessGarbles(g) ==
  /\ Fault
  /\ CxGarbles /\ Up(g) /\ cxStream[g] = <<>>
  /\ cxStream' = [cxStream EXCEPT ![g] = <<[kind |-> "garbage"]>>]
  /\ UNCHANGED <<cxGen, cxCurrent, cxClosed, cxStarting, cxCall, cxWire, cxTurn>>

ProcessDies(g) ==
  /\ Fault
  /\ Up(g)
  /\ cxGen' = [cxGen EXCEPT ![g].proc = "dead"]
  /\ cxWire' = [cxWire EXCEPT ![g] = {}]
  /\ UNCHANGED <<cxCurrent, cxClosed, cxStarting, cxCall, cxStream, cxTurn>>

-----------------------------------------------------------------------------
CallerStep(w) ==
  \/ EnsureStarted(w) \/ Spawn(w) \/ Register(w) \/ Initialised(w) \/ InitFails(w)
  \/ Discarded(w) \/ Reserve(w) \/ Drained(w) \/ Open(w) \/ StartTurn(w) \/ TurnStarted(w)
  \/ TurnEnds(w) \/ Abandon(w) \/ RequestEnds(w) \/ RequestTimesOut(w) \/ Leave(w)

GenerationStep(g) ==
  TearDown(g) \/ ReadMessage(g) \/ ReaderEnds(g)

\* The process answers a request, or the wait for it ends.
Answered ==
  \/ \E g \in CxGens, w \in CxCallers :
       \/ ProcessStarts(g, w) \/ AuthorGivesUp(w, g)
       \/ \E m \in {"init", "open"} : ProcessPrepares(g, w, m)
       \/ \E m \in {"stop", "cancel"} : ProcessInterrupts(g, <<w, m>>)

CxNext ==
  \/ \E w \in CxCallers : CallerStep(w) \/ AuthorInterrupts(w)
  \/ \E g \in CxGens : GenerationStep(g) \/ ParentLoginChanged(g) \/ ProcessGarbles(g)
                       \/ ProcessDies(g)
  \/ \E g \in CxGens, w \in CxCallers : ProcessCompletes(g, w)
  \/ Answered
  \/ Close

CxSpec == CxInit /\ [][CxNext]_cxvars

-----------------------------------------------------------------------------
(* Properties.                                                             *)

\* The client runs at most one process that was not told to stop.
OneProcess == Cardinality({g \in CxGens : Up(g) /\ ~cxGen[g].tearing}) <= 1

\* An open client retires no generation under a turn: between the moment a
\* turn is counted and the moment it leaves, its process is not stopped.
TurnsNotCutShort ==
  \A w \in CxCallers :
    cxCall[w].pc \in {"lock", "leave"} \cup Locked /\ cxGen[GenOf(w)].retired => cxClosed

\* A caller that waits for the end of a generation has somebody to wait for:
\* a turn that will leave it, or its retirement under way.  An interrupt of
\* the author is the exception: when the last turn leaves while the reply to
\* it is outstanding, nobody retires the generation once the reply is there.
DrainEnds ==
  \A w \in CxCallers : cxCall[w].pc = "drain" =>
    LET x == cxGen[GenOf(w)] IN
    \/ x.done \/ x.tearing \/ x.turns > 0
    \/ \E v \in CxCallers : cxCall[v].cancelled /\ GenOf(v) = GenOf(w)

\* A turn the client gave up on without a completion does not go on running
\* in a process that was not even asked to interrupt it.
AbandonedIsStopped ==
  \A w \in CxCallers :
    /\ cxCall[w].pc \in {"leave", "over"} /\ cxCall[w].known /\ cxCall[w].answer = NoAnswer
    /\ cxTurn[w] = "running"
    => \/ <<w, "stop">> \in cxWire[GenOf(w)]
       \/ ~Up(GenOf(w)) \/ cxGen[GenOf(w)].closing

\* A completion that was read before the reply to turn/start was taken is not
\* lost: a turn that waits was not completed by its process, unless the
\* completion is still to be read.
CompletionKept ==
  \A w \in CxCallers : cxCall[w].pc = "wait" /\ cxTurn[w] = "over" /\ cxCall[w].answer = NoAnswer =>
    \/ \E i \in DOMAIN cxStream[GenOf(w)] :
         cxStream[GenOf(w)][i].kind = "completed" /\ cxStream[GenOf(w)][i].answer.of = w
    \/ cxGen[GenOf(w)].closing

\* A closed client leaves no process behind that nobody stops, not even one
\* that was being started while it closed.
CloseStopsAll ==
  cxClosed /\ (\A w \in CxCallers : cxCall[w].pc = "over") =>
    \A g \in CxGens : Up(g) => cxGen[g].tearing

\* Every process of the client is accounted for: one runs at a time, a retired
\* one ends or is waited for by its turns, and a closed client stops them all.
ProcessesAccounted == CxTypeOK /\ OneProcess /\ DrainEnds /\ CloseStopsAll

\* Every turn gets its due: no retirement cuts it short, no completion of it is
\* lost, and when it is given up its process is told.
TurnsServed == TurnsNotCutShort /\ CompletionKept /\ AbandonedIsStopped

\* The client keeps its word to the system and to its callers.
ClientSound == ProcessesAccounted /\ TurnsServed
=============================================================================
