-------------------------- MODULE Providers_proofs --------------------------
(***************************************************************************)
(* The clients of the providers, for any calls, retries, logins and        *)
(* refreshes: calls of the OpenCode program, the login and the package     *)
(* cache they share, and the login of the Codex app-server.                *)
(***************************************************************************)
EXTENDS OpencodeCalls, OpencodeAuth, OpencodeCache, CodexAuth, FiniteSetTheorems,
        SequenceTheorems, TLAPS

(***************************************************************************)
(* One OpenCode call: its attempts and the batch.                          *)
(***************************************************************************)
Event == Lines \cup Ends

\* The types, the queues' included, and an outcome only after the attempt.
OlShape ==
  /\ OlTypeOK
  /\ olQueue \in [OlCalls -> Seq(Event)]
  /\ \A c \in OlCalls :
       olCall[c].pc \in {"check", "spawn", "register", "collect"} => Try(c).outcome = "none"

\* When a call was registered: before the batch read the registry it is in
\* what was read, and then, as after the batch was marked, it is cancelled.
Registered ==
  \A c \in OlCalls :
    /\ olBatch = "no" => olCall[c].reg \in {"none", "no"}
    /\ olBatch = "snapshot" =>
         olCall[c].reg # "set" /\ (olCall[c].reg = "no" => c \in olSnapshot)
    /\ olBatch = "set" /\ olCall[c].reg \in {"no", "set"} => IsCancelled(c)

CallsInv == OlShape /\ TextWins /\ NoChildLeft /\ Registered

\* What a call is.
CallState == [pc : {"check", "spawn", "register", "collect", "decide", "over"},
              n : 0..OlRetries,
              reg : {"none", "no", "snapshot", "set"},
              try : Attempt]

LEMMA CallFacts ==
  ASSUME CallsInv
  PROVE  /\ olCall \in [OlCalls -> CallState]
         /\ olQueue \in [OlCalls -> Seq(Event)]
         /\ olToken \in [OlCalls -> {"batch", "own", "cancelled"}]
         /\ olBatch \in {"no", "snapshot", "set"} /\ olSnapshot \subseteq OlCalls
         /\ \A c \in OlCalls : olCall[c].reg # "none" => olCall[c].pc = "collect"
         /\ OlShape /\ TextWins /\ NoChildLeft /\ Registered
BY DEF CallsInv, OlShape, OlTypeOK, CallState

\* A queue whose elements are events.
LEMMA EventsOnly ==
  ASSUME olQueue \in [OlCalls -> Seq(Event)]
  PROVE  \A c \in OlCalls : \A i \in DOMAIN olQueue[c] : olQueue[c][i] \in Lines \cup Ends
BY DEF Event

\* The invariant from what is said of one call at a time.
OneCall(c) ==
  /\ olCall[c].reg # "none" => olCall[c].pc = "collect"
  /\ olCall[c].pc \in {"check", "spawn", "register", "collect"} => Try(c).outcome = "none"
  /\ "text" \in Try(c).seen /\ Try(c).outcome = "quota" => "quota" \in Try(c).seen
  /\ olCall[c].pc \in {"check", "decide", "over"} => Try(c).child # "runs"
  /\ olBatch = "no" => olCall[c].reg \in {"none", "no"}
  /\ olBatch = "snapshot" =>
       olCall[c].reg # "set" /\ (olCall[c].reg = "no" => c \in olSnapshot)
  /\ olBatch = "set" /\ olCall[c].reg \in {"no", "set"} => IsCancelled(c)

AllCalls ==
  /\ olCall \in [OlCalls -> CallState]
  /\ olQueue \in [OlCalls -> Seq(Event)]
  /\ olToken \in [OlCalls -> {"batch", "own", "cancelled"}]
  /\ olBatch \in {"no", "snapshot", "set"} /\ olSnapshot \subseteq OlCalls
  /\ \A c \in OlCalls : OneCall(c)

LEMMA CallByCall == CallsInv <=> AllCalls
<1>1. olQueue \in [OlCalls -> Seq(Event)] =>
        \A c \in OlCalls : \A i \in DOMAIN olQueue[c] : olQueue[c][i] \in Lines \cup Ends
  BY EventsOnly
<1>2. CallsInv => \A c \in OlCalls : OneCall(c)
  BY DEF CallsInv, OlShape, OlTypeOK, TextWins, NoChildLeft, Registered, OneCall
<1>3. (\A c \in OlCalls : OneCall(c)) => TextWins /\ NoChildLeft /\ Registered
  BY DEF TextWins, NoChildLeft, Registered, OneCall
<1>4. ASSUME olCall \in [OlCalls -> CallState], olQueue \in [OlCalls -> Seq(Event)],
             olToken \in [OlCalls -> {"batch", "own", "cancelled"}],
             olBatch \in {"no", "snapshot", "set"}, olSnapshot \subseteq OlCalls,
             \A c \in OlCalls : OneCall(c)
      PROVE  OlShape
  BY <1>1, <1>4 DEF OlShape, OlTypeOK, CallState, OneCall
<1>5. QED BY <1>2, <1>3, <1>4 DEF CallsInv, OlShape, OlTypeOK, CallState, AllCalls

LEMMA CallByCallNext == CallsInv' <=> AllCalls'
BY CallByCall, PTL

\* A step of one call, seen from the calls.
CallStep(c) ==
  /\ olCall' = [olCall EXCEPT ![c] = olCall'[c]] /\ olCall'[c] \in CallState
  /\ olQueue' = [olQueue EXCEPT ![c] = olQueue'[c]] /\ olQueue'[c] \in Seq(Event)
  /\ olToken' = [olToken EXCEPT ![c] = olToken'[c]]
  /\ olToken'[c] \in {olToken[c], Cancelled(c)}
  /\ olBatch' = olBatch /\ olSnapshot' = olSnapshot
  /\ OneCall(c)'

LEMMA CallStepInv ==
  ASSUME CallsInv, NEW c \in OlCalls, CallStep(c)
  PROVE  CallsInv'
<1>1. /\ olCall' \in [OlCalls -> CallState] /\ olQueue' \in [OlCalls -> Seq(Event)]
      /\ \A d \in OlCalls \ {c} : olCall'[d] = olCall[d] /\ olToken'[d] = olToken[d]
  BY CallFacts DEF CallStep
<1>2. olToken' \in [OlCalls -> {"batch", "own", "cancelled"}]
  BY CallFacts DEF CallStep, Cancelled
<1>3. \A d \in OlCalls \ {c} : OneCall(d)'
  BY <1>1, CallByCall DEF AllCalls, CallStep, OneCall, Try, IsCancelled
<1>4. QED BY <1>1, <1>2, <1>3, CallFacts, CallByCallNext DEF CallStep, AllCalls

\* An attempt that ends is reported and leaves no child.
LEMMA EndedStep ==
  ASSUME CallsInv, NEW c \in OlCalls, NEW x \in Attempt,
         NEW outcome \in {"quota", "down", "cancelled", "ok"}, EndedAs(c, x, outcome),
         outcome = "quota" /\ "text" \in x.seen => "quota" \in x.seen,
         UNCHANGED <<olToken, olBatch, olSnapshot>>
  PROVE  CallStep(c)
<1>1. /\ Stopped(x) \in Attempt /\ Stopped(x).seen = x.seen /\ Stopped(x).child # "runs"
  BY DEF Stopped, Attempt
<1> DEFINE y == [Stopped(x) EXCEPT !.outcome = outcome]
<1>2. y \in Attempt /\ y.seen = x.seen /\ y.child # "runs" /\ y.outcome = outcome
  BY <1>1 DEF Attempt
<1>3. olCall'[c] = [olCall[c] EXCEPT !.pc = "decide", !.reg = "none", !.try = y]
  BY CallFacts DEF EndedAs
<1> HIDE DEF y
<1>4. /\ olCall'[c] \in CallState /\ olCall'[c].pc = "decide" /\ olCall'[c].reg = "none"
      /\ olCall'[c].try = y
  <2>1. olCall[c] \in CallState
    BY CallFacts
  <2>2. QED BY <1>2, <1>3, <2>1 DEF CallState
<1>5. /\ olCall' = [olCall EXCEPT ![c] = olCall'[c]]
      /\ olQueue' = [olQueue EXCEPT ![c] = olQueue'[c]] /\ olQueue'[c] \in Seq(Event)
  <2>1. /\ olQueue' = [olQueue EXCEPT ![c] = <<>>] /\ <<>> \in Seq(Event)
        /\ olQueue \in [OlCalls -> Seq(Event)]
    BY CallFacts DEF EndedAs
  <2>2. olCall' = [olCall EXCEPT ![c] = olCall'[c]]
    BY <1>3, CallFacts DEF EndedAs
  <2>3. QED BY <2>1, <2>2
<1>6. OneCall(c)'
  BY <1>2, <1>4 DEF OneCall, Try
<1>7. QED BY <1>4, <1>5, <1>6, CallFacts DEF CallStep

\* A step that changes only the call c, to y, keeps what is said of it.
LEMMA PlainStep ==
  ASSUME CallsInv, NEW c \in OlCalls, NEW y \in CallState,
         olCall' = [olCall EXCEPT ![c] = y], UNCHANGED <<olToken, olBatch, olSnapshot>>,
         \/ olQueue' = olQueue
         \/ \E e \in Event : olQueue' = [olQueue EXCEPT ![c] = Append(@, e)]
         \/ (olQueue[c] # <<>> /\ olQueue' = [olQueue EXCEPT ![c] = Tail(@)]),
         OneCall(c)'
  PROVE  CallsInv'
<1>1. olCall'[c] = y /\ olCall' = [olCall EXCEPT ![c] = olCall'[c]]
  BY CallFacts
<1>2. /\ olQueue' = [olQueue EXCEPT ![c] = olQueue'[c]] /\ olQueue'[c] \in Seq(Event)
  <2>1. olQueue \in [OlCalls -> Seq(Event)]
    BY CallFacts
  <2>2. CASE olQueue' = olQueue
    BY <2>1, <2>2
  <2>3. ASSUME NEW e \in Event, olQueue' = [olQueue EXCEPT ![c] = Append(@, e)]
        PROVE  /\ olQueue' = [olQueue EXCEPT ![c] = olQueue'[c]] /\ olQueue'[c] \in Seq(Event)
    <3>1. Append(olQueue[c], e) \in Seq(Event)
      BY <2>1, AppendProperties
    <3>2. QED BY <2>1, <2>3, <3>1
  <2>4. CASE olQueue[c] # <<>> /\ olQueue' = [olQueue EXCEPT ![c] = Tail(@)]
    <3>1. Tail(olQueue[c]) \in Seq(Event)
      BY <2>1, <2>4, HeadTailProperties
    <3>2. QED BY <2>1, <2>4, <3>1
  <2>5. QED BY <2>2, <2>3, <2>4
<1>3. CallStep(c)
  BY <1>1, <1>2, CallFacts DEF CallStep
<1>4. QED BY <1>3, CallStepInv

LEMMA OlNextInv == CallsInv /\ [OlNext]_olvars => CallsInv'
<1>1. SUFFICES ASSUME CallsInv, [OlNext]_olvars PROVE CallsInv'
  OBVIOUS
<1>2. CASE UNCHANGED olvars
  BY <1>1, <1>2, CallByCall, CallByCallNext DEF olvars, AllCalls, OneCall, Try, IsCancelled
<1>3. ASSUME NEW c \in OlCalls, OlStep(c) PROVE CallsInv'
  <2>1. /\ olCall[c] \in CallState /\ Try(c) \in Attempt /\ OneCall(c)
        /\ olQueue[c] \in Seq(Event)
    BY <1>1, CallFacts, CallByCall DEF AllCalls, CallState, Try
  <2>2. CASE Check(c)
    <3>1. CASE Ended(c, "cancelled")
      BY <1>1, <2>1, <2>2, <3>1, EndedStep, CallStepInv DEF Check, Ended
    <3>2. CASE olCall' = [olCall EXCEPT ![c].pc = "spawn"] /\ UNCHANGED olQueue
      <4> DEFINE y == [olCall[c] EXCEPT !.pc = "spawn"]
      <4>1. /\ y \in CallState /\ y.pc = "spawn" /\ y.reg = olCall[c].reg
            /\ y.try = olCall[c].try /\ olCall[c].pc = "check" /\ olCall[c].reg = "none"
        BY <1>1, <2>1, <2>2, CallFacts DEF CallState, Check, OlAt
      <4>2. olCall' = [olCall EXCEPT ![c] = y]
        BY <1>1, <3>2, CallFacts
      <4> HIDE DEF y
      <4>3. olCall'[c] = y
        BY <1>1, <4>2, CallFacts
      <4>4. OneCall(c)'
        BY <2>1, <2>2, <4>1, <4>3 DEF Check, OneCall, Try
      <4>5. QED BY <1>1, <2>2, <3>2, <4>1, <4>2, <4>4, PlainStep DEF Check
    <3>3. QED BY <2>2, <3>1, <3>2 DEF Check
  <2>3. CASE SpawnChild(c)
    <3>1. CASE Ended(c, "down")
      BY <1>1, <2>1, <2>3, <3>1, EndedStep, CallStepInv DEF SpawnChild, Ended
    <3>2. CASE /\ olCall' = [olCall EXCEPT ![c].pc = "register", ![c].try.child = "runs"]
               /\ UNCHANGED olQueue
      <4> DEFINE t == [olCall[c].try EXCEPT !.child = "runs"]
      <4> DEFINE y == [olCall[c] EXCEPT !.pc = "register", !.try = t]
      <4>1. t \in Attempt /\ t.outcome = olCall[c].try.outcome /\ t.seen = olCall[c].try.seen
        BY <2>1 DEF Attempt, Try
      <4>2. olCall' = [olCall EXCEPT ![c] = y]
        BY <1>1, <3>2, CallFacts
      <4> HIDE DEF t
      <4>3. y \in CallState /\ y.pc = "register" /\ y.reg = olCall[c].reg /\ y.try = t
        BY <2>1, <4>1 DEF CallState
      <4> HIDE DEF y
      <4>4. OneCall(c)'
        BY <1>1, <2>1, <2>3, <4>1, <4>2, <4>3, CallFacts DEF SpawnChild, OlAt, OneCall, Try
      <4>5. QED BY <1>1, <2>3, <3>2, <4>2, <4>3, <4>4, PlainStep DEF SpawnChild
    <3>3. QED BY <2>3, <3>1, <3>2 DEF SpawnChild
  <2>4. CASE RegisterChild(c)
    <3> DEFINE y == [olCall[c] EXCEPT !.pc = "collect", !.reg = olBatch]
    <3>1. /\ olCall' = [olCall EXCEPT ![c] = y] /\ olQueue' = olQueue
          /\ olToken' = [olToken EXCEPT ![c] = IF Late THEN Cancelled(c) ELSE @]
          /\ olBatch' = olBatch /\ olSnapshot' = olSnapshot /\ olCall[c].pc = "register"
      BY <1>1, <2>4, CallFacts DEF RegisterChild, OlAt
    <3>2. y \in CallState /\ y.pc = "collect" /\ y.reg = olBatch /\ y.try = olCall[c].try
      BY <1>1, <2>1, CallFacts DEF CallState
    <3> HIDE DEF y
    <3>3. olBatch = "set" => IsCancelled(c)'
      BY <1>1, <3>1, CallFacts DEF IsCancelled, Late, Cancelled
    <3>4. olCall'[c] = y
      BY <1>1, <3>1, CallFacts
    <3>5. OneCall(c)'
      BY <1>1, <2>1, <3>1, <3>2, <3>3, <3>4, CallFacts DEF OneCall, Try
    <3>6. CallStep(c)
      BY <1>1, <2>1, <3>1, <3>2, <3>4, <3>5, CallFacts DEF CallStep
    <3>7. QED BY <1>1, <3>6, CallStepInv
  <2>5. CASE CollectEvent(c)
    <3> DEFINE e == Head(olQueue[c])
               x == [Try(c) EXCEPT !.seen = @ \cup {e}, !.deferred = @ \/ Defers(Try(c), e)]
               fails == \/ e = "quota"
                        \/ e = "stdout" /\ Due(x)
                        \/ Defers(Try(c), e) /\ "stdout" \in x.seen
               y == [olCall[c] EXCEPT !.try = x]
    <3>1. e \in Event
      BY <2>1, <2>5 DEF CollectEvent
    <3>2. x \in Attempt /\ x.seen = Try(c).seen \cup {e} /\ x.outcome = Try(c).outcome
      BY <2>1, <3>1 DEF Attempt, Event, Defers
    <3>3. \/ fails /\ EndedAs(c, x, "quota")
          \/ /\ olCall' = [olCall EXCEPT ![c].try = x]
             /\ olQueue' = [olQueue EXCEPT ![c] = Tail(@)]
      BY <2>5 DEF CollectEvent
    <3>4. /\ OlAt(c, "collect") /\ olQueue[c] # <<>>
          /\ UNCHANGED <<olToken, olBatch, olSnapshot>>
      BY <2>5 DEF CollectEvent
    <3>5. fails /\ "text" \in x.seen => "quota" \in x.seen
      BY <3>2 DEF Due, Defers
    <3>6. olCall[c].try = Try(c)
      BY DEF Try
    <3> HIDE DEF x, fails
    <3>7. CASE EndedAs(c, x, "quota") /\ fails
      BY <1>1, <3>2, <3>4, <3>5, <3>7, EndedStep, CallStepInv
    <3>8. CASE /\ olCall' = [olCall EXCEPT ![c].try = x]
               /\ olQueue' = [olQueue EXCEPT ![c] = Tail(@)]
      <4>1. olCall' = [olCall EXCEPT ![c] = y]
        BY <1>1, <3>8, CallFacts
      <4>2. y \in CallState /\ y.pc = olCall[c].pc /\ y.reg = olCall[c].reg /\ y.try = x
        BY <2>1, <3>2 DEF CallState
      <4> HIDE DEF y
      <4>3. olCall'[c] = y
        BY <1>1, <4>1, CallFacts
      <4>4. Try(c).outcome = "none"
        BY <2>1, <3>4 DEF OneCall, OlAt
      <4>5. OneCall(c)'
        BY <2>1, <3>2, <3>4, <4>2, <4>3, <4>4 DEF OneCall, OlAt, Try, IsCancelled
      <4>6. UNCHANGED <<olToken, olBatch, olSnapshot>>
        BY <3>4
      <4>7. QED BY <1>1, <3>4, <3>8, <4>1, <4>2, <4>5, <4>6, PlainStep
    <3>9. QED BY <3>3, <3>7, <3>8
  <2>6. CASE GraceOver(c) \/ DeadlineOver(c) \/ StopCollecting(c) \/ OutputComplete(c)
    <3>1. PICK outcome \in {"quota", "down", "cancelled", "ok"} :
            /\ EndedAs(c, Try(c), outcome)
            /\ outcome = "quota" /\ "text" \in Try(c).seen => "quota" \in Try(c).seen
      BY <2>6 DEF GraceOver, DeadlineOver, StopCollecting, OutputComplete, Ended, Due, Classified
    <3>2. UNCHANGED <<olToken, olBatch, olSnapshot>>
      BY <2>6 DEF GraceOver, DeadlineOver, StopCollecting, OutputComplete
    <3>3. QED BY <1>1, <2>1, <3>1, <3>2, EndedStep, CallStepInv
  <2>7. CASE Decide(c)
    <3>1. /\ OlAt(c, "decide") /\ UNCHANGED <<olQueue, olToken, olBatch, olSnapshot>>
      BY <2>7 DEF Decide
    <3>2. CASE Retries(c) /\ olCall' = [olCall EXCEPT ![c] = [pc |-> "check", n |-> @.n + 1,
                                          reg |-> "none", try |-> NoAttempt]]
      <4> DEFINE y == [pc |-> "check", n |-> olCall[c].n + 1, reg |-> "none", try |-> NoAttempt]
      <4>1. olCall[c].n \in 0..OlRetries /\ olCall[c].n < OlRetries
        BY <2>1, <3>2 DEF CallState, Retries
      <4>2. NoAttempt \in Attempt
        BY OpencodeCallsAssumption DEF NoAttempt, Attempt
      <4>3. y \in CallState
        BY <4>1, <4>2, OpencodeCallsAssumption DEF CallState
      <4>4. OneCall(c)'
        BY <1>1, <2>1, <3>1, <3>2, CallFacts DEF OneCall, Try, NoAttempt
      <4>5. QED BY <1>1, <3>1, <3>2, <4>3, <4>4, PlainStep
    <3>3. CASE olCall' = [olCall EXCEPT ![c].pc = "over",
                            ![c].try.outcome = IF IsCancelled(c) THEN "cancelled" ELSE @]
      <4> DEFINE t == [olCall[c].try EXCEPT !.outcome = IF IsCancelled(c) THEN "cancelled" ELSE @]
                 y == [olCall[c] EXCEPT !.pc = "over", !.try = t]
      <4>1. /\ t \in Attempt /\ t.seen = Try(c).seen /\ t.child = Try(c).child
            /\ t.outcome = "quota" => Try(c).outcome = "quota"
        BY <2>1 DEF Attempt, Try
      <4>2. olCall' = [olCall EXCEPT ![c] = y]
        BY <1>1, <3>3, CallFacts
      <4> HIDE DEF t
      <4>3. y \in CallState /\ y.pc = "over" /\ y.reg = olCall[c].reg /\ y.try = t
        BY <2>1, <4>1 DEF CallState
      <4> HIDE DEF y
      <4>4. olCall'[c] = y
        BY <1>1, <4>2, CallFacts
      <4>5. OneCall(c)'
        BY <2>1, <3>1, <4>1, <4>3, <4>4 DEF OneCall, OlAt, Try, IsCancelled
      <4>6. QED BY <1>1, <3>1, <4>2, <4>3, <4>5, PlainStep
    <3>4. QED BY <2>7, <3>2, <3>3 DEF Decide
  <2>8. QED BY <1>3, <2>2, <2>3, <2>4, <2>5, <2>6, <2>7 DEF OlStep
<1>4. ASSUME NEW c \in OlCalls, OperationCancelled(c) PROVE CallsInv'
  <2>1. olToken' = [olToken EXCEPT ![c] = "cancelled"] /\ olToken[c] = "own"
    BY <1>4 DEF OperationCancelled
  <2>2. UNCHANGED <<olCall, olQueue, olBatch, olSnapshot>>
    BY <1>4 DEF OperationCancelled
  <2>3. OneCall(c)'
    BY <1>1, <2>1, <2>2, CallFacts, CallByCall DEF AllCalls, OneCall, Try, IsCancelled
  <2>4. CallStep(c)
    BY <1>1, <2>1, <2>2, <2>3, CallFacts DEF CallStep, Cancelled
  <2>5. QED BY <1>1, <2>4, CallStepInv
<1>5. ASSUME NEW c \in OlCalls,
             Exits(c) \/ (\E line \in Lines : Writes(c, line)) \/ \E s \in Ends : StreamEnds(c, s)
      PROVE  CallsInv'
  <2>1. olCall[c] \in CallState /\ olCall[c].try \in Attempt /\ OneCall(c)
    BY <1>1, CallFacts, CallByCall DEF AllCalls, CallState
  <2>2. PICK t \in Attempt :
          /\ olCall' = [olCall EXCEPT ![c].try = t]
          /\ t.seen = olCall[c].try.seen /\ t.outcome = olCall[c].try.outcome
    <3>1. CASE Exits(c)
      <4> DEFINE t == [olCall[c].try EXCEPT !.child = "ended"]
      <4>1. t \in Attempt /\ t.seen = olCall[c].try.seen /\ t.outcome = olCall[c].try.outcome
        BY <2>1 DEF Attempt
      <4>2. olCall' = [olCall EXCEPT ![c].try = t]
        BY <1>1, <3>1, CallFacts DEF Exits
      <4>3. QED BY <4>1, <4>2
    <3>2. CASE \E line \in Lines : Writes(c, line)
      <4> DEFINE t == [olCall[c].try EXCEPT !.wrote = @ + 1]
      <4>1. olCall[c].try.wrote < OlMaxLines /\ olCall[c].try.wrote \in 0..OlMaxLines
        BY <2>1, <3>2 DEF Writes, Try, Attempt
      <4>2. t \in Attempt /\ t.seen = olCall[c].try.seen /\ t.outcome = olCall[c].try.outcome
        BY <2>1, <4>1, OpencodeCallsAssumption DEF Attempt
      <4>3. olCall' = [olCall EXCEPT ![c].try = t]
        BY <1>1, <3>2, CallFacts DEF Writes
      <4>4. QED BY <4>2, <4>3
    <3>3. CASE \E s \in Ends : StreamEnds(c, s)
      <4>1. PICK s \in Ends : StreamEnds(c, s)
        BY <3>3
      <4> DEFINE t == [olCall[c].try EXCEPT !.closed = @ \cup {s}]
      <4>2. t \in Attempt /\ t.seen = olCall[c].try.seen /\ t.outcome = olCall[c].try.outcome
        BY <2>1 DEF Attempt
      <4>3. olCall' = [olCall EXCEPT ![c].try = t]
        BY <1>1, <4>1, CallFacts DEF StreamEnds
      <4>4. QED BY <4>2, <4>3
    <3>4. QED BY <1>5, <3>1, <3>2, <3>3
  <2>3. /\ OlAt(c, "collect") /\ UNCHANGED <<olToken, olBatch, olSnapshot>>
        /\ \/ olQueue' = olQueue
           \/ \E e \in Event : olQueue' = [olQueue EXCEPT ![c] = Append(@, e)]
    BY <1>5 DEF Exits, Writes, StreamEnds, Event
  <2> DEFINE y == [olCall[c] EXCEPT !.try = t]
  <2>4. /\ y \in CallState /\ y.pc = olCall[c].pc /\ y.reg = olCall[c].reg /\ y.try = t
        /\ olCall' = [olCall EXCEPT ![c] = y]
    BY <1>1, <2>1, <2>2, CallFacts DEF CallState
  <2> HIDE DEF y
  <2>5. olCall'[c] = y
    BY <1>1, <2>4, CallFacts
  <2>6. OneCall(c)'
    BY <2>1, <2>2, <2>3, <2>4, <2>5 DEF OneCall, OlAt, Try, IsCancelled
  <2>7. QED BY <1>1, <2>3, <2>4, <2>6, PlainStep
<1>6. CASE BatchNotes
  <2>1. \A c \in OlCalls : OneCall(c)'
    BY <1>1, <1>6, CallByCall, CallFacts DEF AllCalls, BatchNotes, OneCall, Try
  <2>2. QED BY <1>1, <1>6, <2>1, CallByCallNext, CallFacts DEF BatchNotes, AllCalls
<1>7. CASE BatchCancels
  <2>1. /\ olBatch = "snapshot" /\ olBatch' = "set" /\ UNCHANGED <<olQueue, olSnapshot>>
        /\ \A c \in OlCalls :
             olToken'[c] = IF c \in olSnapshot THEN Cancelled(c) ELSE olToken[c]
        /\ olToken' \in [OlCalls -> {"batch", "own", "cancelled"}]
    BY <1>1, <1>7, CallFacts DEF BatchCancels, Cancelled
  <2>2. ASSUME NEW c \in OlCalls
        PROVE  /\ olCall'[c] \in CallState /\ olCall'[c].pc = olCall[c].pc
               /\ olCall'[c].reg = olCall[c].reg
               /\ olCall'[c].try.seen = olCall[c].try.seen
               /\ olCall'[c].try.outcome = olCall[c].try.outcome
               /\ olCall'[c].try.child \in {olCall[c].try.child, "ended"}
    <3> DEFINE t == Stopped(olCall[c].try)
    <3>1. /\ t \in Attempt /\ t.seen = olCall[c].try.seen /\ t.outcome = olCall[c].try.outcome
          /\ t.child \in {olCall[c].try.child, "ended"}
      <4>1. olCall[c].try \in Attempt
        BY <1>1, CallFacts DEF CallState
      <4>2. QED BY <4>1 DEF Attempt, Stopped
    <3> HIDE DEF t
    <3>2. [olCall[c] EXCEPT !.try = t] \in CallState
      BY <1>1, <3>1, CallFacts DEF CallState
    <3>3. olCall'[c] = [olCall[c] EXCEPT !.try = t] \/ olCall'[c] = olCall[c]
      BY <1>7 DEF BatchCancels, t
    <3>4. QED BY <1>1, <3>1, <3>2, <3>3, CallFacts DEF CallState
  <2>3. olCall' \in [OlCalls -> CallState]
    BY <1>7, <2>2 DEF BatchCancels
  <2>4. ASSUME NEW c \in OlCalls PROVE OneCall(c)'
    <3>1. OneCall(c) /\ olToken[c] \in {"batch", "own", "cancelled"}
      BY <1>1, CallByCall DEF AllCalls
    <3>2. c \in olSnapshot => IsCancelled(c)'
      BY <2>1, <3>1 DEF Cancelled, IsCancelled
    <3>3. QED BY <2>1, <2>2, <3>1, <3>2 DEF OneCall, Try
  <2>5. QED BY <1>1, <2>1, <2>3, <2>4, CallByCallNext, CallFacts DEF AllCalls
<1>8. QED BY <1>1, <1>2, <1>3, <1>4, <1>5, <1>6, <1>7 DEF OlNext

LEMMA OlInitInv == OlInit => CallsInv
<1>1. SUFFICES ASSUME OlInit PROVE CallsInv
  OBVIOUS
<1>2. NoAttempt \in Attempt
  BY OpencodeCallsAssumption DEF NoAttempt, Attempt
<1>3. olCall \in [OlCalls -> CallState]
  BY <1>1, <1>2, OpencodeCallsAssumption DEF OlInit, CallState
<1>4. olQueue \in [OlCalls -> Seq(Event)]
  BY <1>1 DEF OlInit
<1>5. \A c \in OlCalls : OneCall(c)
  BY <1>1 DEF OlInit, OneCall, Try, NoAttempt
<1>6. QED BY <1>1, <1>3, <1>4, <1>5, CallByCall DEF OlInit, AllCalls

\* However a call of the OpenCode program ends, it is reported as what it was
\* and leaves no child, and the end of a batch reaches every registered one.
THEOREM CallsEnd == OlSpec => []CallsEndCleanly
<1>1. ASSUME CallsInv PROVE CallsEndCleanly
  BY <1>1, CallFacts DEF CallsEndCleanly, OlShape, Registered, BatchReachesAll
<1>2. QED BY <1>1, OlInitInv, OlNextInv, PTL DEF OlSpec

(***************************************************************************)
(* The OpenCode login: the calls and the one token that works.             *)
(***************************************************************************)
\* The last token of the owner's login.
LastToken == [login |-> oaSource.login, n |-> oaLatest[oaSource.login]]

Known(e) == e = OaNone \/ (e.login <= oaLogin /\ e.n <= oaLatest[e.login])

\* A call that runs and has not lost to the owner.
Writing(c) == oaCall[c].pc \in {"run", "final"} /\ ~oaCall[c].won

LoginCall == [pc : {"read", "lease", "copy", "run", "final", "over"},
              base : Entries, target : Entries, last : Entries,
              lease : BOOLEAN, won : BOOLEAN]

OaShape ==
  /\ oaSource \in Entries
  /\ oaLatest \in [0..OaMaxLogins -> 0..OaMaxRefreshes]
  /\ oaDue \subseteq Entries \ {OaNone}
  /\ oaCall \in [OaCalls -> LoginCall]
  /\ oaLogin \in 0..OaMaxLogins
  /\ \A c, d \in OaCalls : oaCall[c].lease /\ oaCall[d].lease => c = d

\* No token is newer than the last one of its login, and no login than the
\* owner's last one, which is the one in the file.
Issued ==
  /\ \A l \in 0..OaMaxLogins : l > oaLogin => oaLatest[l] = 0
  /\ oaSource # OaNone => oaSource.login = oaLogin
  /\ Known(oaSource)
  /\ \A c \in OaCalls : Known(oaCall[c].base) /\ Known(oaCall[c].target)

\* What a call holds at each step.
CallFits ==
  \A c \in OaCalls :
    /\ oaCall[c].pc \in {"read", "lease", "copy"} => oaCall[c].target = OaNone /\ ~oaCall[c].won
    /\ oaCall[c].pc \in {"read", "lease"} => ~oaCall[c].lease
    /\ oaCall[c].pc = "copy" => oaCall[c].base # OaNone
    /\ Writing(c) =>
         /\ oaCall[c].base # OaNone /\ oaCall[c].target # OaNone
         /\ oaCall[c].target.login = oaCall[c].base.login
         /\ oaCall[c].target.n >= oaCall[c].base.n

\* No call started from a newer token than the owner's.
BaseBehind ==
  \A c \in OaCalls :
    LET b == oaCall[c].base IN
    b # OaNone /\ oaSource # OaNone /\ b.login = oaSource.login => b.n <= oaSource.n

\* A call that may write back refreshed the owner's token last, or not at all.
WritesLast ==
  \A c \in OaCalls :
    oaSource # OaNone /\ Writing(c) =>
      /\ oaCall[c].base = oaSource => oaCall[c].target \in {oaSource, LastToken}
      /\ oaCall[c].target = LastToken => oaCall[c].base = oaSource

\* Until the owner's file has the last token, one call has it.
OneHolder ==
  \A c, d \in OaCalls :
    oaSource # OaNone /\ oaCall[c].target = LastToken /\ oaCall[d].target = LastToken =>
      c = d \/ oaSource = LastToken

\* The last token is in the owner's file, or in a copy that is written back, or
\* in the copy of a call that lost to this login.
Kept ==
  oaSource # OaNone =>
    \/ oaSource = LastToken
    \/ \E c \in OaCalls :
         Writing(c) /\ oaCall[c].target = LastToken /\ oaCall[c].base = oaSource
    \/ \E c \in OaCalls : oaCall[c].won /\ oaCall[c].target = LastToken

AuthInv == OaShape /\ Issued /\ CallFits /\ BaseBehind /\ WritesLast /\ OneHolder /\ Kept


LEMMA AuthFacts ==
  ASSUME AuthInv
  PROVE  /\ OaMaxLogins \in Nat /\ OaMaxRefreshes \in Nat /\ OaNone \notin Tokens
         /\ oaSource \in Entries /\ oaLatest \in [0..OaMaxLogins -> 0..OaMaxRefreshes]
         /\ oaDue \subseteq Entries \ {OaNone} /\ oaLogin \in 0..OaMaxLogins
         /\ oaCall \in [OaCalls -> LoginCall]
         /\ \A c, d \in OaCalls : oaCall[c].lease /\ oaCall[d].lease => c = d
         /\ Issued /\ CallFits /\ BaseBehind /\ WritesLast /\ OneHolder /\ Kept
BY OpencodeAuthAssumption DEF AuthInv, OaShape

LEMMA TokenFacts ==
  ASSUME NEW e \in Entries, e # OaNone
  PROVE  e \in Tokens /\ e.login \in 0..OaMaxLogins /\ e.n \in 0..OaMaxRefreshes
         /\ e = [login |-> e.login, n |-> e.n]
BY DEF Entries, Tokens

\* What the invariant says of one call and the owner's file.
LEMMA OneCallFacts ==
  ASSUME AuthInv, NEW c \in OaCalls
  PROVE  /\ oaCall[c] \in LoginCall
         /\ oaCall[c].pc \in {"read", "lease", "copy", "run", "final", "over"}
         /\ oaCall[c].base \in Entries /\ oaCall[c].target \in Entries
         /\ oaCall[c].last \in Entries /\ oaCall[c].lease \in BOOLEAN
         /\ oaCall[c].won \in BOOLEAN
         /\ oaCall[c].base # OaNone => oaCall[c].base \in Tokens
         /\ oaCall[c].target # OaNone => oaCall[c].target \in Tokens
         /\ oaSource # OaNone => oaSource \in Tokens
BY AuthFacts DEF LoginCall, Entries

\* Only call c changes, and what it holds fits.
OnlyCall(c) ==
  /\ oaCall' = [oaCall EXCEPT ![c] = oaCall'[c]] /\ oaCall'[c] \in LoginCall
  /\ UNCHANGED <<oaLatest, oaLogin, oaDue>>

LEMMA OnlyCallShape ==
  ASSUME AuthInv, NEW c \in OaCalls, OnlyCall(c), oaSource' \in Entries,
         oaCall'[c].lease => oaCall[c].lease \/ LeaseFree
  PROVE  /\ OaShape'
         /\ \A d \in OaCalls \ {c} : oaCall'[d] = oaCall[d]
<1>1. \A d \in OaCalls \ {c} : oaCall'[d] = oaCall[d]
  BY AuthFacts DEF OnlyCall
<1>2. oaCall' \in [OaCalls -> LoginCall]
  BY AuthFacts DEF OnlyCall
<1>3. \A d, e \in OaCalls : oaCall'[d].lease /\ oaCall'[e].lease => d = e
  BY <1>1, AuthFacts DEF LeaseFree
<1>4. QED BY <1>1, <1>2, <1>3, AuthFacts DEF OaShape, OnlyCall

-----------------------------------------------------------------------------
(* A call gets ready: it reads the owner's entry and copies it.             *)

\* The entry is read, again after the wait for the lease.
LEMMA ReadInv ==
  ASSUME AuthInv, NEW c \in OaCalls, ReadSource(c) \/ TakeLease(c)
  PROVE  AuthInv'
<1>1. /\ oaCall[c].pc \in {"read", "lease"} /\ oaSource' = oaSource
      /\ oaCall[c].target = OaNone /\ ~oaCall[c].won
  BY AuthFacts DEF ReadSource, TakeLease, CallFits
<1>2. /\ OnlyCall(c)
      /\ oaCall'[c].pc \in {"lease", "copy", "over"}
      /\ oaCall'[c].base = oaSource /\ oaCall'[c].target = OaNone /\ ~oaCall'[c].won
      /\ oaCall'[c].pc = "copy" => oaSource # OaNone
      /\ oaCall'[c].lease => LeaseFree /\ oaCall'[c].pc # "lease"
  <2>1. CASE ReadSource(c) /\ oaSource \notin oaDue
    <3>1. oaCall' = [oaCall EXCEPT ![c] = [@ EXCEPT
             !.pc = IF oaSource = OaNone THEN "over" ELSE "copy",
             !.base = oaSource, !.lease = FALSE]]
      BY <2>1 DEF ReadSource, Started
    <3>2. oaCall'[c] = [oaCall[c] EXCEPT !.pc = IF oaSource = OaNone THEN "over" ELSE "copy",
             !.base = oaSource, !.lease = FALSE]
      BY <3>1, AuthFacts
    <3>3. oaCall' = [oaCall EXCEPT ![c] = oaCall'[c]]
      BY <3>1, <3>2, AuthFacts
    <3>4. QED BY <1>1, <2>1, <3>2, <3>3, OneCallFacts, AuthFacts DEF ReadSource, OnlyCall, LoginCall
  <2>2. CASE ReadSource(c) /\ oaSource \in oaDue
    <3>1. oaCall'[c] = [oaCall[c] EXCEPT !.pc = "lease", !.base = oaSource]
          /\ oaCall' = [oaCall EXCEPT ![c] = oaCall'[c]]
      BY <2>2, AuthFacts DEF ReadSource, Started
    <3>2. ~oaCall[c].lease
      BY <1>1, AuthFacts DEF CallFits
    <3>3. QED BY <1>1, <2>2, <3>1, <3>2, OneCallFacts, AuthFacts DEF ReadSource, OnlyCall, LoginCall
  <2>3. CASE TakeLease(c)
    <3> DEFINE free == oaSource \in oaDue /\ oaSource # OaNone
    <3>1. oaCall' = [oaCall EXCEPT ![c] = [@ EXCEPT
             !.pc = IF oaSource = OaNone THEN "over" ELSE "copy",
             !.base = oaSource, !.lease = free]]
      BY <2>3 DEF TakeLease, Started, AfterWaiting
    <3>2. free \in BOOLEAN /\ LeaseFree
      BY <2>3 DEF TakeLease
    <3> HIDE DEF free
    <3>3. oaCall'[c] = [oaCall[c] EXCEPT !.pc = IF oaSource = OaNone THEN "over" ELSE "copy",
             !.base = oaSource, !.lease = free]
      BY <3>1, AuthFacts
    <3>4. oaCall' = [oaCall EXCEPT ![c] = oaCall'[c]]
      BY <3>1, <3>3, AuthFacts
    <3>5. oaCall'[c] = [oaCall[c] EXCEPT !.pc = IF oaSource = OaNone THEN "over" ELSE "copy",
             !.base = oaSource, !.lease = TRUE]
          \/ oaCall'[c] = [oaCall[c] EXCEPT !.pc = IF oaSource = OaNone THEN "over" ELSE "copy",
             !.base = oaSource, !.lease = FALSE]
      BY <3>2, <3>3
    <3>6. /\ oaCall'[c] \in LoginCall /\ oaCall'[c].pc \in {"copy", "over"}
          /\ oaCall'[c].pc = "copy" => oaSource # OaNone
          /\ oaCall'[c].base = oaSource /\ oaCall'[c].target = oaCall[c].target
          /\ oaCall'[c].won = oaCall[c].won
      BY <3>5, OneCallFacts, AuthFacts DEF LoginCall
    <3>7. QED BY <1>1, <2>3, <3>2, <3>4, <3>6 DEF TakeLease, OnlyCall
  <2>4. QED BY <2>1, <2>2, <2>3
<1>3. OaShape' /\ \A d \in OaCalls \ {c} : oaCall'[d] = oaCall[d]
  BY <1>1, <1>2, OnlyCallShape, AuthFacts
<1>4. /\ LastToken' = LastToken /\ ~Writing(c) /\ ~Writing(c)'
      /\ \A d \in OaCalls \ {c} : Writing(d)' <=> Writing(d)
      /\ oaLatest' = oaLatest /\ oaLogin' = oaLogin
  BY <1>1, <1>2, <1>3 DEF LastToken, Writing, OnlyCall
<1>5. oaSource # OaNone => LastToken # OaNone
  <2>1. ASSUME oaSource # OaNone PROVE LastToken \in Tokens
    BY <2>1, AuthFacts, TokenFacts DEF LastToken, Tokens
  <2>2. QED BY <2>1, AuthFacts
<1>6. Issued'
  BY <1>1, <1>2, <1>3, <1>4, AuthFacts DEF Issued, Known
<1>7. CallFits'
  BY <1>1, <1>2, <1>3, <1>4, AuthFacts DEF CallFits
<1>8. BaseBehind'
  BY <1>1, <1>2, <1>3, AuthFacts, TokenFacts DEF BaseBehind
<1>9. WritesLast' /\ OneHolder'
  BY <1>1, <1>2, <1>3, <1>4, <1>5, AuthFacts DEF WritesLast, OneHolder
<1>10. Kept'
  BY <1>1, <1>3, <1>4, AuthFacts DEF Kept
<1>11. QED BY <1>3, <1>6, <1>7, <1>8, <1>9, <1>10 DEF AuthInv

\* The last token of the owner's login is a token.
LEMMA LastIsToken ==
  ASSUME AuthInv, oaSource # OaNone
  PROVE  LastToken \in Tokens /\ LastToken # OaNone /\ oaSource.n <= LastToken.n
         /\ LastToken.login = oaSource.login
<1>1. oaSource \in Tokens
  BY AuthFacts, TokenFacts
<1>2. LastToken \in Tokens
  BY <1>1, AuthFacts DEF LastToken, Tokens
<1>3. QED BY <1>2, AuthFacts DEF Issued, Known, LastToken

\* The entry is copied into the private directory.
LEMMA CopyInv ==
  ASSUME AuthInv, NEW c \in OaCalls, CopyEntry(c)
  PROVE  AuthInv'
<1>1. /\ oaCall[c].pc = "copy" /\ oaSource' = oaSource
      /\ oaCall[c].base # OaNone /\ ~oaCall[c].won /\ oaCall[c].target = OaNone
  BY AuthFacts DEF CopyEntry, CallFits
<1>2. /\ OnlyCall(c) /\ oaCall'[c].pc = "run"
      /\ oaCall'[c].base = oaCall[c].base /\ oaCall'[c].target = oaCall[c].base
      /\ ~oaCall'[c].won /\ oaCall'[c].lease = oaCall[c].lease
  <2>1. oaCall'[c] = [oaCall[c] EXCEPT !.pc = "run", !.target = oaCall[c].base,
                                       !.last = oaCall[c].base]
        /\ oaCall' = [oaCall EXCEPT ![c] = oaCall'[c]]
    BY AuthFacts DEF CopyEntry
  <2>2. QED BY <1>1, <2>1, OneCallFacts, AuthFacts DEF CopyEntry, OnlyCall, LoginCall
<1>3. OaShape' /\ \A d \in OaCalls \ {c} : oaCall'[d] = oaCall[d]
  BY <1>1, <1>2, OnlyCallShape, AuthFacts
<1>4. /\ LastToken' = LastToken /\ ~Writing(c)
      /\ \A d \in OaCalls \ {c} : Writing(d)' <=> Writing(d)
      /\ oaLatest' = oaLatest /\ oaLogin' = oaLogin
  BY <1>1, <1>2, <1>3 DEF LastToken, Writing, OnlyCall
<1>5. oaSource # OaNone /\ oaCall[c].base = LastToken => oaSource = LastToken
  <2>1. SUFFICES ASSUME oaSource # OaNone, oaCall[c].base = LastToken PROVE oaSource = LastToken
    OBVIOUS
  <2>2. oaSource \in Tokens /\ LastToken \in Tokens /\ LastToken.login = oaSource.login
        /\ oaSource.n <= LastToken.n
    BY <2>1, LastIsToken, AuthFacts, TokenFacts
  <2>3. LastToken.n <= oaSource.n
    BY <1>1, <2>1, <2>2, AuthFacts DEF BaseBehind
  <2>4. LastToken.n = oaSource.n
    BY <2>2, <2>3 DEF Tokens
  <2>5. QED BY <2>2, <2>4, TokenFacts, AuthFacts DEF Entries
<1>6. Issued'
  BY <1>1, <1>2, <1>3, <1>4, AuthFacts DEF Issued, Known
<1>7. CallFits'
  <2>1. oaCall[c].base.n \in Nat
    BY <1>1, OneCallFacts DEF Tokens
  <2>2. QED BY <1>1, <1>2, <1>3, <1>4, <2>1, AuthFacts DEF CallFits
<1>8. BaseBehind'
  BY <1>1, <1>2, <1>3, AuthFacts DEF BaseBehind
<1>9. WritesLast' /\ OneHolder'
  BY <1>1, <1>2, <1>3, <1>4, <1>5, AuthFacts DEF WritesLast, OneHolder
<1>10. Kept'
  BY <1>1, <1>3, <1>4, AuthFacts DEF Kept
<1>11. QED BY <1>3, <1>6, <1>7, <1>8, <1>9, <1>10 DEF AuthInv

\* A call whose child ended still writes back.
LEMMA CallEndsInv ==
  ASSUME AuthInv, NEW c \in OaCalls, CallEnds(c)
  PROVE  AuthInv'
<1>1. /\ OnlyCall(c) /\ oaCall[c].pc = "run" /\ oaCall'[c].pc = "final" /\ oaSource' = oaSource
      /\ oaCall'[c].base = oaCall[c].base /\ oaCall'[c].target = oaCall[c].target
      /\ oaCall'[c].won = oaCall[c].won /\ oaCall'[c].lease = oaCall[c].lease
  <2>1. oaCall'[c] = [oaCall[c] EXCEPT !.pc = "final"]
        /\ oaCall' = [oaCall EXCEPT ![c] = oaCall'[c]]
    BY AuthFacts DEF CallEnds
  <2>2. QED BY <2>1, OneCallFacts, AuthFacts DEF CallEnds, OnlyCall, LoginCall
<1>2. OaShape' /\ \A d \in OaCalls \ {c} : oaCall'[d] = oaCall[d]
  BY <1>1, OnlyCallShape, AuthFacts
<1>3. /\ LastToken' = LastToken /\ oaLatest' = oaLatest /\ oaLogin' = oaLogin
      /\ \A d \in OaCalls : /\ Writing(d)' <=> Writing(d)
                            /\ oaCall'[d].base = oaCall[d].base
                            /\ oaCall'[d].target = oaCall[d].target
                            /\ oaCall'[d].won = oaCall[d].won
  BY <1>1, <1>2 DEF LastToken, Writing, OnlyCall
<1>4. Issued' /\ BaseBehind'
  BY <1>1, <1>3, AuthFacts DEF Issued, Known, BaseBehind
<1>5. CallFits'
  BY <1>1, <1>2, <1>3, AuthFacts DEF CallFits
<1>6. WritesLast' /\ OneHolder' /\ Kept'
  BY <1>1, <1>3, AuthFacts DEF WritesLast, OneHolder, Kept
<1>7. QED BY <1>2, <1>4, <1>5, <1>6 DEF AuthInv

-----------------------------------------------------------------------------
(* A refresh is written back.                                               *)

\* What the watcher and the last write do with call c.
WritesBack(c) ==
  /\ OnlyCall(c) /\ oaCall[c].pc \in {"run", "final"}
  /\ oaCall'[c].pc \in {oaCall[c].pc, "over"} /\ ~oaCall'[c].lease
  /\ \/ \* it lost to the owner before
        /\ oaCall[c].won \/ oaCall[c].target = OaNone
        /\ oaSource' = oaSource
        /\ oaCall'[c].base = oaCall[c].base /\ oaCall'[c].target = oaCall[c].target
        /\ oaCall'[c].won = oaCall[c].won
     \/ \* it loses now
        /\ Writing(c) /\ oaSource # oaCall[c].base
        /\ oaSource' = oaSource
        /\ oaCall'[c].base = oaSource /\ oaCall'[c].target = oaSource
        /\ oaCall'[c].won
     \/ \* the owner's file gets its token
        /\ Writing(c) /\ oaSource = oaCall[c].base
        /\ oaSource' = oaCall[c].target
        /\ oaCall'[c].base = oaCall[c].target /\ oaCall'[c].target = oaCall[c].target
        /\ ~oaCall'[c].won

LEMMA WriteSteps ==
  ASSUME AuthInv, NEW c \in OaCalls, Watch(c) \/ WriteLast(c)
  PROVE  WritesBack(c)
<1> DEFINE x == oaCall[c]
           w == WrittenBack(x)
<1>1. /\ x \in LoginCall /\ x.pc \in {"run", "final"} /\ oaSource \in Entries
      /\ oaSource' = w.source
      /\ UNCHANGED <<oaLatest, oaDue, oaLogin>>
  BY OneCallFacts, AuthFacts DEF Watch, WriteLast, LastWrite
<1>2. \/ /\ oaCall' = [oaCall EXCEPT ![c] = [w.call EXCEPT !.last = x.target, !.lease = FALSE]]
         /\ oaCall'[c] = [w.call EXCEPT !.last = x.target, !.lease = FALSE]
      \/ /\ oaCall' = [oaCall EXCEPT ![c] = [w.call EXCEPT !.pc = "over", !.lease = FALSE]]
         /\ oaCall'[c] = [w.call EXCEPT !.pc = "over", !.lease = FALSE]
  BY AuthFacts DEF Watch, WriteLast, LastWrite
<1>3. oaCall' = [oaCall EXCEPT ![c] = oaCall'[c]]
  BY <1>2, AuthFacts
<1>4. CASE x.won \/ x.target = OaNone
  <2>1. w = [source |-> oaSource, call |-> x]
    BY <1>4 DEF WrittenBack
  <2>2. w.call = x /\ oaSource' = oaSource
    BY <1>1, <2>1
  <2> HIDE DEF w
  <2>3. /\ oaCall'[c] \in LoginCall /\ oaCall'[c].pc \in {x.pc, "over"} /\ ~oaCall'[c].lease
        /\ oaCall'[c].base = x.base /\ oaCall'[c].target = x.target /\ oaCall'[c].won = x.won
    <3>1. CASE oaCall'[c] = [w.call EXCEPT !.last = x.target, !.lease = FALSE]
      BY <1>1, <2>2, <3>1 DEF LoginCall
    <3>2. CASE oaCall'[c] = [w.call EXCEPT !.pc = "over", !.lease = FALSE]
      <4>1. oaCall'[c] = [x EXCEPT !.pc = "over", !.lease = FALSE]
        BY <2>2, <3>2
      <4>2. x \in LoginCall
        BY <1>1
      <4> HIDE DEF x
      <4>3. oaCall'[c] \in LoginCall
        BY <4>1, <4>2 DEF LoginCall
      <4>4. /\ oaCall'[c].pc = "over" /\ ~oaCall'[c].lease
            /\ oaCall'[c].base = x.base /\ oaCall'[c].target = x.target
            /\ oaCall'[c].won = x.won
        BY <4>1, <4>2 DEF LoginCall
      <4>5. QED BY <4>3, <4>4
    <3>3. QED BY <1>2, <3>1, <3>2
  <2>4. QED BY <1>1, <1>3, <1>4, <2>2, <2>3 DEF WritesBack, OnlyCall
<1>5. CASE ~(x.won \/ x.target = OaNone) /\ oaSource # x.base
  <2>1. w = [source |-> oaSource,
             call |-> [x EXCEPT !.target = oaSource, !.base = oaSource, !.won = TRUE]]
    BY <1>5 DEF WrittenBack, Unchanged
  <2>2. /\ w.call = [x EXCEPT !.target = oaSource, !.base = oaSource, !.won = TRUE]
        /\ oaSource' = oaSource
    BY <1>1, <2>1
  <2>3. w.call \in LoginCall /\ w.call.pc = x.pc /\ w.call.target = oaSource
        /\ w.call.base = oaSource /\ w.call.won
    BY <1>1, <2>2 DEF LoginCall
  <2> HIDE DEF w
  <2>4. QED BY <1>1, <1>2, <1>3, <1>5, <2>2, <2>3 DEF WritesBack, OnlyCall, LoginCall, Writing
<1>6. CASE ~(x.won \/ x.target = OaNone) /\ oaSource = x.base
  <2>1. w = [source |-> x.target, call |-> [x EXCEPT !.base = x.target]]
    BY <1>6 DEF WrittenBack, Unchanged
  <2>2. w.call = [x EXCEPT !.base = x.target] /\ oaSource' = x.target
    BY <1>1, <2>1
  <2>3. w.call \in LoginCall /\ w.call.pc = x.pc /\ w.call.target = x.target
        /\ w.call.base = x.target /\ w.call.won = x.won
    BY <1>1, <2>2 DEF LoginCall
  <2> HIDE DEF w
  <2>4. QED BY <1>1, <1>2, <1>3, <1>6, <2>2, <2>3 DEF WritesBack, OnlyCall, LoginCall, Writing
<1>7. QED BY <1>4, <1>5, <1>6

LEMMA WriteInv ==
  ASSUME AuthInv, NEW c \in OaCalls, WritesBack(c)
  PROVE  AuthInv'
<1>1. /\ oaSource' \in Entries /\ oaCall[c].target \in Entries
      /\ oaLatest' = oaLatest /\ oaLogin' = oaLogin /\ oaDue' = oaDue
  BY OneCallFacts, AuthFacts DEF WritesBack, OnlyCall
<1>2. OaShape' /\ \A d \in OaCalls \ {c} : oaCall'[d] = oaCall[d]
  BY <1>1, OnlyCallShape, AuthFacts DEF WritesBack
<1>3. \A d \in OaCalls \ {c} : Writing(d)' <=> Writing(d)
  BY <1>2 DEF Writing
<1>4. CASE /\ oaCall[c].won \/ oaCall[c].target = OaNone
           /\ oaSource' = oaSource
           /\ oaCall'[c].base = oaCall[c].base /\ oaCall'[c].target = oaCall[c].target
           /\ oaCall'[c].won = oaCall[c].won
  <2>1. LastToken' = LastToken /\ ~Writing(c) /\ ~Writing(c)'
    BY <1>1, <1>4, AuthFacts DEF LastToken, Writing, WritesBack, CallFits
  <2>2. \A d \in OaCalls : /\ Writing(d)' <=> Writing(d)
                           /\ oaCall'[d].base = oaCall[d].base
                           /\ oaCall'[d].target = oaCall[d].target
                           /\ oaCall'[d].won = oaCall[d].won
    BY <1>2, <1>3, <1>4, <2>1
  <2>3. Issued' /\ BaseBehind'
    BY <1>1, <1>4, <2>2, AuthFacts DEF Issued, Known, BaseBehind
  <2>4. CallFits'
    BY <1>2, <1>4, <2>2, AuthFacts DEF CallFits, WritesBack
  <2>5. WritesLast' /\ OneHolder' /\ Kept'
    BY <1>4, <2>1, <2>2, AuthFacts DEF WritesLast, OneHolder, Kept
  <2>6. QED BY <1>2, <2>3, <2>4, <2>5 DEF AuthInv
<1>5. CASE /\ Writing(c) /\ oaSource # oaCall[c].base
           /\ oaSource' = oaSource
           /\ oaCall'[c].base = oaSource /\ oaCall'[c].target = oaSource
           /\ oaCall'[c].won
  <2>1. LastToken' = LastToken /\ ~Writing(c)'
    BY <1>1, <1>5 DEF LastToken, Writing
  <2>2. Issued'
    BY <1>1, <1>2, <1>5, AuthFacts DEF Issued, Known
  <2>3. BaseBehind'
    BY <1>2, <1>5, AuthFacts, TokenFacts DEF BaseBehind
  <2>4. CallFits'
    BY <1>2, <1>3, <1>5, <2>1, AuthFacts DEF CallFits, WritesBack
  <2>5. WritesLast' /\ OneHolder'
    BY <1>2, <1>3, <1>5, <2>1, AuthFacts DEF WritesLast, OneHolder
  <2>6. Kept'
    <3>1. ~oaCall[c].won
      BY <1>5 DEF Writing
    <3>2. ASSUME NEW d \in OaCalls, Writing(d), oaCall[d].target = LastToken,
                 oaCall[d].base = oaSource
          PROVE  Kept'
      BY <1>2, <1>3, <1>5, <2>1, <3>2 DEF Kept
    <3>3. ASSUME NEW d \in OaCalls, oaCall[d].won, oaCall[d].target = LastToken
          PROVE  Kept'
      BY <1>2, <1>5, <2>1, <3>1, <3>3 DEF Kept
    <3>4. oaSource = OaNone \/ oaSource = LastToken => Kept'
      BY <1>5, <2>1 DEF Kept
    <3>5. QED BY <3>2, <3>3, <3>4, AuthFacts DEF Kept
  <2>7. QED BY <1>2, <2>2, <2>3, <2>4, <2>5, <2>6 DEF AuthInv
<1>6. CASE /\ Writing(c) /\ oaSource = oaCall[c].base
           /\ oaSource' = oaCall[c].target
           /\ oaCall'[c].base = oaCall[c].target /\ oaCall'[c].target = oaCall[c].target
           /\ ~oaCall'[c].won
  <2>1. /\ oaSource # OaNone /\ oaSource' # OaNone /\ oaSource'.login = oaSource.login
        /\ oaSource' \in {oaSource, LastToken}
    BY <1>6, AuthFacts DEF CallFits, WritesLast
  <2>2. /\ LastToken' = LastToken /\ LastToken \in Tokens /\ oaSource \in Tokens
        /\ LastToken.login = oaSource.login /\ oaSource.n <= LastToken.n
    BY <1>1, <2>1, LastIsToken, AuthFacts, TokenFacts DEF LastToken
  <2>3. Writing(c)' => Writing(c)
    BY <1>6
  <2>4. Issued'
    BY <1>1, <1>2, <1>6, <2>1, AuthFacts DEF Issued, Known
  <2>5. oaSource'.n >= oaSource.n /\ oaSource'.n \in Nat
    BY <2>1, <2>2 DEF Tokens
  <2>6. BaseBehind'
    <3>1. ASSUME NEW d \in OaCalls, d # c, oaCall[d].base # OaNone,
                 oaCall[d].base.login = oaSource'.login
          PROVE  oaCall[d].base.n <= oaSource'.n
      <4>1. oaCall[d].base.n <= oaSource.n /\ oaCall[d].base.n \in Nat /\ oaSource.n \in Nat
        BY <2>1, <2>2, <3>1, OneCallFacts, AuthFacts DEF BaseBehind, Tokens
      <4>2. QED BY <2>5, <4>1
    <3>2. QED BY <1>2, <1>6, <2>5, <3>1 DEF BaseBehind
  <2>7. CallFits'
    BY <1>2, <1>3, <1>6, <2>5, AuthFacts DEF CallFits, WritesBack
  <2>8. WritesLast'
    <3>1. ASSUME NEW d \in OaCalls, d # c, Writing(d)
          PROVE  /\ oaCall[d].base = oaSource' => oaCall[d].target \in {oaSource', LastToken}
                 /\ oaCall[d].target = LastToken => oaCall[d].base = oaSource'
      <4>1. CASE oaSource' = oaSource
        BY <2>1, <3>1, <4>1, AuthFacts DEF WritesLast
      <4>2. CASE oaSource' = LastToken /\ oaSource' # oaSource
        <5>1. oaCall[d].target # LastToken
          BY <1>6, <2>1, <3>1, <4>2, AuthFacts DEF OneHolder
        <5>2. oaCall[d].base # LastToken
          <6>1. SUFFICES ASSUME oaCall[d].base = LastToken PROVE FALSE
            OBVIOUS
          <6>2. LastToken.n <= oaSource.n
            BY <2>1, <2>2, <6>1, AuthFacts DEF BaseBehind
          <6>3. LastToken.n = oaSource.n
            BY <2>2, <6>2 DEF Tokens
          <6>4. QED BY <2>2, <4>2, <6>3 DEF Tokens
        <5>3. QED BY <4>2, <5>1, <5>2
      <4>3. QED BY <2>1, <4>1, <4>2
    <3>2. QED BY <1>2, <1>3, <1>6, <2>2, <3>1 DEF WritesLast
  <2>9. OneHolder'
    BY <1>2, <1>6, <2>1, <2>2, AuthFacts DEF OneHolder
  <2>10. Kept'
    <3>1. CASE oaSource' = LastToken
      BY <2>2, <3>1 DEF Kept
    <3>2. CASE oaSource' = oaSource /\ oaSource # LastToken
      <4>1. CASE \E d \in OaCalls : Writing(d) /\ oaCall[d].target = LastToken
                                    /\ oaCall[d].base = oaSource
        BY <1>2, <1>3, <1>6, <2>2, <3>2, <4>1 DEF Kept
      <4>2. CASE \E d \in OaCalls : oaCall[d].won /\ oaCall[d].target = LastToken
        BY <1>2, <1>6, <2>2, <3>2, <4>2 DEF Kept
      <4>3. QED BY <2>1, <3>2, <4>1, <4>2, AuthFacts DEF Kept
    <3>3. QED BY <2>1, <3>1, <3>2
  <2>11. QED BY <1>2, <2>4, <2>6, <2>7, <2>8, <2>9, <2>10 DEF AuthInv
<1>7. QED BY <1>4, <1>5, <1>6 DEF WritesBack

-----------------------------------------------------------------------------
(* The children, the provider and the owner.                                *)

LEMMA RefreshInv ==
  ASSUME AuthInv, NEW c \in OaCalls, ChildRefreshes(c)
  PROVE  AuthInv'
<1> DEFINE t == oaCall[c].target
           l == t.login
           t2 == [login |-> l, n |-> t.n + 1]
<1>1. /\ oaCall[c].pc = "run" /\ t \in Tokens /\ t.n = oaLatest[l] /\ t.n < OaMaxRefreshes
      /\ oaSource' = oaSource /\ oaDue' = oaDue /\ oaLogin' = oaLogin
      /\ oaLatest' = [oaLatest EXCEPT ![l] = t.n + 1]
  BY OneCallFacts, AuthFacts DEF ChildRefreshes
<1>2. t2 \in Tokens /\ l \in 0..OaMaxLogins /\ t.n \in Nat /\ l <= oaLogin
  BY <1>1, AuthFacts DEF Tokens, Issued, Known
<1>3. /\ oaCall'[c] = [oaCall[c] EXCEPT !.target = t2]
      /\ \A d \in OaCalls \ {c} : oaCall'[d] = oaCall[d]
      /\ oaCall' \in [OaCalls -> LoginCall]
  <2>1. [t EXCEPT !.n = t.n + 1] = t2
    BY <1>1 DEF Tokens
  <2>2. oaCall' = [oaCall EXCEPT ![c] = [oaCall[c] EXCEPT !.target = [t EXCEPT !.n = t.n + 1]]]
    BY AuthFacts DEF ChildRefreshes
  <2>3. [oaCall[c] EXCEPT !.target = t2] \in LoginCall
    BY <1>2, OneCallFacts DEF LoginCall, Entries
  <2>4. QED BY <2>1, <2>2, <2>3, AuthFacts
<1>4. /\ oaCall'[c].target = t2 /\ oaCall'[c].base = oaCall[c].base
      /\ oaCall'[c].pc = oaCall[c].pc /\ oaCall'[c].won = oaCall[c].won
      /\ oaCall'[c].lease = oaCall[c].lease
  BY <1>3, OneCallFacts DEF LoginCall
<1>5. /\ oaLatest' \in [0..OaMaxLogins -> 0..OaMaxRefreshes] /\ oaLatest'[l] = t.n + 1
      /\ \A k \in 0..OaMaxLogins : k # l => oaLatest'[k] = oaLatest[k]
      /\ \A k \in 0..OaMaxLogins : oaLatest[k] <= oaLatest'[k]
  BY <1>1, <1>2, AuthFacts
<1> HIDE DEF t, l, t2
<1>6. OaShape'
  BY <1>1, <1>3, <1>4, <1>5, AuthFacts DEF OaShape
<1>7. \A e \in Entries : Known(e) => Known(e)'
  BY <1>1, <1>5, AuthFacts, TokenFacts DEF Known
<1>8. ASSUME NEW d \in OaCalls PROVE Known(oaCall[d].base)' /\ Known(oaCall[d].target)'
  <2>1. Known(oaCall[d].base) /\ Known(oaCall[d].target)
        /\ oaCall[d].base \in Entries /\ oaCall[d].target \in Entries
    BY OneCallFacts, AuthFacts DEF Issued
  <2>2. CASE d # c
    BY <1>3, <1>7, <2>1, <2>2
  <2>3. CASE d = c
    <3>1. Known(oaCall[d].base)'
      BY <1>4, <1>7, <2>1, <2>3
    <3>2. t2.login = l /\ t2.n = t.n + 1
      BY DEF t2
    <3>3. Known(oaCall[d].target)'
      BY <1>1, <1>2, <1>4, <1>5, <2>3, <3>2 DEF Known
    <3>4. QED BY <3>1, <3>3
  <2>4. QED BY <2>2, <2>3
<1>9. Issued'
  <2>1. \A k \in 0..OaMaxLogins : k > oaLogin => oaLatest'[k] = 0
    BY <1>2, <1>5, AuthFacts DEF Issued
  <2>2. Known(oaSource)'
    BY <1>1, <1>7, AuthFacts DEF Issued
  <2>3. QED BY <1>1, <1>8, <2>1, <2>2, AuthFacts DEF Issued
<1>10. \A d \in OaCalls : /\ Writing(d)' <=> Writing(d)
                          /\ oaCall'[d].base = oaCall[d].base
                          /\ oaCall'[d].won = oaCall[d].won
                          /\ oaCall'[d].pc = oaCall[d].pc
                          /\ oaCall'[d].lease = oaCall[d].lease
  BY <1>3, <1>4 DEF Writing
<1>11. /\ t2 # OaNone /\ t2.login = t.login /\ t2.n = t.n + 1 /\ t = oaCall[c].target /\ l = t.login
       /\ t # OaNone
  BY <1>1, <1>2, AuthFacts DEF t2, t, l
<1>12. CallFits'
  <2>1. Writing(c) => oaCall[c].base \in Tokens /\ t.login = oaCall[c].base.login
                      /\ t.n >= oaCall[c].base.n
    BY <1>11, OneCallFacts, AuthFacts DEF CallFits
  <2>2. Writing(c) => t2.n >= oaCall[c].base.n
    BY <1>2, <1>11, <2>1 DEF Tokens
  <2>3. oaCall[c].pc = "run"
    BY <1>1
  <2>4. ASSUME NEW d \in OaCalls
        PROVE  /\ oaCall'[d].pc \in {"read", "lease", "copy"}
                    => oaCall'[d].target = OaNone /\ ~oaCall'[d].won
               /\ oaCall'[d].pc \in {"read", "lease"} => ~oaCall'[d].lease
               /\ oaCall'[d].pc = "copy" => oaCall'[d].base # OaNone
               /\ Writing(d)' =>
                    /\ oaCall'[d].base # OaNone /\ oaCall'[d].target # OaNone
                    /\ oaCall'[d].target.login = oaCall'[d].base.login
                    /\ oaCall'[d].target.n >= oaCall'[d].base.n
    <3>1. CASE d = c
      <4>1. oaCall'[c].pc = "run" /\ (Writing(c)' <=> Writing(c))
        BY <1>4, <1>10, <2>3
      <4>2. Writing(c) => oaCall[c].base # OaNone
        BY AuthFacts DEF CallFits
      <4>3. QED BY <1>4, <1>11, <2>1, <2>2, <3>1, <4>1, <4>2
    <3>2. CASE d # c
      <4>1. oaCall'[d] = oaCall[d] /\ (Writing(d)' <=> Writing(d))
        BY <1>3, <1>10, <3>2
      <4>2. QED BY <4>1, AuthFacts DEF CallFits
    <3>3. QED BY <3>1, <3>2
  <2>5. QED BY <2>4 DEF CallFits
<1>13. BaseBehind'
  BY <1>1, <1>10, AuthFacts DEF BaseBehind
<1>14. WritesLast' /\ OneHolder' /\ Kept'
  <2>1. CASE oaSource = OaNone
    BY <1>1, <2>1 DEF WritesLast, OneHolder, Kept
  <2>2. CASE oaSource # OaNone /\ oaSource.login = l
    <3>1. LastToken = t
      BY <1>1, <1>11, <2>2, TokenFacts DEF LastToken, Entries
    <3>2. LastToken' = t2
      BY <1>1, <1>5, <1>11, <2>2 DEF LastToken, t2
    <3>3. \A d \in OaCalls \ {c} : oaCall'[d].target = oaCall[d].target /\ oaCall[d].target # t2
      <4>1. ASSUME NEW d \in OaCalls \ {c} PROVE oaCall[d].target # t2
        <5>1. oaCall[d].target # OaNone => oaCall[d].target.n <= oaLatest[oaCall[d].target.login]
          BY AuthFacts DEF Issued, Known
        <5>2. QED BY <1>1, <1>2, <1>11, <5>1
      <4>2. QED BY <1>3, <4>1
    <3>4. WritesLast'
      <4>1. ASSUME NEW d \in OaCalls \ {c}, Writing(d), oaCall[d].base = oaSource
            PROVE  oaCall[d].target = oaSource
        <5>1. oaCall[d].target \in {oaSource, t}
          BY <2>2, <3>1, <4>1, AuthFacts DEF WritesLast
        <5>2. oaCall[d].target = t => oaSource = t
          BY <1>11, <2>2, <3>1, AuthFacts DEF OneHolder
        <5>3. QED BY <5>1, <5>2
      <4>2. Writing(c) => oaCall[c].base = oaSource
        BY <1>11, <2>2, <3>1, AuthFacts DEF WritesLast
      <4>3. QED BY <1>1, <1>4, <1>10, <3>2, <3>3, <4>1, <4>2 DEF WritesLast
    <3>5. OneHolder'
      BY <1>1, <3>2, <3>3 DEF OneHolder
    <3>6. Kept'
      <4>1. CASE oaCall[c].won
        BY <1>4, <3>2, <4>1 DEF Kept
      <4>2. CASE ~oaCall[c].won
        <5>1. Writing(c) /\ oaCall[c].base = oaSource
          BY <1>1, <1>11, <2>2, <3>1, <4>2, AuthFacts DEF Writing, WritesLast
        <5>2. QED BY <1>1, <1>4, <1>10, <3>2, <5>1 DEF Kept
      <4>3. QED BY <4>1, <4>2
    <3>7. QED BY <3>4, <3>5, <3>6
  <2>3. CASE oaSource # OaNone /\ oaSource.login # l
    <3>1. oaSource.login \in 0..OaMaxLogins
      BY <2>3, AuthFacts, TokenFacts
    <3>2. LastToken' = LastToken /\ LastToken.login = oaSource.login
      BY <1>1, <1>5, <2>3, <3>1 DEF LastToken
    <3>3. t # LastToken /\ t2 # LastToken /\ t # oaSource
      BY <1>11, <2>3, <3>2
    <3>4. Writing(c) => oaCall[c].base # oaSource
      BY <1>11, <2>3, AuthFacts DEF CallFits
    <3>5. WritesLast'
      BY <1>1, <1>3, <1>4, <1>10, <2>3, <3>2, <3>3, <3>4, AuthFacts DEF WritesLast
    <3>6. OneHolder'
      BY <1>1, <1>3, <1>4, <2>3, <3>2, <3>3, AuthFacts DEF OneHolder
    <3>7. Kept'
      <4>1. CASE oaSource = LastToken
        BY <1>1, <3>2, <4>1 DEF Kept
      <4>2. ASSUME NEW d \in OaCalls, oaCall[d].target = LastToken,
                   (Writing(d) /\ oaCall[d].base = oaSource) \/ oaCall[d].won
            PROVE  Kept'
        <5>1. d # c
          BY <1>11, <3>3, <4>2
        <5>2. oaCall'[d].target = LastToken
          BY <1>3, <4>2, <5>1
        <5>3. QED BY <1>1, <1>10, <3>2, <4>2, <5>2 DEF Kept
      <4>3. QED BY <2>3, <4>1, <4>2, AuthFacts DEF Kept
    <3>8. QED BY <3>5, <3>6, <3>7
  <2>4. QED BY <2>1, <2>2, <2>3
<1>15. QED BY <1>6, <1>9, <1>12, <1>13, <1>14 DEF AuthInv

LEMMA OwnerInv ==
  ASSUME AuthInv, TokenExpires \/ OwnerLogsIn \/ OwnerLogsOut
  PROVE  AuthInv'
<1>1. oaLatest' = oaLatest /\ oaCall' = oaCall
  BY DEF TokenExpires, OwnerLogsIn, OwnerLogsOut
<1>2. \A c \in OaCalls : Writing(c)' <=> Writing(c)
  BY <1>1 DEF Writing
<1>3. CallFits'
  BY <1>1, <1>2, AuthFacts DEF CallFits
<1>4. CASE TokenExpires
  <2>1. oaSource' = oaSource /\ oaLogin' = oaLogin /\ oaDue' = oaDue \cup {oaSource}
        /\ oaSource # OaNone
    BY <1>4 DEF TokenExpires
  <2>2. OaShape' /\ LastToken' = LastToken
    BY <1>1, <2>1, AuthFacts DEF OaShape, LastToken
  <2>3. Issued' /\ BaseBehind' /\ WritesLast' /\ OneHolder' /\ Kept'
    BY <1>1, <1>2, <2>1, <2>2, AuthFacts
       DEF Issued, Known, BaseBehind, WritesLast, OneHolder, Kept
  <2>4. QED BY <1>3, <2>2, <2>3 DEF AuthInv
<1>5. CASE OwnerLogsIn
  <2>1. /\ oaLogin' = oaLogin + 1 /\ oaSource' = [login |-> oaLogin + 1, n |-> 0]
        /\ oaDue' = oaDue /\ oaLogin + 1 \in 0..OaMaxLogins
    BY <1>5, AuthFacts DEF OwnerLogsIn
  <2>2. oaSource' \in Tokens /\ oaSource' # OaNone /\ oaLatest[oaLogin + 1] = 0
        /\ oaSource'.login = oaLogin + 1 /\ oaSource'.n = 0
    BY <2>1, AuthFacts DEF Tokens, Issued
  <2>3. OaShape'
    BY <1>1, <2>1, <2>2, AuthFacts DEF OaShape, Entries
  <2>4. LastToken' = oaSource'
    BY <1>1, <2>1, <2>2 DEF LastToken
  <2>5. \A e \in Entries : Known(e) => Known(e)' /\ (e # OaNone => e.login < oaLogin + 1)
    BY <1>1, <2>1, AuthFacts, TokenFacts DEF Known
  <2>6. \A c \in OaCalls : /\ oaCall[c].base # OaNone => oaCall[c].base.login < oaLogin + 1
                           /\ oaCall[c].target # OaNone => oaCall[c].target.login < oaLogin + 1
                           /\ Known(oaCall[c].base)' /\ Known(oaCall[c].target)'
    BY <1>1, <2>5, OneCallFacts, AuthFacts DEF Issued
  <2>7. Issued'
    <3>1. Known(oaSource)'
      BY <1>1, <2>1, <2>2 DEF Known
    <3>2. \A k \in 0..OaMaxLogins : k > oaLogin' => oaLatest'[k] = 0
      BY <1>1, <2>1, AuthFacts DEF Issued
    <3>3. QED BY <2>1, <2>2, <2>6, <3>1, <3>2 DEF Issued
  <2>8. \A c \in OaCalls : oaCall[c].base # oaSource' /\ oaCall[c].target # oaSource'
    BY <2>2, <2>6, AuthFacts
  <2>9. BaseBehind'
    BY <1>1, <2>2, <2>6, AuthFacts DEF BaseBehind
  <2>10. WritesLast' /\ OneHolder' /\ Kept'
    BY <1>1, <2>4, <2>8 DEF WritesLast, OneHolder, Kept
  <2>11. QED BY <1>3, <2>3, <2>7, <2>9, <2>10 DEF AuthInv
<1>6. CASE OwnerLogsOut
  <2>1. oaSource' = OaNone /\ oaDue' = oaDue /\ oaLogin' = oaLogin
    BY <1>6 DEF OwnerLogsOut
  <2>2. OaShape'
    BY <1>1, <2>1, AuthFacts DEF OaShape, Entries
  <2>3. Issued'
    BY <1>1, <2>1, AuthFacts DEF Issued, Known
  <2>4. BaseBehind' /\ WritesLast' /\ OneHolder' /\ Kept'
    BY <2>1 DEF BaseBehind, WritesLast, OneHolder, Kept
  <2>5. QED BY <1>3, <2>2, <2>3, <2>4 DEF AuthInv
<1>7. QED BY <1>4, <1>5, <1>6

LEMMA OaInitInv == OaInit => AuthInv
<1>1. SUFFICES ASSUME OaInit PROVE AuthInv
  OBVIOUS
<1>2. /\ oaSource = [login |-> 0, n |-> 0] /\ oaSource \in Tokens /\ oaSource # OaNone
      /\ oaDue \subseteq {oaSource} /\ oaLogin = 0
  BY <1>1, OpencodeAuthAssumption DEF OaInit, Tokens
<1>3. /\ oaLatest \in [0..OaMaxLogins -> 0..OaMaxRefreshes] /\ 0 \in 0..OaMaxLogins
      /\ \A k \in 0..OaMaxLogins : oaLatest[k] = 0
  BY <1>1, OpencodeAuthAssumption DEF OaInit
<1>4. \A c \in OaCalls :
        oaCall[c] = [pc |-> "read", base |-> OaNone, target |-> OaNone,
                     last |-> OaNone, lease |-> FALSE, won |-> FALSE]
  BY <1>1 DEF OaInit
<1>5. OaShape
  BY <1>1, <1>2, <1>3 DEF OaInit, OaShape, LoginCall, Entries
<1>6. Issued
  BY <1>2, <1>3, <1>4 DEF Issued, Known
<1>7. CallFits /\ BaseBehind
  BY <1>4 DEF CallFits, BaseBehind, Writing
<1>8. LastToken = oaSource
  BY <1>2, <1>3 DEF LastToken
<1>9. WritesLast /\ OneHolder /\ Kept
  BY <1>4, <1>8 DEF WritesLast, OneHolder, Kept, Writing
<1>10. QED BY <1>5, <1>6, <1>7, <1>9 DEF AuthInv

LEMMA OaNextInv == AuthInv /\ [OaNext]_oavars => AuthInv'
<1>1. SUFFICES ASSUME AuthInv, [OaNext]_oavars PROVE AuthInv'
  OBVIOUS
<1>2. CASE UNCHANGED oavars
  <2>1. OaShape' /\ Issued' /\ CallFits' /\ BaseBehind'
    BY <1>1, <1>2, AuthFacts DEF oavars, OaShape, Issued, Known, CallFits, BaseBehind, Writing
  <2>2. WritesLast' /\ OneHolder' /\ Kept'
    BY <1>1, <1>2, AuthFacts DEF oavars, WritesLast, OneHolder, Kept, Writing, LastToken
  <2>3. QED BY <2>1, <2>2 DEF AuthInv
<1>3. ASSUME NEW c \in OaCalls, ReadSource(c) \/ TakeLease(c) \/ CopyEntry(c) \/ CallEnds(c)
      PROVE  AuthInv'
  BY <1>1, <1>3, ReadInv, CopyInv, CallEndsInv
<1>4. ASSUME NEW c \in OaCalls, Watch(c) \/ WriteLast(c) PROVE AuthInv'
  BY <1>1, <1>4, WriteSteps, WriteInv
<1>5. ASSUME NEW c \in OaCalls, ChildRefreshes(c) PROVE AuthInv'
  BY <1>1, <1>5, RefreshInv
<1>6. CASE TokenExpires \/ OwnerLogsIn \/ OwnerLogsOut
  BY <1>1, <1>6, OwnerInv
<1>7. QED BY <1>1, <1>2, <1>3, <1>4, <1>5, <1>6 DEF OaNext

\* What the owner did last stands.
LEMMA LoginStands ==
  ASSUME AuthInv, OaNext
  PROVE  /\ oaSource # OaNone /\ oaSource' # OaNone => oaSource'.login >= oaSource.login
         /\ oaSource = OaNone /\ oaSource' # OaNone => oaSource'.login > oaLogin
<1>1. oaSource # OaNone => oaSource.login \in Nat /\ oaSource.login = oaLogin
  BY AuthFacts, TokenFacts DEF Issued
<1>2. CASE oaSource' = oaSource
  BY <1>1, <1>2
<1>3. ASSUME NEW c \in OaCalls, Watch(c) \/ WriteLast(c)
      PROVE  oaSource' = oaSource \/ (oaSource # OaNone /\ oaSource'.login = oaSource.login)
  BY <1>3, WriteSteps, AuthFacts DEF WritesBack, CallFits
<1>4. CASE OwnerLogsIn
  BY <1>1, <1>4, AuthFacts DEF OwnerLogsIn
<1>5. CASE OwnerLogsOut
  BY <1>5 DEF OwnerLogsOut
<1>6. ASSUME TokenExpires \/ \E c \in OaCalls : ReadSource(c) \/ TakeLease(c) \/ CopyEntry(c)
                                               \/ CallEnds(c) \/ ChildRefreshes(c)
      PROVE  oaSource' = oaSource
  BY <1>6 DEF TokenExpires, ReadSource, TakeLease, CopyEntry, CallEnds, ChildRefreshes
<1>7. QED BY <1>1, <1>2, <1>3, <1>4, <1>5, <1>6 DEF OaNext

\* A lease is only got with the last token, or while a call without the lease
\* holds that.
LEMMA LeaseGot ==
  ASSUME AuthInv, OaNext, NEW c \in OaCalls,
         oaCall[c].pc = "lease", oaCall'[c].lease,
         oaCall'[c].base.n # oaLatest[oaCall'[c].base.login]
  PROVE  \E d \in OaCalls \ {c} :
           /\ oaCall[d].pc \in {"run", "final"} \/ oaCall[d].won
           /\ ~oaCall[d].lease
           /\ oaCall[d].target = [login |-> oaCall'[c].base.login,
                                  n |-> oaLatest[oaCall'[c].base.login]]
           /\ oaCall[d].target # oaSource
<1>1. ~oaCall[c].lease /\ ~oaCall[c].won /\ oaCall[c].target = OaNone
  BY AuthFacts DEF CallFits
<1>2. TakeLease(c)
  <2>1. oaCall'[c] # oaCall[c]
    BY <1>1
  <2>2. ASSUME NEW d \in OaCalls, d # c,
               ReadSource(d) \/ TakeLease(d) \/ CopyEntry(d) \/ Watch(d) \/ CallEnds(d)
               \/ WriteLast(d) \/ ChildRefreshes(d)
        PROVE  oaCall'[c] = oaCall[c]
    BY <2>2, AuthFacts DEF ReadSource, TakeLease, Started, CopyEntry, Watch, CallEnds, WriteLast,
       ChildRefreshes
  <2>3. ~(ReadSource(c) \/ CopyEntry(c) \/ Watch(c) \/ CallEnds(c) \/ WriteLast(c)
          \/ ChildRefreshes(c))
    BY DEF ReadSource, CopyEntry, Watch, CallEnds, WriteLast, ChildRefreshes
  <2>4. ~(TokenExpires \/ OwnerLogsIn \/ OwnerLogsOut)
    BY <2>1 DEF TokenExpires, OwnerLogsIn, OwnerLogsOut
  <2>5. QED BY <2>1, <2>2, <2>3, <2>4 DEF OaNext
<1>3. LeaseFree /\ oaCall'[c].base = oaSource /\ oaSource # OaNone
  <2>1. oaCall'[c] = [oaCall[c] EXCEPT !.pc = IF oaSource = OaNone THEN "over" ELSE "copy",
           !.base = oaSource, !.lease = oaSource \in oaDue /\ oaSource # OaNone]
    BY <1>2, AuthFacts DEF TakeLease, Started, AfterWaiting
  <2>2. QED BY <1>2, <2>1, OneCallFacts DEF TakeLease, LoginCall
<1>4. oaSource # LastToken
  BY <1>3, LastIsToken DEF LastToken
<1>5. PICK d \in OaCalls : /\ Writing(d) \/ oaCall[d].won
                           /\ oaCall[d].target = LastToken
  BY <1>3, <1>4, AuthFacts DEF Kept
<1>6. d # c /\ ~oaCall[d].lease /\ oaCall[d].target # oaSource
  BY <1>1, <1>3, <1>4, <1>5, LastIsToken DEF LeaseFree
<1>7. QED BY <1>3, <1>5, <1>6 DEF Writing, LastToken

\* At most one call has the lease.
LEMMA OneLease ==
  ASSUME AuthInv
  PROVE  Cardinality({c \in OaCalls : oaCall[c].lease}) <= 1
<1> DEFINE S == {c \in OaCalls : oaCall[c].lease}
<1>1. CASE S = {}
  BY <1>1, FS_EmptySet
<1>2. CASE S # {}
  <2>1. PICK c \in OaCalls : oaCall[c].lease
    BY <1>2
  <2>2. S = {c}
    BY <2>1, AuthFacts
  <2>3. Cardinality({c}) = 1
    BY FS_Singleton
  <2>4. QED BY <2>2, <2>3
<1>3. QED BY <1>1, <1>2

\* Parallel calls on one rotating login lose neither its last token nor the
\* owner's next login, and refresh one after the other.
THEOREM LoginSafe == OaSpec => OpencodeLoginSafe
<1>1. ASSUME AuthInv PROVE OaTypeOK /\ OpencodeRefreshKept
  <2>1. OaTypeOK
    BY <1>1, AuthFacts, OneLease DEF OaTypeOK, LoginCall
  <2>2. OpencodeRefreshKept
    BY <1>1, AuthFacts DEF Kept, OpencodeRefreshKept, LastToken, Writing
  <2>3. QED BY <2>1, <2>2
<1>2. AuthInv /\ [OaNext]_oavars =>
        [/\ oaSource # OaNone /\ oaSource' # OaNone => oaSource'.login >= oaSource.login
         /\ oaSource = OaNone /\ oaSource' # OaNone => oaSource'.login > oaLogin]_oavars
  BY LoginStands
<1>3. AuthInv /\ [OaNext]_oavars =>
        [\A c \in OaCalls :
           LET e == oaCall'[c].base IN
           oaCall[c].pc = "lease" /\ oaCall'[c].lease /\ e.n # oaLatest[e.login] =>
             \E d \in OaCalls \ {c} :
               /\ oaCall[d].pc \in {"run", "final"} \/ oaCall[d].won
               /\ ~oaCall[d].lease
               /\ oaCall[d].target = [login |-> e.login, n |-> oaLatest[e.login]]
               /\ oaCall[d].target # oaSource]_oavars
  BY LeaseGot
<1>4. QED
  BY <1>1, <1>2, <1>3, OaInitInv, OaNextInv, PTL
     DEF OaSpec, OpencodeLoginSafe, OpencodeLoginKept, LeaseHasLastToken

(***************************************************************************)
(* The copied login of the Codex app-server.                               *)
(***************************************************************************)
Syncs == {"poll", "final", "restore"}

\* A content and the provider: it is no token, or one that was issued.
IssuedTo(x) ==
  Valid(x) => /\ x.login <= caLogin
              /\ caLatest[x.login] = CaNone \/ x.n <= caLatest[x.login]
Latest(x) == caLatest[x.login] = x.n

\* Tokens are issued to logins the owner made.
TokensIssued ==
  /\ IssuedTo(caParent) /\ IssuedTo(caRecord.last) /\ IssuedTo(caSync.parent)
  /\ \A g \in Profiles :
       /\ IssuedTo(P(g).auth) /\ IssuedTo(P(g).token) /\ IssuedTo(P(g).last)
       /\ P(g).last # CaTorn
  /\ \A l \in 0..CaMaxLogins : l > caLogin => caLatest[l] = 0

\* The owner's last login is nowhere but, maybe, in the parent file.
NotOfLast(x) == Valid(x) => x.login # caLogin
Unused ==
  /\ caLatest[caLogin] = 0
  /\ NotOfLast(caRecord.last) /\ NotOfLast(caSync.parent)
  /\ \A g \in Profiles : NotOfLast(P(g).auth) /\ NotOfLast(P(g).token) /\ NotOfLast(P(g).last)
TornIsNew == caParent = CaTorn => Unused

\* The parent file is as the holder of the lock read it, or the owner wrote it.
Rewritten ==
  \/ caParent \in {CaNone, CaTorn}
  \/ caParent = [login |-> caLogin, n |-> 0] /\ Unused
ReadHolds ==
  /\ caSync.op \in Syncs => caParent = caSync.parent \/ Rewritten
  /\ caSync.op \in {"seeded", "recorded"} => caParent = P(caSync.by).last \/ Rewritten

\* A refresh that the generation has not agreed on with the parent.
Unwritten(g) == Valid(P(g).auth) /\ Valid(P(g).last) /\ P(g).auth # P(g).last

\* The generation that may write back agrees with the record, and what it has
\* to write back is the last token.
OwnerShape ==
  \A g \in Profiles : Owns(g) =>
    /\ P(g).dir /\ caRecord.last = P(g).last /\ ~P(g).changed
    /\ P(g).last = CaNone => P(g).token = CaNone /\ P(g).auth = CaNone
    /\ Unwritten(g) => Latest(P(g).auth)
    /\ P(g).token # CaNone => P(g).auth = P(g).token

\* A refresh is a later token of the login agreed on.
RefreshIsLater ==
  \A g \in Profiles : Unwritten(g) /\ ~P(g).changed =>
    P(g).auth.login = P(g).last.login /\ P(g).last.n < P(g).auth.n

\* The owner of the record, or who is about to be, and the parent hold the
\* same token of one login.
OwnerAgrees ==
  \A g \in Profiles :
    /\ \/ Owns(g) /\ P(g).local /\ caSync.op # "seeded"
       \/ caSync.op = "seeded" /\ caSync.by = g
    /\ Valid(P(g).last) /\ Valid(caParent) /\ caParent.login = P(g).last.login
    => caParent = P(g).last

\* A generation that lost the record has nothing left that it would write.
NothingLate ==
  \A g \in Profiles :
    /\ (Owns(g) /\ caSync.op = "seeded") \/ (~Owns(g) /\ P(g).local)
    /\ ~P(g).changed /\ Unwritten(g)
    => caParent # P(g).last

\* The last token of the parent's login is in the parent, or is the refresh
\* that the owner of the record has yet to write.
TokenKept ==
  Valid(caParent) /\ caLatest[caParent.login] # CaNone =>
    \/ Latest(caParent)
    \/ /\ caSync.op # "seeded" /\ caRecord.last = caParent
       /\ \E g \in Profiles :
            /\ Owns(g) /\ Valid(P(g).auth)
            /\ P(g).auth.login = caParent.login /\ Latest(P(g).auth)

\* One app-server runs, of the owner of the record or of a generation that has
\* seen the parent move on to another login.
Running ==
  \A g \in Profiles :
    /\ P(g).child = "runs" =>
         /\ P(g).dir /\ P(g).local /\ caRecord.owner \in {0, g}
         /\ caSync.op \notin {"seeded", "recorded"}
         /\ \A h \in Profiles \ {g} :
              /\ P(h).dir => P(h).local
              /\ P(h).child # "runs" /\ P(h).watch # "polls"
         /\ ~Owns(g) /\ P(g).token # CaNone /\ Valid(caParent) =>
              caParent.login # P(g).token.login
    /\ P(g).watch \in {"polls", "stops"} => P(g).local
    /\ P(g).watch = "stops" => P(g).child = "ended"
    /\ P(g).local /\ P(g).child = "none" => caSync.op = "recorded" /\ caSync.by = g
    /\ P(g).local /\ ~Owns(g) =>
         P(g).changed \/ P(g).last = CaNone \/ P(g).child = "ended"

\* What the holder of the file lock is.
SyncShape ==
  /\ caSync.op = "none" => caSync = Free
  /\ caSync.op # "none" => caSync.by \in Profiles
  /\ \A g \in Profiles : caSync.by = g =>
       /\ caSync.op \in Syncs =>
            P(g).local /\ (Owns(g) /\ caSync.auth = CaNone => P(g).token = CaNone)
       /\ caSync.op \in {"final", "restore"} =>
            P(g).child = "ended" /\ caSync.auth = P(g).auth
       /\ caSync.op = "seeded" =>
            /\ P(g).dir /\ ~P(g).local /\ ~P(g).changed /\ ~Owns(g)
            /\ P(g).child = "none" /\ P(g).watch = "none"
            /\ P(g).auth = P(g).last /\ P(g).token = P(g).last
       /\ caSync.op = "recorded" => Owns(g) /\ P(g).local /\ P(g).child = "none"
  /\ caSync.op \in {"seeded", "recorded"} =>
       \A h \in Profiles : P(h).child # "runs" /\ P(h).watch # "polls"

CaInv ==
  /\ CaTypeOK /\ TokensIssued /\ TornIsNew /\ ReadHolds /\ OwnerShape /\ RefreshIsLater
  /\ OwnerAgrees /\ NothingLate /\ TokenKept /\ Running /\ SyncShape

-----------------------------------------------------------------------------
(* Types.                                                                  *)

LEMMA Values ==
  /\ CaNone # CaTorn /\ CaNone \notin Token /\ CaTorn \notin Token
  /\ \A x \in Content : Valid(x) <=> x \in Token
  /\ \A x \in Token : x.login \in 0..CaMaxLogins /\ x.n \in 0..CaMaxRefreshes
                      /\ x.login \in Nat /\ x.n \in Nat /\ x.n # CaNone /\ x = [login |-> x.login, n |-> x.n]
  /\ CaMaxGens \in Nat /\ CaMaxLogins \in Nat /\ CaMaxRefreshes \in Nat /\ CaMaxCrashes \in Nat
  /\ CaNone \in Content /\ CaTorn \in Content /\ Token \subseteq Content
  /\ \A l \in 0..CaMaxLogins, n \in 0..CaMaxRefreshes : [login |-> l, n |-> n] \in Token
<1>1. CaNone # CaTorn /\ CaNone \notin Token /\ CaTorn \notin Token
      /\ CaNone \notin 0..CaMaxRefreshes
  BY CodexAuthAssumption
<1>2. QED BY <1>1, CodexAuthAssumption DEF Valid, Content, Token

LEMMA Types ==
  ASSUME CaTypeOK
  PROVE  /\ caParent \in Content /\ caLatest \in [0..CaMaxLogins -> 0..CaMaxRefreshes \cup {CaNone}]
         /\ caProfile \in [Profiles -> Profile]
         /\ caRecord.last \in Token \cup {CaNone} /\ caRecord.owner \in Profiles \cup {0}
         /\ caRecord = [last |-> caRecord.last, owner |-> caRecord.owner]
         /\ caSync.by \in Profiles \cup {0} /\ caSync.parent \in Content /\ caSync.auth \in Content
         /\ caSync.op \in {"none", "poll", "final", "restore", "seeded", "recorded"}
         /\ caLogin \in 0..CaMaxLogins /\ caCrashes \in 0..CaMaxCrashes
         /\ \A g \in Profiles :
              /\ caProfile[g] \in Profile
              /\ P(g).auth \in Content /\ P(g).last \in Content /\ P(g).token \in Token \cup {CaNone}
              /\ P(g).dir \in BOOLEAN /\ P(g).local \in BOOLEAN /\ P(g).changed \in BOOLEAN
              /\ P(g).child \in {"none", "runs", "ended"}
              /\ P(g).watch \in {"none", "polls", "stops", "ended"}
<1>1. \A g \in Profiles : caProfile[g] \in Profile
  BY DEF CaTypeOK
<1>2. Content \ {CaTorn} \subseteq Token \cup {CaNone}
  BY DEF Content
<1>3. /\ caRecord.last \in Content \ {CaTorn} /\ caRecord.owner \in Profiles \cup {0}
      /\ caRecord = [last |-> caRecord.last, owner |-> caRecord.owner]
  BY DEF CaTypeOK
<1>4. QED BY <1>1, <1>2, <1>3 DEF CaTypeOK, Profile, P

LEMMA InitHolds == CaInit => CaInv
<1> SUFFICES ASSUME CaInit PROVE CaInv OBVIOUS
<1> USE DEF CaInit
<1>1. \A g \in Profiles : P(g) = NoProfile BY DEF P
<1>2. NoProfile \in Profile BY Values DEF NoProfile, Profile
<1>3. CaTypeOK
  <2>1. [login |-> 0, n |-> 0] \in Token /\ 0 \in 0..CaMaxRefreshes BY CodexAuthAssumption DEF Token
  <2>2. Free \in [by : Profiles \cup {0}, parent : Content, auth : Content,
                 op : {"none", "poll", "final", "restore", "seeded", "recorded"}]
    BY Values DEF Free
  <2>3. [last |-> CaNone, owner |-> 0] \in [last : Content \ {CaTorn}, owner : Profiles \cup {0}]
    BY Values
  <2>4. QED BY <1>2, <2>1, <2>2, <2>3, Values DEF CaTypeOK
<1>4. ~Valid(CaNone) BY DEF Valid
<1>5. 0 \notin Profiles BY DEF Profiles
<1>6. caParent = [login |-> 0, n |-> 0] /\ caLatest[0] = 0 /\ Latest(caParent)
  BY Values DEF Latest
<1>7. TokensIssued
  BY <1>1, <1>4, <1>6, Values DEF TokensIssued, IssuedTo, NoProfile, Free
<1>8. caParent # CaTorn BY <1>6, Values
<1>9. QED
  BY <1>1, <1>3, <1>4, <1>5, <1>6, <1>7, <1>8, Values
  DEF CaInv, TornIsNew, ReadHolds, OwnerShape, RefreshIsLater, OwnerAgrees, NothingLate, TokenKept,
      Running, SyncShape, NoProfile, Free, Owns, Unwritten, Syncs

-----------------------------------------------------------------------------
(* Steps that leave contents, record and parent alone.                     *)

LEMMA StopOwnerHolds ==
  ASSUME CaInv, NEW g \in Profiles, StopOwner(g)
  PROVE  CaInv'
<1> USE DEF CaInv, StopOwner, P, Owns, Valid, Latest, Unwritten, IssuedTo, NotOfLast, Unused, Rewritten, Free, Unlocked, Syncs
<1>0. \A h \in Profiles : P(h)' = IF h = g THEN [P(h) EXCEPT !.watch = "stops"] ELSE P(h)
  BY Types DEF Profile
<1>1. CaTypeOK'
  BY <1>0, Types DEF CaTypeOK, Profile
<1>2. TokensIssued'
  BY <1>0, Types DEF TokensIssued
<1>3. TornIsNew'
  BY <1>0, Types DEF TornIsNew
<1>4. ReadHolds'
  BY <1>0, Types DEF ReadHolds
<1>5. OwnerShape'
  BY <1>0, Types DEF OwnerShape
<1>6. RefreshIsLater'
  BY <1>0, Types DEF RefreshIsLater
<1>7. OwnerAgrees'
  BY <1>0, Types DEF OwnerAgrees
<1>8. NothingLate'
  BY <1>0, Types DEF NothingLate
<1>9. TokenKept'
  BY <1>0, Types DEF TokenKept
<1>10. Running'
  BY <1>0, Types DEF Running
<1>11. SyncShape'
  BY <1>0, Types DEF SyncShape
<1>12. QED BY <1>1, <1>2, <1>3, <1>4, <1>5, <1>6, <1>7, <1>8, <1>9, <1>10, <1>11

LEMMA ChildEndsHolds ==
  ASSUME CaInv, NEW g \in Profiles, ChildEnds(g)
  PROVE  CaInv'
<1> USE DEF CaInv, ChildEnds, P, Owns, Valid, Latest, Unwritten, IssuedTo, NotOfLast, Unused, Rewritten, Free, Unlocked, Syncs
<1>0. \A h \in Profiles : P(h)' = IF h = g THEN [P(h) EXCEPT !.child = "ended"] ELSE P(h)
  BY Types DEF Profile
<1>1. CaTypeOK'
  BY <1>0, Types DEF CaTypeOK, Profile
<1>2. TokensIssued'
  BY <1>0, Types DEF TokensIssued
<1>3. TornIsNew'
  BY <1>0, Types DEF TornIsNew
<1>4. ReadHolds'
  BY <1>0, Types DEF ReadHolds
<1>5. OwnerShape'
  BY <1>0, Types DEF OwnerShape
<1>6. RefreshIsLater'
  BY <1>0, Types DEF RefreshIsLater
<1>7. OwnerAgrees'
  BY <1>0, Types DEF OwnerAgrees
<1>8. NothingLate'
  BY <1>0, Types DEF NothingLate
<1>9. TokenKept'
  BY <1>0, Types DEF TokenKept
<1>10. Running'
  BY <1>0, Types DEF Running
<1>11. SyncShape'
  BY <1>0, Types DEF SyncShape
<1>12. QED BY <1>1, <1>2, <1>3, <1>4, <1>5, <1>6, <1>7, <1>8, <1>9, <1>10, <1>11

LEMMA PollHolds ==
  ASSUME CaInv, NEW g \in Profiles, Poll(g)
  PROVE  CaInv'
<1> USE DEF CaInv, Poll, Read, P, Owns, Valid, Latest, Unwritten, IssuedTo, NotOfLast, Unused, Rewritten, Free, Unlocked, Syncs
<1>0. \A h \in Profiles : P(h)' = P(h)
  BY Types DEF Profile
<1>1. CaTypeOK'
  BY <1>0, Types DEF CaTypeOK, Profile
<1>2. TokensIssued'
  BY <1>0, Types DEF TokensIssued
<1>3. TornIsNew'
  BY <1>0, Types DEF TornIsNew
<1>4. ReadHolds'
  BY <1>0, Types DEF ReadHolds
<1>5. OwnerShape'
  BY <1>0, Types DEF OwnerShape
<1>6. RefreshIsLater'
  BY <1>0, Types DEF RefreshIsLater
<1>7. OwnerAgrees'
  BY <1>0, Types DEF OwnerAgrees
<1>8. NothingLate'
  BY <1>0, Types DEF NothingLate
<1>9. TokenKept'
  BY <1>0, Types DEF TokenKept
<1>10. Running'
  BY <1>0, Types DEF Running
<1>11. SyncShape'
  <2>1. P(g).local /\ (Owns(g) /\ P(g).auth = CaNone => P(g).token = CaNone)
    BY Types DEF Running, OwnerShape
  <2>2. /\ caSync'.by = g /\ caSync'.auth = P(g).auth /\ caSync'.op \in Syncs
        /\ caSync'.op \in {"final", "restore"} => P(g).child = "ended"
    BY DEF Running
  <2>3. \A h \in Profiles : P(h)' = P(h) /\ Owns(h)' = Owns(h) BY <1>0
  <2> HIDE DEF CaInv, Poll, P, Owns
  <2>4. QED BY <2>1, <2>2, <2>3 DEF SyncShape, Syncs
<1>12. QED BY <1>1, <1>2, <1>3, <1>4, <1>5, <1>6, <1>7, <1>8, <1>9, <1>10, <1>11

LEMMA LastSyncHolds ==
  ASSUME CaInv, NEW g \in Profiles, LastSync(g)
  PROVE  CaInv'
<1> USE DEF CaInv, LastSync, Read, P, Owns, Valid, Latest, Unwritten, IssuedTo, NotOfLast, Unused, Rewritten, Free, Unlocked, Syncs
<1>0. \A h \in Profiles : P(h)' = P(h)
  BY Types DEF Profile
<1>1. CaTypeOK'
  BY <1>0, Types DEF CaTypeOK, Profile
<1>2. TokensIssued'
  BY <1>0, Types DEF TokensIssued
<1>3. TornIsNew'
  BY <1>0, Types DEF TornIsNew
<1>4. ReadHolds'
  BY <1>0, Types DEF ReadHolds
<1>5. OwnerShape'
  BY <1>0, Types DEF OwnerShape
<1>6. RefreshIsLater'
  BY <1>0, Types DEF RefreshIsLater
<1>7. OwnerAgrees'
  BY <1>0, Types DEF OwnerAgrees
<1>8. NothingLate'
  BY <1>0, Types DEF NothingLate
<1>9. TokenKept'
  BY <1>0, Types DEF TokenKept
<1>10. Running'
  BY <1>0, Types DEF Running
<1>11. SyncShape'
  <2>1. P(g).local /\ (Owns(g) /\ P(g).auth = CaNone => P(g).token = CaNone)
    BY Types DEF Running, OwnerShape
  <2>2. /\ caSync'.by = g /\ caSync'.auth = P(g).auth /\ caSync'.op \in Syncs
        /\ caSync'.op \in {"final", "restore"} => P(g).child = "ended"
    BY DEF Running
  <2>3. \A h \in Profiles : P(h)' = P(h) /\ Owns(h)' = Owns(h) BY <1>0
  <2> HIDE DEF CaInv, LastSync, P, Owns
  <2>4. QED BY <2>1, <2>2, <2>3 DEF SyncShape, Syncs
<1>12. QED BY <1>1, <1>2, <1>3, <1>4, <1>5, <1>6, <1>7, <1>8, <1>9, <1>10, <1>11

LEMMA RestoreHolds ==
  ASSUME CaInv, NEW g \in Profiles, Restore(g)
  PROVE  CaInv'
<1> USE DEF CaInv, Restore, Read, P, Owns, Valid, Latest, Unwritten, IssuedTo, NotOfLast, Unused, Rewritten, Free, Unlocked, Syncs
<1>0. \A h \in Profiles : P(h)' = P(h)
  BY Types DEF Profile
<1>1. CaTypeOK'
  BY <1>0, Types DEF CaTypeOK, Profile
<1>2. TokensIssued'
  BY <1>0, Types DEF TokensIssued
<1>3. TornIsNew'
  BY <1>0, Types DEF TornIsNew
<1>4. ReadHolds'
  BY <1>0, Types DEF ReadHolds
<1>5. OwnerShape'
  BY <1>0, Types DEF OwnerShape
<1>6. RefreshIsLater'
  BY <1>0, Types DEF RefreshIsLater
<1>7. OwnerAgrees'
  BY <1>0, Types DEF OwnerAgrees
<1>8. NothingLate'
  BY <1>0, Types DEF NothingLate
<1>9. TokenKept'
  BY <1>0, Types DEF TokenKept
<1>10. Running'
  BY <1>0, Types DEF Running
<1>11. SyncShape'
  <2>1. P(g).local /\ (Owns(g) /\ P(g).auth = CaNone => P(g).token = CaNone)
    BY Types DEF Running, OwnerShape
  <2>2. /\ caSync'.by = g /\ caSync'.auth = P(g).auth /\ caSync'.op \in Syncs
        /\ caSync'.op \in {"final", "restore"} => P(g).child = "ended"
    BY DEF Running
  <2>3. \A h \in Profiles : P(h)' = P(h) /\ Owns(h)' = Owns(h) BY <1>0
  <2> HIDE DEF CaInv, Restore, P, Owns
  <2>4. QED BY <2>1, <2>2, <2>3 DEF SyncShape, Syncs
<1>12. QED BY <1>1, <1>2, <1>3, <1>4, <1>5, <1>6, <1>7, <1>8, <1>9, <1>10, <1>11
-----------------------------------------------------------------------------
(* The owner and the app-server.                                           *)

\* The owner's last login is still unused when nothing but the parent changed.
LEMMA UnusedStays ==
  ASSUME Unused, UNCHANGED <<caLatest, caProfile, caRecord, caSync, caLogin>>
  PROVE  Unused'
BY DEF Unused, NotOfLast, P, Valid

\* A login that was not made before is unused.
LEMMA NextIsUnused ==
  ASSUME CaTypeOK, TokensIssued, caLogin < CaMaxLogins, caLogin' = caLogin + 1,
         UNCHANGED <<caLatest, caProfile, caRecord, caSync>>
  PROVE  Unused'
<1>1. caLogin + 1 \in 0..CaMaxLogins /\ caLogin + 1 > caLogin /\ caLogin \in Nat
  BY Types, Values
<1>2. caLatest'[caLogin'] = 0 BY <1>1 DEF TokensIssued
<1>3. \A x \in Content : IssuedTo(x) /\ Valid(x) => x.login <= caLogin /\ x.login \in Nat
  BY Values DEF IssuedTo
<1>4. \A x \in Content : IssuedTo(x) /\ Valid(x) => x.login # caLogin'
  BY <1>1, <1>3
<1>5. \A g \in Profiles :
        /\ IssuedTo(P(g).auth) /\ IssuedTo(P(g).token) /\ IssuedTo(P(g).last)
        /\ P(g).auth \in Content /\ P(g).token \in Content /\ P(g).last \in Content
  BY Types, Values DEF TokensIssued
<1>6. IssuedTo(caRecord.last) /\ caRecord.last \in Content
      /\ IssuedTo(caSync.parent) /\ caSync.parent \in Content
  BY Types, Values DEF TokensIssued
<1>7. QED BY <1>2, <1>4, <1>5, <1>6 DEF Unused, NotOfLast, P, Valid

LEMMA OwnerWritesHolds ==
  ASSUME CaInv, OwnerWrites
  PROVE  CaInv'
<1> USE DEF OwnerWrites
<1>0. /\ \A h \in Profiles : P(h)' = P(h) /\ Owns(h)' = Owns(h) /\ Unwritten(h)' = Unwritten(h)
      /\ \A x : Valid(x)' = Valid(x)
      /\ \A x : Latest(x)' = Latest(x)
      /\ UNCHANGED <<caLatest, caProfile, caRecord, caSync>>
  BY DEF P, Owns, Unwritten, Valid, Latest
<1>1. CaTypeOK' /\ caLogin' \in {caLogin, caLogin + 1}
  BY Types, Values DEF CaInv, CaTypeOK
<1>2. TokensIssued'
  <2>1. IssuedTo(caParent)'
    <3>1. CASE caParent' \in {CaNone, CaTorn} BY <3>1 DEF IssuedTo, Valid
    <3>2. CASE caParent' = [login |-> caLogin, n |-> 0] /\ caParent = CaTorn /\ caLogin' = caLogin
      BY <3>2, Types, Values DEF CaInv, IssuedTo, TornIsNew, Unused
    <3>3. QED BY <3>1, <3>2
  <2>2. \A x \in Content : IssuedTo(x) => IssuedTo(x)'
    BY <1>1, Types, Values DEF CaInv, IssuedTo, Valid
  <2>3. \A l \in 0..CaMaxLogins : l > caLogin' => l > caLogin BY <1>1, Types DEF CaInv
  <2>4. \A h \in Profiles :
          /\ IssuedTo(P(h).auth) /\ IssuedTo(P(h).token) /\ IssuedTo(P(h).last)
          /\ P(h).auth \in Content /\ P(h).token \in Content /\ P(h).last \in Content
    BY Types, Values DEF CaInv, TokensIssued
  <2>5. \A h \in Profiles :
          IssuedTo(P(h).auth)' /\ IssuedTo(P(h).token)' /\ IssuedTo(P(h).last)'
    BY <1>0, <2>2, <2>4 DEF IssuedTo, Valid
  <2>6. IssuedTo(caRecord.last)' /\ IssuedTo(caSync.parent)'
    BY <1>0, <2>2, Types, Values DEF CaInv, TokensIssued, IssuedTo, Valid
  <2>7. QED BY <1>0, <2>1, <2>3, <2>5, <2>6 DEF CaInv, TokensIssued
<1>3. RefreshIsLater' /\ OwnerShape' /\ SyncShape'
  BY <1>0 DEF CaInv, RefreshIsLater, OwnerShape, SyncShape, Free
<1>4. CASE caParent' \in {CaNone, CaTorn}
  <2>1. ~Valid(caParent)' /\ (caParent' = CaTorn => Unused')
    <3>1. caLogin \in 0..CaMaxLogins /\ [login |-> caLogin, n |-> 0] \in Token
      BY Types, Values DEF CaInv
    <3>2. caParent' = CaTorn => caLogin < CaMaxLogins /\ caLogin' = caLogin + 1
      BY <3>1, Values
    <3>3. QED BY <1>4, <3>2, NextIsUnused DEF CaInv, Valid
  <2>2. \A h \in Profiles : Unwritten(h)' => P(h)'.last # caParent'
    BY <2>1 DEF Unwritten
  <2>3. Rewritten' BY <1>4 DEF Rewritten
  <2>4. Running' BY <1>0, <2>1 DEF CaInv, Running
  <2>5. QED
    BY <1>0, <1>1, <1>2, <1>3, <2>1, <2>2, <2>3, <2>4
    DEF CaInv, TornIsNew, ReadHolds, OwnerAgrees, NothingLate, TokenKept
<1>5. CASE caParent = CaTorn /\ caParent' = [login |-> caLogin, n |-> 0] /\ caLogin' = caLogin
  <2>1. Unused /\ Unused' BY <1>0, <1>5, UnusedStays DEF CaInv, TornIsNew
  <2>2. Rewritten' BY <1>5, <2>1 DEF Rewritten
  <2>3. Latest(caParent') /\ caParent'.login = caLogin BY <1>5, <2>1 DEF Unused, Latest
  <2>4. \A h \in Profiles : /\ Valid(P(h).last) => P(h).last.login # caLogin
                            /\ Valid(P(h).token) => P(h).token.login # caLogin
    BY <2>1 DEF Unused, NotOfLast
  <2>5. Running'
    <3>1. \A h \in Profiles : P(h).token # CaNone => P(h).token.login # caLogin
      BY <2>4, Types, Values DEF CaInv, Valid
    <3>2. QED BY <1>0, <2>3, <3>1 DEF CaInv, Running
  <2>6. OwnerAgrees' /\ NothingLate'
    BY <1>0, <2>3, <2>4 DEF OwnerAgrees, NothingLate, Unwritten
  <2>7. TokenKept' BY <1>0, <2>3 DEF TokenKept, Latest
  <2>8. caParent' # CaTorn
    BY <1>5, Types, Values DEF CaInv
  <2>9. QED
    BY <1>1, <1>2, <1>3, <2>2, <2>5, <2>6, <2>7, <2>8 DEF CaInv, TornIsNew, ReadHolds
<1>6. QED BY <1>4, <1>5

\* What is known of a generation whose app-server holds a token.
LEMMA Holder ==
  ASSUME CaInv, NEW g \in Profiles, P(g).child = "runs", P(g).token # CaNone
  PROVE  /\ P(g).token \in Token /\ P(g).dir /\ P(g).local
         /\ caRecord.owner \in {0, g} /\ caSync.op \notin {"seeded", "recorded"}
         /\ \A h \in Profiles : Owns(h) => h = g
         /\ ~Owns(g) /\ Valid(caParent) => caParent.login # P(g).token.login
         /\ ~Owns(g) => P(g).changed \/ P(g).last = CaNone
         /\ Owns(g) => /\ ~P(g).changed /\ Valid(P(g).last) /\ P(g).last = caRecord.last
                       /\ P(g).auth = P(g).token /\ P(g).token.login = P(g).last.login
                       /\ P(g).last.n <= P(g).token.n
<1>1. P(g).token \in Token /\ Valid(P(g).token) BY Types, Values DEF CaInv
<1>2. /\ P(g).dir /\ P(g).local /\ caRecord.owner \in {0, g}
      /\ caSync.op \notin {"seeded", "recorded"}
      /\ ~Owns(g) /\ Valid(caParent) => caParent.login # P(g).token.login
      /\ ~Owns(g) => P(g).changed \/ P(g).last = CaNone
  BY DEF CaInv, Running
<1>3. \A h \in Profiles : Owns(h) => h = g BY <1>2 DEF Owns, Profiles
<1>4. ASSUME Owns(g)
      PROVE  /\ ~P(g).changed /\ Valid(P(g).last) /\ P(g).last = caRecord.last
             /\ P(g).auth = P(g).token /\ P(g).token.login = P(g).last.login
             /\ P(g).last.n <= P(g).token.n
  <2>1. ~P(g).changed /\ P(g).last # CaNone /\ P(g).last = caRecord.last /\ P(g).auth = P(g).token
    BY <1>4 DEF CaInv, OwnerShape
  <2>2. Valid(P(g).last) /\ P(g).last \in Token BY <2>1, Types, Values DEF CaInv, TokensIssued, Valid
  <2>3. CASE P(g).auth = P(g).last BY <2>1, <2>2, <2>3, Values
  <2>4. CASE P(g).auth # P(g).last
    BY <1>1, <2>1, <2>2, <2>4, Values DEF CaInv, RefreshIsLater, Unwritten
  <2>5. QED BY <2>1, <2>2, <2>3, <2>4
<1>5. QED BY <1>1, <1>2, <1>3, <1>4

LEMMA RefreshHolds ==
  ASSUME CaInv, NEW g \in Profiles, Refresh(g)
  PROVE  CaInv'
<1> DEFINE L == P(g).token.login
           t == [login |-> L, n |-> P(g).token.n + 1]
<1>1. /\ P(g).token \in Token /\ t \in Token /\ t.login = L /\ t.n = P(g).token.n + 1
      /\ caLatest[L] = P(g).token.n /\ t.n \in 0..CaMaxRefreshes /\ L \in 0..CaMaxLogins
      /\ P(g).token.n \in Nat /\ Valid(t)
  <2>1. P(g).token \in Token BY Types DEF CaInv, Refresh
  <2>2. t.n \in 0..CaMaxRefreshes BY <2>1, Values DEF Refresh
  <2>3. QED BY <2>1, <2>2, Values DEF Refresh
<1>2. /\ caLatest' \in [0..CaMaxLogins -> 0..CaMaxRefreshes \cup {CaNone}] /\ caLatest'[L] = t.n
      /\ \A l \in 0..CaMaxLogins : l # L => caLatest'[l] = caLatest[l]
  BY <1>1, Types DEF CaInv, Refresh
<1>3. UNCHANGED <<caParent, caRecord, caSync, caLogin, caCrashes>>
  BY DEF Refresh
<1> DEFINE y == [P(g) EXCEPT !.token = t, !.auth = t]
<1>4. /\ y \in Profile /\ caProfile' = [caProfile EXCEPT ![g] = y]
      /\ y.token = t /\ y.auth = t /\ y.dir = P(g).dir /\ y.child = P(g).child
      /\ y.local = P(g).local /\ y.last = P(g).last /\ y.changed = P(g).changed
      /\ y.watch = P(g).watch
  <2>1. P(g) \in Profile BY Types DEF CaInv, P
  <2>2. caProfile' = [caProfile EXCEPT ![g] = y] BY <2>1, Types DEF CaInv, Refresh, P, Profile
  <2>3. QED BY <1>1, <2>1, <2>2, Values DEF Profile
<1>5. P(g).child = "runs" /\ P(g).token # CaNone BY DEF Refresh
<1> HIDE DEF t, L, y
<1>6. P(g)' = y /\ \A h \in Profiles \ {g} : P(h)' = P(h)
  BY <1>4, Types DEF CaInv, P
<1>7. \A h \in Profiles : Owns(h)' = Owns(h) BY <1>3 DEF Owns
<1>8. CaTypeOK'
  BY <1>2, <1>3, <1>4, Types DEF CaInv, CaTypeOK
<1>9. TokensIssued'
  <2>1. \A x \in Content : IssuedTo(x) => IssuedTo(x)'
    BY <1>1, <1>2, <1>3, Values DEF IssuedTo, Valid
  <2>2. \A x : x = t => IssuedTo(x)'
    <3>1. L <= caLogin BY <1>1, Values, <1>5 DEF CaInv, TokensIssued, IssuedTo, L
    <3>2. t.n <= t.n BY <1>1
    <3>3. QED BY <1>1, <1>2, <1>3, <3>1, <3>2 DEF IssuedTo
  <2>3. \A h \in Profiles \ {g} : /\ IssuedTo(P(h).auth)' /\ IssuedTo(P(h).token)'
                                  /\ IssuedTo(P(h).last)' /\ P(h)'.last # CaTorn
    <3>1. \A h \in Profiles : /\ IssuedTo(P(h).auth) /\ IssuedTo(P(h).token) /\ IssuedTo(P(h).last)
                              /\ P(h).auth \in Content /\ P(h).token \in Content
                              /\ P(h).last \in Content /\ P(h).last # CaTorn
      BY Types, Values DEF CaInv, TokensIssued
    <3>2. QED BY <1>6, <2>1, <3>1 DEF IssuedTo, Valid
  <2>4. IssuedTo(P(g).auth)' /\ IssuedTo(P(g).token)' /\ IssuedTo(P(g).last)' /\ P(g)'.last # CaTorn
    <3>1. IssuedTo(P(g).last)' /\ P(g)'.last # CaTorn
      BY <1>4, <1>6, <2>1, Types, Values DEF CaInv, TokensIssued, IssuedTo, Valid
    <3>2. IssuedTo(P(g).auth)' /\ IssuedTo(P(g).token)'
      BY <1>4, <1>6, <2>2 DEF IssuedTo, Valid
    <3>3. QED BY <3>1, <3>2
  <2>5. IssuedTo(caParent)' /\ IssuedTo(caRecord.last)' /\ IssuedTo(caSync.parent)'
    BY <1>3, <2>1, Types, Values DEF CaInv, TokensIssued, IssuedTo, Valid
  <2>6. \A l \in 0..CaMaxLogins : l > caLogin' => caLatest'[l] = 0
    <3>1. ~(L > caLogin) BY <1>1, Values, Types, <1>5 DEF CaInv, TokensIssued, IssuedTo, L
    <3>2. QED BY <1>2, <1>3, <3>1 DEF CaInv, TokensIssued
  <2>7. QED BY <2>3, <2>4, <2>5, <2>6 DEF TokensIssued
<1>10. Unused => Unused'
  <2> SUFFICES ASSUME Unused PROVE Unused' OBVIOUS
  <2>1. L # caLogin BY <1>1, Values DEF Unused, NotOfLast, L
  <2>2. caLatest'[caLogin'] = 0 BY <1>2, <1>3, <2>1, Types DEF Unused, CaInv
  <2>3. QED BY <1>1, <1>3, <1>4, <1>6, <2>1, <2>2 DEF Unused, NotOfLast, Valid
<1>11. TornIsNew' /\ ReadHolds'
  BY <1>3, <1>5, <1>10, Holder DEF CaInv, TornIsNew, ReadHolds, Rewritten
<1>12. OwnerShape'
  BY <1>1, <1>2, <1>3, <1>4, <1>5, <1>6, <1>7, Holder DEF OwnerShape, Latest, Valid
<1>13. RefreshIsLater'
  <2>1. \A h \in Profiles \ {g} : Unwritten(h)' = Unwritten(h) BY <1>6 DEF Unwritten, Valid
  <2>2. Valid(P(g).last) /\ ~P(g).changed => L = P(g).last.login /\ P(g).last.n < P(g).token.n + 1
    BY <1>1, <1>5, Holder, Types, Values DEF CaInv, L, Valid
  <2>3. QED BY <1>1, <1>4, <1>6, <2>1, <2>2 DEF CaInv, RefreshIsLater, Unwritten, Valid
<1>14. OwnerAgrees'
  BY <1>3, <1>4, <1>6, <1>7 DEF CaInv, OwnerAgrees, Valid
<1>15. NothingLate'
  BY <1>3, <1>4, <1>5, <1>6, <1>7, Holder DEF CaInv, NothingLate, Unwritten, Valid
<1>16. TokenKept'
  <2> SUFFICES ASSUME Valid(caParent), caLatest'[caParent.login] # CaNone
               PROVE  \/ Latest(caParent)'
                      \/ /\ caSync.op # "seeded" /\ caRecord.last = caParent
                         /\ \E h \in Profiles :
                              /\ Owns(h)' /\ Valid(P(h)'.auth)
                              /\ P(h)'.auth.login = caParent.login /\ Latest(P(h).auth)'
    BY <1>3 DEF TokenKept, Valid
  <2>1. CASE caParent.login = L
    <3>1. Owns(g) BY <1>5, <2>1, Holder DEF L
    <3>2. caParent = P(g).last
      BY <1>5, <2>1, <3>1, Holder DEF CaInv, OwnerAgrees, L
    <3>3. QED BY <1>1, <1>2, <1>4, <1>5, <1>6, <1>7, <2>1, <3>1, <3>2, Holder DEF Latest
  <2>2. CASE caParent.login # L
    <3>1. caParent.login \in 0..CaMaxLogins BY Types, Values DEF CaInv
    <3>2. caLatest[caParent.login] = caLatest'[caParent.login] BY <1>2, <2>2, <3>1
    <3>3. ~\E h \in Profiles : Owns(h) /\ P(h).auth.login = caParent.login
      BY <1>5, <2>2, Holder DEF L
    <3>4. QED BY <1>3, <3>2, <3>3 DEF CaInv, TokenKept, Latest
  <2>3. QED BY <2>1, <2>2
<1>17. Running'
  BY <1>1, <1>3, <1>4, <1>5, <1>6, <1>7, Holder DEF CaInv, Running, Valid, L
<1>18. SyncShape'
  BY <1>3, <1>4, <1>5, <1>6, <1>7, Holder DEF CaInv, SyncShape
<1>19. QED
  BY <1>8, <1>9, <1>11, <1>12, <1>13, <1>14, <1>15, <1>16, <1>17, <1>18 DEF CaInv

\* Contents that only move stay issued, and the owner's last login unused.
LEMMA IssuedMoves ==
  ASSUME CaInv, UNCHANGED <<caLatest, caLogin>>,
         IssuedTo(caParent'), IssuedTo(caRecord'.last), IssuedTo(caSync'.parent),
         \A g \in Profiles : /\ IssuedTo(P(g)'.auth) /\ IssuedTo(P(g)'.token)
                             /\ IssuedTo(P(g)'.last) /\ P(g)'.last # CaTorn
  PROVE  TokensIssued'
BY DEF CaInv, TokensIssued, IssuedTo, Valid

LEMMA UnusedMoves ==
  ASSUME Unused, caLatest'[caLogin] = caLatest[caLogin], caLogin' = caLogin,
         NotOfLast(caRecord'.last), NotOfLast(caSync'.parent),
         \A g \in Profiles : NotOfLast(P(g)'.auth) /\ NotOfLast(P(g)'.token) /\ NotOfLast(P(g)'.last)
  PROVE  Unused'
BY DEF Unused, NotOfLast, Valid

LEMMA NothingIssued == IssuedTo(CaNone) /\ NotOfLast(CaNone) /\ ~Valid(CaNone) /\ ~Valid(CaTorn)
BY DEF IssuedTo, NotOfLast, Valid

LEMMA ChildLogsOutHolds ==
  ASSUME CaInv, NEW g \in Profiles, ChildLogsOut(g)
  PROVE  CaInv'
<1> DEFINE L == P(g).token.login
           y == [P(g) EXCEPT !.token = CaNone, !.auth = CaNone]
<1>1. /\ P(g).child = "runs" /\ P(g).token # CaNone /\ P(g).token \in Token /\ P(g).auth = P(g).token
      /\ L \in 0..CaMaxLogins
  BY Types, Values DEF CaInv, ChildLogsOut
<1>2. /\ caLatest' \in [0..CaMaxLogins -> 0..CaMaxRefreshes \cup {CaNone}] /\ caLatest'[L] = CaNone
      /\ \A l \in 0..CaMaxLogins : l # L => caLatest'[l] = caLatest[l]
  BY <1>1, Types DEF CaInv, ChildLogsOut
<1>3. UNCHANGED <<caParent, caRecord, caSync, caLogin, caCrashes>>
  BY DEF ChildLogsOut
<1>4. /\ y \in Profile /\ caProfile' = [caProfile EXCEPT ![g] = y]
      /\ y.token = CaNone /\ y.auth = CaNone /\ y.dir = P(g).dir /\ y.child = P(g).child
      /\ y.local = P(g).local /\ y.last = P(g).last /\ y.changed = P(g).changed
      /\ y.watch = P(g).watch
  <2>1. P(g) \in Profile BY Types DEF CaInv, P
  <2>2. caProfile' = [caProfile EXCEPT ![g] = y]
    BY <2>1, Types DEF CaInv, ChildLogsOut, P, Profile
  <2>3. QED BY <2>1, <2>2, Values DEF Profile
<1> HIDE DEF L, y
<1>5. P(g)' = y /\ \A h \in Profiles \ {g} : P(h)' = P(h)
  BY <1>4, Types DEF CaInv, P
<1>6. \A h \in Profiles : Owns(h)' = Owns(h) BY <1>3 DEF Owns
<1>7. CaTypeOK'
  BY <1>2, <1>3, <1>4, Types DEF CaInv, CaTypeOK
<1>8. L <= caLogin /\ (Unused => L # caLogin)
  BY <1>1, Values DEF CaInv, TokensIssued, IssuedTo, Unused, NotOfLast, L
<1>9. TokensIssued'
  <2>1. \A x \in Content : IssuedTo(x) => IssuedTo(x)'
    BY <1>2, <1>3, Values DEF IssuedTo, Valid
  <2>2. \A h \in Profiles : /\ IssuedTo(P(h).auth) /\ IssuedTo(P(h).token) /\ IssuedTo(P(h).last)
                            /\ P(h).auth \in Content /\ P(h).token \in Content
                            /\ P(h).last \in Content /\ P(h).last # CaTorn
    BY Types, Values DEF CaInv, TokensIssued
  <2>3. \A h \in Profiles \ {g} : /\ IssuedTo(P(h).auth)' /\ IssuedTo(P(h).token)'
                                  /\ IssuedTo(P(h).last)' /\ P(h)'.last # CaTorn
    BY <1>5, <2>1, <2>2 DEF IssuedTo, Valid
  <2>4. IssuedTo(P(g).auth)' /\ IssuedTo(P(g).token)' /\ IssuedTo(P(g).last)' /\ P(g)'.last # CaTorn
    BY <1>4, <1>5, <2>1, <2>2 DEF IssuedTo, Valid
  <2>5. IssuedTo(caParent)' /\ IssuedTo(caRecord.last)' /\ IssuedTo(caSync.parent)'
    BY <1>3, <2>1, Types, Values DEF CaInv, TokensIssued, IssuedTo, Valid
  <2>6. \A l \in 0..CaMaxLogins : l > caLogin' => caLatest'[l] = 0
    <3>1. ~(L > caLogin) BY <1>1, <1>8, Types, Values DEF CaInv
    <3>2. QED BY <1>2, <1>3, <3>1 DEF CaInv, TokensIssued
  <2>7. QED BY <2>3, <2>4, <2>5, <2>6 DEF TokensIssued
<1>10. Unused => Unused'
  <2> SUFFICES ASSUME Unused PROVE Unused' OBVIOUS
  <2>1. caLatest'[caLogin] = caLatest[caLogin] BY <1>2, <1>8, Types DEF CaInv
  <2>2. \A h \in Profiles : NotOfLast(P(h)'.auth) /\ NotOfLast(P(h)'.token) /\ NotOfLast(P(h)'.last)
    BY <1>4, <1>5, NothingIssued DEF Unused
  <2>3. NotOfLast(caRecord'.last) /\ NotOfLast(caSync'.parent) BY <1>3 DEF Unused
  <2>4. QED BY <1>3, <2>1, <2>2, <2>3, UnusedMoves
<1>11. TornIsNew' /\ ReadHolds'
  BY <1>1, <1>3, <1>10, Holder DEF CaInv, TornIsNew, ReadHolds, Rewritten
<1>12. OwnerShape'
  BY <1>1, <1>3, <1>4, <1>5, <1>6, Holder DEF OwnerShape, Valid, Unwritten
<1>13. RefreshIsLater'
  BY <1>4, <1>5 DEF CaInv, RefreshIsLater, Unwritten, Valid
<1>14. OwnerAgrees'
  BY <1>3, <1>4, <1>5, <1>6 DEF CaInv, OwnerAgrees, Valid
<1>15. NothingLate'
  BY <1>3, <1>4, <1>5, <1>6 DEF CaInv, NothingLate, Unwritten, Valid
<1>16. TokenKept'
  <2> SUFFICES ASSUME Valid(caParent), caLatest'[caParent.login] # CaNone
               PROVE  Latest(caParent)'
    BY <1>3 DEF TokenKept, Valid
  <2>1. caParent.login # L BY <1>2
  <2>2. caParent.login \in 0..CaMaxLogins BY Types, Values DEF CaInv
  <2>3. caLatest[caParent.login] = caLatest'[caParent.login] BY <1>2, <2>1, <2>2
  <2>4. ~\E h \in Profiles : Owns(h) /\ P(h).auth.login = caParent.login
    BY <1>1, <2>1, Holder DEF L
  <2>5. QED BY <1>3, <2>3, <2>4 DEF CaInv, TokenKept, Latest
<1>17. Running'
  BY <1>3, <1>4, <1>5, <1>6 DEF CaInv, Running, Valid
<1>18. SyncShape'
  BY <1>1, <1>3, <1>4, <1>5, <1>6, Holder DEF CaInv, SyncShape
<1>19. QED
  BY <1>7, <1>9, <1>11, <1>12, <1>13, <1>14, <1>15, <1>16, <1>17, <1>18 DEF CaInv
-----------------------------------------------------------------------------
(* A generation begins.                                                    *)

LEMMA RecordHolds ==
  ASSUME CaInv, NEW g \in Profiles, Record(g)
  PROVE  CaInv'
<1> DEFINE y == [P(g) EXCEPT !.local = TRUE]
<1>1. /\ caSync.by = g /\ caSync.op = "seeded" /\ caSync'.by = g /\ caSync'.op = "recorded"
      /\ caSync'.parent = caSync.parent
      /\ caRecord'.owner = g /\ caRecord'.last = P(g).last
      /\ UNCHANGED <<caParent, caLatest, caLogin, caCrashes>>
  BY DEF CaInv, CaTypeOK, Record
<1>2. /\ P(g).dir /\ ~P(g).local /\ ~P(g).changed /\ ~Owns(g)
      /\ P(g).child = "none" /\ P(g).watch = "none"
      /\ P(g).auth = P(g).last /\ P(g).token = P(g).last
      /\ \A h \in Profiles : P(h).child # "runs" /\ P(h).watch # "polls"
  BY <1>1 DEF CaInv, SyncShape
<1>3. /\ y \in Profile /\ caProfile' = [caProfile EXCEPT ![g] = y]
      /\ y.token = P(g).token /\ y.auth = P(g).auth /\ y.dir = P(g).dir /\ y.child = P(g).child
      /\ y.local /\ y.last = P(g).last /\ y.changed = P(g).changed /\ y.watch = P(g).watch
  <2>1. P(g) \in Profile BY Types DEF CaInv, P
  <2>2. caProfile' = [caProfile EXCEPT ![g] = y] BY <2>1, Types DEF CaInv, Record, P, Profile
  <2>3. QED BY <2>1, <2>2 DEF Profile
<1> HIDE DEF y
<1>4. P(g)' = y /\ \A h \in Profiles \ {g} : P(h)' = P(h)
  BY <1>3, Types DEF CaInv, P
<1>5. \A h \in Profiles : Owns(h)' <=> h = g BY <1>1 DEF Owns
<1>6. CaTypeOK'
  <2>1. P(g).last \in Content \ {CaTorn} BY Types DEF CaInv, TokensIssued
  <2>2. caRecord' \in [last : Content \ {CaTorn}, owner : Profiles \cup {0}]
    BY <2>1 DEF Record
  <2>3. caSync' \in [by : Profiles \cup {0}, parent : Content, auth : Content,
                     op : {"none", "poll", "final", "restore", "seeded", "recorded"}]
    BY DEF CaInv, CaTypeOK, Record
  <2>4. QED BY <1>1, <1>3, <2>2, <2>3 DEF CaInv, CaTypeOK
<1>7. \A h \in Profiles : /\ P(h)'.auth = P(h).auth /\ P(h)'.token = P(h).token
                          /\ P(h)'.last = P(h).last /\ P(h)'.changed = P(h).changed
  BY <1>3, <1>4
<1>8. TokensIssued'
  BY <1>1, <1>7, IssuedMoves DEF CaInv, TokensIssued
<1>9. Unused => Unused'
  BY <1>1, <1>7, UnusedMoves DEF Unused
<1>10. TornIsNew' /\ ReadHolds'
  BY <1>1, <1>7, <1>9 DEF CaInv, TornIsNew, ReadHolds, Rewritten, Syncs
<1>11. OwnerShape'
  BY <1>1, <1>2, <1>3, <1>4, <1>5 DEF OwnerShape, Unwritten
<1>12. RefreshIsLater'
  BY <1>7 DEF CaInv, RefreshIsLater, Unwritten, Valid
<1>13. OwnerAgrees'
  BY <1>1, <1>5, <1>7 DEF CaInv, OwnerAgrees, Valid
<1>14. NothingLate'
  BY <1>1, <1>3, <1>4, <1>5, <1>7 DEF CaInv, NothingLate, Unwritten, Valid
<1>15. TokenKept'
  BY <1>1 DEF CaInv, TokenKept, Valid, Latest
<1>16. Running'
  BY <1>1, <1>2, <1>3, <1>4, <1>5, Types DEF CaInv, Running
<1>17. SyncShape'
  BY <1>1, <1>2, <1>3, <1>4, <1>5 DEF CaInv, SyncShape, Syncs
<1>18. QED
  BY <1>6, <1>8, <1>10, <1>11, <1>12, <1>13, <1>14, <1>15, <1>16, <1>17, <1>9 DEF CaInv

LEMMA ReclaimAndRunHolds ==
  ASSUME CaInv, NEW g \in Profiles, ReclaimAndRun(g)
  PROVE  CaInv'
<1>1. /\ caSync.by = g /\ caSync.op = "recorded" /\ caSync' = Free
      /\ UNCHANGED <<caParent, caLatest, caRecord, caLogin, caCrashes>>
  BY DEF ReclaimAndRun
<1>2. /\ Owns(g) /\ P(g).local /\ P(g).child = "none"
      /\ \A h \in Profiles : P(h).child # "runs" /\ P(h).watch # "polls"
      /\ \A h \in Profiles : Owns(h) => h = g
  BY <1>1 DEF CaInv, SyncShape, Owns
<1>3. \A h \in Profiles :
        P(h)' = CASE h = g -> [P(h) EXCEPT !.child = "runs", !.watch = "polls"]
                  [] h \in Reclaimed(g) -> [P(h) EXCEPT !.dir = FALSE, !.auth = CaNone]
                  [] OTHER -> P(h)
  BY DEF ReclaimAndRun, P
<1>4. /\ P(g)'.child = "runs" /\ P(g)'.watch = "polls" /\ P(g)'.auth = P(g).auth
      /\ P(g)'.dir = P(g).dir
      /\ \A h \in Profiles : /\ P(h)'.token = P(h).token /\ P(h)'.last = P(h).last
                             /\ P(h)'.changed = P(h).changed /\ P(h)'.local = P(h).local
                             /\ P(h)'.auth \in {P(h).auth, CaNone}
      /\ \A h \in Profiles \ {g} :
           /\ P(h)'.child = P(h).child /\ P(h)'.watch = P(h).watch
           /\ P(h)'.dir => P(h).dir /\ h \notin Reclaimed(g)
  <2>1. \A h \in Profiles : P(h) \in Profile BY Types DEF CaInv, P
  <2>2. \A h \in Profiles \ {g} : h \in Reclaimed(g) => P(h)' = [P(h) EXCEPT !.dir = FALSE, !.auth = CaNone]
    BY <1>3
  <2>3. \A h \in Profiles \ {g} : h \notin Reclaimed(g) => P(h)' = P(h)
    BY <1>3
  <2>4. P(g)' = [P(g) EXCEPT !.child = "runs", !.watch = "polls"]
    BY <1>3 DEF Reclaimed
  <2>5. \A h \in Profiles \ {g} :
          /\ P(h)'.token = P(h).token /\ P(h)'.last = P(h).last
          /\ P(h)'.changed = P(h).changed /\ P(h)'.local = P(h).local
          /\ P(h)'.auth \in {P(h).auth, CaNone}
          /\ P(h)'.child = P(h).child /\ P(h)'.watch = P(h).watch
          /\ P(h)'.dir => P(h).dir /\ h \notin Reclaimed(g)
    BY <2>1, <2>2, <2>3 DEF Profile
  <2>6. /\ P(g)'.child = "runs" /\ P(g)'.watch = "polls" /\ P(g)'.auth = P(g).auth
        /\ P(g)'.dir = P(g).dir /\ P(g)'.token = P(g).token /\ P(g)'.last = P(g).last
        /\ P(g)'.changed = P(g).changed /\ P(g)'.local = P(g).local
    BY <2>1, <2>4 DEF Profile
  <2>7. QED BY <2>5, <2>6
<1>5. CaTypeOK'
  <2>1. \A h \in Profiles : P(h)' \in Profile
    <3>1. \A h \in Profiles : P(h) \in Profile BY Types DEF CaInv, P
    <3>2. \A p \in Profile : /\ [p EXCEPT !.child = "runs", !.watch = "polls"] \in Profile
                             /\ [p EXCEPT !.dir = FALSE, !.auth = CaNone] \in Profile
      BY Values DEF Profile
    <3>3. g \notin Reclaimed(g) BY DEF Reclaimed
    <3>4. QED BY <1>3, <3>1, <3>2, <3>3
  <2>2. caProfile' \in [Profiles -> Profile]
    BY <2>1 DEF ReclaimAndRun, P
  <2>3. Free \in [by : Profiles \cup {0}, parent : Content, auth : Content,
                 op : {"none", "poll", "final", "restore", "seeded", "recorded"}]
    BY Values DEF Free
  <2>4. QED BY <1>1, <2>2, <2>3 DEF CaInv, CaTypeOK
<1>6. \A h \in Profiles : Owns(h)' = Owns(h) BY <1>1 DEF Owns
<1>7. caSync'.op = "none" /\ caSync'.parent = CaNone /\ caSync'.by = 0 /\ 0 \notin Profiles
  BY <1>1 DEF Free, Profiles
<1>8. TokensIssued'
  BY <1>1, <1>4, <1>7, IssuedMoves, NothingIssued DEF CaInv, TokensIssued
<1>9. Unused => Unused'
  BY <1>1, <1>4, <1>7, UnusedMoves, NothingIssued DEF Unused
<1>10. TornIsNew' /\ ReadHolds'
  BY <1>1, <1>7, <1>9 DEF CaInv, TornIsNew, ReadHolds, Syncs
<1>11. \A h \in Profiles : Unwritten(h)' => Unwritten(h) /\ P(h)'.auth = P(h).auth
  BY <1>4 DEF Unwritten, Valid
<1>12. OwnerShape'
  BY <1>1, <1>2, <1>4, <1>6, <1>11 DEF CaInv, OwnerShape, Latest
<1>13. RefreshIsLater'
  BY <1>4, <1>11 DEF CaInv, RefreshIsLater
<1>14. OwnerAgrees'
  BY <1>1, <1>2, <1>4, <1>6, <1>7 DEF CaInv, OwnerAgrees, Valid
<1>15. NothingLate'
  BY <1>1, <1>4, <1>6, <1>7, <1>11 DEF CaInv, NothingLate
<1>16. TokenKept'
  BY <1>1, <1>2, <1>4, <1>6, <1>7 DEF CaInv, TokenKept, Valid, Latest
<1>17. Running'
  <2>1. P(g).dir /\ caRecord.owner = g BY <1>2 DEF CaInv, OwnerShape, Owns
  <2>2. \A h \in Profiles \ {g} : P(h)'.dir => P(h).local
    BY <1>4 DEF Reclaimed
  <2>3. \A h \in Profiles \ {g} :
          /\ P(h)'.child # "runs" /\ P(h)'.watch # "polls"
          /\ P(h)'.watch \in {"polls", "stops"} => P(h)'.local
          /\ P(h)'.watch = "stops" => P(h)'.child = "ended"
          /\ P(h)'.local /\ P(h)'.child = "none" => FALSE
          /\ P(h)'.local /\ ~Owns(h)' =>
               P(h)'.changed \/ P(h)'.last = CaNone \/ P(h)'.child = "ended"
    BY <1>1, <1>2, <1>4, <1>6 DEF CaInv, Running
  <2>4. P(g)'.local /\ Owns(g)' /\ P(g)'.dir /\ caRecord'.owner = g
    BY <1>1, <1>2, <1>4, <1>6, <2>1
  <2>5. \A h \in Profiles \ {g} : P(h)'.dir => P(h)'.local BY <1>4, <2>2
  <2>6. QED BY <1>4, <1>7, <2>3, <2>4, <2>5 DEF Running
<1>18. SyncShape'
  BY <1>1, <1>7 DEF SyncShape, Syncs
<1>19. QED
  BY <1>5, <1>8, <1>10, <1>12, <1>13, <1>14, <1>15, <1>16, <1>17, <1>18 DEF CaInv

\* What the owner of the record would write never is what another generation
\* with a refresh once agreed on.
LEMMA NoReturn ==
  ASSUME CaInv, NEW o \in Profiles, Owns(o), Valid(P(o).auth),
         P(o).last = caParent \/ Unwritten(o), P(o).auth = caParent \/ Unwritten(o),
         NEW h \in Profiles, Unwritten(h), ~P(h).changed, P(h).last # caParent
  PROVE  P(h).last # P(o).auth
<1>1. CASE P(o).auth = caParent BY <1>1
<1>2. CASE Unwritten(o)
  <2>1. Latest(P(o).auth) BY <1>2 DEF CaInv, OwnerShape
  <2>2. /\ P(h).auth.login = P(h).last.login /\ P(h).last.n < P(h).auth.n
        /\ P(h).auth \in Token /\ P(h).last \in Token
    BY Types, Values DEF CaInv, RefreshIsLater, Unwritten
  <2>3. caLatest[P(h).auth.login] = CaNone \/ P(h).auth.n <= caLatest[P(h).auth.login]
    BY DEF CaInv, TokensIssued, IssuedTo, Unwritten
  <2> SUFFICES ASSUME P(h).last = P(o).auth PROVE FALSE OBVIOUS
  <2>4. caLatest[P(h).last.login] = P(h).last.n BY <2>1 DEF Latest
  <2>5. P(h).last.n # CaNone /\ P(h).last.n \in Nat /\ P(h).auth.n \in Nat BY <2>2, Values
  <2>6. QED BY <2>2, <2>3, <2>4, <2>5
<1>3. QED BY <1>1, <1>2

LEMMA SeedHolds ==
  ASSUME CaInv, NEW g \in Profiles, Seed(g)
  PROVE  CaInv'
<1> DEFINE o == caRecord.owner
           c == IF Recovers THEN P(o).auth ELSE caParent
           y == [P(g) EXCEPT !.dir = TRUE, !.auth = Seeded(c), !.token = Seeded(c), !.last = Seeded(c)]
<1>1. /\ caSync = Free /\ P(g) = NoProfile
      /\ \A h \in Profiles : P(h).child # "runs" /\ P(h).watch # "polls"
      /\ caParent' = c /\ caSync' = [Free EXCEPT !.by = g, !.op = "seeded"]
      /\ UNCHANGED <<caLatest, caRecord, caLogin, caCrashes>>
  BY DEF Seed, Unlocked
<1>2. Recovers => /\ o \in Profiles /\ Owns(o) /\ Valid(P(o).auth) /\ Valid(caParent)
                  /\ P(o).last = caParent /\ P(o).auth \in Content
  BY Types DEF CaInv, Recovers, OwnerShape, Owns
<1>3. c \in Content /\ IssuedTo(c) /\ (Valid(c) \/ c = caParent)
  <2>1. CASE Recovers BY <1>2, <2>1 DEF CaInv, TokensIssued
  <2>2. CASE ~Recovers BY <2>2, Types DEF CaInv, TokensIssued
  <2>3. QED BY <2>1, <2>2
<1>4. /\ Seeded(c) \in Token \cup {CaNone} /\ Seeded(c) \in Content /\ IssuedTo(Seeded(c))
      /\ (Valid(c) => Seeded(c) = c) /\ (~Valid(c) => Seeded(c) = CaNone /\ c \in {CaNone, CaTorn})
      /\ Seeded(c) # CaTorn
  BY <1>3, NothingIssued, Values DEF Seeded, Valid
<1>5. /\ y \in Profile /\ y.dir /\ y.auth = Seeded(c) /\ y.token = Seeded(c) /\ y.last = Seeded(c)
      /\ ~y.local /\ ~y.changed /\ y.child = "none" /\ y.watch = "none"
      /\ caProfile' = [caProfile EXCEPT ![g] = y]
  <2>1. P(g) \in Profile BY Types DEF CaInv, P
  <2>2. caProfile' = [caProfile EXCEPT ![g] = y] BY <2>1, Types DEF CaInv, Seed, P, Profile
  <2>3. \A x \in Token \cup {CaNone} :
          [P(g) EXCEPT !.dir = TRUE, !.auth = x, !.token = x, !.last = x] \in Profile
    BY <2>1, Values DEF Profile
  <2>4. ~P(g).local /\ ~P(g).changed /\ P(g).child = "none" /\ P(g).watch = "none"
    BY <1>1 DEF NoProfile
  <2>5. QED BY <1>4, <2>1, <2>2, <2>3, <2>4 DEF Profile
<1>6. P(g)' = y /\ \A h \in Profiles \ {g} : P(h)' = P(h)
  BY <1>5, Types DEF CaInv, P
<1>7. ~Owns(g) /\ \A h \in Profiles : Owns(h)' = Owns(h)
  BY <1>1 DEF CaInv, OwnerShape, NoProfile, Owns
<1>8. caSync'.by = g /\ caSync'.op = "seeded" /\ caSync'.parent = CaNone /\ caSync.op = "none"
  BY <1>1 DEF Free
<1> HIDE DEF c, y, o
<1>9. CaTypeOK'
  <2>1. caSync' \in [by : Profiles \cup {0}, parent : Content, auth : Content,
                     op : {"none", "poll", "final", "restore", "seeded", "recorded"}]
    BY <1>1, Values DEF Free
  <2>2. QED BY <1>1, <1>3, <1>5, <2>1 DEF CaInv, CaTypeOK
<1>10. TokensIssued'
  <2>1. \A h \in Profiles : /\ IssuedTo(P(h)'.auth) /\ IssuedTo(P(h)'.token)
                            /\ IssuedTo(P(h)'.last) /\ P(h)'.last # CaTorn
    BY <1>4, <1>5, <1>6 DEF CaInv, TokensIssued
  <2>2. QED BY <1>1, <1>3, <1>8, <2>1, IssuedMoves, NothingIssued DEF CaInv, TokensIssued
<1>11. ~Valid(c) /\ Unused => Unused'
  BY <1>1, <1>4, <1>5, <1>6, <1>8, UnusedMoves, NothingIssued DEF Unused
<1>12. TornIsNew'
  BY <1>1, <1>3, <1>11 DEF CaInv, TornIsNew, Valid
<1>13. ReadHolds'
  BY <1>1, <1>4, <1>5, <1>6, <1>8 DEF ReadHolds, Rewritten, Syncs
<1>14. \A h \in Profiles : Unwritten(h)' <=> h # g /\ Unwritten(h)
  BY <1>5, <1>6 DEF Unwritten, Valid
<1>15. OwnerShape'
  BY <1>1, <1>6, <1>7, <1>14 DEF CaInv, OwnerShape, Latest
<1>16. RefreshIsLater'
  BY <1>6, <1>14 DEF CaInv, RefreshIsLater
<1>17. OwnerAgrees'
  BY <1>1, <1>4, <1>5, <1>6, <1>8 DEF OwnerAgrees, Valid
<1>18. NothingLate'
  <2> SUFFICES ASSUME NEW h \in Profiles, h # g, Unwritten(h), ~P(h).changed,
                      Owns(h) \/ (~Owns(h) /\ P(h).local)
               PROVE  c # P(h).last
    BY <1>1, <1>5, <1>6, <1>7, <1>14 DEF NothingLate
  <2>1. CASE Owns(h)
    <3>1. h = o BY <2>1 DEF Owns, o
    <3>2. P(h).dir /\ caRecord.last = P(h).last BY <2>1 DEF CaInv, OwnerShape
    <3>3. CASE Recovers BY <3>1, <3>3 DEF Unwritten, c
    <3>4. CASE ~Recovers
      <4>1. caRecord.owner # 0 BY <3>1 DEF o, Profiles
      <4>2. caParent # P(h).last BY <3>1, <3>2, <3>4, <4>1 DEF Recovers, Unwritten, o
      <4>3. QED BY <3>4, <4>2 DEF c
    <3>5. QED BY <3>3, <3>4
  <2>2. CASE ~Owns(h) /\ P(h).local
    <3>1. caParent # P(h).last BY <2>2 DEF CaInv, NothingLate
    <3>2. CASE Recovers
      <4>1. P(o).auth = caParent \/ Unwritten(o) BY <1>2, <3>2 DEF Unwritten
      <4>2. QED BY <1>2, <3>1, <3>2, <4>1, NoReturn DEF c
    <3>3. CASE ~Recovers BY <3>1, <3>3 DEF c
    <3>4. QED BY <3>2, <3>3
  <2>3. QED BY <2>1, <2>2
<1>19. TokenKept'
  <2> SUFFICES ASSUME Valid(c), caLatest[c.login] # CaNone PROVE Latest(c)
    BY <1>1 DEF TokenKept, Valid, Latest
  <2>1. CASE Recovers
    <3>1. CASE P(o).auth = caParent
      <4>1. c = caParent BY <2>1, <3>1 DEF c
      <4>2. \A h \in Profiles : Owns(h) => h = o BY DEF Owns, o
      <4>3. QED BY <3>1, <4>1, <4>2 DEF CaInv, TokenKept
    <3>2. CASE P(o).auth # caParent
      BY <1>2, <2>1, <3>2 DEF CaInv, OwnerShape, Unwritten, c
    <3>3. QED BY <3>1, <3>2
  <2>2. CASE ~Recovers
    <3>1. c = caParent BY <2>2 DEF c
    <3>2. SUFFICES ASSUME NEW h \in Profiles, Owns(h), Valid(P(h).auth), caRecord.last = caParent
                   PROVE  Recovers
      BY <2>2, <3>1 DEF CaInv, TokenKept
    <3>3. P(h).dir /\ caRecord.owner = h /\ h # 0 BY <3>2 DEF CaInv, OwnerShape, Owns, Profiles
    <3>4. QED BY <3>1, <3>2, <3>3 DEF Recovers
  <2>3. QED BY <2>1, <2>2
<1>20. Running'
  BY <1>1, <1>5, <1>6, <1>7, <1>8 DEF CaInv, Running
<1>21. SyncShape'
  BY <1>1, <1>5, <1>6, <1>7, <1>8 DEF SyncShape, Syncs
<1>22. QED
  BY <1>9, <1>10, <1>12, <1>13, <1>15, <1>16, <1>17, <1>18, <1>19, <1>20, <1>21 DEF CaInv
-----------------------------------------------------------------------------
(* A synchronisation has one of three outcomes.                            *)

\* Nothing is written.
Stayed(g, r) ==
  /\ r.parent = caParent /\ r.record = caRecord
  /\ r.profile.auth = P(g).auth /\ r.profile.last = P(g).last /\ r.profile.changed = P(g).changed
  /\ Owns(g) /\ caSync.auth = P(g).auth /\ Valid(caParent) /\ caLatest[caParent.login] # CaNone =>
       Latest(caParent)

\* The record is given up: the parent is gone, or another login.
MovedOn(g) ==
  Valid(caParent) =>
    /\ caLatest[caParent.login] # CaNone => Latest(caParent)
    /\ Valid(P(g).token) => caParent.login # P(g).token.login
GaveUp(g, r) ==
  /\ Owns(g) /\ r.record = Unowned(r.profile.last)
  /\ r.parent = CaNone \/ (r.parent = caParent /\ MovedOn(g))
  /\ r.profile.last = CaNone \/ r.profile.changed
  /\ r.profile.auth \in {CaNone, P(g).auth} \/ (Valid(caParent) /\ r.profile.auth = caParent)
  /\ r.profile.last \in {CaNone, caSync.parent} \/ (Valid(caParent) /\ r.profile.last = caParent)
  /\ r.profile.last # CaTorn

\* Both files and the record agree on the last token.
Wrote(g, r) ==
  /\ Owns(g) /\ r.record = Owned(g, r.parent)
  /\ r.profile.auth = r.parent /\ r.profile.last = r.parent /\ r.profile.changed = P(g).changed
  /\ Valid(r.parent) /\ (caLatest[r.parent.login] # CaNone => Latest(r.parent))
  /\ \/ r.parent = caParent
     \/ r.parent = P(g).auth /\ caParent = P(g).last
  /\ P(g).token # CaNone => P(g).token = r.parent

Rest(g, r) ==
  /\ r.profile \in Profile
  /\ r.profile.dir = P(g).dir /\ r.profile.child = P(g).child /\ r.profile.local = P(g).local
  /\ r.profile.token = P(g).token /\ r.profile.watch = P(g).watch

\* What the lock holder who owns the record knows of the parent.
LEMMA ParentKnown ==
  ASSUME CaInv, NEW g \in Profiles, Owns(g), caSync.by = g, caSync.op \in Syncs
  PROVE  /\ P(g).local /\ caSync.op # "seeded"
         /\ caParent # caSync.parent => MovedOn(g) /\ (Valid(caParent) => caParent # P(g).last)
         /\ Valid(caParent) /\ Valid(P(g).last) /\ caParent # P(g).last => MovedOn(g)
         /\ P(g).auth = P(g).last \/ ~Valid(P(g).auth) =>
              (Valid(caParent) /\ caLatest[caParent.login] # CaNone => Latest(caParent))
<1>1. P(g).local /\ caSync.op # "seeded" BY DEF CaInv, SyncShape, Syncs
<1>2. caParent = caSync.parent \/ Rewritten BY DEF CaInv, ReadHolds
<1>3. ASSUME caParent = [login |-> caLogin, n |-> 0], Unused
      PROVE  MovedOn(g) /\ caParent # P(g).last
  <2>1. caParent.login = caLogin /\ Latest(caParent) BY <1>3 DEF Unused, Latest
  <2>2. /\ Valid(P(g).token) => P(g).token.login # caLogin
        /\ Valid(P(g).last) => P(g).last.login # caLogin
    BY <1>3 DEF Unused, NotOfLast
  <2>3. Valid(caParent) BY <1>3, Types, Values DEF CaInv
  <2>4. QED BY <2>1, <2>2, <2>3 DEF MovedOn
<1>4. caParent # caSync.parent => MovedOn(g) /\ (Valid(caParent) => caParent # P(g).last)
  BY <1>2, <1>3 DEF Rewritten, MovedOn, Valid
<1>5. \A h \in Profiles : Owns(h) => h = g BY DEF Owns
<1>6. /\ caRecord.last = P(g).last
      /\ P(g).token # CaNone => P(g).auth = P(g).token
      /\ ~P(g).changed
  BY DEF CaInv, OwnerShape
<1>7. ASSUME Valid(caParent), Valid(P(g).last), caParent # P(g).last
      PROVE  MovedOn(g)
  <2>1. caParent.login # P(g).last.login BY <1>1, <1>7 DEF CaInv, OwnerAgrees
  <2>2. Valid(P(g).token) => P(g).token.login = P(g).last.login
    <3>1. Valid(P(g).token) => P(g).auth = P(g).token BY <1>6 DEF Valid
    <3>2. QED BY <1>6, <1>7, <3>1 DEF CaInv, RefreshIsLater, Unwritten
  <2>3. caLatest[caParent.login] # CaNone => Latest(caParent)
    BY <1>5, <1>6, <1>7 DEF CaInv, TokenKept
  <2>4. QED BY <2>1, <2>2, <2>3 DEF MovedOn
<1>8. ASSUME P(g).auth = P(g).last \/ ~Valid(P(g).auth), Valid(caParent),
             caLatest[caParent.login] # CaNone
      PROVE  Latest(caParent)
  <2>1. SUFFICES ASSUME caRecord.last = caParent, Valid(P(g).auth), Latest(P(g).auth)
                 PROVE  Latest(caParent)
    BY <1>5, <1>8 DEF CaInv, TokenKept
  <2>2. P(g).auth = caParent BY <1>6, <1>8, <2>1
  <2>3. QED BY <2>1, <2>2
<1>9. QED BY <1>1, <1>4, <1>7, <1>8

\* A result and everything in it.
Gives(g, r, parent, record, auth, last, changed) ==
  /\ Rest(g, r) /\ r.parent = parent /\ r.record = record
  /\ r.profile.auth = auth /\ r.profile.last = last /\ r.profile.changed = changed

\* The shapes of a result.
EndedProfile(r) == [r EXCEPT !.ends = TRUE]
Agreed(r, y) == [r EXCEPT !.profile.last = y]
Copied(r, x, y) == [r EXCEPT !.profile.auth = x, !.profile.last = y]
Changed(r, x, y) ==
  [r EXCEPT !.profile.changed = TRUE, !.profile.last = y, !.profile.auth = x]

LEMMA ProfileWrites ==
  ASSUME NEW g \in Profiles, P(g) \in Profile, NEW p, NEW c, NEW e
  PROVE  LET r == Result(g, p, c, e) IN
         /\ Gives(g, r, p, c, P(g).auth, P(g).last, P(g).changed)
         /\ Gives(g, EndedProfile(r), p, c, P(g).auth, P(g).last, P(g).changed)
         /\ \A y \in Content : Gives(g, Agreed(r, y), p, c, P(g).auth, y, P(g).changed)
         /\ \A x, y \in Content : Gives(g, Copied(r, x, y), p, c, x, y, P(g).changed)
         /\ \A x, y \in Content : Gives(g, Changed(r, x, y), p, c, x, y, TRUE)
<1>1. Gives(g, Result(g, p, c, e), p, c, P(g).auth, P(g).last, P(g).changed)
  BY DEF Result, Rest, Gives, Profile
<1>2. Gives(g, [Result(g, p, c, e) EXCEPT !.ends = TRUE], p, c, P(g).auth, P(g).last, P(g).changed)
  BY DEF Result, Rest, Gives, Profile
<1>3. ASSUME NEW y \in Content
      PROVE  Gives(g, [Result(g, p, c, e) EXCEPT !.profile.last = y],
                   p, c, P(g).auth, y, P(g).changed)
  <2>1. [Result(g, p, c, e) EXCEPT !.profile.last = y]
          = [Result(g, p, c, e) EXCEPT !.profile = [P(g) EXCEPT !.last = y]]
    BY DEF Result
  <2>2. [P(g) EXCEPT !.last = y] \in Profile BY DEF Profile
  <2>3. QED BY <2>1, <2>2 DEF Result, Rest, Gives, Profile
<1>4. ASSUME NEW x \in Content, NEW y \in Content
      PROVE  Gives(g, [Result(g, p, c, e) EXCEPT !.profile.auth = x, !.profile.last = y],
                   p, c, x, y, P(g).changed)
  BY DEF Result, Rest, Gives, Profile
<1>5. ASSUME NEW x \in Content, NEW y \in Content
      PROVE  Gives(g, [Result(g, p, c, e) EXCEPT !.profile.changed = TRUE,
                         !.profile.last = y, !.profile.auth = x],
                   p, c, x, y, TRUE)
  BY DEF Result, Rest, Gives, Profile
<1>6. QED BY <1>1, <1>2, <1>3, <1>4, <1>5 DEF EndedProfile, Agreed, Copied, Changed

LEMMA SyncedIs ==
  ASSUME CaInv, NEW g \in Profiles, caSync.by = g, caSync.op \in Syncs
  PROVE  LET r == Synced(g) IN Rest(g, r) /\ (Stayed(g, r) \/ GaveUp(g, r) \/ Wrote(g, r))
<1> DEFINE r == Synced(g)
           read == caSync.parent
           auth == caSync.auth
           last == P(g).last
           kept == Result(g, caParent, caRecord, FALSE)
<1>1. /\ P(g) \in Profile /\ caParent \in Content /\ read \in Content /\ auth \in Content
      /\ P(g).auth \in Content /\ last \in Content /\ last # CaTorn /\ CaNone \in Content
      /\ P(g).token \in Token \cup {CaNone}
      /\ caRecord = [last |-> caRecord.last, owner |-> caRecord.owner]
  BY Types, Values DEF CaInv, TokensIssued, P
<1>2. Owns(g) => /\ caRecord.last = last /\ ~P(g).changed /\ caRecord.owner = g
                 /\ last = CaNone => P(g).token = CaNone /\ P(g).auth = CaNone
                 /\ Unwritten(g) => Latest(P(g).auth)
                 /\ P(g).token # CaNone => P(g).auth = P(g).token
  BY DEF CaInv, OwnerShape, Owns
<1>3. ASSUME P(g).auth = auth /\ Owns(g) /\ Valid(caParent) /\ caLatest[caParent.login] # CaNone
               => Latest(caParent)
      PROVE  Rest(g, kept) /\ Stayed(g, kept)
  <2>1. Gives(g, kept, caParent, caRecord, P(g).auth, last, P(g).changed) BY <1>1, ProfileWrites
  <2> HIDE DEF kept
  <2>2. QED BY <1>3, <2>1 DEF Stayed, Gives
<1>4. CASE ~Owns(g)
  <2>1. r = EndedProfile(kept) BY <1>4 DEF Synced, EndedProfile
  <2>2. Gives(g, r, caParent, caRecord, P(g).auth, last, P(g).changed) BY <1>1, <2>1, ProfileWrites
  <2> HIDE DEF r
  <2>3. QED BY <1>4, <2>2 DEF Stayed, Gives, r
<1>5. CASE Owns(g) /\ read = CaNone
  <2>1. r = Copied(Result(g, caParent, IF last # CaNone THEN Unowned(CaNone) ELSE caRecord,
                          last # CaNone), CaNone, CaNone)
    BY <1>5 DEF Synced, Valid, Copied
  <2>2. MovedOn(g)
    BY <1>5, ParentKnown DEF MovedOn, Valid
  <2>3. Gives(g, r, caParent, IF last # CaNone THEN Unowned(CaNone) ELSE caRecord,
              CaNone, CaNone, P(g).changed)
    BY <1>1, <2>1, ProfileWrites
  <2> HIDE DEF r
  <2>4. CASE last # CaNone BY <1>1, <1>5, <2>2, <2>3, <2>4, Values DEF GaveUp, Gives, r
  <2>5. CASE last = CaNone BY <1>1, <1>2, <1>5, <2>2, <2>3, <2>5, ParentKnown DEF Stayed, MovedOn, Gives, Valid, r
  <2>6. QED BY <2>4, <2>5
<1>6. CASE Owns(g) /\ read # CaNone /\ CaTorn \in {read, auth}
  <2>1. r = kept
    <3>1. ~Valid(read) \/ auth = CaTorn BY <1>6 DEF Valid
    <3>2. auth = CaTorn => auth # CaNone /\ ~Valid(auth) BY Values DEF Valid
    <3>3. ~Valid(read) => read = CaTorn BY <1>6, Values DEF Valid
    <3>4. QED BY <1>6, <3>1, <3>2, <3>3 DEF Synced
  <2>2. CASE read = CaTorn
    <3>1. Valid(caParent) => MovedOn(g) BY <1>6, <2>2, ParentKnown DEF Valid
    <3>2. QED BY <1>3, <2>1, <3>1 DEF MovedOn
  <2>3. CASE auth = CaTorn
    <3>1. P(g).auth = auth => ~Valid(P(g).auth) BY <2>3 DEF Valid
    <3>2. QED BY <1>3, <1>6, <2>1, <3>1, ParentKnown
  <2>4. QED BY <1>6, <2>2, <2>3
<1>7. CASE Owns(g) /\ Valid(read) /\ auth # CaTorn /\ last = CaNone
  <2>1. r = IF Valid(caParent)
            THEN Copied(Result(g, caParent, Owned(g, caParent), FALSE), caParent, caParent)
            ELSE kept
    BY <1>7 DEF Synced, Valid, Copied
  <2>2. CASE Valid(caParent)
    <3>1. Gives(g, r, caParent, Owned(g, caParent), caParent, caParent, P(g).changed)
      BY <1>1, <2>1, <2>2, ProfileWrites
    <3>2. ~Valid(P(g).auth) BY <1>2, <1>7 DEF Valid
    <3>3. caLatest[caParent.login] # CaNone => Latest(caParent)
      BY <1>7, <2>2, <3>2, ParentKnown
    <3> HIDE DEF r
    <3>4. Wrote(g, r) BY <1>2, <1>7, <2>2, <3>1, <3>3 DEF Wrote, Gives
    <3>5. QED BY <3>1, <3>4 DEF Gives, r
  <2>3. CASE ~Valid(caParent) BY <1>3, <2>1, <2>3
  <2>4. QED BY <2>2, <2>3
<1>8. ASSUME Owns(g), r = Adopted(g, IF Valid(caParent) THEN caParent ELSE read),
             Valid(read), MovedOn(g)
      PROVE  Rest(g, r) /\ GaveUp(g, r)
  <2> DEFINE c == IF Valid(caParent) THEN caParent ELSE read
             x == IF Valid(caParent) THEN caParent ELSE P(g).auth
  <2>1. c \in Content /\ x \in Content /\ Valid(c) BY <1>1, <1>8
  <2>2. r = Changed(Result(g, caParent, Unowned(c), TRUE), x, c)
    BY <1>8 DEF Adopted, Result, Changed
  <2> HIDE DEF r
  <2>3. Gives(g, r, caParent, Unowned(c), x, c, TRUE) BY <1>1, <2>1, <2>2, ProfileWrites
  <2>4. QED BY <1>8, <2>1, <2>3 DEF GaveUp, Gives, Valid
<1>9. CASE Owns(g) /\ Valid(read) /\ auth # CaTorn /\ last \notin {CaNone, read}
  <2>1. r = Adopted(g, read) BY <1>9 DEF Synced, Valid
  <2>2. Adopted(g, read) = Adopted(g, IF Valid(caParent) THEN caParent ELSE read)
    BY DEF Adopted
  <2>3. Valid(last) BY <1>1, <1>9 DEF Valid
  <2>4. MovedOn(g)
    <3>1. CASE caParent = read BY <1>9, <2>3, <3>1, ParentKnown
    <3>2. CASE caParent # read BY <1>9, <3>2, ParentKnown
    <3>3. QED BY <3>1, <3>2
  <2>5. QED BY <1>8, <1>9, <2>1, <2>2, <2>4
<1>10. CASE Owns(g) /\ Valid(read) /\ auth = CaNone /\ last = read
  <2>1. r = Agreed(Result(g, CaNone, Unowned(CaNone), TRUE), CaNone)
    BY <1>10, Values DEF Synced, Valid, Agreed
  <2>2. Gives(g, r, CaNone, Unowned(CaNone), P(g).auth, CaNone, P(g).changed)
    BY <1>1, <2>1, ProfileWrites
  <2> HIDE DEF r
  <2>3. GaveUp(g, r) BY <1>10, <2>2, Values DEF GaveUp, Gives
  <2>4. QED BY <2>2, <2>3 DEF Gives, r
<1>11. CASE Owns(g) /\ Valid(read) /\ Valid(auth) /\ last = read /\ auth # last
  <2>1. r = IF Copies(g)
            THEN Agreed(Result(g, P(g).auth, Owned(g, P(g).auth), FALSE), P(g).auth)
            ELSE IF Valid(caParent) /\ caParent # last THEN Adopted(g, caParent) ELSE kept
    BY <1>11 DEF Synced, Valid, Agreed
  <2>2. CASE Copies(g)
    <3>0. r = Agreed(Result(g, P(g).auth, Owned(g, P(g).auth), FALSE), P(g).auth)
      BY <2>1, <2>2
    <3>1. Gives(g, r, P(g).auth, Owned(g, P(g).auth), P(g).auth, P(g).auth, P(g).changed)
      <4> HIDE DEF r
      <4>1. Gives(g, Agreed(Result(g, P(g).auth, Owned(g, P(g).auth), FALSE), P(g).auth),
                  P(g).auth, Owned(g, P(g).auth), P(g).auth, P(g).auth, P(g).changed)
        BY <1>1, ProfileWrites
      <4>2. QED BY <3>0, <4>1
    <3>2. Valid(P(g).auth) /\ caParent = last BY <2>2 DEF Copies
    <3>3. caLatest[P(g).auth.login] # CaNone => Latest(P(g).auth)
      <4>1. CASE P(g).auth = last BY <1>11, <3>2, <4>1, ParentKnown
      <4>2. CASE P(g).auth # last BY <1>2, <1>11, <3>2, <4>2 DEF Unwritten
      <4>3. QED BY <4>1, <4>2
    <3> HIDE DEF r
    <3>4. Wrote(g, r) BY <1>2, <1>11, <3>1, <3>2, <3>3 DEF Wrote, Gives
    <3>5. QED BY <3>1, <3>4 DEF Gives, r
  <2>3. CASE ~Copies(g) /\ Valid(caParent) /\ caParent # last
    <3>1. MovedOn(g) BY <1>11, <2>3, ParentKnown
    <3>2. QED BY <1>8, <1>11, <2>1, <2>3, <3>1
  <2>4. CASE ~Copies(g) /\ ~(Valid(caParent) /\ caParent # last)
    <3>1. Valid(caParent) => ~Valid(P(g).auth) BY <2>4 DEF Copies
    <3>2. QED BY <1>3, <1>11, <2>1, <2>4, <3>1, ParentKnown
  <2>5. QED BY <2>2, <2>3, <2>4
<1>12. CASE Owns(g) /\ Valid(read) /\ Valid(auth) /\ last = read /\ auth = last
  <2>1. r = Agreed(Result(g, caParent, Owned(g, read), FALSE), read)
    BY <1>12 DEF Synced, Valid, Agreed
  <2>2. Gives(g, r, caParent, Owned(g, read), P(g).auth, last, P(g).changed)
    BY <1>1, <1>12, <2>1, ProfileWrites
  <2>3. Owned(g, read) = caRecord BY <1>1, <1>2, <1>12 DEF Owned
  <2>4. P(g).auth = auth /\ Valid(caParent) /\ caLatest[caParent.login] # CaNone => Latest(caParent)
    BY <1>12, ParentKnown
  <2> HIDE DEF r
  <2>5. Stayed(g, r) BY <2>2, <2>3, <2>4 DEF Stayed, Gives
  <2>6. QED BY <2>2, <2>5 DEF Gives, r
<1>13. QED
  BY <1>1, <1>4, <1>5, <1>6, <1>7, <1>8, <1>9, <1>10, <1>11, <1>12 DEF Valid

\* A synchronisation that keeps the program running, by the generation g.
LEMMA SyncStep ==
  ASSUME CaInv, NEW g \in Profiles, caSync.by = g, caSync.op \in Syncs,
         NEW r, Rest(g, r), Stayed(g, r) \/ GaveUp(g, r) \/ Wrote(g, r),
         NEW w \in {P(g).watch, "ended"}, Apply(g, r),
         caProfile' = [caProfile EXCEPT ![g] = [r.profile EXCEPT !.watch = w]]
  PROVE  CaInv'
<1> DEFINE y == [r.profile EXCEPT !.watch = w]
<1>1. /\ caParent' = r.parent /\ caRecord' = r.record /\ caSync' = Free
      /\ UNCHANGED <<caLatest, caLogin, caCrashes>>
  BY DEF Apply
<1>2. /\ y \in Profile /\ y.dir = P(g).dir /\ y.child = P(g).child /\ y.local = P(g).local
      /\ y.token = P(g).token /\ y.watch \in {P(g).watch, "ended"}
      /\ y.auth = r.profile.auth /\ y.last = r.profile.last /\ y.changed = r.profile.changed
      /\ y.auth \in Content /\ y.last \in Content
  <2>1. w \in {"none", "polls", "stops", "ended"} BY Types DEF CaInv
  <2>2. r.profile \in Profile BY DEF Rest
  <2>3. y \in Profile BY <2>1, <2>2 DEF Profile
  <2>4. QED BY <2>2, <2>3 DEF Rest, Profile
<1> HIDE DEF y
<1>3. P(g)' = y /\ \A h \in Profiles \ {g} : P(h)' = P(h)
  BY <1>2, Types DEF CaInv, P, y
<1>4. caSync'.op = "none" /\ caSync'.parent = CaNone /\ caSync'.by = 0 /\ 0 \notin Profiles
  BY <1>1 DEF Free, Profiles
<1>5. /\ P(g).local /\ P(g).last # CaTorn /\ IssuedTo(caParent) /\ IssuedTo(caSync.parent)
      /\ caSync.parent \in Content /\ caParent \in Content
      /\ caSync.op \notin {"seeded", "recorded", "none"}
      /\ \A h \in Profiles : IssuedTo(P(h).auth) /\ IssuedTo(P(h).token) /\ IssuedTo(P(h).last)
      /\ IssuedTo(caRecord.last)
  BY Types DEF CaInv, TokensIssued, SyncShape, Syncs
<1>6. Owns(g) => /\ P(g).dir /\ caRecord.last = P(g).last /\ ~P(g).changed
                 /\ P(g).last = CaNone => P(g).auth = CaNone
                 /\ \A h \in Profiles : Owns(h) => h = g
  BY DEF CaInv, OwnerShape, Owns
<1>7. CASE Stayed(g, r)
  <2>1. /\ UNCHANGED <<caParent, caRecord>> /\ P(g)'.auth = P(g).auth /\ P(g)'.last = P(g).last
        /\ P(g)'.changed = P(g).changed /\ P(g)'.dir = P(g).dir /\ P(g)'.child = P(g).child
        /\ P(g)'.local = P(g).local /\ P(g)'.token = P(g).token
        /\ P(g)'.watch \in {P(g).watch, "ended"}
    BY <1>1, <1>2, <1>3, <1>7 DEF Stayed
  <2>2. \A h \in Profiles : /\ Owns(h)' = Owns(h) /\ Unwritten(h)' = Unwritten(h)
                            /\ P(h)'.auth = P(h).auth /\ P(h)'.last = P(h).last
                            /\ P(h)'.token = P(h).token /\ P(h)'.changed = P(h).changed
                            /\ P(h)'.dir = P(h).dir /\ P(h)'.child = P(h).child
                            /\ P(h)'.local = P(h).local /\ P(h)'.watch \in {P(h).watch, "ended"}
    BY <1>3, <2>1 DEF Owns, Unwritten, Valid
  <2> HIDE DEF Stayed
  <2>3. CaTypeOK'
    <3>1. caSync' \in [by : Profiles \cup {0}, parent : Content, auth : Content,
                       op : {"none", "poll", "final", "restore", "seeded", "recorded"}]
      BY <1>1, Values DEF Free
    <3>2. QED BY <1>1, <1>2, <2>1, <3>1 DEF CaInv, CaTypeOK, y
  <2>4. TokensIssued'
    BY <1>1, <1>4, <1>5, <2>1, <2>2, IssuedMoves, NothingIssued DEF CaInv, TokensIssued
  <2>5. Unused => Unused'
    BY <1>1, <1>4, <2>1, <2>2, UnusedMoves, NothingIssued DEF Unused
  <2>6. TornIsNew' /\ ReadHolds'
    BY <1>4, <2>1, <2>5 DEF CaInv, TornIsNew, ReadHolds, Syncs
  <2>7. OwnerShape' /\ RefreshIsLater'
    BY <1>1, <2>1, <2>2 DEF CaInv, OwnerShape, RefreshIsLater, Latest
  <2>8. OwnerAgrees'
    BY <1>4, <1>5, <2>1, <2>2 DEF CaInv, OwnerAgrees, Valid
  <2>9. NothingLate' BY <1>4, <2>1, <2>2 DEF CaInv, NothingLate
  <2>10. TokenKept' BY <1>1, <1>4, <1>5, <2>1, <2>2 DEF CaInv, TokenKept, Valid, Latest
  <2>11. Running' BY <1>4, <1>5, <2>1, <2>2 DEF CaInv, Running, Valid
  <2>12. SyncShape' BY <1>1, <1>4 DEF SyncShape, Syncs
  <2>13. QED
    BY <2>3, <2>4, <2>6, <2>7, <2>8, <2>9, <2>10, <2>11, <2>12 DEF CaInv
<1>8. ASSUME Owns(g), caRecord'.owner \in {0, g}, caRecord'.last \in Token \cup {CaNone},
             caRecord' = [last |-> caRecord'.last, owner |-> caRecord'.owner],
             caRecord'.last = y.last, caParent' \in Content,
             IssuedTo(caParent'), IssuedTo(y.auth), IssuedTo(y.last), y.last # CaTorn,
             caParent' = CaTorn => caParent = CaTorn,
             Unused /\ caParent' = CaTorn => NotOfLast(y.auth) /\ NotOfLast(y.last),
             Valid(caParent') /\ caLatest[caParent'.login] # CaNone => Latest(caParent'),
             caRecord'.owner = g =>
               /\ y.auth = y.last /\ y.last = caParent' /\ ~y.changed /\ Valid(caParent')
               /\ P(g).token # CaNone => P(g).token = caParent',
             caRecord'.owner = 0 =>
               /\ y.last = CaNone \/ y.changed
               /\ Valid(P(g).token) /\ Valid(caParent') => caParent'.login # P(g).token.login,
             \/ caParent' \in {caParent, CaNone}
             \/ caParent' = P(g).auth /\ Valid(P(g).auth) /\ caParent = P(g).last
      PROVE  CaInv'
  <2>1. \A h \in Profiles : Owns(h)' => h = g BY <1>8 DEF Owns, Profiles
  <2>2. Owns(g)' <=> caRecord'.owner = g BY DEF Owns
  <2>3. g # 0 BY DEF Profiles
  <2>4. CaTypeOK'
    <3>1. caSync' \in [by : Profiles \cup {0}, parent : Content, auth : Content,
                       op : {"none", "poll", "final", "restore", "seeded", "recorded"}]
      BY <1>1, Values DEF Free
    <3>2. caRecord' \in [last : Content \ {CaTorn}, owner : Profiles \cup {0}]
      BY <1>8, Values DEF Content
    <3>3. QED BY <1>1, <1>2, <1>8, <3>1, <3>2 DEF CaInv, CaTypeOK, y
  <2>5. TokensIssued'
    <3>1. \A h \in Profiles : /\ IssuedTo(P(h)'.auth) /\ IssuedTo(P(h)'.token)
                              /\ IssuedTo(P(h)'.last) /\ P(h)'.last # CaTorn
      BY <1>2, <1>3, <1>5, <1>8 DEF CaInv, TokensIssued
    <3>2. QED BY <1>1, <1>4, <1>8, <3>1, IssuedMoves, NothingIssued
  <2>6. TornIsNew'
    <3>1. SUFFICES ASSUME caParent' = CaTorn, Unused PROVE Unused'
      BY <1>8 DEF CaInv, TornIsNew
    <3>2. \A h \in Profiles : NotOfLast(P(h)'.auth) /\ NotOfLast(P(h)'.token) /\ NotOfLast(P(h)'.last)
      BY <1>2, <1>3, <1>8, <3>1 DEF Unused
    <3>3. QED BY <1>1, <1>4, <1>8, <3>1, <3>2, UnusedMoves, NothingIssued
  <2>7. ReadHolds' BY <1>4 DEF ReadHolds, Syncs
  <2>8. Owns(g)' => ~Unwritten(g)'
    BY <1>3, <1>8, <2>2 DEF Unwritten, Valid
  <2>9. OwnerShape'
    BY <1>2, <1>3, <1>6, <1>8, <2>1, <2>2, <2>8 DEF OwnerShape, Valid
  <2>10. \A h \in Profiles \ {g} : Unwritten(h)' = Unwritten(h) BY <1>3 DEF Unwritten, Valid
  <2>11. caRecord'.owner = 0 => ~(Unwritten(g)' /\ ~P(g)'.changed)
    BY <1>3, <1>8 DEF Unwritten, Valid
  <2>12. RefreshIsLater'
    BY <1>3, <1>8, <2>2, <2>8, <2>10, <2>11 DEF CaInv, RefreshIsLater
  <2>13. OwnerAgrees' BY <1>3, <1>4, <1>8, <2>1, <2>2 DEF OwnerAgrees
  <2>14. NothingLate'
    <3>1. SUFFICES ASSUME NEW h \in Profiles, h # g, P(h).local, ~P(h).changed, Unwritten(h)
                   PROVE  caParent' # P(h).last
      BY <1>3, <1>4, <1>8, <2>1, <2>2, <2>8, <2>10, <2>11 DEF NothingLate
    <3>2. ~Owns(h) BY <1>6, <1>8, <3>1
    <3>3. caParent # P(h).last /\ Valid(P(h).last) BY <3>1, <3>2 DEF CaInv, NothingLate, Unwritten
    <3>4. CASE caParent' \in {caParent, CaNone} BY <3>3, <3>4 DEF Valid
    <3>5. CASE caParent' = P(g).auth /\ Valid(P(g).auth) /\ caParent = P(g).last
      <4>1. P(g).auth = caParent \/ Unwritten(g)
        BY <1>5, <1>6, <1>8, <3>5 DEF Unwritten, Valid
      <4>2. P(h).last # P(g).auth BY <1>8, <3>1, <3>3, <3>5, <4>1, NoReturn
      <4>3. QED BY <3>5, <4>2
    <3>6. QED BY <1>8, <3>4, <3>5
  <2>15. TokenKept' BY <1>1, <1>8 DEF TokenKept, Valid, Latest
  <2>16. Running'
    <3>1. \A h \in Profiles \ {g} : P(h).child # "runs"
      BY <1>8, <2>3 DEF CaInv, Running, Owns
    <3>2. \A h \in Profiles \ {g} :
            /\ P(h)'.watch \in {"polls", "stops"} => P(h)'.local
            /\ P(h)'.watch = "stops" => P(h)'.child = "ended"
            /\ P(h)'.local /\ P(h)'.child = "none" => FALSE
            /\ P(h)'.local /\ ~Owns(h)' =>
                 P(h)'.changed \/ P(h)'.last = CaNone \/ P(h)'.child = "ended"
            /\ P(h)'.child # "runs"
      BY <1>3, <1>5, <1>6, <1>8, <3>1 DEF CaInv, Running
    <3>3. /\ P(g)'.watch \in {"polls", "stops"} => P(g)'.local
          /\ P(g)'.watch = "stops" => P(g)'.child = "ended"
          /\ P(g)'.local /\ P(g)'.child = "none" => FALSE
          /\ P(g)'.local /\ ~Owns(g)' => P(g)'.changed \/ P(g)'.last = CaNone
      <4>1. P(g).child # "none" BY <1>5 DEF CaInv, Running
      <4>2. P(g).watch = "stops" => P(g).child = "ended" BY DEF CaInv, Running
      <4>3. QED BY <1>2, <1>3, <1>5, <1>8, <2>2, <4>1, <4>2
    <3>4. P(g).child = "runs" =>
            /\ P(g)'.dir /\ P(g)'.local /\ caRecord'.owner \in {0, g}
            /\ \A h \in Profiles \ {g} :
                 /\ P(h)'.dir => P(h)'.local
                 /\ P(h)'.child # "runs" /\ P(h)'.watch # "polls"
            /\ ~Owns(g)' /\ P(g)'.token # CaNone /\ Valid(caParent)' =>
                 caParent'.login # P(g)'.token.login
      <4> SUFFICES ASSUME P(g).child = "runs"
                   PROVE /\ P(g)'.dir /\ P(g)'.local /\ caRecord'.owner \in {0, g}
                         /\ \A h \in Profiles \ {g} :
                              /\ P(h)'.dir => P(h)'.local
                              /\ P(h)'.child # "runs" /\ P(h)'.watch # "polls"
                         /\ ~Owns(g)' /\ P(g)'.token # CaNone /\ Valid(caParent)' =>
                              caParent'.login # P(g)'.token.login
        OBVIOUS
      <4>1. \A h \in Profiles \ {g} : /\ P(h).dir => P(h).local
                                      /\ P(h).child # "runs" /\ P(h).watch # "polls"
        BY DEF CaInv, Running
      <4>2. P(g).token # CaNone => Valid(P(g).token) BY Types, Values DEF CaInv, Valid
      <4>3. ~Owns(g)' => caRecord'.owner = 0 BY <1>8, <2>2
      <4>4. P(g)'.dir /\ P(g)'.local /\ caRecord'.owner \in {0, g}
        BY <1>2, <1>3, <1>5, <1>6, <1>8
      <4>5. ASSUME ~Owns(g)', P(g)'.token # CaNone, Valid(caParent)'
            PROVE  caParent'.login # P(g)'.token.login
        <5>1. P(g)'.token = P(g).token BY <1>2, <1>3
        <5>2. Valid(P(g).token) /\ Valid(caParent') BY <4>2, <4>5, <5>1 DEF Valid
        <5>3. QED BY <1>8, <4>3, <4>5, <5>1, <5>2
      <4>6. QED BY <1>3, <4>1, <4>4, <4>5
    <3>5. QED BY <1>2, <1>3, <1>4, <3>2, <3>3, <3>4 DEF Running
  <2>17. SyncShape' BY <1>1, <1>4 DEF SyncShape, Syncs
  <2>18. QED
    BY <2>4, <2>5, <2>6, <2>7, <2>9, <2>12, <2>13, <2>14, <2>15, <2>16, <2>17 DEF CaInv
<1>9. CASE GaveUp(g, r)
  <2>1. /\ Owns(g) /\ caRecord' = [last |-> y.last, owner |-> 0]
        /\ caRecord'.owner = 0 /\ caRecord'.last = y.last /\ 0 # g
        /\ y.last = CaNone \/ y.changed
        /\ caParent' \in {caParent, CaNone} /\ (caParent' = caParent => MovedOn(g) \/ caParent = CaNone)
        /\ y.auth \in {CaNone, P(g).auth} \/ (Valid(caParent) /\ y.auth = caParent)
        /\ y.last \in {CaNone, caSync.parent} \/ (Valid(caParent) /\ y.last = caParent)
        /\ y.last # CaTorn
    BY <1>1, <1>2, <1>4, <1>9 DEF GaveUp, Unowned
  <2>2. y.last \in Token \cup {CaNone} BY <1>2, <2>1 DEF Content
  <2>3. caParent' \in Content /\ IssuedTo(caParent') /\ IssuedTo(y.auth) /\ IssuedTo(y.last)
    BY <1>5, <2>1, NothingIssued, Values
  <2>4. caParent' = CaTorn => caParent = CaTorn BY <2>1, Values
  <2>5. Unused /\ caParent' = CaTorn => NotOfLast(y.auth) /\ NotOfLast(y.last)
    BY <2>1, <2>4, NothingIssued DEF Unused
  <2>6. Valid(caParent') => /\ caLatest[caParent'.login] # CaNone => Latest(caParent')
                            /\ Valid(P(g).token) => caParent'.login # P(g).token.login
    BY <2>1, NothingIssued DEF MovedOn
  <2>7. QED BY <1>8, <2>1, <2>2, <2>3, <2>4, <2>5, <2>6
<1>10. CASE Wrote(g, r)
  <2>1. /\ Owns(g) /\ caRecord' = [last |-> caParent', owner |-> g]
        /\ caRecord'.owner = g /\ caRecord'.last = caParent'
        /\ y.auth = caParent' /\ y.last = caParent' /\ (y.changed <=> P(g).changed)
        /\ Valid(caParent') /\ (caLatest[caParent'.login] # CaNone => Latest(caParent'))
        /\ caParent' = caParent \/ (caParent' = P(g).auth /\ caParent = P(g).last)
        /\ P(g).token # CaNone => P(g).token = caParent'
    BY <1>1, <1>2, <1>10 DEF Wrote, Owned
  <2>2. caParent' \in Content /\ caParent' \in Token BY <1>2, <2>1, Values
  <2>3. IssuedTo(caParent') BY <1>5, <2>1
  <2>4. caParent' # CaTorn /\ 0 # g BY <1>4, <2>1 DEF Valid
  <2>5. QED BY <1>6, <1>8, <2>1, <2>2, <2>3, <2>4
<1>11. QED BY <1>7, <1>9, <1>10

LEMMA PolledHolds ==
  ASSUME CaInv, NEW g \in Profiles, Polled(g)
  PROVE  CaInv'
<1> DEFINE r == Synced(g)
<1>1. caSync.by = g /\ caSync.op \in Syncs BY DEF Polled, Syncs
<1>2. Rest(g, r) /\ (Stayed(g, r) \/ GaveUp(g, r) \/ Wrote(g, r)) BY <1>1, SyncedIs
<1> DEFINE w == IF r.ends THEN "ended" ELSE r.profile.watch
<1>3. Apply(g, r) BY DEF Polled
<1>4. r.profile \in Profile /\ r.profile.watch = P(g).watch BY <1>2 DEF Rest
<1>5. caProfile' = [caProfile EXCEPT ![g] = [r.profile EXCEPT !.watch = w]]
  BY <1>4 DEF Polled, Profile
<1>6. w \in {P(g).watch, "ended"} BY <1>4
<1> HIDE DEF r, w
<1>7. QED BY <1>1, <1>2, <1>3, <1>5, <1>6, SyncStep

LEMMA LastSyncedHolds ==
  ASSUME CaInv, NEW g \in Profiles, LastSynced(g)
  PROVE  CaInv'
<1> DEFINE r == Synced(g)
<1>1. caSync.by = g /\ caSync.op \in Syncs BY DEF LastSynced, Syncs
<1>2. Rest(g, r) /\ (Stayed(g, r) \/ GaveUp(g, r) \/ Wrote(g, r)) BY <1>1, SyncedIs
<1>3. Apply(g, r) /\ caProfile' = [caProfile EXCEPT ![g] = [r.profile EXCEPT !.watch = "ended"]]
  BY DEF LastSynced
<1> HIDE DEF r
<1>4. QED BY <1>1, <1>2, <1>3, SyncStep

\* How a synchronisation may change the parent file.
Moves(g, p) ==
  /\ p \in Content /\ IssuedTo(p)
  /\ p = CaTorn => caParent = CaTorn
  /\ \/ p \in {caParent, CaNone}
     \/ p = P(g).auth /\ Valid(P(g).auth) /\ caParent = P(g).last /\ Valid(caParent)
        /\ ~P(g).changed

LEMMA SyncedMoves ==
  ASSUME CaInv, NEW g \in Profiles, caSync.by = g, caSync.op \in Syncs
  PROVE  Moves(g, Synced(g).parent)
<1> DEFINE r == Synced(g)
<1>1. Stayed(g, r) \/ GaveUp(g, r) \/ Wrote(g, r) BY SyncedIs
<1>2. /\ caParent \in Content /\ P(g).auth \in Content /\ IssuedTo(caParent) /\ IssuedTo(P(g).auth)
      /\ P(g).last # CaTorn
      /\ Owns(g) => (P(g).last = CaNone => P(g).auth = CaNone) /\ ~P(g).changed
  BY Types DEF CaInv, TokensIssued, OwnerShape
<1> HIDE DEF r
<1>3. CASE Stayed(g, r) BY <1>2, <1>3 DEF Moves, Stayed, r
<1>4. CASE GaveUp(g, r) BY <1>2, <1>4, NothingIssued, Values DEF Moves, GaveUp, r
<1>5. CASE Wrote(g, r)
  <2>1. Owns(g) /\ Valid(r.parent) BY <1>5 DEF Wrote
  <2>2. CASE r.parent = caParent BY <1>2, <2>1, <2>2, Values DEF Moves, Valid, r
  <2>3. CASE r.parent = P(g).auth /\ caParent = P(g).last
    <3>1. Valid(caParent) BY <1>2, <2>1, <2>3 DEF Valid
    <3>2. QED BY <1>2, <2>1, <2>3, <3>1 DEF Moves, Valid, r
  <2>4. QED BY <1>5, <2>2, <2>3 DEF Wrote
<1>6. QED BY <1>1, <1>3, <1>4, <1>5

\* The end of a generation, by its last synchronisation.
LEMMA RestoredIs ==
  ASSUME CaInv, NEW g \in Profiles, Restored(g)
  PROVE  /\ caSync.by = g /\ caSync.op \in Syncs /\ P(g).local
         /\ caSync' = Free /\ UNCHANGED <<caLatest, caLogin, caCrashes>>
         /\ caProfile' = [caProfile EXCEPT ![g] =
              [NoProfile EXCEPT !.child = "ended", !.watch = "ended"]]
         /\ Moves(g, caParent')
         /\ ~Owns(g) => UNCHANGED <<caParent, caRecord>>
         /\ Owns(g) =>
              /\ caRecord'.owner = 0 /\ caRecord' = [last |-> caRecord'.last, owner |-> 0]
              /\ caRecord'.last \in Token \cup {CaNone} /\ IssuedTo(caRecord'.last)
              /\ Unused /\ caParent' = CaTorn => NotOfLast(caRecord'.last)
              /\ Valid(caParent') /\ caLatest[caParent'.login] # CaNone => Latest(caParent')
<1>1. /\ caSync.by = g /\ caSync.op = "restore" /\ caSync.op \in Syncs /\ caSync' = Free
      /\ UNCHANGED <<caLatest, caLogin, caCrashes>>
      /\ caProfile' = [caProfile EXCEPT ![g] =
           [NoProfile EXCEPT !.child = "ended", !.watch = "ended"]]
  BY DEF Restored, Apply, Syncs
<1>2. P(g).local /\ caSync.auth = P(g).auth BY <1>1 DEF CaInv, SyncShape, Syncs
<1>3. CASE ~Owns(g)
  <2>1. caRecord.owner # g BY <1>3 DEF Owns
  <2>2. ~CopiesLate(g)
    <3>1. SUFFICES ASSUME CopiesLate(g) PROVE FALSE OBVIOUS
    <3>2. Unwritten(g) /\ ~P(g).changed /\ caParent = P(g).last
      BY <1>2, <3>1 DEF CopiesLate, Copies, Unwritten
    <3>3. QED BY <1>2, <1>3, <3>2 DEF CaInv, NothingLate
  <2>3. UNCHANGED <<caParent, caRecord>>
    BY <1>3, <2>1, <2>2 DEF Restored, Apply, Result
  <2>4. caParent \in Content /\ IssuedTo(caParent) BY Types DEF CaInv, TokensIssued
  <2>5. QED BY <1>1, <1>2, <1>3, <2>3, <2>4 DEF Moves
<1>4. CASE Owns(g)
  <2> DEFINE r == Synced(g)
  <2>1. Rest(g, r) /\ (Stayed(g, r) \/ GaveUp(g, r) \/ Wrote(g, r)) BY <1>1, SyncedIs
  <2>2. caParent' = r.parent
        /\ caRecord' = IF r.record.owner = g THEN Unowned(r.profile.last) ELSE r.record
    BY <1>4 DEF Restored, Apply
  <2>3. Moves(g, caParent') BY <1>1, <2>2, SyncedMoves
  <2> HIDE DEF r
  <2>4. /\ caRecord.last = P(g).last /\ caRecord.owner = g /\ g # 0
        /\ P(g).last \in Content /\ P(g).last # CaTorn /\ caSync.parent \in Content
        /\ IssuedTo(P(g).last) /\ IssuedTo(caSync.parent)
        /\ r.profile.last \in Content
    BY <1>4, <2>1, Types DEF CaInv, OwnerShape, TokensIssued, Owns, Rest, Profile, Profiles
  <2>5. caRecord' = Unowned(r.profile.last)
    BY <2>1, <2>2, <2>4 DEF Stayed, GaveUp, Wrote, Unowned, Owned
  <2>6. caRecord'.owner = 0 /\ caRecord'.last = r.profile.last
        /\ caRecord' = [last |-> caRecord'.last, owner |-> 0]
    BY <2>5 DEF Unowned
  <2>7. CASE Stayed(g, r)
    BY <1>1, <1>2, <1>4, <2>2, <2>3, <2>4, <2>6, <2>7 DEF Stayed, Content, Unused
  <2>8. CASE GaveUp(g, r)
    <3>1. \/ r.profile.last \in {CaNone, caSync.parent}
          \/ Valid(caParent) /\ r.profile.last = caParent
      BY <2>8 DEF GaveUp
    <3>2. r.profile.last # CaTorn BY <2>8 DEF GaveUp
    <3>3. r.profile.last \in Token \cup {CaNone} BY <2>4, <3>2 DEF Content
    <3>4. IssuedTo(r.profile.last) BY <2>4, <3>1, NothingIssued DEF CaInv, TokensIssued
    <3>5. Unused /\ caParent' = CaTorn => NotOfLast(r.profile.last)
      BY <2>3, <3>1, NothingIssued DEF Moves, Unused
    <3>6. Valid(caParent') /\ caLatest[caParent'.login] # CaNone => Latest(caParent')
      BY <2>2, <2>8, NothingIssued DEF GaveUp, MovedOn
    <3>7. QED BY <1>1, <1>2, <1>4, <2>3, <2>6, <3>3, <3>4, <3>5, <3>6
  <2>9. CASE Wrote(g, r)
    <3>1. /\ r.profile.last = caParent' /\ Valid(caParent')
          /\ caLatest[caParent'.login] # CaNone => Latest(caParent')
      BY <2>2, <2>9 DEF Wrote
    <3>2. r.profile.last \in Token \cup {CaNone} BY <2>4, <3>1, Values
    <3>3. IssuedTo(r.profile.last) BY <2>3, <3>1 DEF Moves
    <3>4. caParent' # CaTorn BY <3>1 DEF Valid
    <3>5. QED BY <1>1, <1>2, <1>4, <2>3, <2>6, <3>1, <3>2, <3>3, <3>4
  <2>10. QED BY <2>1, <2>7, <2>8, <2>9
<1>5. QED BY <1>3, <1>4

LEMMA RestoredHolds ==
  ASSUME CaInv, NEW g \in Profiles, Restored(g)
  PROVE  CaInv'
<1> DEFINE y == [NoProfile EXCEPT !.child = "ended", !.watch = "ended"]
<1>1. /\ caSync.by = g /\ caSync.op \in Syncs /\ P(g).local
      /\ caSync' = Free /\ UNCHANGED <<caLatest, caLogin, caCrashes>>
      /\ caProfile' = [caProfile EXCEPT ![g] = y]
      /\ Moves(g, caParent')
      /\ ~Owns(g) => UNCHANGED <<caParent, caRecord>>
  BY RestoredIs
<1>2. Owns(g) =>
        /\ caRecord'.owner = 0 /\ caRecord' = [last |-> caRecord'.last, owner |-> 0]
        /\ caRecord'.last \in Token \cup {CaNone} /\ IssuedTo(caRecord'.last)
        /\ Unused /\ caParent' = CaTorn => NotOfLast(caRecord'.last)
        /\ Valid(caParent') /\ caLatest[caParent'.login] # CaNone => Latest(caParent')
  BY RestoredIs
<1>3. /\ y \in Profile /\ ~y.dir /\ y.child = "ended" /\ ~y.local /\ y.auth = CaNone
      /\ y.token = CaNone /\ y.last = CaNone /\ ~y.changed /\ y.watch = "ended"
  BY Values DEF NoProfile, Profile
<1> HIDE DEF y
<1>4. P(g)' = y /\ \A h \in Profiles \ {g} : P(h)' = P(h)
  BY <1>1, Types DEF CaInv, P
<1>5. caSync'.op = "none" /\ caSync'.parent = CaNone /\ caSync'.by = 0 /\ 0 \notin Profiles
      /\ caSync.op \notin {"seeded", "recorded", "none"}
  BY <1>1 DEF Free, Profiles, Syncs
<1>6. \A h \in Profiles : Owns(h)' => h # g /\ Owns(h) /\ ~Owns(g)
  BY <1>1, <1>2, <1>5 DEF Owns
<1>7. \A h \in Profiles \ {g} : Owns(h) => Owns(h)' /\ ~Owns(g)
  BY <1>1 DEF Owns
<1>8. CaTypeOK'
  <2>1. caSync' \in [by : Profiles \cup {0}, parent : Content, auth : Content,
                     op : {"none", "poll", "final", "restore", "seeded", "recorded"}]
    BY <1>1, Values DEF Free
  <2>2. caRecord' \in [last : Content \ {CaTorn}, owner : Profiles \cup {0}]
    <3>1. CASE Owns(g) BY <1>2, <3>1, Values DEF Content
    <3>2. CASE ~Owns(g) BY <1>1, <3>2 DEF CaInv, CaTypeOK
    <3>3. QED BY <3>1, <3>2
  <2>3. QED BY <1>1, <1>3, <2>1, <2>2 DEF CaInv, CaTypeOK, Moves
<1>9. TokensIssued'
  <2>1. \A h \in Profiles : /\ IssuedTo(P(h)'.auth) /\ IssuedTo(P(h)'.token)
                            /\ IssuedTo(P(h)'.last) /\ P(h)'.last # CaTorn
    BY <1>3, <1>4, NothingIssued, Values DEF CaInv, TokensIssued
  <2>2. IssuedTo(caRecord'.last) BY <1>1, <1>2 DEF CaInv, TokensIssued
  <2>3. QED BY <1>1, <1>5, <2>1, <2>2, IssuedMoves, NothingIssued DEF Moves
<1>10. TornIsNew'
  <2>1. SUFFICES ASSUME caParent' = CaTorn, Unused PROVE Unused'
    BY <1>1 DEF CaInv, TornIsNew, Moves
  <2>2. NotOfLast(caRecord'.last) BY <1>1, <1>2, <2>1 DEF Unused
  <2>3. \A h \in Profiles : NotOfLast(P(h)'.auth) /\ NotOfLast(P(h)'.token) /\ NotOfLast(P(h)'.last)
    BY <1>3, <1>4, <2>1, NothingIssued DEF Unused
  <2>4. QED BY <1>1, <1>5, <2>1, <2>2, <2>3, UnusedMoves, NothingIssued
<1>11. ReadHolds' BY <1>5 DEF ReadHolds, Syncs
<1>12. \A h \in Profiles : Unwritten(h)' => h # g /\ Unwritten(h)
  BY <1>3, <1>4 DEF Unwritten, Valid
<1>13. OwnerShape'
  BY <1>1, <1>4, <1>6, <1>12 DEF CaInv, OwnerShape, Latest
<1>14. RefreshIsLater' BY <1>4, <1>12 DEF CaInv, RefreshIsLater
<1>15. OwnerAgrees'
  BY <1>1, <1>4, <1>5, <1>6 DEF CaInv, OwnerAgrees, Valid
<1>16. NothingLate'
  <2>1. SUFFICES ASSUME NEW h \in Profiles, h # g, P(h).local, ~P(h).changed, Unwritten(h), ~Owns(h)
                 PROVE  caParent' # P(h).last
    BY <1>3, <1>4, <1>5, <1>7, <1>12 DEF NothingLate
  <2>2. caParent # P(h).last /\ Valid(P(h).last) BY <2>1 DEF CaInv, NothingLate, Unwritten
  <2>3. CASE caParent' \in {caParent, CaNone} BY <2>2, <2>3 DEF Valid
  <2>4. CASE caParent' = P(g).auth /\ Valid(P(g).auth) /\ caParent = P(g).last /\ Owns(g)
    <3>1. P(g).auth = caParent \/ Unwritten(g)
      BY <1>1, <2>4 DEF Unwritten, Moves, Valid
    <3>2. P(h).last # P(g).auth BY <2>1, <2>2, <2>4, <3>1, NoReturn
    <3>3. QED BY <2>4, <3>2
  <2>5. QED BY <1>1, <2>3, <2>4 DEF Moves
<1>17. TokenKept'
  <2>1. CASE Owns(g) BY <1>1, <1>2, <2>1 DEF TokenKept, Valid, Latest
  <2>2. CASE ~Owns(g)
    BY <1>1, <1>4, <1>5, <1>7, <2>2 DEF CaInv, TokenKept, Valid, Latest
  <2>3. QED BY <2>1, <2>2
<1>18. Running'
  <2>1. ASSUME NEW h \in Profiles, P(h)'.child = "runs"
        PROVE /\ P(h)'.dir /\ P(h)'.local /\ caRecord'.owner \in {0, h}
              /\ \A k \in Profiles \ {h} :
                   /\ P(k)'.dir => P(k)'.local
                   /\ P(k)'.child # "runs" /\ P(k)'.watch # "polls"
              /\ ~Owns(h)' /\ P(h)'.token # CaNone /\ Valid(caParent)' =>
                   caParent'.login # P(h)'.token.login
    <3>1. h # g /\ P(h)' = P(h) /\ P(h).child = "runs" BY <1>3, <1>4, <2>1
    <3>2. caRecord.owner \in {0, h} /\ P(h).dir /\ P(h).local BY <3>1 DEF CaInv, Running
    <3>3. ~Owns(g) BY <1>5, <3>1, <3>2 DEF Owns
    <3>4. \A k \in Profiles \ {h} : /\ P(k).dir => P(k).local
                                    /\ P(k).child # "runs" /\ P(k).watch # "polls"
      BY <3>1 DEF CaInv, Running
    <3>5. ~Owns(h) /\ P(h).token # CaNone /\ Valid(caParent) => caParent.login # P(h).token.login
      BY <3>1 DEF CaInv, Running
    <3>6. \A k \in Profiles \ {h} : /\ P(k)'.dir => P(k)'.local
                                    /\ P(k)'.child # "runs" /\ P(k)'.watch # "polls"
      BY <1>3, <1>4, <3>4
    <3>7. ~Owns(h)' => ~Owns(h) BY <1>7, <3>1
    <3>8. QED BY <1>1, <3>1, <3>2, <3>3, <3>5, <3>6, <3>7 DEF Valid
  <2>2. \A h \in Profiles :
          /\ P(h)'.watch \in {"polls", "stops"} => P(h)'.local
          /\ P(h)'.watch = "stops" => P(h)'.child = "ended"
          /\ ~(P(h)'.local /\ P(h)'.child = "none")
    BY <1>3, <1>4, <1>5 DEF CaInv, Running
  <2>3. ASSUME NEW h \in Profiles, P(h)'.local, ~Owns(h)'
        PROVE  P(h)'.changed \/ P(h)'.last = CaNone \/ P(h)'.child = "ended"
    <3>1. h # g /\ P(h)' = P(h) BY <1>3, <1>4, <2>3
    <3>2. ~Owns(h) BY <1>7, <2>3, <3>1
    <3>3. QED BY <2>3, <3>1, <3>2 DEF CaInv, Running
  <2>4. QED BY <1>5, <2>1, <2>2, <2>3 DEF Running
<1>19. SyncShape' BY <1>1, <1>5 DEF SyncShape, Syncs
<1>20. QED
  BY <1>8, <1>9, <1>10, <1>11, <1>13, <1>14, <1>15, <1>16, <1>17, <1>18, <1>19 DEF CaInv

-----------------------------------------------------------------------------
(* The end of the program.                                                 *)

LEMMA CrashIs ==
  ASSUME CaInv, Crash
  PROVE  \/ caParent' = caParent
         \/ /\ caSync.by \in Profiles /\ Owns(caSync.by) /\ Moves(caSync.by, caParent')
            /\ Valid(caParent') /\ caLatest[caParent'.login] # CaNone => Latest(caParent')
<1>1. CASE caParent' = caParent BY <1>1
<1>2. CASE caParent' # caParent
  <2> DEFINE g == caSync.by
             r == Synced(g)
  <2>1. caSync.op \in Syncs /\ Owns(g) /\ caParent' = r.parent
    BY <1>2 DEF Crash, Syncs
  <2>2. g \in Profiles BY <2>1 DEF CaInv, SyncShape, Syncs
  <2>3. Moves(g, caParent') BY <2>1, <2>2, SyncedMoves
  <2>4. Stayed(g, r) \/ GaveUp(g, r) \/ Wrote(g, r) BY <2>1, <2>2, SyncedIs
  <2> HIDE DEF r
  <2>5. ~Stayed(g, r) BY <1>2, <2>1 DEF Stayed
  <2>6. GaveUp(g, r) => ~Valid(caParent') BY <1>2, <2>1, NothingIssued DEF GaveUp
  <2>7. Wrote(g, r) => (caLatest[caParent'.login] # CaNone => Latest(caParent'))
    BY <2>1 DEF Wrote
  <2>8. QED BY <2>1, <2>2, <2>3, <2>4, <2>5, <2>6, <2>7
<1>3. QED BY <1>1, <1>2

LEMMA CrashHolds ==
  ASSUME CaInv, Crash
  PROVE  CaInv'
<1>1. /\ caSync' = Free /\ UNCHANGED <<caLatest, caRecord, caLogin>>
      /\ caCrashes < CaMaxCrashes /\ caCrashes' = caCrashes + 1
      /\ caProfile' = [g \in Profiles |->
           IF P(g).dir THEN [P(g) EXCEPT !.child = "ended", !.local = FALSE, !.watch = "ended"]
           ELSE P(g)]
  BY DEF Crash
<1>2. /\ caParent' \in Content /\ IssuedTo(caParent') /\ (caParent' = CaTorn => caParent = CaTorn)
      /\ Valid(caParent') /\ caLatest[caParent'.login] # CaNone =>
           Latest(caParent') \/ caParent' = caParent
  <2>1. caParent \in Content /\ IssuedTo(caParent) BY Types DEF CaInv, TokensIssued
  <2>2. QED BY <2>1, CrashIs DEF Moves
<1>3. \A h \in Profiles :
        /\ P(h)' \in Profile
        /\ P(h)'.dir = P(h).dir /\ P(h)'.auth = P(h).auth /\ P(h)'.token = P(h).token
        /\ P(h)'.last = P(h).last /\ P(h)'.changed = P(h).changed
        /\ P(h).dir => ~P(h)'.local /\ P(h)'.child = "ended" /\ P(h)'.watch = "ended"
        /\ ~P(h).dir => /\ P(h)'.local = P(h).local /\ P(h)'.child = P(h).child
                        /\ P(h)'.watch = P(h).watch
  <2>1. \A h \in Profiles : P(h) \in Profile BY Types DEF CaInv, P
  <2>2. \A h \in Profiles :
          P(h)' = IF P(h).dir
                  THEN [P(h) EXCEPT !.child = "ended", !.local = FALSE, !.watch = "ended"]
                  ELSE P(h)
    BY <1>1 DEF P
  <2>3. ASSUME NEW h \in Profiles, P(h).dir
        PROVE  /\ P(h)' \in Profile
               /\ P(h)'.dir = P(h).dir /\ P(h)'.auth = P(h).auth /\ P(h)'.token = P(h).token
               /\ P(h)'.last = P(h).last /\ P(h)'.changed = P(h).changed
               /\ ~P(h)'.local /\ P(h)'.child = "ended" /\ P(h)'.watch = "ended"
    <3>1. P(h)' = [P(h) EXCEPT !.child = "ended", !.local = FALSE, !.watch = "ended"]
      BY <2>2, <2>3
    <3>2. P(h) \in Profile BY <2>1
    <3>3. QED BY <3>1, <3>2 DEF Profile
  <2>4. ASSUME NEW h \in Profiles, ~P(h).dir
        PROVE  P(h)' = P(h) /\ P(h)' \in Profile
    BY <2>1, <2>2, <2>4
  <2>5. QED BY <2>3, <2>4
<1>4. \A h \in Profiles : Owns(h)' = Owns(h) /\ Unwritten(h)' = Unwritten(h)
  BY <1>1, <1>3 DEF Owns, Unwritten, Valid
<1>5. caSync'.op = "none" /\ caSync'.parent = CaNone /\ caSync'.by = 0 /\ 0 \notin Profiles
  <2>1. caSync' = Free BY <1>1
  <2>2. 0 \notin Profiles BY DEF Profiles
  <2>3. QED BY <2>1, <2>2 DEF Free
<1>6. \A h \in Profiles : Owns(h) => P(h).dir BY DEF CaInv, OwnerShape
<1>7. CaTypeOK'
  <2>1. caSync' \in [by : Profiles \cup {0}, parent : Content, auth : Content,
                     op : {"none", "poll", "final", "restore", "seeded", "recorded"}]
    BY <1>1, Values DEF Free
  <2>2. caCrashes' \in 0..CaMaxCrashes
    <3>1. caCrashes < CaMaxCrashes /\ caCrashes' = caCrashes + 1 BY DEF Crash
    <3>2. caCrashes \in 0..CaMaxCrashes /\ CaMaxCrashes \in Nat BY Types, Values DEF CaInv
    <3>3. QED BY <3>1, <3>2
  <2>3. caProfile' \in [Profiles -> Profile]
    BY <1>1, <1>3 DEF P
  <2>4. QED BY <1>1, <1>2, <2>1, <2>2, <2>3 DEF CaInv, CaTypeOK
<1>8. TokensIssued'
  BY <1>1, <1>2, <1>3, <1>5, IssuedMoves, NothingIssued DEF CaInv, TokensIssued
<1>9. Unused => Unused'
  BY <1>1, <1>3, <1>5, UnusedMoves, NothingIssued DEF Unused
<1>10. TornIsNew' /\ ReadHolds'
  BY <1>2, <1>5, <1>9 DEF CaInv, TornIsNew, ReadHolds, Syncs
<1>11. OwnerShape'
  BY <1>1, <1>3, <1>4 DEF CaInv, OwnerShape, Latest
<1>12. RefreshIsLater' BY <1>3, <1>4 DEF CaInv, RefreshIsLater
<1>13. OwnerAgrees' BY <1>3, <1>4, <1>5, <1>6 DEF OwnerAgrees
<1>14. NothingLate'
  <2>1. SUFFICES ASSUME NEW h \in Profiles, P(h).local, ~P(h).changed, Unwritten(h), ~Owns(h)
                 PROVE  caParent' # P(h).last
    BY <1>3, <1>4, <1>5 DEF NothingLate
  <2>2. caParent # P(h).last /\ Valid(P(h).last) BY <2>1 DEF CaInv, NothingLate, Unwritten
  <2>3. CASE caParent' = caParent BY <2>2, <2>3
  <2>4. CASE caSync.by \in Profiles /\ Owns(caSync.by) /\ Moves(caSync.by, caParent')
    <3> DEFINE g == caSync.by
    <3>1. CASE caParent' \in {caParent, CaNone} BY <2>2, <3>1 DEF Valid
    <3>2. CASE caParent' = P(g).auth /\ Valid(P(g).auth) /\ caParent = P(g).last /\ Valid(caParent)
      <4>1. P(g).auth = caParent \/ Unwritten(g) BY <3>2 DEF Unwritten
      <4>2. P(h).last # P(g).auth BY <2>1, <2>2, <2>4, <3>2, <4>1, NoReturn
      <4>3. QED BY <3>2, <4>2
    <3>3. QED BY <2>4, <3>1, <3>2 DEF Moves
  <2>5. QED BY <2>3, <2>4, CrashIs
<1>15. TokenKept'
  <2>1. SUFFICES ASSUME Valid(caParent'), caLatest[caParent'.login] # CaNone, caParent' = caParent
                 PROVE  TokenKept'
    BY <1>1, <1>2 DEF TokenKept, Valid, Latest
  <2>2. QED BY <1>1, <1>3, <1>4, <1>5, <2>1 DEF CaInv, TokenKept, Valid, Latest
<1>16. Running'
  <2>1. \A h \in Profiles : P(h)'.child # "runs"
    BY <1>3 DEF CaInv, Running
  <2>2. \A h \in Profiles :
          /\ P(h)'.watch \in {"polls", "stops"} => P(h)'.local
          /\ P(h)'.watch = "stops" => P(h)'.child = "ended"
    BY <1>3 DEF CaInv, Running
  <2>3. \A h \in Profiles : ~(P(h)'.local /\ P(h)'.child = "none")
    BY <1>3, <1>6 DEF CaInv, Running, SyncShape
  <2>4. \A h \in Profiles : P(h)'.local /\ ~Owns(h)' =>
          P(h)'.changed \/ P(h)'.last = CaNone \/ P(h)'.child = "ended"
    BY <1>3, <1>4 DEF CaInv, Running
  <2>5. QED BY <2>1, <2>2, <2>3, <2>4 DEF Running
<1>17. SyncShape' BY <1>1, <1>5 DEF SyncShape, Syncs
<1>18. QED
  BY <1>7, <1>8, <1>10, <1>11, <1>12, <1>13, <1>14, <1>15, <1>16, <1>17 DEF CaInv

-----------------------------------------------------------------------------
(* The invariant, and what the program promises of the login.              *)

LEMMA StutterHolds ==
  ASSUME CaInv, UNCHANGED cavars
  PROVE  CaInv'
<1> USE DEF cavars
<1>1. \A h \in Profiles : P(h)' = P(h) /\ Owns(h)' = Owns(h) /\ Unwritten(h)' = Unwritten(h)
  BY DEF P, Owns, Unwritten, Valid
<1>2. CaTypeOK' BY DEF CaInv, CaTypeOK
<1>3. TokensIssued' BY <1>1 DEF CaInv, TokensIssued, IssuedTo, Valid
<1>4. Unused' = Unused BY <1>1 DEF Unused, NotOfLast, Valid
<1>5. TornIsNew' /\ ReadHolds'
  <2>1. P(caSync.by)' = P(caSync.by) BY DEF P
  <2>2. QED BY <1>4, <2>1 DEF CaInv, TornIsNew, ReadHolds, Rewritten
<1>6. OwnerShape' /\ RefreshIsLater' /\ OwnerAgrees' /\ NothingLate' /\ TokenKept'
  BY <1>1 DEF CaInv, OwnerShape, RefreshIsLater, OwnerAgrees, NothingLate, TokenKept, Valid, Latest
<1>7. Running' /\ SyncShape'
  BY <1>1 DEF CaInv, Running, SyncShape, Valid, Free
<1>8. QED BY <1>2, <1>3, <1>5, <1>6, <1>7 DEF CaInv

LEMMA StepHolds ==
  ASSUME CaInv, [CaNext]_cavars
  PROVE  CaInv'
<1>1. ASSUME NEW g \in Profiles, CaStep(g) PROVE CaInv'
  BY <1>1, StopOwnerHolds, SeedHolds, RecordHolds, ReclaimAndRunHolds, PollHolds, PolledHolds,
     LastSyncHolds, LastSyncedHolds, RestoreHolds, RestoredHolds DEF CaStep
<1>2. ASSUME NEW g \in Profiles, ChildEnds(g) \/ Refresh(g) \/ ChildLogsOut(g) PROVE CaInv'
  BY <1>2, ChildEndsHolds, RefreshHolds, ChildLogsOutHolds
<1>3. CASE Crash BY <1>3, CrashHolds
<1>4. CASE OwnerWrites BY <1>4, OwnerWritesHolds
<1>5. CASE UNCHANGED cavars BY <1>5, StutterHolds
<1>6. QED BY <1>1, <1>2, <1>3, <1>4, <1>5 DEF CaNext

\* The record, the profiles and the parent file of auth_profile.py agree, for
\* any number of generations, logins, refreshes and ends of the program.
THEOREM CodexInvariant == CaSpec => []CaInv
<1>1. CaInit => CaInv BY InitHolds
<1>2. CaInv /\ [CaNext]_cavars => CaInv' BY StepHolds
<1>3. QED BY <1>1, <1>2, PTL DEF CaSpec

\* The refresh that only the owner of the record holds is in its profile.
LEMMA KeptIsInFile ==
  ASSUME CaInv
  PROVE  RefreshKept
<1> SUFFICES ASSUME Valid(caParent), caLatest[caParent.login] # CaNone
             PROVE  LET t == [login |-> caParent.login, n |-> caLatest[caParent.login]] IN
                    \/ caParent = t
                    \/ \E g \in Profiles :
                         P(g).dir /\ P(g).auth = t
                         /\ (P(g).local \/ (Owns(g) /\ caRecord.last = caParent))
  BY DEF RefreshKept
<1> DEFINE t == [login |-> caParent.login, n |-> caLatest[caParent.login]]
<1>1. \A x \in Content : Valid(x) /\ Latest(x) /\ x.login = caParent.login => x = t
  BY Values DEF Latest
<1>2. CASE Latest(caParent) BY <1>1, <1>2, Types DEF CaInv
<1>3. CASE ~Latest(caParent)
  <2>1. PICK g \in Profiles :
          Owns(g) /\ Valid(P(g).auth) /\ P(g).auth.login = caParent.login /\ Latest(P(g).auth)
    BY <1>3 DEF CaInv, TokenKept
  <2>2. caRecord.last = caParent BY <1>3 DEF CaInv, TokenKept
  <2>3. P(g).auth = t BY <1>1, <2>1, Types DEF CaInv
  <2>4. P(g).dir BY <2>1 DEF CaInv, OwnerShape
  <2>5. QED BY <2>1, <2>2, <2>3, <2>4
<1>4. QED BY <1>2, <1>3

\* The profiles of ended programs were removed by the start that runs.
LEMMA RunningIsAlone ==
  ASSUME CaInv
  PROVE  OrphansReclaimed
BY DEF CaInv, Running, OrphansReclaimed

Monotone ==
  /\ Valid(caParent) /\ Valid(caParent') => caParent'.login >= caParent.login
  /\ caParent = CaNone => caParent' \in {CaNone, CaTorn}

LEMMA MovesForward ==
  ASSUME CaInv, NEW g \in Profiles, Moves(g, caParent')
  PROVE  Monotone
<1>1. caParent \in Content BY Types DEF CaInv
<1>2. Valid(caParent) => caParent.login \in Nat BY <1>1, Values
<1>3. CASE caParent' \in {caParent, CaNone} BY <1>2, <1>3, NothingIssued DEF Monotone, Valid
<1>4. CASE /\ caParent' = P(g).auth /\ Valid(P(g).auth) /\ caParent = P(g).last
           /\ Valid(caParent) /\ ~P(g).changed
  <2>1. P(g).auth.login = P(g).last.login
    BY <1>4 DEF CaInv, RefreshIsLater, Unwritten
  <2>2. QED BY <1>2, <1>4, <2>1 DEF Monotone, Valid
<1>5. QED BY <1>3, <1>4 DEF Moves

LEMMA StepForward ==
  ASSUME CaInv, CaInv', [CaNext]_cavars
  PROVE  [Monotone]_cavars
<1>1. caParent \in Content BY Types DEF CaInv
<1>2. Valid(caParent) => caParent.login \in Nat BY <1>1, Values
<1>3. caParent' = caParent => Monotone BY <1>2 DEF Monotone
<1>4. ASSUME NEW g \in Profiles, Seed(g) PROVE Monotone
  <2>1. CASE ~Recovers BY <1>3, <1>4, <2>1 DEF Seed
  <2>2. CASE Recovers
    <3> DEFINE o == caRecord.owner
    <3>1. o \in Profiles /\ Owns(o) /\ Valid(P(o).auth) /\ Valid(caParent) /\ caRecord.last = caParent
      BY <2>2, Types DEF CaInv, Recovers, Owns
    <3>2. P(o).last = caParent /\ ~P(o).changed BY <3>1 DEF CaInv, OwnerShape
    <3>3. P(o).auth \in Content /\ IssuedTo(P(o).auth) BY <3>1, Types DEF CaInv, TokensIssued
    <3>4. P(o).auth # CaTorn BY <3>1 DEF Valid
    <3>5. caParent' = P(o).auth BY <1>4, <2>2 DEF Seed
    <3>6. Moves(o, caParent') BY <3>1, <3>2, <3>3, <3>4, <3>5 DEF Moves
    <3>7. QED BY <3>1, <3>6, MovesForward
  <2>3. QED BY <2>1, <2>2
<1>5. ASSUME NEW g \in Profiles, Polled(g) \/ LastSynced(g) PROVE Monotone
  <2>1. caSync.by = g /\ caSync.op \in Syncs /\ caParent' = Synced(g).parent
    BY <1>5 DEF Polled, LastSynced, Apply, Syncs
  <2>2. QED BY <2>1, SyncedMoves, MovesForward
<1>6. ASSUME NEW g \in Profiles, Restored(g) PROVE Monotone
  BY <1>6, RestoredIs, MovesForward
<1>7. ASSUME Crash PROVE Monotone
  BY <1>3, <1>7, CrashIs, MovesForward
<1>8. ASSUME OwnerWrites PROVE Monotone
  BY <1>8, NothingIssued, Values DEF OwnerWrites, Monotone, Valid
<1>9. ASSUME NEW g \in Profiles, CaStep(g) PROVE Monotone
  BY <1>3, <1>4, <1>5, <1>6, <1>9
  DEF CaStep, StopOwner, Record, ReclaimAndRun, Poll, LastSync, Restore, Read
<1>10. ASSUME NEW g \in Profiles, ChildEnds(g) \/ Refresh(g) \/ ChildLogsOut(g) PROVE Monotone
  BY <1>3, <1>10 DEF ChildEnds, Refresh, ChildLogsOut
<1>11. QED BY <1>7, <1>8, <1>9, <1>10 DEF CaNext

\* The owner's login and its one valid token survive the profiles that
\* auth_profile.py copies from it: no refresh is lost, no earlier login comes
\* back, and no copy outlives the next start.
THEOREM CodexLogin == CaSpec => CodexLoginSafe
<1>1. CaSpec => []CaInv BY CodexInvariant
<1>2. CaInv => CaTypeOK /\ RefreshKept /\ OrphansReclaimed
  BY KeptIsInFile, RunningIsAlone DEF CaInv
<1>3. CaInv /\ CaInv' /\ [CaNext]_cavars => [Monotone]_cavars BY StepForward
<1>4. CaSpec => [][Monotone]_cavars
  <2>1. CaSpec => [][CaNext]_cavars BY PTL DEF CaSpec
  <2>2. QED BY <1>1, <1>3, <2>1, PTL
<1>5. CaSpec => LoginKept BY <1>4 DEF LoginKept, Monotone
<1>6. CaSpec => [](CaTypeOK /\ RefreshKept /\ OrphansReclaimed) BY <1>1, <1>2, PTL
<1>7. QED BY <1>5, <1>6 DEF CodexLoginSafe

(***************************************************************************)
(* The package cache the OpenCode calls share: its locks, the records of   *)
(* the calls under way, and the recovery from those that were cut off.     *)
(***************************************************************************)
\* Which lock a call holds, and what it has recorded, at each of its steps.
CallShape ==
  \A c \in OcCalls :
    /\ ocCall[c].pc \in {"sweep", "dir", "live", "intent", "excl", "again", "record", "start"} =>
         ocCall[c].child = "none"
    /\ ocCall[c].child = "runs" => ocCall[c].pc \in {"wait", "dead"}
    /\ ocCall[c].child = "runs" \/ ocCall[c].pc \in {"record", "start", "wait", "marked"} =>
         ocPop[c] # "none"
    /\ ocPop[c] # "none" =>
         ocCall[c].child = "runs" \/ ocCall[c].pc \in {"excl", "record", "start", "wait", "marked"}
    /\ ocPending[c] # OcNone => ocCall[c].pc \in {"start", "wait", "marked", "dead"}
    /\ ocCall[c].pc \in {"start", "wait", "marked"} => ocPending[c] # OcNone
    /\ ocCall[c].child = "runs" \/ ocCall[c].pc = "start" =>
         ocPending[c] \in SUBSET OcPackages /\ ocPending[c] \subseteq Installed
    /\ ocCall[c].pc \in {"excl", "again"} => ocIntent = c

\* Whose the directory of a call is.
DirShape ==
  \A c \in OcCalls :
    /\ ocCall[c].pc = "live" => ocRoot = c /\ ocDir[c] = "made"
    /\ ocCall[c].child = "runs"
       \/ ocCall[c].pc \in {"intent", "excl", "again", "record", "start", "wait", "marked"} =>
          ocDir[c] = "locked"

\* Who holds the exclusive lock is alone.
ExclAlone == \A c, d \in OcCalls : ocPop[c] = "excl" /\ c # d => ocPop[d] = "none"

\* After a recovery nothing is abandoned and nobody shares.
AgainAlone ==
  \A c \in OcCalls : At(c, "again") => Abandoned = {} /\ \A d \in OcCalls : ocPop[d] = "none"

\* A package that is half installed has somebody to answer for it.
HalfOwned ==
  \A k \in OcPackages : ocPackage[k].is = "half" =>
    LET p == ocPackage[k].by IN
    /\ p \in OcCalls /\ ocCall[p].pc \in {"wait", "marked", "over", "dead"}
    /\ Readable(ocPending[p]) => k \notin ocPending[p]
    /\ \/ Lives(p) \/ ocPending[p] # OcNone
       \/ k \in Committed
       \/ \E m \in OcModels : ocWarm[m] = OcTorn

\* The invariant.
SharedInv ==
  OcTypeOK /\ CallShape /\ DirShape /\ ExclAlone /\ AgainAlone /\ HalfOwned /\ WarmMeansInstalled

\* Sweep: directories that are not locked are removed.
LEMMA SweepStep ==
  ASSUME OpencodeCacheAssumption, SharedInv, NEW c \in OcCalls, Sweep(c)
  PROVE  SharedInv'
<1> USE OpencodeCacheAssumption DEF OpencodeCacheAssumption
<1>1. OcTypeOK'
  BY DEF SharedInv, Sweep, OcGoto, OcCallState, At, Lives, OcTypeOK
<1>2. CallShape'
  BY DEF SharedInv, Sweep, OcGoto, CallShape, Installed, At, Lives
<1>3. DirShape'
  BY DEF SharedInv, Sweep, OcGoto, DirShape, At, Lives
<1>4. ExclAlone'
  BY DEF SharedInv, Sweep, OcGoto, ExclAlone, Lives
<1>5. AgainAlone'
  BY DEF SharedInv, Sweep, OcGoto, AgainAlone, Abandoned, Lives, At
<1>6. HalfOwned'
  BY DEF SharedInv, Sweep, OcGoto, HalfOwned, Lives, Readable, At, Committed
<1>7. WarmMeansInstalled'
  BY DEF SharedInv, Sweep, OcGoto, WarmMeansInstalled, Installed, Readable, Lives
<1> QED BY <1>1, <1>2, <1>3, <1>4, <1>5, <1>6, <1>7 DEF SharedInv

\* MakeDirectory: the call makes its own.
LEMMA MakeDirectoryStep ==
  ASSUME OpencodeCacheAssumption, SharedInv, NEW c \in OcCalls, MakeDirectory(c)
  PROVE  SharedInv'
<1> USE OpencodeCacheAssumption DEF OpencodeCacheAssumption
<1>1. OcTypeOK'
  BY DEF SharedInv, MakeDirectory, OcGoto, OcCallState, At, RootLock, OcTypeOK
<1>2. CallShape'
  BY DEF SharedInv, MakeDirectory, OcGoto, CallShape, Installed, At, RootLock
<1>3. DirShape'
  BY DEF SharedInv, MakeDirectory, OcGoto, DirShape, CallShape, At, RootLock, OcTypeOK
<1>4. ExclAlone'
  BY DEF SharedInv, MakeDirectory, OcGoto, ExclAlone, RootLock
<1>5. AgainAlone'
  BY DEF SharedInv, MakeDirectory, OcGoto, AgainAlone, Abandoned, Lives, At, RootLock
<1>6. HalfOwned'
  BY DEF SharedInv, MakeDirectory, OcGoto, HalfOwned, Lives, Readable, At, Committed, RootLock
<1>7. WarmMeansInstalled'
  BY DEF SharedInv, MakeDirectory, OcGoto, WarmMeansInstalled, Installed, Readable, RootLock
<1> QED BY <1>1, <1>2, <1>3, <1>4, <1>5, <1>6, <1>7 DEF SharedInv

\* LockDirectory: and locks it.
LEMMA LockDirectoryStep ==
  ASSUME OpencodeCacheAssumption, SharedInv, NEW c \in OcCalls, LockDirectory(c)
  PROVE  SharedInv'
<1> USE OpencodeCacheAssumption DEF OpencodeCacheAssumption
<1>1. OcTypeOK'
  BY DEF SharedInv, LockDirectory, OcGoto, OcCallState, At, OcTypeOK
<1>2. CallShape'
  BY DEF SharedInv, LockDirectory, OcGoto, CallShape, Installed, At
<1>3. DirShape'
  BY DEF SharedInv, LockDirectory, OcGoto, DirShape, At, OcTypeOK
<1>4. ExclAlone'
  BY DEF SharedInv, LockDirectory, OcGoto, ExclAlone
<1>5. AgainAlone'
  BY DEF SharedInv, LockDirectory, OcGoto, AgainAlone, Abandoned, Lives, At
<1>6. HalfOwned'
  BY DEF SharedInv, LockDirectory, OcGoto, HalfOwned, Lives, Readable, At, Committed
<1>7. WarmMeansInstalled'
  BY DEF SharedInv, LockDirectory, OcGoto, WarmMeansInstalled, Installed, Readable
<1> QED BY <1>1, <1>2, <1>3, <1>4, <1>5, <1>6, <1>7 DEF SharedInv

\* TakeShared: a warm model needs the shared lock alone.
LEMMA TakeSharedStep ==
  ASSUME OpencodeCacheAssumption, SharedInv, NEW c \in OcCalls, TakeShared(c)
  PROVE  SharedInv'
<1> USE OpencodeCacheAssumption DEF OpencodeCacheAssumption
<1>1. OcTypeOK'
  <2>1. ocCall' \in [OcCalls -> OcCallState]
    BY DEF SharedInv, TakeShared, OcGoto, OcCallState, MayShare, OcTypeOK
  <2>2. /\ ocPop' \in [OcCalls -> {"none", "shared", "excl"}]
        /\ ocIntent' \in OcCalls \cup {OcNone} /\ ocRoot' \in OcCalls \cup {OcNone}
        /\ ocPackage' \in [OcPackages -> [is : {"absent", "half", "whole"}, by : OcCalls \cup {OcNone}]]
        /\ ocDir' \in [OcCalls -> {"none", "made", "locked"}]
        /\ ocCrashes' \in 0..OcMaxCrashes
    BY DEF SharedInv, TakeShared, MayShare, OcTypeOK
  <2>3. ocWarm' \in [OcModels -> Inventory] /\ ocPending' \in [OcCalls -> Inventory]
    BY DEF SharedInv, TakeShared, MayShare, OcTypeOK
  <2>4. \A d \in OcCalls :
          /\ ocRoot' = d => ocCall'[d].pc = "live"
          /\ ocIntent' = d => ocCall'[d].pc \in {"excl", "again"}
    <3>1. \A d \in OcCalls : d # c => ocCall'[d] = ocCall[d]
      BY DEF SharedInv, TakeShared, OcGoto, OcTypeOK
    <3>2. ocRoot' = ocRoot /\ ocRoot # c /\ ocIntent # c
      BY DEF SharedInv, TakeShared, At, OcTypeOK
    <3>3. ocIntent' = ocIntent \/ (ocIntent' = c /\ ocCall'[c].pc = "excl")
      BY DEF SharedInv, TakeShared, OcGoto, OcCallState, OcTypeOK
    <3> QED BY <3>1, <3>2, <3>3 DEF SharedInv, At, OcTypeOK
  <2> QED BY <2>1, <2>2, <2>3, <2>4 DEF At, OcTypeOK
<1>2. CallShape'
  <2>1. CASE MayShare(c)
    BY <2>1 DEF SharedInv, TakeShared, OcGoto, CallShape, Installed, OcCallState, At, NobodyElse,
         Waits, OcTypeOK
  <2>2. CASE ~MayShare(c)
    BY <2>2 DEF SharedInv, TakeShared, OcGoto, CallShape, Installed, OcCallState, At, NobodyElse,
         Waits, OcTypeOK
  <2> QED BY <2>1, <2>2 DEF TakeShared
<1>3. DirShape'
  <2>1. CASE MayShare(c)
    BY <2>1 DEF SharedInv, TakeShared, OcGoto, DirShape, OcCallState, Inventory, At, NobodyElse,
         Waits, OcTypeOK
  <2>2. CASE ~MayShare(c)
    BY <2>2 DEF SharedInv, TakeShared, OcGoto, DirShape, OcCallState, At, NobodyElse, Waits,
         OcTypeOK
  <2> QED BY <2>1, <2>2 DEF TakeShared
<1>4. ExclAlone'
  BY DEF SharedInv, TakeShared, OcGoto, ExclAlone, MayShare, IsWarm, NobodyElse, Waits, OcTypeOK
<1>5. AgainAlone'
  <2>1. CASE MayShare(c)
    BY <2>1 DEF SharedInv, TakeShared, OcGoto, AgainAlone, Abandoned, Lives, At, OcCallState,
         CallShape, NobodyElse, Waits, OcTypeOK
  <2>2. CASE ~MayShare(c)
    BY <2>2 DEF SharedInv, TakeShared, OcGoto, AgainAlone, Abandoned, Lives, At, OcCallState,
         CallShape, NobodyElse, Waits, OcTypeOK
  <2> QED BY <2>1, <2>2 DEF TakeShared
<1>6. HalfOwned'
  <2>1. Committed' = Committed
    BY DEF TakeShared, Committed, Readable
  <2>2. ASSUME NEW k \in OcPackages, ocPackage'[k].is = "half"
        PROVE  /\ ocPackage'[k].by \in OcCalls
               /\ ocCall'[ocPackage'[k].by].pc \in {"wait", "marked", "over", "dead"}
               /\ Readable(ocPending'[ocPackage'[k].by]) => k \notin ocPending'[ocPackage'[k].by]
               /\ \/ ocCall'[ocPackage'[k].by].pc # "dead" \/ ocCall'[ocPackage'[k].by].child = "runs"
                  \/ ocPending'[ocPackage'[k].by] # OcNone
                  \/ k \in Committed
                  \/ \E m \in OcModels : ocWarm'[m] = OcTorn
    BY <2>2, <2>1 DEF SharedInv, HalfOwned, TakeShared, OcGoto, Readable, Lives, At, OcTypeOK
  <2> QED BY <2>1, <2>2 DEF HalfOwned, Lives, At, Readable
<1>7. WarmMeansInstalled'
  BY DEF SharedInv, TakeShared, OcGoto, WarmMeansInstalled, Installed, Readable, MayShare, IsWarm,
       NobodyElse, Waits
<1> QED BY <1>1, <1>2, <1>3, <1>4, <1>5, <1>6, <1>7 DEF SharedInv

\* TakeExclusive: nobody shares.
LEMMA TakeExclusiveStep ==
  ASSUME OpencodeCacheAssumption, SharedInv, NEW c \in OcCalls, TakeExclusive(c)
  PROVE  SharedInv'
<1> USE OpencodeCacheAssumption DEF OpencodeCacheAssumption
<1>1. OcTypeOK'
  BY DEF SharedInv, TakeExclusive, OcGoto, At, NobodyElse, OcTypeOK
<1>2. CallShape'
  BY DEF SharedInv, TakeExclusive, OcGoto, CallShape, At, NobodyElse, OcTypeOK
<1>3. DirShape'
  BY DEF SharedInv, TakeExclusive, OcGoto, DirShape, NobodyElse
<1>4. ExclAlone'
  BY DEF SharedInv, TakeExclusive, OcGoto, ExclAlone, NobodyElse, OcTypeOK
<1>5. AgainAlone'
  BY DEF SharedInv, TakeExclusive, OcGoto, AgainAlone, Abandoned, Lives, At, CallShape, NobodyElse
<1>6. HalfOwned'
  BY DEF SharedInv, TakeExclusive, OcGoto, HalfOwned, Lives, Readable, At, Committed, NobodyElse
<1>7. WarmMeansInstalled'
  BY DEF SharedInv, TakeExclusive, OcGoto, WarmMeansInstalled, Installed, Readable, NobodyElse
<1> QED BY <1>1, <1>2, <1>3, <1>4, <1>5, <1>6, <1>7 DEF SharedInv

\* RemovePartly: the recovery may stop in the middle.
LEMMA RemovePartlyStep ==
  ASSUME OpencodeCacheAssumption, SharedInv, NEW c \in OcCalls, RemovePartly(c)
  PROVE  SharedInv'
<1> USE OpencodeCacheAssumption DEF OpencodeCacheAssumption
<1>1. OcTypeOK'
  BY DEF SharedInv, RemovePartly, OcGoto, At, Recovering, Abandoned, Additions, Installed,
       Readable, OcTypeOK
<1>2. CallShape'
  BY DEF SharedInv, RemovePartly, OcGoto, CallShape, Installed, Recovering, Abandoned, Additions,
       Readable
<1>3. DirShape'
  BY DEF SharedInv, RemovePartly, OcGoto, DirShape, Recovering, Abandoned, Additions, Readable
<1>4. ExclAlone'
  BY DEF SharedInv, RemovePartly, OcGoto, ExclAlone, Recovering, Abandoned, Additions, Readable
<1>5. AgainAlone'
  BY DEF SharedInv, RemovePartly, OcGoto, AgainAlone, Abandoned, Lives, At, Recovering, Additions,
       Readable
<1>6. HalfOwned'
  BY DEF SharedInv, RemovePartly, OcGoto, HalfOwned, Lives, Readable, At, Committed, Recovering,
       Abandoned, Additions
<1>7. WarmMeansInstalled'
  BY DEF SharedInv, RemovePartly, OcGoto, WarmMeansInstalled, Installed, Readable, Recovering,
       Abandoned, Additions
<1> QED BY <1>1, <1>2, <1>3, <1>4, <1>5, <1>6, <1>7 DEF SharedInv

\* RecoverOne: what an abandoned call did not find installed is removed.
LEMMA RecoverOneStep ==
  ASSUME OpencodeCacheAssumption, SharedInv, NEW c \in OcCalls, RecoverOne(c)
  PROVE  SharedInv'
<1> USE OpencodeCacheAssumption DEF OpencodeCacheAssumption
<1>1. OcTypeOK'
  BY DEF SharedInv, RecoverOne, OcGoto, At, CallShape, Recovering, Abandoned, Additions, Readable,
       Committed, OcTypeOK
<1>2. CallShape'
  BY DEF SharedInv, RecoverOne, OcGoto, CallShape, ExclAlone, At, Recovering, Abandoned,
       Additions, Readable, Committed
<1>3. DirShape'
  BY DEF SharedInv, RecoverOne, OcGoto, DirShape, Recovering, Abandoned, Additions, Readable,
       Committed
<1>4. ExclAlone'
  BY DEF SharedInv, RecoverOne, OcGoto, ExclAlone, Recovering, Abandoned, Additions, Readable,
       Committed
<1>5. AgainAlone'
  BY DEF SharedInv, RecoverOne, OcGoto, AgainAlone, Abandoned, Lives, At, Recovering, Additions,
       Readable, Committed
<1>6. HalfOwned'
  <2>1. PICK p \in Abandoned :
          /\ ocPackage' = [k \in OcPackages |->
               IF k \in Additions(p) THEN [is |-> "absent", by |-> OcNone] ELSE ocPackage[k]]
          /\ ocWarm' = IF ocPending[p] = OcTorn THEN [m \in OcModels |-> OcNone] ELSE ocWarm
          /\ ocPending' = [ocPending EXCEPT ![p] = OcNone]
    BY DEF RecoverOne
  <2>2. p \in OcCalls /\ ocPending[p] # OcNone
    BY DEF Abandoned
  <2>3. ocCall' = ocCall
    BY DEF RecoverOne
  <2>4. \A d \in OcCalls : ocPending'[d] = IF d = p THEN OcNone ELSE ocPending[d]
    BY <2>1, <2>2 DEF SharedInv, OcTypeOK
  <2>5. \A k \in OcPackages : ocPackage'[k].is = "half" =>
          k \notin Additions(p) /\ k \in Installed /\ ocPackage'[k] = ocPackage[k]
    BY <2>1 DEF Installed
  <2>6. CASE ocPending[p] = OcTorn
    BY <2>5, <2>6 DEF Additions, HalfOwned
  <2>7. CASE ocPending[p] # OcTorn
    <3>1. ocWarm' = ocWarm /\ Committed' = Committed
      BY <2>1, <2>7 DEF Committed, Readable
    <3>2. Readable(ocPending[p]) /\ ~Readable(OcNone)
      BY <2>2, <2>7 DEF Readable
    <3>3. \A k \in OcPackages : ocPackage'[k].is = "half" => k \in ocPending[p] \/ k \in Committed
      BY <2>5, <2>7 DEF Additions
    <3>4. ASSUME NEW k \in OcPackages, ocPackage'[k].is = "half"
          PROVE  LET q == ocPackage'[k].by IN
                 /\ q \in OcCalls /\ ocCall[q].pc \in {"wait", "marked", "over", "dead"}
                 /\ Readable(ocPending'[q]) => k \notin ocPending'[q]
                 /\ \/ Lives(q) \/ ocPending'[q] # OcNone
                    \/ k \in Committed
                    \/ \E m \in OcModels : ocWarm[m] = OcTorn
      <4> DEFINE q == ocPackage[k].by
      <4>1. ocPackage'[k] = ocPackage[k]
        BY <2>5, <3>4
      <4>2. /\ q \in OcCalls /\ ocCall[q].pc \in {"wait", "marked", "over", "dead"}
            /\ Readable(ocPending[q]) => k \notin ocPending[q]
            /\ \/ Lives(q) \/ ocPending[q] # OcNone
               \/ k \in Committed
               \/ \E m \in OcModels : ocWarm[m] = OcTorn
        BY <3>4, <4>1 DEF SharedInv, HalfOwned
      <4> HIDE DEF q
      <4>3. CASE q = p
        BY <2>4, <3>2, <3>3, <3>4, <4>1, <4>2, <4>3 DEF q
      <4>4. CASE q # p
        BY <2>4, <4>1, <4>2, <4>4 DEF q
      <4> QED BY <4>3, <4>4
    <3> QED BY <2>3, <3>1, <3>4 DEF HalfOwned, Lives, At
  <2> QED BY <2>6, <2>7
<1>7. WarmMeansInstalled'
  BY DEF SharedInv, RecoverOne, OcGoto, WarmMeansInstalled, Installed, Readable, Recovering,
       Abandoned, Additions, Committed
<1> QED BY <1>1, <1>2, <1>3, <1>4, <1>5, <1>6, <1>7 DEF SharedInv

\* Recovered: nothing is abandoned any more.
LEMMA RecoveredStep ==
  ASSUME OpencodeCacheAssumption, SharedInv, NEW c \in OcCalls, Recovered(c)
  PROVE  SharedInv'
<1> USE OpencodeCacheAssumption DEF OpencodeCacheAssumption
<1>1. OcTypeOK'
  <2>1. CASE IsWarm(c)
    <3>1. /\ ocCall' \in [OcCalls -> OcCallState]
          /\ ocPop' \in [OcCalls -> {"none", "shared", "excl"}]
      <4>1. ocCall' = [ocCall EXCEPT ![c].pc = "again"] /\ ocPop' = [ocPop EXCEPT ![c] = "none"]
        BY <2>1 DEF Recovered, OcGoto
      <4> QED BY <4>1 DEF SharedInv, OcCallState, OcTypeOK
    <3>2. \A d \in OcCalls : /\ ocRoot = d => ocCall'[d].pc = "live"
                             /\ ocIntent = d => ocCall'[d].pc \in {"excl", "again"}
      <4>1. \A d \in OcCalls : d # c => ocCall'[d] = ocCall[d]
        BY <2>1 DEF SharedInv, Recovered, OcGoto, OcTypeOK
      <4>2. ocCall'[c].pc = "again" /\ ocRoot # c
        BY <2>1 DEF SharedInv, Recovered, OcGoto, OcCallState, Recovering, At, OcTypeOK
      <4> QED BY <4>1, <4>2 DEF SharedInv, At, OcTypeOK
    <3>3. UNCHANGED <<ocIntent, ocRoot, ocPackage, ocWarm, ocPending, ocDir, ocCrashes>>
      BY <2>1 DEF Recovered
    <3> QED BY <3>1, <3>2, <3>3 DEF SharedInv, At, OcTypeOK
  <2>2. CASE ~IsWarm(c)
    BY <2>2 DEF SharedInv, Recovered, OcGoto, OcCallState, At, Recovering, OcTypeOK
  <2> QED BY <2>1, <2>2 DEF Recovered
<1>2. CallShape'
  <2>1. CASE IsWarm(c)
    BY <2>1 DEF SharedInv, Recovered, OcGoto, CallShape, Installed, OcCallState, At, Recovering,
         OcTypeOK
  <2>2. CASE ~IsWarm(c)
    BY <2>2 DEF SharedInv, Recovered, OcGoto, CallShape, Installed, OcCallState, At, Recovering,
         OcTypeOK
  <2> QED BY <2>1, <2>2 DEF Recovered
<1>3. DirShape'
  <2>1. CASE IsWarm(c)
    BY <2>1 DEF SharedInv, Recovered, OcGoto, DirShape, OcCallState, At, Recovering, OcTypeOK
  <2>2. CASE ~IsWarm(c)
    BY <2>2 DEF SharedInv, Recovered, OcGoto, DirShape, OcCallState, At, Recovering, OcTypeOK
  <2> QED BY <2>1, <2>2 DEF Recovered
<1>4. ExclAlone'
  BY DEF SharedInv, Recovered, OcGoto, ExclAlone, Recovering, Abandoned, IsWarm, OcTypeOK
<1>5. AgainAlone'
  <2>1. CASE IsWarm(c)
    BY <2>1 DEF SharedInv, Recovered, OcGoto, AgainAlone, Abandoned, Lives, At, ExclAlone,
         Recovering, OcTypeOK
  <2>2. CASE ~IsWarm(c)
    <3>1. \A d \in OcCalls : ocCall'[d].pc # "again"
      BY <2>2 DEF SharedInv, Recovered, OcGoto, At, OcCallState, CallShape, Recovering, OcTypeOK
    <3> QED BY <3>1 DEF AgainAlone, At
  <2> QED BY <2>1, <2>2
<1>6. HalfOwned'
  BY DEF SharedInv, Recovered, OcGoto, HalfOwned, Lives, Readable, At, Committed, Recovering,
       Abandoned, IsWarm, OcTypeOK
<1>7. WarmMeansInstalled'
  BY DEF SharedInv, Recovered, OcGoto, WarmMeansInstalled, Installed, Readable, Recovering,
       Abandoned, IsWarm
<1> QED BY <1>1, <1>2, <1>3, <1>4, <1>5, <1>6, <1>7 DEF SharedInv

\* TakeSharedAgain: the lock is turned into a shared one.
LEMMA TakeSharedAgainStep ==
  ASSUME OpencodeCacheAssumption, SharedInv, NEW c \in OcCalls, TakeSharedAgain(c)
  PROVE  SharedInv'
<1> USE OpencodeCacheAssumption DEF OpencodeCacheAssumption
<1>1. OcTypeOK'
  BY DEF SharedInv, TakeSharedAgain, OcGoto, OcCallState, At, NobodyElse, OcTypeOK
<1>2. CallShape'
  BY DEF SharedInv, TakeSharedAgain, OcGoto, CallShape, Installed, At, NobodyElse, OcTypeOK
<1>3. DirShape'
  BY DEF SharedInv, TakeSharedAgain, OcGoto, DirShape, At, NobodyElse
<1>4. ExclAlone'
  BY DEF SharedInv, TakeSharedAgain, OcGoto, ExclAlone, NobodyElse
<1>5. AgainAlone'
  BY DEF SharedInv, TakeSharedAgain, OcGoto, AgainAlone, Abandoned, Lives, At, CallShape,
       NobodyElse, OcTypeOK
<1>6. HalfOwned'
  BY DEF SharedInv, TakeSharedAgain, OcGoto, HalfOwned, Lives, Readable, At, Committed, NobodyElse
<1>7. WarmMeansInstalled'
  BY DEF SharedInv, TakeSharedAgain, OcGoto, WarmMeansInstalled, Installed, Readable, NobodyElse
<1> QED BY <1>1, <1>2, <1>3, <1>4, <1>5, <1>6, <1>7 DEF SharedInv

\* RecordCall: what is installed is recorded.
LEMMA RecordCallStep ==
  ASSUME OpencodeCacheAssumption, SharedInv, NEW c \in OcCalls, RecordCall(c)
  PROVE  SharedInv'
<1> USE OpencodeCacheAssumption DEF OpencodeCacheAssumption
<1>1. OcTypeOK'
  BY DEF SharedInv, RecordCall, OcGoto, OcCallState, Inventory, At, Installed, OcTypeOK
<1>2. CallShape'
  <2>1. \A d \in OcCalls : d # c => ocCall'[d] = ocCall[d] /\ ocPending'[d] = ocPending[d]
    BY DEF RecordCall, OcGoto, SharedInv
  <2>2. ocCall'[c].pc = "start" /\ ocCall'[c].child = ocCall[c].child /\ ocPending'[c] = Installed
    BY DEF RecordCall, OcGoto, SharedInv, OcTypeOK
  <2>3. Installed' = Installed /\ Installed \in SUBSET OcPackages
    BY DEF RecordCall, Installed
  <2>4. Installed # OcNone
    BY <2>3
  <2>5. ocCall[c].pc = "record" /\ ocPop' = ocPop /\ ocIntent' = ocIntent
    BY DEF RecordCall, At
  <2> QED BY <2>1, <2>2, <2>3, <2>4, <2>5 DEF SharedInv, CallShape
<1>3. DirShape'
  BY DEF SharedInv, RecordCall, OcGoto, DirShape, At
<1>4. ExclAlone'
  BY DEF SharedInv, RecordCall, OcGoto, ExclAlone
<1>5. AgainAlone'
  BY DEF SharedInv, RecordCall, OcGoto, AgainAlone, Abandoned, Lives, At
<1>6. HalfOwned'
  BY DEF SharedInv, RecordCall, OcGoto, HalfOwned, Lives, Readable, At, Committed
<1>7. WarmMeansInstalled'
  BY DEF SharedInv, RecordCall, OcGoto, WarmMeansInstalled, Installed, Readable
<1> QED BY <1>1, <1>2, <1>3, <1>4, <1>5, <1>6, <1>7 DEF SharedInv

\* Start: the program runs.
LEMMA StartStep ==
  ASSUME OpencodeCacheAssumption, SharedInv, NEW c \in OcCalls, Start(c)
  PROVE  SharedInv'
<1> USE OpencodeCacheAssumption DEF OpencodeCacheAssumption
<1>1. OcTypeOK'
  BY DEF SharedInv, Start, OcGoto, OcCallState, At, OcTypeOK
<1>2. CallShape'
  BY DEF SharedInv, Start, OcGoto, CallShape, Installed, At
<1>3. DirShape'
  BY DEF SharedInv, Start, OcGoto, DirShape, At
<1>4. ExclAlone'
  BY DEF SharedInv, Start, OcGoto, ExclAlone
<1>5. AgainAlone'
  BY DEF SharedInv, Start, OcGoto, AgainAlone, Abandoned, Lives, At
<1>6. HalfOwned'
  BY DEF SharedInv, Start, OcGoto, HalfOwned, Lives, Readable, At, Committed
<1>7. WarmMeansInstalled'
  BY DEF SharedInv, Start, OcGoto, WarmMeansInstalled, Installed, Readable
<1> QED BY <1>1, <1>2, <1>3, <1>4, <1>5, <1>6, <1>7 DEF SharedInv

\* MarkWarm: the packages it needs are there.
LEMMA MarkWarmStep ==
  ASSUME OpencodeCacheAssumption, SharedInv, NEW c \in OcCalls, MarkWarm(c)
  PROVE  SharedInv'
<1> USE OpencodeCacheAssumption DEF OpencodeCacheAssumption
<1>1. OcTypeOK'
  BY DEF SharedInv, MarkWarm, OcGoto, OcCallState, Inventory, At, Installed, OcTypeOK
<1>2. CallShape'
  BY DEF SharedInv, MarkWarm, OcGoto, CallShape, Installed, At
<1>3. DirShape'
  BY DEF SharedInv, MarkWarm, OcGoto, DirShape, At
<1>4. ExclAlone'
  BY DEF SharedInv, MarkWarm, OcGoto, ExclAlone
<1>5. AgainAlone'
  BY DEF SharedInv, MarkWarm, OcGoto, AgainAlone, Abandoned, Lives, At
<1>6. HalfOwned'
  <2>1. \A k \in OcPackages : ocPackage'[k].is = "half" => k \in Installed
    BY DEF MarkWarm, Installed
  <2>2. Installed \in SUBSET OcPackages
    BY DEF Installed
  <2>3. ocWarm'[OcModelOf[c]] = Installed /\ OcModelOf[c] \in OcModels
    BY DEF MarkWarm, SharedInv, OcTypeOK
  <2>4. Installed \subseteq Committed'
    BY <2>2, <2>3 DEF Committed, Readable
  <2>5. \A d \in OcCalls : ocCall'[d].pc = ocCall[d].pc \/ (d = c /\ ocCall'[d].pc = "marked")
    BY DEF MarkWarm, OcGoto, SharedInv
  <2>6. ocPackage' = ocPackage /\ ocPending' = ocPending
    BY DEF MarkWarm
  <2> QED BY <2>1, <2>4, <2>5, <2>6 DEF HalfOwned, SharedInv, Readable
<1>7. WarmMeansInstalled'
  BY DEF SharedInv, MarkWarm, OcGoto, WarmMeansInstalled, Installed, Readable
<1> QED BY <1>1, <1>2, <1>3, <1>4, <1>5, <1>6, <1>7 DEF SharedInv

\* LeaveCall: the record is removed with the call.
LEMMA LeaveCallStep ==
  ASSUME OpencodeCacheAssumption, SharedInv, NEW c \in OcCalls, LeaveCall(c)
  PROVE  SharedInv'
<1> USE OpencodeCacheAssumption DEF OpencodeCacheAssumption
<1>1. OcTypeOK'
  <2>1. ocCall' \in [OcCalls -> OcCallState]
    BY DEF SharedInv, LeaveCall, OcGoto, OcCallState, Released, OcTypeOK
  <2>2. /\ ocPop' \in [OcCalls -> {"none", "shared", "excl"}]
        /\ ocIntent' \in {OcNone, ocIntent} /\ ocRoot' \in {OcNone, ocRoot}
        /\ ocPackage' = ocPackage
        /\ ocDir' \in [OcCalls -> {"none", "made", "locked"}]
        /\ ocCrashes' = ocCrashes
    BY DEF SharedInv, LeaveCall, Released, OcTypeOK
  <2>3. ocWarm' \in [OcModels -> Inventory] /\ ocPending' \in [OcCalls -> Inventory]
    <3>1. ocWarm' = ocWarm /\ ocPending' = [ocPending EXCEPT ![c] = OcNone]
      BY DEF LeaveCall
    <3>2. OcNone \in Inventory
      BY DEF Inventory
    <3> HIDE DEF Inventory
    <3> QED BY <3>1, <3>2 DEF SharedInv, OcTypeOK
  <2>4. \A d \in OcCalls :
          /\ ocRoot' = d => ocCall'[d].pc = "live"
          /\ ocIntent' = d => ocCall'[d].pc \in {"excl", "again"}
    <3>1. \A d \in OcCalls : d # c => ocCall'[d] = ocCall[d]
      BY DEF SharedInv, LeaveCall
    <3>2. ocRoot' # c /\ ocIntent' # c
      BY DEF LeaveCall, Released
    <3>3. \A d \in OcCalls : ocRoot' = d => d # c /\ ocRoot = d
      BY <2>2, <3>2
    <3>4. \A d \in OcCalls : ocIntent' = d => d # c /\ ocIntent = d
      BY <2>2, <3>2
    <3> QED BY <3>1, <3>3, <3>4 DEF SharedInv, At, OcTypeOK
  <2> QED BY <2>1, <2>2, <2>3, <2>4 DEF At, SharedInv, OcTypeOK
<1>2. CallShape'
  BY DEF SharedInv, LeaveCall, OcGoto, CallShape, Installed, Released, OcTypeOK
<1>3. DirShape'
  BY DEF SharedInv, LeaveCall, OcGoto, DirShape, Released, OcTypeOK
<1>4. ExclAlone'
  BY DEF SharedInv, LeaveCall, OcGoto, ExclAlone, Released
<1>5. AgainAlone'
  BY DEF SharedInv, LeaveCall, OcGoto, AgainAlone, Abandoned, Lives, At, Released
<1>6. HalfOwned'
  BY DEF SharedInv, LeaveCall, OcGoto, HalfOwned, Lives, Readable, At, Committed, Released
<1>7. WarmMeansInstalled'
  BY DEF SharedInv, LeaveCall, OcGoto, WarmMeansInstalled, Installed, Readable, Released
<1> QED BY <1>1, <1>2, <1>3, <1>4, <1>5, <1>6, <1>7 DEF SharedInv

\* ProgramDies: its process runs on.
LEMMA ProgramDiesStep ==
  ASSUME OpencodeCacheAssumption, SharedInv, NEW c \in OcCalls, ProgramDies(c)
  PROVE  SharedInv'
<1> USE OpencodeCacheAssumption DEF OpencodeCacheAssumption
<1>1. OcTypeOK'
  BY DEF SharedInv, ProgramDies, OcGoto, OcCallState, At, Inherited, Released, OcTypeOK
<1>2. CallShape'
  BY DEF SharedInv, ProgramDies, OcGoto, CallShape, Installed, Inherited, Released, OcTypeOK
<1>3. DirShape'
  BY DEF SharedInv, ProgramDies, OcGoto, DirShape, Inherited, Released, OcTypeOK
<1>4. ExclAlone'
  BY DEF SharedInv, ProgramDies, OcGoto, ExclAlone, Inherited, Released
<1>5. AgainAlone'
  BY DEF SharedInv, ProgramDies, OcGoto, AgainAlone, Abandoned, Lives, At, CallShape, Inherited,
       Released
<1>6. HalfOwned'
  <2>1. Committed' = Committed
    BY DEF ProgramDies, Committed, Readable
  <2>2. ASSUME NEW k \in OcPackages, ocPackage'[k].is = "half"
        PROVE  /\ ocPackage'[k].by \in OcCalls
               /\ ocCall'[ocPackage'[k].by].pc \in {"wait", "marked", "over", "dead"}
               /\ Readable(ocPending'[ocPackage'[k].by]) => k \notin ocPending'[ocPackage'[k].by]
               /\ \/ ocCall'[ocPackage'[k].by].pc # "dead" \/ ocCall'[ocPackage'[k].by].child = "runs"
                  \/ ocPending'[ocPackage'[k].by] # OcNone
                  \/ k \in Committed
                  \/ \E m \in OcModels : ocWarm'[m] = OcTorn
    <3> DEFINE p == ocPackage[k].by
    <3>1. /\ ocPackage' = ocPackage /\ ocWarm' = ocWarm /\ ocPending' = ocPending
          /\ p \in OcCalls /\ ocCall[p].pc \in {"wait", "marked", "over", "dead"}
          /\ Readable(ocPending[p]) => k \notin ocPending[p]
          /\ \/ ocCall[p].pc # "dead" \/ ocCall[p].child = "runs" \/ ocPending[p] # OcNone
             \/ k \in Committed
             \/ \E m \in OcModels : ocWarm[m] = OcTorn
      BY <2>2 DEF SharedInv, HalfOwned, ProgramDies, Lives, At
    <3>2. CASE p = c
      <4>1. ocPending[c] # OcNone \/ ocCall'[c].pc # "dead"
        BY <3>1, <3>2 DEF SharedInv, ProgramDies, CallShape, OcGoto
      <4>2. ocCall'[c].pc \in {"wait", "marked", "over", "dead"}
        BY <3>1, <3>2 DEF SharedInv, ProgramDies, OcGoto
      <4> QED BY <2>2, <3>1, <3>2, <4>1, <4>2
    <3>3. CASE p # c
      <4>1. ocCall'[p] = ocCall[p]
        BY <3>1, <3>3 DEF SharedInv, ProgramDies, OcGoto
      <4> QED BY <2>2, <3>1, <4>1
    <3> QED BY <3>2, <3>3
  <2> QED BY <2>1, <2>2 DEF HalfOwned, Lives, At, Readable
<1>7. WarmMeansInstalled'
  BY DEF SharedInv, ProgramDies, OcGoto, WarmMeansInstalled, Installed, Readable, Inherited,
       Released
<1> QED BY <1>1, <1>2, <1>3, <1>4, <1>5, <1>6, <1>7 DEF SharedInv

\* OcChildEnds: the process of a call ends.
LEMMA OcChildEndsStep ==
  ASSUME OpencodeCacheAssumption, SharedInv, NEW c \in OcCalls, OcChildEnds(c)
  PROVE  SharedInv'
<1> USE OpencodeCacheAssumption DEF OpencodeCacheAssumption
<1>1. OcTypeOK'
  BY DEF SharedInv, OcChildEnds, OcGoto, OcCallState, At, OcTypeOK
<1>2. CallShape'
  BY DEF SharedInv, OcChildEnds, OcGoto, CallShape, Installed, At, OcTypeOK
<1>3. DirShape'
  BY DEF SharedInv, OcChildEnds, OcGoto, DirShape
<1>4. ExclAlone'
  BY DEF SharedInv, OcChildEnds, OcGoto, ExclAlone
<1>5. AgainAlone'
  BY DEF SharedInv, OcChildEnds, OcGoto, AgainAlone, Abandoned, Lives, At, CallShape
<1>6. HalfOwned'
  <2>1. Committed' = Committed
    BY DEF OcChildEnds, Committed, Readable
  <2>2. ASSUME NEW k \in OcPackages, ocPackage'[k].is = "half"
        PROVE  /\ ocPackage'[k].by \in OcCalls
               /\ ocCall'[ocPackage'[k].by].pc \in {"wait", "marked", "over", "dead"}
               /\ Readable(ocPending'[ocPackage'[k].by]) => k \notin ocPending'[ocPackage'[k].by]
               /\ \/ ocCall'[ocPackage'[k].by].pc # "dead" \/ ocCall'[ocPackage'[k].by].child = "runs"
                  \/ ocPending'[ocPackage'[k].by] # OcNone
                  \/ k \in Committed
                  \/ \E m \in OcModels : ocWarm'[m] = OcTorn
    <3> DEFINE p == ocPackage[k].by
    <3>1. /\ ocPackage' = ocPackage /\ ocWarm' = ocWarm /\ ocPending' = ocPending
          /\ p \in OcCalls /\ ocCall[p].pc \in {"wait", "marked", "over", "dead"}
          /\ Readable(ocPending[p]) => k \notin ocPending[p]
          /\ \/ ocCall[p].pc # "dead" \/ ocCall[p].child = "runs" \/ ocPending[p] # OcNone
             \/ k \in Committed
             \/ \E m \in OcModels : ocWarm[m] = OcTorn
      BY <2>2 DEF SharedInv, HalfOwned, OcChildEnds, Lives, At
    <3>2. CASE p = c
      <4>1. ocPending[c] # OcNone \/ ocCall'[c].pc # "dead"
        BY <3>1, <3>2 DEF SharedInv, OcChildEnds, CallShape, OcGoto
      <4>2. ocCall'[c].pc \in {"wait", "marked", "over", "dead"}
        BY <3>1, <3>2 DEF SharedInv, OcChildEnds, OcGoto
      <4> QED BY <2>2, <3>1, <3>2, <4>1, <4>2
    <3>3. CASE p # c
      <4>1. ocCall'[p] = ocCall[p]
        BY <3>1, <3>3 DEF SharedInv, OcChildEnds, OcGoto
      <4> QED BY <2>2, <3>1, <4>1
    <3> QED BY <3>2, <3>3
  <2> QED BY <2>1, <2>2 DEF HalfOwned, Lives, At, Readable
<1>7. WarmMeansInstalled'
  BY DEF SharedInv, OcChildEnds, OcGoto, WarmMeansInstalled, Installed, Readable
<1> QED BY <1>1, <1>2, <1>3, <1>4, <1>5, <1>6, <1>7 DEF SharedInv

\* OcChildInstalls: it begins or completes a package.
LEMMA OcChildInstallsStep ==
  ASSUME OpencodeCacheAssumption, SharedInv, NEW c \in OcCalls, NEW k \in OcPackages,
         OcChildInstalls(c, k)
  PROVE  SharedInv'
<1> USE OpencodeCacheAssumption DEF OpencodeCacheAssumption
<1>0. /\ \A j \in OcPackages : j # k => ocPackage'[j] = ocPackage[j]
      /\ ocPackage'[k].by = c /\ ocPackage'[k].is \in {"half", "whole"}
      /\ ocPackage'[k].is = "half" => ocPackage[k].is = "absent"
      /\ ocPackage' \in [OcPackages -> [is : {"absent", "half", "whole"}, by : OcCalls \cup {OcNone}]]
      /\ ocCall[c].child = "runs"
      /\ UNCHANGED <<ocCall, ocPop, ocIntent, ocRoot, ocWarm, ocPending, ocDir, ocCrashes>>
  BY DEF SharedInv, OcChildInstalls, OcTypeOK
<1>10. Installed \subseteq Installed'
  BY <1>0 DEF Installed
<1>1. OcTypeOK'
  BY <1>0 DEF SharedInv, At, OcTypeOK
<1>2. CallShape'
  BY <1>0, <1>10 DEF SharedInv, CallShape
<1>3. DirShape'
  BY DEF SharedInv, OcChildInstalls, OcGoto, DirShape
<1>4. ExclAlone'
  BY DEF SharedInv, OcChildInstalls, OcGoto, ExclAlone
<1>5. AgainAlone'
  BY DEF SharedInv, OcChildInstalls, OcGoto, AgainAlone, Abandoned, Lives, At
<1>6. HalfOwned'
  BY DEF SharedInv, OcChildInstalls, OcGoto, HalfOwned, Lives, Readable, At, Committed, CallShape,
       DirShape, ExclAlone, Installed, OcTypeOK
<1>7. WarmMeansInstalled'
  BY <1>0, <1>10 DEF SharedInv, WarmMeansInstalled, Readable
<1> QED BY <1>1, <1>2, <1>3, <1>4, <1>5, <1>6, <1>7 DEF SharedInv

\* MachineStops: all processes end, files may be torn.
LEMMA MachineStopsStep ==
  ASSUME OpencodeCacheAssumption, SharedInv, MachineStops
  PROVE  SharedInv'
<1> USE OpencodeCacheAssumption DEF OpencodeCacheAssumption
<1>1. OcTypeOK'
  <2>1. ocCall' \in [OcCalls -> OcCallState]
    BY DEF SharedInv, MachineStops, OcGoto, OcCallState, OcTypeOK
  <2>2. /\ ocPop' \in [OcCalls -> {"none", "shared", "excl"}]
        /\ ocIntent' = OcNone /\ ocRoot' = OcNone
        /\ ocPackage' = ocPackage /\ ocDir' = ocDir
        /\ ocCrashes' \in 0..OcMaxCrashes
    BY DEF SharedInv, MachineStops, OcTypeOK
  <2>3. ocWarm' \in [OcModels -> Inventory] /\ ocPending' \in [OcCalls -> Inventory]
    <3>1. OcTorn \in Inventory
      BY DEF Inventory
    <3>2. PICK lost : ocPending' = [c \in OcCalls |-> IF c \in lost THEN OcTorn ELSE ocPending[c]]
      BY DEF MachineStops
    <3>3. PICK lost2 : ocWarm' = [m \in OcModels |-> IF m \in lost2 THEN OcTorn ELSE ocWarm[m]]
      BY DEF MachineStops
    <3> QED BY <3>1, <3>2, <3>3 DEF SharedInv, OcTypeOK
  <2>4. \A d \in OcCalls :
          /\ ocRoot' = d => ocCall'[d].pc = "live"
          /\ ocIntent' = d => ocCall'[d].pc \in {"excl", "again"}
    BY DEF SharedInv, MachineStops, OcGoto
  <2> QED BY <2>1, <2>2, <2>3, <2>4 DEF SharedInv, OcTypeOK
<1>2. CallShape'
  BY DEF SharedInv, MachineStops, OcGoto, CallShape
<1>3. DirShape'
  BY DEF SharedInv, MachineStops, OcGoto, DirShape
<1>4. ExclAlone'
  BY DEF SharedInv, MachineStops, OcGoto, ExclAlone
<1>5. AgainAlone'
  BY DEF SharedInv, MachineStops, OcGoto, AgainAlone, Abandoned, Lives, At
<1>6. HalfOwned'
  <2>1. ocPackage' = ocPackage
    BY DEF MachineStops
  <2>2. \A d \in OcCalls :
          ocPending'[d] = ocPending[d] \/ (ocPending[d] # OcNone /\ ocPending'[d] = OcTorn)
    BY DEF MachineStops, SharedInv
  <2>3. \A m \in OcModels : ocWarm'[m] = ocWarm[m] \/ ocWarm'[m] = OcTorn
    BY DEF MachineStops, SharedInv
  <2>4. (\A m \in OcModels : ocWarm'[m] = ocWarm[m]) => Committed' = Committed
    BY DEF Committed, Readable
  <2>5. \A m \in OcModels : ocWarm[m] = OcTorn => ocWarm'[m] = OcTorn
    BY <2>3
  <2>6. \A d \in OcCalls :
          /\ ocCall[d].pc = "over" => ocCall'[d].pc = "over"
          /\ ocCall[d].pc \in {"wait", "marked", "dead"} => ocCall'[d].pc = "dead"
          /\ ocCall[d].pc \in {"wait", "marked"} \/ ocCall[d].child = "runs" => ocPending[d] # OcNone
    BY DEF MachineStops, SharedInv, CallShape
  <2>7. ASSUME NEW k \in OcPackages, ocPackage[k].is = "half"
        PROVE  LET p == ocPackage[k].by IN
               /\ p \in OcCalls /\ ocCall'[p].pc \in {"wait", "marked", "over", "dead"}
               /\ Readable(ocPending'[p]) => k \notin ocPending'[p]
               /\ \/ ocCall'[p].pc # "dead" \/ ocPending'[p] # OcNone
                  \/ k \in Committed'
                  \/ \E m \in OcModels : ocWarm'[m] = OcTorn
    <3> DEFINE p == ocPackage[k].by
    <3>1. /\ p \in OcCalls /\ ocCall[p].pc \in {"wait", "marked", "over", "dead"}
          /\ Readable(ocPending[p]) => k \notin ocPending[p]
          /\ \/ ocCall[p].pc # "dead" \/ ocCall[p].child = "runs" \/ ocPending[p] # OcNone
             \/ k \in Committed
             \/ \E m \in OcModels : ocWarm[m] = OcTorn
      BY <2>7 DEF SharedInv, HalfOwned, Lives, At
    <3> HIDE DEF p
    <3>2. Readable(ocPending'[p]) => ocPending'[p] = ocPending[p]
      BY <3>1, <2>2 DEF Readable
    <3>3. ocCall'[p].pc = "over" \/ ocPending[p] # OcNone \/ k \in Committed
          \/ \E m \in OcModels : ocWarm[m] = OcTorn
      BY <3>1, <2>6
    <3>4. ocPending[p] # OcNone => ocPending'[p] # OcNone
      BY <3>1, <2>2
    <3>5. ocCall'[p].pc \in {"over", "dead"}
      BY <3>1, <2>6
    <3>6. \/ ocCall'[p].pc # "dead" \/ ocPending'[p] # OcNone
          \/ k \in Committed'
          \/ \E m \in OcModels : ocWarm'[m] = OcTorn
      BY <3>3, <3>4, <2>3, <2>4, <2>5
    <3> QED BY <3>1, <3>2, <3>5, <3>6 DEF p
  <2> QED BY <2>1, <2>7 DEF HalfOwned, Lives, At, Readable
<1>7. WarmMeansInstalled'
  BY DEF SharedInv, MachineStops, OcGoto, WarmMeansInstalled, Installed, Readable
<1> QED BY <1>1, <1>2, <1>3, <1>4, <1>5, <1>6, <1>7 DEF SharedInv

\* It holds of an empty cache.
LEMMA SharedInit ==
  ASSUME OpencodeCacheAssumption, OcInit
  PROVE  SharedInv
<1> USE OpencodeCacheAssumption DEF OpencodeCacheAssumption
<1>1. \A c \in OcCalls : ocCall[c].pc = "sweep" /\ ocCall[c].child = "none" /\ ocPop[c] = "none"
                        /\ ocPending[c] = OcNone
  BY DEF OcInit
<1>2. OcTypeOK
  BY DEF OcInit, OcCallState, Inventory, OcTypeOK
<1>3. CallShape /\ DirShape /\ ExclAlone /\ AgainAlone
  BY <1>1 DEF CallShape, DirShape, ExclAlone, AgainAlone, At
<1>4. HalfOwned /\ WarmMeansInstalled
  BY DEF OcInit, HalfOwned, WarmMeansInstalled, Readable
<1> QED BY <1>2, <1>3, <1>4 DEF SharedInv

\* Every step keeps it.
LEMMA SharedStep ==
  ASSUME OpencodeCacheAssumption, SharedInv, [OcNext]_ocvars
  PROVE  SharedInv'
<1>1. CASE UNCHANGED ocvars
  BY <1>1 DEF ocvars, SharedInv, OcTypeOK, At, CallShape, Installed, DirShape, ExclAlone,
       AgainAlone,
              Abandoned, Lives, HalfOwned, Committed, Readable, WarmMeansInstalled
<1>2. ASSUME NEW c \in OcCalls, OcStep(c)
      PROVE  SharedInv'
  BY <1>2, OpencodeCacheAssumption, SweepStep, MakeDirectoryStep, LockDirectoryStep,
       TakeSharedStep,
     TakeExclusiveStep, RemovePartlyStep, RecoverOneStep, RecoveredStep, TakeSharedAgainStep,
     RecordCallStep, StartStep, MarkWarmStep, LeaveCallStep DEF OcStep
<1> QED
  BY <1>1, <1>2, OpencodeCacheAssumption, ProgramDiesStep, OcChildEndsStep, OcChildInstallsStep,
     MachineStopsStep DEF OcNext

\* The invariant is more than the state properties.
LEMMA SharedSafe ==
  ASSUME OpencodeCacheAssumption, SharedInv
  PROVE  OcTypeOK /\ ColdAlone /\ WarmMeansInstalled /\ LiveDirectoryKept
<1>1. ColdAlone
  BY DEF SharedInv, ExclAlone, CallShape, ColdAlone
<1> QED BY <1>1 DEF SharedInv, DirShape, LiveDirectoryKept

\* Who goes ahead finds no package half installed that nobody answers for.
GoesAheadWhole ==
  \A c \in OcCalls : ~At(c, "record") /\ ocCall'[c].pc = "record" =>
    \A k \in OcPackages : ocPackage[k].is = "half" =>
      \/ ocPackage[k].by \in OcCalls /\ Lives(ocPackage[k].by)
      \/ k \in Committed
      \/ \E m \in OcModels : ocWarm[m] = OcTorn

\* How a call gets there.
LEMMA IntoRecord ==
  ASSUME SharedInv, [OcNext]_ocvars, NEW c \in OcCalls, ~At(c, "record"), ocCall'[c].pc = "record"
  PROVE  (TakeShared(c) /\ MayShare(c)) \/ Recovered(c) \/ TakeSharedAgain(c)
<1>1. \A d \in OcCalls : OcStep(d) /\ d # c => ocCall'[c] = ocCall[c]
  BY DEF OcStep, Sweep, MakeDirectory, LockDirectory, TakeShared, TakeExclusive, RemovePartly,
         RecoverOne, Recovered, TakeSharedAgain, RecordCall, Start, MarkWarm, LeaveCall, OcGoto,
         SharedInv, OcTypeOK
<1>2. \A d \in OcCalls : (ProgramDies(d) \/ OcChildEnds(d)) =>
        ocCall'[c].pc = ocCall[c].pc \/ ocCall'[c].pc = "dead"
  BY DEF ProgramDies, OcChildEnds, OcGoto, SharedInv, OcCallState, OcTypeOK
<1>3. (\E d \in OcCalls, k \in OcPackages : OcChildInstalls(d, k)) => ocCall' = ocCall
  BY DEF OcChildInstalls
<1>4. MachineStops => ocCall'[c] = ocCall[c] \/ ocCall'[c].pc = "dead"
  BY DEF MachineStops
<1>5. ocCall' # ocCall
  BY DEF At
<1>6. OcStep(c)
  BY <1>1, <1>2, <1>3, <1>4, <1>5 DEF OcNext, ocvars, At
<1>7. ~(Sweep(c) \/ MakeDirectory(c) \/ LockDirectory(c) \/ RecordCall(c) \/ Start(c) \/ MarkWarm(c))
  BY DEF Sweep, MakeDirectory, LockDirectory, RecordCall, Start, MarkWarm, OcGoto, SharedInv,
         OcTypeOK, OcCallState
<1>8. ~(TakeExclusive(c) \/ RemovePartly(c) \/ RecoverOne(c) \/ LeaveCall(c))
  BY <1>5 DEF TakeExclusive, RemovePartly, RecoverOne, LeaveCall, SharedInv, OcTypeOK
<1>9. TakeShared(c) => MayShare(c)
  BY DEF TakeShared, OcGoto, SharedInv, OcCallState, OcTypeOK
<1> QED BY <1>6, <1>7, <1>8, <1>9 DEF OcStep

\* It is so.
LEMMA SharedGoesAheadWhole ==
  ASSUME SharedInv, [OcNext]_ocvars
  PROVE  GoesAheadWhole
<1> SUFFICES ASSUME NEW c \in OcCalls, ~At(c, "record"), ocCall'[c].pc = "record"
             PROVE  Abandoned = {}
  BY DEF SharedInv, HalfOwned, GoesAheadWhole, Abandoned
<1> QED BY IntoRecord DEF TakeShared, MayShare, Recovered, TakeSharedAgain, SharedInv, AgainAlone

\* Who waits for the exclusive lock is not overtaken.
NotOvertaken ==
  \A c, d \in OcCalls : At(c, "excl") /\ ocCall'[c].pc = "excl" /\ ocPop[d] = "none" /\ d # c =>
    ocPop'[d] = "none"

\* It is so.
LEMMA SharedNotOvertaken ==
  ASSUME OpencodeCacheAssumption, SharedInv, [OcNext]_ocvars
  PROVE  NotOvertaken
<1> SUFFICES ASSUME NEW c \in OcCalls, NEW d \in OcCalls, At(c, "excl"), ocCall'[c].pc = "excl",
                    ocPop[d] = "none", d # c
             PROVE  ocPop'[d] = "none"
  BY DEF NotOvertaken
<1>1. ocIntent = c /\ c # OcNone /\ ocCall[d].pc \notin {"excl", "again"}
  BY OpencodeCacheAssumption DEF OpencodeCacheAssumption, SharedInv, CallShape, At
<1>2. \A e \in OcCalls : OcStep(e) => ocPop'[d] = "none"
  BY <1>1 DEF OcStep, Sweep, MakeDirectory, LockDirectory, TakeShared, Waits, TakeExclusive,
         RemovePartly, RecoverOne, Recovered, TakeSharedAgain, RecordCall, Start, MarkWarm, LeaveCall,
         OcGoto, SharedInv, OcTypeOK, At
<1>3. \A e \in OcCalls : (ProgramDies(e) \/ OcChildEnds(e)) => ocPop'[d] = "none"
  BY DEF ProgramDies, OcChildEnds, SharedInv, OcTypeOK
<1>4. (\E e \in OcCalls, k \in OcPackages : OcChildInstalls(e, k)) => ocPop' = ocPop
  BY DEF OcChildInstalls
<1>5. MachineStops => ocPop'[d] = "none"
  BY DEF MachineStops
<1> QED BY <1>2, <1>3, <1>4, <1>5 DEF OcNext, ocvars

\* The invariant of the shared cache.
THEOREM SharedCacheInvariant == OcSpec => []SharedInv
<1>1. OcInit => SharedInv
  BY SharedInit, OpencodeCacheAssumption
<1>2. SharedInv /\ [OcNext]_ocvars => SharedInv'
  BY SharedStep, OpencodeCacheAssumption
<1> QED BY <1>1, <1>2, PTL DEF OcSpec

\* For any calls, models, packages and ends of the machine: a call never works
\* with a package that a process left half installed.
THEOREM SharedCache == OcSpec => SharedCacheSound
<1>1. SharedInv => OcTypeOK /\ ColdAlone /\ WarmMeansInstalled /\ LiveDirectoryKept
  BY SharedSafe, OpencodeCacheAssumption
<1>2. SharedInv /\ [OcNext]_ocvars => [GoesAheadWhole]_ocvars
  BY SharedGoesAheadWhole
<1>3. SharedInv /\ [OcNext]_ocvars => [NotOvertaken]_ocvars
  BY SharedNotOvertaken, OpencodeCacheAssumption
<1>4. NothingHalfLeft <=> [][GoesAheadWhole]_ocvars
  BY DEF NothingHalfLeft, GoesAheadWhole
<1>5. WriterNotOvertaken <=> [][NotOvertaken]_ocvars
  BY DEF WriterNotOvertaken, NotOvertaken
<1>6. OcSpec => [](OcTypeOK /\ ColdAlone /\ WarmMeansInstalled /\ LiveDirectoryKept)
  BY SharedCacheInvariant, <1>1, PTL
<1>7. OcSpec => [][GoesAheadWhole]_ocvars /\ [][NotOvertaken]_ocvars
  BY SharedCacheInvariant, <1>2, <1>3, PTL DEF OcSpec
<1> QED BY <1>4, <1>5, <1>6, <1>7 DEF SharedCacheSound
=============================================================================
