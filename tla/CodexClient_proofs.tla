------------------------- MODULE CodexClient_proofs -------------------------
(***************************************************************************)
(* The client of the Codex app-server, for any callers, generations and    *)
(* faults: its processes are accounted for, and its turns get their due.   *)
(*                                                                         *)
(* ClientInv says where every process, request, turn and answer may be; a  *)
(* lemma per action shows that it is kept.                                 *)
(***************************************************************************)
EXTENDS CodexClient, FiniteSetTheorems, TLAPS

-----------------------------------------------------------------------------
(* The inductive invariant.                                                *)

\* A caller between the moment its turn is counted and the moment it leaves.
Counted == {"lock", "leave"} \cup Locked
Turns(g) == {w \in CxCallers : cxCall[w].pc \in Counted /\ GenOf(w) = g}

\* The types; the messages of a stream are about callers.
CxShape ==
  /\ CxTypeOK
  /\ cxStream \in [CxGens -> Seq(Message)]
  /\ \A g \in CxGens : \A i \in DOMAIN cxStream[g] :
       cxStream[g][i].kind = "completed" =>
         cxStream[g][i].answer.of \in CxCallers /\ cxStream[g][i].answer.status # "none"

\* Generations are started one after the other, and are none before that.
InOrder == \E k \in 0..CxMaxGens : Spawned = 1..k
NotStarted ==
  \A g \in CxGens : cxGen[g].proc = "none" =>
    cxGen[g] = NoGeneration /\ cxWire[g] = {} /\ cxStream[g] = <<>> /\ cxCurrent # g

\* The way of a generation out.
WayOut ==
  \A g \in CxGens :
    /\ cxGen[g].tearing => cxGen[g].closing
    /\ cxGen[g].retired => cxGen[g].closing /\ (cxGen[g].tearing \/ cxGen[g].done)
    /\ cxGen[g].done => cxGen[g].proc = "dead"
Current ==
  /\ \A g \in CxGens : cxCurrent = g => cxGen[g].listed
  /\ cxClosed => cxCurrent = CxNone

\* A process that was not told to stop is the current one, or is about to be,
\* and none is started while the current one is up.
UpIsKnown ==
  \A g \in CxGens : Up(g) /\ ~cxGen[g].tearing =>
    cxCurrent = g \/ \E w \in CxCallers : cxCall[w].pc = "register" /\ GenOf(w) = g
StartLock ==
  \A w \in CxCallers :
    /\ cxCall[w].pc \in {"spawn", "register", "init", "discard"} => cxStarting = w
    /\ cxCall[w].pc \in {"spawn", "register"} => cxCurrent = CxNone \/ ~Up(cxCurrent)

\* A caller has a generation once one was started for it, and has it for itself
\* until it is initialised.
HasGeneration ==
  \A w \in CxCallers :
    /\ cxCall[w].pc \notin {"ensure", "spawn", "over"} => GenOf(w) # CxNone
    /\ cxCall[w].known => GenOf(w) # CxNone
    /\ GenOf(w) # CxNone => cxGen[GenOf(w)].proc # "none"
Registering ==
  \A w \in CxCallers : cxCall[w].pc = "register" =>
    LET x == cxGen[GenOf(w)] IN
    /\ ~x.listed /\ ~x.closing /\ ~x.retired /\ ~x.tearing /\ ~x.done /\ ~x.watched
    /\ cxCurrent # GenOf(w)
OwnGeneration ==
  \A w \in CxCallers : cxCall[w].pc \in {"register", "init", "discard"} =>
    \A v \in CxCallers : v # w => GenOf(v) # GenOf(w)

\* What a generation counts, runs and waits for.
TurnsCounted ==
  \A g \in CxGens : IsFiniteSet(Turns(g)) /\ cxGen[g].turns = Cardinality(Turns(g))
ActiveFits ==
  /\ \A g \in CxGens : \A w \in cxGen[g].active :
       GenOf(w) = g /\ cxCall[w].pc \in {"turn", "wait", "stop", "leave"}
  /\ \A w \in CxCallers : cxCall[w].pc \in {"turn", "wait", "stop"} => w \in cxGen[GenOf(w)].active
PendingFits ==
  \A g \in CxGens : \A r \in cxGen[g].pending :
    /\ GenOf(r[1]) = g
    /\ r[2] # "cancel" => cxCall[r[1]].pc = r[2] /\ cxCall[r[1]].reply = "none"
    /\ r[2] = "cancel" => cxCall[r[1]].cancelled

\* How far the process is with the turn of each caller.
Asked ==
  \A w \in CxCallers :
    /\ cxCall[w].pc = "turn" => ~cxCall[w].known
    /\ cxCall[w].pc = "turn" /\ cxCall[w].reply = "ok" => cxTurn[w] # "none"
    /\ cxCall[w].known \/ cxTurn[w] # "none" \/ cxCall[w].cancelled =>
         cxCall[w].pc \in {"turn", "wait", "stop", "leave", "over"}
    /\ cxCall[w].known => cxTurn[w] # "none"
    /\ cxCall[w].cancelled => cxCall[w].known
    /\ cxCall[w].pc \in {"wait", "stop"} => cxCall[w].known
WireFits ==
  \A g \in CxGens : \A r \in cxWire[g] :
    /\ GenOf(r[1]) = g /\ cxCall[r[1]].pc \in {"turn", "wait", "stop", "leave", "over"}
    /\ r[2] = "turn" => cxTurn[r[1]] = "none"
RepliesFit ==
  \A g \in CxGens, w \in CxCallers : \A i \in DOMAIN cxStream[g] :
    cxStream[g][i].kind = "reply" /\ cxStream[g][i].req = <<w, "turn">> /\ cxStream[g][i].ok
    => cxTurn[w] # "none"

\* A caller that waits for the end of a generation cannot get it any more.
DrainIsFinal ==
  \A w \in CxCallers : cxCall[w].pc = "drain" =>
    cxCurrent # GenOf(w) \/ cxGen[GenOf(w)].stale \/ cxGen[GenOf(w)].closing

\* A turn that was completed by its process has the answer, or it is to be read.
Completed ==
  \A w \in CxCallers :
    cxCall[w].pc \in {"turn", "wait"} /\ cxTurn[w] = "over" /\ cxCall[w].answer = NoAnswer =>
      \/ \E i \in DOMAIN cxStream[GenOf(w)] :
           cxStream[GenOf(w)][i].kind = "completed" /\ cxStream[GenOf(w)][i].answer.of = w
      \/ cxGen[GenOf(w)].closing

\* A turn that is given up is running only where it was asked to stop.
Abandoned ==
  \A w \in CxCallers :
    /\ cxCall[w].pc \in {"stop", "leave", "over"} /\ cxCall[w].known
    /\ cxCall[w].answer = NoAnswer /\ cxTurn[w] = "running"
    => \/ <<w, "stop">> \in cxWire[GenOf(w)]
       \/ ~Up(GenOf(w)) \/ cxGen[GenOf(w)].closing

\* What holds between any two steps of the client.
ClientInv ==
  /\ CxShape /\ InOrder /\ NotStarted /\ WayOut /\ Current
  /\ UpIsKnown /\ StartLock /\ HasGeneration /\ Registering /\ OwnGeneration
  /\ TurnsCounted /\ ActiveFits /\ PendingFits /\ Asked /\ WireFits /\ RepliesFit
  /\ DrainIsFinal /\ DrainEnds /\ TurnsNotCutShort /\ Completed /\ Abandoned

-----------------------------------------------------------------------------
(* Types.                                                                  *)

\* The values of pc.
Steps == {"ensure", "spawn", "register", "init", "discard", "reserve", "drain", "lock",
          "open", "turn", "wait", "stop", "leave", "over"}

\* The types, field by field.
LEMMA GenTypes ==
  ASSUME CxShape
  PROVE  /\ cxGen \in [CxGens -> Generation]
         /\ \A g \in CxGens :
              /\ cxGen[g] \in Generation
              /\ cxGen[g].proc \in {"none", "up", "dead"}
              /\ cxGen[g].listed \in BOOLEAN /\ cxGen[g].closing \in BOOLEAN
              /\ cxGen[g].stale \in BOOLEAN /\ cxGen[g].retired \in BOOLEAN
              /\ cxGen[g].done \in BOOLEAN /\ cxGen[g].watched \in BOOLEAN
              /\ cxGen[g].eof \in BOOLEAN /\ cxGen[g].tearing \in BOOLEAN
              /\ cxGen[g].turns \in Nat
              /\ cxGen[g].pending \in SUBSET Requests
              /\ \A r \in cxGen[g].pending : r \in Requests /\ r[1] \in CxCallers
                                             /\ r[2] \in Methods
              /\ cxGen[g].active \in SUBSET CxCallers
<1>1. \A r \in Requests : r[1] \in CxCallers /\ r[2] \in Methods
  BY DEF Requests
<1>2. QED BY <1>1 DEF CxShape, CxTypeOK, Generation

\* The requests a process has not answered.
LEMMA WireTypes ==
  ASSUME CxShape
  PROVE  \A g \in CxGens : \A r \in cxWire[g] :
           r \in Ordered /\ r[1] \in CxCallers /\ r[2] \in {"turn", "stop", "cancel"}
BY DEF CxShape, CxTypeOK, Ordered

\* The calls, field by field.
LEMMA CallTypes ==
  ASSUME CxShape
  PROVE  /\ cxCall \in [CxCallers -> Call]
         /\ \A w \in CxCallers :
              /\ cxCall[w] \in Call
              /\ cxCall[w].pc \in Steps
              /\ cxCall[w].gen \in CxGens \cup {CxNone}
              /\ cxCall[w].reply \in {"none", "ok", "error"}
              /\ cxCall[w].known \in BOOLEAN
              /\ cxCall[w].answer \in Answer
              /\ cxCall[w].result \in {"none", "done", "failed"}
              /\ cxCall[w].cancelled \in BOOLEAN
BY DEF CxShape, CxTypeOK, Call, Steps

\* The generation of a caller that has one.
LEMMA GenOfFacts ==
  ASSUME ClientInv
  PROVE  \A w \in CxCallers :
           cxCall[w].pc \notin {"ensure", "spawn", "over"} \/ cxCall[w].known =>
             GenOf(w) \in CxGens /\ cxCall[w].gen \in CxGens
BY CallTypes DEF ClientInv, HasGeneration, GenOf

\* _retire_generation leaves a generation alone, or has it stopped.
Retires(x, g, c) ==
  ~x.retired /\ (g # c \/ x.stale \/ x.closing \/ x.proc # "up") /\ ~HasWork(x)

\* Generation x after somebody tried to retire it.
MayRetire(x, y) ==
  /\ y.proc = x.proc /\ y.listed = x.listed /\ y.stale = x.stale /\ y.done = x.done
  /\ y.turns = x.turns /\ y.pending = x.pending /\ y.active = x.active
  /\ y.watched = x.watched /\ y.eof = x.eof
  /\ \/ y = x
     \/ ~x.retired /\ ~HasWork(x) /\ y.closing = TRUE /\ y.retired = TRUE /\ y.tearing = TRUE

\* What _retire_generation does to a generation.
LEMMA RetiredFacts ==
  ASSUME NEW x \in Generation, NEW g, NEW c
  PROVE  /\ Retired(x, g, c) \in Generation
         /\ MayRetire(x, Retired(x, g, c))
         /\ Retires(x, g, c) => Retired(x, g, c).tearing
<1>1. CASE Retires(x, g, c)
  <2> DEFINE y == [x EXCEPT !.closing = TRUE, !.retired = TRUE, !.tearing = TRUE]
  <2>1. Retired(x, g, c) = y
    BY <1>1 DEF Retires, Retired
  <2>2. y \in Generation /\ y.closing = TRUE /\ y.retired = TRUE /\ y.tearing = TRUE
        /\ y.proc = x.proc /\ y.listed = x.listed /\ y.stale = x.stale /\ y.done = x.done
        /\ y.turns = x.turns /\ y.pending = x.pending /\ y.active = x.active
        /\ y.watched = x.watched /\ y.eof = x.eof
    BY DEF Generation
  <2>3. ~x.retired /\ ~HasWork(x)
    BY <1>1 DEF Retires
  <2> HIDE DEF y
  <2>4. QED BY <2>1, <2>2, <2>3 DEF MayRetire
<1>2. CASE ~Retires(x, g, c)
  <2>1. Retired(x, g, c) = x
    BY <1>2 DEF Retires, Retired
  <2>2. QED BY <1>2, <2>1 DEF MayRetire
<1>3. QED BY <1>1, <1>2

\* A caller's step.
Moves(w, p) ==
  /\ cxCall' \in [CxCallers -> Call]
  /\ \A v \in CxCallers : v # w => cxCall'[v] = cxCall[v]
  /\ cxCall'[w].pc = p

\* A caller goes on and changes nothing else.
LEMMA GotoFacts ==
  ASSUME CxShape, NEW w \in CxCallers, NEW p \in Steps, Goto(w, p)
  PROVE  /\ Moves(w, p)
         /\ cxCall'[w].gen = cxCall[w].gen /\ cxCall'[w].reply = cxCall[w].reply
         /\ cxCall'[w].known = cxCall[w].known /\ cxCall'[w].answer = cxCall[w].answer
         /\ cxCall'[w].cancelled = cxCall[w].cancelled
<1>1. cxCall \in [CxCallers -> Call] /\ cxCall[w] \in Call
  BY CallTypes
<1>2. cxCall' = [cxCall EXCEPT ![w].pc = p]
  BY DEF Goto
<1>3. QED BY <1>1, <1>2 DEF Moves, Call, Steps

\* Steps that neither read nor write the stream, nor complete a turn.
LEMMA CompletedKept ==
  ASSUME ClientInv, UNCHANGED <<cxStream, cxTurn>>,
         \A g \in CxGens : cxGen[g].closing => cxGen'[g].closing,
         \A w \in CxCallers :
           cxCall'[w].pc \in {"turn", "wait"} /\ cxTurn[w] = "over" /\ cxCall'[w].answer = NoAnswer
           => /\ cxCall[w].pc \in {"turn", "wait"} /\ cxCall[w].answer = NoAnswer
              /\ cxCall'[w].gen = cxCall[w].gen
  PROVE  Completed'
<1>1. SUFFICES ASSUME NEW w \in CxCallers, cxCall'[w].pc \in {"turn", "wait"},
                      cxTurn[w] = "over", cxCall'[w].answer = NoAnswer,
                      ~cxGen'[cxCall[w].gen].closing
               PROVE  \E i \in DOMAIN cxStream[cxCall[w].gen] :
                        /\ cxStream[cxCall[w].gen][i].kind = "completed"
                        /\ cxStream[cxCall[w].gen][i].answer.of = w
  BY DEF Completed, GenOf
<1>2. cxCall[w].pc \in {"turn", "wait"} /\ cxCall[w].answer = NoAnswer
  BY <1>1
<1>3. cxCall[w].gen \in CxGens
  BY <1>2, GenOfFacts
<1>4. QED BY <1>1, <1>2, <1>3 DEF ClientInv, Completed, GenOf

\* A change of what a generation waits for.
LEMMA PendingFacts ==
  ASSUME CxShape, NEW g \in CxGens, NEW P \in SUBSET Requests,
         cxGen' = [cxGen EXCEPT ![g].pending = P]
  PROVE  /\ cxGen' \in [CxGens -> Generation]
         /\ \A h \in CxGens : h # g => cxGen'[h] = cxGen[h]
         /\ cxGen'[g].pending = P
         /\ cxGen'[g].proc = cxGen[g].proc /\ cxGen'[g].listed = cxGen[g].listed
         /\ cxGen'[g].closing = cxGen[g].closing /\ cxGen'[g].stale = cxGen[g].stale
         /\ cxGen'[g].retired = cxGen[g].retired /\ cxGen'[g].done = cxGen[g].done
         /\ cxGen'[g].turns = cxGen[g].turns /\ cxGen'[g].active = cxGen[g].active
         /\ cxGen'[g].watched = cxGen[g].watched /\ cxGen'[g].eof = cxGen[g].eof
         /\ cxGen'[g].tearing = cxGen[g].tearing
<1>1. cxGen \in [CxGens -> Generation] /\ cxGen[g] \in Generation
  BY GenTypes
<1>2. QED BY <1>1 DEF Generation

-----------------------------------------------------------------------------
(* The steps of a caller.                                                  *)

\* A caller gets the current generation, or the start lock.
LEMMA EnsureStartedStep ==
  ASSUME ClientInv, NEW w \in CxCallers, EnsureStarted(w)
  PROVE  ClientInv'
<1> USE DEF ClientInv
<1>1. /\ cxCall[w].pc = "ensure" /\ cxStarting = CxNone
      /\ UNCHANGED <<cxGen, cxCurrent, cxClosed, cxWire, cxStream, cxTurn, cxFaults>>
  BY DEF EnsureStarted
<1>2. /\ cxCall' \in [CxCallers -> Call]
      /\ \A v \in CxCallers : v # w => cxCall'[v] = cxCall[v]
      /\ cxCall'[w].reply = cxCall[w].reply
      /\ cxCall'[w].known = cxCall[w].known /\ cxCall'[w].answer = cxCall[w].answer
      /\ cxCall'[w].cancelled = cxCall[w].cancelled
      /\ \/ cxCall'[w].pc = "over" /\ cxCall'[w].gen = cxCall[w].gen /\ UNCHANGED cxStarting
         \/ /\ cxCall'[w].pc = "reserve" /\ cxCall'[w].gen = cxCurrent /\ UNCHANGED cxStarting
            /\ cxCurrent # CxNone
         \/ /\ cxCall'[w].pc = "spawn" /\ cxCall'[w].gen = cxCall[w].gen /\ cxStarting' = w
            /\ cxCurrent = CxNone \/ ~Up(cxCurrent)
  <2>0. cxCall \in [CxCallers -> Call] /\ cxCall[w] \in Call
    BY CallTypes
  <2>1. CASE cxCall' = [cxCall EXCEPT ![w].pc = "over", ![w].result = "failed"]
             /\ UNCHANGED cxStarting
    BY <2>0, <2>1 DEF Call
  <2>2. CASE /\ ~cxClosed /\ cxCurrent # CxNone /\ Usable(cxCurrent)
        /\ cxCall' = [cxCall EXCEPT ![w].pc = "reserve", ![w].gen = cxCurrent]
        /\ UNCHANGED cxStarting
    BY <2>0, <2>2 DEF Call, CxShape, CxTypeOK
  <2>3. CASE ~cxClosed /\ ~(cxCurrent # CxNone /\ Usable(cxCurrent)) /\ Goto(w, "spawn")
             /\ cxStarting' = w
    <3>1. cxCurrent = CxNone \/ ~Up(cxCurrent)
      BY <2>3 DEF Usable
    <3>2. QED BY <2>3, <3>1, GotoFacts DEF Moves, Steps
  <2>4. QED BY <2>1, <2>2, <2>3 DEF EnsureStarted
<1>3. \A g \in CxGens : Turns(g)' = Turns(g)
  BY <1>1, <1>2 DEF Turns, GenOf, Counted, Locked
<1>4. CxShape'
  BY <1>1, <1>2 DEF CxShape, CxTypeOK
<1>5. InOrder' /\ NotStarted' /\ WayOut' /\ Current'
  BY <1>1, <1>2 DEF InOrder, NotStarted, WayOut, Current, Spawned
<1>6. UpIsKnown'
  BY <1>1, <1>2 DEF UpIsKnown, GenOf, Up
<1>7. StartLock'
  BY <1>1, <1>2, CodexClientAssumption DEF StartLock, Up
<1>8. HasGeneration'
  BY <1>1, <1>2 DEF HasGeneration, GenOf, NotStarted, CxShape, CxTypeOK
<1>9. Registering'
  BY <1>1, <1>2 DEF Registering, GenOf
<1>10. OwnGeneration'
  BY <1>1, <1>2, CodexClientAssumption DEF OwnGeneration, GenOf, StartLock
<1>11. TurnsCounted'
  BY <1>1, <1>2, <1>3 DEF TurnsCounted
<1>12. ActiveFits'
  BY <1>1, <1>2, GenTypes DEF ActiveFits, GenOf
<1>13. PendingFits'
  BY <1>1, <1>2, GenTypes DEF PendingFits, GenOf, Asked, Methods
<1>14. Asked'
  BY <1>1, <1>2 DEF Asked
<1>15. WireFits'
  BY <1>1, <1>2, WireTypes DEF WireFits, GenOf
<1>16. RepliesFit'
  BY <1>1, <1>2 DEF RepliesFit
<1>17. DrainIsFinal'
  BY <1>1, <1>2 DEF DrainIsFinal, GenOf
<1>18. DrainEnds'
  BY <1>1, <1>2 DEF DrainEnds, GenOf, Asked
<1>19. TurnsNotCutShort'
  BY <1>1, <1>2 DEF TurnsNotCutShort, Locked, GenOf
<1>20. Completed'
  BY <1>1, <1>2 DEF Completed, GenOf
<1>21. Abandoned'
  BY <1>1, <1>2 DEF Abandoned, Asked, GenOf, Up
<1>22. QED BY <1>4, <1>5, <1>6, <1>7, <1>8, <1>9, <1>10, <1>11, <1>12, <1>13, <1>14, <1>15,
            <1>16, <1>17, <1>18, <1>19, <1>20, <1>21

\* A step of a caller that changes nothing but where it is.
Quiet(w) ==
  /\ UNCHANGED <<cxGen, cxCurrent, cxClosed, cxWire, cxStream, cxTurn, cxFaults>>
  /\ cxCall' \in [CxCallers -> Call]
  /\ \A v \in CxCallers : v # w => cxCall'[v] = cxCall[v]
  /\ cxCall'[w].gen = cxCall[w].gen /\ cxCall'[w].reply = cxCall[w].reply
  /\ cxCall'[w].answer = cxCall[w].answer /\ cxCall'[w].cancelled = cxCall[w].cancelled
  /\ cxCall'[w].pc # "wait" => cxCall'[w].known = cxCall[w].known
  /\ \/ cxCall[w].pc = "discard" /\ cxCall'[w].pc = "over" /\ cxStarting' = CxNone
     \/ cxCall[w].pc = "drain" /\ cxCall'[w].pc = "ensure" /\ UNCHANGED cxStarting
     \/ /\ cxCall[w].pc = "turn" /\ cxCall'[w].pc = "wait" /\ UNCHANGED cxStarting
        /\ cxTurn[w] # "none" /\ cxCall[w].reply # "none" /\ cxCall'[w].known = TRUE
     \/ /\ cxCall[w].pc \in {"lock", "open", "turn", "wait", "stop"} /\ cxCall'[w].pc = "leave"
        /\ UNCHANGED cxStarting
        /\ cxCall[w].pc \in {"open", "turn", "stop"} => cxCall[w].reply # "none"
        /\ cxCall[w].pc = "wait" => \/ cxCall[w].answer # NoAnswer
                                    \/ ~Up(GenOf(w)) \/ cxGen[GenOf(w)].closing

\* Such a step keeps the invariant.
LEMMA QuietStep ==
  ASSUME ClientInv, NEW w \in CxCallers, Quiet(w)
  PROVE  ClientInv'
<1> USE DEF ClientInv
<1>1. \A g \in CxGens : Turns(g)' = Turns(g)
  BY DEF Quiet, Turns, GenOf, Counted, Locked
<1>2. CxShape'
  BY DEF CxShape, CxTypeOK, Quiet
<1>3. InOrder'
  BY DEF InOrder, Spawned, Quiet
<1>4. NotStarted'
  BY DEF NotStarted, Quiet
<1>5. WayOut'
  BY DEF WayOut, Quiet
<1>6. Current'
  BY DEF Current, Quiet
<1>7. UpIsKnown'
  BY DEF UpIsKnown, GenOf, Up, Quiet
<1>8. StartLock'
  BY CodexClientAssumption DEF StartLock, Up, CxShape, CxTypeOK, Quiet
<1>9. HasGeneration'
  BY DEF HasGeneration, GenOf, NotStarted, CxShape, CxTypeOK, Quiet
<1>10. Registering'
  BY DEF Registering, GenOf, Quiet
<1>11. OwnGeneration'
  BY CodexClientAssumption DEF OwnGeneration, GenOf, StartLock, Quiet
<1>12. TurnsCounted'
  BY <1>1 DEF TurnsCounted, Quiet
<1>13. ActiveFits'
  BY GenTypes DEF ActiveFits, GenOf, Quiet
<1>14. PendingFits'
  BY GenTypes DEF PendingFits, GenOf, Asked, Methods, Quiet
<1>15. Asked'
  BY DEF Asked, Quiet
<1>16. WireFits'
  BY WireTypes DEF WireFits, GenOf, Quiet
<1>17. RepliesFit'
  BY DEF RepliesFit, Quiet
<1>18. DrainIsFinal'
  BY DEF DrainIsFinal, GenOf, Quiet
<1>19. DrainEnds'
  BY DEF DrainEnds, GenOf, Asked, Quiet
<1>20. TurnsNotCutShort'
  BY DEF TurnsNotCutShort, Locked, GenOf, Quiet
<1>21. Completed'
  BY DEF Completed, GenOf, Quiet
<1>22. Abandoned'
  BY DEF Abandoned, Asked, GenOf, Up, Quiet
<1>23. QED BY <1>2, <1>3, <1>4, <1>5, <1>6, <1>7, <1>8, <1>9, <1>10, <1>11, <1>12, <1>13, <1>14,
            <1>15, <1>16, <1>17, <1>18, <1>19, <1>20, <1>21, <1>22

\* The steps that only move a caller on.
LEMMA QuietSteps ==
  ASSUME ClientInv, NEW w \in CxCallers,
         Discarded(w) \/ Drained(w) \/ TurnStarted(w) \/ TurnEnds(w) \/ RequestEnds(w)
  PROVE  ClientInv'
<1>0. CxShape /\ cxCall \in [CxCallers -> Call] /\ cxCall[w] \in Call
  BY CallTypes DEF ClientInv
<1>1. CASE Discarded(w)
  <2>1. Quiet(w)
    BY <1>0, <1>1 DEF Discarded, Quiet, Call
  <2>2. QED BY <2>1, QuietStep
<1>2. CASE Drained(w)
  <2>1. Quiet(w)
    BY <1>0, <1>2, GotoFacts DEF Drained, Quiet, Moves, Steps
  <2>2. QED BY <2>1, QuietStep
<1>3. CASE TurnStarted(w)
  <2>1. cxTurn[w] # "none"
    BY <1>3 DEF TurnStarted, ClientInv, Asked
  <2>2. QED BY <1>0, <1>3, <2>1, QuietStep DEF TurnStarted, Quiet, Call
<1>4. CASE TurnEnds(w)
  BY <1>0, <1>4, QuietStep DEF TurnEnds, Quiet, Call
<1>5. CASE RequestEnds(w)
  <2>1. Quiet(w)
    BY <1>0, <1>5, GotoFacts DEF RequestEnds, Quiet, Moves, Steps
  <2>2. QED BY <2>1, QuietStep
<1>6. QED BY <1>1, <1>2, <1>3, <1>4, <1>5

\* A request that is refused ends the caller's turn.
LEMMA RefusedStep ==
  ASSUME ClientInv, NEW w \in CxCallers, NEW m \in Methods, Send(w, m, "leave"),
         ~(Up(GenOf(w)) /\ ~cxGen[GenOf(w)].closing), cxCall[w].pc \in {"lock", "wait"}
  PROVE  ClientInv'
<1>1. CxShape
  BY DEF ClientInv
<1>2. Goto(w, "leave")
      /\ UNCHANGED <<cxGen, cxCurrent, cxClosed, cxStarting, cxWire, cxStream, cxTurn, cxFaults>>
  BY DEF Send
<1>3. Quiet(w)
  BY <1>1, <1>2, GotoFacts DEF Quiet, Moves, Steps
<1>4. QED BY <1>3, QuietStep

\* A request that is sent.
LEMMA SendStep ==
  ASSUME ClientInv, NEW w \in CxCallers,
         \/ cxCall[w].pc = "lock" /\ Send(w, "open", "leave")
         \/ cxCall[w].pc = "wait" /\ Send(w, "stop", "leave"),
         Up(GenOf(w)) /\ ~cxGen[GenOf(w)].closing
  PROVE  ClientInv'
<1> USE DEF ClientInv
<1>1. PICK m \in {"open", "stop"} :
        /\ m = "open" => cxCall[w].pc = "lock"
        /\ m = "stop" => cxCall[w].pc = "wait"
        /\ Send(w, m, "leave")
  OBVIOUS
<1>2. PICK g \in CxGens : GenOf(w) = g /\ cxCall[w].gen = g
  <2>1. cxCall[w].pc \in {"lock", "wait"}
    BY <1>1
  <2>2. QED BY <2>1, GenOfFacts DEF GenOf
<1>3. /\ Up(g) /\ ~cxGen[g].closing
      /\ cxGen' = [cxGen EXCEPT ![g].pending = cxGen[g].pending \cup {<<w, m>>}]
      /\ cxWire' = [cxWire EXCEPT ![g] = cxWire[g] \cup ({<<w, m>>} \cap Ordered)]
      /\ cxCall' = [cxCall EXCEPT ![w].pc = m, ![w].reply = "none"]
      /\ UNCHANGED <<cxCurrent, cxClosed, cxStarting, cxStream, cxTurn, cxFaults>>
  <2>1. GenOf(w) = g
    BY <1>2
  <2>2. QED BY <1>1, <2>1 DEF Send
<1>4. /\ cxGen' \in [CxGens -> Generation]
      /\ \A h \in CxGens : h # g => cxGen'[h] = cxGen[h]
      /\ cxGen'[g].pending = cxGen[g].pending \cup {<<w, m>>}
      /\ cxGen'[g].proc = cxGen[g].proc /\ cxGen'[g].listed = cxGen[g].listed
      /\ cxGen'[g].closing = cxGen[g].closing /\ cxGen'[g].stale = cxGen[g].stale
      /\ cxGen'[g].retired = cxGen[g].retired /\ cxGen'[g].done = cxGen[g].done
      /\ cxGen'[g].turns = cxGen[g].turns /\ cxGen'[g].active = cxGen[g].active
      /\ cxGen'[g].watched = cxGen[g].watched /\ cxGen'[g].eof = cxGen[g].eof
      /\ cxGen'[g].tearing = cxGen[g].tearing
  <2>1. cxGen[g].pending \cup {<<w, m>>} \in SUBSET Requests
    BY <1>2, GenTypes DEF Requests, Methods
  <2>2. QED BY <1>2, <1>3, <2>1, PendingFacts
<1>5. /\ cxWire' \in [CxGens -> SUBSET Ordered]
      /\ \A h \in CxGens : h # g => cxWire'[h] = cxWire[h]
      /\ \A r \in cxWire'[g] : r \in cxWire[g] \/ (r = <<w, m>> /\ m = "stop")
      /\ \A r \in cxWire[g] : r \in cxWire'[g]
      /\ m = "stop" => <<w, m>> \in cxWire'[g]
  BY <1>1, <1>2, <1>3 DEF CxShape, CxTypeOK, Ordered
<1>6. /\ cxCall' \in [CxCallers -> Call]
      /\ \A v \in CxCallers : v # w => cxCall'[v] = cxCall[v]
      /\ cxCall'[w].pc = m /\ cxCall'[w].reply = "none" /\ cxCall'[w].gen = cxCall[w].gen
      /\ cxCall'[w].known = cxCall[w].known /\ cxCall'[w].answer = cxCall[w].answer
      /\ cxCall'[w].cancelled = cxCall[w].cancelled
  <2>1. cxCall \in [CxCallers -> Call] /\ cxCall[w] \in Call
    BY CallTypes
  <2>2. QED BY <1>1, <1>3, <2>1 DEF Call
<1>7. \A h \in CxGens : Turns(h)' = Turns(h)
  BY <1>1, <1>6 DEF Turns, GenOf, Counted, Locked
<1>8. CxShape'
  BY <1>1, <1>2, <1>3, <1>4, <1>5, <1>6 DEF CxShape, CxTypeOK
<1>9. InOrder'
  BY <1>1, <1>2, <1>3, <1>4, <1>5, <1>6 DEF InOrder, Spawned
<1>10. NotStarted'
  BY <1>1, <1>2, <1>3, <1>4, <1>5, <1>6 DEF NotStarted, Up
<1>11. WayOut'
  BY <1>1, <1>2, <1>3, <1>4, <1>5, <1>6 DEF WayOut
<1>12. Current'
  BY <1>1, <1>2, <1>3, <1>4, <1>5, <1>6 DEF Current
<1>13. UpIsKnown'
  BY <1>1, <1>2, <1>3, <1>4, <1>5, <1>6 DEF UpIsKnown, GenOf, Up
<1>14. StartLock'
  BY <1>1, <1>2, <1>3, <1>4, <1>5, <1>6, CodexClientAssumption DEF StartLock, Up, CxShape,
    CxTypeOK
<1>15. HasGeneration'
  BY <1>1, <1>2, <1>3, <1>4, <1>5, <1>6, CallTypes DEF HasGeneration, GenOf
<1>16. Registering'
  BY <1>1, <1>2, <1>3, <1>4, <1>5, <1>6 DEF Registering, GenOf
<1>17. OwnGeneration'
  BY <1>1, <1>2, <1>3, <1>4, <1>5, <1>6, CodexClientAssumption DEF OwnGeneration, GenOf, StartLock
<1>18. TurnsCounted'
  BY <1>1, <1>2, <1>3, <1>4, <1>5, <1>6, <1>7 DEF TurnsCounted
<1>19. ActiveFits'
  BY <1>1, <1>2, <1>3, <1>4, <1>5, <1>6, GenTypes DEF ActiveFits, GenOf
<1>20. PendingFits'
  BY <1>1, <1>2, <1>3, <1>4, <1>5, <1>6, GenTypes DEF PendingFits, GenOf, Asked, Methods, Requests
<1>21. Asked'
  BY <1>1, <1>2, <1>3, <1>4, <1>5, <1>6 DEF Asked
<1>22. WireFits'
  BY <1>1, <1>2, <1>3, <1>4, <1>5, <1>6, WireTypes DEF WireFits, GenOf
<1>23. RepliesFit'
  BY <1>1, <1>2, <1>3, <1>4, <1>5, <1>6 DEF RepliesFit
<1>24. DrainIsFinal'
  BY <1>1, <1>2, <1>3, <1>4, <1>5, <1>6 DEF DrainIsFinal, GenOf
<1>25. DrainEnds'
  BY <1>1, <1>2, <1>3, <1>4, <1>5, <1>6 DEF DrainEnds, GenOf, Asked
<1>26. TurnsNotCutShort'
  BY <1>1, <1>2, <1>3, <1>4, <1>5, <1>6 DEF TurnsNotCutShort, Locked, GenOf
<1>27. Completed'
  BY <1>1, <1>2, <1>3, <1>4, <1>5, <1>6 DEF Completed, GenOf
<1>28. Abandoned'
  BY <1>1, <1>2, <1>3, <1>4, <1>5, <1>6 DEF Abandoned, Asked, GenOf, Up
<1>29. QED BY <1>8, <1>9, <1>10, <1>11, <1>12, <1>13, <1>14, <1>15, <1>16, <1>17, <1>18, <1>19,
            <1>20,
            <1>21, <1>22, <1>23, <1>24, <1>25, <1>26, <1>27, <1>28

\* Preparing a profile takes the login from whoever watches it.
Taken == [g \in CxGens |-> IF cxGen[g].watched
            THEN [cxGen[g] EXCEPT !.stale = @ \/ ~cxGen[g].retired, !.watched = FALSE]
            ELSE cxGen[g]]

\* Generation x as y, but for what the watcher of its login does.
AsBefore(x, y) ==
  /\ y.proc = x.proc /\ y.listed = x.listed /\ y.closing = x.closing /\ y.retired = x.retired
  /\ y.done = x.done /\ y.turns = x.turns /\ y.pending = x.pending /\ y.active = x.active
  /\ y.eof = x.eof /\ y.tearing = x.tearing
  /\ x.stale => y.stale
  /\ ~x.watched => y = x

\* The outcomes of Spawn.
SpawnFails(w) ==
  /\ cxCall[w].pc = "spawn"
  /\ UNCHANGED <<cxCurrent, cxClosed, cxWire, cxStream, cxTurn, cxFaults>>
  /\ cxGen' = Taken /\ cxStarting' = CxNone
  /\ cxCall' = [cxCall EXCEPT ![w].pc = "over", ![w].result = "failed"]
Spawns(w, n) ==
  /\ cxCall[w].pc = "spawn" /\ n \in CxGens /\ n = Cardinality(Spawned) + 1
  /\ UNCHANGED <<cxCurrent, cxClosed, cxStarting, cxWire, cxStream, cxTurn, cxFaults>>
  /\ cxGen' = [Taken EXCEPT ![n].proc = "up"]
  /\ cxCall' = [cxCall EXCEPT ![w].pc = "register", ![w].gen = n]

\* Preparing a profile leaves the generations as they were, but for the watcher.
LEMMA TakenFacts ==
  ASSUME CxShape
  PROVE  /\ Taken \in [CxGens -> Generation]
         /\ \A g \in CxGens : AsBefore(cxGen[g], Taken[g])
<1>1. ASSUME NEW g \in CxGens
      PROVE  Taken[g] \in Generation /\ AsBefore(cxGen[g], Taken[g])
  <2> DEFINE s == cxGen[g].stale \/ ~cxGen[g].retired
             x == [cxGen[g] EXCEPT !.stale = s, !.watched = FALSE]
  <2>1. cxGen[g] \in Generation /\ s \in BOOLEAN /\ (cxGen[g].stale => s)
    BY GenTypes
  <2>2. Taken[g] = IF cxGen[g].watched THEN x ELSE cxGen[g]
    BY DEF Taken
  <2> HIDE DEF s
  <2>3. (x \in Generation /\ AsBefore(cxGen[g], x)) \/ ~cxGen[g].watched
    <3>1. x \in Generation /\ x.stale = s
      BY <2>1 DEF Generation
    <3>2. CASE cxGen[g].watched
      BY <2>1, <3>1, <3>2 DEF AsBefore, Generation
    <3>3. QED BY <3>1, <3>2
  <2>4. CASE cxGen[g].watched
    BY <2>2, <2>3, <2>4
  <2>5. CASE ~cxGen[g].watched
    BY <2>1, <2>2, <2>5 DEF AsBefore
  <2>6. QED BY <2>4, <2>5
<1>2. QED BY <1>1 DEF Taken

\* A process that does not start.
LEMMA SpawnFailsStep ==
  ASSUME ClientInv, NEW w \in CxCallers, SpawnFails(w)
  PROVE  ClientInv'
<1> USE DEF ClientInv
<1>1. /\ cxCall[w].pc = "spawn"
      /\ UNCHANGED <<cxCurrent, cxClosed, cxWire, cxStream, cxTurn, cxFaults>>
      /\ cxGen' = Taken /\ cxStarting' = CxNone
      /\ cxCall' = [cxCall EXCEPT ![w].pc = "over", ![w].result = "failed"]
  BY DEF SpawnFails
<1>2. /\ cxGen' \in [CxGens -> Generation]
      /\ \A g \in CxGens : AsBefore(cxGen[g], cxGen'[g])
  BY <1>1, TakenFacts
<1>3. /\ cxCall' \in [CxCallers -> Call]
      /\ \A v \in CxCallers : v # w => cxCall'[v] = cxCall[v]
      /\ cxCall'[w].pc = "over"
      /\ cxCall'[w].reply = cxCall[w].reply /\ cxCall'[w].gen = cxCall[w].gen
      /\ cxCall'[w].known = cxCall[w].known /\ cxCall'[w].answer = cxCall[w].answer
      /\ cxCall'[w].cancelled = cxCall[w].cancelled
  <2>1. cxCall \in [CxCallers -> Call] /\ cxCall[w] \in Call
    BY CallTypes
  <2>2. cxCall' = [cxCall EXCEPT ![w].pc = "over", ![w].result = "failed"]
    BY <1>1
  <2>3. QED BY <2>1, <2>2 DEF Call
<1>4. \A h \in CxGens : Turns(h)' = Turns(h)
  BY <1>1, <1>3 DEF Turns, GenOf, Counted, Locked
<1>5. CxShape'
  BY <1>1, <1>2, <1>3 DEF CxShape, CxTypeOK
<1>6. InOrder'
  BY <1>1, <1>2, <1>3, GenOfFacts DEF InOrder, Spawned, AsBefore
<1>7. NotStarted'
  BY <1>1, <1>2, <1>3 DEF NotStarted, AsBefore, NoGeneration
<1>8. WayOut'
  BY <1>1, <1>2, <1>3, GenOfFacts DEF WayOut, AsBefore
<1>9. Current'
  BY <1>1, <1>2, <1>3, GenOfFacts DEF Current, AsBefore
<1>10. UpIsKnown'
  BY <1>1, <1>2, <1>3, GenOfFacts DEF UpIsKnown, GenOf, Up, AsBefore
<1>11. StartLock'
  BY <1>1, <1>2, <1>3, CodexClientAssumption, GenOfFacts DEF StartLock, Up, CxShape, CxTypeOK,
    AsBefore
<1>12. HasGeneration'
  BY <1>1, <1>2, <1>3, CallTypes DEF HasGeneration, GenOf, AsBefore
<1>13. Registering'
  BY <1>1, <1>2, <1>3, GenOfFacts DEF Registering, GenOf, AsBefore
<1>14. OwnGeneration'
  BY <1>1, <1>2, <1>3, CodexClientAssumption, GenOfFacts DEF OwnGeneration, GenOf, StartLock,
    AsBefore
<1>15. TurnsCounted'
  BY <1>1, <1>2, <1>3, <1>4, GenOfFacts DEF TurnsCounted, AsBefore
<1>16. ActiveFits'
  BY <1>1, <1>2, <1>3, GenTypes, GenOfFacts DEF ActiveFits, GenOf, AsBefore
<1>17. PendingFits'
  BY <1>1, <1>2, <1>3, GenTypes, GenOfFacts DEF PendingFits, GenOf, Asked, Methods, AsBefore
<1>18. Asked'
  BY <1>1, <1>2, <1>3, GenOfFacts DEF Asked, AsBefore
<1>19. WireFits'
  BY <1>1, <1>2, <1>3, WireTypes, GenOfFacts DEF WireFits, GenOf, AsBefore
<1>20. RepliesFit'
  BY <1>1, <1>2, <1>3, GenOfFacts DEF RepliesFit, AsBefore
<1>21. DrainIsFinal'
  BY <1>1, <1>2, <1>3, GenOfFacts DEF DrainIsFinal, GenOf, AsBefore
<1>22. DrainEnds'
  BY <1>1, <1>2, <1>3, GenOfFacts DEF DrainEnds, GenOf, Asked, AsBefore
<1>23. TurnsNotCutShort'
  BY <1>1, <1>2, <1>3, GenOfFacts DEF TurnsNotCutShort, Locked, GenOf, AsBefore
<1>24. Completed'
  BY <1>1, <1>2, <1>3, GenOfFacts DEF Completed, GenOf, AsBefore
<1>25. Abandoned'
  BY <1>1, <1>2, <1>3, GenOfFacts DEF Abandoned, Asked, GenOf, Up, AsBefore
<1>26. QED BY <1>5, <1>6, <1>7, <1>8, <1>9, <1>10, <1>11, <1>12, <1>13, <1>14, <1>15, <1>16,
            <1>17,
            <1>18, <1>19, <1>20, <1>21, <1>22, <1>23, <1>24, <1>25

\* A process that starts.
LEMMA SpawnsStep ==
  ASSUME ClientInv, NEW w \in CxCallers, NEW n \in CxGens,
         Spawns(w, n)
  PROVE  ClientInv'
<1> USE DEF ClientInv
<1>1. /\ cxCall[w].pc = "spawn" /\ n \in CxGens /\ n = Cardinality(Spawned) + 1
      /\ UNCHANGED <<cxCurrent, cxClosed, cxStarting, cxWire, cxStream, cxTurn, cxFaults>>
      /\ cxGen' = [Taken EXCEPT ![n].proc = "up"]
      /\ cxCall' = [cxCall EXCEPT ![w].pc = "register", ![w].gen = n]
  BY DEF Spawns
<1>2. PICK k \in 0..CxMaxGens : Spawned = 1..k
  BY DEF InOrder
<1>3. n = k + 1
  <2>1. k \in Nat /\ Cardinality(1..k) = k
    BY FS_Interval, CodexClientAssumption
  <2>2. QED BY <1>1, <1>2, <2>1
<1>4. cxGen[n].proc = "none" /\ cxGen[n] = NoGeneration /\ cxCurrent # n /\ n # CxNone
      /\ \A v \in CxCallers : cxCall[v].gen # n
  <2>1. n \notin Spawned
    BY <1>1, <1>2, <1>3, CodexClientAssumption DEF CxGens
  <2>2. cxGen[n].proc = "none"
    BY <1>1, <2>1 DEF Spawned
  <2>3. n # CxNone
    BY <1>1, CodexClientAssumption DEF CxGens
  <2>4. QED BY <1>1, <2>2, <2>3 DEF NotStarted, HasGeneration, GenOf
<1>5. /\ cxGen' \in [CxGens -> Generation]
      /\ \A g \in CxGens : g # n => AsBefore(cxGen[g], cxGen'[g])
      /\ cxGen'[n] = [NoGeneration EXCEPT !.proc = "up"]
  <2>1. Taken \in [CxGens -> Generation] /\ \A g \in CxGens : AsBefore(cxGen[g], Taken[g])
    BY TakenFacts
  <2>2. ~cxGen[n].watched
    BY <1>4 DEF NoGeneration
  <2>3. Taken[n] = NoGeneration
    BY <1>1, <1>4, <2>1, <2>2 DEF AsBefore
  <2>4. [NoGeneration EXCEPT !.proc = "up"] \in Generation
    BY DEF NoGeneration, Generation
  <2>5. cxGen' = [Taken EXCEPT ![n] = [NoGeneration EXCEPT !.proc = "up"]]
    BY <1>1, <2>3
  <2>6. QED BY <1>1, <2>1, <2>4, <2>5
<1>6. /\ cxGen'[n].proc = "up" /\ ~cxGen'[n].listed /\ ~cxGen'[n].closing /\ ~cxGen'[n].retired
      /\ ~cxGen'[n].tearing /\ ~cxGen'[n].done /\ ~cxGen'[n].watched /\ ~cxGen'[n].stale
      /\ cxGen'[n].turns = 0 /\ cxGen'[n].pending = {} /\ cxGen'[n].active = {}
  BY <1>5 DEF NoGeneration
<1>61. /\ cxGen[n].proc = "none" /\ ~cxGen[n].listed /\ ~cxGen[n].closing /\ ~cxGen[n].retired
      /\ ~cxGen[n].tearing /\ ~cxGen[n].done /\ ~cxGen[n].watched /\ ~cxGen[n].stale
      /\ cxGen[n].turns = 0 /\ cxGen[n].pending = {} /\ cxGen[n].active = {}
  BY <1>4 DEF NoGeneration
<1>7. /\ cxCall' \in [CxCallers -> Call]
      /\ \A v \in CxCallers : v # w => cxCall'[v] = cxCall[v]
      /\ cxCall'[w].pc = "register" /\ cxCall'[w].reply = cxCall[w].reply /\ cxCall'[w].gen = n
      /\ cxCall'[w].known = cxCall[w].known /\ cxCall'[w].answer = cxCall[w].answer
      /\ cxCall'[w].cancelled = cxCall[w].cancelled
  <2>1. cxCall \in [CxCallers -> Call] /\ cxCall[w] \in Call
    BY CallTypes
  <2>2. cxCall' = [cxCall EXCEPT ![w].pc = "register", ![w].gen = n]
    BY <1>1
  <2>3. QED BY <2>1, <2>2 DEF Call
<1>8. \A h \in CxGens : Turns(h)' = Turns(h)
  BY <1>1, <1>4, <1>7 DEF Turns, GenOf, Counted, Locked
<1>10. CxShape'
  BY <1>1, <1>4, <1>5, <1>6, <1>61, <1>7 DEF CxShape, CxTypeOK
<1>11. InOrder'
  <2>1. Spawned' = Spawned \cup {n}
    BY <1>5, <1>6 DEF Spawned, AsBefore
  <2>2. Spawned' = 1..n /\ n \in 0..CxMaxGens
    BY <1>1, <1>2, <1>3, <2>1, CodexClientAssumption DEF CxGens
  <2>3. QED BY <2>2 DEF InOrder
<1>12. NotStarted'
  BY <1>1, <1>4, <1>5, <1>6, <1>61, <1>7 DEF NotStarted, AsBefore, NoGeneration
<1>13. WayOut'
  BY <1>1, <1>4, <1>5, <1>6, <1>61, <1>7, GenOfFacts DEF WayOut, AsBefore
<1>14. Current'
  BY <1>1, <1>4, <1>5, <1>6, <1>61, <1>7, GenOfFacts DEF Current, AsBefore
<1>15. UpIsKnown'
  BY <1>1, <1>4, <1>5, <1>6, <1>61, <1>7, GenOfFacts DEF UpIsKnown, GenOf, Up, AsBefore
<1>16. StartLock'
  BY <1>1, <1>4, <1>5, <1>6, <1>61, <1>7, CodexClientAssumption, GenOfFacts DEF StartLock, Up,
    CxShape, CxTypeOK, AsBefore
<1>17. HasGeneration'
  BY <1>1, <1>4, <1>5, <1>6, <1>61, <1>7, CallTypes DEF HasGeneration, GenOf, AsBefore
<1>18. Registering'
  BY <1>1, <1>4, <1>5, <1>6, <1>61, <1>7, GenOfFacts DEF Registering, GenOf, AsBefore
<1>19. OwnGeneration'
  BY <1>1, <1>4, <1>5, <1>6, <1>61, <1>7, CodexClientAssumption, GenOfFacts DEF OwnGeneration,
    GenOf, StartLock, AsBefore
<1>20. TurnsCounted'
  BY <1>1, <1>4, <1>5, <1>6, <1>61, <1>7, <1>8, GenOfFacts DEF TurnsCounted, AsBefore
<1>21. ActiveFits'
  BY <1>1, <1>4, <1>5, <1>6, <1>61, <1>7, GenTypes, GenOfFacts DEF ActiveFits, GenOf, AsBefore
<1>22. PendingFits'
  BY <1>1, <1>4, <1>5, <1>6, <1>61, <1>7, GenTypes, GenOfFacts DEF PendingFits, GenOf, Asked,
    Methods, AsBefore
<1>23. Asked'
  BY <1>1, <1>4, <1>5, <1>6, <1>61, <1>7, GenOfFacts DEF Asked, AsBefore
<1>24. WireFits'
  BY <1>1, <1>4, <1>5, <1>6, <1>61, <1>7, WireTypes, GenOfFacts DEF WireFits, GenOf, AsBefore
<1>25. RepliesFit'
  BY <1>1, <1>4, <1>5, <1>6, <1>61, <1>7, GenOfFacts DEF RepliesFit, AsBefore
<1>26. DrainIsFinal'
  BY <1>1, <1>4, <1>5, <1>6, <1>61, <1>7, GenOfFacts DEF DrainIsFinal, GenOf, AsBefore
<1>27. DrainEnds'
  BY <1>1, <1>4, <1>5, <1>6, <1>61, <1>7, GenOfFacts DEF DrainEnds, GenOf, Asked, AsBefore
<1>28. TurnsNotCutShort'
  BY <1>1, <1>4, <1>5, <1>6, <1>61, <1>7, GenOfFacts DEF TurnsNotCutShort, Locked, GenOf, AsBefore
<1>29. Completed'
  BY <1>1, <1>4, <1>5, <1>6, <1>61, <1>7, GenOfFacts DEF Completed, GenOf, AsBefore
<1>30. Abandoned'
  BY <1>1, <1>4, <1>5, <1>6, <1>61, <1>7, GenOfFacts DEF Abandoned, Asked, GenOf, Up, AsBefore
<1>31. QED BY <1>10, <1>11, <1>12, <1>13, <1>14, <1>15, <1>16, <1>17, <1>18, <1>19, <1>20,
            <1>21,
            <1>22, <1>23, <1>24, <1>25, <1>26, <1>27, <1>28, <1>29, <1>30

\* A process is started, or fails to start.
LEMMA SpawnStep ==
  ASSUME ClientInv, NEW w \in CxCallers, Spawn(w)
  PROVE  ClientInv'
<1>1. SpawnFails(w) \/ Spawns(w, Cardinality(Spawned) + 1)
  BY DEF Spawn, Taken, SpawnFails, Spawns
<1>2. Spawns(w, Cardinality(Spawned) + 1) => Cardinality(Spawned) + 1 \in CxGens
  BY DEF Spawns
<1>3. QED BY <1>1, <1>2, SpawnsStep, SpawnFailsStep

\* A generation that counts a turn has work.
LEMMA CountedHasWork ==
  ASSUME ClientInv, NEW w \in CxCallers, cxCall[w].pc \in Counted
  PROVE  /\ GenOf(w) \in CxGens /\ w \in Turns(GenOf(w)) /\ cxGen[GenOf(w)].turns > 0
         /\ HasWork(cxGen[GenOf(w)])
<1>1. GenOf(w) \in CxGens
  BY GenOfFacts DEF Counted, Locked
<1>2. w \in Turns(GenOf(w))
  BY DEF Turns
<1>3. IsFiniteSet(Turns(GenOf(w))) /\ cxGen[GenOf(w)].turns = Cardinality(Turns(GenOf(w)))
      /\ cxGen[GenOf(w)].turns \in Nat
  BY <1>1, GenTypes DEF ClientInv, TurnsCounted
<1>4. Cardinality(Turns(GenOf(w))) # 0
  BY <1>2, <1>3, FS_EmptySet
<1>5. QED BY <1>1, <1>2, <1>3, <1>4 DEF HasWork

\* The outcomes of Register.
Registered(w) ==
  /\ cxCall[w].pc = "register"
  /\ cxCurrent' = GenOf(w)
  /\ cxGen' = [h \in CxGens |->
       IF h = GenOf(w) THEN [cxGen[h] EXCEPT !.listed = TRUE, !.pending = {<<w, "init">>}]
       ELSE IF h = cxCurrent THEN Retired(cxGen[h], h, GenOf(w)) ELSE cxGen[h]]
  /\ cxCall' = [cxCall EXCEPT ![w].pc = "init", ![w].reply = "none"]
  /\ ~cxClosed
  /\ UNCHANGED <<cxClosed, cxStarting, cxWire, cxStream, cxTurn, cxFaults>>
ClosedMeanwhile(w) ==
  /\ cxCall[w].pc = "register"
  /\ cxGen' = [cxGen EXCEPT ![GenOf(w)].closing = TRUE, ![GenOf(w)].tearing = TRUE]
  /\ cxCall' = [cxCall EXCEPT ![w].pc = "over", ![w].result = "failed"]
  /\ cxStarting' = CxNone
  /\ UNCHANGED <<cxCurrent, cxClosed, cxWire, cxStream, cxTurn, cxFaults>>

\* A process that becomes the current one.
LEMMA RegisteredStep ==
  ASSUME ClientInv, NEW w \in CxCallers, Registered(w)
  PROVE  ClientInv'
<1> USE DEF ClientInv
<1>1. PICK g \in CxGens :
        /\ GenOf(w) = g /\ cxCall[w].gen = g /\ g # CxNone /\ cxCall[w].pc = "register"
        /\ cxGen[g].proc # "none" /\ cxGen[g].listed = FALSE /\ cxGen[g].closing = FALSE
        /\ cxGen[g].retired = FALSE /\ cxGen[g].tearing = FALSE /\ cxGen[g].done = FALSE
        /\ cxGen[g].watched = FALSE /\ cxCurrent # g
        /\ cxCurrent = CxNone \/ ~Up(cxCurrent)
  <2>1. cxCall[w].pc = "register"
    BY DEF Registered
  <2>2. GenOf(w) \in CxGens /\ GenOf(w) # CxNone /\ cxCall[w].gen = GenOf(w)
    BY <2>1, GenOfFacts, CodexClientAssumption DEF HasGeneration, GenOf
  <2>3. QED BY <2>1, <2>2, GenTypes DEF Registering, HasGeneration, StartLock
<1>2. /\ cxCurrent' = g /\ ~cxClosed
      /\ UNCHANGED <<cxClosed, cxStarting, cxWire, cxStream, cxTurn, cxFaults>>
  BY <1>1 DEF Registered
<1>3. /\ cxGen' \in [CxGens -> Generation]
      /\ \A h \in CxGens : h # g => MayRetire(cxGen[h], cxGen'[h])
      /\ \A h \in CxGens : h # g /\ h # cxCurrent => cxGen'[h] = cxGen[h]
      /\ cxGen'[g].listed = TRUE /\ cxGen'[g].pending = {<<w, "init">>}
      /\ cxGen'[g].proc = cxGen[g].proc /\ cxGen'[g].closing = FALSE
      /\ cxGen'[g].stale = cxGen[g].stale /\ cxGen'[g].retired = FALSE
      /\ cxGen'[g].done = FALSE /\ cxGen'[g].turns = cxGen[g].turns
      /\ cxGen'[g].active = cxGen[g].active /\ cxGen'[g].tearing = FALSE
  <2> DEFINE y == [cxGen[g] EXCEPT !.listed = TRUE, !.pending = {<<w, "init">>}]
  <2>1. cxGen[g] \in Generation /\ {<<w, "init">>} \in SUBSET Requests
    BY <1>1, GenTypes DEF Requests, Methods
  <2>2. /\ y \in Generation /\ y.listed = TRUE /\ y.pending = {<<w, "init">>}
        /\ y.proc = cxGen[g].proc /\ y.closing = cxGen[g].closing
        /\ y.stale = cxGen[g].stale /\ y.retired = cxGen[g].retired
        /\ y.done = cxGen[g].done /\ y.turns = cxGen[g].turns
        /\ y.active = cxGen[g].active /\ y.tearing = cxGen[g].tearing
    BY <2>1 DEF Generation
  <2>3. cxGen' = [h \in CxGens |-> IF h = g THEN y
                    ELSE IF h = cxCurrent THEN Retired(cxGen[h], h, g) ELSE cxGen[h]]
    BY <1>1 DEF Registered
  <2> HIDE DEF y
  <2>4. cxGen'[g] = y
    BY <1>1, <2>3
  <2>5. ASSUME NEW h \in CxGens, h # g
        PROVE  cxGen'[h] \in Generation /\ MayRetire(cxGen[h], cxGen'[h])
    <3>1. cxGen'[h] = IF h = cxCurrent THEN Retired(cxGen[h], h, g) ELSE cxGen[h]
      BY <2>3, <2>5
    <3>2. cxGen[h] \in Generation
      BY GenTypes
    <3>3. CASE h = cxCurrent
      BY <3>1, <3>2, <3>3, RetiredFacts
    <3>4. CASE h # cxCurrent
      BY <3>1, <3>2, <3>4 DEF MayRetire
    <3>5. QED BY <3>3, <3>4
  <2>6. \A h \in CxGens : cxGen'[h] \in Generation
    BY <2>2, <2>4, <2>5
  <2>7. cxGen' \in [CxGens -> Generation]
    <3>1. cxGen' = [h \in CxGens |-> cxGen'[h]]
      BY <2>3
    <3>2. QED BY <2>6, <3>1
  <2>8. \A h \in CxGens : h # g /\ h # cxCurrent => cxGen'[h] = cxGen[h]
    BY <2>3
  <2>9. QED BY <1>1, <2>2, <2>4, <2>5, <2>7, <2>8
<1>4. /\ cxCall' \in [CxCallers -> Call]
      /\ \A v \in CxCallers : v # w => cxCall'[v] = cxCall[v]
      /\ cxCall'[w].pc = "init" /\ cxCall'[w].reply = "none" /\ cxCall'[w].gen = cxCall[w].gen
      /\ cxCall'[w].known = cxCall[w].known /\ cxCall'[w].answer = cxCall[w].answer
      /\ cxCall'[w].cancelled = cxCall[w].cancelled
  <2>1. cxCall \in [CxCallers -> Call] /\ cxCall[w] \in Call
    BY CallTypes
  <2>2. cxCall' = [cxCall EXCEPT ![w].pc = "init", ![w].reply = "none"]
    BY DEF Registered
  <2>3. QED BY <2>1, <2>2 DEF Call
<1>5. \A h \in CxGens : Turns(h)' = Turns(h)
  BY <1>1, <1>4 DEF Turns, GenOf, Counted, Locked
<1>6. /\ UNCHANGED <<cxStream, cxTurn>>
      /\ \A h \in CxGens : cxGen[h].closing => cxGen'[h].closing
      /\ \A v \in CxCallers : cxCall'[v].pc \in {"turn", "wait"} => cxCall'[v] = cxCall[v]
  BY <1>1, <1>2, <1>3, <1>4 DEF MayRetire
<1>7. CxShape'
  BY <1>1, <1>2, <1>3, <1>4 DEF CxShape, CxTypeOK
<1>8. InOrder'
  BY <1>1, <1>2, <1>3, <1>4, GenOfFacts DEF InOrder, Spawned, MayRetire
<1>9. NotStarted'
  BY <1>1, <1>2, <1>3, <1>4 DEF NotStarted, MayRetire
<1>10. WayOut'
  BY <1>1, <1>2, <1>3, <1>4, GenOfFacts DEF WayOut, MayRetire
<1>11. Current'
  BY <1>1, <1>2, <1>3, <1>4, GenOfFacts DEF Current, MayRetire
<1>12. UpIsKnown'
  <2>1. SUFFICES ASSUME NEW h \in CxGens, Up(h)', ~cxGen'[h].tearing, h # g
                 PROVE  FALSE
    BY <1>2 DEF UpIsKnown
  <2>2. Up(h) /\ ~cxGen[h].tearing
    BY <1>3, <2>1 DEF Up, MayRetire
  <2>3. h # cxCurrent
    BY <1>1, <2>2, CodexClientAssumption DEF CxGens
  <2>4. PICK v \in CxCallers : cxCall[v].pc = "register" /\ GenOf(v) = h
    BY <2>2, <2>3 DEF UpIsKnown
  <2>5. v = w
    BY <1>1, <2>4 DEF StartLock
  <2>6. QED BY <1>1, <2>1, <2>4, <2>5
<1>13. StartLock'
  BY <1>1, <1>2, <1>3, <1>4, CodexClientAssumption DEF StartLock, Up, MayRetire
<1>14. HasGeneration'
  BY <1>1, <1>2, <1>3, <1>4, CallTypes DEF HasGeneration, GenOf, MayRetire
<1>15. Registering'
  BY <1>1, <1>2, <1>3, <1>4 DEF Registering, GenOf, StartLock
<1>16. OwnGeneration'
  BY <1>1, <1>2, <1>3, <1>4, CodexClientAssumption, GenOfFacts DEF OwnGeneration, GenOf,
    StartLock, MayRetire
<1>17. TurnsCounted'
  BY <1>1, <1>2, <1>3, <1>4, <1>5, GenOfFacts DEF TurnsCounted, MayRetire
<1>18. ActiveFits'
  BY <1>1, <1>2, <1>3, <1>4, GenTypes, GenOfFacts DEF ActiveFits, GenOf, MayRetire
<1>19. PendingFits'
  BY <1>1, <1>2, <1>3, <1>4, GenTypes, GenOfFacts DEF PendingFits, GenOf, Asked, Methods,
    MayRetire
<1>20. Asked'
  BY <1>1, <1>2, <1>3, <1>4, GenOfFacts DEF Asked, MayRetire
<1>21. WireFits'
  BY <1>1, <1>2, <1>3, <1>4, WireTypes, GenOfFacts DEF WireFits, GenOf, MayRetire
<1>22. RepliesFit'
  BY <1>1, <1>2, <1>3, <1>4, GenOfFacts DEF RepliesFit, MayRetire
<1>23. DrainIsFinal'
  BY <1>1, <1>2, <1>3, <1>4, GenOfFacts DEF DrainIsFinal, GenOf, MayRetire, OwnGeneration
<1>24. DrainEnds'
  BY <1>1, <1>2, <1>3, <1>4, GenOfFacts DEF DrainEnds, GenOf, Asked, MayRetire
<1>25. TurnsNotCutShort'
  BY <1>1, <1>2, <1>3, <1>4, CountedHasWork, GenOfFacts DEF TurnsNotCutShort, Locked, GenOf,
    MayRetire, Counted
<1>26. Completed'
  <2>1. SUFFICES ASSUME NEW v \in CxCallers, cxCall'[v].pc \in {"turn", "wait"},
                        cxTurn[v] = "over", cxCall[v].answer = NoAnswer, cxCall'[v] = cxCall[v],
                        ~cxGen[cxCall[v].gen].closing
                 PROVE  \E i \in DOMAIN cxStream[cxCall[v].gen] :
                          /\ cxStream[cxCall[v].gen][i].kind = "completed"
                          /\ cxStream[cxCall[v].gen][i].answer.of = v
    BY <1>6, GenOfFacts DEF Completed, GenOf
  <2>2. QED BY <2>1 DEF Completed, GenOf
<1>27. Abandoned'
  BY <1>1, <1>2, <1>3, <1>4, GenOfFacts DEF Abandoned, Asked, GenOf, Up, MayRetire
<1>28. QED BY <1>7, <1>8, <1>9, <1>10, <1>11, <1>12, <1>13, <1>14, <1>15, <1>16, <1>17, <1>18,
            <1>19,
            <1>20, <1>21, <1>22, <1>23, <1>24, <1>25, <1>26, <1>27

\* A process that is stopped because the client closed.
LEMMA ClosedMeanwhileStep ==
  ASSUME ClientInv, NEW w \in CxCallers, ClosedMeanwhile(w)
  PROVE  ClientInv'
<1> USE DEF ClientInv
<1>1. PICK g \in CxGens :
        /\ GenOf(w) = g /\ cxCall[w].gen = g /\ g # CxNone /\ cxCall[w].pc = "register"
        /\ cxGen[g].proc # "none" /\ cxGen[g].listed = FALSE /\ cxGen[g].closing = FALSE
        /\ cxGen[g].retired = FALSE /\ cxGen[g].tearing = FALSE /\ cxGen[g].done = FALSE
        /\ cxGen[g].watched = FALSE /\ cxCurrent # g
        /\ cxCurrent = CxNone \/ ~Up(cxCurrent)
  <2>1. cxCall[w].pc = "register"
    BY DEF ClosedMeanwhile
  <2>2. GenOf(w) \in CxGens /\ GenOf(w) # CxNone /\ cxCall[w].gen = GenOf(w)
    BY <2>1, GenOfFacts, CodexClientAssumption DEF HasGeneration, GenOf
  <2>3. QED BY <2>1, <2>2, GenTypes DEF Registering, HasGeneration, StartLock
<1>2. /\ cxStarting' = CxNone
      /\ UNCHANGED <<cxCurrent, cxClosed, cxWire, cxStream, cxTurn, cxFaults>>
  BY DEF ClosedMeanwhile
<1>3. /\ cxGen' \in [CxGens -> Generation]
      /\ \A h \in CxGens : h # g => cxGen'[h] = cxGen[h]
      /\ cxGen'[g].listed = FALSE /\ cxGen'[g].pending = cxGen[g].pending
      /\ cxGen'[g].proc = cxGen[g].proc /\ cxGen'[g].closing = TRUE
      /\ cxGen'[g].stale = cxGen[g].stale /\ cxGen'[g].retired = FALSE
      /\ cxGen'[g].done = FALSE /\ cxGen'[g].turns = cxGen[g].turns
      /\ cxGen'[g].active = cxGen[g].active /\ cxGen'[g].tearing = TRUE
  <2>1. cxGen[g] \in Generation /\ cxGen \in [CxGens -> Generation]
    BY <1>1, GenTypes
  <2>2. cxGen' = [cxGen EXCEPT ![g].closing = TRUE, ![g].tearing = TRUE]
    BY <1>1 DEF ClosedMeanwhile
  <2>3. QED BY <1>1, <2>1, <2>2 DEF Generation
<1>4. /\ cxCall' \in [CxCallers -> Call]
      /\ \A v \in CxCallers : v # w => cxCall'[v] = cxCall[v]
      /\ cxCall'[w].pc = "over"
      /\ cxCall'[w].reply = cxCall[w].reply /\ cxCall'[w].gen = cxCall[w].gen
      /\ cxCall'[w].known = cxCall[w].known /\ cxCall'[w].answer = cxCall[w].answer
      /\ cxCall'[w].cancelled = cxCall[w].cancelled
  <2>1. cxCall \in [CxCallers -> Call] /\ cxCall[w] \in Call
    BY CallTypes
  <2>2. cxCall' = [cxCall EXCEPT ![w].pc = "over", ![w].result = "failed"]
    BY DEF ClosedMeanwhile
  <2>3. QED BY <2>1, <2>2 DEF Call
<1>5. \A h \in CxGens : Turns(h)' = Turns(h)
  BY <1>1, <1>4 DEF Turns, GenOf, Counted, Locked
<1>6. CxShape'
  BY <1>1, <1>2, <1>3, <1>4 DEF CxShape, CxTypeOK
<1>7. InOrder'
  BY <1>1, <1>2, <1>3, <1>4, GenOfFacts DEF InOrder, Spawned
<1>8. NotStarted'
  BY <1>1, <1>2, <1>3, <1>4, GenOfFacts DEF NotStarted
<1>9. WayOut'
  BY <1>1, <1>2, <1>3, <1>4, GenOfFacts DEF WayOut
<1>10. Current'
  BY <1>1, <1>2, <1>3, <1>4, GenOfFacts DEF Current
<1>11. UpIsKnown'
  BY <1>1, <1>2, <1>3, <1>4, GenOfFacts DEF UpIsKnown, GenOf, Up
<1>12. StartLock'
  BY <1>1, <1>2, <1>3, <1>4, CodexClientAssumption, GenOfFacts DEF StartLock, Up, CxShape,
    CxTypeOK
<1>13. HasGeneration'
  BY <1>1, <1>2, <1>3, <1>4, CallTypes DEF HasGeneration, GenOf
<1>14. Registering'
  BY <1>1, <1>2, <1>3, <1>4 DEF Registering, GenOf, StartLock
<1>15. OwnGeneration'
  BY <1>1, <1>2, <1>3, <1>4, CodexClientAssumption, GenOfFacts DEF OwnGeneration, GenOf, StartLock
<1>16. TurnsCounted'
  BY <1>1, <1>2, <1>3, <1>4, <1>5, GenOfFacts DEF TurnsCounted
<1>17. ActiveFits'
  BY <1>1, <1>2, <1>3, <1>4, GenTypes, GenOfFacts DEF ActiveFits, GenOf
<1>18. PendingFits'
  BY <1>1, <1>2, <1>3, <1>4, GenTypes, GenOfFacts DEF PendingFits, GenOf, Asked, Methods
<1>19. Asked'
  BY <1>1, <1>2, <1>3, <1>4, GenOfFacts DEF Asked
<1>20. WireFits'
  BY <1>1, <1>2, <1>3, <1>4, WireTypes, GenOfFacts DEF WireFits, GenOf
<1>21. RepliesFit'
  BY <1>1, <1>2, <1>3, <1>4, GenOfFacts DEF RepliesFit
<1>22. DrainIsFinal'
  BY <1>1, <1>2, <1>3, <1>4, GenOfFacts DEF DrainIsFinal, GenOf
<1>23. DrainEnds'
  BY <1>1, <1>2, <1>3, <1>4, GenOfFacts DEF DrainEnds, GenOf, Asked
<1>24. TurnsNotCutShort'
  BY <1>1, <1>2, <1>3, <1>4, GenOfFacts DEF TurnsNotCutShort, Locked, GenOf
<1>25. Completed'
  BY <1>1, <1>2, <1>3, <1>4, GenOfFacts DEF Completed, GenOf
<1>26. Abandoned'
  BY <1>1, <1>2, <1>3, <1>4, GenOfFacts DEF Abandoned, Asked, GenOf, Up
<1>27. QED BY <1>6, <1>7, <1>8, <1>9, <1>10, <1>11, <1>12, <1>13, <1>14, <1>15, <1>16, <1>17,
            <1>18,
            <1>19, <1>20, <1>21, <1>22, <1>23, <1>24, <1>25, <1>26

\* A process that was started becomes the current generation, or is stopped.
LEMMA RegisterStep ==
  ASSUME ClientInv, NEW w \in CxCallers, Register(w)
  PROVE  ClientInv'
<1>1. Registered(w) \/ ClosedMeanwhile(w)
  BY DEF Register, Registers, Registered, ClosedMeanwhile
<1>2. QED BY <1>1, RegisteredStep, ClosedMeanwhileStep

\* A process that is ready for turns.
LEMMA InitialisedStep ==
  ASSUME ClientInv, NEW w \in CxCallers, Initialised(w)
  PROVE  ClientInv'
<1> USE DEF ClientInv
<1>1. PICK g \in CxGens :
        /\ GenOf(w) = g /\ cxCall[w].gen = g /\ g # CxNone /\ cxCall[w].pc = "init"
        /\ cxGen[g].proc # "none"
  <2>1. cxCall[w].pc = "init"
    BY DEF Initialised
  <2>2. GenOf(w) \in CxGens /\ GenOf(w) # CxNone /\ cxCall[w].gen = GenOf(w)
    BY <2>1, GenOfFacts, CodexClientAssumption DEF HasGeneration, GenOf
  <2>3. QED BY <2>1, <2>2 DEF HasGeneration
<1>2. /\ cxStarting' = CxNone /\ cxCall[w].reply = "ok"
      /\ UNCHANGED <<cxCurrent, cxClosed, cxWire, cxStream, cxTurn, cxFaults>>
  BY DEF Initialised
<1>3. /\ cxGen' \in [CxGens -> Generation]
      /\ \A h \in CxGens : h # g => cxGen'[h] = cxGen[h]
      /\ cxGen'[g].listed = cxGen[g].listed /\ cxGen'[g].pending = cxGen[g].pending
      /\ cxGen'[g].proc = cxGen[g].proc /\ cxGen'[g].closing = cxGen[g].closing
      /\ cxGen'[g].stale = cxGen[g].stale /\ cxGen'[g].retired = cxGen[g].retired
      /\ cxGen'[g].done = cxGen[g].done /\ cxGen'[g].turns = cxGen[g].turns
      /\ cxGen'[g].active = cxGen[g].active /\ cxGen'[g].tearing = cxGen[g].tearing
  <2> DEFINE b == ~cxGen[g].retired
  <2>1. cxGen[g] \in Generation /\ cxGen \in [CxGens -> Generation] /\ b \in BOOLEAN
    BY <1>1, GenTypes
  <2>2. cxGen' = [cxGen EXCEPT ![g].watched = b]
    BY <1>1 DEF Initialised
  <2> HIDE DEF b
  <2>3. QED BY <1>1, <2>1, <2>2 DEF Generation
<1>4. /\ cxCall' \in [CxCallers -> Call]
      /\ \A v \in CxCallers : v # w => cxCall'[v] = cxCall[v]
      /\ cxCall'[w].pc = "reserve"
      /\ cxCall'[w].reply = cxCall[w].reply /\ cxCall'[w].gen = cxCall[w].gen
      /\ cxCall'[w].known = cxCall[w].known /\ cxCall'[w].answer = cxCall[w].answer
      /\ cxCall'[w].cancelled = cxCall[w].cancelled
  <2>1. Goto(w, "reserve")
    BY DEF Initialised
  <2>2. QED BY <2>1, GotoFacts DEF Moves, Steps
<1>5. \A h \in CxGens : Turns(h)' = Turns(h)
  BY <1>1, <1>4 DEF Turns, GenOf, Counted, Locked
<1>6. CxShape'
  BY <1>1, <1>2, <1>3, <1>4 DEF CxShape, CxTypeOK
<1>7. InOrder'
  BY <1>1, <1>2, <1>3, <1>4, GenOfFacts DEF InOrder, Spawned
<1>8. NotStarted'
  BY <1>1, <1>2, <1>3, <1>4, GenOfFacts DEF NotStarted
<1>9. WayOut'
  BY <1>1, <1>2, <1>3, <1>4, GenOfFacts DEF WayOut
<1>10. Current'
  BY <1>1, <1>2, <1>3, <1>4, GenOfFacts DEF Current
<1>11. UpIsKnown'
  BY <1>1, <1>2, <1>3, <1>4, GenOfFacts DEF UpIsKnown, GenOf, Up
<1>12. StartLock'
  BY <1>1, <1>2, <1>3, <1>4, CodexClientAssumption, GenOfFacts DEF StartLock, Up, CxShape,
    CxTypeOK
<1>13. HasGeneration'
  BY <1>1, <1>2, <1>3, <1>4, CallTypes DEF HasGeneration, GenOf
<1>14. Registering'
  BY <1>1, <1>2, <1>3, <1>4 DEF Registering, GenOf, StartLock
<1>15. OwnGeneration'
  BY <1>1, <1>2, <1>3, <1>4, CodexClientAssumption, GenOfFacts DEF OwnGeneration, GenOf, StartLock
<1>16. TurnsCounted'
  BY <1>1, <1>2, <1>3, <1>4, <1>5, GenOfFacts DEF TurnsCounted
<1>17. ActiveFits'
  BY <1>1, <1>2, <1>3, <1>4, GenTypes, GenOfFacts DEF ActiveFits, GenOf
<1>18. PendingFits'
  BY <1>1, <1>2, <1>3, <1>4, GenTypes, GenOfFacts DEF PendingFits, GenOf, Asked, Methods
<1>19. Asked'
  BY <1>1, <1>2, <1>3, <1>4, GenOfFacts DEF Asked
<1>20. WireFits'
  BY <1>1, <1>2, <1>3, <1>4, WireTypes, GenOfFacts DEF WireFits, GenOf
<1>21. RepliesFit'
  BY <1>1, <1>2, <1>3, <1>4, GenOfFacts DEF RepliesFit
<1>22. DrainIsFinal'
  BY <1>1, <1>2, <1>3, <1>4, GenOfFacts DEF DrainIsFinal, GenOf
<1>23. DrainEnds'
  BY <1>1, <1>2, <1>3, <1>4, GenOfFacts DEF DrainEnds, GenOf, Asked
<1>24. TurnsNotCutShort'
  BY <1>1, <1>2, <1>3, <1>4, GenOfFacts DEF TurnsNotCutShort, Locked, GenOf
<1>25. Completed'
  BY <1>1, <1>2, <1>3, <1>4, GenOfFacts DEF Completed, GenOf
<1>26. Abandoned'
  BY <1>1, <1>2, <1>3, <1>4, GenOfFacts DEF Abandoned, Asked, GenOf, Up
<1>27. QED BY <1>6, <1>7, <1>8, <1>9, <1>10, <1>11, <1>12, <1>13, <1>14, <1>15, <1>16, <1>17,
            <1>18,
            <1>19, <1>20, <1>21, <1>22, <1>23, <1>24, <1>25, <1>26

\* A process that cannot be used.
LEMMA InitFailsStep ==
  ASSUME ClientInv, NEW w \in CxCallers, InitFails(w)
  PROVE  ClientInv'
<1> USE DEF ClientInv
<1>1. PICK g \in CxGens :
        /\ GenOf(w) = g /\ cxCall[w].gen = g /\ g # CxNone /\ cxCall[w].pc = "init"
        /\ cxGen[g].proc # "none"
  <2>1. cxCall[w].pc = "init"
    BY DEF InitFails
  <2>2. GenOf(w) \in CxGens /\ GenOf(w) # CxNone /\ cxCall[w].gen = GenOf(w)
    BY <2>1, GenOfFacts, CodexClientAssumption DEF HasGeneration, GenOf
  <2>3. QED BY <2>1, <2>2 DEF HasGeneration
<1>2. /\ UNCHANGED <<cxStarting, cxClosed, cxWire, cxStream, cxTurn, cxFaults>>
      /\ cxCurrent' \in CxGens \cup {CxNone} /\ (cxCurrent = CxNone => cxCurrent' = CxNone)
      /\ \A h \in CxGens : cxCurrent' = h <=> cxCurrent = h /\ h # g
      /\ cxCurrent' = CxNone \/ cxCurrent' = cxCurrent
      /\ cxCall[w].reply = "error"
  <2>1. \A h \in CxGens : h # CxNone
    BY CodexClientAssumption DEF CxGens
  <2>2. cxCurrent' = IF cxCurrent = g THEN CxNone ELSE cxCurrent
    BY <1>1 DEF InitFails
  <2>3. cxCurrent \in CxGens \cup {CxNone}
    BY DEF CxShape, CxTypeOK
  <2>4. QED BY <1>1, <2>1, <2>2, <2>3 DEF InitFails
<1>3. /\ cxGen' \in [CxGens -> Generation]
      /\ \A h \in CxGens : h # g => cxGen'[h] = cxGen[h]
      /\ cxGen'[g].listed = FALSE /\ cxGen'[g].pending = cxGen[g].pending
      /\ cxGen'[g].proc = cxGen[g].proc /\ cxGen'[g].closing = TRUE
      /\ cxGen'[g].stale = cxGen[g].stale /\ cxGen'[g].retired = TRUE
      /\ cxGen'[g].done = cxGen[g].done /\ cxGen'[g].turns = cxGen[g].turns
      /\ cxGen'[g].active = cxGen[g].active /\ (cxGen'[g].tearing <=> ~cxGen[g].done)
  <2> DEFINE b == ~cxGen[g].done
  <2>1. cxGen[g] \in Generation /\ cxGen \in [CxGens -> Generation] /\ b \in BOOLEAN
    BY <1>1, GenTypes
  <2>2. cxGen' = [cxGen EXCEPT ![g].closing = TRUE, ![g].retired = TRUE, ![g].listed = FALSE,
                               ![g].tearing = b]
    BY <1>1 DEF InitFails
  <2>3. cxGen'[g].tearing = b /\ (b <=> ~cxGen[g].done)
    <3> HIDE DEF b
    <3>1. cxGen'[g].tearing = b
      BY <1>1, <2>1, <2>2 DEF Generation
    <3>2. QED BY <3>1 DEF b
  <2> HIDE DEF b
  <2>4. QED BY <1>1, <2>1, <2>2, <2>3 DEF Generation
<1>4. /\ cxCall' \in [CxCallers -> Call]
      /\ \A v \in CxCallers : v # w => cxCall'[v] = cxCall[v]
      /\ cxCall'[w].pc = "discard"
      /\ cxCall'[w].reply = cxCall[w].reply /\ cxCall'[w].gen = cxCall[w].gen
      /\ cxCall'[w].known = cxCall[w].known /\ cxCall'[w].answer = cxCall[w].answer
      /\ cxCall'[w].cancelled = cxCall[w].cancelled
  <2>1. Goto(w, "discard")
    BY DEF InitFails
  <2>2. QED BY <2>1, GotoFacts DEF Moves, Steps
<1>5. \A h \in CxGens : Turns(h)' = Turns(h)
  BY <1>1, <1>4 DEF Turns, GenOf, Counted, Locked
<1>6. CxShape'
  BY <1>1, <1>2, <1>3, <1>4 DEF CxShape, CxTypeOK
<1>7. InOrder'
  BY <1>1, <1>2, <1>3, <1>4, GenOfFacts DEF InOrder, Spawned
<1>8. NotStarted'
  BY <1>1, <1>2, <1>3, <1>4, GenOfFacts DEF NotStarted
<1>9. WayOut'
  BY <1>1, <1>2, <1>3, <1>4, GenOfFacts DEF WayOut
<1>10. Current'
  BY <1>1, <1>2, <1>3, <1>4, GenOfFacts DEF Current
<1>11. UpIsKnown'
  BY <1>1, <1>2, <1>3, <1>4 DEF UpIsKnown, GenOf, Up, WayOut
<1>12. StartLock'
  BY <1>1, <1>2, <1>3, <1>4, CodexClientAssumption, GenOfFacts DEF StartLock, Up, CxShape,
    CxTypeOK
<1>13. HasGeneration'
  BY <1>1, <1>2, <1>3, <1>4, CallTypes DEF HasGeneration, GenOf
<1>14. Registering'
  BY <1>1, <1>2, <1>3, <1>4 DEF Registering, GenOf, StartLock
<1>15. OwnGeneration'
  BY <1>1, <1>2, <1>3, <1>4, CodexClientAssumption, GenOfFacts DEF OwnGeneration, GenOf, StartLock
<1>16. TurnsCounted'
  BY <1>1, <1>2, <1>3, <1>4, <1>5, GenOfFacts DEF TurnsCounted
<1>17. ActiveFits'
  BY <1>1, <1>2, <1>3, <1>4, GenTypes, GenOfFacts DEF ActiveFits, GenOf
<1>18. PendingFits'
  BY <1>1, <1>2, <1>3, <1>4, GenTypes, GenOfFacts DEF PendingFits, GenOf, Asked, Methods
<1>19. Asked'
  BY <1>1, <1>2, <1>3, <1>4, GenOfFacts DEF Asked
<1>20. WireFits'
  BY <1>1, <1>2, <1>3, <1>4, WireTypes, GenOfFacts DEF WireFits, GenOf
<1>21. RepliesFit'
  BY <1>1, <1>2, <1>3, <1>4, GenOfFacts DEF RepliesFit
<1>22. DrainIsFinal'
  BY <1>1, <1>2, <1>3, <1>4, GenOfFacts DEF DrainIsFinal, GenOf
<1>23. DrainEnds'
  BY <1>1, <1>2, <1>3, <1>4, GenOfFacts DEF DrainEnds, GenOf, Asked, OwnGeneration
<1>24. TurnsNotCutShort'
  BY <1>1, <1>2, <1>3, <1>4, GenOfFacts DEF TurnsNotCutShort, Locked, GenOf, OwnGeneration
<1>25. Completed'
  BY <1>1, <1>2, <1>3, <1>4, GenOfFacts DEF Completed, GenOf
<1>26. Abandoned'
  BY <1>1, <1>2, <1>3, <1>4, GenOfFacts DEF Abandoned, Asked, GenOf, Up
<1>27. QED BY <1>6, <1>7, <1>8, <1>9, <1>10, <1>11, <1>12, <1>13, <1>14, <1>15, <1>16, <1>17,
            <1>18,
            <1>19, <1>20, <1>21, <1>22, <1>23, <1>24, <1>25, <1>26

\* Why a generation has work.
LEMMA WorkMeans ==
  ASSUME ClientInv, NEW g \in CxGens, HasWork(cxGen[g])
  PROVE  \/ cxGen[g].turns > 0
         \/ \E v \in CxCallers : cxCall[v].cancelled /\ GenOf(v) = g
         \/ \E v \in CxCallers : cxCall[v].pc = "init" /\ GenOf(v) = g
<1>1. cxGen[g].turns \in Nat
  BY GenTypes DEF ClientInv
<1>2. ASSUME NEW r \in cxGen[g].pending
      PROVE  \/ cxGen[g].turns > 0
             \/ \E v \in CxCallers : cxCall[v].cancelled /\ GenOf(v) = g
             \/ \E v \in CxCallers : cxCall[v].pc = "init" /\ GenOf(v) = g
  <2>1. r[1] \in CxCallers /\ r[2] \in Methods /\ GenOf(r[1]) = g
    BY GenTypes DEF ClientInv, PendingFits
  <2>2. CASE r[2] = "cancel"
    BY <2>1, <2>2 DEF ClientInv, PendingFits
  <2>3. CASE r[2] = "init"
    BY <2>1, <2>3 DEF ClientInv, PendingFits
  <2>4. CASE r[2] \in {"open", "turn", "stop"}
    <3>1. cxCall[r[1]].pc \in Counted
      BY <2>1, <2>4 DEF ClientInv, PendingFits, Counted, Locked
    <3>2. QED BY <2>1, <3>1, CountedHasWork
  <2>5. QED BY <2>1, <2>2, <2>3, <2>4 DEF Methods
<1>3. ASSUME NEW v \in cxGen[g].active
      PROVE  cxGen[g].turns > 0
  <2>1. v \in CxCallers
    BY GenTypes DEF ClientInv
  <2>2. GenOf(v) = g /\ cxCall[v].pc \in Counted
    BY <2>1 DEF ClientInv, ActiveFits, Counted, Locked
  <2>3. QED BY <2>1, <2>2, CountedHasWork
<1>4. QED BY <1>1, <1>2, <1>3 DEF HasWork

\* The outcomes of Reserve.
Counts(w) ==
  /\ cxCall[w].pc = "reserve"
  /\ cxCurrent = GenOf(w) /\ ~cxGen[GenOf(w)].stale /\ ~cxGen[GenOf(w)].closing
  /\ cxGen' = [cxGen EXCEPT ![GenOf(w)].turns = @ + 1]
  /\ Goto(w, "lock")
  /\ UNCHANGED <<cxCurrent, cxClosed, cxStarting, cxWire, cxStream, cxTurn, cxFaults>>
Drains(w) ==
  /\ cxCall[w].pc = "reserve"
  /\ cxCurrent # GenOf(w) \/ cxGen[GenOf(w)].stale \/ cxGen[GenOf(w)].closing
  /\ cxGen' = [cxGen EXCEPT ![GenOf(w)] = Retired(@, GenOf(w), cxCurrent)]
  /\ Goto(w, "drain")
  /\ UNCHANGED <<cxCurrent, cxClosed, cxStarting, cxWire, cxStream, cxTurn, cxFaults>>

\* A turn that is counted.
LEMMA CountsStep ==
  ASSUME ClientInv, NEW w \in CxCallers, Counts(w)
  PROVE  ClientInv'
<1> USE DEF ClientInv
<1>1. PICK g \in CxGens :
        /\ GenOf(w) = g /\ cxCall[w].gen = g /\ g # CxNone /\ cxCall[w].pc = "reserve"
        /\ cxGen[g].proc # "none"
  <2>1. cxCall[w].pc = "reserve"
    BY DEF Counts
  <2>2. GenOf(w) \in CxGens /\ GenOf(w) # CxNone /\ cxCall[w].gen = GenOf(w)
    BY <2>1, GenOfFacts, CodexClientAssumption DEF HasGeneration, GenOf
  <2>3. QED BY <2>1, <2>2 DEF HasGeneration
<1>2. /\ cxCurrent = g /\ ~cxGen[g].stale /\ ~cxGen[g].closing
      /\ UNCHANGED <<cxCurrent, cxClosed, cxStarting, cxWire, cxStream, cxTurn, cxFaults>>
  BY <1>1 DEF Counts
<1>3. /\ cxGen' \in [CxGens -> Generation]
      /\ \A h \in CxGens : h # g => cxGen'[h] = cxGen[h]
      /\ cxGen'[g].listed = cxGen[g].listed /\ cxGen'[g].pending = cxGen[g].pending
      /\ cxGen'[g].proc = cxGen[g].proc /\ cxGen'[g].closing = cxGen[g].closing
      /\ cxGen'[g].stale = cxGen[g].stale /\ cxGen'[g].retired = cxGen[g].retired
      /\ cxGen'[g].done = cxGen[g].done /\ cxGen'[g].turns = cxGen[g].turns + 1
      /\ cxGen'[g].active = cxGen[g].active /\ cxGen'[g].tearing = cxGen[g].tearing
  <2>1. cxGen[g] \in Generation /\ cxGen \in [CxGens -> Generation] /\ cxGen[g].turns + 1 \in Nat
    BY <1>1, GenTypes
  <2>2. cxGen' = [cxGen EXCEPT ![g].turns = cxGen[g].turns + 1]
    BY <1>1 DEF Counts
  <2>3. QED BY <1>1, <2>1, <2>2 DEF Generation
<1>4. /\ cxCall' \in [CxCallers -> Call]
      /\ \A v \in CxCallers : v # w => cxCall'[v] = cxCall[v]
      /\ cxCall'[w].pc = "lock"
      /\ cxCall'[w].reply = cxCall[w].reply /\ cxCall'[w].gen = cxCall[w].gen
      /\ cxCall'[w].known = cxCall[w].known /\ cxCall'[w].answer = cxCall[w].answer
      /\ cxCall'[w].cancelled = cxCall[w].cancelled
  <2>1. Goto(w, "lock")
    BY DEF Counts
  <2>2. QED BY <2>1, GotoFacts DEF Moves, Steps
<1>5. /\ \A h \in CxGens : h # g => Turns(h)' = Turns(h)
      /\ Turns(g)' = Turns(g) \cup {w} /\ w \notin Turns(g)
  BY <1>1, <1>4 DEF Turns, GenOf, Counted, Locked
<1>6. CxShape'
  BY <1>1, <1>2, <1>3, <1>4 DEF CxShape, CxTypeOK
<1>7. InOrder'
  BY <1>1, <1>2, <1>3, <1>4, GenOfFacts DEF InOrder, Spawned
<1>8. NotStarted'
  BY <1>1, <1>2, <1>3, <1>4, GenOfFacts DEF NotStarted
<1>9. WayOut'
  BY <1>1, <1>2, <1>3, <1>4, GenOfFacts DEF WayOut
<1>10. Current'
  BY <1>1, <1>2, <1>3, <1>4, GenOfFacts DEF Current
<1>11. UpIsKnown'
  BY <1>1, <1>2, <1>3, <1>4, GenOfFacts DEF UpIsKnown, GenOf, Up
<1>12. StartLock'
  BY <1>1, <1>2, <1>3, <1>4, CodexClientAssumption, GenOfFacts DEF StartLock, Up, CxShape,
    CxTypeOK
<1>13. HasGeneration'
  BY <1>1, <1>2, <1>3, <1>4, CallTypes DEF HasGeneration, GenOf
<1>14. Registering'
  BY <1>1, <1>2, <1>3, <1>4, GenOfFacts DEF Registering, GenOf
<1>15. OwnGeneration'
  BY <1>1, <1>2, <1>3, <1>4, CodexClientAssumption, GenOfFacts DEF OwnGeneration, GenOf, StartLock
<1>16. TurnsCounted'
  <2>1. IsFiniteSet(Turns(g)) /\ cxGen[g].turns = Cardinality(Turns(g))
    BY <1>1 DEF TurnsCounted
  <2>2. IsFiniteSet(Turns(g)') /\ cxGen'[g].turns = Cardinality(Turns(g)')
    BY <1>3, <1>5, <2>1, FS_AddElement
  <2>3. QED BY <1>3, <1>5, <2>2 DEF TurnsCounted
<1>17. ActiveFits'
  BY <1>1, <1>2, <1>3, <1>4, GenTypes, GenOfFacts DEF ActiveFits, GenOf
<1>18. PendingFits'
  BY <1>1, <1>2, <1>3, <1>4, GenTypes, GenOfFacts DEF PendingFits, GenOf, Asked, Methods
<1>19. Asked'
  BY <1>1, <1>2, <1>3, <1>4, GenOfFacts DEF Asked
<1>20. WireFits'
  BY <1>1, <1>2, <1>3, <1>4, WireTypes, GenOfFacts DEF WireFits, GenOf
<1>21. RepliesFit'
  BY <1>1, <1>2, <1>3, <1>4, GenOfFacts DEF RepliesFit
<1>22. DrainIsFinal'
  BY <1>1, <1>2, <1>3, <1>4, GenOfFacts DEF DrainIsFinal, GenOf
<1>23. DrainEnds'
  BY <1>1, <1>2, <1>3, <1>4, GenOfFacts, GenTypes DEF DrainEnds, GenOf, Asked
<1>24. TurnsNotCutShort'
  BY <1>1, <1>2, <1>3, <1>4, GenOfFacts DEF TurnsNotCutShort, Locked, GenOf, WayOut
<1>25. Completed'
  BY <1>1, <1>2, <1>3, <1>4, GenOfFacts DEF Completed, GenOf
<1>26. Abandoned'
  BY <1>1, <1>2, <1>3, <1>4, GenOfFacts DEF Abandoned, Asked, GenOf, Up
<1>27. QED BY <1>6, <1>7, <1>8, <1>9, <1>10, <1>11, <1>12, <1>13, <1>14, <1>15, <1>16, <1>17,
            <1>18,
            <1>19, <1>20, <1>21, <1>22, <1>23, <1>24, <1>25, <1>26

\* A caller that waits for the end of a generation.
LEMMA DrainsStep ==
  ASSUME ClientInv, NEW w \in CxCallers, Drains(w)
  PROVE  ClientInv'
<1> USE DEF ClientInv
<1>1. PICK g \in CxGens :
        /\ GenOf(w) = g /\ cxCall[w].gen = g /\ g # CxNone /\ cxCall[w].pc = "reserve"
        /\ cxGen[g].proc # "none"
  <2>1. cxCall[w].pc = "reserve"
    BY DEF Drains
  <2>2. GenOf(w) \in CxGens /\ GenOf(w) # CxNone /\ cxCall[w].gen = GenOf(w)
    BY <2>1, GenOfFacts, CodexClientAssumption DEF HasGeneration, GenOf
  <2>3. QED BY <2>1, <2>2 DEF HasGeneration
<1>2. /\ cxCurrent # g \/ cxGen[g].stale \/ cxGen[g].closing
      /\ UNCHANGED <<cxCurrent, cxClosed, cxStarting, cxWire, cxStream, cxTurn, cxFaults>>
  BY <1>1 DEF Drains
<1>3. /\ cxGen' \in [CxGens -> Generation]
      /\ \A h \in CxGens : MayRetire(cxGen[h], cxGen'[h])
      /\ \A h \in CxGens : h # g => cxGen'[h] = cxGen[h]
      /\ Retires(cxGen[g], g, cxCurrent) => cxGen'[g].tearing
  <2>1. cxGen[g] \in Generation /\ cxGen \in [CxGens -> Generation]
    BY <1>1, GenTypes
  <2>2. cxGen' = [cxGen EXCEPT ![g] = Retired(cxGen[g], g, cxCurrent)]
    BY <1>1 DEF Drains
  <2>3. /\ cxGen' \in [CxGens -> Generation]
        /\ \A h \in CxGens : h # g => cxGen'[h] = cxGen[h]
        /\ MayRetire(cxGen[g], cxGen'[g])
        /\ Retires(cxGen[g], g, cxCurrent) => cxGen'[g].tearing
    BY <1>1, <2>1, <2>2, RetiredFacts
  <2>4. QED BY <2>3 DEF MayRetire
<1>4. /\ cxCall' \in [CxCallers -> Call]
      /\ \A v \in CxCallers : v # w => cxCall'[v] = cxCall[v]
      /\ cxCall'[w].pc = "drain"
      /\ cxCall'[w].reply = cxCall[w].reply /\ cxCall'[w].gen = cxCall[w].gen
      /\ cxCall'[w].known = cxCall[w].known /\ cxCall'[w].answer = cxCall[w].answer
      /\ cxCall'[w].cancelled = cxCall[w].cancelled
  <2>1. Goto(w, "drain")
    BY DEF Drains
  <2>2. QED BY <2>1, GotoFacts DEF Moves, Steps
<1>5. \A h \in CxGens : Turns(h)' = Turns(h)
  BY <1>1, <1>4 DEF Turns, GenOf, Counted, Locked
<1>6. \/ cxGen'[g].done \/ cxGen'[g].tearing \/ cxGen'[g].turns > 0
      \/ \E v \in CxCallers : cxCall[v].cancelled /\ GenOf(v) = g
  <2>1. CASE Retires(cxGen[g], g, cxCurrent)
    BY <1>3, <2>1
  <2>2. CASE HasWork(cxGen[g])
    <3>1. ~\E v \in CxCallers : cxCall[v].pc = "init" /\ GenOf(v) = g
      BY <1>1 DEF OwnGeneration
    <3>2. cxGen'[g].turns = cxGen[g].turns
      BY <1>1, <1>3 DEF MayRetire
    <3>3. QED BY <1>1, <2>2, <3>1, <3>2, WorkMeans
  <2>3. CASE cxGen[g].retired
    <3>1. cxGen[g].tearing \/ cxGen[g].done
      BY <1>1, <2>3 DEF WayOut
    <3>2. QED BY <1>1, <1>3, <2>3, <3>1 DEF MayRetire
  <2>4. QED BY <1>2, <2>1, <2>2, <2>3 DEF Retires
<1>7. \A h \in CxGens : /\ cxGen[h].closing => cxGen'[h].closing
                        /\ cxGen[h].stale => cxGen'[h].stale
  BY <1>3 DEF MayRetire
<1>8. CxShape'
  BY <1>1, <1>2, <1>3, <1>4 DEF CxShape, CxTypeOK
<1>9. InOrder'
  BY <1>1, <1>2, <1>3, <1>4, GenOfFacts DEF InOrder, Spawned, MayRetire
<1>10. NotStarted'
  BY <1>1, <1>2, <1>3, <1>4 DEF NotStarted, MayRetire
<1>11. WayOut'
  BY <1>1, <1>2, <1>3, <1>4, GenOfFacts DEF WayOut, MayRetire
<1>12. Current'
  BY <1>1, <1>2, <1>3, <1>4, GenOfFacts DEF Current, MayRetire
<1>13. UpIsKnown'
  BY <1>1, <1>2, <1>3, <1>4, GenOfFacts DEF UpIsKnown, GenOf, Up, MayRetire
<1>14. StartLock'
  BY <1>1, <1>2, <1>3, <1>4, CodexClientAssumption, GenOfFacts DEF StartLock, Up, CxShape,
    CxTypeOK, MayRetire
<1>15. HasGeneration'
  BY <1>1, <1>2, <1>3, <1>4, CallTypes DEF HasGeneration, GenOf, MayRetire
<1>16. Registering'
  BY <1>1, <1>2, <1>3, <1>4, GenOfFacts DEF Registering, GenOf, MayRetire, OwnGeneration
<1>17. OwnGeneration'
  BY <1>1, <1>2, <1>3, <1>4, CodexClientAssumption, GenOfFacts DEF OwnGeneration, GenOf,
    StartLock, MayRetire
<1>18. TurnsCounted'
  BY <1>1, <1>2, <1>3, <1>4, <1>5, GenOfFacts DEF TurnsCounted, MayRetire
<1>19. ActiveFits'
  BY <1>1, <1>2, <1>3, <1>4, GenTypes, GenOfFacts DEF ActiveFits, GenOf, MayRetire
<1>20. PendingFits'
  BY <1>1, <1>2, <1>3, <1>4, GenTypes, GenOfFacts DEF PendingFits, GenOf, Asked, Methods,
    MayRetire
<1>21. Asked'
  BY <1>1, <1>2, <1>3, <1>4, GenOfFacts DEF Asked, MayRetire
<1>22. WireFits'
  BY <1>1, <1>2, <1>3, <1>4, WireTypes, GenOfFacts DEF WireFits, GenOf, MayRetire
<1>23. RepliesFit'
  BY <1>1, <1>2, <1>3, <1>4, GenOfFacts DEF RepliesFit, MayRetire
<1>24. DrainIsFinal'
  BY <1>1, <1>2, <1>3, <1>4, <1>7, GenOfFacts DEF DrainIsFinal, GenOf
<1>25. DrainEnds'
  BY <1>1, <1>2, <1>3, <1>4, <1>6, GenOfFacts DEF DrainEnds, GenOf, Asked, MayRetire
<1>26. TurnsNotCutShort'
  BY <1>1, <1>2, <1>3, <1>4, CountedHasWork, GenOfFacts DEF TurnsNotCutShort, Locked, GenOf,
    MayRetire, Counted
<1>27. Completed'
  BY <1>1, <1>2, <1>3, <1>4, <1>7, GenOfFacts DEF Completed, GenOf
<1>28. Abandoned'
  BY <1>1, <1>2, <1>3, <1>4, GenOfFacts DEF Abandoned, Asked, GenOf, Up, MayRetire
<1>29. QED BY <1>8, <1>9, <1>10, <1>11, <1>12, <1>13, <1>14, <1>15, <1>16, <1>17, <1>18, <1>19,
            <1>20,
            <1>21, <1>22, <1>23, <1>24, <1>25, <1>26, <1>27, <1>28

\* A turn is counted in its generation, or waits for the generation's end.
LEMMA ReserveStep ==
  ASSUME ClientInv, NEW w \in CxCallers, Reserve(w)
  PROVE  ClientInv'
<1>1. Counts(w) \/ Drains(w)
  BY DEF Reserve, Counts, Drains
<1>2. QED BY <1>1, CountsStep, DrainsStep

\* The outcomes of StartTurn but for a thread that is busy.
Starts(w) ==
  LET g == GenOf(w) IN
  /\ cxCall[w].pc = "open" /\ cxCall[w].reply = "ok" /\ Up(g) /\ ~cxGen[g].closing
  /\ cxGen' = [cxGen EXCEPT ![g].active = @ \cup {w}, ![g].pending = @ \cup {<<w, "turn">>}]
  /\ cxWire' = [cxWire EXCEPT ![g] = @ \cup {<<w, "turn">>}]
  /\ cxCall' = [cxCall EXCEPT ![w].pc = "turn", ![w].reply = "none"]
  /\ UNCHANGED <<cxCurrent, cxClosed, cxStarting, cxStream, cxTurn, cxFaults>>
StartRefused(w) ==
  LET g == GenOf(w) IN
  /\ cxCall[w].pc = "open" /\ cxCall[w].reply = "ok"
  /\ cxGen' = [cxGen EXCEPT ![g].active = @ \cup {w}, ![g].pending = @]
  /\ cxCall' = [cxCall EXCEPT ![w].pc = "leave", ![w].reply = "none"]
  /\ UNCHANGED <<cxCurrent, cxClosed, cxStarting, cxWire, cxStream, cxTurn, cxFaults>>

\* A turn that is started.
LEMMA StartsStep ==
  ASSUME ClientInv, NEW w \in CxCallers, Starts(w)
  PROVE  ClientInv'
<1> USE DEF ClientInv
<1>1. PICK g \in CxGens :
        /\ GenOf(w) = g /\ cxCall[w].gen = g /\ g # CxNone /\ cxCall[w].pc = "open"
        /\ cxGen[g].proc # "none"
  <2>1. cxCall[w].pc = "open"
    BY DEF Starts
  <2>2. GenOf(w) \in CxGens /\ GenOf(w) # CxNone /\ cxCall[w].gen = GenOf(w)
    BY <2>1, GenOfFacts, CodexClientAssumption DEF HasGeneration, GenOf
  <2>3. QED BY <2>1, <2>2 DEF HasGeneration
<1>2. /\ UNCHANGED <<cxCurrent, cxClosed, cxStarting, cxStream, cxTurn, cxFaults>>
      /\ Up(g) /\ ~cxGen[g].closing /\ cxTurn[w] = "none" /\ cxCall[w].reply = "ok"
      /\ cxWire' \in [CxGens -> SUBSET Ordered]
      /\ \A h \in CxGens : h # g => cxWire'[h] = cxWire[h]
      /\ cxWire'[g] = cxWire[g] \cup {<<w, "turn">>}
  <2>1. cxWire' = [cxWire EXCEPT ![g] = cxWire[g] \cup {<<w, "turn">>}]
    BY <1>1 DEF Starts
  <2>2. cxWire \in [CxGens -> SUBSET Ordered] /\ <<w, "turn">> \in Ordered
    BY DEF CxShape, CxTypeOK, Ordered
  <2>3. cxTurn[w] = "none"
    BY <1>1 DEF Asked
  <2>4. QED BY <1>1, <2>1, <2>2, <2>3 DEF Starts
<1>3. /\ cxGen' \in [CxGens -> Generation]
      /\ \A h \in CxGens : h # g => cxGen'[h] = cxGen[h]
      /\ cxGen'[g].proc = cxGen[g].proc /\ cxGen'[g].listed = cxGen[g].listed
      /\ cxGen'[g].closing = cxGen[g].closing /\ cxGen'[g].stale = cxGen[g].stale
      /\ cxGen'[g].retired = cxGen[g].retired /\ cxGen'[g].done = cxGen[g].done
      /\ cxGen'[g].turns = cxGen[g].turns /\ cxGen'[g].watched = cxGen[g].watched
      /\ cxGen'[g].eof = cxGen[g].eof /\ cxGen'[g].tearing = cxGen[g].tearing
      /\ cxGen'[g].active = cxGen[g].active \cup {w}
      /\ cxGen'[g].pending = cxGen[g].pending \cup {<<w, "turn">>}
  <2>1. /\ cxGen[g] \in Generation /\ cxGen \in [CxGens -> Generation]
        /\ cxGen[g].active \cup {w} \in SUBSET CxCallers
        /\ cxGen[g].pending \cup {<<w, "turn">>} \in SUBSET Requests
    BY <1>1, GenTypes DEF Requests, Methods
  <2>2. cxGen' = [cxGen EXCEPT ![g].active = cxGen[g].active \cup {w},
                               ![g].pending = cxGen[g].pending \cup {<<w, "turn">>}]
    BY <1>1 DEF Starts
  <2>3. QED BY <1>1, <2>1, <2>2 DEF Generation
<1>4. /\ cxCall' \in [CxCallers -> Call]
      /\ \A v \in CxCallers : v # w => cxCall'[v] = cxCall[v]
      /\ cxCall'[w].pc = "turn" /\ cxCall'[w].reply = "none" /\ cxCall'[w].gen = cxCall[w].gen
      /\ cxCall'[w].known = cxCall[w].known /\ cxCall'[w].answer = cxCall[w].answer
      /\ cxCall'[w].cancelled = cxCall[w].cancelled
  <2>1. cxCall \in [CxCallers -> Call] /\ cxCall[w] \in Call
    BY CallTypes
  <2>2. cxCall' = [cxCall EXCEPT ![w].pc = "turn", ![w].reply = "none"]
    BY DEF Starts
  <2>3. QED BY <2>1, <2>2 DEF Call
<1>5. \A h \in CxGens : Turns(h)' = Turns(h)
  BY <1>1, <1>4 DEF Turns, GenOf, Counted, Locked
<1>6. \A h \in CxGens : cxGen'[h].proc = cxGen[h].proc /\ cxGen'[h].closing = cxGen[h].closing
  BY <1>3
<1>7. CxShape'
  BY <1>1, <1>2, <1>3, <1>4 DEF CxShape, CxTypeOK
<1>8. InOrder'
  BY <1>1, <1>2, <1>3, <1>4, GenOfFacts DEF InOrder, Spawned
<1>9. NotStarted'
  BY <1>1, <1>2, <1>3, <1>4 DEF NotStarted, Up
<1>10. WayOut'
  BY <1>1, <1>2, <1>3, <1>4, GenOfFacts DEF WayOut
<1>11. Current'
  BY <1>1, <1>2, <1>3, <1>4, GenOfFacts DEF Current
<1>12. UpIsKnown'
  BY <1>1, <1>2, <1>3, <1>4, GenOfFacts DEF UpIsKnown, GenOf, Up
<1>13. StartLock'
  BY <1>1, <1>2, <1>3, <1>4, <1>6, CodexClientAssumption DEF StartLock, Up, CxShape, CxTypeOK
<1>14. HasGeneration'
  BY <1>1, <1>2, <1>3, <1>4, CallTypes DEF HasGeneration, GenOf
<1>15. Registering'
  BY <1>1, <1>2, <1>3, <1>4, GenOfFacts DEF Registering, GenOf
<1>16. OwnGeneration'
  BY <1>1, <1>2, <1>3, <1>4, CodexClientAssumption, GenOfFacts DEF OwnGeneration, GenOf, StartLock
<1>17. TurnsCounted'
  BY <1>1, <1>2, <1>3, <1>4, <1>5, GenOfFacts DEF TurnsCounted
<1>18. ActiveFits'
  BY <1>1, <1>2, <1>3, <1>4, GenTypes, GenOfFacts DEF ActiveFits, GenOf
<1>19. PendingFits'
  BY <1>1, <1>2, <1>3, <1>4, GenTypes DEF PendingFits, GenOf, Asked, Methods, Requests
<1>20. Asked'
  BY <1>1, <1>2, <1>3, <1>4, GenOfFacts DEF Asked
<1>21. WireFits'
  BY <1>1, <1>2, <1>3, <1>4, WireTypes, GenOfFacts DEF WireFits, GenOf
<1>22. RepliesFit'
  BY <1>1, <1>2, <1>3, <1>4, GenOfFacts DEF RepliesFit
<1>23. DrainIsFinal'
  BY <1>1, <1>2, <1>3, <1>4, GenOfFacts DEF DrainIsFinal, GenOf
<1>24. DrainEnds'
  BY <1>1, <1>2, <1>3, <1>4, GenOfFacts DEF DrainEnds, GenOf, Asked
<1>25. TurnsNotCutShort'
  BY <1>1, <1>2, <1>3, <1>4, GenOfFacts DEF TurnsNotCutShort, Locked, GenOf
<1>26. Completed'
  BY <1>1, <1>2, <1>3, <1>4, <1>6, CompletedKept DEF ClientInv
<1>27. Abandoned'
  BY <1>1, <1>2, <1>3, <1>4, GenOfFacts DEF Abandoned, Asked, GenOf, Up
<1>28. QED BY <1>7, <1>8, <1>9, <1>10, <1>11, <1>12, <1>13, <1>14, <1>15, <1>16, <1>17, <1>18,
            <1>19,
            <1>20, <1>21, <1>22, <1>23, <1>24, <1>25, <1>26, <1>27

\* A turn that its process does not take any more.
LEMMA StartRefusedStep ==
  ASSUME ClientInv, NEW w \in CxCallers, StartRefused(w)
  PROVE  ClientInv'
<1> USE DEF ClientInv
<1>1. PICK g \in CxGens :
        /\ GenOf(w) = g /\ cxCall[w].gen = g /\ g # CxNone /\ cxCall[w].pc = "open"
        /\ cxGen[g].proc # "none"
  <2>1. cxCall[w].pc = "open"
    BY DEF StartRefused
  <2>2. GenOf(w) \in CxGens /\ GenOf(w) # CxNone /\ cxCall[w].gen = GenOf(w)
    BY <2>1, GenOfFacts, CodexClientAssumption DEF HasGeneration, GenOf
  <2>3. QED BY <2>1, <2>2 DEF HasGeneration
<1>2. UNCHANGED <<cxCurrent, cxClosed, cxStarting, cxWire, cxStream, cxTurn, cxFaults>>
      /\ cxCall[w].reply = "ok"
  BY DEF StartRefused
<1>3. /\ cxGen' \in [CxGens -> Generation]
      /\ \A h \in CxGens : h # g => cxGen'[h] = cxGen[h]
      /\ cxGen'[g].proc = cxGen[g].proc /\ cxGen'[g].listed = cxGen[g].listed
      /\ cxGen'[g].closing = cxGen[g].closing /\ cxGen'[g].stale = cxGen[g].stale
      /\ cxGen'[g].retired = cxGen[g].retired /\ cxGen'[g].done = cxGen[g].done
      /\ cxGen'[g].turns = cxGen[g].turns /\ cxGen'[g].watched = cxGen[g].watched
      /\ cxGen'[g].eof = cxGen[g].eof /\ cxGen'[g].tearing = cxGen[g].tearing
      /\ cxGen'[g].active = cxGen[g].active \cup {w}
      /\ cxGen'[g].pending = cxGen[g].pending
  <2>1. /\ cxGen[g] \in Generation /\ cxGen \in [CxGens -> Generation]
        /\ cxGen[g].active \cup {w} \in SUBSET CxCallers
        /\ cxGen[g].pending \in SUBSET Requests
    BY <1>1, GenTypes DEF Requests, Methods
  <2>2. cxGen' = [cxGen EXCEPT ![g].active = cxGen[g].active \cup {w},
                               ![g].pending = cxGen[g].pending]
    BY <1>1 DEF StartRefused
  <2>3. QED BY <1>1, <2>1, <2>2 DEF Generation
<1>4. /\ cxCall' \in [CxCallers -> Call]
      /\ \A v \in CxCallers : v # w => cxCall'[v] = cxCall[v]
      /\ cxCall'[w].pc = "leave" /\ cxCall'[w].reply = "none" /\ cxCall'[w].gen = cxCall[w].gen
      /\ cxCall'[w].known = cxCall[w].known /\ cxCall'[w].answer = cxCall[w].answer
      /\ cxCall'[w].cancelled = cxCall[w].cancelled
  <2>1. cxCall \in [CxCallers -> Call] /\ cxCall[w] \in Call
    BY CallTypes
  <2>2. cxCall' = [cxCall EXCEPT ![w].pc = "leave", ![w].reply = "none"]
    BY DEF StartRefused
  <2>3. QED BY <2>1, <2>2 DEF Call
<1>5. \A h \in CxGens : Turns(h)' = Turns(h)
  BY <1>1, <1>4 DEF Turns, GenOf, Counted, Locked
<1>6. \A h \in CxGens : cxGen'[h].proc = cxGen[h].proc /\ cxGen'[h].closing = cxGen[h].closing
  BY <1>3
<1>7. CxShape'
  BY <1>1, <1>2, <1>3, <1>4 DEF CxShape, CxTypeOK
<1>8. InOrder'
  BY <1>1, <1>2, <1>3, <1>4, GenOfFacts DEF InOrder, Spawned
<1>9. NotStarted'
  BY <1>1, <1>2, <1>3, <1>4 DEF NotStarted
<1>10. WayOut'
  BY <1>1, <1>2, <1>3, <1>4, GenOfFacts DEF WayOut
<1>11. Current'
  BY <1>1, <1>2, <1>3, <1>4, GenOfFacts DEF Current
<1>12. UpIsKnown'
  BY <1>1, <1>2, <1>3, <1>4, GenOfFacts DEF UpIsKnown, GenOf, Up
<1>13. StartLock'
  BY <1>1, <1>2, <1>3, <1>4, <1>6, CodexClientAssumption DEF StartLock, Up, CxShape, CxTypeOK
<1>14. HasGeneration'
  BY <1>1, <1>2, <1>3, <1>4, CallTypes DEF HasGeneration, GenOf
<1>15. Registering'
  BY <1>1, <1>2, <1>3, <1>4, GenOfFacts DEF Registering, GenOf
<1>16. OwnGeneration'
  BY <1>1, <1>2, <1>3, <1>4, CodexClientAssumption, GenOfFacts DEF OwnGeneration, GenOf, StartLock
<1>17. TurnsCounted'
  BY <1>1, <1>2, <1>3, <1>4, <1>5, GenOfFacts DEF TurnsCounted
<1>18. ActiveFits'
  BY <1>1, <1>2, <1>3, <1>4, GenTypes, GenOfFacts DEF ActiveFits, GenOf
<1>19. PendingFits'
  BY <1>1, <1>2, <1>3, <1>4, GenTypes DEF PendingFits, GenOf, Asked, Methods, Requests
<1>20. Asked'
  BY <1>1, <1>2, <1>3, <1>4, GenOfFacts DEF Asked
<1>21. WireFits'
  BY <1>1, <1>2, <1>3, <1>4, WireTypes, GenOfFacts DEF WireFits, GenOf
<1>22. RepliesFit'
  BY <1>1, <1>2, <1>3, <1>4, GenOfFacts DEF RepliesFit
<1>23. DrainIsFinal'
  BY <1>1, <1>2, <1>3, <1>4, GenOfFacts DEF DrainIsFinal, GenOf
<1>24. DrainEnds'
  BY <1>1, <1>2, <1>3, <1>4, GenOfFacts DEF DrainEnds, GenOf, Asked
<1>25. TurnsNotCutShort'
  BY <1>1, <1>2, <1>3, <1>4, GenOfFacts DEF TurnsNotCutShort, Locked, GenOf
<1>26. Completed'
  BY <1>1, <1>2, <1>3, <1>4, <1>6, CompletedKept DEF ClientInv
<1>27. Abandoned'
  BY <1>1, <1>2, <1>3, <1>4, GenOfFacts DEF Abandoned, Asked, GenOf, Up
<1>28. QED BY <1>7, <1>8, <1>9, <1>10, <1>11, <1>12, <1>13, <1>14, <1>15, <1>16, <1>17, <1>18,
            <1>19,
            <1>20, <1>21, <1>22, <1>23, <1>24, <1>25, <1>26, <1>27

\* A turn is started, or its thread is still in use.
LEMMA StartTurnStep ==
  ASSUME ClientInv, NEW w \in CxCallers, StartTurn(w)
  PROVE  ClientInv'
<1> DEFINE g == GenOf(w)
           sends == Up(g) /\ ~cxGen[g].closing
<1>1. \/ /\ cxGen' = [cxGen EXCEPT ![g].active = @ \cup {w},
                                   ![g].pending = IF sends THEN @ \cup {<<w, "turn">>} ELSE @]
         /\ cxWire' = [cxWire EXCEPT ![g] = IF sends THEN @ \cup {<<w, "turn">>} ELSE @]
         /\ cxCall' = [cxCall EXCEPT ![w].pc = IF sends THEN "turn" ELSE "leave",
                                     ![w].reply = "none"]
      \/ Goto(w, "leave") /\ UNCHANGED <<cxGen, cxWire>>
  BY DEF StartTurn
<1>2. /\ cxCall[w].pc = "open" /\ cxCall[w].reply = "ok"
      /\ UNCHANGED <<cxCurrent, cxClosed, cxStarting, cxStream, cxTurn, cxFaults>>
  BY DEF StartTurn
<1>3. CASE Goto(w, "leave") /\ UNCHANGED <<cxGen, cxWire>>
  <2>1. CxShape
    BY DEF ClientInv
  <2>2. Quiet(w)
    BY <1>2, <1>3, <2>1, GotoFacts DEF Quiet, Moves, Steps
  <2>3. QED BY <2>2, QuietStep
<1>4. CASE ~(Goto(w, "leave") /\ UNCHANGED <<cxGen, cxWire>>)
  <2>1. CASE sends
    <3>1. Starts(w)
      BY <1>1, <1>2, <1>4, <2>1 DEF Starts
    <3>2. QED BY <3>1, StartsStep
  <2>2. CASE ~sends
    <3>1. UNCHANGED cxWire
      <4>1. cxWire \in [CxGens -> SUBSET Ordered]
        BY DEF ClientInv, CxShape, CxTypeOK
      <4>2. cxWire' = [cxWire EXCEPT ![g] = cxWire[g]]
        BY <1>1, <1>4, <2>2
      <4>3. QED BY <4>1, <4>2
    <3>2. StartRefused(w)
      BY <1>1, <1>2, <1>4, <2>2, <3>1 DEF StartRefused
    <3>3. QED BY <3>2, StartRefusedStep
  <2>3. QED BY <2>1, <2>2
<1>5. QED BY <1>3, <1>4

\* A thread is resumed under its lock.
LEMMA OpenStep ==
  ASSUME ClientInv, NEW w \in CxCallers, Open(w)
  PROVE  ClientInv'
<1>1. cxCall[w].pc = "lock" /\ Send(w, "open", "leave")
  BY DEF Open
<1>2. QED BY <1>1, SendStep, RefusedStep DEF Methods

\* A turn is given up.
LEMMA AbandonStep ==
  ASSUME ClientInv, NEW w \in CxCallers, Abandon(w)
  PROVE  ClientInv'
<1>1. CASE Send(w, "stop", "leave")
  <2>1. cxCall[w].pc = "wait"
    BY DEF Abandon
  <2>2. QED BY <1>1, <2>1, SendStep, RefusedStep DEF Methods
<1>2. CASE ~Send(w, "stop", "leave")
  <2>1. /\ cxCall[w].pc = "wait" /\ cxCall[w].answer # NoAnswer /\ Goto(w, "leave")
        /\ UNCHANGED <<cxGen, cxCurrent, cxClosed, cxStarting, cxWire, cxStream, cxTurn, cxFaults>>
    BY <1>2 DEF Abandon, StopsTurn
  <2>2. CxShape
    BY DEF ClientInv
  <2>3. Quiet(w)
    BY <2>1, <2>2, GotoFacts DEF Quiet, Moves, Steps
  <2>4. QED BY <2>3, QuietStep
<1>3. QED BY <1>1, <1>2

\* A request that is not answered in time.
LEMMA RequestTimesOutStep ==
  ASSUME ClientInv, NEW w \in CxCallers, RequestTimesOut(w)
  PROVE  ClientInv'
<1> USE DEF ClientInv
<1>1. PICK g \in CxGens :
        /\ GenOf(w) = g /\ cxCall[w].gen = g
        /\ cxCall[w].pc \in {"init", "open", "turn", "stop"}
  <2>1. cxCall[w].pc \in {"init", "open", "turn", "stop"}
    BY DEF RequestTimesOut
  <2>2. QED BY <2>1, GenOfFacts DEF GenOf
<1>2. UNCHANGED <<cxCurrent, cxClosed, cxStarting, cxWire, cxStream, cxTurn>>
      /\ cxFaults' \in 0..CxMaxFaults
  BY CodexClientAssumption DEF RequestTimesOut, Fault, CxShape, CxTypeOK
<1> DEFINE P == cxGen[g].pending \ {<<w, cxCall[w].pc>>}
<1>3. /\ cxGen' \in [CxGens -> Generation]
      /\ \A h \in CxGens : h # g => cxGen'[h] = cxGen[h]
      /\ cxGen'[g].proc = cxGen[g].proc /\ cxGen'[g].listed = cxGen[g].listed
      /\ cxGen'[g].closing = cxGen[g].closing /\ cxGen'[g].stale = cxGen[g].stale
      /\ cxGen'[g].retired = cxGen[g].retired /\ cxGen'[g].done = cxGen[g].done
      /\ cxGen'[g].turns = cxGen[g].turns /\ cxGen'[g].watched = cxGen[g].watched
      /\ cxGen'[g].eof = cxGen[g].eof /\ cxGen'[g].tearing = cxGen[g].tearing
      /\ cxGen'[g].active = cxGen[g].active
      /\ cxGen'[g].pending = P
  <2>1. P \in SUBSET Requests
    BY <1>1, GenTypes DEF Requests, Methods
  <2>2. cxGen' = [cxGen EXCEPT ![g].pending = P]
    BY <1>1 DEF RequestTimesOut
  <2> HIDE DEF P
  <2>3. QED BY <2>1, <2>2, PendingFacts
<1>4. /\ cxCall' \in [CxCallers -> Call]
      /\ \A v \in CxCallers : v # w => cxCall'[v] = cxCall[v]
      /\ cxCall'[w].pc = cxCall[w].pc /\ cxCall'[w].gen = cxCall[w].gen
      /\ cxCall'[w].known = cxCall[w].known /\ cxCall'[w].answer = cxCall[w].answer
      /\ cxCall'[w].cancelled = cxCall[w].cancelled /\ cxCall'[w].reply = "error"
  <2>1. cxCall \in [CxCallers -> Call] /\ cxCall[w] \in Call
    BY CallTypes
  <2>2. cxCall' = [cxCall EXCEPT ![w].reply = "error"]
    BY DEF RequestTimesOut
  <2>3. QED BY <2>1, <2>2 DEF Call
<1>5. \A h \in CxGens : Turns(h)' = Turns(h)
  BY <1>1, <1>4 DEF Turns, GenOf, Counted, Locked
<1>6. \A h \in CxGens : cxGen'[h].proc = cxGen[h].proc /\ cxGen'[h].closing = cxGen[h].closing
  BY <1>3
<1>7. CxShape'
  BY <1>1, <1>2, <1>3, <1>4 DEF CxShape, CxTypeOK
<1>8. InOrder'
  BY <1>1, <1>2, <1>3, <1>4, GenOfFacts DEF InOrder, Spawned
<1>9. NotStarted'
  BY <1>1, <1>2, <1>3, <1>4 DEF NotStarted, HasGeneration
<1>10. WayOut'
  BY <1>1, <1>2, <1>3, <1>4, GenOfFacts DEF WayOut
<1>11. Current'
  BY <1>1, <1>2, <1>3, <1>4, GenOfFacts DEF Current
<1>12. UpIsKnown'
  BY <1>1, <1>2, <1>3, <1>4, GenOfFacts DEF UpIsKnown, GenOf, Up
<1>13. StartLock'
  BY <1>1, <1>2, <1>3, <1>4, <1>6, CodexClientAssumption DEF StartLock, Up, CxShape, CxTypeOK
<1>14. HasGeneration'
  BY <1>1, <1>2, <1>3, <1>4, CallTypes DEF HasGeneration, GenOf
<1>15. Registering'
  BY <1>1, <1>2, <1>3, <1>4, GenOfFacts DEF Registering, GenOf
<1>16. OwnGeneration'
  BY <1>1, <1>2, <1>3, <1>4, CodexClientAssumption, GenOfFacts DEF OwnGeneration, GenOf, StartLock
<1>17. TurnsCounted'
  BY <1>1, <1>2, <1>3, <1>4, <1>5, GenOfFacts DEF TurnsCounted
<1>18. ActiveFits'
  BY <1>1, <1>2, <1>3, <1>4, GenTypes, GenOfFacts DEF ActiveFits, GenOf
<1>19. PendingFits'
  <2>1. SUFFICES ASSUME NEW h \in CxGens, NEW r \in cxGen'[h].pending
                 PROVE  /\ GenOf(r[1])' = h
                        /\ r[2] # "cancel" => cxCall'[r[1]].pc = r[2]
                           /\ cxCall'[r[1]].reply = "none"
                        /\ r[2] = "cancel" => cxCall'[r[1]].cancelled
    BY DEF PendingFits
  <2>2. r \in cxGen[h].pending /\ (h = g => r # <<w, cxCall[w].pc>>)
    BY <1>3
  <2>3. r[1] \in CxCallers /\ r = <<r[1], r[2]>>
    BY <2>2, GenTypes DEF Requests
  <2>4. /\ GenOf(r[1]) = h
        /\ r[2] # "cancel" => cxCall[r[1]].pc = r[2] /\ cxCall[r[1]].reply = "none"
        /\ r[2] = "cancel" => cxCall[r[1]].cancelled
    BY <2>2 DEF PendingFits
  <2>5. QED BY <1>1, <1>4, <2>2, <2>3, <2>4 DEF GenOf
<1>20. Asked'
  BY <1>1, <1>2, <1>3, <1>4, GenOfFacts DEF Asked
<1>21. WireFits'
  BY <1>1, <1>2, <1>3, <1>4, WireTypes, GenOfFacts DEF WireFits, GenOf
<1>22. RepliesFit'
  BY <1>1, <1>2, <1>3, <1>4, GenOfFacts DEF RepliesFit
<1>23. DrainIsFinal'
  BY <1>1, <1>2, <1>3, <1>4, GenOfFacts DEF DrainIsFinal, GenOf
<1>24. DrainEnds'
  BY <1>1, <1>2, <1>3, <1>4, GenOfFacts DEF DrainEnds, GenOf, Asked
<1>25. TurnsNotCutShort'
  BY <1>1, <1>2, <1>3, <1>4, GenOfFacts DEF TurnsNotCutShort, Locked, GenOf
<1>26. Completed'
  BY <1>1, <1>2, <1>3, <1>4, <1>6, CompletedKept DEF ClientInv
<1>27. Abandoned'
  BY <1>1, <1>2, <1>3, <1>4, GenOfFacts DEF Abandoned, Asked, GenOf, Up
<1>28. QED BY <1>7, <1>8, <1>9, <1>10, <1>11, <1>12, <1>13, <1>14, <1>15, <1>16, <1>17, <1>18,
            <1>19,
            <1>20, <1>21, <1>22, <1>23, <1>24, <1>25, <1>26, <1>27

\* An interrupt of the author.
LEMMA AuthorInterruptsStep ==
  ASSUME ClientInv, NEW w \in CxCallers, AuthorInterrupts(w)
  PROVE  ClientInv'
<1> USE DEF ClientInv
<1>1. PICK g \in CxGens :
        /\ GenOf(w) = g /\ cxCall[w].gen = g /\ Up(g) /\ ~cxGen[g].closing
        /\ w \in cxGen[g].active /\ cxCall[w].known
        /\ cxCall[w].pc \in {"turn", "wait", "stop", "leave"}
  <2>1. cxCall[w].known
    BY DEF AuthorInterrupts
  <2>2. GenOf(w) \in CxGens /\ cxCall[w].gen = GenOf(w)
    BY <2>1, GenOfFacts DEF GenOf
  <2>3. Up(GenOf(w)) /\ ~cxGen[GenOf(w)].closing /\ w \in cxGen[GenOf(w)].active
    BY DEF AuthorInterrupts
  <2>4. QED BY <2>1, <2>2, <2>3 DEF ActiveFits
<1>2. /\ UNCHANGED <<cxCurrent, cxClosed, cxStarting, cxStream, cxTurn, cxFaults>>
      /\ cxWire' \in [CxGens -> SUBSET Ordered]
      /\ \A h \in CxGens : h # g => cxWire'[h] = cxWire[h]
      /\ cxWire'[g] = cxWire[g] \cup {<<w, "cancel">>}
  <2>1. cxWire' = [cxWire EXCEPT ![g] = cxWire[g] \cup {<<w, "cancel">>}]
    BY <1>1 DEF AuthorInterrupts
  <2>2. cxWire \in [CxGens -> SUBSET Ordered] /\ <<w, "cancel">> \in Ordered
    BY DEF CxShape, CxTypeOK, Ordered
  <2>3. QED BY <1>1, <2>1, <2>2 DEF AuthorInterrupts
<1> DEFINE P == cxGen[g].pending \cup {<<w, "cancel">>}
<1>3. /\ cxGen' \in [CxGens -> Generation]
      /\ \A h \in CxGens : h # g => cxGen'[h] = cxGen[h]
      /\ cxGen'[g].proc = cxGen[g].proc /\ cxGen'[g].listed = cxGen[g].listed
      /\ cxGen'[g].closing = cxGen[g].closing /\ cxGen'[g].stale = cxGen[g].stale
      /\ cxGen'[g].retired = cxGen[g].retired /\ cxGen'[g].done = cxGen[g].done
      /\ cxGen'[g].turns = cxGen[g].turns /\ cxGen'[g].watched = cxGen[g].watched
      /\ cxGen'[g].eof = cxGen[g].eof /\ cxGen'[g].tearing = cxGen[g].tearing
      /\ cxGen'[g].active = cxGen[g].active
      /\ cxGen'[g].pending = P
  <2>1. P \in SUBSET Requests
    BY <1>1, GenTypes DEF Requests, Methods
  <2>2. cxGen' = [cxGen EXCEPT ![g].pending = P]
    BY <1>1 DEF AuthorInterrupts
  <2> HIDE DEF P
  <2>3. QED BY <2>1, <2>2, PendingFacts
<1>4. /\ cxCall' \in [CxCallers -> Call]
      /\ \A v \in CxCallers : v # w => cxCall'[v] = cxCall[v]
      /\ cxCall'[w].pc = cxCall[w].pc /\ cxCall'[w].gen = cxCall[w].gen
      /\ cxCall'[w].known = cxCall[w].known /\ cxCall'[w].answer = cxCall[w].answer
      /\ cxCall'[w].cancelled = TRUE /\ cxCall'[w].reply = cxCall[w].reply
  <2>1. cxCall \in [CxCallers -> Call] /\ cxCall[w] \in Call
    BY CallTypes
  <2>2. cxCall' = [cxCall EXCEPT ![w].cancelled = TRUE]
    BY DEF AuthorInterrupts
  <2>3. QED BY <2>1, <2>2 DEF Call
<1>5. \A h \in CxGens : Turns(h)' = Turns(h)
  BY <1>1, <1>4 DEF Turns, GenOf, Counted, Locked
<1>6. \A h \in CxGens : cxGen'[h].proc = cxGen[h].proc /\ cxGen'[h].closing = cxGen[h].closing
  BY <1>3
<1>7. CxShape'
  BY <1>1, <1>2, <1>3, <1>4 DEF CxShape, CxTypeOK
<1>8. InOrder'
  BY <1>1, <1>2, <1>3, <1>4, GenOfFacts DEF InOrder, Spawned
<1>9. NotStarted'
  BY <1>1, <1>2, <1>3, <1>4 DEF NotStarted, Up
<1>10. WayOut'
  BY <1>1, <1>2, <1>3, <1>4, GenOfFacts DEF WayOut
<1>11. Current'
  BY <1>1, <1>2, <1>3, <1>4, GenOfFacts DEF Current
<1>12. UpIsKnown'
  BY <1>1, <1>2, <1>3, <1>4, GenOfFacts DEF UpIsKnown, GenOf, Up
<1>13. StartLock'
  BY <1>1, <1>2, <1>3, <1>4, <1>6, CodexClientAssumption DEF StartLock, Up, CxShape, CxTypeOK
<1>14. HasGeneration'
  BY <1>1, <1>2, <1>3, <1>4, CallTypes DEF HasGeneration, GenOf
<1>15. Registering'
  BY <1>1, <1>2, <1>3, <1>4, GenOfFacts DEF Registering, GenOf
<1>16. OwnGeneration'
  BY <1>1, <1>2, <1>3, <1>4, CodexClientAssumption, GenOfFacts DEF OwnGeneration, GenOf, StartLock
<1>17. TurnsCounted'
  BY <1>1, <1>2, <1>3, <1>4, <1>5, GenOfFacts DEF TurnsCounted
<1>18. ActiveFits'
  BY <1>1, <1>2, <1>3, <1>4, GenTypes, GenOfFacts DEF ActiveFits, GenOf
<1>19. PendingFits'
  BY <1>1, <1>2, <1>3, <1>4, GenTypes DEF PendingFits, GenOf, Asked, Methods, Requests
<1>20. Asked'
  BY <1>1, <1>2, <1>4 DEF Asked
<1>21. WireFits'
  BY <1>1, <1>2, <1>3, <1>4, WireTypes, GenOfFacts DEF WireFits, GenOf
<1>22. RepliesFit'
  BY <1>1, <1>2, <1>3, <1>4, GenOfFacts DEF RepliesFit
<1>23. DrainIsFinal'
  BY <1>1, <1>2, <1>3, <1>4, GenOfFacts DEF DrainIsFinal, GenOf
<1>24. DrainEnds'
  BY <1>1, <1>2, <1>3, <1>4, GenOfFacts DEF DrainEnds, GenOf, Asked
<1>25. TurnsNotCutShort'
  BY <1>1, <1>2, <1>3, <1>4, GenOfFacts DEF TurnsNotCutShort, Locked, GenOf
<1>26. Completed'
  BY <1>1, <1>2, <1>3, <1>4, <1>6, CompletedKept DEF ClientInv
<1>27. Abandoned'
  BY <1>1, <1>2, <1>3, <1>4, GenOfFacts DEF Abandoned, Asked, GenOf, Up
<1>28. QED BY <1>7, <1>8, <1>9, <1>10, <1>11, <1>12, <1>13, <1>14, <1>15, <1>16, <1>17, <1>18,
            <1>19,
            <1>20, <1>21, <1>22, <1>23, <1>24, <1>25, <1>26, <1>27

\* An interrupt that is not answered in time.
LEMMA AuthorGivesUpStep ==
  ASSUME ClientInv, NEW w \in CxCallers, NEW g \in CxGens, AuthorGivesUp(w, g)
  PROVE  ClientInv'
<1> USE DEF ClientInv
<1>1. UNCHANGED <<cxCurrent, cxClosed, cxStarting, cxCall, cxWire, cxStream, cxTurn, cxFaults>>
      /\ <<w, "cancel">> \in cxGen[g].pending
  BY DEF AuthorGivesUp
<1> DEFINE P == cxGen[g].pending \ {<<w, "cancel">>}
<1>2. /\ cxGen' \in [CxGens -> Generation]
      /\ \A h \in CxGens : h # g => cxGen'[h] = cxGen[h]
      /\ cxGen'[g].proc = cxGen[g].proc /\ cxGen'[g].listed = cxGen[g].listed
      /\ cxGen'[g].closing = cxGen[g].closing /\ cxGen'[g].stale = cxGen[g].stale
      /\ cxGen'[g].retired = cxGen[g].retired /\ cxGen'[g].done = cxGen[g].done
      /\ cxGen'[g].turns = cxGen[g].turns /\ cxGen'[g].watched = cxGen[g].watched
      /\ cxGen'[g].eof = cxGen[g].eof /\ cxGen'[g].tearing = cxGen[g].tearing
      /\ cxGen'[g].active = cxGen[g].active
      /\ cxGen'[g].pending = P
  <2>1. P \in SUBSET Requests
    BY GenTypes
  <2>2. cxGen' = [cxGen EXCEPT ![g].pending = P]
    BY DEF AuthorGivesUp
  <2> HIDE DEF P
  <2>3. QED BY <2>1, <2>2, PendingFacts
<1>3. \A h \in CxGens : Turns(h)' = Turns(h)
  BY <1>1 DEF Turns, GenOf
<1>4. CxShape'
  BY <1>1, <1>2 DEF CxShape, CxTypeOK
<1>5. InOrder'
  BY <1>1, <1>2, GenOfFacts DEF InOrder, Spawned
<1>6. NotStarted'
  BY <1>1, <1>2 DEF NotStarted, NoGeneration
<1>7. WayOut'
  BY <1>1, <1>2, GenOfFacts DEF WayOut
<1>8. Current'
  BY <1>1, <1>2, GenOfFacts DEF Current
<1>9. UpIsKnown'
  BY <1>1, <1>2, GenOfFacts DEF UpIsKnown, GenOf, Up
<1>10. StartLock'
  BY <1>1, <1>2, CodexClientAssumption DEF StartLock, Up, CxShape, CxTypeOK
<1>11. HasGeneration'
  BY <1>1, <1>2, CallTypes DEF HasGeneration, GenOf
<1>12. Registering'
  BY <1>1, <1>2, GenOfFacts DEF Registering, GenOf
<1>13. OwnGeneration'
  BY <1>1, <1>2, CodexClientAssumption, GenOfFacts DEF OwnGeneration, GenOf, StartLock
<1>14. TurnsCounted'
  BY <1>1, <1>2, <1>3, GenOfFacts DEF TurnsCounted
<1>15. ActiveFits'
  BY <1>1, <1>2, GenTypes, GenOfFacts DEF ActiveFits, GenOf
<1>16. PendingFits'
  BY <1>1, <1>2, GenTypes DEF PendingFits, GenOf, Asked, Methods
<1>17. Asked'
  BY <1>1, <1>2, <1>4 DEF Asked
<1>18. WireFits'
  BY <1>1, <1>2, WireTypes, GenOfFacts DEF WireFits, GenOf
<1>19. RepliesFit'
  BY <1>1, <1>2, GenOfFacts DEF RepliesFit
<1>20. DrainIsFinal'
  BY <1>1, <1>2, GenOfFacts DEF DrainIsFinal, GenOf
<1>21. DrainEnds'
  BY <1>1, <1>2, GenOfFacts DEF DrainEnds, GenOf, Asked
<1>22. TurnsNotCutShort'
  BY <1>1, <1>2, GenOfFacts DEF TurnsNotCutShort, Locked, GenOf
<1>23. Completed'
  BY <1>1, <1>2, CompletedKept DEF ClientInv
<1>24. Abandoned'
  BY <1>1, <1>2, GenOfFacts DEF Abandoned, Asked, GenOf, Up
<1>25. QED BY <1>4, <1>5, <1>6, <1>7, <1>8, <1>9, <1>10, <1>11, <1>12, <1>13, <1>14, <1>15,
            <1>16,
            <1>17, <1>18, <1>19, <1>20, <1>21, <1>22, <1>23, <1>24

\* A turn that leaves its generation.
LEMMA LeaveStep ==
  ASSUME ClientInv, NEW w \in CxCallers, Leave(w)
  PROVE  ClientInv'
<1> USE DEF ClientInv
<1>1. PICK g \in CxGens :
        /\ GenOf(w) = g /\ cxCall[w].gen = g /\ g # CxNone /\ cxCall[w].pc = "leave"
        /\ cxGen[g].proc # "none"
  <2>1. cxCall[w].pc = "leave"
    BY DEF Leave
  <2>2. GenOf(w) \in CxGens /\ GenOf(w) # CxNone /\ cxCall[w].gen = GenOf(w)
    BY <2>1, GenOfFacts, CodexClientAssumption DEF HasGeneration, GenOf
  <2>3. QED BY <2>1, <2>2 DEF HasGeneration
<1>2. UNCHANGED <<cxCurrent, cxClosed, cxStarting, cxWire, cxStream, cxTurn, cxFaults>>
  BY DEF Leave
<1> DEFINE x == [cxGen[g] EXCEPT !.active = cxGen[g].active \ {w}, !.turns = cxGen[g].turns - 1]
<1>3. /\ x \in Generation
      /\ x.active = cxGen[g].active \ {w} /\ x.turns = cxGen[g].turns - 1 /\ x.turns \in Nat
      /\ x.proc = cxGen[g].proc /\ x.listed = cxGen[g].listed
      /\ x.closing = cxGen[g].closing /\ x.stale = cxGen[g].stale
      /\ x.retired = cxGen[g].retired /\ x.done = cxGen[g].done
      /\ x.watched = cxGen[g].watched /\ x.pending = cxGen[g].pending
      /\ x.eof = cxGen[g].eof /\ x.tearing = cxGen[g].tearing
  <2>1. cxGen[g] \in Generation /\ cxGen[g].turns - 1 \in Nat
    <3>1. cxGen[g].turns > 0 /\ cxGen[g].turns \in Nat /\ cxGen[g] \in Generation
      BY <1>1, CountedHasWork, GenTypes DEF Counted
    <3>2. QED BY <3>1
  <2>2. QED BY <2>1 DEF Generation
<1>4. /\ cxGen' \in [CxGens -> Generation]
      /\ \A h \in CxGens : h # g => cxGen'[h] = cxGen[h]
      /\ MayRetire(x, cxGen'[g])
      /\ Retires(x, g, cxCurrent) => cxGen'[g].tearing
  <2>1. cxGen \in [CxGens -> Generation]
    BY <1>1, GenTypes
  <2>2. cxGen' = [cxGen EXCEPT ![g] = Retired(x, g, cxCurrent)]
    BY <1>1 DEF Leave, Left
  <2> HIDE DEF x
  <2>3. QED BY <1>1, <1>3, <2>1, <2>2, RetiredFacts
<1> HIDE DEF x
<1>5. /\ cxGen'[g].active = cxGen[g].active \ {w} /\ cxGen'[g].turns = cxGen[g].turns - 1
      /\ cxGen'[g].proc = cxGen[g].proc /\ cxGen'[g].listed = cxGen[g].listed
      /\ cxGen'[g].stale = cxGen[g].stale /\ cxGen'[g].done = cxGen[g].done
      /\ cxGen'[g].watched = cxGen[g].watched /\ cxGen'[g].pending = cxGen[g].pending
      /\ cxGen[g].closing => cxGen'[g].closing
      /\ cxGen[g].retired => cxGen'[g].retired
      /\ cxGen[g].tearing => cxGen'[g].tearing
      /\ \/ /\ cxGen'[g].closing = cxGen[g].closing /\ cxGen'[g].retired = cxGen[g].retired
            /\ cxGen'[g].tearing = cxGen[g].tearing
         \/ /\ ~HasWork(x)
            /\ cxGen'[g].closing = TRUE /\ cxGen'[g].retired = TRUE /\ cxGen'[g].tearing = TRUE
  BY <1>3, <1>4 DEF MayRetire
<1>6. /\ cxCall' \in [CxCallers -> Call]
      /\ \A v \in CxCallers : v # w => cxCall'[v] = cxCall[v]
      /\ cxCall'[w].pc = "over"
      /\ cxCall'[w].reply = cxCall[w].reply /\ cxCall'[w].gen = cxCall[w].gen
      /\ cxCall'[w].known = cxCall[w].known /\ cxCall'[w].answer = cxCall[w].answer
      /\ cxCall'[w].cancelled = cxCall[w].cancelled
  <2> DEFINE r == IF cxCall[w].result = "none" THEN "failed" ELSE cxCall[w].result
  <2>1. cxCall \in [CxCallers -> Call] /\ cxCall[w] \in Call /\ r \in {"none", "done", "failed"}
    BY CallTypes
  <2>2. cxCall' = [cxCall EXCEPT ![w].pc = "over", ![w].result = r]
    BY DEF Leave
  <2> HIDE DEF r
  <2>3. QED BY <2>1, <2>2 DEF Call
<1>7. /\ \A h \in CxGens : h # g => Turns(h)' = Turns(h)
      /\ Turns(g)' = Turns(g) \ {w} /\ w \in Turns(g)
  BY <1>1, <1>6 DEF Turns, GenOf, Counted, Locked
<1>8. IsFiniteSet(Turns(g)') /\ cxGen'[g].turns = Cardinality(Turns(g)')
  <2>1. IsFiniteSet(Turns(g)) /\ cxGen[g].turns = Cardinality(Turns(g))
    BY <1>1 DEF TurnsCounted
  <2>2. QED BY <1>5, <1>7, <2>1, FS_RemoveElement
<1>9. \A v \in CxCallers : v # w /\ cxCall[v].pc \in Counted /\ GenOf(v) = g =>
        x.turns > 0 /\ HasWork(x)
  <2>1. SUFFICES ASSUME NEW v \in CxCallers, v # w, cxCall[v].pc \in Counted, GenOf(v) = g
                 PROVE  x.turns > 0
    BY DEF HasWork
  <2>2. v \in Turns(g)'
    BY <1>7, <2>1 DEF Turns
  <2>3. Cardinality(Turns(g)') # 0
    BY <1>8, <2>2, FS_EmptySet
  <2>4. QED BY <1>3, <1>5, <1>8, <2>3
<1>10. ASSUME NEW v \in CxCallers, cxCall[v].pc = "drain", GenOf(v) = g
       PROVE  \/ cxGen'[g].done \/ cxGen'[g].tearing \/ cxGen'[g].turns > 0
              \/ \E c \in CxCallers : cxCall[c].cancelled /\ GenOf(c) = g
  <2>1. CASE Retires(x, g, cxCurrent)
    BY <1>4, <2>1
  <2>2. CASE cxGen[g].retired
    <3>1. cxGen[g].tearing \/ cxGen[g].done
      BY <1>1, <2>2 DEF WayOut
    <3>2. QED BY <1>5, <3>1
  <2>3. ASSUME NEW r \in cxGen[g].pending, ~(\E c \in CxCallers : cxCall[c].cancelled
        /\ GenOf(c) = g)
        PROVE  x.turns > 0
    <3>1. r[1] \in CxCallers /\ r[2] \in Methods /\ GenOf(r[1]) = g
      BY <1>1, GenTypes DEF PendingFits
    <3>2. r[2] # "cancel" /\ cxCall[r[1]].pc = r[2]
      BY <1>1, <2>3, <3>1 DEF PendingFits
    <3>3. r[2] # "init"
      BY <1>1, <1>10, <3>1, <3>2 DEF OwnGeneration
    <3>4. cxCall[r[1]].pc \in Counted /\ r[1] # w
      BY <1>1, <3>1, <3>2, <3>3 DEF Methods, Counted, Locked
    <3>5. QED BY <1>9, <3>1, <3>4
  <2>4. ASSUME NEW c \in cxGen[g].active, c # w
        PROVE  x.turns > 0
    <3>1. c \in CxCallers /\ GenOf(c) = g /\ cxCall[c].pc \in Counted
      BY <1>1, GenTypes DEF ActiveFits, Counted, Locked
    <3>2. QED BY <1>9, <2>4, <3>1
  <2>5. CASE HasWork(x) /\ ~(\E c \in CxCallers : cxCall[c].cancelled /\ GenOf(c) = g)
    BY <1>3, <1>5, <2>3, <2>4, <2>5 DEF HasWork
  <2>6. cxCurrent # g \/ cxGen[g].stale \/ cxGen[g].closing
    BY <1>10 DEF DrainIsFinal
  <2>7. QED BY <1>3, <2>1, <2>2, <2>5, <2>6 DEF Retires
<1>11. CxShape'
  BY <1>1, <1>2, <1>4, <1>5, <1>6 DEF CxShape, CxTypeOK
<1>12. InOrder'
  BY <1>1, <1>2, <1>4, <1>5, <1>6, GenOfFacts DEF InOrder, Spawned
<1>13. NotStarted'
  BY <1>1, <1>2, <1>4, <1>5, <1>6 DEF NotStarted
<1>14. WayOut'
  BY <1>1, <1>2, <1>4, <1>5, <1>6, GenOfFacts DEF WayOut
<1>15. Current'
  BY <1>1, <1>2, <1>4, <1>5, <1>6, GenOfFacts DEF Current
<1>16. UpIsKnown'
  BY <1>1, <1>2, <1>4, <1>5, <1>6, GenOfFacts DEF UpIsKnown, GenOf, Up
<1>17. StartLock'
  <2>1. \A h \in CxGens : cxGen'[h].proc = cxGen[h].proc
    BY <1>4, <1>5
  <2>2. QED BY <1>1, <1>2, <1>6, <2>1, CodexClientAssumption DEF StartLock, Up, CxShape, CxTypeOK
<1>18. HasGeneration'
  BY <1>1, <1>2, <1>4, <1>5, <1>6, CallTypes DEF HasGeneration, GenOf
<1>19. Registering'
  BY <1>1, <1>2, <1>4, <1>5, <1>6, GenOfFacts DEF Registering, GenOf, OwnGeneration
<1>20. OwnGeneration'
  BY <1>1, <1>2, <1>4, <1>5, <1>6, CodexClientAssumption, GenOfFacts DEF OwnGeneration, GenOf,
    StartLock
<1>21. TurnsCounted'
  BY <1>4, <1>7, <1>8 DEF TurnsCounted
<1>22. ActiveFits'
  BY <1>1, <1>2, <1>4, <1>5, <1>6, GenTypes, GenOfFacts DEF ActiveFits, GenOf
<1>23. PendingFits'
  BY <1>1, <1>2, <1>4, <1>5, <1>6, GenTypes, GenOfFacts DEF PendingFits, GenOf, Asked, Methods
<1>24. Asked'
  BY <1>1, <1>2, <1>4, <1>5, <1>6, GenOfFacts DEF Asked
<1>25. WireFits'
  BY <1>1, <1>2, <1>4, <1>5, <1>6, WireTypes, GenOfFacts DEF WireFits, GenOf
<1>26. RepliesFit'
  BY <1>1, <1>2, <1>4, <1>5, <1>6, GenOfFacts DEF RepliesFit
<1>27. DrainIsFinal'
  BY <1>1, <1>2, <1>4, <1>5, <1>6, GenOfFacts DEF DrainIsFinal, GenOf
<1>28. DrainEnds'
  <2>1. SUFFICES ASSUME NEW v \in CxCallers, cxCall'[v].pc = "drain"
                 PROVE  LET y == cxGen'[cxCall[v].gen] IN
                        \/ y.done \/ y.tearing \/ y.turns > 0
                        \/ \E c \in CxCallers : cxCall[c].cancelled /\ cxCall[c].gen = cxCall[v].gen
    BY <1>6 DEF DrainEnds, GenOf
  <2>2. cxCall[v].pc = "drain"
    BY <1>6, <2>1
  <2>3. CASE cxCall[v].gen = g
    BY <1>10, <2>2, <2>3 DEF GenOf
  <2>4. CASE cxCall[v].gen # g
    <3>1. cxCall[v].gen \in CxGens
      BY <2>2, GenOfFacts
    <3>2. cxGen'[cxCall[v].gen] = cxGen[cxCall[v].gen]
      BY <1>4, <2>4, <3>1
    <3>3. QED BY <2>2, <3>2 DEF DrainEnds, GenOf
  <2>5. QED BY <2>3, <2>4
<1>29. TurnsNotCutShort'
  BY <1>1, <1>2, <1>4, <1>5, <1>6, <1>9, GenOfFacts DEF TurnsNotCutShort, Locked, GenOf, Counted
<1>30. Completed'
  BY <1>1, <1>2, <1>4, <1>5, <1>6, CompletedKept DEF Completed, GenOf, ClientInv
<1>31. Abandoned'
  BY <1>1, <1>2, <1>4, <1>5, <1>6, GenOfFacts DEF Abandoned, Asked, GenOf, Up
<1>32. QED BY <1>11, <1>12, <1>13, <1>14, <1>15, <1>16, <1>17, <1>18, <1>19, <1>20, <1>21,
            <1>22,
            <1>23, <1>24, <1>25, <1>26, <1>27, <1>28, <1>29, <1>30, <1>31

-----------------------------------------------------------------------------
(* The steps of a generation.                                              *)

\* The end of a process.
LEMMA TearDownStep ==
  ASSUME ClientInv, NEW g \in CxGens, TearDown(g)
  PROVE  ClientInv'
<1> USE DEF ClientInv
<1>1. /\ cxGen[g].tearing /\ cxGen[g].closing /\ cxGen[g].proc # "none"
      /\ UNCHANGED <<cxClosed, cxStarting, cxCall, cxStream, cxTurn, cxFaults>>
      /\ cxCurrent' \in CxGens \cup {CxNone} /\ (cxCurrent = CxNone => cxCurrent' = CxNone)
      /\ \A h \in CxGens : cxCurrent' = h <=> cxCurrent = h /\ h # g
      /\ cxCurrent' = CxNone \/ cxCurrent' = cxCurrent
  <2>1. \A h \in CxGens : h # CxNone
    BY CodexClientAssumption DEF CxGens
  <2>2. cxCurrent' = IF cxCurrent = g THEN CxNone ELSE cxCurrent
    BY DEF TearDown
  <2>3. cxCurrent \in CxGens \cup {CxNone}
    BY DEF CxShape, CxTypeOK
  <2>4. cxGen[g].tearing
    BY DEF TearDown
  <2>5. cxGen[g].closing /\ cxGen[g].proc # "none"
    BY <2>4 DEF WayOut, NotStarted, NoGeneration
  <2>6. QED BY <2>1, <2>2, <2>3, <2>4, <2>5 DEF TearDown
<1>2. /\ cxGen' \in [CxGens -> Generation]
      /\ \A h \in CxGens : h # g => cxGen'[h] = cxGen[h]
      /\ cxGen'[g].proc = "dead" /\ cxGen'[g].watched = FALSE /\ cxGen'[g].tearing = FALSE
      /\ cxGen'[g].listed = FALSE /\ cxGen'[g].done = TRUE
      /\ cxGen'[g].closing = cxGen[g].closing /\ cxGen'[g].stale = cxGen[g].stale
      /\ cxGen'[g].retired = cxGen[g].retired /\ cxGen'[g].turns = cxGen[g].turns
      /\ cxGen'[g].pending = cxGen[g].pending /\ cxGen'[g].active = cxGen[g].active
  <2>1. cxGen[g] \in Generation /\ cxGen \in [CxGens -> Generation]
    BY GenTypes
  <2>2. cxGen' = [cxGen EXCEPT ![g].proc = "dead", ![g].watched = FALSE, ![g].tearing = FALSE,
                               ![g].listed = FALSE, ![g].done = TRUE]
    BY DEF TearDown
  <2>3. QED BY <2>1, <2>2 DEF Generation
<1>3. /\ cxWire' \in [CxGens -> SUBSET Ordered] /\ cxWire'[g] = {}
      /\ \A h \in CxGens : h # g => cxWire'[h] = cxWire[h]
  <2>1. cxWire' = [cxWire EXCEPT ![g] = {}] /\ cxWire \in [CxGens -> SUBSET Ordered]
    BY DEF TearDown, CxShape, CxTypeOK
  <2>2. QED BY <2>1
<1>4. \A h \in CxGens : Turns(h)' = Turns(h)
  BY <1>1 DEF Turns, GenOf
<1>5. CxShape'
  BY <1>1, <1>2, <1>3 DEF CxShape, CxTypeOK
<1>6. InOrder'
  BY <1>1, <1>2, <1>3, GenOfFacts DEF InOrder, Spawned
<1>7. NotStarted'
  BY <1>1, <1>2, <1>3, GenOfFacts DEF NotStarted
<1>8. WayOut'
  BY <1>1, <1>2, <1>3, GenOfFacts DEF WayOut
<1>9. Current'
  BY <1>1, <1>2, <1>3, GenOfFacts DEF Current
<1>10. UpIsKnown'
  BY <1>1, <1>2, <1>3, GenOfFacts DEF UpIsKnown, GenOf, Up
<1>11. StartLock'
  BY <1>1, <1>2, <1>3, CodexClientAssumption, GenOfFacts DEF StartLock, Up, CxShape, CxTypeOK
<1>12. HasGeneration'
  BY <1>1, <1>2, <1>3, CallTypes DEF HasGeneration, GenOf
<1>13. Registering'
  BY <1>1, <1>2, <1>3, GenOfFacts DEF Registering, GenOf
<1>14. OwnGeneration'
  BY <1>1, <1>2, <1>3, CodexClientAssumption, GenOfFacts DEF OwnGeneration, GenOf, StartLock
<1>15. TurnsCounted'
  BY <1>1, <1>2, <1>3, <1>4, GenOfFacts DEF TurnsCounted
<1>16. ActiveFits'
  BY <1>1, <1>2, <1>3, GenTypes, GenOfFacts DEF ActiveFits, GenOf
<1>17. PendingFits'
  BY <1>1, <1>2, <1>3, GenTypes, GenOfFacts DEF PendingFits, GenOf, Asked, Methods
<1>18. Asked'
  BY <1>1, <1>2, <1>3, GenOfFacts DEF Asked
<1>19. WireFits'
  BY <1>1, <1>2, <1>3, WireTypes, GenOfFacts DEF WireFits, GenOf
<1>20. RepliesFit'
  BY <1>1, <1>2, <1>3, GenOfFacts DEF RepliesFit
<1>21. DrainIsFinal'
  BY <1>1, <1>2, <1>3, GenOfFacts DEF DrainIsFinal, GenOf
<1>22. DrainEnds'
  BY <1>1, <1>2, <1>3, GenOfFacts DEF DrainEnds, GenOf, Asked
<1>23. TurnsNotCutShort'
  BY <1>1, <1>2, <1>3, GenOfFacts DEF TurnsNotCutShort, Locked, GenOf
<1>24. Completed'
  BY <1>1, <1>2, <1>3, CompletedKept DEF Completed, GenOf, ClientInv
<1>25. Abandoned'
  BY <1>1, <1>2, <1>3, GenOfFacts DEF Abandoned, Asked, GenOf, Up
<1>26. QED BY <1>5, <1>6, <1>7, <1>8, <1>9, <1>10, <1>11, <1>12, <1>13, <1>14, <1>15, <1>16,
            <1>17,
            <1>18, <1>19, <1>20, <1>21, <1>22, <1>23, <1>24, <1>25

\* The death of a process.
LEMMA ProcessDiesStep ==
  ASSUME ClientInv, NEW g \in CxGens, ProcessDies(g)
  PROVE  ClientInv'
<1> USE DEF ClientInv
<1>1. /\ Up(g) /\ UNCHANGED <<cxCurrent, cxClosed, cxStarting, cxCall, cxStream, cxTurn>>
      /\ cxFaults' \in 0..CxMaxFaults
  BY CodexClientAssumption DEF ProcessDies, Fault, CxShape, CxTypeOK
<1>2. /\ cxGen' \in [CxGens -> Generation]
      /\ \A h \in CxGens : h # g => cxGen'[h] = cxGen[h]
      /\ cxGen'[g].proc = "dead" /\ cxGen'[g].watched = cxGen[g].watched
      /\ cxGen'[g].tearing = cxGen[g].tearing
      /\ cxGen'[g].listed = cxGen[g].listed /\ cxGen'[g].done = cxGen[g].done
      /\ cxGen'[g].closing = cxGen[g].closing /\ cxGen'[g].stale = cxGen[g].stale
      /\ cxGen'[g].retired = cxGen[g].retired /\ cxGen'[g].turns = cxGen[g].turns
      /\ cxGen'[g].pending = cxGen[g].pending /\ cxGen'[g].active = cxGen[g].active
  <2>1. cxGen[g] \in Generation /\ cxGen \in [CxGens -> Generation]
    BY GenTypes
  <2>2. cxGen' = [cxGen EXCEPT ![g].proc = "dead"]
    BY DEF ProcessDies
  <2>3. QED BY <2>1, <2>2 DEF Generation
<1>3. /\ cxWire' \in [CxGens -> SUBSET Ordered] /\ cxWire'[g] = {}
      /\ \A h \in CxGens : h # g => cxWire'[h] = cxWire[h]
  <2>1. cxWire' = [cxWire EXCEPT ![g] = {}] /\ cxWire \in [CxGens -> SUBSET Ordered]
    BY DEF ProcessDies, CxShape, CxTypeOK
  <2>2. QED BY <2>1
<1>4. \A h \in CxGens : Turns(h)' = Turns(h)
  BY <1>1 DEF Turns, GenOf
<1>5. CxShape'
  BY <1>1, <1>2, <1>3 DEF CxShape, CxTypeOK
<1>6. InOrder'
  BY <1>1, <1>2, <1>3 DEF InOrder, Spawned, Up
<1>7. NotStarted'
  BY <1>1, <1>2, <1>3 DEF NotStarted, Up
<1>8. WayOut'
  BY <1>1, <1>2, <1>3 DEF WayOut, Up
<1>9. Current'
  BY <1>1, <1>2, <1>3, GenOfFacts DEF Current
<1>10. UpIsKnown'
  BY <1>1, <1>2, <1>3, GenOfFacts DEF UpIsKnown, GenOf, Up
<1>11. StartLock'
  BY <1>1, <1>2, <1>3, CodexClientAssumption, GenOfFacts DEF StartLock, Up, CxShape, CxTypeOK
<1>12. HasGeneration'
  BY <1>1, <1>2, <1>3, CallTypes DEF HasGeneration, GenOf
<1>13. Registering'
  BY <1>1, <1>2, <1>3, GenOfFacts DEF Registering, GenOf
<1>14. OwnGeneration'
  BY <1>1, <1>2, <1>3, CodexClientAssumption, GenOfFacts DEF OwnGeneration, GenOf, StartLock
<1>15. TurnsCounted'
  BY <1>1, <1>2, <1>3, <1>4, GenOfFacts DEF TurnsCounted
<1>16. ActiveFits'
  BY <1>1, <1>2, <1>3, GenTypes, GenOfFacts DEF ActiveFits, GenOf
<1>17. PendingFits'
  BY <1>1, <1>2, <1>3, GenTypes, GenOfFacts DEF PendingFits, GenOf, Asked, Methods
<1>18. Asked'
  BY <1>1, <1>2, <1>3, GenOfFacts DEF Asked
<1>19. WireFits'
  BY <1>1, <1>2, <1>3, WireTypes, GenOfFacts DEF WireFits, GenOf
<1>20. RepliesFit'
  BY <1>1, <1>2, <1>3, GenOfFacts DEF RepliesFit
<1>21. DrainIsFinal'
  BY <1>1, <1>2, <1>3, GenOfFacts DEF DrainIsFinal, GenOf
<1>22. DrainEnds'
  BY <1>1, <1>2, <1>3, GenOfFacts DEF DrainEnds, GenOf, Asked
<1>23. TurnsNotCutShort'
  BY <1>1, <1>2, <1>3, GenOfFacts DEF TurnsNotCutShort, Locked, GenOf
<1>24. Completed'
  BY <1>1, <1>2, <1>3, CompletedKept DEF Completed, GenOf, ClientInv
<1>25. Abandoned'
  BY <1>1, <1>2, <1>3, GenOfFacts DEF Abandoned, Asked, GenOf, Up
<1>26. QED BY <1>5, <1>6, <1>7, <1>8, <1>9, <1>10, <1>11, <1>12, <1>13, <1>14, <1>15, <1>16,
            <1>17,
            <1>18, <1>19, <1>20, <1>21, <1>22, <1>23, <1>24, <1>25

\* A generation whose login changed.
LEMMA ParentLoginChangedStep ==
  ASSUME ClientInv, NEW g \in CxGens, ParentLoginChanged(g)
  PROVE  ClientInv'
<1> USE DEF ClientInv
<1>1. /\ cxGen[g].watched /\ cxGen[g].proc # "none"
      /\ UNCHANGED <<cxCurrent, cxClosed, cxStarting, cxCall, cxWire, cxStream, cxTurn>>
      /\ cxFaults' \in 0..CxMaxFaults
  <2>1. cxGen[g].watched
    BY DEF ParentLoginChanged
  <2>2. cxGen[g].proc # "none"
    BY <2>1 DEF NotStarted, NoGeneration
  <2>3. QED BY <2>1, <2>2, CodexClientAssumption DEF ParentLoginChanged, Fault, CxShape, CxTypeOK
<1> DEFINE b == cxGen[g].stale \/ ~cxGen[g].retired
           x == [cxGen[g] EXCEPT !.stale = b, !.watched = FALSE]
<1>2. /\ x \in Generation /\ (cxGen[g].stale => x.stale)
      /\ x.proc = cxGen[g].proc /\ x.listed = cxGen[g].listed /\ x.closing = cxGen[g].closing
      /\ x.retired = cxGen[g].retired /\ x.done = cxGen[g].done /\ x.turns = cxGen[g].turns
      /\ x.pending = cxGen[g].pending /\ x.active = cxGen[g].active
      /\ x.eof = cxGen[g].eof /\ x.tearing = cxGen[g].tearing
  <2>1. cxGen[g] \in Generation /\ b \in BOOLEAN /\ (cxGen[g].stale => b)
    BY GenTypes
  <2> HIDE DEF b
  <2>2. x.stale = b
    BY <2>1 DEF Generation
  <2>3. QED BY <2>1, <2>2 DEF Generation
<1>3. /\ cxGen' \in [CxGens -> Generation]
      /\ \A h \in CxGens : h # g => cxGen'[h] = cxGen[h]
      /\ MayRetire(x, cxGen'[g])
  <2>1. cxGen \in [CxGens -> Generation]
    BY GenTypes
  <2>2. cxGen' = [cxGen EXCEPT ![g] = Retired(x, g, cxCurrent)]
    BY DEF ParentLoginChanged
  <2> HIDE DEF x
  <2>3. QED BY <1>2, <2>1, <2>2, RetiredFacts
<1> HIDE DEF x
<1>4. /\ cxGen'[g].active = cxGen[g].active /\ cxGen'[g].turns = cxGen[g].turns
      /\ cxGen'[g].proc = cxGen[g].proc /\ cxGen'[g].listed = cxGen[g].listed
      /\ (cxGen[g].stale => cxGen'[g].stale) /\ cxGen'[g].done = cxGen[g].done
      /\ cxGen'[g].pending = cxGen[g].pending
      /\ cxGen[g].closing => cxGen'[g].closing
      /\ cxGen[g].tearing => cxGen'[g].tearing
      /\ \/ /\ cxGen'[g].closing = cxGen[g].closing /\ cxGen'[g].retired = cxGen[g].retired
            /\ cxGen'[g].tearing = cxGen[g].tearing
         \/ /\ ~HasWork(cxGen[g])
            /\ cxGen'[g].closing = TRUE /\ cxGen'[g].retired = TRUE /\ cxGen'[g].tearing = TRUE
  BY <1>2, <1>3 DEF MayRetire, HasWork
<1>5. \A h \in CxGens : Turns(h)' = Turns(h)
  BY <1>1 DEF Turns, GenOf
<1>6. CxShape'
  BY <1>1, <1>3, <1>4 DEF CxShape, CxTypeOK
<1>7. InOrder'
  BY <1>1, <1>3, <1>4 DEF InOrder, Spawned
<1>8. NotStarted'
  BY <1>1, <1>3, <1>4 DEF NotStarted
<1>9. WayOut'
  BY <1>1, <1>3, <1>4 DEF WayOut
<1>10. Current'
  BY <1>1, <1>3, <1>4, GenOfFacts DEF Current
<1>11. UpIsKnown'
  BY <1>1, <1>3, <1>4, GenOfFacts DEF UpIsKnown, GenOf, Up
<1>12. StartLock'
  BY <1>1, <1>3, <1>4, CodexClientAssumption, GenOfFacts DEF StartLock, Up, CxShape, CxTypeOK
<1>13. HasGeneration'
  BY <1>1, <1>3, <1>4, CallTypes DEF HasGeneration, GenOf
<1>14. Registering'
  BY <1>1, <1>3, <1>4, GenOfFacts DEF Registering, GenOf
<1>15. OwnGeneration'
  BY <1>1, <1>3, <1>4, CodexClientAssumption, GenOfFacts DEF OwnGeneration, GenOf, StartLock
<1>16. TurnsCounted'
  BY <1>1, <1>3, <1>4, <1>5, GenOfFacts DEF TurnsCounted
<1>17. ActiveFits'
  BY <1>1, <1>3, <1>4, GenTypes, GenOfFacts DEF ActiveFits, GenOf
<1>18. PendingFits'
  BY <1>1, <1>3, <1>4, GenTypes, GenOfFacts DEF PendingFits, GenOf, Asked, Methods
<1>19. Asked'
  BY <1>1, <1>3, <1>4, GenOfFacts DEF Asked
<1>20. WireFits'
  BY <1>1, <1>3, <1>4, WireTypes, GenOfFacts DEF WireFits, GenOf
<1>21. RepliesFit'
  BY <1>1, <1>3, <1>4, GenOfFacts DEF RepliesFit
<1>22. DrainIsFinal'
  BY <1>1, <1>3, <1>4, GenOfFacts DEF DrainIsFinal, GenOf
<1>23. DrainEnds'
  BY <1>1, <1>3, <1>4, GenOfFacts DEF DrainEnds, GenOf, Asked
<1>24. TurnsNotCutShort'
  BY <1>1, <1>3, <1>4, CountedHasWork, GenOfFacts DEF TurnsNotCutShort, Locked, GenOf, Counted
<1>25. Completed'
  BY <1>1, <1>3, <1>4, CompletedKept DEF Completed, GenOf, ClientInv
<1>26. Abandoned'
  BY <1>1, <1>3, <1>4, GenOfFacts DEF Abandoned, Asked, GenOf, Up
<1>27. QED BY <1>6, <1>7, <1>8, <1>9, <1>10, <1>11, <1>12, <1>13, <1>14, <1>15, <1>16, <1>17,
            <1>18,
            <1>19, <1>20, <1>21, <1>22, <1>23, <1>24, <1>25, <1>26

\* What failing everything that waits for a generation does to its callers.
FailsAll(g) ==
  /\ cxCall' \in [CxCallers -> Call]
  /\ \A w \in CxCallers :
       /\ cxCall'[w].pc = cxCall[w].pc /\ cxCall'[w].gen = cxCall[w].gen
       /\ cxCall'[w].known = cxCall[w].known /\ cxCall'[w].cancelled = cxCall[w].cancelled
       /\ cxCall'[w].answer = NoAnswer => cxCall[w].answer = NoAnswer
       /\ cxCall'[w].reply = "ok" => cxCall[w].reply = "ok"
       /\ GenOf(w) # g => cxCall'[w].reply = cxCall[w].reply

\* The answer of a turn whose process failed.
LEMMA FailedAnswer ==
  ASSUME NEW w \in CxCallers
  PROVE  [of |-> w, status |-> "failed"] \in Answer /\ [of |-> w, status |-> "failed"] # NoAnswer
BY DEF Answer, NoAnswer

\* _fail_pending: every request and turn of the generation fails.
LEMMA FailedFacts ==
  ASSUME ClientInv, NEW g \in CxGens, cxCall' = FailedCalls(g)
  PROVE  FailsAll(g)
<1> USE DEF ClientInv
<1>1. ASSUME NEW w \in CxCallers
      PROVE  /\ cxCall'[w] \in Call
             /\ cxCall'[w].pc = cxCall[w].pc /\ cxCall'[w].gen = cxCall[w].gen
             /\ cxCall'[w].known = cxCall[w].known /\ cxCall'[w].cancelled = cxCall[w].cancelled
             /\ cxCall'[w].answer = NoAnswer => cxCall[w].answer = NoAnswer
             /\ cxCall'[w].reply = "ok" => cxCall[w].reply = "ok"
             /\ GenOf(w) # g => cxCall'[w].reply = cxCall[w].reply
  <2> DEFINE told == \E m \in Methods \ {"cancel"} : <<w, m>> \in cxGen[g].pending
             r == IF told THEN "error" ELSE cxCall[w].reply
             a == IF w \in cxGen[g].active THEN [of |-> w, status |-> "failed"]
                  ELSE cxCall[w].answer
  <2>1. cxCall'[w] = [cxCall[w] EXCEPT !.reply = r, !.answer = a]
    BY DEF FailedCalls
  <2>2. told => GenOf(w) = g
    <3>1. \A m \in Methods : <<w, m>>[1] = w
      OBVIOUS
    <3>2. QED BY <3>1 DEF PendingFits
  <2> HIDE DEF told
  <2>3. r \in {"none", "ok", "error"} /\ (r = "ok" => cxCall[w].reply = "ok")
        /\ (GenOf(w) # g => r = cxCall[w].reply)
    BY <2>2, CallTypes
  <2>4. a \in Answer /\ (a = NoAnswer => cxCall[w].answer = NoAnswer)
    BY CallTypes, FailedAnswer
  <2> HIDE DEF r, a
  <2>5. cxCall[w] \in Call
    BY CallTypes
  <2>6. /\ cxCall'[w] \in Call
        /\ cxCall'[w].pc = cxCall[w].pc /\ cxCall'[w].gen = cxCall[w].gen
        /\ cxCall'[w].known = cxCall[w].known /\ cxCall'[w].cancelled = cxCall[w].cancelled
        /\ cxCall'[w].reply = r /\ cxCall'[w].answer = a
    BY <2>1, <2>3, <2>4, <2>5 DEF Call
  <2>7. QED BY <2>3, <2>4, <2>6
<1>2. cxCall' = [w \in CxCallers |-> cxCall'[w]]
  BY DEF FailedCalls
<1>3. cxCall' \in [CxCallers -> Call]
  BY <1>1, <1>2
<1>4. QED BY <1>1, <1>3 DEF FailsAll

\* The end of a stream.
LEMMA ReaderEndsStep ==
  ASSUME ClientInv, NEW g \in CxGens, ReaderEnds(g)
  PROVE  ClientInv'
<1> USE DEF ClientInv
<1>1. /\ cxGen[g].proc = "dead"
      /\ UNCHANGED <<cxClosed, cxStarting, cxWire, cxStream, cxTurn, cxFaults>>
      /\ cxGen[g].listed \/ cxGen[g].retired
      /\ cxCurrent' \in CxGens \cup {CxNone} /\ (cxCurrent = CxNone => cxCurrent' = CxNone)
      /\ \A h \in CxGens : cxCurrent' = h <=> cxCurrent = h /\ h # g
      /\ cxCurrent' = CxNone \/ cxCurrent' = cxCurrent
  <2>1. \A h \in CxGens : h # CxNone
    BY CodexClientAssumption DEF CxGens
  <2>2. cxCurrent' = IF cxCurrent = g THEN CxNone ELSE cxCurrent
    BY DEF ReaderEnds
  <2>3. cxCurrent \in CxGens \cup {CxNone}
    BY DEF CxShape, CxTypeOK
  <2>4. QED BY <2>1, <2>2, <2>3 DEF ReaderEnds
<1> DEFINE x == [cxGen[g] EXCEPT !.closing = TRUE, !.eof = TRUE, !.pending = {}]
<1>2. /\ x \in Generation /\ x.stale = cxGen[g].stale
      /\ x.proc = cxGen[g].proc /\ x.listed = cxGen[g].listed /\ x.closing = TRUE
      /\ x.retired = cxGen[g].retired /\ x.done = cxGen[g].done /\ x.turns = cxGen[g].turns
      /\ x.pending = {} /\ x.active = cxGen[g].active
      /\ x.watched = cxGen[g].watched /\ x.tearing = cxGen[g].tearing
  <2>1. cxGen[g] \in Generation
    BY GenTypes
  <2>2. QED BY <2>1 DEF Generation
<1>3. /\ cxGen' \in [CxGens -> Generation]
      /\ \A h \in CxGens : h # g => cxGen'[h] = cxGen[h]
      /\ MayRetire(x, cxGen'[g])
  <2>1. cxGen \in [CxGens -> Generation]
    BY GenTypes
  <2>2. cxGen' = [cxGen EXCEPT ![g] = Retired(x, g, CxNone)]
    BY DEF ReaderEnds
  <2> HIDE DEF x
  <2>3. QED BY <1>2, <2>1, <2>2, RetiredFacts
<1> HIDE DEF x
<1>4. /\ cxGen'[g].active = cxGen[g].active /\ cxGen'[g].turns = cxGen[g].turns
      /\ cxGen'[g].proc = cxGen[g].proc /\ cxGen'[g].listed = cxGen[g].listed
      /\ cxGen'[g].stale = cxGen[g].stale /\ cxGen'[g].done = cxGen[g].done
      /\ cxGen'[g].pending = {} /\ cxGen'[g].closing = TRUE
      /\ cxGen[g].tearing => cxGen'[g].tearing
      /\ \/ /\ cxGen'[g].retired = cxGen[g].retired /\ cxGen'[g].tearing = cxGen[g].tearing
         \/ /\ cxGen[g].turns <= 0 /\ cxGen'[g].retired = TRUE /\ cxGen'[g].tearing = TRUE
  <2>1. ~HasWork(x) => cxGen[g].turns <= 0
    BY <1>2, GenTypes DEF HasWork
  <2>2. QED BY <1>2, <1>3, <2>1 DEF MayRetire
<1>5. FailsAll(g)
  BY FailedFacts DEF ReaderEnds
<1>6. \A h \in CxGens : Turns(h)' = Turns(h)
  BY <1>5 DEF Turns, GenOf, FailsAll
<1>7. CxShape'
  BY <1>1, <1>3, <1>4, <1>5 DEF CxShape, CxTypeOK, FailsAll
<1>8. InOrder'
  BY <1>1, <1>3, <1>4, <1>5, GenOfFacts DEF InOrder, Spawned, FailsAll
<1>9. NotStarted'
  BY <1>1, <1>3, <1>4, <1>5, GenOfFacts DEF NotStarted, FailsAll
<1>10. WayOut'
  BY <1>1, <1>3, <1>4, <1>5, GenOfFacts DEF WayOut, FailsAll
<1>11. Current'
  BY <1>1, <1>3, <1>4, <1>5, GenOfFacts DEF Current, FailsAll
<1>12. UpIsKnown'
  BY <1>1, <1>3, <1>4, <1>5, GenOfFacts DEF UpIsKnown, GenOf, Up, FailsAll
<1>13. StartLock'
  <2>1. \A h \in CxGens : cxGen'[h].proc = cxGen[h].proc
    BY <1>3, <1>4
  <2>2. QED BY <1>1, <1>5, <2>1, CodexClientAssumption
        DEF StartLock, Up, CxShape, CxTypeOK, FailsAll
<1>14. HasGeneration'
  BY <1>1, <1>3, <1>4, <1>5, CallTypes DEF HasGeneration, GenOf, FailsAll
<1>15. Registering'
  BY <1>1, <1>3, <1>4, <1>5, GenOfFacts DEF Registering, GenOf, FailsAll
<1>16. OwnGeneration'
  BY <1>1, <1>3, <1>4, <1>5, CodexClientAssumption, GenOfFacts DEF OwnGeneration, GenOf,
    StartLock, FailsAll
<1>17. TurnsCounted'
  BY <1>1, <1>3, <1>4, <1>5, <1>6, GenOfFacts DEF TurnsCounted, FailsAll
<1>18. ActiveFits'
  BY <1>1, <1>3, <1>4, <1>5, GenTypes, GenOfFacts DEF ActiveFits, GenOf, FailsAll
<1>19. PendingFits'
  BY <1>1, <1>3, <1>4, <1>5, GenTypes, GenOfFacts DEF PendingFits, GenOf, Asked, Methods, FailsAll
<1>20. Asked'
  BY <1>1, <1>3, <1>4, <1>5, GenOfFacts DEF Asked, FailsAll
<1>21. WireFits'
  BY <1>1, <1>3, <1>4, <1>5, WireTypes, GenOfFacts DEF WireFits, GenOf, FailsAll
<1>22. RepliesFit'
  BY <1>1, <1>3, <1>4, <1>5, GenOfFacts DEF RepliesFit, FailsAll
<1>23. DrainIsFinal'
  BY <1>1, <1>3, <1>4, <1>5, GenOfFacts DEF DrainIsFinal, GenOf, FailsAll
<1>24. DrainEnds'
  BY <1>1, <1>3, <1>4, <1>5, GenOfFacts DEF DrainEnds, GenOf, Asked, FailsAll
<1>25. TurnsNotCutShort'
  <2>1. SUFFICES ASSUME NEW w \in CxCallers, cxCall[w].pc \in Counted, cxGen'[GenOf(w)].retired
                 PROVE  cxClosed
    BY <1>1, <1>5 DEF TurnsNotCutShort, Counted, GenOf, FailsAll
  <2>2. GenOf(w) \in CxGens /\ cxGen[GenOf(w)].turns > 0 /\ cxGen[GenOf(w)].turns \in Nat
    BY <2>1, CountedHasWork, GenTypes
  <2>3. cxGen[GenOf(w)].retired
    BY <1>3, <1>4, <2>1, <2>2
  <2>4. QED BY <2>1, <2>3 DEF TurnsNotCutShort, Counted
<1>26. Completed'
  BY <1>1, <1>3, <1>4, <1>5, CompletedKept DEF Completed, GenOf, ClientInv, FailsAll
<1>27. Abandoned'
  BY <1>1, <1>3, <1>4, <1>5, GenOfFacts DEF Abandoned, Asked, GenOf, Up, FailsAll
<1>28. QED BY <1>7, <1>8, <1>9, <1>10, <1>11, <1>12, <1>13, <1>14, <1>15, <1>16, <1>17, <1>18,
            <1>19,
            <1>20, <1>21, <1>22, <1>23, <1>24, <1>25, <1>26, <1>27

\* The client closes.
LEMMA CloseStep ==
  ASSUME ClientInv, Close
  PROVE  ClientInv'
<1> USE DEF ClientInv
<1> DEFINE gone == {g \in CxGens : cxGen[g].listed /\ ~cxGen[g].retired}
<1>1. /\ cxClosed' = TRUE /\ cxCurrent' = CxNone
      /\ UNCHANGED <<cxStarting, cxWire, cxStream, cxTurn, cxFaults>>
  BY DEF Close
<1>2. /\ cxGen' \in [CxGens -> Generation]
      /\ \A g \in CxGens :
           /\ cxGen'[g].proc = cxGen[g].proc /\ cxGen'[g].listed = cxGen[g].listed
           /\ cxGen'[g].stale = cxGen[g].stale /\ cxGen'[g].done = cxGen[g].done
           /\ cxGen'[g].turns = cxGen[g].turns /\ cxGen'[g].active = cxGen[g].active
           /\ cxGen'[g].watched = cxGen[g].watched
           /\ cxGen[g].closing => cxGen'[g].closing
           /\ cxGen[g].tearing => cxGen'[g].tearing
           /\ \/ cxGen'[g] = cxGen[g] /\ g \notin gone
              \/ /\ g \in gone /\ cxGen'[g].closing = TRUE /\ cxGen'[g].retired = TRUE
                 /\ cxGen'[g].tearing = TRUE /\ cxGen'[g].pending = {} /\ cxGen[g].proc # "none"
  <2>1. ASSUME NEW g \in CxGens
        PROVE  /\ cxGen'[g] \in Generation
               /\ cxGen'[g].proc = cxGen[g].proc /\ cxGen'[g].listed = cxGen[g].listed
               /\ cxGen'[g].stale = cxGen[g].stale /\ cxGen'[g].done = cxGen[g].done
               /\ cxGen'[g].turns = cxGen[g].turns /\ cxGen'[g].active = cxGen[g].active
               /\ cxGen'[g].watched = cxGen[g].watched
               /\ cxGen[g].closing => cxGen'[g].closing
               /\ cxGen[g].tearing => cxGen'[g].tearing
               /\ \/ cxGen'[g] = cxGen[g] /\ g \notin gone
                  \/ /\ g \in gone /\ cxGen'[g].closing = TRUE /\ cxGen'[g].retired = TRUE
                     /\ cxGen'[g].tearing = TRUE /\ cxGen'[g].pending = {}
                     /\ cxGen[g].proc # "none"
    <3>1. cxGen[g] \in Generation
      BY GenTypes
    <3>2. CASE g \in gone
      <4>1. cxGen'[g] = [cxGen[g] EXCEPT !.closing = TRUE, !.retired = TRUE, !.pending = {},
                                         !.tearing = TRUE]
        BY <3>2 DEF Close
      <4>2. cxGen[g].proc # "none"
        BY <3>2 DEF NotStarted, NoGeneration
      <4> HIDE DEF gone
      <4>3. QED BY <3>1, <3>2, <4>1, <4>2 DEF Generation
    <3>3. CASE g \notin gone
      <4>1. cxGen'[g] = cxGen[g]
        BY <3>3 DEF Close
      <4> HIDE DEF gone
      <4>2. QED BY <3>1, <3>3, <4>1
    <3>4. QED BY <3>2, <3>3
  <2>2. cxGen' = [g \in CxGens |-> cxGen'[g]]
    BY DEF Close
  <2> HIDE DEF gone
  <2>3. cxGen' \in [CxGens -> Generation]
    BY <2>1, <2>2
  <2>4. QED BY <2>1, <2>3
<1>3. /\ cxCall' \in [CxCallers -> Call]
      /\ \A w \in CxCallers :
           /\ cxCall'[w].pc = cxCall[w].pc /\ cxCall'[w].gen = cxCall[w].gen
           /\ cxCall'[w].known = cxCall[w].known /\ cxCall'[w].cancelled = cxCall[w].cancelled
           /\ cxCall'[w].answer = NoAnswer => cxCall[w].answer = NoAnswer
           /\ cxCall'[w].reply = "ok" => cxCall[w].reply = "ok"
           /\ GenOf(w) \notin gone => cxCall'[w].reply = cxCall[w].reply
  <2>1. ASSUME NEW w \in CxCallers
        PROVE  /\ cxCall'[w] \in Call
               /\ cxCall'[w].pc = cxCall[w].pc /\ cxCall'[w].gen = cxCall[w].gen
               /\ cxCall'[w].known = cxCall[w].known /\ cxCall'[w].cancelled = cxCall[w].cancelled
               /\ cxCall'[w].answer = NoAnswer => cxCall[w].answer = NoAnswer
               /\ cxCall'[w].reply = "ok" => cxCall[w].reply = "ok"
               /\ GenOf(w) \notin gone => cxCall'[w].reply = cxCall[w].reply
    <3> DEFINE told == \E g \in gone : \E m \in Methods \ {"cancel"} : <<w, m>> \in cxGen[g].pending
               failed == \E g \in gone : w \in cxGen[g].active
               r == IF told THEN "error" ELSE cxCall[w].reply
               a == IF failed THEN [of |-> w, status |-> "failed"] ELSE cxCall[w].answer
    <3>1. cxCall'[w] = [cxCall[w] EXCEPT !.reply = r, !.answer = a]
      BY DEF Close
    <3>2. told => GenOf(w) \in gone
      <4>1. \A m \in Methods : <<w, m>>[1] = w
        OBVIOUS
      <4>2. QED BY <4>1 DEF PendingFits
    <3> HIDE DEF told, failed, gone
    <3>3. r \in {"none", "ok", "error"} /\ (r = "ok" => cxCall[w].reply = "ok")
          /\ (GenOf(w) \notin gone => r = cxCall[w].reply)
      BY <3>2, CallTypes
    <3>4. a \in Answer /\ (a = NoAnswer => cxCall[w].answer = NoAnswer)
      BY CallTypes, FailedAnswer
    <3> HIDE DEF r, a
    <3>5. cxCall[w] \in Call
      BY CallTypes
    <3>6. /\ cxCall'[w] \in Call
          /\ cxCall'[w].pc = cxCall[w].pc /\ cxCall'[w].gen = cxCall[w].gen
          /\ cxCall'[w].known = cxCall[w].known /\ cxCall'[w].cancelled = cxCall[w].cancelled
          /\ cxCall'[w].reply = r /\ cxCall'[w].answer = a
      BY <3>1, <3>3, <3>4, <3>5 DEF Call
    <3>7. QED BY <3>3, <3>4, <3>6
  <2>2. cxCall' = [w \in CxCallers |-> cxCall'[w]]
    BY DEF Close
  <2> HIDE DEF gone
  <2>3. cxCall' \in [CxCallers -> Call]
    BY <2>1, <2>2
  <2>4. QED BY <2>1, <2>3
<1>4. \A g \in CxGens : g \in gone <=> cxGen[g].listed /\ ~cxGen[g].retired
  OBVIOUS
<1> HIDE DEF gone
<1>5. \A h \in CxGens : Turns(h)' = Turns(h)
  BY <1>3 DEF Turns, GenOf
<1>6. \A h \in CxGens : h # CxNone
  BY CodexClientAssumption DEF CxGens
<1>7. CxShape'
  BY <1>1, <1>2, <1>3 DEF CxShape, CxTypeOK
<1>8. InOrder'
  BY <1>1, <1>2, <1>3, GenOfFacts DEF InOrder, Spawned
<1>9. NotStarted'
  BY <1>1, <1>2, <1>3, <1>6 DEF NotStarted
<1>10. WayOut'
  BY <1>1, <1>2, <1>3, GenOfFacts DEF WayOut
<1>11. Current'
  BY <1>1, <1>2, <1>3, <1>6 DEF Current
<1>12. UpIsKnown'
  BY <1>1, <1>2, <1>3, <1>4 DEF UpIsKnown, GenOf, Up, Current, WayOut
<1>13. StartLock'
  BY <1>1, <1>2, <1>3, CodexClientAssumption, GenOfFacts DEF StartLock, Up, CxShape, CxTypeOK
<1>14. HasGeneration'
  BY <1>1, <1>2, <1>3, CallTypes DEF HasGeneration, GenOf
<1>15. Registering'
  BY <1>1, <1>2, <1>3, <1>4, <1>6, GenOfFacts DEF Registering, GenOf
<1>16. OwnGeneration'
  BY <1>1, <1>2, <1>3, CodexClientAssumption, GenOfFacts DEF OwnGeneration, GenOf, StartLock
<1>17. TurnsCounted'
  BY <1>1, <1>2, <1>3, <1>5, GenOfFacts DEF TurnsCounted
<1>18. ActiveFits'
  BY <1>1, <1>2, <1>3, GenTypes, GenOfFacts DEF ActiveFits, GenOf
<1>19. PendingFits'
  BY <1>1, <1>2, <1>3, GenTypes, GenOfFacts DEF PendingFits, GenOf, Asked, Methods
<1>20. Asked'
  BY <1>1, <1>2, <1>3, GenOfFacts DEF Asked
<1>21. WireFits'
  BY <1>1, <1>2, <1>3, WireTypes, GenOfFacts DEF WireFits, GenOf
<1>22. RepliesFit'
  BY <1>1, <1>2, <1>3, GenOfFacts DEF RepliesFit
<1>23. DrainIsFinal'
  BY <1>1, <1>2, <1>3, <1>6, GenOfFacts DEF DrainIsFinal, GenOf
<1>24. DrainEnds'
  BY <1>1, <1>2, <1>3, GenOfFacts DEF DrainEnds, GenOf, Asked
<1>25. TurnsNotCutShort'
  BY <1>1, <1>2, <1>3, GenOfFacts DEF TurnsNotCutShort, Locked, GenOf
<1>26. Completed'
  BY <1>1, <1>2, <1>3, CompletedKept DEF Completed, GenOf, ClientInv
<1>27. Abandoned'
  BY <1>1, <1>2, <1>3, GenOfFacts DEF Abandoned, Asked, GenOf, Up
<1>28. QED BY <1>7, <1>8, <1>9, <1>10, <1>11, <1>12, <1>13, <1>14, <1>15, <1>16, <1>17, <1>18,
            <1>19,
            <1>20, <1>21, <1>22, <1>23, <1>24, <1>25, <1>26, <1>27

-----------------------------------------------------------------------------
(* The stream.                                                             *)

\* The rest of a sequence.
LEMMA TailFacts ==
  ASSUME NEW S, NEW s \in Seq(S), s # <<>>
  PROVE  /\ Tail(s) \in Seq(S) /\ 1 \in DOMAIN s /\ Head(s) = s[1] /\ s[1] \in S
         /\ \A i \in DOMAIN Tail(s) : i + 1 \in DOMAIN s /\ Tail(s)[i] = s[i + 1]
         /\ \A i \in DOMAIN s : i # 1 => i - 1 \in DOMAIN Tail(s) /\ Tail(s)[i - 1] = s[i]
OBVIOUS

\* Two sequences, one after the other.
LEMMA ConcatFacts ==
  ASSUME NEW S, NEW s \in Seq(S), NEW t \in Seq(S)
  PROVE  /\ s \o t \in Seq(S)
         /\ \A i \in DOMAIN s : i \in DOMAIN (s \o t) /\ (s \o t)[i] = s[i]
         /\ \A i \in DOMAIN t : Len(s) + i \in DOMAIN (s \o t) /\ (s \o t)[Len(s) + i] = t[i]
         /\ \A i \in DOMAIN (s \o t) :
              \/ i \in DOMAIN s /\ (s \o t)[i] = s[i]
              \/ \E j \in DOMAIN t : (s \o t)[i] = t[j]
<1>1. DOMAIN s = 1..Len(s) /\ DOMAIN t = 1..Len(t) /\ Len(s) \in Nat /\ Len(t) \in Nat
  OBVIOUS
<1>2. s \o t \in Seq(S) /\ DOMAIN (s \o t) = 1..(Len(s) + Len(t))
  OBVIOUS
<1>3. \A i \in DOMAIN s : i \in DOMAIN (s \o t) /\ (s \o t)[i] = s[i]
  BY <1>1, <1>2
<1>4. \A i \in DOMAIN t : Len(s) + i \in DOMAIN (s \o t) /\ (s \o t)[Len(s) + i] = t[i]
  BY <1>1, <1>2
<1>5. ASSUME NEW i \in DOMAIN (s \o t), i \notin DOMAIN s
      PROVE  \E j \in DOMAIN t : (s \o t)[i] = t[j]
  <2>1. i - Len(s) \in DOMAIN t /\ (s \o t)[i] = t[i - Len(s)]
    BY <1>1, <1>2, <1>5
  <2>2. QED BY <2>1
<1>6. QED BY <1>2, <1>3, <1>4, <1>5

\* The process writes the lines M.
Writes(g, M) ==
  /\ cxStream' \in [CxGens -> Seq(Message)]
  /\ \A h \in CxGens : h # g => cxStream'[h] = cxStream[h]
  /\ \A i \in DOMAIN cxStream[g] :
       i \in DOMAIN cxStream'[g] /\ cxStream'[g][i] = cxStream[g][i]
  /\ \A i \in DOMAIN cxStream'[g] :
       \/ i \in DOMAIN cxStream[g] /\ cxStream'[g][i] = cxStream[g][i]
       \/ cxStream'[g][i] \in M
  /\ \A m \in M : \E i \in DOMAIN cxStream'[g] : cxStream'[g][i] = m

\* The process appends lines to its stream.
LEMMA WritesFacts ==
  ASSUME CxShape, NEW g \in CxGens, NEW t \in Seq(Message),
         cxStream' = [cxStream EXCEPT ![g] = cxStream[g] \o t]
  PROVE  Writes(g, {t[i] : i \in DOMAIN t})
<1>1. cxStream[g] \in Seq(Message) /\ cxStream \in [CxGens -> Seq(Message)]
  BY DEF CxShape
<1>2. cxStream'[g] = cxStream[g] \o t /\ \A h \in CxGens : h # g => cxStream'[h] = cxStream[h]
  BY <1>1
<1>3. cxStream[g] \o t \in Seq(Message)
  BY <1>1, ConcatFacts
<1>4. cxStream' \in [CxGens -> Seq(Message)]
  BY <1>1, <1>3
<1> DEFINE s == cxStream[g]
           M == {t[i] : i \in DOMAIN t}
<1>5. /\ \A i \in DOMAIN s : i \in DOMAIN (s \o t) /\ (s \o t)[i] = s[i]
      /\ \A i \in DOMAIN t : Len(s) + i \in DOMAIN (s \o t) /\ (s \o t)[Len(s) + i] = t[i]
      /\ \A i \in DOMAIN (s \o t) :
           \/ i \in DOMAIN s /\ (s \o t)[i] = s[i]
           \/ \E j \in DOMAIN t : (s \o t)[i] = t[j]
  BY <1>1, ConcatFacts
<1>6. /\ \A i \in DOMAIN s : i \in DOMAIN cxStream'[g] /\ cxStream'[g][i] = s[i]
      /\ \A i \in DOMAIN cxStream'[g] :
           (i \in DOMAIN s /\ cxStream'[g][i] = s[i]) \/ cxStream'[g][i] \in M
      /\ \A m \in M : \E i \in DOMAIN cxStream'[g] : cxStream'[g][i] = m
  <2> DEFINE r == s \o t
  <2>1. cxStream'[g] = r
    BY <1>2
  <2> HIDE DEF r
  <2>2. /\ \A i \in DOMAIN s : i \in DOMAIN r /\ r[i] = s[i]
        /\ \A i \in DOMAIN t : Len(s) + i \in DOMAIN r /\ r[Len(s) + i] = t[i]
        /\ \A i \in DOMAIN r : (i \in DOMAIN s /\ r[i] = s[i]) \/ \E j \in DOMAIN t : r[i] = t[j]
    BY <1>5 DEF r
  <2>3. /\ \A i \in DOMAIN r : (i \in DOMAIN s /\ r[i] = s[i]) \/ r[i] \in M
        /\ \A m \in M : \E i \in DOMAIN r : r[i] = m
    BY <2>2
  <2>4. QED BY <2>1, <2>2, <2>3
<1>7. QED BY <1>2, <1>4, <1>6 DEF Writes

\* What the lines that a process writes are about.
LEMMA ShapeWritten ==
  ASSUME CxShape, NEW g \in CxGens, NEW M, Writes(g, M),
         \A m \in M : /\ m \in Message
                      /\ m.kind = "completed" => m.answer.of \in CxCallers
                         /\ m.answer.status # "none"
  PROVE  \A h \in CxGens : \A i \in DOMAIN cxStream'[h] :
           /\ cxStream'[h][i] \in Message
           /\ cxStream'[h][i].kind = "completed" =>
                cxStream'[h][i].answer.of \in CxCallers /\ cxStream'[h][i].answer.status # "none"
<1>1. SUFFICES ASSUME NEW h \in CxGens, NEW i \in DOMAIN cxStream'[h]
               PROVE  /\ cxStream'[h][i] \in Message
                      /\ cxStream'[h][i].kind = "completed" =>
                           /\ cxStream'[h][i].answer.of \in CxCallers
                           /\ cxStream'[h][i].answer.status # "none"
  OBVIOUS
<1>2. (i \in DOMAIN cxStream[h] /\ cxStream'[h][i] = cxStream[h][i]) \/ cxStream'[h][i] \in M
  BY DEF Writes
<1>3. QED BY <1>2 DEF CxShape, CxTypeOK

\* A reply that a turn was started is written once it runs.
LEMMA RepliesWritten ==
  ASSUME ClientInv, NEW g \in CxGens, NEW M, Writes(g, M),
         \A w \in CxCallers : cxTurn[w] # "none" => cxTurn'[w] # "none",
         \A m \in M, w \in CxCallers :
           m.kind = "reply" /\ m.req = <<w, "turn">> /\ m.ok => cxTurn'[w] # "none"
  PROVE  RepliesFit'
<1>1. SUFFICES ASSUME NEW h \in CxGens, NEW w \in CxCallers, NEW i \in DOMAIN cxStream'[h],
                      cxStream'[h][i].kind = "reply", cxStream'[h][i].req = <<w, "turn">>,
                      cxStream'[h][i].ok
               PROVE  cxTurn'[w] # "none"
  BY DEF RepliesFit
<1>2. (i \in DOMAIN cxStream[h] /\ cxStream'[h][i] = cxStream[h][i]) \/ cxStream'[h][i] \in M
  BY DEF Writes
<1>3. QED BY <1>1, <1>2 DEF ClientInv, RepliesFit

\* A turn that is over has its completion on the stream.
LEMMA CompletedWritten ==
  ASSUME ClientInv, NEW g \in CxGens, NEW M, Writes(g, M), UNCHANGED <<cxGen, cxCall>>,
         \A w \in CxCallers : cxTurn'[w] = "over" =>
           \/ cxTurn[w] = "over"
           \/ GenOf(w) = g /\ \E m \in M : m.kind = "completed" /\ m.answer.of = w
  PROVE  Completed'
<1>1. SUFFICES ASSUME NEW w \in CxCallers, cxCall[w].pc \in {"turn", "wait"},
                      cxTurn'[w] = "over", cxCall[w].answer = NoAnswer,
                      ~cxGen[GenOf(w)].closing
               PROVE  \E i \in DOMAIN cxStream'[GenOf(w)] :
                        /\ cxStream'[GenOf(w)][i].kind = "completed"
                        /\ cxStream'[GenOf(w)][i].answer.of = w
  BY DEF Completed, GenOf
<1>2. GenOf(w) \in CxGens
  BY <1>1, GenOfFacts
<1>3. CASE cxTurn[w] = "over"
  <2>1. PICK i \in DOMAIN cxStream[GenOf(w)] :
          cxStream[GenOf(w)][i].kind = "completed" /\ cxStream[GenOf(w)][i].answer.of = w
    BY <1>1, <1>3 DEF ClientInv, Completed
  <2>2. i \in DOMAIN cxStream'[GenOf(w)] /\ cxStream'[GenOf(w)][i] = cxStream[GenOf(w)][i]
    BY <1>2, <2>1 DEF Writes
  <2>3. QED BY <2>1, <2>2
<1>4. CASE GenOf(w) = g /\ \E m \in M : m.kind = "completed" /\ m.answer.of = w
  <2>1. PICK m \in M : m.kind = "completed" /\ m.answer.of = w
    BY <1>4
  <2>2. PICK i \in DOMAIN cxStream'[g] : cxStream'[g][i] = m
    BY <2>1 DEF Writes
  <2>3. QED BY <1>4, <2>1, <2>2
<1>5. QED BY <1>1, <1>3, <1>4

\* The lines a process writes.
LEMMA MessageFacts ==
  /\ \A r \in Ordered, ok \in BOOLEAN :
       /\ Replied(r, ok) \in Message /\ Replied(r, ok).kind = "reply"
       /\ Replied(r, ok).req = r /\ Replied(r, ok).ok = ok
  /\ \A w \in CxCallers, s \in {"completed", "interrupted"} :
       /\ Completion(w, s) \in Message /\ Completion(w, s).kind = "completed"
       /\ Completion(w, s).answer.of = w /\ Completion(w, s).answer.status = s
  /\ [kind |-> "garbage"] \in Message /\ [kind |-> "garbage"].kind = "garbage"
<1>1. ASSUME NEW r \in Ordered, NEW ok \in BOOLEAN
      PROVE  /\ Replied(r, ok) \in Message /\ Replied(r, ok).kind = "reply"
             /\ Replied(r, ok).req = r /\ Replied(r, ok).ok = ok
  BY DEF Replied, Message
<1>2. ASSUME NEW w \in CxCallers, NEW s \in {"completed", "interrupted"}
      PROVE  /\ Completion(w, s) \in Message /\ Completion(w, s).kind = "completed"
             /\ Completion(w, s).answer.of = w /\ Completion(w, s).answer.status = s
  BY DEF Completion, Message, Answer
<1>3. [kind |-> "garbage"] \in Message
  BY DEF Message
<1>4. QED BY <1>1, <1>2, <1>3

\* The process starts a turn, or refuses to.
LEMMA ProcessStartsStep ==
  ASSUME ClientInv, NEW g \in CxGens, NEW w \in CxCallers, ProcessStarts(g, w)
  PROVE  ClientInv'
<1> USE DEF ClientInv
<1>1. /\ Up(g) /\ <<w, "turn">> \in cxWire[g]
      /\ UNCHANGED <<cxGen, cxCurrent, cxClosed, cxStarting, cxCall>>
      /\ cxWire' \in [CxGens -> SUBSET Ordered]
      /\ \A h \in CxGens : h # g => cxWire'[h] = cxWire[h]
      /\ cxWire'[g] = cxWire[g] \ {<<w, "turn">>}
  <2>1. cxWire' = [cxWire EXCEPT ![g] = cxWire[g] \ {<<w, "turn">>}]
        /\ cxWire \in [CxGens -> SUBSET Ordered]
    BY DEF ProcessStarts, CxShape, CxTypeOK
  <2>2. QED BY <2>1 DEF ProcessStarts
<1>2. PICK ok \in BOOLEAN :
        /\ cxStream' = [cxStream EXCEPT ![g] = Append(cxStream[g], Replied(<<w, "turn">>, ok))]
        /\ cxTurn' = [cxTurn EXCEPT ![w] = IF ok THEN "running" ELSE cxTurn[w]]
        /\ IF ok THEN UNCHANGED cxFaults ELSE Fault
  BY DEF ProcessStarts
<1>3. /\ cxTurn' \in [CxCallers -> {"none", "running", "over"}]
      /\ \A v \in CxCallers : v # w => cxTurn'[v] = cxTurn[v]
      /\ cxTurn'[w] = IF ok THEN "running" ELSE cxTurn[w]
      /\ cxFaults' \in 0..CxMaxFaults
  <2>1. cxTurn \in [CxCallers -> {"none", "running", "over"}] /\ cxFaults \in 0..CxMaxFaults
    BY DEF CxShape, CxTypeOK
  <2>2. cxTurn' \in [CxCallers -> {"none", "running", "over"}]
        /\ (\A v \in CxCallers : v # w => cxTurn'[v] = cxTurn[v])
        /\ cxTurn'[w] = IF ok THEN "running" ELSE cxTurn[w]
    BY <1>2, <2>1
  <2>3. cxFaults' \in 0..CxMaxFaults
    BY <1>2, <2>1, CodexClientAssumption DEF Fault
  <2>4. QED BY <2>2, <2>3
<1> DEFINE m == Replied(<<w, "turn">>, ok)
<1>4. m \in Message /\ m.kind = "reply" /\ m.req = <<w, "turn">> /\ m.ok = ok
  BY MessageFacts DEF Ordered
<1> HIDE DEF m
<1>5. Writes(g, {m})
  <2>1. /\ <<m>> \in Seq(Message) /\ {<<m>>[i] : i \in DOMAIN <<m>>} = {m}
        /\ Append(cxStream[g], m) = cxStream[g] \o <<m>>
    BY <1>4 DEF CxShape
  <2>2. cxStream' = [cxStream EXCEPT ![g] = cxStream[g] \o <<m>>]
    BY <1>2, <2>1 DEF m
  <2>3. QED BY <2>1, <2>2, WritesFacts
<1>6. /\ cxTurn[w] = "none" /\ GenOf(w) = g /\ ~cxCall[w].known
      /\ cxCall[w].pc \in {"turn", "wait", "stop", "leave", "over"}
  <2>1. /\ GenOf(w) = g /\ cxCall[w].pc \in {"turn", "wait", "stop", "leave", "over"}
        /\ cxTurn[w] = "none"
    <3>1. <<w, "turn">>[1] = w /\ <<w, "turn">>[2] = "turn"
      OBVIOUS
    <3>2. QED BY <1>1, <3>1 DEF WireFits
  <2>2. QED BY <2>1 DEF Asked
<1>7. \A h \in CxGens : Turns(h)' = Turns(h)
  BY <1>1 DEF Turns, GenOf
<1>8. CxShape'
  <2>1. \A h \in CxGens : \A i \in DOMAIN cxStream'[h] :
          /\ cxStream'[h][i] \in Message
          /\ cxStream'[h][i].kind = "completed" =>
               cxStream'[h][i].answer.of \in CxCallers /\ cxStream'[h][i].answer.status # "none"
    BY <1>1, <1>3, <1>4, <1>5, ShapeWritten
  <2>2. cxStream' \in [CxGens -> Seq(Message)]
    BY <1>1, <1>3, <1>4, <1>5 DEF Writes
  <2>3. QED BY <1>1, <1>3, <1>4, <1>5, <2>1, <2>2 DEF CxShape, CxTypeOK
<1>9. InOrder'
  BY <1>1, <1>3, <1>4, <1>5, <1>6, GenOfFacts DEF InOrder, Spawned
<1>10. NotStarted'
  BY <1>1, <1>3, <1>4, <1>5, <1>6 DEF NotStarted, Writes, Up, NoGeneration
<1>11. WayOut'
  BY <1>1, <1>3, <1>4, <1>5, <1>6, GenOfFacts DEF WayOut
<1>12. Current'
  BY <1>1, <1>3, <1>4, <1>5, <1>6, GenOfFacts DEF Current
<1>13. UpIsKnown'
  BY <1>1, <1>3, <1>4, <1>5, <1>6, GenOfFacts DEF UpIsKnown, GenOf, Up
<1>14. StartLock'
  BY <1>1, <1>3, <1>4, <1>5, <1>6, CodexClientAssumption, GenOfFacts DEF StartLock, Up, CxShape,
    CxTypeOK
<1>15. HasGeneration'
  BY <1>1, <1>3, <1>4, <1>5, <1>6, GenOfFacts DEF HasGeneration, GenOf, NotStarted, CxShape,
    CxTypeOK
<1>16. Registering'
  BY <1>1, <1>3, <1>4, <1>5, <1>6, GenOfFacts DEF Registering, GenOf
<1>17. OwnGeneration'
  BY <1>1, <1>3, <1>4, <1>5, <1>6, CodexClientAssumption, GenOfFacts DEF OwnGeneration, GenOf,
    StartLock
<1>18. TurnsCounted'
  BY <1>1, <1>3, <1>4, <1>5, <1>6, <1>7, GenOfFacts DEF TurnsCounted
<1>19. ActiveFits'
  BY <1>1, <1>3, <1>4, <1>5, <1>6, GenTypes, GenOfFacts DEF ActiveFits, GenOf
<1>20. PendingFits'
  BY <1>1, <1>3, <1>4, <1>5, <1>6, GenTypes, GenOfFacts DEF PendingFits, GenOf, Asked, Methods
<1>21. Asked'
  BY <1>1, <1>3, <1>4, <1>5, <1>6, GenOfFacts DEF Asked
<1>22. WireFits'
  BY <1>1, <1>3, <1>4, <1>5, <1>6, WireTypes DEF WireFits, GenOf, Ordered
<1>23. RepliesFit'
  BY <1>1, <1>3, <1>4, <1>5, <1>6, RepliesWritten DEF RepliesFit, ClientInv
<1>24. DrainIsFinal'
  BY <1>1, <1>3, <1>4, <1>5, <1>6, GenOfFacts DEF DrainIsFinal, GenOf
<1>25. DrainEnds'
  BY <1>1, <1>3, <1>4, <1>5, <1>6, GenOfFacts DEF DrainEnds, GenOf, Asked
<1>26. TurnsNotCutShort'
  BY <1>1, <1>3, <1>4, <1>5, <1>6, GenOfFacts DEF TurnsNotCutShort, Locked, GenOf
<1>27. Completed'
  BY <1>1, <1>3, <1>4, <1>5, <1>6, CompletedWritten DEF Completed, GenOf, ClientInv
<1>28. Abandoned'
  BY <1>1, <1>3, <1>4, <1>5, <1>6, GenOfFacts DEF Abandoned, Asked, GenOf, Up
<1>29. QED BY <1>8, <1>9, <1>10, <1>11, <1>12, <1>13, <1>14, <1>15, <1>16, <1>17, <1>18, <1>19,
            <1>20,
            <1>21, <1>22, <1>23, <1>24, <1>25, <1>26, <1>27, <1>28

\* The process completes a turn.
LEMMA ProcessCompletesStep ==
  ASSUME ClientInv, NEW g \in CxGens, NEW w \in CxCallers, ProcessCompletes(g, w)
  PROVE  ClientInv'
<1> USE DEF ClientInv
<1>1. /\ Up(g) /\ GenOf(w) = g /\ cxTurn[w] = "running"
      /\ UNCHANGED <<cxGen, cxCurrent, cxClosed, cxStarting, cxCall, cxWire, cxFaults>>
  BY DEF ProcessCompletes
<1>2. /\ cxTurn' \in [CxCallers -> {"none", "running", "over"}]
      /\ \A v \in CxCallers : v # w => cxTurn'[v] = cxTurn[v]
      /\ cxTurn'[w] = "over"
  <2>1. cxTurn \in [CxCallers -> {"none", "running", "over"}]
        /\ cxTurn' = [cxTurn EXCEPT ![w] = "over"]
    BY DEF CxShape, CxTypeOK, ProcessCompletes
  <2>2. QED BY <2>1
<1> DEFINE m == Completion(w, "completed")
<1>3. m \in Message /\ m.kind = "completed" /\ m.answer.of = w /\ m.answer.status = "completed"
  BY MessageFacts
<1> HIDE DEF m
<1>4. Writes(g, {m})
  <2>1. /\ <<m>> \in Seq(Message) /\ {<<m>>[i] : i \in DOMAIN <<m>>} = {m}
        /\ Append(cxStream[g], m) = cxStream[g] \o <<m>>
    BY <1>3 DEF CxShape
  <2>2. cxStream' = [cxStream EXCEPT ![g] = cxStream[g] \o <<m>>]
    BY <2>1 DEF m, ProcessCompletes
  <2>3. QED BY <2>1, <2>2, WritesFacts
<1>5. \A h \in CxGens : Turns(h)' = Turns(h)
  BY <1>1 DEF Turns, GenOf
<1>6. CxShape'
  <2>1. \A h \in CxGens : \A i \in DOMAIN cxStream'[h] :
          /\ cxStream'[h][i] \in Message
          /\ cxStream'[h][i].kind = "completed" =>
               cxStream'[h][i].answer.of \in CxCallers /\ cxStream'[h][i].answer.status # "none"
    BY <1>1, <1>2, <1>3, <1>4, ShapeWritten
  <2>2. cxStream' \in [CxGens -> Seq(Message)]
    BY <1>1, <1>2, <1>3, <1>4 DEF Writes
  <2>3. QED BY <1>1, <1>2, <1>3, <1>4, <2>1, <2>2 DEF CxShape, CxTypeOK
<1>7. InOrder'
  BY <1>1, <1>2, <1>3, <1>4, GenOfFacts DEF InOrder, Spawned
<1>8. NotStarted'
  BY <1>1, <1>2, <1>3, <1>4 DEF NotStarted, Writes, Up, NoGeneration
<1>9. WayOut'
  BY <1>1, <1>2, <1>3, <1>4, GenOfFacts DEF WayOut
<1>10. Current'
  BY <1>1, <1>2, <1>3, <1>4, GenOfFacts DEF Current
<1>11. UpIsKnown'
  BY <1>1, <1>2, <1>3, <1>4, GenOfFacts DEF UpIsKnown, GenOf, Up
<1>12. StartLock'
  BY <1>1, <1>2, <1>3, <1>4, CodexClientAssumption, GenOfFacts DEF StartLock, Up, CxShape,
    CxTypeOK
<1>13. HasGeneration'
  BY <1>1, <1>2, <1>3, <1>4, GenOfFacts DEF HasGeneration, GenOf, NotStarted, CxShape, CxTypeOK
<1>14. Registering'
  BY <1>1, <1>2, <1>3, <1>4, GenOfFacts DEF Registering, GenOf
<1>15. OwnGeneration'
  BY <1>1, <1>2, <1>3, <1>4, CodexClientAssumption, GenOfFacts DEF OwnGeneration, GenOf, StartLock
<1>16. TurnsCounted'
  BY <1>1, <1>2, <1>3, <1>4, <1>5, GenOfFacts DEF TurnsCounted
<1>17. ActiveFits'
  BY <1>1, <1>2, <1>3, <1>4, GenTypes, GenOfFacts DEF ActiveFits, GenOf
<1>18. PendingFits'
  BY <1>1, <1>2, <1>3, <1>4, GenTypes, GenOfFacts DEF PendingFits, GenOf, Asked, Methods
<1>19. Asked'
  BY <1>1, <1>2, <1>3, <1>4, GenOfFacts DEF Asked
<1>20. WireFits'
  BY <1>1, <1>2, <1>3, <1>4, WireTypes DEF WireFits, GenOf
<1>21. RepliesFit'
  BY <1>1, <1>2, <1>3, <1>4, RepliesWritten DEF RepliesFit, ClientInv
<1>22. DrainIsFinal'
  BY <1>1, <1>2, <1>3, <1>4, GenOfFacts DEF DrainIsFinal, GenOf
<1>23. DrainEnds'
  BY <1>1, <1>2, <1>3, <1>4, GenOfFacts DEF DrainEnds, GenOf, Asked
<1>24. TurnsNotCutShort'
  BY <1>1, <1>2, <1>3, <1>4, GenOfFacts DEF TurnsNotCutShort, Locked, GenOf
<1>25. Completed'
  BY <1>1, <1>2, <1>3, <1>4, CompletedWritten DEF Completed, GenOf, ClientInv
<1>26. Abandoned'
  BY <1>1, <1>2, <1>3, <1>4, GenOfFacts DEF Abandoned, Asked, GenOf, Up
<1>27. QED BY <1>6, <1>7, <1>8, <1>9, <1>10, <1>11, <1>12, <1>13, <1>14, <1>15, <1>16, <1>17,
            <1>18,
            <1>19, <1>20, <1>21, <1>22, <1>23, <1>24, <1>25, <1>26

\* The process writes an invalid line.
LEMMA ProcessGarblesStep ==
  ASSUME ClientInv, NEW g \in CxGens, ProcessGarbles(g)
  PROVE  ClientInv'
<1> USE DEF ClientInv
<1>1. /\ Up(g) /\ UNCHANGED <<cxGen, cxCurrent, cxClosed, cxStarting, cxCall, cxWire, cxTurn>>
      /\ cxFaults' \in 0..CxMaxFaults
  BY CodexClientAssumption DEF ProcessGarbles, Fault, CxShape, CxTypeOK
<1> DEFINE m == [kind |-> "garbage"]
<1>2. m \in Message /\ m.kind = "garbage"
  BY MessageFacts
<1> HIDE DEF m
<1>3. Writes(g, {m})
  <2>1. /\ <<m>> \in Seq(Message) /\ {<<m>>[i] : i \in DOMAIN <<m>>} = {m}
    BY <1>2
  <2>2. cxStream' = [cxStream EXCEPT ![g] = cxStream[g] \o <<m>>]
    <3>1. cxStream' = [cxStream EXCEPT ![g] = <<m>>] /\ cxStream[g] = <<>>
      BY DEF ProcessGarbles, m
    <3>2. <<>> \o <<m>> = <<m>>
      OBVIOUS
    <3>3. QED BY <3>1, <3>2
  <2>3. QED BY <2>1, <2>2, WritesFacts
<1>4. \A h \in CxGens : Turns(h)' = Turns(h)
  BY <1>1 DEF Turns, GenOf
<1>5. CxShape'
  <2>1. \A h \in CxGens : \A i \in DOMAIN cxStream'[h] :
          /\ cxStream'[h][i] \in Message
          /\ cxStream'[h][i].kind = "completed" =>
               cxStream'[h][i].answer.of \in CxCallers /\ cxStream'[h][i].answer.status # "none"
    BY <1>1, <1>2, <1>3, ShapeWritten
  <2>2. cxStream' \in [CxGens -> Seq(Message)]
    BY <1>1, <1>2, <1>3 DEF Writes
  <2>3. QED BY <1>1, <1>2, <1>3, <2>1, <2>2 DEF CxShape, CxTypeOK
<1>6. InOrder'
  BY <1>1, <1>2, <1>3, GenOfFacts DEF InOrder, Spawned
<1>7. NotStarted'
  BY <1>1, <1>2, <1>3 DEF NotStarted, Writes, Up, NoGeneration
<1>8. WayOut'
  BY <1>1, <1>2, <1>3, GenOfFacts DEF WayOut
<1>9. Current'
  BY <1>1, <1>2, <1>3, GenOfFacts DEF Current
<1>10. UpIsKnown'
  BY <1>1, <1>2, <1>3, GenOfFacts DEF UpIsKnown, GenOf, Up
<1>11. StartLock'
  BY <1>1, <1>2, <1>3, CodexClientAssumption, GenOfFacts DEF StartLock, Up, CxShape, CxTypeOK
<1>12. HasGeneration'
  BY <1>1, <1>2, <1>3, GenOfFacts DEF HasGeneration, GenOf, NotStarted, CxShape, CxTypeOK
<1>13. Registering'
  BY <1>1, <1>2, <1>3, GenOfFacts DEF Registering, GenOf
<1>14. OwnGeneration'
  BY <1>1, <1>2, <1>3, CodexClientAssumption, GenOfFacts DEF OwnGeneration, GenOf, StartLock
<1>15. TurnsCounted'
  BY <1>1, <1>2, <1>3, <1>4, GenOfFacts DEF TurnsCounted
<1>16. ActiveFits'
  BY <1>1, <1>2, <1>3, GenTypes, GenOfFacts DEF ActiveFits, GenOf
<1>17. PendingFits'
  BY <1>1, <1>2, <1>3, GenTypes, GenOfFacts DEF PendingFits, GenOf, Asked, Methods
<1>18. Asked'
  BY <1>1, <1>2, <1>3, GenOfFacts DEF Asked
<1>19. WireFits'
  BY <1>1, <1>2, <1>3, WireTypes DEF WireFits, GenOf
<1>20. RepliesFit'
  BY <1>1, <1>2, <1>3, RepliesWritten DEF RepliesFit, ClientInv
<1>21. DrainIsFinal'
  BY <1>1, <1>2, <1>3, GenOfFacts DEF DrainIsFinal, GenOf
<1>22. DrainEnds'
  BY <1>1, <1>2, <1>3, GenOfFacts DEF DrainEnds, GenOf, Asked
<1>23. TurnsNotCutShort'
  BY <1>1, <1>2, <1>3, GenOfFacts DEF TurnsNotCutShort, Locked, GenOf
<1>24. Completed'
  BY <1>1, <1>2, <1>3, CompletedWritten DEF Completed, GenOf, ClientInv
<1>25. Abandoned'
  BY <1>1, <1>2, <1>3, GenOfFacts DEF Abandoned, Asked, GenOf, Up
<1>26. QED BY <1>5, <1>6, <1>7, <1>8, <1>9, <1>10, <1>11, <1>12, <1>13, <1>14, <1>15, <1>16,
            <1>17,
            <1>18, <1>19, <1>20, <1>21, <1>22, <1>23, <1>24, <1>25

\* The process answers an interrupt.
LEMMA ProcessInterruptsStep ==
  ASSUME ClientInv, NEW g \in CxGens, NEW w \in CxCallers,
         NEW m \in {"stop", "cancel"}, ProcessInterrupts(g, <<w, m>>)
  PROVE  ClientInv'
<1> USE DEF ClientInv
<1> DEFINE req == <<w, m>>
<1>0. req \in Requests /\ req \in Ordered /\ req[1] = w /\ req[2] = m
  BY DEF Requests, Ordered, Methods
<1> HIDE DEF req
<1>1. /\ Up(g) /\ req \in cxWire[g]
      /\ UNCHANGED <<cxGen, cxCurrent, cxClosed, cxStarting, cxCall, cxFaults>>
      /\ cxWire' \in [CxGens -> SUBSET Ordered]
      /\ \A h \in CxGens : h # g => cxWire'[h] = cxWire[h]
      /\ cxWire'[g] = cxWire[g] \ {req}
  <2>1. cxWire' = [cxWire EXCEPT ![g] = cxWire[g] \ {req}] /\ cxWire \in [CxGens -> SUBSET Ordered]
    BY DEF ProcessInterrupts, CxShape, CxTypeOK, req
  <2>2. QED BY <2>1 DEF ProcessInterrupts, req
<1>2. /\ cxTurn' \in [CxCallers -> {"none", "running", "over"}]
      /\ \A v \in CxCallers : v # w => cxTurn'[v] = cxTurn[v]
      /\ cxTurn'[w] = IF cxTurn[w] = "running" THEN "over" ELSE cxTurn[w]
  <2>1. cxTurn \in [CxCallers -> {"none", "running", "over"}]
        /\ cxTurn' = [cxTurn EXCEPT ![w] = IF cxTurn[w] = "running" THEN "over" ELSE cxTurn[w]]
    BY <1>0 DEF CxShape, CxTypeOK, ProcessInterrupts, req
  <2>2. QED BY <2>1
<1> DEFINE a == Replied(req, TRUE)
           b == Completion(w, "interrupted")
<1>3. /\ a \in Message /\ a.kind = "reply" /\ a.req = req
      /\ b \in Message /\ b.kind = "completed" /\ b.answer.of = w /\ b.answer.status = "interrupted"
  BY <1>0, MessageFacts
<1>4. PICK t \in {<<a, b>>, <<b, a>>, <<a>>} :
        /\ cxStream' = [cxStream EXCEPT ![g] = cxStream[g] \o t]
        /\ cxTurn[w] = "running" => t # <<a>>
  <2>1. \E t \in IF cxTurn[w] = "running" THEN {<<a, b>>, <<b, a>>} ELSE {<<a>>} :
          cxStream' = [cxStream EXCEPT ![g] = cxStream[g] \o t]
    BY <1>0 DEF ProcessInterrupts, req
  <2> HIDE DEF a, b
  <2>2. <<a, b>> # <<a>> /\ <<b, a>> # <<a>>
    OBVIOUS
  <2>3. QED BY <2>1, <2>2
<1> HIDE DEF a, b
<1>5. PICK M \in SUBSET {a, b} :
        Writes(g, M) /\ (cxTurn[w] = "running" => b \in M)
  <2> DEFINE M == {t[i] : i \in DOMAIN t}
  <2>1. t \in Seq(Message) /\ M \in SUBSET {a, b}
    <3>1. CASE t = <<a, b>>
      BY <1>3, <3>1
    <3>2. CASE t = <<b, a>>
      BY <1>3, <3>2
    <3>3. CASE t = <<a>>
      BY <1>3, <3>3
    <3>4. QED BY <1>4, <3>1, <3>2, <3>3
  <2>2. t # <<a>> => b \in M
    <3>1. CASE t = <<a, b>>
      <4>1. 2 \in DOMAIN t /\ t[2] = b
        BY <3>1
      <4>2. QED BY <4>1
    <3>2. CASE t = <<b, a>>
      <4>1. 1 \in DOMAIN t /\ t[1] = b
        BY <3>2
      <4>2. QED BY <4>1
    <3>3. QED BY <1>4, <3>1, <3>2
  <2>3. Writes(g, M)
    BY <1>4, <2>1, WritesFacts
  <2> HIDE DEF M
  <2>4. QED BY <1>4, <2>1, <2>2, <2>3
<1>6. GenOf(w) = g /\ req[2] # "turn"
  BY <1>0, <1>1 DEF WireFits
<1>7. \A h \in CxGens : Turns(h)' = Turns(h)
  BY <1>1 DEF Turns, GenOf
<1>9. CxShape'
  <2>1. \A h \in CxGens : \A i \in DOMAIN cxStream'[h] :
          /\ cxStream'[h][i] \in Message
          /\ cxStream'[h][i].kind = "completed" =>
               cxStream'[h][i].answer.of \in CxCallers /\ cxStream'[h][i].answer.status # "none"
    BY <1>1, <1>2, <1>3, <1>5, ShapeWritten
  <2>2. cxStream' \in [CxGens -> Seq(Message)]
    BY <1>1, <1>2, <1>3, <1>5 DEF Writes
  <2>3. QED BY <1>1, <1>2, <1>3, <1>5, <2>1, <2>2 DEF CxShape, CxTypeOK
<1>10. InOrder'
  BY <1>0, <1>1, <1>2, <1>3, <1>5, <1>6, GenOfFacts DEF InOrder, Spawned
<1>11. NotStarted'
  BY <1>0, <1>1, <1>2, <1>3, <1>5, <1>6 DEF NotStarted, Writes, Up, NoGeneration
<1>12. WayOut'
  BY <1>0, <1>1, <1>2, <1>3, <1>5, <1>6, GenOfFacts DEF WayOut
<1>13. Current'
  BY <1>0, <1>1, <1>2, <1>3, <1>5, <1>6, GenOfFacts DEF Current
<1>14. UpIsKnown'
  BY <1>0, <1>1, <1>2, <1>3, <1>5, <1>6, GenOfFacts DEF UpIsKnown, GenOf, Up
<1>15. StartLock'
  BY <1>0, <1>1, <1>2, <1>3, <1>5, <1>6, CodexClientAssumption, GenOfFacts DEF StartLock, Up,
    CxShape, CxTypeOK
<1>16. HasGeneration'
  BY <1>0, <1>1, <1>2, <1>3, <1>5, <1>6, GenOfFacts DEF HasGeneration, GenOf, NotStarted, CxShape,
    CxTypeOK
<1>17. Registering'
  BY <1>0, <1>1, <1>2, <1>3, <1>5, <1>6, GenOfFacts DEF Registering, GenOf
<1>18. OwnGeneration'
  BY <1>0, <1>1, <1>2, <1>3, <1>5, <1>6, CodexClientAssumption, GenOfFacts DEF OwnGeneration,
    GenOf, StartLock
<1>19. TurnsCounted'
  BY <1>0, <1>1, <1>2, <1>3, <1>5, <1>6, <1>7, GenOfFacts DEF TurnsCounted
<1>20. ActiveFits'
  BY <1>0, <1>1, <1>2, <1>3, <1>5, <1>6, GenTypes, GenOfFacts DEF ActiveFits, GenOf
<1>21. PendingFits'
  BY <1>0, <1>1, <1>2, <1>3, <1>5, <1>6, GenTypes, GenOfFacts DEF PendingFits, GenOf, Asked,
    Methods
<1>22. Asked'
  BY <1>0, <1>1, <1>2, <1>3, <1>5, <1>6, GenOfFacts DEF Asked
<1>23. WireFits'
  BY <1>0, <1>1, <1>2, <1>3, <1>5, <1>6, WireTypes, GenOfFacts DEF WireFits, GenOf
<1>24. RepliesFit'
  <2>1. \A v \in CxCallers : req # <<v, "turn">>
    BY <1>6
  <2>2. QED BY <1>2, <1>3, <1>5, <2>1, RepliesWritten DEF ClientInv
<1>25. DrainIsFinal'
  BY <1>0, <1>1, <1>2, <1>3, <1>5, <1>6, GenOfFacts DEF DrainIsFinal, GenOf
<1>26. DrainEnds'
  BY <1>0, <1>1, <1>2, <1>3, <1>5, <1>6, GenOfFacts DEF DrainEnds, GenOf, Asked
<1>27. TurnsNotCutShort'
  BY <1>0, <1>1, <1>2, <1>3, <1>5, <1>6, GenOfFacts DEF TurnsNotCutShort, Locked, GenOf
<1>28. Completed'
  BY <1>0, <1>1, <1>2, <1>3, <1>5, <1>6, CompletedWritten DEF Completed, GenOf, ClientInv
<1>29. Abandoned'
  BY <1>0, <1>1, <1>2, <1>3, <1>5, <1>6, GenOfFacts DEF Abandoned, Asked, GenOf, Up
<1>30. QED BY <1>9, <1>10, <1>11, <1>12, <1>13, <1>14, <1>15, <1>16, <1>17, <1>18, <1>19, <1>20,
            <1>21, <1>22, <1>23, <1>24, <1>25, <1>26, <1>27, <1>28, <1>29

\* The process answers a request that prepares turns.
LEMMA ProcessPreparesStep ==
  ASSUME ClientInv, NEW g \in CxGens, NEW w \in CxCallers,
         NEW m \in {"init", "open"}, ProcessPrepares(g, w, m)
  PROVE  ClientInv'
<1> USE DEF ClientInv
<1>1. /\ <<w, m>> \in cxGen[g].pending /\ m \in {"init", "open"} /\ w \in CxCallers
      /\ UNCHANGED <<cxCurrent, cxClosed, cxStarting, cxWire, cxStream, cxTurn>>
  BY DEF ProcessPrepares
<1>2. PICK ok \in BOOLEAN :
        /\ cxCall' = [cxCall EXCEPT ![w].reply = IF ok THEN "ok" ELSE "error"]
        /\ IF ok THEN UNCHANGED cxFaults ELSE Fault
  BY DEF ProcessPrepares
<1> DEFINE P == cxGen[g].pending \ {<<w, m>>}
<1>3. /\ cxGen' \in [CxGens -> Generation]
      /\ \A h \in CxGens : h # g => cxGen'[h] = cxGen[h]
      /\ cxGen'[g].proc = cxGen[g].proc /\ cxGen'[g].listed = cxGen[g].listed
      /\ cxGen'[g].closing = cxGen[g].closing /\ cxGen'[g].stale = cxGen[g].stale
      /\ cxGen'[g].retired = cxGen[g].retired /\ cxGen'[g].done = cxGen[g].done
      /\ cxGen'[g].turns = cxGen[g].turns /\ cxGen'[g].watched = cxGen[g].watched
      /\ cxGen'[g].eof = cxGen[g].eof /\ cxGen'[g].tearing = cxGen[g].tearing
      /\ cxGen'[g].active = cxGen[g].active
      /\ cxGen'[g].pending = P
  <2>1. P \in SUBSET Requests
    BY <1>1, GenTypes DEF Requests, Methods
  <2>2. cxGen' = [cxGen EXCEPT ![g].pending = P]
    BY <1>1 DEF ProcessPrepares
  <2> HIDE DEF P
  <2>3. QED BY <2>1, <2>2, PendingFacts
<1>4. /\ cxCall' \in [CxCallers -> Call]
      /\ \A v \in CxCallers : v # w => cxCall'[v] = cxCall[v]
      /\ cxCall'[w].pc = cxCall[w].pc /\ cxCall'[w].gen = cxCall[w].gen
      /\ cxCall'[w].known = cxCall[w].known /\ cxCall'[w].answer = cxCall[w].answer
      /\ cxCall'[w].cancelled = cxCall[w].cancelled
  <2> DEFINE r == IF ok THEN "ok" ELSE "error"
  <2>1. cxCall \in [CxCallers -> Call] /\ cxCall[w] \in Call /\ r \in {"none", "ok", "error"}
    BY CallTypes
  <2>2. cxCall' = [cxCall EXCEPT ![w].reply = r]
    BY <1>2
  <2> HIDE DEF r
  <2>3. QED BY <2>1, <2>2 DEF Call
<1>5. /\ GenOf(w) = g /\ cxCall[w].gen = g /\ cxCall[w].pc = m /\ m # "turn"
      /\ cxFaults' \in 0..CxMaxFaults
  <2>1. <<w, m>>[1] = w /\ <<w, m>>[2] = m /\ m # "cancel" /\ m # "turn"
    BY <1>1
  <2>2. GenOf(w) = g /\ cxCall[w].pc = m
    BY <1>1, <2>1 DEF PendingFits
  <2>3. cxFaults' \in 0..CxMaxFaults
    BY <1>2, CodexClientAssumption DEF Fault, CxShape, CxTypeOK
  <2>4. QED BY <2>1, <2>2, <2>3 DEF GenOf
<1>6. \A h \in CxGens : Turns(h)' = Turns(h)
  BY <1>4 DEF Turns, GenOf
<1>7. CxShape'
  BY <1>1, <1>3, <1>4, <1>5 DEF CxShape, CxTypeOK
<1>8. InOrder'
  BY <1>1, <1>3, <1>4, <1>5, GenOfFacts DEF InOrder, Spawned
<1>9. NotStarted'
  BY <1>1, <1>3, <1>4, <1>5 DEF NotStarted, NoGeneration
<1>10. WayOut'
  BY <1>1, <1>3, <1>4, <1>5, GenOfFacts DEF WayOut
<1>11. Current'
  BY <1>1, <1>3, <1>4, <1>5, GenOfFacts DEF Current
<1>12. UpIsKnown'
  BY <1>1, <1>3, <1>4, <1>5, GenOfFacts DEF UpIsKnown, GenOf, Up
<1>13. StartLock'
  <2>1. \A h \in CxGens : cxGen'[h].proc = cxGen[h].proc
    BY <1>3
  <2>2. \A v \in CxCallers : cxCall'[v].pc = cxCall[v].pc
    BY <1>4
  <2>3. QED BY <1>1, <2>1, <2>2, CodexClientAssumption DEF StartLock, Up, CxShape, CxTypeOK
<1>14. HasGeneration'
  BY <1>1, <1>3, <1>4, <1>5, CallTypes DEF HasGeneration, GenOf
<1>15. Registering'
  BY <1>1, <1>3, <1>4, <1>5, GenOfFacts DEF Registering, GenOf
<1>16. OwnGeneration'
  BY <1>1, <1>3, <1>4, <1>5, CodexClientAssumption, GenOfFacts DEF OwnGeneration, GenOf, StartLock
<1>17. TurnsCounted'
  BY <1>1, <1>3, <1>4, <1>5, <1>6, GenOfFacts DEF TurnsCounted
<1>18. ActiveFits'
  BY <1>1, <1>3, <1>4, <1>5, GenTypes, GenOfFacts DEF ActiveFits, GenOf
<1>19. PendingFits'
  <2>1. SUFFICES ASSUME NEW h \in CxGens, NEW r \in cxGen'[h].pending
                 PROVE  /\ GenOf(r[1])' = h
                        /\ r[2] # "cancel" => cxCall'[r[1]].pc = r[2]
                           /\ cxCall'[r[1]].reply = "none"
                        /\ r[2] = "cancel" => cxCall'[r[1]].cancelled
    BY DEF PendingFits
  <2>2. r \in cxGen[h].pending /\ (h = g => r # <<w, m>>)
    BY <1>3
  <2>3. r[1] \in CxCallers /\ r = <<r[1], r[2]>>
    BY <2>2, GenTypes DEF Requests
  <2>4. /\ GenOf(r[1]) = h
        /\ r[2] # "cancel" => cxCall[r[1]].pc = r[2] /\ cxCall[r[1]].reply = "none"
        /\ r[2] = "cancel" => cxCall[r[1]].cancelled
    BY <2>2 DEF PendingFits
  <2>5. QED BY <1>4, <1>5, <2>2, <2>3, <2>4 DEF GenOf
<1>20. Asked'
  BY <1>1, <1>3, <1>4, <1>5, GenOfFacts DEF Asked
<1>21. WireFits'
  BY <1>1, <1>3, <1>4, <1>5, WireTypes, GenOfFacts DEF WireFits, GenOf
<1>22. RepliesFit'
  BY <1>1, <1>3, <1>4, <1>5, GenOfFacts DEF RepliesFit
<1>23. DrainIsFinal'
  BY <1>1, <1>3, <1>4, <1>5, GenOfFacts DEF DrainIsFinal, GenOf
<1>24. DrainEnds'
  BY <1>1, <1>3, <1>4, <1>5, GenOfFacts DEF DrainEnds, GenOf, Asked
<1>25. TurnsNotCutShort'
  BY <1>1, <1>3, <1>4, <1>5, GenOfFacts DEF TurnsNotCutShort, Locked, GenOf
<1>26. Completed'
  BY <1>1, <1>3, <1>4, <1>5, CompletedKept DEF Completed, GenOf, ClientInv
<1>27. Abandoned'
  BY <1>1, <1>3, <1>4, <1>5, GenOfFacts DEF Abandoned, Asked, GenOf, Up
<1>28. QED BY <1>7, <1>8, <1>9, <1>10, <1>11, <1>12, <1>13, <1>14, <1>15, <1>16, <1>17, <1>18,
            <1>19,
            <1>20, <1>21, <1>22, <1>23, <1>24, <1>25, <1>26, <1>27

\* The reader takes a line.
Reads(g) ==
  /\ cxGen[g].listed \/ cxGen[g].retired
  /\ cxStream' \in [CxGens -> Seq(Message)]
  /\ \A h \in CxGens : h # g => cxStream'[h] = cxStream[h]
  /\ 1 \in DOMAIN cxStream[g] /\ Head(cxStream[g]) = cxStream[g][1]
  /\ \A i \in DOMAIN cxStream'[g] :
       i + 1 \in DOMAIN cxStream[g] /\ cxStream'[g][i] = cxStream[g][i + 1]
  /\ \A i \in DOMAIN cxStream[g] : i # 1 =>
       i - 1 \in DOMAIN cxStream'[g] /\ cxStream'[g][i - 1] = cxStream[g][i]

\* The reader takes the first line of the stream.
LEMMA ReadsFacts ==
  ASSUME CxShape, NEW g \in CxGens, ReadMessage(g)
  PROVE  Reads(g)
<1>1. cxStream \in [CxGens -> Seq(Message)] /\ cxStream[g] \in Seq(Message) /\ cxStream[g] # <<>>
  BY DEF CxShape, ReadMessage
<1>2. cxStream' = [cxStream EXCEPT ![g] = Tail(cxStream[g])]
  BY DEF ReadMessage
<1> DEFINE s == cxStream[g]
<1>3. /\ Tail(s) \in Seq(Message) /\ 1 \in DOMAIN s /\ Head(s) = s[1]
      /\ \A i \in DOMAIN Tail(s) : i + 1 \in DOMAIN s /\ Tail(s)[i] = s[i + 1]
      /\ \A i \in DOMAIN s : i # 1 => i - 1 \in DOMAIN Tail(s) /\ Tail(s)[i - 1] = s[i]
  BY <1>1, TailFacts
<1> DEFINE t == Tail(s)
<1>4. /\ t \in Seq(Message)
      /\ \A i \in DOMAIN t : i + 1 \in DOMAIN s /\ t[i] = s[i + 1]
      /\ \A i \in DOMAIN s : i # 1 => i - 1 \in DOMAIN t /\ t[i - 1] = s[i]
  BY <1>3
<1>5. cxStream' = [cxStream EXCEPT ![g] = t]
  BY <1>2
<1> HIDE DEF t
<1>6. cxStream'[g] = t /\ cxStream' \in [CxGens -> Seq(Message)]
      /\ \A h \in CxGens : h # g => cxStream'[h] = cxStream[h]
  BY <1>1, <1>4, <1>5
<1>7. QED BY <1>3, <1>4, <1>6 DEF Reads, ReadMessage

\* What is left of the stream was there before.
LEMMA ShapeRead ==
  ASSUME CxShape, NEW g \in CxGens, Reads(g)
  PROVE  \A h \in CxGens : \A i \in DOMAIN cxStream'[h] :
           /\ cxStream'[h][i] \in Message
           /\ cxStream'[h][i].kind = "completed" =>
                cxStream'[h][i].answer.of \in CxCallers /\ cxStream'[h][i].answer.status # "none"
<1>1. SUFFICES ASSUME NEW h \in CxGens, NEW i \in DOMAIN cxStream'[h]
               PROVE  \E j \in DOMAIN cxStream[h] : cxStream'[h][i] = cxStream[h][j]
  BY DEF CxShape, CxTypeOK
<1>2. QED BY DEF Reads

\* A reply that is left was there before.
LEMMA RepliesRead ==
  ASSUME ClientInv, NEW g \in CxGens, Reads(g), UNCHANGED cxTurn
  PROVE  RepliesFit'
<1>1. SUFFICES ASSUME NEW h \in CxGens, NEW w \in CxCallers, NEW i \in DOMAIN cxStream'[h],
                      cxStream'[h][i].kind = "reply", cxStream'[h][i].req = <<w, "turn">>,
                      cxStream'[h][i].ok
               PROVE  cxTurn[w] # "none"
  BY DEF RepliesFit
<1>2. PICK j \in DOMAIN cxStream[h] : cxStream'[h][i] = cxStream[h][j]
  BY DEF Reads
<1>3. QED BY <1>1, <1>2 DEF ClientInv, RepliesFit

\* A completion that was not read is left.
LEMMA CompletedRead ==
  ASSUME ClientInv, NEW g \in CxGens, Reads(g), UNCHANGED cxTurn,
         \A h \in CxGens : cxGen[h].closing => cxGen'[h].closing,
         \A w \in CxCallers :
           /\ cxCall'[w].pc = cxCall[w].pc /\ cxCall'[w].gen = cxCall[w].gen
           /\ cxCall'[w].answer = NoAnswer => cxCall[w].answer = NoAnswer
           /\ cxCall'[w].answer = NoAnswer /\ cxCall[w].gen = g /\ cxCall[w].pc \in {"turn", "wait"}
              /\ ~cxGen[g].closing
              => ~(cxStream[g][1].kind = "completed" /\ cxStream[g][1].answer.of = w)
  PROVE  Completed'
<1>1. SUFFICES ASSUME NEW w \in CxCallers, cxCall[w].pc \in {"turn", "wait"}, cxTurn[w] = "over",
                      cxCall'[w].answer = NoAnswer, ~cxGen'[cxCall[w].gen].closing
               PROVE  \E i \in DOMAIN cxStream'[cxCall[w].gen] :
                        /\ cxStream'[cxCall[w].gen][i].kind = "completed"
                        /\ cxStream'[cxCall[w].gen][i].answer.of = w
  BY DEF Completed, GenOf
<1>2. cxCall[w].gen \in CxGens /\ cxCall[w].answer = NoAnswer /\ ~cxGen[cxCall[w].gen].closing
  BY <1>1, GenOfFacts
<1>3. PICK i \in DOMAIN cxStream[cxCall[w].gen] :
        /\ cxStream[cxCall[w].gen][i].kind = "completed"
        /\ cxStream[cxCall[w].gen][i].answer.of = w
  BY <1>1, <1>2 DEF ClientInv, Completed, GenOf
<1>4. CASE cxCall[w].gen # g
  <2>1. cxStream'[cxCall[w].gen] = cxStream[cxCall[w].gen]
    BY <1>2, <1>4 DEF Reads
  <2>2. QED BY <1>3, <2>1
<1>5. CASE cxCall[w].gen = g
  <2>1. i # 1
    BY <1>1, <1>2, <1>3, <1>5
  <2>2. i - 1 \in DOMAIN cxStream'[g] /\ cxStream'[g][i - 1] = cxStream[g][i]
    BY <1>3, <1>5, <2>1 DEF Reads
  <2>3. QED BY <1>3, <1>5, <2>2
<1>6. QED BY <1>4, <1>5

\* What the reader does with a line.
ReadsReply(g) ==
  LET m == cxStream[g][1] IN
  /\ Reads(g) /\ m.kind = "reply"
  /\ cxGen' = [cxGen EXCEPT ![g].pending = @ \ {m.req}]
  /\ cxCall' = IF m.req \in cxGen[g].pending /\ m.req[2] # "cancel"
               THEN [cxCall EXCEPT ![m.req[1]].reply = IF m.ok THEN "ok" ELSE "error"]
               ELSE cxCall
  /\ UNCHANGED <<cxCurrent, cxClosed, cxStarting, cxWire, cxTurn, cxFaults>>
ReadsCompletion(g) ==
  LET m == cxStream[g][1] IN
  /\ Reads(g) /\ m.kind = "completed"
  /\ cxCall' = [w \in CxCallers |->
       IF w \in cxGen[g].active /\ ~cxGen[g].closing
          /\ CxThreadOf[w] = CxThreadOf[m.answer.of] /\ Accepts(w, m.answer.of)
       THEN [cxCall[w] EXCEPT !.answer = m.answer] ELSE cxCall[w]]
  /\ UNCHANGED <<cxGen, cxCurrent, cxClosed, cxStarting, cxWire, cxTurn, cxFaults>>
ReadsGarbage(g) ==
  /\ Reads(g) /\ cxStream[g][1].kind = "garbage"
  /\ cxCall' = FailedCalls(g)
  /\ cxGen' = [cxGen EXCEPT ![g].pending = {}]
  /\ UNCHANGED <<cxCurrent, cxClosed, cxStarting, cxWire, cxTurn, cxFaults>>

\* The reader hands out a reply.
LEMMA ReadsReplyStep ==
  ASSUME ClientInv, NEW g \in CxGens, ReadsReply(g)
  PROVE  ClientInv'
<1> USE DEF ClientInv
<1> DEFINE m == cxStream[g][1]
           q == m.req
<1>1. /\ Reads(g) /\ m.kind = "reply"
      /\ UNCHANGED <<cxCurrent, cxClosed, cxStarting, cxWire, cxTurn, cxFaults>>
  BY DEF ReadsReply
<1>2. q \in Ordered /\ q \in Requests /\ q[1] \in CxCallers /\ q[2] # "init" /\ m.ok \in BOOLEAN
      /\ q = <<q[1], q[2]>>
  <2>1. m \in Message
    BY <1>1 DEF Reads, CxShape, CxTypeOK
  <2>2. q \in Ordered /\ m.ok \in BOOLEAN
    BY <1>1, <2>1 DEF Message
  <2> HIDE DEF m, q
  <2>3. QED BY <2>2 DEF Ordered, Requests, Methods
<1> DEFINE told == q \in cxGen[g].pending /\ q[2] # "cancel"
<1>3. /\ cxGen' \in [CxGens -> Generation]
      /\ \A h \in CxGens : h # g => cxGen'[h] = cxGen[h]
      /\ cxGen'[g].proc = cxGen[g].proc /\ cxGen'[g].listed = cxGen[g].listed
      /\ cxGen'[g].closing = cxGen[g].closing /\ cxGen'[g].stale = cxGen[g].stale
      /\ cxGen'[g].retired = cxGen[g].retired /\ cxGen'[g].done = cxGen[g].done
      /\ cxGen'[g].turns = cxGen[g].turns /\ cxGen'[g].watched = cxGen[g].watched
      /\ cxGen'[g].eof = cxGen[g].eof /\ cxGen'[g].tearing = cxGen[g].tearing
      /\ cxGen'[g].active = cxGen[g].active
      /\ cxGen'[g].pending = cxGen[g].pending \ {q}
  <2> DEFINE P == cxGen[g].pending \ {q}
  <2>1. P \in SUBSET Requests
    BY GenTypes
  <2>2. cxGen' = [cxGen EXCEPT ![g].pending = P]
    BY DEF ReadsReply
  <2>3. cxGen[g].pending \ {q} = P
    OBVIOUS
  <2> HIDE DEF P, q, m
  <2>4. cxGen \in [CxGens -> Generation] /\ cxGen[g] \in Generation
    BY GenTypes
  <2>5. QED BY <2>1, <2>2, <2>3, <2>4 DEF Generation
<1>4. /\ cxCall' \in [CxCallers -> Call]
      /\ \A v \in CxCallers :
           /\ cxCall'[v].pc = cxCall[v].pc /\ cxCall'[v].gen = cxCall[v].gen
           /\ cxCall'[v].known = cxCall[v].known /\ cxCall'[v].answer = cxCall[v].answer
           /\ cxCall'[v].cancelled = cxCall[v].cancelled
           /\ ~(told /\ v = q[1]) => cxCall'[v].reply = cxCall[v].reply
           /\ told /\ v = q[1] /\ cxCall'[v].reply = "ok" => m.ok
  <2> DEFINE r == IF m.ok THEN "ok" ELSE "error"
  <2>1. cxCall \in [CxCallers -> Call] /\ cxCall[q[1]] \in Call /\ r \in {"none", "ok", "error"}
        /\ (r = "ok" => m.ok)
    BY <1>2, CallTypes
  <2>2. cxCall' = IF told THEN [cxCall EXCEPT ![q[1]].reply = r] ELSE cxCall
    BY DEF ReadsReply
  <2> HIDE DEF r, told, q, m
  <2>3. CASE told
    BY <1>2, <2>1, <2>2, <2>3 DEF Call
  <2>4. CASE ~told
    BY <2>1, <2>2, <2>4
  <2>5. QED BY <2>3, <2>4
<1>5. told => GenOf(q[1]) = g /\ cxCall[q[1]].pc = q[2]
  BY DEF PendingFits
<1>6. told /\ q[2] = "turn" /\ m.ok => cxTurn[q[1]] # "none"
  <2>1. 1 \in DOMAIN cxStream[g]
    BY <1>1 DEF Reads
  <2>2. q[2] = "turn" => m.req = <<q[1], "turn">>
    BY <1>2
  <2>3. QED BY <1>1, <1>2, <2>1, <2>2 DEF RepliesFit
<1> HIDE DEF told, q, m
<1>7. \A h \in CxGens : Turns(h)' = Turns(h)
  BY <1>4 DEF Turns, GenOf
<1>8. /\ UNCHANGED cxTurn
      /\ \A h \in CxGens : cxGen[h].closing => cxGen'[h].closing
      /\ \A v \in CxCallers :
           /\ cxCall'[v].pc = cxCall[v].pc /\ cxCall'[v].gen = cxCall[v].gen
           /\ cxCall'[v].answer = cxCall[v].answer
      /\ cxStream[g][1].kind # "completed"
  BY <1>1, <1>3, <1>4 DEF m
<1>9. CxShape'
  <2>1. \A h \in CxGens : \A i \in DOMAIN cxStream'[h] :
          /\ cxStream'[h][i] \in Message
          /\ cxStream'[h][i].kind = "completed" =>
               cxStream'[h][i].answer.of \in CxCallers /\ cxStream'[h][i].answer.status # "none"
    BY <1>1, ShapeRead
  <2>2. cxStream' \in [CxGens -> Seq(Message)]
    BY <1>1 DEF Reads
  <2>3. QED BY <1>1, <1>3, <1>4, <2>1, <2>2 DEF CxShape, CxTypeOK
<1>10. InOrder'
  BY <1>1, <1>3, <1>4, GenOfFacts DEF InOrder, Spawned
<1>11. NotStarted'
  <2>1. cxGen[g].proc # "none"
    BY <1>1 DEF NotStarted, NoGeneration, Reads
  <2>2. QED BY <1>1, <1>3, <2>1 DEF NotStarted, Reads
<1>12. WayOut'
  BY <1>1, <1>3, <1>4, GenOfFacts DEF WayOut
<1>13. Current'
  BY <1>1, <1>3, <1>4, GenOfFacts DEF Current
<1>14. UpIsKnown'
  BY <1>1, <1>3, <1>4, GenOfFacts DEF UpIsKnown, GenOf, Up
<1>15. StartLock'
  <2>1. \A h \in CxGens : cxGen'[h].proc = cxGen[h].proc
    BY <1>3
  <2>2. \A v \in CxCallers : cxCall'[v].pc = cxCall[v].pc
    BY <1>4
  <2>3. QED BY <1>1, <2>1, <2>2, CodexClientAssumption DEF StartLock, Up, CxShape, CxTypeOK
<1>16. HasGeneration'
  BY <1>1, <1>3, <1>4, CallTypes DEF HasGeneration, GenOf
<1>17. Registering'
  BY <1>1, <1>3, <1>4, GenOfFacts DEF Registering, GenOf
<1>18. OwnGeneration'
  BY <1>1, <1>3, <1>4, CodexClientAssumption, GenOfFacts DEF OwnGeneration, GenOf, StartLock
<1>19. TurnsCounted'
  BY <1>1, <1>3, <1>4, <1>7, GenOfFacts DEF TurnsCounted
<1>20. ActiveFits'
  BY <1>1, <1>3, <1>4, GenTypes, GenOfFacts DEF ActiveFits, GenOf
<1>21. PendingFits'
  <2>1. SUFFICES ASSUME NEW h \in CxGens, NEW r \in cxGen'[h].pending
                 PROVE  /\ GenOf(r[1])' = h
                        /\ r[2] # "cancel" => cxCall'[r[1]].pc = r[2]
                           /\ cxCall'[r[1]].reply = "none"
                        /\ r[2] = "cancel" => cxCall'[r[1]].cancelled
    BY DEF PendingFits
  <2>2. r \in cxGen[h].pending /\ (h = g => r # q)
    BY <1>3
  <2>3. r[1] \in CxCallers /\ r = <<r[1], r[2]>>
    BY <2>2, GenTypes DEF Requests
  <2>4. /\ GenOf(r[1]) = h
        /\ r[2] # "cancel" => cxCall[r[1]].pc = r[2] /\ cxCall[r[1]].reply = "none"
        /\ r[2] = "cancel" => cxCall[r[1]].cancelled
    BY <2>2 DEF PendingFits
  <2>5. r[2] # "cancel" => ~(told /\ r[1] = q[1])
    BY <1>2, <1>5, <2>2, <2>3, <2>4
  <2>6. QED BY <1>4, <2>3, <2>4, <2>5 DEF GenOf
<1>22. Asked'
  BY <1>1, <1>4, <1>5, <1>6 DEF Asked
<1>23. WireFits'
  BY <1>1, <1>3, <1>4, WireTypes, GenOfFacts DEF WireFits, GenOf
<1>24. RepliesFit'
  BY <1>1, RepliesRead DEF ClientInv
<1>25. DrainIsFinal'
  BY <1>1, <1>3, <1>4, GenOfFacts DEF DrainIsFinal, GenOf
<1>26. DrainEnds'
  BY <1>1, <1>3, <1>4, GenOfFacts DEF DrainEnds, GenOf, Asked
<1>27. TurnsNotCutShort'
  BY <1>1, <1>3, <1>4, GenOfFacts DEF TurnsNotCutShort, Locked, GenOf
<1>28. Completed'
  BY <1>8, <1>1, CompletedRead DEF ClientInv
<1>29. Abandoned'
  BY <1>1, <1>3, <1>4, GenOfFacts DEF Abandoned, Asked, GenOf, Up
<1>30. QED BY <1>9, <1>10, <1>11, <1>12, <1>13, <1>14, <1>15, <1>16, <1>17, <1>18, <1>19, <1>20,
            <1>21, <1>22, <1>23, <1>24, <1>25, <1>26, <1>27, <1>28, <1>29

\* The reader hands out a completion.
LEMMA ReadsCompletionStep ==
  ASSUME ClientInv, NEW g \in CxGens, ReadsCompletion(g)
  PROVE  ClientInv'
<1> USE DEF ClientInv
<1> DEFINE m == cxStream[g][1]
<1>1. /\ Reads(g) /\ m.kind = "completed"
      /\ UNCHANGED <<cxGen, cxCurrent, cxClosed, cxStarting, cxWire, cxTurn, cxFaults>>
  BY DEF ReadsCompletion
<1>2. m.answer \in Answer /\ m.answer # NoAnswer
  <2>1. m \in Message /\ m.answer.status # "none"
    BY <1>1 DEF Reads, CxShape, CxTypeOK
  <2>2. m.answer \in Answer
    BY <1>1, <2>1 DEF Message
  <2> HIDE DEF m
  <2>3. QED BY <2>1, <2>2 DEF NoAnswer
<1>3. /\ cxCall' \in [CxCallers -> Call]
      /\ \A v \in CxCallers :
           /\ cxCall'[v].pc = cxCall[v].pc /\ cxCall'[v].gen = cxCall[v].gen
           /\ cxCall'[v].known = cxCall[v].known /\ cxCall'[v].reply = cxCall[v].reply
           /\ cxCall'[v].cancelled = cxCall[v].cancelled
           /\ cxCall'[v].answer = NoAnswer => cxCall[v].answer = NoAnswer
           /\ v \in cxGen[g].active /\ ~cxGen[g].closing /\ m.answer.of = v =>
                cxCall'[v].answer # NoAnswer
  <2>1. ASSUME NEW v \in CxCallers
        PROVE  /\ cxCall'[v] \in Call
               /\ cxCall'[v].pc = cxCall[v].pc /\ cxCall'[v].gen = cxCall[v].gen
               /\ cxCall'[v].known = cxCall[v].known /\ cxCall'[v].reply = cxCall[v].reply
               /\ cxCall'[v].cancelled = cxCall[v].cancelled
               /\ cxCall'[v].answer = NoAnswer => cxCall[v].answer = NoAnswer
               /\ v \in cxGen[g].active /\ ~cxGen[g].closing /\ m.answer.of = v =>
                    cxCall'[v].answer # NoAnswer
    <3> DEFINE takes == v \in cxGen[g].active /\ ~cxGen[g].closing
                        /\ CxThreadOf[v] = CxThreadOf[m.answer.of] /\ Accepts(v, m.answer.of)
    <3>1. cxCall'[v] = IF takes THEN [cxCall[v] EXCEPT !.answer = m.answer] ELSE cxCall[v]
      BY DEF ReadsCompletion
    <3>2. v \in cxGen[g].active /\ ~cxGen[g].closing /\ m.answer.of = v => takes
      BY DEF Accepts
    <3>3. cxCall[v] \in Call
      BY CallTypes
    <3> HIDE DEF takes, m
    <3>4. CASE takes
      BY <1>2, <3>1, <3>3, <3>4 DEF Call
    <3>5. CASE ~takes
      BY <3>1, <3>2, <3>3, <3>5
    <3>6. QED BY <3>4, <3>5
  <2>2. cxCall' = [w \in CxCallers |-> cxCall'[w]]
    BY DEF ReadsCompletion
  <2> HIDE DEF m
  <2>3. cxCall' \in [CxCallers -> Call]
    BY <2>1, <2>2
  <2>4. QED BY <2>1, <2>3
<1>4. \A h \in CxGens : Turns(h)' = Turns(h)
  BY <1>3 DEF Turns, GenOf
<1>5. \A v \in CxCallers :
        cxCall'[v].answer = NoAnswer /\ cxCall[v].gen = g /\ cxCall[v].pc \in {"turn", "wait"}
        /\ ~cxGen[g].closing => ~(m.kind = "completed" /\ m.answer.of = v)
  BY <1>3 DEF ActiveFits, GenOf
<1>6. CxShape'
  <2>1. \A h \in CxGens : \A i \in DOMAIN cxStream'[h] :
          /\ cxStream'[h][i] \in Message
          /\ cxStream'[h][i].kind = "completed" =>
               cxStream'[h][i].answer.of \in CxCallers /\ cxStream'[h][i].answer.status # "none"
    BY <1>1, ShapeRead
  <2>2. cxStream' \in [CxGens -> Seq(Message)]
    BY <1>1 DEF Reads
  <2>3. QED BY <1>1, <1>3, <2>1, <2>2 DEF CxShape, CxTypeOK
<1>7. InOrder'
  BY <1>1, <1>3, GenOfFacts DEF InOrder, Spawned
<1>8. NotStarted'
  <2>1. cxGen[g].proc # "none"
    BY <1>1 DEF NotStarted, NoGeneration, Reads
  <2>2. QED BY <1>1, <2>1 DEF NotStarted, Reads
<1>9. WayOut'
  BY <1>1, <1>3, GenOfFacts DEF WayOut
<1>10. Current'
  BY <1>1, <1>3, GenOfFacts DEF Current
<1>11. UpIsKnown'
  BY <1>1, <1>3, GenOfFacts DEF UpIsKnown, GenOf, Up
<1>12. StartLock'
  <2>1. \A h \in CxGens : cxGen'[h].proc = cxGen[h].proc
    BY <1>1
  <2>2. \A v \in CxCallers : cxCall'[v].pc = cxCall[v].pc
    BY <1>3
  <2>3. QED BY <1>1, <2>1, <2>2, CodexClientAssumption DEF StartLock, Up, CxShape, CxTypeOK
<1>13. HasGeneration'
  BY <1>1, <1>3, CallTypes DEF HasGeneration, GenOf
<1>14. Registering'
  BY <1>1, <1>3, GenOfFacts DEF Registering, GenOf
<1>15. OwnGeneration'
  BY <1>1, <1>3, CodexClientAssumption, GenOfFacts DEF OwnGeneration, GenOf, StartLock
<1>16. TurnsCounted'
  BY <1>1, <1>3, <1>4, GenOfFacts DEF TurnsCounted
<1>17. ActiveFits'
  BY <1>1, <1>3, GenTypes, GenOfFacts DEF ActiveFits, GenOf
<1>18. PendingFits'
  BY <1>1, <1>3, GenTypes, GenOfFacts DEF PendingFits, GenOf, Asked, Methods
<1>19. Asked'
  BY <1>1, <1>3, GenOfFacts DEF Asked
<1>20. WireFits'
  BY <1>1, <1>3, WireTypes, GenOfFacts DEF WireFits, GenOf
<1>21. RepliesFit'
  BY <1>1, RepliesRead DEF ClientInv
<1>22. DrainIsFinal'
  BY <1>1, <1>3, GenOfFacts DEF DrainIsFinal, GenOf
<1>23. DrainEnds'
  BY <1>1, <1>3, GenOfFacts DEF DrainEnds, GenOf, Asked
<1>24. TurnsNotCutShort'
  BY <1>1, <1>3, GenOfFacts DEF TurnsNotCutShort, Locked, GenOf
<1>25. Completed'
  BY <1>1, <1>3, <1>5, CompletedRead DEF ClientInv
<1>26. Abandoned'
  BY <1>1, <1>3, GenOfFacts DEF Abandoned, Asked, GenOf, Up
<1>27. QED BY <1>6, <1>7, <1>8, <1>9, <1>10, <1>11, <1>12, <1>13, <1>14, <1>15, <1>16, <1>17,
            <1>18,
            <1>19, <1>20, <1>21, <1>22, <1>23, <1>24, <1>25, <1>26

\* The reader finds an invalid line.
LEMMA ReadsGarbageStep ==
  ASSUME ClientInv, NEW g \in CxGens, ReadsGarbage(g)
  PROVE  ClientInv'
<1> USE DEF ClientInv
<1>1. /\ Reads(g) /\ cxStream[g][1].kind # "completed"
      /\ UNCHANGED <<cxCurrent, cxClosed, cxStarting, cxWire, cxTurn, cxFaults>>
  BY DEF ReadsGarbage
<1>2. FailsAll(g)
  BY FailedFacts DEF ReadsGarbage
<1>3. /\ cxGen' \in [CxGens -> Generation]
      /\ \A h \in CxGens : h # g => cxGen'[h] = cxGen[h]
      /\ cxGen'[g].proc = cxGen[g].proc /\ cxGen'[g].listed = cxGen[g].listed
      /\ cxGen'[g].closing = cxGen[g].closing /\ cxGen'[g].stale = cxGen[g].stale
      /\ cxGen'[g].retired = cxGen[g].retired /\ cxGen'[g].done = cxGen[g].done
      /\ cxGen'[g].turns = cxGen[g].turns /\ cxGen'[g].watched = cxGen[g].watched
      /\ cxGen'[g].eof = cxGen[g].eof /\ cxGen'[g].tearing = cxGen[g].tearing
      /\ cxGen'[g].active = cxGen[g].active
      /\ cxGen'[g].pending = {}
  <2>1. cxGen' = [cxGen EXCEPT ![g].pending = {}]
    BY DEF ReadsGarbage
  <2>2. cxGen \in [CxGens -> Generation] /\ cxGen[g] \in Generation
    BY GenTypes
  <2>3. {} \in SUBSET Requests
    OBVIOUS
  <2>4. QED BY <2>1, <2>2, <2>3 DEF Generation
<1>4. \A h \in CxGens : Turns(h)' = Turns(h)
  BY <1>2 DEF Turns, GenOf, FailsAll
<1>5. /\ \A h \in CxGens : cxGen[h].closing => cxGen'[h].closing
      /\ \A v \in CxCallers : ~(cxStream[g][1].kind = "completed" /\ cxStream[g][1].answer.of = v)
  BY <1>1, <1>3
<1>6. CxShape'
  <2>1. \A h \in CxGens : \A i \in DOMAIN cxStream'[h] :
          /\ cxStream'[h][i] \in Message
          /\ cxStream'[h][i].kind = "completed" =>
               cxStream'[h][i].answer.of \in CxCallers /\ cxStream'[h][i].answer.status # "none"
    BY <1>1, ShapeRead
  <2>2. cxStream' \in [CxGens -> Seq(Message)]
    BY <1>1 DEF Reads
  <2>3. QED BY <1>1, <1>2, <1>3, <2>1, <2>2 DEF CxShape, CxTypeOK, FailsAll
<1>7. InOrder'
  BY <1>1, <1>2, <1>3, GenOfFacts DEF InOrder, Spawned, FailsAll
<1>8. NotStarted'
  <2>1. cxGen[g].proc # "none"
    BY <1>1 DEF NotStarted, NoGeneration, Reads
  <2>2. QED BY <1>1, <1>3, <2>1 DEF NotStarted, Reads
<1>9. WayOut'
  BY <1>1, <1>2, <1>3, GenOfFacts DEF WayOut, FailsAll
<1>10. Current'
  BY <1>1, <1>2, <1>3, GenOfFacts DEF Current, FailsAll
<1>11. UpIsKnown'
  BY <1>1, <1>2, <1>3, GenOfFacts DEF UpIsKnown, GenOf, Up, FailsAll
<1>12. StartLock'
  <2>1. \A h \in CxGens : cxGen'[h].proc = cxGen[h].proc
    BY <1>3
  <2>2. \A v \in CxCallers : cxCall'[v].pc = cxCall[v].pc
    BY <1>2 DEF FailsAll
  <2>3. QED BY <1>1, <2>1, <2>2, CodexClientAssumption DEF StartLock, Up, CxShape, CxTypeOK
<1>13. HasGeneration'
  BY <1>1, <1>2, <1>3, CallTypes DEF HasGeneration, GenOf, FailsAll
<1>14. Registering'
  BY <1>1, <1>2, <1>3, GenOfFacts DEF Registering, GenOf, FailsAll
<1>15. OwnGeneration'
  BY <1>1, <1>2, <1>3, CodexClientAssumption, GenOfFacts DEF OwnGeneration, GenOf, StartLock,
    FailsAll
<1>16. TurnsCounted'
  BY <1>1, <1>2, <1>3, <1>4, GenOfFacts DEF TurnsCounted, FailsAll
<1>17. ActiveFits'
  BY <1>1, <1>2, <1>3, GenTypes, GenOfFacts DEF ActiveFits, GenOf, FailsAll
<1>18. PendingFits'
  BY <1>1, <1>2, <1>3, GenTypes, GenOfFacts DEF PendingFits, GenOf, Asked, Methods, FailsAll
<1>19. Asked'
  BY <1>1, <1>2, <1>3, GenOfFacts DEF Asked, FailsAll
<1>20. WireFits'
  BY <1>1, <1>2, <1>3, WireTypes, GenOfFacts DEF WireFits, GenOf, FailsAll
<1>21. RepliesFit'
  BY <1>1, RepliesRead DEF ClientInv
<1>22. DrainIsFinal'
  BY <1>1, <1>2, <1>3, GenOfFacts DEF DrainIsFinal, GenOf, FailsAll
<1>23. DrainEnds'
  BY <1>1, <1>2, <1>3, GenOfFacts DEF DrainEnds, GenOf, Asked, FailsAll
<1>24. TurnsNotCutShort'
  BY <1>1, <1>2, <1>3, GenOfFacts DEF TurnsNotCutShort, Locked, GenOf, FailsAll
<1>25. Completed'
  BY <1>1, <1>2, <1>3, <1>5, CompletedRead DEF ClientInv, FailsAll
<1>26. Abandoned'
  BY <1>1, <1>2, <1>3, GenOfFacts DEF Abandoned, Asked, GenOf, Up, FailsAll
<1>27. QED BY <1>6, <1>7, <1>8, <1>9, <1>10, <1>11, <1>12, <1>13, <1>14, <1>15, <1>16, <1>17,
            <1>18,
            <1>19, <1>20, <1>21, <1>22, <1>23, <1>24, <1>25, <1>26

\* The reader takes a line, whatever it says.
LEMMA ReadMessageStep ==
  ASSUME ClientInv, NEW g \in CxGens, ReadMessage(g)
  PROVE  ClientInv'
<1>1. Reads(g)
  BY ReadsFacts DEF ClientInv
<1>2. Head(cxStream[g]) = cxStream[g][1]
  BY <1>1 DEF Reads
<1>3. ReadsReply(g) \/ ReadsCompletion(g) \/ ReadsGarbage(g)
  BY <1>1, <1>2 DEF ReadMessage, ReadsReply, ReadsCompletion, ReadsGarbage
<1>4. QED BY <1>3, ReadsReplyStep, ReadsCompletionStep, ReadsGarbageStep

-----------------------------------------------------------------------------
(* The invariant, and what it is for.                                      *)

\* No process is started at first, and no caller has one.
LEMMA InitInv ==
  ASSUME CxInit
  PROVE  ClientInv
<1> USE CxInit
<1>1. CxMaxGens \in Nat \ {0} /\ CxNone \notin CxCallers /\ CxNone \notin CxGens
  BY CodexClientAssumption DEF CxGens
<1>2. /\ \A g \in CxGens : cxGen[g] = NoGeneration /\ cxWire[g] = {} /\ cxStream[g] = <<>>
      /\ \A w \in CxCallers : cxCall[w] = NoCall /\ cxTurn[w] = "none"
      /\ cxCurrent = CxNone /\ cxClosed = FALSE /\ cxStarting = CxNone /\ cxFaults = 0
  BY DEF CxInit
<1>3. /\ NoGeneration \in Generation /\ NoCall \in Call
  BY DEF NoGeneration, NoCall, Generation, Call, Answer, NoAnswer
<1>4. \A g \in CxGens : cxGen[g].proc = "none" /\ ~cxGen[g].listed /\ ~cxGen[g].closing
        /\ ~cxGen[g].retired /\ ~cxGen[g].done /\ ~cxGen[g].tearing /\ cxGen[g].turns = 0
        /\ cxGen[g].pending = {} /\ cxGen[g].active = {}
  BY <1>2 DEF NoGeneration
<1>5. \A w \in CxCallers : cxCall[w].pc = "ensure" /\ cxCall[w].gen = CxNone
        /\ ~cxCall[w].known /\ ~cxCall[w].cancelled
  BY <1>2 DEF NoCall
<1>6. CxShape
  <2>1. cxStream \in [CxGens -> Seq(Message)]
    BY DEF CxInit
  <2>2. \A g \in CxGens : DOMAIN cxStream[g] = {}
    BY <1>2
  <2>3. cxWire \in [CxGens -> SUBSET Ordered]
    BY DEF CxInit
  <2>4. cxFaults \in 0..CxMaxFaults
    BY <1>2, CodexClientAssumption
  <2>5. cxGen \in [CxGens -> Generation] /\ cxCall \in [CxCallers -> Call]
        /\ cxTurn \in [CxCallers -> {"none", "running", "over"}]
    BY <1>3 DEF CxInit
  <2>6. QED BY <1>2, <2>1, <2>2, <2>3, <2>4, <2>5 DEF CxShape, CxTypeOK
<1>7. InOrder
  <2>1. Spawned = {}
    BY <1>4 DEF Spawned
  <2>2. 0 \in 0..CxMaxGens /\ 1..0 = {}
    BY <1>1
  <2>3. QED BY <2>1, <2>2 DEF InOrder
<1>8. TurnsCounted
  <2>1. \A g \in CxGens : Turns(g) = {}
    BY <1>5 DEF Turns, Counted, Locked
  <2>2. QED BY <1>4, <2>1, FS_EmptySet DEF TurnsCounted
<1>9. NotStarted /\ WayOut /\ Current
  BY <1>1, <1>2, <1>4 DEF NotStarted, WayOut, Current
<1>10. UpIsKnown /\ StartLock /\ HasGeneration /\ Registering /\ OwnGeneration
  BY <1>1, <1>2, <1>4, <1>5
  DEF UpIsKnown, StartLock, HasGeneration, Registering, OwnGeneration, Up, GenOf
<1>11. ActiveFits /\ PendingFits /\ Asked /\ WireFits
  BY <1>2, <1>4, <1>5 DEF ActiveFits, PendingFits, Asked, WireFits
<1>12. RepliesFit
  BY <1>2 DEF RepliesFit
<1>13. DrainIsFinal /\ DrainEnds /\ TurnsNotCutShort /\ Completed /\ Abandoned
  BY <1>5 DEF DrainIsFinal, DrainEnds, TurnsNotCutShort, Completed, Abandoned, Locked
<1>14. QED
  BY <1>6, <1>7, <1>8, <1>9, <1>10, <1>11, <1>12, <1>13 DEF ClientInv

\* A step of somebody else.
LEMMA StutterInv ==
  ASSUME ClientInv, UNCHANGED cxvars
  PROVE  ClientInv'
<1> USE DEF ClientInv
<1>1. UNCHANGED <<cxGen, cxCurrent, cxClosed, cxStarting, cxCall>>
      /\ UNCHANGED <<cxWire, cxStream, cxTurn, cxFaults>>
  BY DEF cxvars
<1>2. CxShape' /\ InOrder' /\ NotStarted' /\ WayOut' /\ Current'
  BY <1>1 DEF CxShape, CxTypeOK, InOrder, Spawned, NotStarted, WayOut, Current
<1>3. UpIsKnown' /\ StartLock' /\ HasGeneration' /\ Registering' /\ OwnGeneration'
  BY <1>1 DEF UpIsKnown, StartLock, HasGeneration, Registering, OwnGeneration, Up, GenOf
<1>4. TurnsCounted'
  BY <1>1 DEF TurnsCounted, Turns, GenOf
<1>5. ActiveFits' /\ PendingFits' /\ Asked' /\ WireFits' /\ RepliesFit'
  BY <1>1 DEF ActiveFits, PendingFits, Asked, WireFits, RepliesFit, GenOf
<1>6. DrainIsFinal' /\ DrainEnds' /\ TurnsNotCutShort'
  BY <1>1 DEF DrainIsFinal, DrainEnds, TurnsNotCutShort, GenOf
<1>7. Completed' /\ Abandoned'
  BY <1>1 DEF Completed, Abandoned, GenOf, Up
<1>8. QED BY <1>2, <1>3, <1>4, <1>5, <1>6, <1>7

\* The steps of a caller keep the invariant.
LEMMA CallerStepInv ==
  ASSUME ClientInv, NEW w \in CxCallers, CallerStep(w)
  PROVE  ClientInv'
<1>1. CASE EnsureStarted(w) \/ Spawn(w) \/ Register(w)
  BY <1>1, EnsureStartedStep, SpawnStep, RegisterStep
<1>2. CASE Initialised(w) \/ InitFails(w) \/ Reserve(w)
  BY <1>2, InitialisedStep, InitFailsStep, ReserveStep
<1>3. CASE Discarded(w) \/ Drained(w) \/ TurnStarted(w) \/ TurnEnds(w) \/ RequestEnds(w)
  BY <1>3, QuietSteps
<1>4. CASE Open(w) \/ StartTurn(w) \/ Abandon(w)
  BY <1>4, OpenStep, StartTurnStep, AbandonStep
<1>5. CASE RequestTimesOut(w) \/ Leave(w)
  BY <1>5, RequestTimesOutStep, LeaveStep
<1>6. QED BY <1>1, <1>2, <1>3, <1>4, <1>5 DEF CallerStep

\* The answers of the process keep the invariant.
LEMMA AnsweredInv ==
  ASSUME ClientInv, Answered
  PROVE  ClientInv'
<1>1. PICK g \in CxGens, w \in CxCallers :
        \/ ProcessStarts(g, w) \/ AuthorGivesUp(w, g)
        \/ \E m \in {"init", "open"} : ProcessPrepares(g, w, m)
        \/ \E m \in {"stop", "cancel"} : ProcessInterrupts(g, <<w, m>>)
  BY DEF Answered
<1>2. CASE ProcessStarts(g, w)
  BY <1>2, ProcessStartsStep
<1>3. CASE AuthorGivesUp(w, g)
  BY <1>3, AuthorGivesUpStep
<1>4. CASE \E m \in {"init", "open"} : ProcessPrepares(g, w, m)
  BY <1>4, ProcessPreparesStep
<1>5. CASE \E m \in {"stop", "cancel"} : ProcessInterrupts(g, <<w, m>>)
  BY <1>5, ProcessInterruptsStep
<1>6. QED BY <1>1, <1>2, <1>3, <1>4, <1>5

\* Every step keeps the invariant.
LEMMA ClientStep ==
  ASSUME ClientInv, [CxNext]_cxvars
  PROVE  ClientInv'
<1>1. CASE \E w \in CxCallers : CallerStep(w) \/ AuthorInterrupts(w)
  BY <1>1, CallerStepInv, AuthorInterruptsStep
<1>2. CASE \E g \in CxGens : GenerationStep(g)
  BY <1>2, TearDownStep, ReadMessageStep, ReaderEndsStep DEF GenerationStep
<1>3. CASE \E g \in CxGens : ParentLoginChanged(g) \/ ProcessGarbles(g) \/ ProcessDies(g)
  BY <1>3, ParentLoginChangedStep, ProcessGarblesStep, ProcessDiesStep
<1>4. CASE \E g \in CxGens, w \in CxCallers : ProcessCompletes(g, w)
  BY <1>4, ProcessCompletesStep
<1>5. CASE Answered
  BY <1>5, AnsweredInv
<1>6. CASE Close
  BY <1>6, CloseStep
<1>7. CASE UNCHANGED cxvars
  BY <1>7, StutterInv
<1>8. QED BY <1>1, <1>2, <1>3, <1>4, <1>5, <1>6, <1>7 DEF CxNext

\* The inductive invariant holds in every state of the client.
THEOREM ClientInvariant == CxSpec => []ClientInv
<1>1. CxInit => ClientInv
  BY InitInv
<1>2. ClientInv /\ [CxNext]_cxvars => ClientInv'
  BY ClientStep
<1>3. QED BY <1>1, <1>2, PTL DEF CxSpec

\* Of two processes neither of which was told to stop, one would be unknown:
\* the current one and the one being started are the only ones known, and
\* while one is started the current one is not up.
LEMMA OneIsUp ==
  ASSUME ClientInv
  PROVE  OneProcess
<1> DEFINE up == {g \in CxGens : Up(g) /\ ~cxGen[g].tearing}
<1>1. ASSUME NEW g \in up, NEW h \in up
      PROVE  g = h
  <2>1. /\ cxCurrent = g \/ \E w \in CxCallers : cxCall[w].pc = "register" /\ GenOf(w) = g
        /\ cxCurrent = h \/ \E w \in CxCallers : cxCall[w].pc = "register" /\ GenOf(w) = h
    BY DEF ClientInv, UpIsKnown
  <2>2. \A w \in CxCallers : cxCall[w].pc = "register" =>
          cxStarting = w /\ (cxCurrent = CxNone \/ ~Up(cxCurrent))
    BY DEF ClientInv, StartLock
  <2>3. CxNone \notin CxGens
    BY CodexClientAssumption DEF CxGens
  <2>4. QED BY <2>1, <2>2, <2>3
<1>2. CASE up = {}
  <2>1. Cardinality(up) = 0
    BY <1>2, FS_EmptySet
  <2>2. QED BY <2>1 DEF OneProcess
<1>3. CASE up # {}
  <2>1. PICK g : up = {g}
    BY <1>1, <1>3
  <2>2. Cardinality(up) = 1
    BY <2>1, FS_Singleton
  <2>3. QED BY <2>2 DEF OneProcess
<1>4. QED BY <1>2, <1>3

\* The invariant accounts for every process.
LEMMA Accounted ==
  ASSUME ClientInv
  PROVE  ProcessesAccounted
<1>1. CloseStopsAll
  <2>1. SUFFICES ASSUME cxClosed, \A w \in CxCallers : cxCall[w].pc = "over", NEW g \in CxGens,
                        Up(g), ~cxGen[g].tearing
                 PROVE  FALSE
    BY GenTypes DEF ClientInv, CloseStopsAll
  <2>2. cxCurrent = CxNone /\ CxNone # g
    BY <2>1, CodexClientAssumption DEF ClientInv, Current, CxGens
  <2>3. QED BY <2>1, <2>2 DEF ClientInv, UpIsKnown
<1>2. QED BY <1>1, OneIsUp DEF ClientInv, CxShape, ProcessesAccounted

\* The invariant gives every turn its due.
LEMMA Served ==
  ASSUME ClientInv
  PROVE  TurnsServed
<1>1. CompletionKept
  BY DEF ClientInv, Completed, CompletionKept
<1>2. AbandonedIsStopped
  BY DEF ClientInv, Abandoned, AbandonedIsStopped
<1>3. QED BY <1>1, <1>2 DEF ClientInv, TurnsServed

\* Every process of the client is accounted for, for any number of callers,
\* processes and faults: at most one runs that was not told to stop, whoever
\* waits for the end of one has somebody to wait for, and a closed client
\* leaves none behind.
THEOREM CodexProcesses == CxSpec => []ProcessesAccounted
<1>1. ClientInv => ProcessesAccounted
  BY Accounted
<1>2. QED BY <1>1, ClientInvariant, PTL

\* Every turn gets its due, for any number of callers, processes and faults: no
\* retirement cuts it short, the completion that raced the reply to its start
\* is not lost, and a turn that is given up is not left running unasked.
THEOREM CodexTurns == CxSpec => []TurnsServed
<1>1. ClientInv => TurnsServed
  BY Served
<1>2. QED BY <1>1, ClientInvariant, PTL

\* The client keeps its word to the system and to its callers: what the run of
\* the clients finds for a few callers holds for any number.
THEOREM CodexClientSound == CxSpec => []ClientSound
<1>1. ProcessesAccounted /\ TurnsServed => ClientSound
  BY DEF ClientSound
<1>2. QED BY <1>1, CodexProcesses, CodexTurns, PTL
=============================================================================
