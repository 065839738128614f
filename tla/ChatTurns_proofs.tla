-------------------------- MODULE ChatTurns_proofs --------------------------
(***************************************************************************)
(* The job pool and the chat turns it runs, for any jobs, workers and      *)
(* turns, any number of repairs, retries and restarts.  In the pool every  *)
(* structure is of its type, a job is in one place at a time, a job that   *)
(* has ended stays so, and shutdown misses no operation.  Every step of the *)
(* chat is a step of the pool or the end of its process, so the pool's     *)
(* invariant holds there too; on it rest the invariants of the turns.      *)
(***************************************************************************)
EXTENDS ChatTurns, FiniteSetTheorems, SequenceTheorems, TLAPS

(***************************************************************************)
(* Types.                                                                  *)
(***************************************************************************)
\* Cancelling a token leaves a reason in it.
LEMMA CancelledType ==
  ASSUME token \in [Jobs -> Reasons], NEW j \in Jobs,
         NEW reason \in Reasons, Cancelled(j, reason)
  PROVE  token' \in [Jobs -> Reasons]
BY DEF Cancelled

\* Removing entries leaves a registry of turns.
LEMMA PoppedType ==
  ASSUME registered \in [Turns -> Jobs \cup {NoJob}], NEW S
  PROVE  Popped(S) \in [Turns -> Jobs \cup {NoJob}]
BY DEF Popped

\* What shutdown appends to the queue: one poison pill per worker.
Pills == [i \in 1..Cardinality(Workers) |-> Stop]

\* The pills follow what is queued, which keeps its place.
LEMMA PillsFollow ==
  ASSUME queue \in Seq(Jobs \cup {Stop})
  PROVE  /\ queue \o Pills \in Seq(Jobs \cup {Stop})
         /\ \A i \in 1..Len(queue \o Pills) :
              (queue \o Pills)[i] = IF i <= Len(queue) THEN queue[i] ELSE Stop
<1>1. Cardinality(Workers) \in Nat
  BY WorkersAssumption, FS_CardinalityType
<1>2. Pills \in Seq(Jobs \cup {Stop}) /\ Len(Pills) = Cardinality(Workers)
  BY <1>1 DEF Pills
<1>3. \A i \in 1..Len(Pills) : Pills[i] = Stop
  BY <1>1, <1>2 DEF Pills
<1>4. /\ queue \o Pills \in Seq(Jobs \cup {Stop})
      /\ Len(queue \o Pills) = Len(queue) + Len(Pills)
      /\ \A i \in 1..(Len(queue) + Len(Pills)) :
           (queue \o Pills)[i] = IF i <= Len(queue) THEN queue[i] ELSE Pills[i - Len(queue)]
  BY <1>2, ConcatProperties
<1>5. \A i \in 1..(Len(queue) + Len(Pills)) :
        ~(i <= Len(queue)) => i - Len(queue) \in 1..Len(Pills)
  BY <1>2, LenProperties
<1>6. QED BY <1>3, <1>4, <1>5

\* The initial pool is of its type.
LEMMA InitType == JobsInit => JobsTypeOK
BY DEF JobsInit, JobsTypeOK, Statuses, Reasons, WorkerState, Waiting, Call, NoCall

\* Every step keeps the types.
LEMMA StepType ==
  ASSUME JobsTypeOK, [JobsNext]_jobVars
  PROVE  JobsTypeOK'
<1> USE JobsAssumption
<1>1. ASSUME NEW j \in Jobs, Record(j) PROVE JobsTypeOK'
  BY <1>1 DEF Record, JobsTypeOK, Statuses, Call, IsChat
<1>2. ASSUME NEW j \in Jobs, RequestCancel(j) PROVE JobsTypeOK'
  <2>1. call' \in Call
    BY <1>2 DEF RequestCancel, JobsTypeOK, IsChat, Call
  <2>2. QED BY <1>2, <2>1 DEF RequestCancel, JobsTypeOK
<1>3. ASSUME Enqueue PROVE JobsTypeOK'
  <2>1. call.job \in Jobs
    BY <1>3 DEF Enqueue, JobsTypeOK, Call, NoCall
  <2>2. queue' \in Seq(Jobs \cup {Stop})
    BY <1>3, <2>1 DEF Enqueue, JobsTypeOK
  <2>3. QED BY <1>3, <2>2 DEF Enqueue, JobsTypeOK, Call
<1>4. ASSUME EnqueueTooLate PROVE JobsTypeOK'
  BY <1>4, PoppedType DEF EnqueueTooLate, JobsTypeOK, Call, Statuses
<1>5. ASSUME Cancel PROVE JobsTypeOK'
  <2>1. call.job \in Jobs
    BY <1>5 DEF Cancel, JobsTypeOK, Call, NoCall
  <2>2. token' \in [Jobs -> Reasons]
    BY <1>5, <2>1, CancelledType DEF Cancel, JobsTypeOK, Reasons
  <2>3. QED BY <1>5, <2>2 DEF Cancel, JobsTypeOK, Call
<1>6. ASSUME NEW w \in Workers, Take(w) PROVE JobsTypeOK'
  <2>1. Head(queue) \in Jobs \cup {Stop} /\ Tail(queue) \in Seq(Jobs \cup {Stop})
    BY <1>6, HeadTailProperties DEF Take, JobsTypeOK
  <2>2. worker' \in [Workers -> WorkerState]
    BY <1>6, <2>1 DEF Take, JobsTypeOK, WorkerState, Gone
  <2>3. QED BY <1>6, <2>1, <2>2 DEF Take, JobsTypeOK
<1>7. ASSUME NEW w \in Workers, Begin(w) PROVE JobsTypeOK'
  <2>1. worker[w] \in [pc : {"taken", "working", "failed"}, job : Jobs]
    BY <1>7 DEF Begin, JobsTypeOK, WorkerState, Waiting, Gone
  <2>2. worker' \in [Workers -> WorkerState]
    BY <1>7, <2>1 DEF Begin, JobsTypeOK, WorkerState
  <2>3. QED BY <1>7, <2>1, <2>2 DEF Begin, JobsTypeOK, Statuses
<1>8. ASSUME NEW w \in Workers, Skip(w) PROVE JobsTypeOK'
  BY <1>8 DEF Skip, JobsTypeOK, Statuses, WorkerState
<1>9. ASSUME NEW w \in Workers, Forget(w) PROVE JobsTypeOK'
  BY <1>9, PoppedType DEF Forget, JobsTypeOK, WorkerState
<1>10. ASSUME NEW w \in Workers, NEW outcome \in Final, End(w, outcome) PROVE JobsTypeOK'
  <2>1. worker[w] \in [pc : {"taken", "working", "failed"}, job : Jobs]
    BY <1>10 DEF End, JobsTypeOK, WorkerState, Waiting, Gone
  <2>2. worker' \in [Workers -> WorkerState]
    BY <1>10, <2>1 DEF End, JobsTypeOK, WorkerState
  <2>3. registered' \in [Turns -> Jobs \cup {NoJob}]
    BY <1>10, PoppedType DEF End, JobsTypeOK
  <2>4. status' \in [Jobs -> Statuses]
    BY <1>10 DEF End, JobsTypeOK, Statuses, Final
  <2>5. QED BY <1>10, <2>2, <2>3, <2>4 DEF End, JobsTypeOK
<1>11. ASSUME NEW w \in Workers, CancelSelf(w) PROVE JobsTypeOK'
  <2>1. worker[w].job \in Jobs
    BY <1>11 DEF CancelSelf, JobsTypeOK, WorkerState, Waiting, Gone
  <2>2. token' \in [Jobs -> Reasons]
    BY <1>11, <2>1, CancelledType DEF CancelSelf, JobsTypeOK, Reasons
  <2>3. QED BY <1>11, <2>2 DEF CancelSelf, JobsTypeOK
<1>12. ASSUME CloseBegin PROVE JobsTypeOK'
  <2>1. queue' \in Seq(Jobs \cup {Stop})
    BY <1>12, PillsFollow DEF CloseBegin, JobsTypeOK, Pills
  <2>2. status' \in [Jobs -> Statuses]
    BY <1>12 DEF CloseBegin, JobsTypeOK, Statuses
  <2>3. signals' \subseteq Jobs
    BY <1>12 DEF CloseBegin, ToSignal, Running
  <2>4. QED BY <1>12, <2>1, <2>2, <2>3, PoppedType DEF CloseBegin, JobsTypeOK
<1>13. ASSUME NEW j \in Jobs, CloseSignal(j) PROVE JobsTypeOK'
  BY <1>13, CancelledType DEF CloseSignal, JobsTypeOK, Reasons
<1>14. ASSUME CloseClient PROVE JobsTypeOK'
  BY <1>14 DEF CloseClient, JobsTypeOK
<1>15. ASSUME UNCHANGED jobVars PROVE JobsTypeOK'
  BY <1>15 DEF jobVars, JobsTypeOK
<1>16. QED
  BY <1>1, <1>2, <1>3, <1>4, <1>5, <1>6, <1>7, <1>8, <1>9, <1>10, <1>11, <1>12,
     <1>13, <1>14, <1>15 DEF JobsNext, Handler, WorkerStep, Close

\* The pool's structures keep their types: no poison pill is ever worked on,
\* no token holds a reason nobody gave (web/workbench_jobs.py).
THEOREM PoolTypeCorrect == JobsSpec => []JobsTypeOK
BY InitType, StepType, PTL DEF JobsSpec

(***************************************************************************)
(* A job is in one place at a time: in the call that submits it, in the    *)
(* queue, or with a worker; and its status fits the place.                 *)
(***************************************************************************)
Held(j) == \E w \in Workers : worker[w].job = j
InQueue(j) == \E i \in 1..Len(queue) : queue[i] = j
InCall(j) == call.op = "submit" /\ call.job = j
NotBegun(j) == status[j] \in {"queued", "cancelled"}

OnePlace ==
  /\ \A v, w \in Workers : worker[v].job = worker[w].job /\ worker[v].job \in Jobs => v = w
  /\ \A i, k \in 1..Len(queue) : queue[i] = queue[k] /\ queue[i] \in Jobs => i = k
  /\ \A j \in Jobs :
       /\ InQueue(j) => NotBegun(j) /\ ~Held(j) /\ ~InCall(j)
       /\ InCall(j) => NotBegun(j) /\ ~Held(j)

WorkerFits ==
  \A w \in Workers :
    /\ worker[w].pc = "taken" => NotBegun(worker[w].job)
    /\ worker[w].pc = "working" => status[worker[w].job] = "running"
    /\ worker[w].pc = "failed" => status[worker[w].job] = "failed"

RunningHeld ==
  \A j \in Jobs : status[j] = "running" =>
    \E w \in Workers : worker[w] = [pc |-> "working", job |-> j]

\* Shutdown has told, or is about to tell, every operation that can stop.
Told ==
  closing # "open" =>
    \A w \in Workers :
      worker[w].pc = "working" /\ Cancelable(worker[w].job)
        => token[worker[w].job] # "none" \/ worker[w].job \in signals

Phases == closing = "joining" => signals = {}

PoolInv == JobsTypeOK /\ OnePlace /\ WorkerFits /\ RunningHeld /\ Told /\ Phases

\* The invariant holds at the start.
LEMMA InitInv == JobsInit => PoolInv
<1>1. ASSUME JobsInit PROVE OnePlace
  BY <1>1, JobsAssumption DEF JobsInit, OnePlace, Waiting, NoCall, InQueue, InCall, Held
<1>2. ASSUME JobsInit PROVE WorkerFits /\ RunningHeld /\ Told /\ Phases
  BY <1>2 DEF JobsInit, WorkerFits, RunningHeld, Told, Phases, Waiting
<1>3. QED BY <1>1, <1>2, InitType DEF PoolInv

\* The shapes of the pool's structures, unfolded.
LEMMA PoolShapes ==
  ASSUME PoolInv
  PROVE  /\ JobsTypeOK /\ OnePlace /\ WorkerFits /\ RunningHeld /\ Told /\ Phases
         /\ status \in [Jobs -> Statuses]
         /\ token \in [Jobs -> Reasons]
         /\ queue \in Seq(Jobs \cup {Stop})
         /\ worker \in [Workers -> WorkerState]
         /\ \A u \in Workers : worker[u] = Waiting \/ worker[u] = Gone
              \/ (worker[u].pc \in {"taken", "working", "failed"} /\ worker[u].job \in Jobs)
         /\ \A u \in Workers : worker[u] = [pc |-> worker[u].pc, job |-> worker[u].job]
BY DEF PoolInv, JobsTypeOK, WorkerState, Waiting, Gone

\* A job that is recorded was nowhere before.
LEMMA RecordInv ==
  ASSUME PoolInv, JobsTypeOK', NEW j \in Jobs, Record(j)
  PROVE  PoolInv'
<1>1. OnePlace'
  <2>1. ~Held(j) /\ ~InQueue(j)
    BY PoolShapes, JobsAssumption DEF Record, OnePlace, WorkerFits, Held, InQueue, NotBegun, Waiting, Gone
  <2>2. /\ worker' = worker /\ queue' = queue /\ call = NoCall
        /\ call'.op = "submit" /\ call'.job = j
        /\ status'[j] = "queued" /\ \A k \in Jobs \ {j} : status'[k] = status[k]
    BY PoolShapes, JobsAssumption DEF Record
  <2>3. \A k \in Jobs :
        /\ Held(k)' <=> Held(k)
        /\ InQueue(k)' <=> InQueue(k)
        /\ InCall(k)' <=> k = j
    BY <2>2 DEF Held, InQueue, InCall
  <2>4. QED BY <2>1, <2>2, <2>3, PoolShapes, JobsAssumption DEF OnePlace, NotBegun
<1>2. WorkerFits'
  BY PoolShapes, JobsAssumption DEF Record, WorkerFits, NotBegun, Waiting, Gone, NoCall
<1>3. RunningHeld'
  BY PoolShapes, JobsAssumption DEF Record, RunningHeld, Waiting, Gone, NoCall
<1>4. Told'
  BY PoolShapes, JobsAssumption DEF Record, Told, Waiting, Gone, NoCall
<1>5. Phases'
  BY PoolShapes, JobsAssumption DEF Record, Phases, Waiting, Gone, NoCall
<1>6. QED BY <1>1, <1>2, <1>3, <1>4, <1>5 DEF PoolInv

\* A cancel is requested.
LEMMA RequestCancelInv ==
  ASSUME PoolInv, JobsTypeOK', NEW j \in Jobs, RequestCancel(j)
  PROVE  PoolInv'
<1>1. OnePlace'
  BY PoolShapes, JobsAssumption DEF RequestCancel, OnePlace, InQueue, InCall, Held, NotBegun, Waiting, Gone, NoCall
<1>2. WorkerFits'
  BY PoolShapes, JobsAssumption DEF RequestCancel, WorkerFits, NotBegun, Waiting, Gone, NoCall
<1>3. RunningHeld'
  BY PoolShapes, JobsAssumption DEF RequestCancel, RunningHeld, Waiting, Gone, NoCall
<1>4. Told'
  BY PoolShapes, JobsAssumption DEF RequestCancel, Told, Waiting, Gone, NoCall
<1>5. Phases'
  BY PoolShapes, JobsAssumption DEF RequestCancel, Phases, Waiting, Gone, NoCall
<1>6. QED BY <1>1, <1>2, <1>3, <1>4, <1>5 DEF PoolInv

\* A job moves from the call into the queue.
LEMMA EnqueueInv ==
  ASSUME PoolInv, JobsTypeOK', Enqueue
  PROVE  PoolInv'
<1>1. OnePlace'
  BY PoolShapes, JobsAssumption DEF Enqueue, OnePlace, InQueue, InCall, Held, NotBegun, Waiting, Gone, NoCall
<1>2. WorkerFits'
  BY PoolShapes, JobsAssumption DEF Enqueue, WorkerFits, NotBegun, Waiting, Gone, NoCall
<1>3. RunningHeld'
  BY PoolShapes, JobsAssumption DEF Enqueue, RunningHeld, Waiting, Gone, NoCall
<1>4. Told'
  BY PoolShapes, JobsAssumption DEF Enqueue, Told, Waiting, Gone, NoCall
<1>5. Phases'
  BY PoolShapes, JobsAssumption DEF Enqueue, Phases, Waiting, Gone, NoCall
<1>6. QED BY <1>1, <1>2, <1>3, <1>4, <1>5 DEF PoolInv

\* A job submitted too late was not begun.
LEMMA EnqueueTooLateInv ==
  ASSUME PoolInv, JobsTypeOK', EnqueueTooLate
  PROVE  PoolInv'
<1>1. OnePlace'
  BY PoolShapes, JobsAssumption DEF EnqueueTooLate, OnePlace, InQueue, InCall, Held, NotBegun, Waiting, Gone, NoCall
<1>2. WorkerFits'
  <2>1. worker' = worker /\ \A k \in Jobs : status'[k] = status[k] \/ InCall(k)
    BY PoolShapes, JobsAssumption DEF EnqueueTooLate, InCall
  <2>2. \A w \in Workers : worker[w].job \in Jobs => ~InCall(worker[w].job)
    BY PoolShapes, JobsAssumption DEF OnePlace, Held
  <2>3. \A w \in Workers : worker[w].job \in Jobs => status'[worker[w].job] = status[worker[w].job]
    BY <2>1, <2>2
  <2>4. QED BY <2>1, <2>3, PoolShapes, JobsAssumption DEF WorkerFits, NotBegun, Waiting, Gone
<1>3. RunningHeld'
  BY PoolShapes, JobsAssumption DEF EnqueueTooLate, RunningHeld, Waiting, Gone, NoCall
<1>4. Told'
  BY PoolShapes, JobsAssumption DEF EnqueueTooLate, Told, Waiting, Gone, NoCall
<1>5. Phases'
  BY PoolShapes, JobsAssumption DEF EnqueueTooLate, Phases, Waiting, Gone, NoCall
<1>6. QED BY <1>1, <1>2, <1>3, <1>4, <1>5 DEF PoolInv

\* A cancel leaves jobs and workers where they are.
LEMMA CancelInv ==
  ASSUME PoolInv, JobsTypeOK', Cancel
  PROVE  PoolInv'
<1>1. OnePlace'
  BY PoolShapes, JobsAssumption DEF Cancel, OnePlace, InQueue, InCall, Held, NotBegun, Waiting, Gone, NoCall, Cancelled
<1>2. WorkerFits'
  BY PoolShapes, JobsAssumption DEF Cancel, WorkerFits, NotBegun, Waiting, Gone, NoCall, Cancelled
<1>3. RunningHeld'
  BY PoolShapes, JobsAssumption DEF Cancel, RunningHeld, Waiting, Gone, NoCall, Cancelled
<1>4. Told'
  BY PoolShapes, JobsAssumption DEF Cancel, Told, Waiting, Gone, NoCall, Cancelled
<1>5. Phases'
  BY PoolShapes, JobsAssumption DEF Cancel, Phases, Waiting, Gone, NoCall, Cancelled
<1>6. QED BY <1>1, <1>2, <1>3, <1>4, <1>5 DEF PoolInv

\* A job moves from the queue to a worker.
LEMMA TakeInv ==
  ASSUME PoolInv, JobsTypeOK', NEW w \in Workers, Take(w)
  PROVE  PoolInv'
<1>1. OnePlace'
  <2>1. /\ Len(queue') = Len(queue) - 1 /\ Len(queue) \in Nat \ {0}
        /\ \A i \in 1..Len(queue') : queue'[i] = queue[i + 1]
        /\ Head(queue) = queue[1] /\ queue[1] \in Jobs \cup {Stop}
    BY PoolShapes, JobsAssumption, HeadTailProperties, LenProperties DEF Take
  <2>2. /\ worker[w] = Waiting /\ call' = call /\ status' = status
        /\ worker'[w] = IF queue[1] = Stop THEN Gone ELSE [pc |-> "taken", job |-> queue[1]]
        /\ \A u \in Workers \ {w} : worker'[u] = worker[u]
    BY PoolShapes, JobsAssumption, <2>1 DEF Take, Waiting, Gone
  <2>3. \A k \in Jobs :
        /\ InQueue(k)' => InQueue(k) /\ k # queue[1]
        /\ Held(k)' => Held(k) \/ k = queue[1]
        /\ InCall(k)' <=> InCall(k)
    <3>1. ASSUME NEW k \in Jobs, InQueue(k)' PROVE InQueue(k) /\ k # queue[1]
      <4>1. PICK i \in 1..Len(queue') : queue'[i] = k
        BY <3>1 DEF InQueue
      <4>2. queue[i + 1] = k /\ i + 1 \in 1..Len(queue) /\ i + 1 # 1 /\ 1 \in 1..Len(queue)
        BY <2>1, <4>1
      <4>3. QED BY <3>1, <4>2, PoolShapes DEF InQueue, OnePlace
    <3>2. \A k \in Jobs : Held(k)' => Held(k) \/ k = queue[1]
      BY <2>2, PoolShapes, JobsAssumption DEF Held, Gone
    <3>3. QED BY <2>2, <3>1, <3>2 DEF InCall
  <2>4. queue[1] \in Jobs => InQueue(queue[1])
    BY <2>1 DEF InQueue
  <2>5. \A u, v \in Workers : worker'[u].job = worker'[v].job /\ worker'[u].job \in Jobs => u = v
    BY <2>2, <2>4, PoolShapes, JobsAssumption DEF OnePlace, Held, Gone
  <2>6. \A i, k \in 1..Len(queue') : queue'[i] = queue'[k] /\ queue'[i] \in Jobs => i = k
    <3>1. SUFFICES ASSUME NEW i \in 1..Len(queue'), NEW k \in 1..Len(queue'),
                          queue'[i] = queue'[k], queue'[i] \in Jobs
                   PROVE  i = k
      OBVIOUS
    <3>2. /\ queue[i + 1] = queue[k + 1] /\ queue[i + 1] \in Jobs
          /\ i + 1 \in 1..Len(queue) /\ k + 1 \in 1..Len(queue)
      BY <2>1, <3>1
    <3>3. i + 1 = k + 1
      BY <3>2, PoolShapes DEF OnePlace
    <3>4. QED BY <3>3
  <2>7. \A k \in Jobs :
          /\ InQueue(k)' => NotBegun(k)' /\ ~Held(k)' /\ ~InCall(k)'
          /\ InCall(k)' => NotBegun(k)' /\ ~Held(k)'
    BY <2>2, <2>3, <2>4, PoolShapes, JobsAssumption DEF OnePlace, NotBegun
  <2>8. QED BY <2>5, <2>6, <2>7 DEF OnePlace
<1>2. WorkerFits'
  <2>1. /\ Len(queue') = Len(queue) - 1 /\ Len(queue) \in Nat \ {0}
        /\ \A i \in 1..Len(queue') : queue'[i] = queue[i + 1]
        /\ Head(queue) = queue[1] /\ queue[1] \in Jobs \cup {Stop}
    BY PoolShapes, JobsAssumption, HeadTailProperties, LenProperties DEF Take
  <2>2. /\ worker[w] = Waiting /\ call' = call /\ status' = status
        /\ worker'[w] = IF queue[1] = Stop THEN Gone ELSE [pc |-> "taken", job |-> queue[1]]
        /\ \A u \in Workers \ {w} : worker'[u] = worker[u]
    BY PoolShapes, JobsAssumption, <2>1 DEF Take, Waiting, Gone
  <2>3. queue[1] \in Jobs => NotBegun(queue[1])
    BY <2>1, PoolShapes, JobsAssumption DEF OnePlace, InQueue
  <2>4. QED BY <2>1, <2>2, <2>3, PoolShapes, JobsAssumption DEF WorkerFits, NotBegun, Waiting, Gone
<1>3. RunningHeld'
  <2>1. SUFFICES ASSUME NEW j \in Jobs, status'[j] = "running"
                 PROVE  \E v \in Workers : worker'[v] = [pc |-> "working", job |-> j]
    BY DEF RunningHeld
  <2>2. status[j] = "running"
    BY <2>1, PoolShapes, JobsAssumption DEF Take
  <2>3. PICK v \in Workers : worker[v] = [pc |-> "working", job |-> j]
    BY <2>2, PoolShapes, JobsAssumption DEF RunningHeld
  <2>4. v # w /\ worker'[v] = worker[v]
    BY <2>3, PoolShapes, JobsAssumption DEF Take, Waiting
  <2>5. QED BY <2>3, <2>4
<1>4. Told'
  BY PoolShapes, JobsAssumption DEF Take, Told, Waiting, Gone
<1>5. Phases'
  BY PoolShapes, JobsAssumption DEF Take, Phases, Waiting, Gone
<1>6. QED BY <1>1, <1>2, <1>3, <1>4, <1>5 DEF PoolInv

\* A worker begins the job it has taken.
LEMMA BeginInv ==
  ASSUME PoolInv, JobsTypeOK', NEW w \in Workers, Begin(w)
  PROVE  PoolInv'
<1>1. OnePlace'
  BY PoolShapes, JobsAssumption DEF Begin, OnePlace, InQueue, InCall, Held, NotBegun, Waiting, Gone
<1>2. WorkerFits'
  <2>1. /\ worker[w].pc = "taken" /\ worker[w].job \in Jobs
        /\ worker'[w] = [pc |-> "working", job |-> worker[w].job]
        /\ status'[worker[w].job] = "running"
        /\ \A k \in Jobs : k # worker[w].job => status'[k] = status[k]
        /\ \A u \in Workers \ {w} : worker'[u] = worker[u]
    BY PoolShapes, JobsAssumption DEF Begin, Waiting, Gone
  <2>2. \A u \in Workers \ {w} :
          worker[u].job \in Jobs => worker[u].job # worker[w].job
    BY <2>1, PoolShapes, JobsAssumption DEF OnePlace
  <2>3. \A u \in Workers \ {w} : worker[u].job \in Jobs =>
          status'[worker[u].job] = status[worker[u].job]
    BY <2>1, <2>2
  <2>4. \A u \in Workers \ {w} :
          /\ worker'[u].pc = "taken" => status'[worker'[u].job] \in {"queued", "cancelled"}
          /\ worker'[u].pc = "working" => status'[worker'[u].job] = "running"
          /\ worker'[u].pc = "failed" => status'[worker'[u].job] = "failed"
    BY <2>1, <2>3, PoolShapes DEF WorkerFits, NotBegun, Waiting, Gone
  <2>5. /\ worker'[w].pc = "working" /\ status'[worker'[w].job] = "running"
    BY <2>1
  <2>6. QED BY <2>1, <2>4, <2>5 DEF WorkerFits, NotBegun
<1>3. RunningHeld'
  <2>1. /\ worker[w].pc = "taken" /\ worker[w].job \in Jobs
        /\ worker'[w] = [pc |-> "working", job |-> worker[w].job]
        /\ status'[worker[w].job] = "running"
        /\ \A k \in Jobs : k # worker[w].job => status'[k] = status[k]
        /\ \A u \in Workers \ {w} : worker'[u] = worker[u]
    BY PoolShapes, JobsAssumption DEF Begin, Waiting, Gone
  <2>2. SUFFICES ASSUME NEW j \in Jobs, status'[j] = "running"
                 PROVE  \E v \in Workers : worker'[v] = [pc |-> "working", job |-> j]
    BY DEF RunningHeld
  <2>3. ASSUME j # worker[w].job
        PROVE  \E v \in Workers : worker'[v] = [pc |-> "working", job |-> j]
    <3>1. PICK v \in Workers : worker[v] = [pc |-> "working", job |-> j]
      BY <2>1, <2>2, <2>3, PoolShapes, JobsAssumption DEF RunningHeld
    <3>2. QED BY <2>1, <3>1
  <2>4. QED BY <2>1, <2>3
<1>4. Told'
  BY PoolShapes, JobsAssumption DEF Begin, Told, Waiting, Gone
<1>5. Phases'
  BY PoolShapes, JobsAssumption DEF Begin, Phases, Waiting, Gone
<1>6. QED BY <1>1, <1>2, <1>3, <1>4, <1>5 DEF PoolInv

\* A worker drops the job it has taken.
LEMMA SkipInv ==
  ASSUME PoolInv, JobsTypeOK', NEW w \in Workers, Skip(w)
  PROVE  PoolInv'
<1>1. OnePlace'
  BY PoolShapes, JobsAssumption DEF Skip, OnePlace, InQueue, InCall, Held, NotBegun, Waiting, Gone
<1>2. WorkerFits'
  BY PoolShapes, JobsAssumption DEF Skip, WorkerFits, NotBegun, Waiting, Gone
<1>3. RunningHeld'
  <2>1. SUFFICES ASSUME NEW j \in Jobs, status'[j] = "running"
                 PROVE  \E v \in Workers : worker'[v] = [pc |-> "working", job |-> j]
    BY DEF RunningHeld
  <2>2. status[j] = "running"
    BY <2>1, PoolShapes, JobsAssumption DEF Skip
  <2>3. PICK v \in Workers : worker[v] = [pc |-> "working", job |-> j]
    BY <2>2, PoolShapes, JobsAssumption DEF RunningHeld
  <2>4. v # w /\ worker'[v] = worker[v]
    BY <2>3, PoolShapes, JobsAssumption DEF Skip
  <2>5. QED BY <2>3, <2>4
<1>4. Told'
  BY PoolShapes, JobsAssumption DEF Skip, Told, Waiting, Gone
<1>5. Phases'
  BY PoolShapes, JobsAssumption DEF Skip, Phases, Waiting, Gone
<1>6. QED BY <1>1, <1>2, <1>3, <1>4, <1>5 DEF PoolInv

\* A failed job's worker is free.
LEMMA ForgetInv ==
  ASSUME PoolInv, JobsTypeOK', NEW w \in Workers, Forget(w)
  PROVE  PoolInv'
<1>1. OnePlace'
  BY PoolShapes, JobsAssumption DEF Forget, OnePlace, InQueue, InCall, Held, NotBegun, Waiting, Gone
<1>2. WorkerFits'
  BY PoolShapes, JobsAssumption DEF Forget, WorkerFits, NotBegun, Waiting, Gone
<1>3. RunningHeld'
  <2>1. SUFFICES ASSUME NEW j \in Jobs, status'[j] = "running"
                 PROVE  \E v \in Workers : worker'[v] = [pc |-> "working", job |-> j]
    BY DEF RunningHeld
  <2>2. status[j] = "running"
    BY <2>1, PoolShapes, JobsAssumption DEF Forget
  <2>3. PICK v \in Workers : worker[v] = [pc |-> "working", job |-> j]
    BY <2>2, PoolShapes, JobsAssumption DEF RunningHeld
  <2>4. v # w /\ worker'[v] = worker[v]
    BY <2>3, PoolShapes, JobsAssumption DEF Forget
  <2>5. QED BY <2>3, <2>4
<1>4. Told'
  BY PoolShapes, JobsAssumption DEF Forget, Told, Waiting, Gone
<1>5. Phases'
  BY PoolShapes, JobsAssumption DEF Forget, Phases, Waiting, Gone
<1>6. QED BY <1>1, <1>2, <1>3, <1>4, <1>5 DEF PoolInv

\* A worker's job ends.
LEMMA EndInv ==
  ASSUME PoolInv, JobsTypeOK', NEW w \in Workers, NEW outcome \in Final, End(w, outcome)
  PROVE  PoolInv'
<1>1. OnePlace'
  BY PoolShapes, JobsAssumption DEF End, OnePlace, InQueue, InCall, Held, NotBegun, Waiting, Gone, Final
<1>2. WorkerFits'
  <2>1. /\ worker[w].pc = "working" /\ worker[w].job \in Jobs
        /\ status'[worker[w].job] = outcome /\ outcome # "running"
        /\ \A k \in Jobs : k # worker[w].job => status'[k] = status[k]
        /\ \A u \in Workers \ {w} : worker'[u] = worker[u]
        /\ \/ worker'[w] = Waiting
           \/ outcome = "failed" /\ worker'[w] = [pc |-> "failed", job |-> worker[w].job]
    BY PoolShapes, JobsAssumption DEF End, Waiting, Gone, Final
  <2>2. \A u \in Workers \ {w} :
          worker[u].job \in Jobs => worker[u].job # worker[w].job
    BY <2>1, PoolShapes, JobsAssumption DEF OnePlace
  <2>3. QED BY <2>1, <2>2, PoolShapes, JobsAssumption DEF WorkerFits, NotBegun, Waiting, Gone
<1>3. RunningHeld'
  <2>1. /\ worker[w].pc = "working" /\ worker[w].job \in Jobs
        /\ status'[worker[w].job] = outcome /\ outcome # "running"
        /\ \A k \in Jobs : k # worker[w].job => status'[k] = status[k]
        /\ \A u \in Workers \ {w} : worker'[u] = worker[u]
        /\ \/ worker'[w] = Waiting
           \/ outcome = "failed" /\ worker'[w] = [pc |-> "failed", job |-> worker[w].job]
    BY PoolShapes, JobsAssumption DEF End, Waiting, Gone, Final
  <2>2. SUFFICES ASSUME NEW j \in Jobs, status'[j] = "running"
                 PROVE  \E v \in Workers : worker'[v] = [pc |-> "working", job |-> j]
    BY DEF RunningHeld
  <2>3. status[j] = "running" /\ j # worker[w].job
    BY <2>1, <2>2
  <2>4. PICK v \in Workers : worker[v] = [pc |-> "working", job |-> j]
    BY <2>3, PoolShapes, JobsAssumption DEF RunningHeld
  <2>5. QED BY <2>1, <2>3, <2>4
<1>4. Told'
  BY PoolShapes, JobsAssumption DEF End, Told, Waiting, Gone, Final
<1>5. Phases'
  BY PoolShapes, JobsAssumption DEF End, Phases, Waiting, Gone, Final
<1>6. QED BY <1>1, <1>2, <1>3, <1>4, <1>5 DEF PoolInv

\* A job cancels its own token.
LEMMA CancelSelfInv ==
  ASSUME PoolInv, JobsTypeOK', NEW w \in Workers, CancelSelf(w)
  PROVE  PoolInv'
<1>1. OnePlace'
  BY PoolShapes, JobsAssumption DEF CancelSelf, OnePlace, InQueue, InCall, Held, NotBegun, Waiting, Gone, Cancelled
<1>2. WorkerFits'
  BY PoolShapes, JobsAssumption DEF CancelSelf, WorkerFits, NotBegun, Waiting, Gone, Cancelled
<1>3. RunningHeld'
  BY PoolShapes, JobsAssumption DEF CancelSelf, RunningHeld, Waiting, Gone, Cancelled
<1>4. Told'
  BY PoolShapes, JobsAssumption DEF CancelSelf, Told, Waiting, Gone, Cancelled
<1>5. Phases'
  BY PoolShapes, JobsAssumption DEF CancelSelf, Phases, Waiting, Gone, Cancelled
<1>6. QED BY <1>1, <1>2, <1>3, <1>4, <1>5 DEF PoolInv

\* Shutdown cancels what waits and lists what runs.
LEMMA CloseBeginInv ==
  ASSUME PoolInv, JobsTypeOK', CloseBegin
  PROVE  PoolInv'
<1>1. OnePlace'
  <2>1. /\ worker' = worker /\ call' = call /\ Len(queue) \in Nat
        /\ \A k \in Jobs : NotBegun(k) => NotBegun(k)'
    BY PoolShapes, JobsAssumption, LenProperties DEF CloseBegin, Queued, NotBegun
  <2>2. \A i \in 1..Len(queue') : queue'[i] \in Jobs =>
          i \in 1..Len(queue) /\ queue'[i] = queue[i]
    <3>1. queue' = queue \o Pills
      BY DEF CloseBegin, Pills
    <3>2. \A i \in 1..Len(queue') :
            queue'[i] = IF i <= Len(queue) THEN queue[i] ELSE Stop
      BY <3>1, PoolShapes, PillsFollow
    <3>3. queue' \in Seq(Jobs \cup {Stop})
      BY <3>1, PoolShapes, PillsFollow
    <3>4. Len(queue') \in Nat
      BY <3>3, LenProperties
    <3>5. QED BY <2>1, <3>2, <3>4, JobsAssumption
  <2>3. \A k \in Jobs :
        /\ InQueue(k)' => InQueue(k)
        /\ Held(k)' <=> Held(k)
        /\ InCall(k)' <=> InCall(k)
    BY <2>1, <2>2 DEF InQueue, Held, InCall
  <2>4. QED BY <2>1, <2>2, <2>3, PoolShapes, JobsAssumption DEF OnePlace
<1>2. WorkerFits'
  BY PoolShapes, JobsAssumption DEF CloseBegin, WorkerFits, NotBegun, Waiting, Gone, Queued, ToSignal, Running
<1>3. RunningHeld'
  BY PoolShapes, JobsAssumption DEF CloseBegin, RunningHeld, Waiting, Gone, Queued, ToSignal, Running
<1>4. Told'
  <2>1. worker' = worker /\ signals' = ToSignal
    BY DEF CloseBegin
  <2>2. \A u \in Workers : worker[u].pc = "working" => worker[u].job \in Running
    BY PoolShapes, JobsAssumption DEF WorkerFits, Running, Waiting, Gone
  <2>3. QED BY <2>1, <2>2 DEF Told, ToSignal
<1>5. Phases'
  BY PoolShapes, JobsAssumption DEF CloseBegin, Phases, Waiting, Gone, Queued, ToSignal, Running
<1>6. QED BY <1>1, <1>2, <1>3, <1>4, <1>5 DEF PoolInv

\* Shutdown tells one operation.
LEMMA CloseSignalInv ==
  ASSUME PoolInv, JobsTypeOK', NEW j \in Jobs, CloseSignal(j)
  PROVE  PoolInv'
<1>1. OnePlace'
  BY PoolShapes, JobsAssumption DEF CloseSignal, OnePlace, InQueue, InCall, Held, NotBegun, Waiting, Gone, Cancelled
<1>2. WorkerFits'
  BY PoolShapes, JobsAssumption DEF CloseSignal, WorkerFits, NotBegun, Waiting, Gone, Cancelled
<1>3. RunningHeld'
  BY PoolShapes, JobsAssumption DEF CloseSignal, RunningHeld, Waiting, Gone, Cancelled
<1>4. Told'
  BY PoolShapes, JobsAssumption DEF CloseSignal, Told, Waiting, Gone, Cancelled
<1>5. Phases'
  BY PoolShapes, JobsAssumption DEF CloseSignal, Phases, Waiting, Gone, Cancelled
<1>6. QED BY <1>1, <1>2, <1>3, <1>4, <1>5 DEF PoolInv

\* Shutdown has told everyone.
LEMMA CloseClientInv ==
  ASSUME PoolInv, JobsTypeOK', CloseClient
  PROVE  PoolInv'
<1>1. OnePlace'
  BY PoolShapes, JobsAssumption DEF CloseClient, OnePlace, InQueue, InCall, Held, NotBegun, Waiting, Gone
<1>2. WorkerFits'
  BY PoolShapes, JobsAssumption DEF CloseClient, WorkerFits, NotBegun, Waiting, Gone
<1>3. RunningHeld'
  BY PoolShapes, JobsAssumption DEF CloseClient, RunningHeld, Waiting, Gone
<1>4. Told'
  BY PoolShapes, JobsAssumption DEF CloseClient, Told, Waiting, Gone
<1>5. Phases'
  BY PoolShapes, JobsAssumption DEF CloseClient, Phases, Waiting, Gone
<1>6. QED BY <1>1, <1>2, <1>3, <1>4, <1>5 DEF PoolInv

\* Every step keeps the invariant.
LEMMA StepInv ==
  ASSUME PoolInv, [JobsNext]_jobVars
  PROVE  PoolInv'
<1>1. JobsTypeOK'
  BY StepType DEF PoolInv
<1>2. CASE UNCHANGED jobVars
  <2>1. OnePlace'
    BY <1>2 DEF PoolInv, jobVars, OnePlace, InQueue, InCall, Held, NotBegun
  <2>2. WorkerFits' /\ RunningHeld' /\ Told' /\ Phases'
    BY <1>2 DEF PoolInv, jobVars, WorkerFits, NotBegun, RunningHeld, Told, Phases
  <2>3. QED BY <1>1, <2>1, <2>2 DEF PoolInv
<1>3. CASE JobsNext
  BY <1>1, <1>3, RecordInv, RequestCancelInv, EnqueueInv, EnqueueTooLateInv, CancelInv,
     TakeInv, BeginInv, SkipInv, ForgetInv, EndInv, CancelSelfInv,
     CloseBeginInv, CloseSignalInv, CloseClientInv
     DEF JobsNext, Handler, WorkerStep, Close
<1>4. QED BY <1>2, <1>3

LEMMA PoolInvariant == JobsSpec => []PoolInv
BY InitInv, StepInv, PTL DEF JobsSpec

\* Registry and threads agree on who is busy, for any number of workers and
\* any interleaving of submission, cancellation and shutdown.
THEOREM WorkersAgree == JobsSpec => []OneWorkerPerJob
<1>1. ASSUME PoolInv PROVE OneWorkerPerJob
  <2>1. SUFFICES ASSUME NEW j \in Jobs
                 PROVE  status[j] = "running" <=>
                          \E w \in Workers :
                            /\ worker[w] = [pc |-> "working", job |-> j]
                            /\ \A v \in Workers : worker[v].job = j => v = w
    BY DEF OneWorkerPerJob
  <2>2. \A v, w \in Workers : worker[w].job = j /\ worker[v].job = j => v = w
    BY <1>1 DEF PoolInv, OnePlace
  <2>3. \A w \in Workers : worker[w] = [pc |-> "working", job |-> j]
          => status[j] = "running" /\ worker[w].job = j
    BY <1>1 DEF PoolInv, WorkerFits
  <2>4. QED BY <1>1, <2>2, <2>3 DEF PoolInv, RunningHeld
<1>2. QED BY <1>1, PoolInvariant, PTL

\* Once shutdown waits for the workers, every operation that runs and can
\* stop has been told to (close, _signal_job_cancellation).
THEOREM ShutdownMissesNone == JobsSpec => []ShutdownReachesAll
<1>1. ASSUME PoolInv PROVE ShutdownReachesAll
  BY <1>1 DEF PoolInv, Told, Phases, ShutdownReachesAll
<1>2. QED BY <1>1, PoolInvariant, PTL

\* A job that ended is never seen in another status.
THEOREM EndedJobsStay == JobsSpec => FinalStays
<1>1. ASSUME PoolInv, [JobsNext]_jobVars
      PROVE  [\A j \in Jobs : status[j] \in Final => status'[j] = status[j]]_jobVars
  <2>1. SUFFICES ASSUME JobsNext, NEW j \in Jobs, status[j] \in Final
                 PROVE  status'[j] = status[j]
    BY <1>1
  <2>2. status \in [Jobs -> Statuses]
    BY <1>1, PoolShapes
  <2>3. ASSUME NEW k \in Jobs, Record(k) PROVE status'[j] = status[j]
    BY <2>1, <2>2, <2>3 DEF Record, Final
  <2>4. ASSUME EnqueueTooLate PROVE status'[j] = status[j]
    <3>1. InCall(j) => NotBegun(j)
      BY <1>1, PoolShapes DEF OnePlace
    <3>2. QED BY <2>1, <2>2, <2>4, <3>1 DEF EnqueueTooLate, Final, InCall, NotBegun
  <2>5. ASSUME NEW w \in Workers, Begin(w) PROVE status'[j] = status[j]
    BY <2>1, <2>2, <2>5 DEF Begin, Final
  <2>6. ASSUME NEW w \in Workers, Skip(w) PROVE status'[j] = status[j]
    BY <2>1, <2>2, <2>6 DEF Skip, Final
  <2>7. ASSUME NEW w \in Workers, NEW outcome \in Final, End(w, outcome)
        PROVE  status'[j] = status[j]
    <3>1. status[worker[w].job] = "running"
      BY <1>1, <2>7, PoolShapes DEF WorkerFits, End
    <3>2. QED BY <2>1, <2>2, <2>7, <3>1 DEF End, Final
  <2>8. ASSUME CloseBegin PROVE status'[j] = status[j]
    BY <2>1, <2>2, <2>8 DEF CloseBegin, Queued, Final
  <2>9. QED
    BY <2>1, <2>3, <2>4, <2>5, <2>6, <2>7, <2>8
       DEF JobsNext, Handler, WorkerStep, Close, RequestCancel, Enqueue, Cancel, Take,
           Forget, CancelSelf, CloseSignal, CloseClient
<1>2. QED BY <1>1, PoolInvariant, PTL DEF JobsSpec, FinalStays

-----------------------------------------------------------------------------
(* The chat.                                                               *)

(***************************************************************************)
(* The invariant.                                                          *)
(***************************************************************************)
\* Steps of an operation before the transcript says how the turn ended.
Marking == Steps \ {"none", "replied", "raise_cancelled", "raise_failed"}

\* A job has an operation exactly while it runs.
OpFits == \A j \in Jobs : op[j] # "none" <=> status[j] = "running"

\* A job has no server turn before its operation starts one, and the hook is
\* set for the turn that is waited for.
ServerFits ==
  \A j \in Jobs :
    /\ status[j] \in {"none", "queued"} => server[j] = NoServerTurn
    /\ op[j] = "prepare" => server[j].n = 0
    /\ op[j] = "start" => server[j].n <= AutoFixRetries
    /\ op[j] \in {"noting", "hooking", "waiting"} => server[j].n # 0
    /\ op[j] = "waiting" => hook[j] = server[j].n

\* While the pool is open, only the author stops a turn that has not ended.
TokenFits ==
  \A j \in Jobs :
    /\ closing = "open" /\ (status[j] \in {"none", "queued"} \/ op[j] \in Marking)
         => token[j] \in {"none", "author"}
    /\ op[j] = "caught" => token[j] # "none"
    /\ token[j] = "author" => TurnOf[j] \in asked

SignalsFit == closing = "open" => signals = {}

\* One turn of the thread is active at a time.
OneActive == \A s, t \in Turns : ActiveTurn(s) /\ ActiveTurn(t) => s = t

\* An active turn has a job that is going to say how it ended.
Answerable ==
  ~down /\ closing = "open" =>
    \A t \in Turns : ActiveTurn(t) =>
      \E j \in Jobs : TurnOf[j] = t /\ (status[j] = "queued" \/ op[j] \in Marking)

\* The next start finds an empty pool.
DownEmpty == down => JobsInit /\ TalkInit

\* Only turns of the transcript are submitted.
TurnKnown == \A j \in Jobs : status[j] # "none" => turn[TurnOf[j]] # "none"

\* Before anything is retried a turn has one job, and the transcript follows it.
Unretried ==
  retries = 0 =>
    /\ \A i, j \in Jobs :
         status[i] # "none" /\ status[j] # "none" /\ TurnOf[i] = TurnOf[j] => i = j
    /\ \A j \in Jobs :
         /\ status[j] = "queued" \/ op[j] = "prepare" => turn[TurnOf[j]] = "pending"
         /\ op[j] \in Talking => turn[TurnOf[j]] = "running"
         /\ op[j] = "checking" /\ token[j] = "none" => turn[TurnOf[j]] = "running"
         /\ op[j] \in Marking => turn[TurnOf[j]] # "completed"

\* A job that may still answer its turn.
MayAnswer(j) ==
  \/ status[j] = "queued"
  \/ op[j] \in Talking \cup {"prepare"}
  \/ op[j] = "checking" /\ token[j] = "none"

\* Up to one retry a turn has one job that may answer it, and none when it has
\* been answered.
AnswersFit ==
  /\ \A t \in Turns : turn[t] = "none" => answers[t] = 0
  /\ retries <= 1 =>
       /\ \A i, j \in Jobs :
            MayAnswer(i) /\ MayAnswer(j) /\ TurnOf[i] = TurnOf[j] => i = j
       /\ \A t \in Turns : answers[t] <= 1
       /\ \A j \in Jobs : MayAnswer(j) => answers[TurnOf[j]] = 0
  /\ retries = 0 =>
       \A t \in Turns : answers[t] # 0 => turn[t] \in {"completed", "removed"}

ChatInv ==
  /\ TypeOK /\ PoolInv
  /\ OpFits /\ ServerFits /\ TokenFits /\ SignalsFit
  /\ InterruptRequested
  /\ OneActive /\ Answerable /\ DownEmpty /\ TurnKnown
  /\ Unretried /\ AnswersFit /\ CancelledByAuthor

(***************************************************************************)
(* Facts.                                                                  *)
(***************************************************************************)
\* Every job of the thread is a chat job, with a turn.
LEMMA ChatJobs ==
  ASSUME NEW j \in Jobs
  PROVE  /\ IsChat(j) /\ Cancelable(j) /\ TurnOf[j] \in Turns
         /\ j # NoJob /\ j # Stop
BY JobsAssumption, ChatAssumption DEF IsChat, Cancelable

\* The invariant and its types, unfolded.
LEMMA ChatFacts ==
  ASSUME ChatInv
  PROVE  /\ TypeOK /\ JobsTypeOK /\ PoolInv
         /\ OpFits /\ ServerFits /\ TokenFits /\ SignalsFit /\ InterruptRequested
         /\ OneActive /\ Answerable /\ DownEmpty /\ TurnKnown
         /\ Unretried /\ AnswersFit /\ CancelledByAuthor
         /\ status \in [Jobs -> Statuses] /\ token \in [Jobs -> Reasons]
         /\ op \in [Jobs -> Steps] /\ server \in [Jobs -> ServerTurn]
         /\ hook \in [Jobs -> 0..(AutoFixRetries + 1)]
         /\ turn \in [Turns -> TurnStatuses] /\ answers \in [Turns -> Nat]
         /\ retries \in Nat /\ down \in BOOLEAN
BY ChatAssumption DEF ChatInv, TypeOK, JobsTypeOK

\* The process that ends leaves the pool as the next one finds it.
LEMMA LostIsInit == PoolLost => JobsInit'
BY DEF PoolLost, JobsInit

\* A job that may answer its turn is queued or runs.
LEMMA MayAnswerActive ==
  ASSUME ChatInv, NEW j \in Jobs, MayAnswer(j)
  PROVE  status[j] # "none"
BY ChatFacts DEF MayAnswer, OpFits, Talking

\* Before anything is retried, the turn of a job that may answer is active.
LEMMA MayAnswerTurn ==
  ASSUME ChatInv, retries = 0, NEW j \in Jobs, MayAnswer(j)
  PROVE  ActiveTurn(TurnOf[j])
BY ChatFacts DEF MayAnswer, Unretried, ActiveTurn

(***************************************************************************)
(* The pool's part of a step.                                              *)
(***************************************************************************)
\* Every step of the chat is a step of the pool, or ends its process.
LEMMA ChatIsPool ==
  ASSUME Next
  PROVE  [JobsNext]_jobVars \/ PoolLost
<1> USE DEF JobsNext, Handler, WorkerStep, Close, Final
<1>1. ASSUME NEW j \in Jobs, SendMessage(j) \/ Retry(j) \/ ChatRequestCancel(j)
      PROVE  JobsNext
  BY <1>1 DEF SendMessage, Retry, ChatRequestCancel
<1>2. ASSUME NEW j \in Jobs, Operation(j) \/ CodexEnds(j)
      PROVE  UNCHANGED jobVars
  BY <1>2 DEF Operation, CodexEnds, Prepare, BreaksOff, StartTurn, NoteTurn, SetHook,
     WaitEnds, ClearHook, Interrupted, Answered, Check, Caught, Finish, FinishRaises,
     Fail, Regenerate
<1>3. ASSUME NEW w \in Workers, ChatWorker(w) \/ ChatCancelSelf(w)
      PROVE  JobsNext
  BY <1>3 DEF ChatWorker, ChatIdle, ChatBegin, ChatEnd, ChatCancelSelf
<1>4. ASSUME ChatHandler \/ ChatCloseBegin \/ ChatClose
      PROVE  JobsNext
  BY <1>4 DEF ChatHandler, ChatEnqueue, ChatCancel, ChatCloseBegin, ChatClose,
     ChatCloseSignal, ChatCloseClient
<1>5. ASSUME NewChat \/ Recover
      PROVE  UNCHANGED jobVars
  BY <1>5 DEF NewChat, Recover
<1>6. ASSUME Exit
      PROVE  PoolLost
  BY <1>6 DEF Exit
<1>7. QED BY <1>1, <1>2, <1>3, <1>4, <1>5, <1>6 DEF Next

\* The pool's invariant survives every step of the chat.
LEMMA ChatPoolInv == PoolInv /\ [Next]_vars => PoolInv'
<1>1. PoolLost => PoolInv'
  <2>1. JobsInit' => PoolInv'
    BY InitInv, PTL
  <2>2. QED BY <2>1, LostIsInit
<1>2. PoolInv /\ [JobsNext]_jobVars => PoolInv'
  BY StepInv
<1>3. [Next]_vars => [JobsNext]_jobVars \/ PoolLost
  BY ChatIsPool DEF vars
<1>4. QED BY <1>1, <1>2, <1>3

(***************************************************************************)
(* Steps that only concern the pool.                                       *)
(***************************************************************************)
PoolOnly ==
  /\ ~down
  /\ UNCHANGED <<turn, down, talk, chatHistory>>
  /\ closing' = "open" => (closing = "open" /\ signals' = signals)
  /\ \A j \in Jobs :
       /\ \/ status'[j] = status[j]
          \/ /\ status[j] \in {"queued", "cancelled"}
             /\ status'[j] = "cancelled"
             /\ closing' # "open"
       /\ \/ token'[j] = token[j]
          \/ (op[j] = "replied" /\ token'[j] \in {"deadline", "shutdown"})

\* Queueing, taking, skipping and forgetting jobs, requests to cancel, and the
\* beginning of shutdown only concern the pool.
LEMMA PoolOnlySteps ==
  ASSUME ChatInv,
         \/ \E j \in Jobs : ChatRequestCancel(j)
         \/ \E w \in Workers : ChatIdle(w) \/ ChatCancelSelf(w)
         \/ ChatEnqueue \/ ChatCloseBegin
  PROVE  PoolOnly
<1>1. /\ down => JobsInit
      /\ status \in [Jobs -> Statuses] /\ token \in [Jobs -> Reasons]
      /\ worker \in [Workers -> WorkerState] /\ PoolInv
  BY ChatFacts DEF DownEmpty, JobsTypeOK
<1>2. ASSUME NEW j \in Jobs, ChatRequestCancel(j) PROVE PoolOnly
  BY <1>2 DEF ChatRequestCancel, RequestCancel, PoolOnly
<1>3. ASSUME ChatEnqueue PROVE PoolOnly
  <2>1. call.op = "submit" /\ call.job \in Jobs
    BY <1>3, ChatFacts DEF ChatEnqueue, Enqueue, EnqueueTooLate, JobsTypeOK, Call, NoCall
  <2>2. ~down
    BY <1>1, <2>1 DEF JobsInit, NoCall
  <2>3. status[call.job] \in {"queued", "cancelled"}
    BY <1>1, <2>1 DEF PoolInv, OnePlace, InCall, NotBegun
  <2>4. QED BY <1>1, <1>3, <2>1, <2>2, <2>3 DEF ChatEnqueue, Enqueue, EnqueueTooLate, PoolOnly
<1>4. ASSUME NEW w \in Workers, ChatIdle(w) PROVE PoolOnly
  <2>1. ~down
    BY <1>1, <1>4 DEF ChatIdle, Take, Skip, Forget, JobsInit, Waiting
  <2>2. CASE Take(w) \/ Forget(w)
    BY <1>4, <2>1, <2>2 DEF ChatIdle, Take, Forget, PoolOnly
  <2>3. CASE Skip(w)
    BY <1>1, <1>4, <2>1, <2>3 DEF ChatIdle, Skip, PoolOnly
  <2>4. QED BY <1>4, <2>2, <2>3 DEF ChatIdle
<1>5. ASSUME NEW w \in Workers, ChatCancelSelf(w) PROVE PoolOnly
  <2>1. ~down
    BY <1>1, <1>5 DEF ChatCancelSelf, JobsInit, Waiting
  <2>2. QED BY <1>1, <1>5, <2>1 DEF ChatCancelSelf, CancelSelf, Cancelled, PoolOnly
<1>6. ASSUME ChatCloseBegin PROVE PoolOnly
  BY <1>1, <1>6 DEF ChatCloseBegin, CloseBegin, Queued, PoolOnly
<1>7. QED BY <1>2, <1>3, <1>4, <1>5, <1>6

\* Such a step keeps the invariant.
LEMMA PoolOnlyInv ==
  ASSUME ChatInv, PoolOnly, JobsTypeOK', PoolInv'
  PROVE  ChatInv'
<1>1. TypeOK'
  BY ChatFacts DEF TypeOK, PoolOnly, talk, chatHistory
<1>2. \A j \in Jobs : /\ op'[j] = op[j] /\ server'[j] = server[j] /\ hook'[j] = hook[j]
                      /\ status'[j] # "none" => status[j] # "none"
                      /\ status'[j] \in {"none", "queued", "running"} => status'[j] = status[j]
                      /\ status[j] = "running" => status'[j] = "running"
  BY DEF PoolOnly, talk
<1>3. OpFits'
  BY <1>2, ChatFacts DEF OpFits
<1>4. ServerFits'
  BY <1>2, ChatFacts DEF ServerFits
<1>5. TokenFits' /\ SignalsFit'
  BY <1>2, ChatFacts DEF TokenFits, SignalsFit, PoolOnly, OpFits, Marking, chatHistory
<1>6. InterruptRequested'
  BY ChatFacts DEF InterruptRequested, PoolOnly, talk
<1>7. OneActive' /\ CancelledByAuthor' /\ DownEmpty'
  BY ChatFacts DEF OneActive, CancelledByAuthor, DownEmpty, PoolOnly, ActiveTurn, chatHistory
<1>8. Answerable'
  <2>1. SUFFICES ASSUME ~down', closing' = "open", NEW t \in Turns, ActiveTurn(t)'
                 PROVE  \E j \in Jobs : TurnOf[j] = t /\ (status'[j] = "queued" \/ op'[j] \in Marking)
    BY DEF Answerable
  <2>2. ~down /\ closing = "open" /\ ActiveTurn(t) /\ \A j \in Jobs : status'[j] = status[j]
    BY <2>1 DEF PoolOnly, ActiveTurn
  <2>3. QED BY <1>2, <2>2, ChatFacts DEF Answerable
<1>9. TurnKnown'
  BY <1>2, ChatFacts DEF TurnKnown, PoolOnly
<1>10. \A j \in Jobs : token'[j] = "none" => token[j] = "none"
  BY DEF PoolOnly
<1>11. Unretried'
  BY <1>2, <1>10, ChatFacts DEF Unretried, PoolOnly, chatHistory
<1>12. \A j \in Jobs : MayAnswer(j)' => MayAnswer(j)
  BY <1>2, <1>10 DEF MayAnswer
<1>13. AnswersFit'
  BY <1>12, ChatFacts DEF AnswersFit, PoolOnly, chatHistory
<1>14. QED BY <1>1, <1>3, <1>4, <1>5, <1>6, <1>7, <1>8, <1>9, <1>11, <1>13 DEF ChatInv

(***************************************************************************)
(* The author's messages and retries.                                      *)
(***************************************************************************)
\* A message or a retry makes its turn pending and its job queued.
Submits(j) ==
  /\ ~down /\ Idle /\ status[j] = "none"
  /\ status' = [status EXCEPT ![j] = "queued"]
  /\ Mark(j, "pending")
  /\ \/ turn[TurnOf[j]] = "none" /\ retries' = retries
     \/ turn[TurnOf[j]] \in {"failed", "cancelled"} /\ retries' = retries + 1
  /\ UNCHANGED <<token, closing, signals, down, talk, answers, asked>>

LEMMA SubmitInv ==
  ASSUME ChatInv, NEW j \in Jobs, SendMessage(j) \/ Retry(j), JobsTypeOK', PoolInv'
  PROVE  ChatInv'
<1>1. Submits(j)
  BY ChatFacts DEF SendMessage, Retry, MayRetry, Record, Submits, Mark, chatHistory
<1>2. TurnOf[j] \in Turns
  BY ChatJobs
<1>3. TypeOK'
  BY <1>1, <1>2, ChatFacts, ChatAssumption
     DEF TypeOK, Submits, SendMessage, Retry, Mark, TurnStatuses, talk, chatHistory
<1>4. /\ \A t \in Turns : turn'[t] = IF t = TurnOf[j] THEN "pending" ELSE turn[t]
      /\ \A i \in Jobs : status'[i] = IF i = j THEN "queued" ELSE status[i]
      /\ op[j] = "none" /\ op' = op /\ server' = server /\ hook' = hook
      /\ requested' = requested /\ token' = token /\ closing' = closing /\ down' = down
      /\ signals' = signals
      /\ answers' = answers /\ asked' = asked
  BY <1>1, <1>2, ChatFacts DEF Submits, Mark, OpFits, talk
<1>5. OpFits'
  BY <1>4, ChatFacts DEF OpFits
<1>6. ServerFits'
  BY <1>1, <1>4, ChatFacts DEF ServerFits, Submits
<1>7. TokenFits' /\ SignalsFit'
  BY <1>1, <1>4, ChatFacts DEF TokenFits, SignalsFit, Submits
<1>8. InterruptRequested'
  BY <1>4, ChatFacts DEF InterruptRequested
<1>9. OneActive'
  BY <1>1, <1>4 DEF OneActive, ActiveTurn, Submits, Idle
<1>10. Answerable'
  BY <1>1, <1>4 DEF Answerable, ActiveTurn, Submits, Idle
<1>11. DownEmpty'
  BY <1>1, <1>4 DEF DownEmpty, Submits
<1>12. TurnKnown'
  BY <1>1, <1>4, ChatFacts, ChatJobs DEF TurnKnown
<1>13. Unretried'
  <2>1. SUFFICES ASSUME retries' = 0 PROVE Unretried'
    BY DEF Unretried
  <2>2. retries = 0 /\ turn[TurnOf[j]] = "none"
    BY <1>1, <2>1, ChatFacts DEF Submits
  <2>3. \A i \in Jobs : status[i] # "none" => TurnOf[i] # TurnOf[j]
    BY <2>2, ChatFacts DEF TurnKnown
  <2>4. \A i \in Jobs : op[i] # "none" => status[i] # "none" /\ i # j
    BY <1>4, ChatFacts DEF OpFits
  <2>5. \A i \in Jobs : TurnOf[i] \in Turns
    BY ChatJobs
  <2>6. QED BY <1>4, <2>2, <2>3, <2>4, <2>5, ChatFacts DEF Unretried, Talking, Marking
<1>14. \A i \in Jobs : MayAnswer(i)' <=> i = j \/ MayAnswer(i)
  BY <1>4, ChatFacts DEF MayAnswer
<1>15. AnswersFit'
  <2>1. \A t \in Turns : turn'[t] = "none" => answers'[t] = 0
    BY <1>4, ChatFacts DEF AnswersFit
  <2>2. ASSUME retries' <= 1
        PROVE  /\ retries <= 1 /\ answers[TurnOf[j]] = 0
               /\ \A i \in Jobs : MayAnswer(i) => TurnOf[i] # TurnOf[j]
    <3>1. CASE turn[TurnOf[j]] = "none" /\ retries' = retries
      BY <1>2, <2>2, <3>1, ChatFacts, MayAnswerActive DEF AnswersFit, TurnKnown
    <3>2. CASE turn[TurnOf[j]] \in {"failed", "cancelled"} /\ retries' = retries + 1
      <4>1. retries = 0
        BY <2>2, <3>2, ChatFacts
      <4>2. QED BY <1>2, <3>2, <4>1, ChatFacts, MayAnswerTurn DEF AnswersFit, ActiveTurn
    <3>3. QED BY <1>1, <3>1, <3>2 DEF Submits
  <2>3. ASSUME retries' = 0, NEW t \in Turns, answers'[t] # 0
        PROVE  turn'[t] \in {"completed", "removed"}
    BY <1>1, <1>4, <2>2, <2>3, ChatFacts DEF AnswersFit, Submits
  <2>4. ASSUME retries' <= 1
        PROVE  /\ \A i, k \in Jobs :
                    MayAnswer(i)' /\ MayAnswer(k)' /\ TurnOf[i] = TurnOf[k] => i = k
               /\ \A t \in Turns : answers'[t] <= 1
               /\ \A i \in Jobs : MayAnswer(i)' => answers'[TurnOf[i]] = 0
    BY <1>4, <1>14, <2>2, <2>4, ChatFacts DEF AnswersFit
  <2>5. QED BY <2>1, <2>3, <2>4 DEF AnswersFit
<1>16. CancelledByAuthor'
  BY <1>4, ChatFacts DEF CancelledByAuthor
<1>17. QED BY <1>3, <1>5, <1>6, <1>7, <1>8, <1>9, <1>10, <1>11, <1>12, <1>13, <1>15, <1>16 DEF ChatInv

(***************************************************************************)
(* Cancels.                                                                *)
(***************************************************************************)
\* Job k is told to stop for a reason; its hook asks the server to interrupt.
Tells(k, reason) ==
  /\ ~down
  /\ Cancelled(k, reason) /\ Interrupts(k)
  /\ reason # "author" => closing # "open"
  /\ asked \subseteq asked' /\ (reason = "author" => TurnOf[k] \in asked')
  /\ asked' \subseteq Turns
  /\ closing' = closing /\ signals' \subseteq signals
  /\ UNCHANGED <<status, turn, down, op, server, hook, answers, retries, restarts>>

LEMMA CancelSteps ==
  ASSUME ChatInv, ChatCancel \/ \E j \in Jobs : ChatCloseSignal(j)
  PROVE  \E k \in Jobs, reason \in {"author", "shutdown"} : Tells(k, reason)
<1>1. /\ down => JobsInit /\ JobsTypeOK /\ asked \subseteq Turns
      /\ SignalsFit
  BY ChatFacts DEF DownEmpty, TypeOK
<1>2. ASSUME ChatCancel PROVE Tells(call.job, "author") /\ call.job \in Jobs
  <2>1. call.op = "cancel" /\ call.job \in Jobs /\ call # NoCall
    BY <1>2, ChatFacts DEF ChatCancel, Cancel, JobsTypeOK, Call, NoCall
  <2>2. ~down /\ TurnOf[call.job] \in Turns
    BY <1>1, <2>1, ChatJobs DEF JobsInit
  <2>3. QED BY <1>2, <2>1, <2>2, ChatFacts DEF ChatCancel, Cancel, Tells, TypeOK
<1>3. ASSUME NEW j \in Jobs, ChatCloseSignal(j) PROVE Tells(j, "shutdown")
  <2>1. ~down /\ closing # "open"
    BY <1>1, <1>3 DEF JobsInit, ChatCloseSignal, CloseSignal, SignalsFit
  <2>2. QED BY <1>3, <2>1, ChatFacts DEF ChatCloseSignal, CloseSignal, Tells, TypeOK, chatHistory
<1>4. QED BY <1>2, <1>3

\* Telling a job to stop keeps the invariant.
LEMMA CancelsInv ==
  ASSUME ChatInv, NEW k \in Jobs, NEW reason \in {"author", "shutdown"}, Tells(k, reason),
         JobsTypeOK', PoolInv'
  PROVE  ChatInv'
<1>1. \A j \in Jobs : token'[j] = IF j = k /\ token[j] = "none" THEN reason ELSE token[j]
  BY ChatFacts DEF Tells, Cancelled
<1>2. requested \subseteq requested' /\ requested' \subseteq Jobs \X (1..(AutoFixRetries + 1))
  <2>1. hook[k] # 0 => hook[k] \in 1..(AutoFixRetries + 1)
    BY ChatFacts, ChatAssumption
  <2>2. QED BY <2>1, ChatFacts DEF Tells, Interrupts, TypeOK
<1>3. TypeOK'
  BY <1>2, ChatFacts DEF TypeOK, Tells
<1>4. /\ status' = status /\ turn' = turn /\ down' = down /\ op' = op /\ server' = server
      /\ hook' = hook /\ answers' = answers /\ retries' = retries /\ closing' = closing
  BY DEF Tells
<1>5. OpFits' /\ ServerFits' /\ OneActive' /\ TurnKnown'
  BY <1>4, ChatFacts DEF OpFits, ServerFits, OneActive, ActiveTurn, TurnKnown
<1>6. TokenFits'
  BY <1>1, <1>4, ChatFacts DEF TokenFits, Tells
<1>7. SignalsFit' /\ DownEmpty' /\ CancelledByAuthor'
  BY <1>4, ChatFacts DEF SignalsFit, DownEmpty, CancelledByAuthor, Tells
<1>8. InterruptRequested'
  <2>1. SUFFICES ASSUME NEW j \in Jobs, op[j] = "waiting", token'[j] # "none"
                 PROVE  <<j, server[j].n>> \in requested'
    BY <1>4 DEF InterruptRequested
  <2>2. CASE token[j] # "none"
    BY <1>2, <2>1, <2>2, ChatFacts DEF InterruptRequested
  <2>3. CASE token[j] = "none"
    <3>1. j = k /\ hook[j] = server[j].n /\ server[j].n # 0
      BY <1>1, <2>1, <2>3, ChatFacts DEF ServerFits
    <3>2. QED BY <2>3, <3>1 DEF Tells, Interrupts
  <2>4. QED BY <2>2, <2>3
<1>9. Answerable'
  BY <1>4, ChatFacts DEF Answerable, ActiveTurn
<1>10. \A j \in Jobs : token'[j] = "none" => token[j] = "none"
  BY <1>1
<1>11. Unretried'
  BY <1>4, <1>10, ChatFacts DEF Unretried
<1>12. \A j \in Jobs : MayAnswer(j)' => MayAnswer(j)
  BY <1>4, <1>10 DEF MayAnswer
<1>13. AnswersFit'
  BY <1>4, <1>12, ChatFacts DEF AnswersFit
<1>14. QED BY <1>3, <1>5, <1>6, <1>7, <1>8, <1>9, <1>11, <1>13 DEF ChatInv

(***************************************************************************)
(* A worker begins and ends an operation.                                  *)
(***************************************************************************)
LEMMA BeginsInv ==
  ASSUME ChatInv, NEW w \in Workers, ChatBegin(w), JobsTypeOK', PoolInv'
  PROVE  ChatInv'
<1> DEFINE j == worker[w].job
<1>1. j \in Jobs
  BY ChatFacts DEF ChatBegin, Begin, JobsTypeOK, WorkerState, Waiting, Gone
<1>2. /\ status[j] = "queued" /\ closing = "open" /\ op[j] = "none"
      /\ \A i \in Jobs : status'[i] = IF i = j THEN "running" ELSE status[i]
      /\ \A i \in Jobs : op'[i] = IF i = j THEN "prepare" ELSE op[i]
      /\ op' = [op EXCEPT ![j] = "prepare"]
      /\ token' = token /\ closing' = closing /\ signals' = signals
      /\ turn' = turn /\ down' = down /\ server' = server /\ hook' = hook
      /\ requested' = requested /\ answers' = answers /\ asked' = asked
      /\ retries' = retries /\ restarts' = restarts
  BY <1>1, ChatFacts DEF ChatBegin, Begin, Goto, OpFits, chatHistory
<1> HIDE DEF j
<1>3. TypeOK'
  BY <1>1, <1>2, ChatFacts DEF TypeOK, Steps
<1>4. OpFits'
  BY <1>1, <1>2, ChatFacts DEF OpFits
<1>5. ServerFits'
  BY <1>1, <1>2, ChatFacts DEF ServerFits, NoServerTurn
<1>6. TokenFits' /\ SignalsFit'
  BY <1>1, <1>2, ChatFacts DEF TokenFits, SignalsFit
<1>7. InterruptRequested'
  BY <1>1, <1>2, ChatFacts DEF InterruptRequested
<1>8. OneActive' /\ CancelledByAuthor' /\ TurnKnown'
  BY <1>1, <1>2, ChatFacts DEF OneActive, ActiveTurn, CancelledByAuthor, TurnKnown
<1>9. Answerable'
  <2>1. "prepare" \in Marking
    BY DEF Marking, Steps
  <2>2. \A i \in Jobs : status[i] = "queued" \/ op[i] \in Marking
                       => status'[i] = "queued" \/ op'[i] \in Marking
    BY <1>2, <2>1
  <2>3. QED BY <1>2, <2>2, ChatFacts DEF Answerable, ActiveTurn
<1>10. DownEmpty'
  BY <1>1, <1>2, ChatFacts DEF DownEmpty, JobsInit
<1>11. Unretried'
  BY <1>1, <1>2, ChatFacts DEF Unretried, Talking
<1>12. \A i \in Jobs : MayAnswer(i)' => MayAnswer(i)
  BY <1>2 DEF MayAnswer
<1>13. AnswersFit'
  BY <1>2, <1>12, ChatFacts DEF AnswersFit
<1>14. QED BY <1>3, <1>4, <1>5, <1>6, <1>7, <1>8, <1>9, <1>10, <1>11, <1>13 DEF ChatInv

\* An operation ends after the transcript has its outcome.
LEMMA EndsInv ==
  ASSUME ChatInv, NEW w \in Workers, ChatEnd(w), JobsTypeOK', PoolInv'
  PROVE  ChatInv'
<1> DEFINE j == worker[w].job
<1>1. j \in Jobs /\ status[j] = "running"
  <2>1. worker[w].pc = "working" /\ worker[w] \in WorkerState
    BY ChatFacts DEF ChatEnd, JobsTypeOK
  <2>2. status[j] = "running"
    BY <2>1, ChatFacts DEF PoolInv, WorkerFits
  <2>3. QED BY <2>1, <2>2 DEF WorkerState, Waiting, Gone
<1>2. /\ op[j] \in {"replied", "raise_cancelled", "raise_failed"}
      /\ \E s \in Final : status' = [status EXCEPT ![j] = s]
      /\ \A i \in Jobs : op'[i] = IF i = j THEN "none" ELSE op[i]
      /\ op' = [op EXCEPT ![j] = "none"]
      /\ token' = token /\ closing' = closing /\ signals' = signals
      /\ turn' = turn /\ down' = down /\ server' = server /\ hook' = hook
      /\ requested' = requested /\ answers' = answers /\ asked' = asked
      /\ retries' = retries /\ restarts' = restarts
  BY <1>1, ChatFacts DEF ChatEnd, End, Goto, Final, chatHistory
<1> HIDE DEF j
<1>3. /\ status'[j] \in Final
      /\ \A i \in Jobs \ {j} : status'[i] = status[i]
  BY <1>1, <1>2, ChatFacts
<1>4. TypeOK'
  BY <1>1, <1>2, ChatFacts DEF TypeOK, Steps
<1>5. OpFits'
  BY <1>1, <1>2, <1>3, ChatFacts DEF OpFits, Final
<1>6. ServerFits'
  BY <1>1, <1>2, <1>3, ChatFacts DEF ServerFits, Final
<1>7. TokenFits' /\ SignalsFit'
  BY <1>1, <1>2, <1>3, ChatFacts DEF TokenFits, SignalsFit, Final, Marking
<1>8. InterruptRequested'
  BY <1>1, <1>2, ChatFacts DEF InterruptRequested
<1>9. OneActive' /\ CancelledByAuthor' /\ TurnKnown'
  BY <1>1, <1>2, <1>3, ChatFacts DEF OneActive, ActiveTurn, CancelledByAuthor, TurnKnown
<1>10. Answerable'
  <2>1. ~(status[j] = "queued" \/ op[j] \in Marking)
    BY <1>1, <1>2 DEF Marking
  <2>2. QED BY <1>2, <1>3, <2>1, ChatFacts DEF Answerable, ActiveTurn
<1>11. DownEmpty'
  BY <1>1, <1>2, ChatFacts DEF DownEmpty, JobsInit
<1>12. Unretried'
  BY <1>1, <1>2, <1>3, ChatFacts DEF Unretried, Talking, Marking, Final
<1>13. \A i \in Jobs : MayAnswer(i)' => MayAnswer(i)
  BY <1>2, <1>3 DEF MayAnswer, Talking, Final
<1>14. AnswersFit'
  BY <1>2, <1>13, ChatFacts DEF AnswersFit
<1>15. QED BY <1>4, <1>5, <1>6, <1>7, <1>8, <1>9, <1>10, <1>11, <1>12, <1>14 DEF ChatInv

(***************************************************************************)
(* The app-server, a new chat, the end of the process and the next start.  *)
(***************************************************************************)
\* A server turn that runs comes to an end.
LEMMA ServerInv ==
  ASSUME ChatInv, ChatCloseClient \/ \E j \in Jobs : CodexEnds(j), JobsTypeOK', PoolInv'
  PROVE  ChatInv'
<1>1. /\ turn' = turn /\ down' = down /\ op' = op /\ hook' = hook /\ requested' = requested
      /\ answers' = answers /\ asked' = asked /\ retries' = retries /\ restarts' = restarts
      /\ status' = status /\ token' = token /\ signals' = signals
      /\ closing' = "open" => closing = "open"
  BY DEF ChatCloseClient, CloseClient, CodexEnds, jobVars, chatHistory
<1>2. /\ server' \in [Jobs -> ServerTurn]
      /\ \A j \in Jobs : /\ server'[j].n = server[j].n
                         /\ server[j] = NoServerTurn => server'[j] = NoServerTurn
  BY ChatFacts DEF ChatCloseClient, CodexEnds, ServerTurn, NoServerTurn
<1>3. ~down
  BY ChatFacts DEF DownEmpty, JobsInit, TalkInit, ChatCloseClient, CloseClient, CodexEnds, NoServerTurn
<1>4. TypeOK'
  BY <1>1, <1>2, ChatFacts DEF TypeOK
<1>5. OpFits' /\ OneActive' /\ TurnKnown' /\ CancelledByAuthor' /\ DownEmpty'
  BY <1>1, <1>3, ChatFacts DEF OpFits, OneActive, ActiveTurn, TurnKnown, CancelledByAuthor, DownEmpty
<1>6. ServerFits'
  BY <1>1, <1>2, ChatFacts DEF ServerFits
<1>7. TokenFits' /\ SignalsFit'
  BY <1>1, ChatFacts DEF TokenFits, SignalsFit
<1>8. InterruptRequested'
  BY <1>1, <1>2, ChatFacts DEF InterruptRequested
<1>9. Answerable'
  BY <1>1, ChatFacts DEF Answerable, ActiveTurn
<1>10. Unretried' /\ AnswersFit'
  BY <1>1, ChatFacts DEF Unretried, AnswersFit, MayAnswer
<1>11. QED BY <1>4, <1>5, <1>6, <1>7, <1>8, <1>9, <1>10 DEF ChatInv

\* A new chat drops turns that have ended.
LEMMA NewChatInv ==
  ASSUME ChatInv, NewChat, JobsTypeOK', PoolInv'
  PROVE  ChatInv'
<1>1. /\ status' = status /\ token' = token /\ closing' = closing /\ signals' = signals
      /\ down' = down /\ ~down /\ op' = op /\ server' = server /\ hook' = hook
      /\ requested' = requested /\ answers' = answers /\ asked' = asked
      /\ retries' = retries /\ restarts' = restarts /\ Idle
      /\ \A t \in Turns : turn'[t] = IF turn[t] = "none" THEN "none" ELSE "removed"
  BY DEF NewChat, jobVars, talk, chatHistory
<1>2. TypeOK'
  BY <1>1, ChatFacts DEF TypeOK, NewChat, TurnStatuses
<1>3. OpFits' /\ ServerFits' /\ TokenFits' /\ SignalsFit' /\ InterruptRequested'
  BY <1>1, ChatFacts DEF OpFits, ServerFits, TokenFits, SignalsFit, InterruptRequested
<1>4. OneActive' /\ Answerable' /\ DownEmpty'
  BY <1>1 DEF OneActive, Answerable, DownEmpty, ActiveTurn
<1>5. \A j \in Jobs : TurnOf[j] \in Turns
  BY ChatJobs
<1>6. TurnKnown' /\ CancelledByAuthor'
  BY <1>1, <1>5, ChatFacts DEF TurnKnown, CancelledByAuthor
<1>7. Unretried'
  BY <1>1, <1>5, ChatFacts DEF Unretried, Idle, ActiveTurn
<1>8. \A j \in Jobs : MayAnswer(j)' <=> MayAnswer(j)
  BY <1>1 DEF MayAnswer
<1>9. AnswersFit'
  BY <1>1, <1>8, ChatFacts DEF AnswersFit
<1>10. QED BY <1>2, <1>3, <1>4, <1>6, <1>7, <1>9 DEF ChatInv

\* The end of the process keeps the transcript.
LEMMA ExitInv ==
  ASSUME ChatInv, Exit, JobsTypeOK', PoolInv'
  PROVE  ChatInv'
<1>1. /\ \A j \in Jobs : /\ status'[j] = "none" /\ token'[j] = "none" /\ op'[j] = "none"
                         /\ server'[j] = NoServerTurn
      /\ closing' = "open" /\ signals' = {} /\ down' /\ requested' = {}
      /\ turn' = turn /\ answers' = answers /\ asked' = asked /\ retries' = retries
  BY DEF Exit, PoolLost
<1>2. TypeOK'
  BY <1>1, ChatFacts, ChatAssumption DEF TypeOK, Exit, Steps, ServerTurn, NoServerTurn
<1>3. OpFits' /\ TokenFits' /\ SignalsFit' /\ InterruptRequested' /\ TurnKnown'
  BY <1>1 DEF OpFits, TokenFits, SignalsFit, InterruptRequested, TurnKnown, Marking
<1>4. ServerFits'
  BY <1>1 DEF ServerFits
<1>5. OneActive' /\ Answerable' /\ CancelledByAuthor'
  BY <1>1, ChatFacts DEF OneActive, Answerable, ActiveTurn, CancelledByAuthor
<1>6. DownEmpty'
  BY LostIsInit DEF Exit, DownEmpty, TalkInit
<1>7. Unretried'
  BY <1>1 DEF Unretried, Talking, Marking
<1>8. \A j \in Jobs : ~MayAnswer(j)'
  BY <1>1 DEF MayAnswer, Talking
<1>9. AnswersFit'
  BY <1>1, <1>8, ChatFacts DEF AnswersFit
<1>10. QED BY <1>2, <1>3, <1>4, <1>5, <1>6, <1>7, <1>9 DEF ChatInv

\* The next start fails the turns that were active.
LEMMA RecoverInv ==
  ASSUME ChatInv, Recover, JobsTypeOK', PoolInv'
  PROVE  ChatInv'
<1>1. /\ \A j \in Jobs : status[j] = "none" /\ op[j] = "none"
      /\ status' = status /\ token' = token /\ closing' = closing /\ signals' = signals
      /\ ~down' /\ op' = op /\ server' = server /\ hook' = hook
      /\ requested' = requested /\ answers' = answers /\ asked' = asked
      /\ retries' = retries /\ restarts' = restarts
      /\ \A t \in Turns : turn'[t] = IF ActiveTurn(t) THEN "failed" ELSE turn[t]
  BY ChatFacts DEF Recover, DownEmpty, JobsInit, TalkInit, jobVars, talk, chatHistory
<1>2. TypeOK'
  BY <1>1, ChatFacts DEF TypeOK, Recover, TurnStatuses
<1>3. OpFits' /\ ServerFits' /\ TokenFits' /\ SignalsFit' /\ InterruptRequested'
  BY <1>1, ChatFacts DEF OpFits, ServerFits, TokenFits, SignalsFit, InterruptRequested
<1>4. OneActive' /\ Answerable' /\ DownEmpty' /\ TurnKnown' /\ CancelledByAuthor'
  BY <1>1, ChatFacts DEF OneActive, Answerable, DownEmpty, ActiveTurn, TurnKnown, CancelledByAuthor
<1>5. Unretried'
  BY <1>1 DEF Unretried, Talking, Marking
<1>6. \A j \in Jobs : ~MayAnswer(j)'
  BY <1>1 DEF MayAnswer, Talking
<1>7. AnswersFit'
  BY <1>1, <1>6, ChatFacts DEF AnswersFit, ActiveTurn
<1>8. QED BY <1>2, <1>3, <1>4, <1>5, <1>7 DEF ChatInv

(***************************************************************************)
(* The operation.                                                          *)
(***************************************************************************)
\* What any step of job j's operation does: it works on j, on j's turn, and
\* goes on in a way that fits the transcript.
Moves(j) ==
  /\ UNCHANGED <<jobVars, down, asked, retries, restarts>>
  /\ op[j] \in Marking \cup {"replied"}
  /\ op'[j] \in Steps \ {"none", "prepare"}
  /\ op'[j] \in Marking => op[j] \in Marking
  /\ op' = [op EXCEPT ![j] = op'[j]]
  /\ \A i \in Jobs \ {j} : server'[i] = server[i] /\ hook'[i] = hook[i]
  /\ server' \in [Jobs -> ServerTurn] /\ hook' \in [Jobs -> 0..(AutoFixRetries + 1)]
  /\ requested \subseteq requested'
  /\ requested' \subseteq Jobs \X (1..(AutoFixRetries + 1))

\* How the server turn and the hook go with the step.
ServerMoves(j) ==
  /\ op'[j] = "start" => server'[j].n <= AutoFixRetries
  /\ op'[j] \in {"noting", "hooking", "waiting"} => server'[j].n # 0
  /\ op'[j] = "waiting" => hook'[j] = server'[j].n
  /\ op'[j] = "waiting" /\ token[j] # "none" => <<j, server'[j].n>> \in requested'
  /\ op'[j] = "caught" => token[j] # "none"

\* How the transcript goes with the step.
TurnMoves(j) ==
  /\ turn' = [turn EXCEPT ![TurnOf[j]] = turn'[TurnOf[j]]]
  /\ turn'[TurnOf[j]] \in TurnStatuses \ {"none"}
  /\ ActiveTurn(TurnOf[j])' => ActiveTurn(TurnOf[j])
  /\ closing = "open" /\ op[j] \in Marking /\ op'[j] \notin Marking => ~ActiveTurn(TurnOf[j])'
  /\ turn[TurnOf[j]] = "removed" => turn'[TurnOf[j]] = "removed"
  /\ turn'[TurnOf[j]] = "cancelled" =>
       turn[TurnOf[j]] = "cancelled" \/ token[j] = "author"
  /\ op[j] = "replied" => turn' = turn
  /\ retries = 0 =>
       /\ op'[j] \in Talking => turn'[TurnOf[j]] = "running"
       /\ op'[j] = "checking" /\ token[j] = "none" => turn'[TurnOf[j]] = "running"
       /\ op'[j] \in Marking => turn'[TurnOf[j]] # "completed"

\* How the answers go with the step.
AnswerMoves(j) ==
  \/ /\ answers' = answers
     /\ MayAnswer(j)' => MayAnswer(j)
  \/ /\ answers' = [answers EXCEPT ![TurnOf[j]] = @ + 1]
     /\ MayAnswer(j) /\ ~MayAnswer(j)' /\ turn'[TurnOf[j]] = "completed"

\* What the invariant says of a job at work and its turn.
LEMMA JobFacts ==
  ASSUME ChatInv, NEW j \in Jobs, op[j] # "none"
  PROVE  /\ status[j] = "running" /\ TurnOf[j] \in Turns
         /\ turn[TurnOf[j]] \in TurnStatuses \ {"none"}
         /\ token[j] \in Reasons
         /\ op \in [Jobs -> Steps] /\ op[j] \in Steps /\ turn \in [Turns -> TurnStatuses]
         /\ server \in [Jobs -> ServerTurn] /\ server[j] \in ServerTurn
         /\ hook \in [Jobs -> 0..(AutoFixRetries + 1)]
         /\ requested \subseteq Jobs \X (1..(AutoFixRetries + 1))
         /\ AutoFixRetries \in Nat
         /\ answers \in [Turns -> Nat]
BY ChatFacts, ChatJobs, ChatAssumption DEF OpFits, TurnKnown, TypeOK

\* Every step of an operation works on its job.
LEMMA OperationMoves ==
  ASSUME ChatInv, NEW j \in Jobs, Operation(j)
  PROVE  Moves(j)
<1>1. op[j] # "none"
  BY DEF Operation, Prepare, BreaksOff, StartTurn, NoteTurn, SetHook, WaitEnds, ClearHook, Interrupted, Answered, Check, Caught, Finish, FinishRaises, Fail, Regenerate
<1>2. op[j] = "start" => server[j].n <= AutoFixRetries
  BY ChatFacts DEF ServerFits
<1>3. op[j] = "hooking" => server[j].n # 0
  BY ChatFacts DEF ServerFits
<1> USE <1>1, JobFacts DEF Moves, Goto, Mark, Steps, Marking, ServerTurn, chatHistory
<1>4. CASE Prepare(j)
  BY <1>4 DEF Prepare
<1>5. CASE BreaksOff(j)
  BY <1>5 DEF BreaksOff
<1>6. CASE StartTurn(j)
  <2>1. /\ op[j] = "start" /\ op' = [op EXCEPT ![j] = "noting"]
        /\ server' = [server EXCEPT ![j] = [n |-> server[j].n + 1, state |-> "active"]]
        /\ UNCHANGED <<jobVars, turn, down, hook, requested, chatHistory>>
    BY <1>6 DEF StartTurn
  <2>2. server[j].n + 1 \in 0..(AutoFixRetries + 1)
    BY <1>2, <2>1
  <2>3. [n |-> server[j].n + 1, state |-> "active"] \in ServerTurn
    BY <2>2
  <2>4. server' \in [Jobs -> ServerTurn] /\ \A i \in Jobs \ {j} : server'[i] = server[i]
    BY <2>1, <2>3
  <2>5. QED BY <2>1, <2>4
<1>7. CASE NoteTurn(j)
  BY <1>7 DEF NoteTurn
<1>8. CASE SetHook(j)
  <2>1. /\ op[j] = "hooking" /\ op' = [op EXCEPT ![j] = "waiting"]
        /\ hook' = [hook EXCEPT ![j] = server[j].n]
        /\ requested' \in {requested, requested \cup {<<j, server[j].n>>}}
        /\ UNCHANGED <<jobVars, turn, down, server, chatHistory>>
    BY <1>8 DEF SetHook
  <2>2. server[j].n \in 1..(AutoFixRetries + 1)
    BY <1>3, <2>1
  <2>3. /\ hook' \in [Jobs -> 0..(AutoFixRetries + 1)]
        /\ \A i \in Jobs \ {j} : hook'[i] = hook[i]
    BY <2>1, <2>2
  <2>4. /\ requested \subseteq requested'
        /\ requested' \subseteq Jobs \X (1..(AutoFixRetries + 1))
    BY <2>1, <2>2
  <2>5. QED BY <2>1, <2>3, <2>4
<1>9. CASE WaitEnds(j)
  BY <1>9 DEF WaitEnds
<1>10. CASE ClearHook(j)
  BY <1>10 DEF ClearHook, AfterTurn
<1>11. CASE Interrupted(j)
  BY <1>11 DEF Interrupted
<1>12. CASE Answered(j)
  BY <1>12 DEF Answered
<1>13. CASE Check(j)
  BY <1>13 DEF Check
<1>14. CASE Caught(j)
  BY <1>14 DEF Caught
<1>15. CASE Finish(j)
  BY <1>15 DEF Finish
<1>16. CASE FinishRaises(j)
  BY <1>16 DEF FinishRaises
<1>17. CASE Fail(j)
  BY <1>17 DEF Fail
<1>18. CASE Regenerate(j)
  BY <1>18 DEF Regenerate
<1>19. QED BY <1>4, <1>5, <1>6, <1>7, <1>8, <1>9, <1>10, <1>11, <1>12, <1>13, <1>14, <1>15, <1>16, <1>17, <1>18 DEF Operation

\* Every step of an operation keeps server turn, hook and token in step.
LEMMA OperationServer ==
  ASSUME ChatInv, NEW j \in Jobs, Operation(j)
  PROVE  ServerMoves(j)
<1>1. op[j] # "none"
  BY DEF Operation, Prepare, BreaksOff, StartTurn, NoteTurn, SetHook, WaitEnds, ClearHook, Interrupted, Answered, Check, Caught, Finish, FinishRaises, Fail, Regenerate
<1>2. /\ op[j] = "prepare" => server[j].n = 0
      /\ op[j] \in {"noting", "hooking", "waiting"} => server[j].n # 0
  BY ChatFacts DEF ServerFits
<1> USE <1>1, <1>2, JobFacts DEF ServerMoves, Goto, Steps, ServerTurn
<1>3. CASE Prepare(j)
  BY <1>3 DEF Prepare
<1>4. CASE BreaksOff(j)
  BY <1>4 DEF BreaksOff
<1>5. CASE StartTurn(j)
  BY <1>5 DEF StartTurn
<1>6. CASE NoteTurn(j)
  BY <1>6 DEF NoteTurn
<1>7. CASE SetHook(j)
  BY <1>7 DEF SetHook
<1>8. CASE WaitEnds(j)
  BY <1>8 DEF WaitEnds
<1>9. CASE ClearHook(j)
  BY <1>9 DEF ClearHook, AfterTurn
<1>10. CASE Interrupted(j)
  BY <1>10 DEF Interrupted
<1>11. CASE Answered(j)
  BY <1>11 DEF Answered
<1>12. CASE Check(j)
  BY <1>12 DEF Check
<1>13. CASE Caught(j)
  BY <1>13 DEF Caught
<1>14. CASE Finish(j)
  BY <1>14 DEF Finish
<1>15. CASE FinishRaises(j)
  BY <1>15 DEF FinishRaises
<1>16. CASE Fail(j)
  BY <1>16 DEF Fail
<1>17. CASE Regenerate(j)
  BY <1>17 DEF Regenerate
<1>18. QED BY <1>3, <1>4, <1>5, <1>6, <1>7, <1>8, <1>9, <1>10, <1>11, <1>12, <1>13, <1>14, <1>15, <1>16, <1>17 DEF Operation

\* Every step of an operation leaves a transcript that fits the job.
LEMMA OperationTurn ==
  ASSUME ChatInv, NEW j \in Jobs, Operation(j)
  PROVE  TurnMoves(j)
<1>1. op[j] # "none"
  BY DEF Operation, Prepare, BreaksOff, StartTurn, NoteTurn, SetHook, WaitEnds, ClearHook, Interrupted, Answered, Check, Caught, Finish, FinishRaises, Fail, Regenerate
<1>2. /\ closing = "open" /\ op[j] \in Marking => token[j] \in {"none", "author"}
      /\ op[j] = "caught" => token[j] # "none"
  BY ChatFacts DEF TokenFits
<1>3. retries = 0 =>
        /\ op[j] = "prepare" => turn[TurnOf[j]] = "pending"
        /\ op[j] \in Talking => turn[TurnOf[j]] = "running"
        /\ op[j] = "checking" /\ token[j] = "none" => turn[TurnOf[j]] = "running"
        /\ op[j] \in Marking => turn[TurnOf[j]] # "completed"
  BY ChatFacts DEF Unretried
<1> USE <1>1, <1>2, <1>3, JobFacts DEF TurnMoves, Goto, Mark, Lost, Steps, Marking, Talking, TurnStatuses, ActiveTurn
<1>4. CASE Prepare(j)
  BY <1>4 DEF Prepare
<1>5. CASE BreaksOff(j)
  BY <1>5 DEF BreaksOff
<1>6. CASE StartTurn(j)
  BY <1>6 DEF StartTurn
<1>7. CASE NoteTurn(j)
  BY <1>7 DEF NoteTurn
<1>8. CASE SetHook(j)
  BY <1>8 DEF SetHook
<1>9. CASE WaitEnds(j)
  BY <1>9 DEF WaitEnds
<1>10. CASE ClearHook(j)
  BY <1>10 DEF ClearHook, AfterTurn
<1>11. CASE Interrupted(j)
  BY <1>11 DEF Interrupted
<1>12. CASE Answered(j)
  BY <1>12 DEF Answered
<1>13. CASE Check(j)
  BY <1>13 DEF Check
<1>14. CASE Caught(j)
  BY <1>14 DEF Caught
<1>15. CASE Finish(j)
  BY <1>15 DEF Finish
<1>16. CASE FinishRaises(j)
  BY <1>16 DEF FinishRaises
<1>17. CASE Fail(j)
  BY <1>17 DEF Fail
<1>18. CASE Regenerate(j)
  BY <1>18 DEF Regenerate
<1>19. QED BY <1>4, <1>5, <1>6, <1>7, <1>8, <1>9, <1>10, <1>11, <1>12, <1>13, <1>14, <1>15, <1>16, <1>17, <1>18 DEF Operation

\* Only the step that finishes a turn answers it, and ends the job's chance to.
LEMMA OperationAnswers ==
  ASSUME ChatInv, NEW j \in Jobs, Operation(j)
  PROVE  AnswerMoves(j)
<1>1. op[j] # "none"
  BY DEF Operation, Prepare, BreaksOff, StartTurn, NoteTurn, SetHook, WaitEnds, ClearHook, Interrupted, Answered, Check, Caught, Finish, FinishRaises, Fail, Regenerate
<1>2. status' = status /\ token' = token
  BY OperationMoves DEF Moves, jobVars
<1> USE <1>1, <1>2, JobFacts DEF AnswerMoves, MayAnswer, Goto, Mark, Steps, Talking, chatHistory
<1>3. CASE Prepare(j)
  BY <1>3 DEF Prepare
<1>4. CASE BreaksOff(j)
  BY <1>4 DEF BreaksOff
<1>5. CASE StartTurn(j)
  BY <1>5 DEF StartTurn
<1>6. CASE NoteTurn(j)
  BY <1>6 DEF NoteTurn
<1>7. CASE SetHook(j)
  BY <1>7 DEF SetHook
<1>8. CASE WaitEnds(j)
  BY <1>8 DEF WaitEnds
<1>9. CASE ClearHook(j)
  BY <1>9 DEF ClearHook, AfterTurn
<1>10. CASE Interrupted(j)
  BY <1>10 DEF Interrupted
<1>11. CASE Answered(j)
  BY <1>11 DEF Answered
<1>12. CASE Check(j)
  BY <1>12 DEF Check
<1>13. CASE Caught(j)
  BY <1>13 DEF Caught
<1>14. CASE Finish(j)
  BY <1>14 DEF Finish
<1>15. CASE FinishRaises(j)
  BY <1>15 DEF FinishRaises
<1>16. CASE Fail(j)
  BY <1>16 DEF Fail
<1>17. CASE Regenerate(j)
  BY <1>17 DEF Regenerate
<1>18. QED BY <1>3, <1>4, <1>5, <1>6, <1>7, <1>8, <1>9, <1>10, <1>11, <1>12, <1>13, <1>14, <1>15, <1>16, <1>17 DEF Operation

\* Every step of an operation keeps the invariant.
LEMMA OperationInv ==
  ASSUME ChatInv, NEW j \in Jobs, Operation(j), JobsTypeOK', PoolInv'
  PROVE  ChatInv'
<1>1. Moves(j) /\ ServerMoves(j) /\ TurnMoves(j) /\ AnswerMoves(j)
  BY OperationMoves, OperationServer, OperationTurn, OperationAnswers
<1>2. /\ status' = status /\ token' = token /\ closing' = closing /\ signals' = signals
      /\ down' = down /\ asked' = asked /\ retries' = retries /\ restarts' = restarts
      /\ op[j] # "none" /\ op'[j] # "none" /\ op'[j] # "prepare"
      /\ \A i \in Jobs \ {j} : op'[i] = op[i] /\ server'[i] = server[i] /\ hook'[i] = hook[i]
  BY <1>1, ChatFacts DEF Moves, jobVars, Marking
<1>3. /\ status[j] = "running" /\ TurnOf[j] \in Turns
      /\ \A t \in Turns \ {TurnOf[j]} : turn'[t] = turn[t]
      /\ turn' \in [Turns -> TurnStatuses]
  BY <1>1, <1>2, JobFacts DEF TurnMoves
<1>4. TypeOK'
  <2>1. op' \in [Jobs -> Steps]
    BY <1>1, ChatFacts DEF Moves
  <2>2. answers' \in [Turns -> Nat]
    BY <1>1, <1>3, ChatFacts DEF AnswerMoves
  <2>3. QED BY <1>1, <1>2, <1>3, <2>1, <2>2, ChatFacts DEF TypeOK, Moves
<1>5. OpFits'
  BY <1>2, <1>3, ChatFacts DEF OpFits
<1>6. ServerFits'
  BY <1>1, <1>2, <1>3, ChatFacts DEF ServerFits, ServerMoves
<1>7. TokenFits' /\ SignalsFit'
  BY <1>1, <1>2, <1>3, ChatFacts DEF TokenFits, SignalsFit, Moves, ServerMoves
<1>8. InterruptRequested'
  BY <1>1, <1>2, ChatFacts DEF InterruptRequested, Moves, ServerMoves
<1>9. \A t \in Turns : ActiveTurn(t)' => ActiveTurn(t)
  BY <1>1, <1>3 DEF ActiveTurn, TurnMoves
<1>10. OneActive'
  BY <1>9, ChatFacts DEF OneActive
<1>11. Answerable'
  <2>1. SUFFICES ASSUME ~down, closing = "open", NEW t \in Turns, ActiveTurn(t)'
                 PROVE  \E i \in Jobs : TurnOf[i] = t /\ (status[i] = "queued" \/ op'[i] \in Marking)
    BY <1>2 DEF Answerable
  <2>2. PICK i \in Jobs : TurnOf[i] = t /\ (status[i] = "queued" \/ op[i] \in Marking)
    BY <1>9, <2>1, ChatFacts DEF Answerable
  <2>3. CASE i # j
    BY <1>2, <2>2, <2>3
  <2>4. CASE i = j
    BY <1>1, <1>3, <2>1, <2>2, <2>4 DEF TurnMoves
  <2>5. QED BY <2>3, <2>4
<1>12. DownEmpty'
  BY <1>2, ChatFacts DEF DownEmpty, TalkInit
<1>13. TurnKnown'
  BY <1>1, <1>2, <1>3, ChatFacts, ChatJobs DEF TurnKnown, TurnMoves
<1>14. Unretried'
  <2>1. SUFFICES ASSUME retries = 0 PROVE Unretried'
    BY <1>2 DEF Unretried
  <2>2. \A i \in Jobs \ {j} : status[i] # "none" => TurnOf[i] # TurnOf[j]
    BY <1>3, <2>1, ChatFacts DEF Unretried
  <2>3. \A i \in Jobs : TurnOf[i] \in Turns /\ (op[i] # "none" => status[i] # "none")
    BY ChatJobs, ChatFacts DEF OpFits
  <2>4. \A i \in Jobs \ {j} : status[i] # "none" => turn'[TurnOf[i]] = turn[TurnOf[i]]
    BY <1>3, <2>2, <2>3
  <2>5. ASSUME NEW i \in Jobs
        PROVE  /\ status[i] = "queued" \/ op'[i] = "prepare" => turn'[TurnOf[i]] = "pending"
               /\ op'[i] \in Talking => turn'[TurnOf[i]] = "running"
               /\ op'[i] = "checking" /\ token[i] = "none" => turn'[TurnOf[i]] = "running"
               /\ op'[i] \in Marking => turn'[TurnOf[i]] # "completed"
    <3>1. CASE i = j
      BY <1>1, <1>2, <1>3, <2>1, <3>1 DEF TurnMoves
    <3>2. CASE i # j
      BY <1>2, <2>1, <2>3, <2>4, <3>2, ChatFacts DEF Unretried, Talking, Marking
    <3>3. QED BY <3>1, <3>2
  <2>6. QED BY <1>2, <2>1, <2>5, ChatFacts DEF Unretried
<1>15. \A i \in Jobs : MayAnswer(i)' => MayAnswer(i)
  BY <1>1, <1>2 DEF MayAnswer, AnswerMoves
<1>16. AnswersFit'
  <2>1. \A t \in Turns : turn'[t] = "none" => turn[t] = "none" /\ t # TurnOf[j]
    BY <1>1, <1>3 DEF TurnMoves
  <2>2. \A t \in Turns \ {TurnOf[j]} : answers'[t] = answers[t]
    BY <1>1, ChatFacts DEF AnswerMoves
  <2>3. \A t \in Turns : turn'[t] = "none" => answers'[t] = 0
    BY <2>1, <2>2, ChatFacts DEF AnswersFit
  <2>4. ASSUME retries <= 1
        PROVE  /\ \A t \in Turns : answers'[t] <= 1
               /\ \A i \in Jobs : MayAnswer(i)' => answers'[TurnOf[i]] = 0
    <3>1. CASE answers' = answers
      BY <1>15, <2>4, <3>1, ChatFacts DEF AnswersFit
    <3>2. CASE /\ answers' = [answers EXCEPT ![TurnOf[j]] = @ + 1]
               /\ MayAnswer(j) /\ ~MayAnswer(j)'
      <4>1. answers[TurnOf[j]] = 0 /\ answers'[TurnOf[j]] = 1
        BY <1>3, <2>4, <3>2, ChatFacts DEF AnswersFit
      <4>2. \A i \in Jobs : MayAnswer(i)' => TurnOf[i] # TurnOf[j]
        BY <1>15, <2>4, <3>2, ChatFacts DEF AnswersFit
      <4>3. \A i \in Jobs : TurnOf[i] \in Turns
        BY ChatJobs
      <4>4. QED BY <1>15, <2>2, <2>4, <4>1, <4>2, <4>3, ChatFacts DEF AnswersFit
    <3>3. QED BY <1>1, <3>1, <3>2 DEF AnswerMoves
  <2>5. ASSUME retries = 0, NEW t \in Turns, answers'[t] # 0
        PROVE  turn'[t] \in {"completed", "removed"}
    <3>1. CASE t # TurnOf[j]
      BY <1>3, <2>2, <2>5, <3>1, ChatFacts DEF AnswersFit
    <3>2. CASE t = TurnOf[j] /\ answers' = answers
      <4>1. turn[t] \in {"completed", "removed"}
        BY <2>5, <3>2, ChatFacts DEF AnswersFit
      <4>2. op[j] \in Marking => turn[t] # "completed"
        BY <2>5, <3>2, ChatFacts DEF Unretried
      <4>3. QED BY <1>1, <3>2, <4>1, <4>2 DEF TurnMoves, Moves
    <3>3. CASE t = TurnOf[j] /\ answers' # answers
      BY <1>1, <3>3 DEF AnswerMoves
    <3>4. QED BY <3>1, <3>2, <3>3
  <2>6. QED BY <1>2, <1>15, <2>3, <2>4, <2>5, ChatFacts DEF AnswersFit
<1>17. CancelledByAuthor'
  BY <1>1, <1>2, <1>3, ChatFacts DEF CancelledByAuthor, TurnMoves, TokenFits
<1>18. QED BY <1>4, <1>5, <1>6, <1>7, <1>8, <1>10, <1>11, <1>12, <1>13, <1>14, <1>16, <1>17 DEF ChatInv

(***************************************************************************)
(* The theorems.                                                           *)
(***************************************************************************)
\* The invariant holds at the start.
LEMMA InitChat == Init => ChatInv
<1>1. SUFFICES ASSUME Init PROVE ChatInv
  OBVIOUS
<1>2. PoolInv /\ JobsTypeOK
  BY <1>1, InitInv DEF Init, PoolInv
<1>3. /\ \A j \in Jobs : /\ status[j] = "none" /\ token[j] = "none" /\ op[j] = "none"
                         /\ server[j] = NoServerTurn
      /\ \A t \in Turns : turn[t] = "none" /\ answers[t] = 0
      /\ signals = {} /\ down = FALSE
  BY <1>1 DEF Init, JobsInit, TalkInit
<1>4. TypeOK
  <2>1. NoServerTurn \in ServerTurn /\ 0 \in 0..(AutoFixRetries + 1)
    BY ChatAssumption DEF ServerTurn, NoServerTurn
  <2>2. 0 \in 0..MaxRetries /\ 0 \in 0..MaxRestarts
    BY ChatAssumption
  <2>3. QED BY <1>1, <1>2, <2>1, <2>2 DEF Init, TalkInit, TypeOK, TurnStatuses, Steps
<1>5. OpFits /\ ServerFits /\ TokenFits /\ SignalsFit /\ InterruptRequested
  BY <1>3 DEF OpFits, ServerFits, TokenFits, SignalsFit, InterruptRequested, Marking
<1>6. OneActive /\ Answerable /\ DownEmpty /\ TurnKnown /\ CancelledByAuthor
  BY <1>3 DEF OneActive, Answerable, DownEmpty, TurnKnown, CancelledByAuthor, ActiveTurn
<1>7. Unretried /\ AnswersFit
  BY <1>3 DEF Unretried, AnswersFit, MayAnswer, Talking, Marking
<1>8. QED BY <1>2, <1>4, <1>5, <1>6, <1>7 DEF ChatInv

\* Every step keeps it.
LEMMA NextChat == ChatInv /\ [Next]_vars => ChatInv'
<1>1. SUFFICES ASSUME ChatInv, [Next]_vars PROVE ChatInv'
  OBVIOUS
<1>2. PoolInv' /\ JobsTypeOK'
  BY <1>1, ChatPoolInv, ChatFacts DEF PoolInv
<1>3. CASE UNCHANGED vars
  <2>1. /\ TypeOK' /\ OpFits' /\ ServerFits' /\ TokenFits' /\ SignalsFit' /\ InterruptRequested'
        /\ OneActive' /\ Answerable' /\ TurnKnown' /\ CancelledByAuthor'
    BY <1>1, <1>2, <1>3, ChatFacts DEF vars, jobVars, talk, chatHistory, TypeOK, OpFits, ServerFits,
       TokenFits, SignalsFit, InterruptRequested, OneActive, ActiveTurn, Answerable,
       TurnKnown, CancelledByAuthor
  <2>2. DownEmpty' /\ Unretried' /\ AnswersFit'
    BY <1>1, <1>3, ChatFacts DEF vars, jobVars, talk, chatHistory, DownEmpty, JobsInit, TalkInit,
       Unretried, AnswersFit, MayAnswer
  <2>3. QED BY <1>2, <2>1, <2>2 DEF ChatInv
<1>4. ASSUME NEW j \in Jobs, SendMessage(j) \/ Retry(j) PROVE ChatInv'
  BY <1>1, <1>2, <1>4, SubmitInv
<1>5. ASSUME NEW j \in Jobs, Operation(j) PROVE ChatInv'
  BY <1>1, <1>2, <1>5, OperationInv
<1>6. ASSUME \/ \E j \in Jobs : ChatRequestCancel(j)
             \/ \E w \in Workers : ChatIdle(w) \/ ChatCancelSelf(w)
             \/ ChatEnqueue \/ ChatCloseBegin
      PROVE  ChatInv'
  BY <1>1, <1>2, <1>6, PoolOnlySteps, PoolOnlyInv
<1>7. ASSUME ChatCancel \/ \E j \in Jobs : ChatCloseSignal(j) PROVE ChatInv'
  BY <1>1, <1>2, <1>7, CancelSteps, CancelsInv
<1>8. ASSUME NEW w \in Workers, ChatBegin(w) \/ ChatEnd(w) PROVE ChatInv'
  BY <1>1, <1>2, <1>8, BeginsInv, EndsInv
<1>9. ASSUME ChatCloseClient \/ \E j \in Jobs : CodexEnds(j) PROVE ChatInv'
  BY <1>1, <1>2, <1>9, ServerInv
<1>10. ASSUME NewChat \/ Exit \/ Recover PROVE ChatInv'
  BY <1>1, <1>2, <1>10, NewChatInv, ExitInv, RecoverInv
<1>11. QED
  BY <1>1, <1>3, <1>4, <1>5, <1>6, <1>7, <1>8, <1>9, <1>10
     DEF Next, ChatWorker, ChatHandler, ChatClose

THEOREM ChatInvariant == Spec => []ChatInv
BY InitChat, NextChat, PTL DEF Spec

\* A server turn whose job was told to stop has been asked to stop, whichever
\* of the cancel and the hook came first.
THEOREM InterruptsReachTheServer == Spec => []InterruptRequested
<1>1. ChatInv => InterruptRequested
  BY DEF ChatInv
<1>2. QED BY <1>1, ChatInvariant, PTL

\* A thread is never blocked by a turn nobody works on any more.
THEOREM TurnsHaveJobs == Spec => []NoStuckTurn
<1>1. ASSUME ChatInv PROVE NoStuckTurn
  BY <1>1, ChatFacts DEF Answerable, NoStuckTurn, Active, OpFits, Marking
<1>2. QED BY <1>1, ChatInvariant, PTL

\* Before anything is retried a thread has one conversation with the server.
THEOREM OneAtATime == Spec => []OneConversationUnretried
<1>1. ASSUME ChatInv PROVE OneConversationUnretried
  <2>1. SUFFICES ASSUME retries = 0, NEW i \in Jobs, NEW j \in Jobs,
                        op[i] \in Talking, op[j] \in Talking
                 PROVE  i = j
    BY DEF OneConversationUnretried, OneConversation
  <2>2. turn[TurnOf[i]] = "running" /\ turn[TurnOf[j]] = "running"
    BY <1>1, <2>1, ChatFacts DEF Unretried
  <2>3. TurnOf[i] = TurnOf[j]
    BY <1>1, <2>2, ChatFacts, ChatJobs DEF OneActive, ActiveTurn
  <2>4. status[i] # "none" /\ status[j] # "none"
    BY <1>1, <2>1, ChatFacts DEF OpFits, Talking
  <2>5. QED BY <1>1, <2>1, <2>3, <2>4, ChatFacts DEF Unretried
<1>2. QED BY <1>1, ChatInvariant, PTL

\* What the transcript says of a turn happened, and stays said.
THEOREM TranscriptHolds == Spec => TranscriptTruthful
<1>1. ASSUME ChatInv PROVE TypeOK /\ CancelledByAuthor /\ AnsweredOnce
  BY <1>1, ChatFacts DEF AnswersFit, AnsweredOnce
<1>2. ASSUME ChatInv, [Next]_vars
      PROVE  [\A t \in Turns :
                turn[t] = "completed" /\ retries = 0 => turn'[t] \in {"completed", "removed"}]_vars
  <2>1. SUFFICES ASSUME Next, NEW t \in Turns, turn[t] = "completed", retries = 0
                 PROVE  turn'[t] \in {"completed", "removed"}
    BY <1>2
  <2>2. ASSUME NEW j \in Jobs, Operation(j) PROVE turn'[t] \in {"completed", "removed"}
    <3>1. TurnMoves(j) /\ Moves(j)
      BY <1>2, <2>2, OperationTurn, OperationMoves
    <3>2. op[j] \in Marking => turn[TurnOf[j]] # "completed"
      BY <1>2, <2>1, ChatFacts DEF Unretried
    <3>3. QED BY <2>1, <3>1, <3>2, ChatFacts, <1>2 DEF TurnMoves, Moves
  <2>3. ASSUME NEW j \in Jobs, SendMessage(j) \/ Retry(j)
        PROVE  turn'[t] \in {"completed", "removed"}
    BY <1>2, <2>1, <2>3, ChatFacts DEF SendMessage, Retry, MayRetry, Mark
  <2>4. ASSUME NewChat PROVE turn'[t] \in {"completed", "removed"}
    BY <2>1, <2>4 DEF NewChat
  <2>5. ASSUME Recover PROVE turn'[t] \in {"completed", "removed"}
    BY <2>1, <2>5 DEF Recover, ActiveTurn
  <2>6. ASSUME ~(\E j \in Jobs : Operation(j) \/ SendMessage(j) \/ Retry(j)), ~NewChat, ~Recover
        PROVE  turn' = turn
    BY <2>1, <2>6 DEF Next, ChatRequestCancel, CodexEnds, ChatWorker, ChatIdle, ChatBegin,
       ChatEnd, ChatCancelSelf, ChatHandler, ChatEnqueue, ChatCancel, ChatCloseBegin,
       ChatClose, ChatCloseSignal, ChatCloseClient, Exit
  <2>7. QED BY <2>1, <2>2, <2>3, <2>4, <2>5, <2>6
<1>3. QED BY <1>1, <1>2, ChatInvariant, PTL DEF Spec, TranscriptTruthful, ReplyKept
=============================================================================
