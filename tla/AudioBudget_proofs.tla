------------------------- MODULE AudioBudget_proofs -------------------------
(***************************************************************************)
(* The audio budget, for every set of plans and clips, every number of     *)
(* months, caps and prices, and any number of crashes and faults: its      *)
(* types and accounts, that it reserves and charges once, and that it      *)
(* implements AudioSpend.                                                  *)
(***************************************************************************)
EXTENDS AudioBudget, TLAPS

(***************************************************************************)
(* Type correctness.                                                       *)
(***************************************************************************)

\* The length of a set of clips is a natural.
LEMMA CharactersNat ==
  ASSUME NEW S \in SUBSET Clips
  PROVE  Characters[S] \in Nat
BY CharactersAssumption

LedgersOK ==
  /\ entry \in [Months -> [Plans -> Nat \cup {NoEntry}]]
  /\ synth \in [Months -> Nat]
  /\ charged \in [Plans -> Nat]

\* Writing naturals, or no entry, into a ledger keeps the ledgers typed.
LEMMA WriteLedgerType ==
  ASSUME TypeOK, NEW p \in Plans, NEW m \in Months, NEW n \in Nat,
         NEW e \in Nat \cup {NoEntry}, WriteLedger(m, p, n, e)
  PROVE  LedgersOK'
<1>1. entry \in [Months -> [Plans -> Nat \cup {NoEntry}]] /\ entry' = [entry EXCEPT ![m][p] = e]
  BY DEF TypeOK, WriteLedger
<1>2. entry' \in [Months -> [Plans -> Nat \cup {NoEntry}]]
  BY <1>1
<1>3. synth' \in [Months -> Nat]
  BY DEF TypeOK, WriteLedger
<1>4. charged' \in [Plans -> Nat]
  BY DEF TypeOK, WriteLedger
<1>5. QED BY <1>2, <1>3, <1>4 DEF LedgersOK

\* A reservation counts as a natural, none as zero.
LEMMA ReservedNat ==
  ASSUME TypeOK, NEW p \in Plans, NEW m \in Months
  PROVE  Reserved(m, p) \in Nat
<1>1. entry[m][p] \in Nat \cup {NoEntry}
  BY DEF TypeOK
<1>2. QED BY <1>1 DEF Reserved

\* Clipping at zero gives a natural.
LEMMA AtLeast0Nat ==
  ASSUME NEW n \in Int
  PROVE  AtLeast0(n) \in Nat
BY DEF AtLeast0

\* The larger of a natural and an integer is a natural.
LEMMA LargerNat ==
  ASSUME NEW a \in Nat, NEW b \in Int
  PROVE  Larger(a, b) \in Nat
BY DEF Larger

(***************************************************************************)
(* What the months, the clip in hand and the status have to be at each     *)
(* step of a job; type correctness is inductive together with it.          *)
(***************************************************************************)
Active == Steps \ {"idle", "claimed"}

Shape(p) ==
  /\ job[p].pc # "idle" => job[p].month \in Months
  /\ job[p].pc = "claimed" => plan[p].status = "pending"
  /\ job[p].pc \in Active => plan[p].status = "running"
  /\ job[p].pc \in {"moved", "moving"} => job[p].target \in Months
  /\ job[p].pc \in {"moved", "moving", "call", "called", "charging", "asset"}
       => job[p].clip \in Clips
  /\ plan[p].status = "running" => plan[p].month \in Months
  /\ left # {} => job[p].pc = "idle"

TypeInv == TypeOK /\ \A p \in Plans : Shape(p)

\* A step about one plan leaves the shape of the others.
LEMMA ShapeFrame ==
  ASSUME TypeInv, NEW p \in Plans, Shape(p)',
         \A q \in Plans \ {p} : job'[q] = job[q] /\ plan'[q] = plan[q],
         left' # {} => left # {}
  PROVE  \A q \in Plans : Shape(q)'
BY DEF TypeInv, Shape

\* PlanAudio keeps types and shapes.
LEMMA PlanAudioType ==
  ASSUME TypeInv, NEW p \in Plans, PlanAudio(p)
  PROVE  TypeInv'
<1>1. /\ job \in [Plans -> JobRecord] /\ job[p] \in JobRecord
      /\ plan \in [Plans -> PlanRecord] /\ plan[p] \in PlanRecord
      /\ Shape(p) /\ TypeOK
  BY DEF TypeInv, TypeOK
<1>2. job' \in [Plans -> JobRecord]
  BY <1>1 DEF PlanAudio, JobRecord, NoJob, Steps, Goto, Shape, Active
<1>3. plan' \in [Plans -> PlanRecord]
  <2>1. PICK clips \in SUBSET Clips \ {{}} :
          LET force == {c \in clips : ~Reusable(c)}
              chars == Characters[force]
          IN  plan' = [plan EXCEPT ![p] =
                [NewPlan EXCEPT
                   !.status = "pending", !.clips = clips, !.force = force,
                   !.chars = chars,
                   !.blocked = Cost(Committed(now, Plans)) + RoundedCost(chars) > cap]]
    BY DEF PlanAudio
  <2> DEFINE force == {c \in clips : ~Reusable(c)}
             over == Cost(Committed(now, Plans)) + RoundedCost(Characters[force]) > cap
             r == [NewPlan EXCEPT !.status = "pending", !.clips = clips, !.force = force,
                                  !.chars = Characters[force], !.blocked = over]
  <2>2. Characters[force] \in Nat /\ over \in BOOLEAN
    BY CharactersNat
  <2>3. r \in PlanRecord
    <3> HIDE DEF over
    <3>1. QED BY <2>2 DEF NewPlan, PlanRecord, Status
  <2>4. plan' = [plan EXCEPT ![p] = r]
    BY <2>1
  <2>5. QED
    <3> HIDE DEF r
    <3>1. QED BY <1>1, <2>3, <2>4
<1>4. TypeOK'
  BY <1>1, <1>2, <1>3, BoundsAssumption DEF PlanAudio, TypeOK, LedgersOK, disk, history, world
<1>5. Shape(p)'
  BY <1>1 DEF PlanAudio, Shape, Active, Steps, Goto, JobRecord, PlanRecord, NoJob, NewPlan, disk
<1>6. /\ \A q \in Plans \ {p} : job'[q] = job[q] /\ plan'[q] = plan[q]
      /\ left' # {} => left # {}
  BY <1>1 DEF PlanAudio, Goto, disk
<1>7. QED BY <1>4, <1>5, <1>6, ShapeFrame DEF TypeInv

\* ClaimReserve keeps types and shapes.
LEMMA ClaimReserveType ==
  ASSUME TypeInv, NEW p \in Plans, ClaimReserve(p)
  PROVE  TypeInv'
<1>1. /\ job \in [Plans -> JobRecord] /\ job[p] \in JobRecord
      /\ plan \in [Plans -> PlanRecord] /\ plan[p] \in PlanRecord
      /\ Shape(p) /\ TypeOK
  BY DEF TypeInv, TypeOK
<1>2. job' \in [Plans -> JobRecord]
  <2>1. now \in Months /\ "claimed" \in Steps
    BY <1>1 DEF TypeOK, Steps
  <2>2. [NoJob EXCEPT !.pc = "claimed", !.month = now] \in JobRecord
    BY <2>1 DEF NoJob, JobRecord
  <2>3. QED BY <1>1, <2>2 DEF ClaimReserve
<1>3. plan' \in [Plans -> PlanRecord]
  BY <1>1 DEF ClaimReserve, PlanRecord, NewPlan, Status, JobRecord, Shape, Active, Steps, disk
<1>w. LedgersOK'
  <2>1. /\ now \in Months /\ 0 \in Nat /\ plan[p].chars \in Nat \cup {NoEntry}
        /\ WriteLedger(now, p, 0, plan[p].chars)
    BY <1>1 DEF ClaimReserve, Shape, Active, Steps, TypeOK, PlanRecord, Owed
  <2>2. QED BY <1>1, <2>1, WriteLedgerType
<1>4. TypeOK'
  BY <1>w, <1>1, <1>2, <1>3, BoundsAssumption DEF ClaimReserve, TypeOK, LedgersOK, disk, history, world
<1>5. Shape(p)'
  <2>1. /\ job'[p] = [NoJob EXCEPT !.pc = "claimed", !.month = now]
        /\ now \in Months /\ plan' = plan /\ plan[p].status = "pending"
        /\ left' = left /\ left = {}
    BY <1>1 DEF ClaimReserve, TypeOK, Serving
  <2>2. job'[p].pc = "claimed" /\ job'[p].month = now
    BY <2>1 DEF NoJob
  <2>3. QED BY <1>1, <2>1, <2>2 DEF Shape, Active
<1>6. /\ \A q \in Plans \ {p} : job'[q] = job[q] /\ plan'[q] = plan[q]
      /\ left' # {} => left # {}
  BY <1>1 DEF ClaimReserve, Goto, disk
<1>7. QED BY <1>4, <1>5, <1>6, ShapeFrame DEF TypeInv

\* ClaimStart keeps types and shapes.
LEMMA ClaimStartType ==
  ASSUME TypeInv, NEW p \in Plans, ClaimStart(p)
  PROVE  TypeInv'
<1>1. /\ job \in [Plans -> JobRecord] /\ job[p] \in JobRecord
      /\ plan \in [Plans -> PlanRecord] /\ plan[p] \in PlanRecord
      /\ Shape(p) /\ TypeOK
  BY DEF TypeInv, TypeOK
<1>2. job' \in [Plans -> JobRecord]
  BY <1>1 DEF ClaimStart, JobRecord, NoJob, Steps, Goto, Shape, Active
<1>3. plan' \in [Plans -> PlanRecord]
  BY <1>1 DEF ClaimStart, PlanRecord, NewPlan, Status, JobRecord, Shape, Active, Steps, disk
<1>4. TypeOK'
  BY <1>1, <1>2, <1>3, BoundsAssumption DEF ClaimStart, TypeOK, LedgersOK, disk, history, world
<1>5. Shape(p)'
  BY <1>1 DEF ClaimStart, Shape, Active, Steps, Goto, JobRecord, PlanRecord, NoJob, NewPlan, disk
<1>6. /\ \A q \in Plans \ {p} : job'[q] = job[q] /\ plan'[q] = plan[q]
      /\ left' # {} => left # {}
  BY <1>1 DEF ClaimStart, Goto, disk
<1>7. QED BY <1>4, <1>5, <1>6, ShapeFrame DEF TypeInv

\* NoCredentials keeps types and shapes.
LEMMA NoCredentialsType ==
  ASSUME TypeInv, NEW p \in Plans, NoCredentials(p)
  PROVE  TypeInv'
<1>1. /\ job \in [Plans -> JobRecord] /\ job[p] \in JobRecord
      /\ plan \in [Plans -> PlanRecord] /\ plan[p] \in PlanRecord
      /\ Shape(p) /\ TypeOK
  BY DEF TypeInv, TypeOK
<1>2. job' \in [Plans -> JobRecord]
  BY <1>1 DEF NoCredentials, JobRecord, NoJob, Steps, Goto, Shape, Active
<1>3. plan' \in [Plans -> PlanRecord]
  BY <1>1 DEF NoCredentials, PlanRecord, NewPlan, Status, JobRecord, Shape, Active, Steps, disk
<1>4. TypeOK'
  BY <1>1, <1>2, <1>3, BoundsAssumption DEF NoCredentials, TypeOK, LedgersOK, disk, history, world
<1>5. Shape(p)'
  BY <1>1 DEF NoCredentials, Shape, Active, Steps, Goto, JobRecord, PlanRecord, NoJob, NewPlan, disk
<1>6. /\ \A q \in Plans \ {p} : job'[q] = job[q] /\ plan'[q] = plan[q]
      /\ left' # {} => left # {}
  BY <1>1 DEF NoCredentials, Goto, disk
<1>7. QED BY <1>4, <1>5, <1>6, ShapeFrame DEF TypeInv

\* SelectClips keeps types and shapes.
LEMMA SelectClipsType ==
  ASSUME TypeInv, NEW p \in Plans, SelectClips(p)
  PROVE  TypeInv'
<1>1. /\ job \in [Plans -> JobRecord] /\ job[p] \in JobRecord
      /\ plan \in [Plans -> PlanRecord] /\ plan[p] \in PlanRecord
      /\ Shape(p) /\ TypeOK
  BY DEF TypeInv, TypeOK
<1>2. job' \in [Plans -> JobRecord]
  <2>1. {c \in plan[p].clips : ~Reusable(c)} \in SUBSET Clips
    BY <1>1 DEF PlanRecord
  <2>2. QED BY <1>1, <2>1 DEF SelectClips, JobRecord, Steps
<1>3. plan' \in [Plans -> PlanRecord]
  BY <1>1 DEF SelectClips, PlanRecord, NewPlan, Status, JobRecord, Shape, Active, Steps, disk
<1>4. TypeOK'
  BY <1>1, <1>2, <1>3, BoundsAssumption DEF SelectClips, TypeOK, LedgersOK, disk, history, world
<1>5. Shape(p)'
  BY <1>1 DEF SelectClips, Shape, Active, Steps, Goto, JobRecord, PlanRecord, NoJob, NewPlan, disk
<1>6. /\ \A q \in Plans \ {p} : job'[q] = job[q] /\ plan'[q] = plan[q]
      /\ left' # {} => left # {}
  BY <1>1 DEF SelectClips, Goto, disk
<1>7. QED BY <1>4, <1>5, <1>6, ShapeFrame DEF TypeInv

\* SameMonth keeps types and shapes.
LEMMA SameMonthType ==
  ASSUME TypeInv, NEW p \in Plans, NEW c \in Clips, SameMonth(p, c)
  PROVE  TypeInv'
<1>1. /\ job \in [Plans -> JobRecord] /\ job[p] \in JobRecord
      /\ plan \in [Plans -> PlanRecord] /\ plan[p] \in PlanRecord
      /\ Shape(p) /\ TypeOK
  BY DEF TypeInv, TypeOK
<1>2. job' \in [Plans -> JobRecord]
  BY <1>1 DEF SameMonth, Take, JobRecord, NoJob, Steps, Goto, Shape, Active
<1>3. plan' \in [Plans -> PlanRecord]
  BY <1>1 DEF SameMonth, Take, PlanRecord, NewPlan, Status, JobRecord, Shape, Active, Steps, disk
<1>4. TypeOK'
  BY <1>1, <1>2, <1>3, BoundsAssumption DEF SameMonth, Take, TypeOK, LedgersOK, disk, history, world
<1>5. Shape(p)'
  BY <1>1 DEF SameMonth, Take, Shape, Active, Steps, Goto, JobRecord, PlanRecord, NoJob, NewPlan, disk
<1>6. /\ \A q \in Plans \ {p} : job'[q] = job[q] /\ plan'[q] = plan[q]
      /\ left' # {} => left # {}
  BY <1>1 DEF SameMonth, Take, Goto, disk
<1>7. QED BY <1>4, <1>5, <1>6, ShapeFrame DEF TypeInv

\* MoveIn keeps types and shapes.
LEMMA MoveInType ==
  ASSUME TypeInv, NEW p \in Plans, NEW c \in Clips, MoveIn(p, c)
  PROVE  TypeInv'
<1>1. /\ job \in [Plans -> JobRecord] /\ job[p] \in JobRecord
      /\ plan \in [Plans -> PlanRecord] /\ plan[p] \in PlanRecord
      /\ Shape(p) /\ TypeOK
  BY DEF TypeInv, TypeOK
<1>2. job' \in [Plans -> JobRecord]
  BY <1>1 DEF MoveIn, Take, JobRecord, NoJob, Steps, Goto, Shape, Active
<1>3. plan' \in [Plans -> PlanRecord]
  BY <1>1 DEF MoveIn, Take, PlanRecord, NewPlan, Status, JobRecord, Shape, Active, Steps, disk
<1>w. LedgersOK'
  <2>1. plan[p].month \in Months /\ now \in Months
    BY <1>1 DEF MoveIn, Shape, Active, Steps, TypeOK
  <2>2. Larger(Reserved(plan[p].month, p), Reserved(now, p)) \in Nat
    <3>1. Reserved(plan[p].month, p) \in Nat /\ Reserved(now, p) \in Nat
      BY <1>1, <2>1, ReservedNat
    <3>2. QED BY <3>1, LargerNat
  <2>3. plan[p].chars - plan[p].spent \in Int
    BY <1>1 DEF PlanRecord
  <2>4. Remaining(p) \in Nat
    BY <2>2, <2>3, LargerNat DEF Remaining
  <2>5. QED BY <1>1, <2>1, <2>4, WriteLedgerType DEF MoveIn
<1>4. TypeOK'
  BY <1>w, <1>1, <1>2, <1>3, BoundsAssumption DEF MoveIn, Take, TypeOK, LedgersOK, disk, history, world
<1>5. Shape(p)'
  BY <1>1 DEF MoveIn, Take, Shape, Active, Steps, Goto, JobRecord, PlanRecord, NoJob, NewPlan, disk
<1>6. /\ \A q \in Plans \ {p} : job'[q] = job[q] /\ plan'[q] = plan[q]
      /\ left' # {} => left # {}
  BY <1>1 DEF MoveIn, Take, Goto, disk
<1>7. QED BY <1>4, <1>5, <1>6, ShapeFrame DEF TypeInv

\* MoveOut keeps types and shapes.
LEMMA MoveOutType ==
  ASSUME TypeInv, NEW p \in Plans, MoveOut(p)
  PROVE  TypeInv'
<1>1. /\ job \in [Plans -> JobRecord] /\ job[p] \in JobRecord
      /\ plan \in [Plans -> PlanRecord] /\ plan[p] \in PlanRecord
      /\ Shape(p) /\ TypeOK
  BY DEF TypeInv, TypeOK
<1>2. job' \in [Plans -> JobRecord]
  BY <1>1 DEF MoveOut, JobRecord, NoJob, Steps, Goto, Shape, Active
<1>3. plan' \in [Plans -> PlanRecord]
  BY <1>1 DEF MoveOut, PlanRecord, NewPlan, Status, JobRecord, Shape, Active, Steps, disk
<1>w. LedgersOK'
  <2>1. /\ plan[p].month \in Months /\ 0 \in Nat /\ NoEntry \in Nat \cup {NoEntry}
        /\ WriteLedger(plan[p].month, p, 0, NoEntry)
    BY <1>1 DEF MoveOut, Shape, Active, Steps, TypeOK, PlanRecord, Owed
  <2>2. QED BY <1>1, <2>1, WriteLedgerType
<1>4. TypeOK'
  BY <1>w, <1>1, <1>2, <1>3, BoundsAssumption DEF MoveOut, TypeOK, LedgersOK, disk, history, world
<1>5. Shape(p)'
  BY <1>1 DEF MoveOut, Shape, Active, Steps, Goto, JobRecord, PlanRecord, NoJob, NewPlan, disk
<1>6. /\ \A q \in Plans \ {p} : job'[q] = job[q] /\ plan'[q] = plan[q]
      /\ left' # {} => left # {}
  BY <1>1 DEF MoveOut, Goto, disk
<1>7. QED BY <1>4, <1>5, <1>6, ShapeFrame DEF TypeInv

\* MovePlan keeps types and shapes.
LEMMA MovePlanType ==
  ASSUME TypeInv, NEW p \in Plans, MovePlan(p)
  PROVE  TypeInv'
<1>1. /\ job \in [Plans -> JobRecord] /\ job[p] \in JobRecord
      /\ plan \in [Plans -> PlanRecord] /\ plan[p] \in PlanRecord
      /\ Shape(p) /\ TypeOK
  BY DEF TypeInv, TypeOK
<1>2. job' \in [Plans -> JobRecord]
  BY <1>1 DEF MovePlan, JobRecord, NoJob, Steps, Goto, Shape, Active
<1>3. plan' \in [Plans -> PlanRecord]
  BY <1>1 DEF MovePlan, PlanRecord, NewPlan, Status, JobRecord, Shape, Active, Steps, disk
<1>4. TypeOK'
  BY <1>1, <1>2, <1>3, BoundsAssumption DEF MovePlan, TypeOK, LedgersOK, disk, history, world
<1>5. Shape(p)'
  <2>1. /\ job'[p].pc = "call" /\ job'[p].month = job[p].target /\ job'[p].clip = job[p].clip
        /\ plan'[p].month = job[p].target /\ plan'[p].status = plan[p].status
        /\ job[p].pc = "moving" /\ left' = left
    BY <1>1 DEF MovePlan, JobRecord, PlanRecord
  <2>2. QED BY <1>1, <2>1 DEF Shape, Active, Steps
<1>6. /\ \A q \in Plans \ {p} : job'[q] = job[q] /\ plan'[q] = plan[q]
      /\ left' # {} => left # {}
  BY <1>1 DEF MovePlan, Goto, disk
<1>7. QED BY <1>4, <1>5, <1>6, ShapeFrame DEF TypeInv

\* MoveRefused keeps types and shapes.
LEMMA MoveRefusedType ==
  ASSUME TypeInv, NEW p \in Plans, MoveRefused(p)
  PROVE  TypeInv'
<1>1. /\ job \in [Plans -> JobRecord] /\ job[p] \in JobRecord
      /\ plan \in [Plans -> PlanRecord] /\ plan[p] \in PlanRecord
      /\ Shape(p) /\ TypeOK
  BY DEF TypeInv, TypeOK
<1>2. job' \in [Plans -> JobRecord]
  BY <1>1 DEF MoveRefused, JobRecord, NoJob, Steps, Goto, Shape, Active
<1>3. plan' \in [Plans -> PlanRecord]
  BY <1>1 DEF MoveRefused, PlanRecord, NewPlan, Status, JobRecord, Shape, Active, Steps, disk
<1>4. TypeOK'
  BY <1>1, <1>2, <1>3, BoundsAssumption DEF MoveRefused, TypeOK, LedgersOK, disk, history, world
<1>5. Shape(p)'
  BY <1>1 DEF MoveRefused, Shape, Active, Steps, Goto, JobRecord, PlanRecord, NoJob, NewPlan, disk
<1>6. /\ \A q \in Plans \ {p} : job'[q] = job[q] /\ plan'[q] = plan[q]
      /\ left' # {} => left # {}
  BY <1>1 DEF MoveRefused, Goto, disk
<1>7. QED BY <1>4, <1>5, <1>6, ShapeFrame DEF TypeInv

\* ProviderAnswers keeps types and shapes.
LEMMA ProviderAnswersType ==
  ASSUME TypeInv, NEW p \in Plans, ProviderAnswers(p)
  PROVE  TypeInv'
<1>1. /\ job \in [Plans -> JobRecord] /\ job[p] \in JobRecord
      /\ plan \in [Plans -> PlanRecord] /\ plan[p] \in PlanRecord
      /\ Shape(p) /\ TypeOK
  BY DEF TypeInv, TypeOK
<1>2. job' \in [Plans -> JobRecord]
  <2>1. Characters[{job[p].clip}] \in Nat
    BY <1>1, CharactersNat DEF ProviderAnswers, Shape
  <2>2. job[p].spent + Characters[{job[p].clip}] \in Nat
    BY <1>1, <2>1 DEF JobRecord
  <2>3. QED BY <1>1, <2>2 DEF ProviderAnswers, JobRecord, Steps
<1>3. plan' \in [Plans -> PlanRecord]
  BY <1>1 DEF ProviderAnswers, PlanRecord, NewPlan, Status, JobRecord, Shape, Active, Steps, disk
<1>4. TypeOK'
  BY <1>1, <1>2, <1>3, BoundsAssumption, CharactersNat DEF ProviderAnswers, TypeOK, LedgersOK, disk, history, world, Shape
<1>5. Shape(p)'
  BY <1>1 DEF ProviderAnswers, Shape, Active, Steps, Goto, JobRecord, PlanRecord, NoJob, NewPlan, disk
<1>6. /\ \A q \in Plans \ {p} : job'[q] = job[q] /\ plan'[q] = plan[q]
      /\ left' # {} => left # {}
  BY <1>1 DEF ProviderAnswers, Goto, disk
<1>7. QED BY <1>4, <1>5, <1>6, ShapeFrame DEF TypeInv

\* ProviderFails keeps types and shapes.
LEMMA ProviderFailsType ==
  ASSUME TypeInv, NEW p \in Plans, ProviderFails(p)
  PROVE  TypeInv'
<1>1. /\ job \in [Plans -> JobRecord] /\ job[p] \in JobRecord
      /\ plan \in [Plans -> PlanRecord] /\ plan[p] \in PlanRecord
      /\ Shape(p) /\ TypeOK
  BY DEF TypeInv, TypeOK
<1>2. job' \in [Plans -> JobRecord]
  BY <1>1 DEF ProviderFails, JobRecord, NoJob, Steps, Goto, Shape, Active
<1>3. plan' \in [Plans -> PlanRecord]
  BY <1>1 DEF ProviderFails, PlanRecord, NewPlan, Status, JobRecord, Shape, Active, Steps, disk
<1>4. TypeOK'
  BY <1>1, <1>2, <1>3, BoundsAssumption DEF ProviderFails, TypeOK, LedgersOK, disk, history, world
<1>5. Shape(p)'
  BY <1>1 DEF ProviderFails, Shape, Active, Steps, Goto, JobRecord, PlanRecord, NoJob, NewPlan, disk
<1>6. /\ \A q \in Plans \ {p} : job'[q] = job[q] /\ plan'[q] = plan[q]
      /\ left' # {} => left # {}
  BY <1>1 DEF ProviderFails, Goto, disk
<1>7. QED BY <1>4, <1>5, <1>6, ShapeFrame DEF TypeInv

\* BookLedger keeps types and shapes.
LEMMA BookLedgerType ==
  ASSUME TypeInv, NEW p \in Plans, BookLedger(p)
  PROVE  TypeInv'
<1>1. /\ job \in [Plans -> JobRecord] /\ job[p] \in JobRecord
      /\ plan \in [Plans -> PlanRecord] /\ plan[p] \in PlanRecord
      /\ Shape(p) /\ TypeOK
  BY DEF TypeInv, TypeOK
<1>2. job' \in [Plans -> JobRecord]
  BY <1>1 DEF BookLedger, JobRecord, NoJob, Steps, Goto, Shape, Active
<1>3. plan' \in [Plans -> PlanRecord]
  BY <1>1 DEF BookLedger, PlanRecord, NewPlan, Status, JobRecord, Shape, Active, Steps, disk
<1>w. LedgersOK'
  <2>1. plan[p].month \in Months
    BY <1>1 DEF BookLedger, Shape, Active, Steps
  <2>2. Reserved(plan[p].month, p) \in Nat
    BY <1>1, <2>1, ReservedNat
  <2>3. AtLeast0(job[p].spent - plan[p].spent) \in Nat
    BY <1>1, AtLeast0Nat DEF PlanRecord, JobRecord
  <2>4. AtLeast0(Reserved(plan[p].month, p) - AtLeast0(job[p].spent - plan[p].spent)) \in Nat
    BY <2>2, <2>3, AtLeast0Nat
  <2>5. QED BY <1>1, <2>1, <2>3, <2>4, WriteLedgerType DEF BookLedger
<1>4. TypeOK'
  BY <1>w, <1>1, <1>2, <1>3, BoundsAssumption DEF BookLedger, TypeOK, LedgersOK, disk, history, world
<1>5. Shape(p)'
  BY <1>1 DEF BookLedger, Shape, Active, Steps, Goto, JobRecord, PlanRecord, NoJob, NewPlan, disk
<1>6. /\ \A q \in Plans \ {p} : job'[q] = job[q] /\ plan'[q] = plan[q]
      /\ left' # {} => left # {}
  BY <1>1 DEF BookLedger, Goto, disk
<1>7. QED BY <1>4, <1>5, <1>6, ShapeFrame DEF TypeInv

\* BookPlan keeps types and shapes.
LEMMA BookPlanType ==
  ASSUME TypeInv, NEW p \in Plans, BookPlan(p)
  PROVE  TypeInv'
<1>1. /\ job \in [Plans -> JobRecord] /\ job[p] \in JobRecord
      /\ plan \in [Plans -> PlanRecord] /\ plan[p] \in PlanRecord
      /\ Shape(p) /\ TypeOK
  BY DEF TypeInv, TypeOK
<1>2. job' \in [Plans -> JobRecord]
  BY <1>1 DEF BookPlan, JobRecord, NoJob, Steps, Goto, Shape, Active
<1>3. plan' \in [Plans -> PlanRecord]
  BY <1>1 DEF BookPlan, PlanRecord, NewPlan, Status, JobRecord, Shape, Active, Steps, disk
<1>4. TypeOK'
  BY <1>1, <1>2, <1>3, BoundsAssumption DEF BookPlan, TypeOK, LedgersOK, disk, history, world
<1>5. Shape(p)'
  BY <1>1 DEF BookPlan, Shape, Active, Steps, Goto, JobRecord, PlanRecord, NoJob, NewPlan, disk
<1>6. /\ \A q \in Plans \ {p} : job'[q] = job[q] /\ plan'[q] = plan[q]
      /\ left' # {} => left # {}
  BY <1>1 DEF BookPlan, Goto, disk
<1>7. QED BY <1>4, <1>5, <1>6, ShapeFrame DEF TypeInv

\* StoreAsset keeps types and shapes.
LEMMA StoreAssetType ==
  ASSUME TypeInv, NEW p \in Plans, StoreAsset(p)
  PROVE  TypeInv'
<1>1. /\ job \in [Plans -> JobRecord] /\ job[p] \in JobRecord
      /\ plan \in [Plans -> PlanRecord] /\ plan[p] \in PlanRecord
      /\ Shape(p) /\ TypeOK
  BY DEF TypeInv, TypeOK
<1>2. job' \in [Plans -> JobRecord]
  BY <1>1 DEF StoreAsset, JobRecord, NoJob, Steps, Goto, Shape, Active
<1>3. plan' \in [Plans -> PlanRecord]
  BY <1>1 DEF StoreAsset, PlanRecord, NewPlan, Status, JobRecord, Shape, Active, Steps, disk
<1>4. TypeOK'
  BY <1>1, <1>2, <1>3, BoundsAssumption DEF StoreAsset, TypeOK, LedgersOK, disk, history, world
<1>5. Shape(p)'
  BY <1>1 DEF StoreAsset, Shape, Active, Steps, Goto, JobRecord, PlanRecord, NoJob, NewPlan, disk
<1>6. /\ \A q \in Plans \ {p} : job'[q] = job[q] /\ plan'[q] = plan[q]
      /\ left' # {} => left # {}
  BY <1>1 DEF StoreAsset, Goto, disk
<1>7. QED BY <1>4, <1>5, <1>6, ShapeFrame DEF TypeInv

\* FinishLedger keeps types and shapes.
LEMMA FinishLedgerType ==
  ASSUME TypeInv, NEW p \in Plans, FinishLedger(p)
  PROVE  TypeInv'
<1>1. /\ job \in [Plans -> JobRecord] /\ job[p] \in JobRecord
      /\ plan \in [Plans -> PlanRecord] /\ plan[p] \in PlanRecord
      /\ Shape(p) /\ TypeOK
  BY DEF TypeInv, TypeOK
<1>2. job' \in [Plans -> JobRecord]
  BY <1>1 DEF FinishLedger, JobRecord, NoJob, Steps, Goto, Shape, Active
<1>3. plan' \in [Plans -> PlanRecord]
  BY <1>1 DEF FinishLedger, PlanRecord, NewPlan, Status, JobRecord, Shape, Active, Steps, disk
<1>w. LedgersOK'
  <2>1. /\ job[p].month \in Months /\ 0 \in Nat /\ NoEntry \in Nat \cup {NoEntry}
        /\ WriteLedger(job[p].month, p, 0, NoEntry)
    BY <1>1 DEF FinishLedger, Shape, Active, Steps, TypeOK, PlanRecord, Owed
  <2>2. QED BY <1>1, <2>1, WriteLedgerType
<1>4. TypeOK'
  BY <1>w, <1>1, <1>2, <1>3, BoundsAssumption DEF FinishLedger, TypeOK, LedgersOK, disk, history, world
<1>5. Shape(p)'
  BY <1>1 DEF FinishLedger, Shape, Active, Steps, Goto, JobRecord, PlanRecord, NoJob, NewPlan, disk
<1>6. /\ \A q \in Plans \ {p} : job'[q] = job[q] /\ plan'[q] = plan[q]
      /\ left' # {} => left # {}
  BY <1>1 DEF FinishLedger, Goto, disk
<1>7. QED BY <1>4, <1>5, <1>6, ShapeFrame DEF TypeInv

\* FinishPlan keeps types and shapes.
LEMMA FinishPlanType ==
  ASSUME TypeInv, NEW p \in Plans, FinishPlan(p)
  PROVE  TypeInv'
<1>1. /\ job \in [Plans -> JobRecord] /\ job[p] \in JobRecord
      /\ plan \in [Plans -> PlanRecord] /\ plan[p] \in PlanRecord
      /\ Shape(p) /\ TypeOK
  BY DEF TypeInv, TypeOK
<1>2. job' \in [Plans -> JobRecord]
  BY <1>1 DEF FinishPlan, JobRecord, NoJob, Steps, Goto, Shape, Active
<1>3. plan' \in [Plans -> PlanRecord]
  BY <1>1 DEF FinishPlan, PlanRecord, NewPlan, Status, JobRecord, Shape, Active, Steps, disk
<1>4. TypeOK'
  BY <1>1, <1>2, <1>3, BoundsAssumption DEF FinishPlan, TypeOK, LedgersOK, disk, history, world
<1>5. Shape(p)'
  BY <1>1 DEF FinishPlan, Shape, Active, Steps, Goto, JobRecord, PlanRecord, NoJob, NewPlan, disk
<1>6. /\ \A q \in Plans \ {p} : job'[q] = job[q] /\ plan'[q] = plan[q]
      /\ left' # {} => left # {}
  BY <1>1 DEF FinishPlan, Goto, disk
<1>7. QED BY <1>4, <1>5, <1>6, ShapeFrame DEF TypeInv

\* FailLedger keeps types and shapes.
LEMMA FailLedgerType ==
  ASSUME TypeInv, NEW p \in Plans, FailLedger(p)
  PROVE  TypeInv'
<1>1. /\ job \in [Plans -> JobRecord] /\ job[p] \in JobRecord
      /\ plan \in [Plans -> PlanRecord] /\ plan[p] \in PlanRecord
      /\ Shape(p) /\ TypeOK
  BY DEF TypeInv, TypeOK
<1>2. job' \in [Plans -> JobRecord]
  <2>1. Larger(job[p].spent, plan[p].spent) \in Nat
    BY <1>1, LargerNat DEF PlanRecord, JobRecord
  <2>2. QED BY <1>1, <2>1 DEF FailLedger, JobRecord, Steps
<1>3. plan' \in [Plans -> PlanRecord]
  BY <1>1 DEF FailLedger, PlanRecord, NewPlan, Status, JobRecord, Shape, Active, Steps, disk
<1>w. LedgersOK'
  <2>1. plan[p].month \in Months
    BY <1>1 DEF FailLedger, Shape, Active, Steps
  <2>2. Reserved(plan[p].month, p) \in Nat
    BY <1>1, <2>1, ReservedNat
  <2>3. /\ Larger(job[p].spent, plan[p].spent) \in Nat
        /\ Larger(plan[p].spent, plan[p].chars - Reserved(plan[p].month, p)) \in Nat
    <3>1. /\ job[p].spent \in Nat /\ plan[p].spent \in Nat
          /\ plan[p].chars - Reserved(plan[p].month, p) \in Int
      BY <1>1, <2>2 DEF PlanRecord, JobRecord
    <3>2. Larger(job[p].spent, plan[p].spent) \in Nat
      BY <3>1 DEF Larger
    <3>3. Larger(plan[p].spent, plan[p].chars - Reserved(plan[p].month, p)) \in Nat
      BY <3>1, LargerNat
    <3>4. QED BY <3>2, <3>3
  <2>4. AtLeast0(Larger(job[p].spent, plan[p].spent) - Larger(plan[p].spent, plan[p].chars - Reserved(plan[p].month, p))) \in Nat
    BY <2>3, AtLeast0Nat
  <2>5. QED BY <1>1, <2>1, <2>4, WriteLedgerType DEF FailLedger
<1>4. TypeOK'
  BY <1>w, <1>1, <1>2, <1>3, BoundsAssumption DEF FailLedger, TypeOK, LedgersOK, disk, history, world
<1>5. Shape(p)'
  BY <1>1 DEF FailLedger, Shape, Active, Steps, Goto, JobRecord, PlanRecord, NoJob, NewPlan, disk
<1>6. /\ \A q \in Plans \ {p} : job'[q] = job[q] /\ plan'[q] = plan[q]
      /\ left' # {} => left # {}
  BY <1>1 DEF FailLedger, Goto, disk
<1>7. QED BY <1>4, <1>5, <1>6, ShapeFrame DEF TypeInv

\* FailPlan keeps types and shapes.
LEMMA FailPlanType ==
  ASSUME TypeInv, NEW p \in Plans, FailPlan(p)
  PROVE  TypeInv'
<1>1. /\ job \in [Plans -> JobRecord] /\ job[p] \in JobRecord
      /\ plan \in [Plans -> PlanRecord] /\ plan[p] \in PlanRecord
      /\ Shape(p) /\ TypeOK
  BY DEF TypeInv, TypeOK
<1>2. job' \in [Plans -> JobRecord]
  BY <1>1 DEF FailPlan, JobRecord, NoJob, Steps, Goto, Shape, Active
<1>3. plan' \in [Plans -> PlanRecord]
  BY <1>1 DEF FailPlan, PlanRecord, NewPlan, Status, JobRecord, Shape, Active, Steps, disk
<1>4. TypeOK'
  BY <1>1, <1>2, <1>3, BoundsAssumption DEF FailPlan, TypeOK, LedgersOK, disk, history, world
<1>5. Shape(p)'
  BY <1>1 DEF FailPlan, Shape, Active, Steps, Goto, JobRecord, PlanRecord, NoJob, NewPlan, disk
<1>6. /\ \A q \in Plans \ {p} : job'[q] = job[q] /\ plan'[q] = plan[q]
      /\ left' # {} => left # {}
  BY <1>1 DEF FailPlan, Goto, disk
<1>7. QED BY <1>4, <1>5, <1>6, ShapeFrame DEF TypeInv

\* WriteRaises keeps types and shapes.
LEMMA WriteRaisesType ==
  ASSUME TypeInv, NEW p \in Plans, WriteRaises(p)
  PROVE  TypeInv'
<1>1. /\ job \in [Plans -> JobRecord] /\ job[p] \in JobRecord
      /\ plan \in [Plans -> PlanRecord] /\ plan[p] \in PlanRecord
      /\ Shape(p) /\ TypeOK
  BY DEF TypeInv, TypeOK
<1>2. job' \in [Plans -> JobRecord]
  BY <1>1 DEF WriteRaises, JobRecord, NoJob, Steps, Goto, Shape, Active
<1>3. plan' \in [Plans -> PlanRecord]
  BY <1>1 DEF WriteRaises, PlanRecord, NewPlan, Status, JobRecord, Shape, Active, Steps, disk
<1>4. TypeOK'
  BY <1>1, <1>2, <1>3, BoundsAssumption DEF WriteRaises, TypeOK, LedgersOK, disk, history, world
<1>5. Shape(p)'
  BY <1>1 DEF WriteRaises, Shape, Active, Steps, Goto, JobRecord, PlanRecord, NoJob, NewPlan, disk
<1>6. /\ \A q \in Plans \ {p} : job'[q] = job[q] /\ plan'[q] = plan[q]
      /\ left' # {} => left # {}
  BY <1>1 DEF WriteRaises, Goto, disk
<1>7. QED BY <1>4, <1>5, <1>6, ShapeFrame DEF TypeInv

\* RecoverMark keeps types and shapes.
LEMMA RecoverMarkType ==
  ASSUME TypeInv, NEW p \in Plans, RecoverMark(p)
  PROVE  TypeInv'
<1>1. /\ job \in [Plans -> JobRecord] /\ job[p] \in JobRecord
      /\ plan \in [Plans -> PlanRecord] /\ plan[p] \in PlanRecord
      /\ Shape(p) /\ TypeOK
  BY DEF TypeInv, TypeOK
<1>2. job' \in [Plans -> JobRecord]
  BY <1>1 DEF RecoverMark, JobRecord, NoJob, Steps, Goto, Shape, Active
<1>3. plan' \in [Plans -> PlanRecord]
  <2>1. PICK m \in Months :
          plan' = [plan EXCEPT ![p].status = "failed", ![p].recMonth = m,
                               ![p].recReserved = Reserved(m, p),
                               ![p].spent = plan[p].chars]
    BY DEF RecoverMark
  <2>2. Reserved(m, p) \in Nat
    BY <1>1, ReservedNat
  <2>3. QED BY <1>1, <2>1, <2>2 DEF PlanRecord, Status
<1>4. TypeOK'
  BY <1>1, <1>2, <1>3, BoundsAssumption DEF RecoverMark, TypeOK, LedgersOK, disk, history, world
<1>5. Shape(p)'
  <2>1. job' = job /\ plan'[p].status = "failed" /\ plan[p].status = "running"
    BY <1>1 DEF RecoverMark, PlanRecord
  <2>2. job[p].pc = "idle" /\ left' = left
    BY <1>1 DEF RecoverMark, Shape
  <2>3. QED BY <2>1, <2>2 DEF Shape, Active
<1>6. /\ \A q \in Plans \ {p} : job'[q] = job[q] /\ plan'[q] = plan[q]
      /\ left' # {} => left # {}
  BY <1>1 DEF RecoverMark, Goto, disk
<1>7. QED BY <1>4, <1>5, <1>6, ShapeFrame DEF TypeInv

\* RecoverCharge keeps types and shapes.
LEMMA RecoverChargeType ==
  ASSUME TypeInv, NEW p \in Plans, RecoverCharge(p)
  PROVE  TypeInv'
<1>1. /\ job \in [Plans -> JobRecord] /\ job[p] \in JobRecord
      /\ plan \in [Plans -> PlanRecord] /\ plan[p] \in PlanRecord
      /\ Shape(p) /\ TypeOK
  BY DEF TypeInv, TypeOK
<1>2. job' \in [Plans -> JobRecord]
  BY <1>1 DEF RecoverCharge, JobRecord, NoJob, Steps, Goto, Shape, Active
<1>3. plan' \in [Plans -> PlanRecord]
  BY <1>1 DEF RecoverCharge, PlanRecord, NewPlan, Status, JobRecord, Shape, Active, Steps, disk
<1>w. LedgersOK'
  <2>1. /\ plan[p].recMonth \in Months /\ plan[p].recReserved \in Nat /\ NoEntry \in Nat \cup {NoEntry}
        /\ WriteLedger(plan[p].recMonth, p, plan[p].recReserved, NoEntry)
    BY <1>1 DEF RecoverCharge, Shape, Active, Steps, TypeOK, PlanRecord, Owed
  <2>2. QED BY <1>1, <2>1, WriteLedgerType
<1>4. TypeOK'
  BY <1>w, <1>1, <1>2, <1>3, BoundsAssumption DEF RecoverCharge, TypeOK, LedgersOK, disk, history, world
<1>5. Shape(p)'
  BY <1>1 DEF RecoverCharge, Shape, Active, Steps, Goto, JobRecord, PlanRecord, NoJob, NewPlan, disk
<1>6. /\ \A q \in Plans \ {p} : job'[q] = job[q] /\ plan'[q] = plan[q]
      /\ left' # {} => left # {}
  BY <1>1 DEF RecoverCharge, Goto, disk
<1>7. QED BY <1>4, <1>5, <1>6, ShapeFrame DEF TypeInv

\* RecoverRelease keeps types and shapes.
LEMMA RecoverReleaseType ==
  ASSUME TypeInv, NEW p \in Plans, NEW m \in Months, RecoverRelease(p, m)
  PROVE  TypeInv'
<1>1. /\ job \in [Plans -> JobRecord] /\ job[p] \in JobRecord
      /\ plan \in [Plans -> PlanRecord] /\ plan[p] \in PlanRecord
      /\ Shape(p) /\ TypeOK
  BY DEF TypeInv, TypeOK
<1>2. job' \in [Plans -> JobRecord]
  BY <1>1 DEF RecoverRelease, JobRecord, NoJob, Steps, Goto, Shape, Active
<1>3. plan' \in [Plans -> PlanRecord]
  BY <1>1 DEF RecoverRelease, PlanRecord, NewPlan, Status, JobRecord, Shape, Active, Steps, disk
<1>w. LedgersOK'
  <2>1. /\ m \in Months /\ 0 \in Nat /\ NoEntry \in Nat \cup {NoEntry}
        /\ WriteLedger(m, p, 0, NoEntry)
    BY <1>1 DEF RecoverRelease, Shape, Active, Steps, TypeOK, PlanRecord, Owed
  <2>2. QED BY <1>1, <2>1, WriteLedgerType
<1>4. TypeOK'
  BY <1>w, <1>1, <1>2, <1>3, BoundsAssumption DEF RecoverRelease, TypeOK, LedgersOK, disk, history, world
<1>5. Shape(p)'
  BY <1>1 DEF RecoverRelease, Shape, Active, Steps, Goto, JobRecord, PlanRecord, NoJob, NewPlan, disk
<1>6. /\ \A q \in Plans \ {p} : job'[q] = job[q] /\ plan'[q] = plan[q]
      /\ left' # {} => left # {}
  BY <1>1 DEF RecoverRelease, Goto, disk
<1>7. QED BY <1>4, <1>5, <1>6, ShapeFrame DEF TypeInv

\* RecoverNext keeps types and shapes.
LEMMA RecoverNextType ==
  ASSUME TypeInv, NEW p \in Plans, RecoverNext(p)
  PROVE  TypeInv'
<1>1. /\ job \in [Plans -> JobRecord] /\ job[p] \in JobRecord
      /\ plan \in [Plans -> PlanRecord] /\ plan[p] \in PlanRecord
      /\ Shape(p) /\ TypeOK
  BY DEF TypeInv, TypeOK
<1>2. job' \in [Plans -> JobRecord]
  BY <1>1 DEF RecoverNext, JobRecord, NoJob, Steps, Goto, Shape, Active
<1>3. plan' \in [Plans -> PlanRecord]
  BY <1>1 DEF RecoverNext, PlanRecord, NewPlan, Status, JobRecord, Shape, Active, Steps, disk
<1>4. TypeOK'
  BY <1>1, <1>2, <1>3, BoundsAssumption DEF RecoverNext, TypeOK, LedgersOK, disk, history, world
<1>5. Shape(p)'
  BY <1>1 DEF RecoverNext, Shape, Active, Steps, Goto, JobRecord, PlanRecord, NoJob, NewPlan, disk
<1>6. /\ \A q \in Plans \ {p} : job'[q] = job[q] /\ plan'[q] = plan[q]
      /\ left' # {} => left # {}
  BY <1>1 DEF RecoverNext, Goto, disk
<1>7. QED BY <1>4, <1>5, <1>6, ShapeFrame DEF TypeInv

\* A crash empties every job and keeps the files.
LEMMA CrashType ==
  ASSUME TypeInv, Crash
  PROVE  TypeInv'
<1>1. NoJob \in JobRecord /\ NoJob.pc = "idle"
  BY DEF NoJob, JobRecord, Steps
<1>2. TypeOK'
  BY <1>1, BoundsAssumption DEF TypeInv, TypeOK, Crash, disk, history, Months
<1>3. ASSUME NEW q \in Plans PROVE Shape(q)'
  <2>1. job'[q] = NoJob /\ plan' = plan /\ Shape(q)
    BY <1>3 DEF Crash, disk, TypeInv
  <2>2. QED BY <1>1, <2>1 DEF Shape, Active
<1>4. QED BY <1>2, <1>3 DEF TypeInv

\* The clock and the cap do not touch plans or jobs.
LEMMA WorldType ==
  ASSUME TypeInv, SetCap \/ AdvanceMonth \/ UNCHANGED vars
  PROVE  TypeInv'
<1>1. TypeOK'
  BY CostAssumption, BoundsAssumption
     DEF TypeInv, TypeOK, SetCap, AdvanceMonth, vars, disk, history, world, Months
<1>2. ASSUME NEW q \in Plans PROVE Shape(q)'
  BY <1>2 DEF TypeInv, Shape, SetCap, AdvanceMonth, vars, disk
<1>3. QED BY <1>1, <1>2 DEF TypeInv

\* The empty store is typed.
LEMMA InitType == Init => TypeInv
<1>1. SUFFICES ASSUME Init PROVE TypeInv
  OBVIOUS
<1>2. NewPlan \in PlanRecord /\ NewPlan.status = "none"
  BY DEF NewPlan, PlanRecord, Status
<1>3. NoJob \in JobRecord /\ NoJob.pc = "idle"
  BY DEF NoJob, JobRecord, Steps
<1>4. TypeOK
  BY <1>1, <1>2, <1>3, CostAssumption, BoundsAssumption DEF Init, TypeOK, Months
<1>5. ASSUME NEW p \in Plans PROVE Shape(p)
  BY <1>1, <1>2, <1>3 DEF Init, Shape, Active
<1>6. QED BY <1>4, <1>5 DEF TypeInv

\* Every step keeps types and shapes.
LEMMA NextType == TypeInv /\ [Next]_vars => TypeInv'
<1>1. SUFFICES ASSUME TypeInv, [Next]_vars PROVE TypeInv'
  OBVIOUS
<1>2. CASE SetCap \/ Crash \/ AdvanceMonth \/ UNCHANGED vars
  BY <1>1, <1>2, CrashType, WorldType
<1>3. ASSUME NEW p \in Plans,
             PlanAudio(p) \/ ClaimReserve(p) \/ WriteRaises(p)
      PROVE  TypeInv'
  BY <1>1, <1>3, PlanAudioType, ClaimReserveType, WriteRaisesType
<1>4. ASSUME NEW p \in Plans, Recover(p)
      PROVE  TypeInv'
  BY <1>1, <1>4, RecoverMarkType, RecoverChargeType, RecoverReleaseType,
     RecoverNextType DEF Recover
<1>5. ASSUME NEW p \in Plans, Work(p)
      PROVE  TypeInv'
  BY <1>1, <1>5, ClaimStartType, NoCredentialsType, SelectClipsType,
     SameMonthType, MoveInType, MoveOutType, MovePlanType, MoveRefusedType,
     ProviderAnswersType, ProviderFailsType, BookLedgerType, BookPlanType,
     StoreAssetType, FinishLedgerType, FinishPlanType, FailLedgerType,
     FailPlanType DEF Work
<1>6. QED BY <1>1, <1>2, <1>3, <1>4, <1>5 DEF Next

\* The persisted records, the ledgers and the memory of the jobs keep their
\* types through every interleaving, crash and fault.
THEOREM TypeCorrect == Spec => []TypeOK
<1>1. TypeInv => TypeOK
  BY DEF TypeInv
<1>2. QED BY <1>1, InitType, NextType, PTL DEF Spec

(***************************************************************************)
(* The accounting of one plan.                                             *)
(***************************************************************************)
Booked(p) == billed[p] <= charged[p]

Held(p, m) ==
  /\ m \in Months
  /\ entry[m][p] # NoEntry
  /\ charged[p] + entry[m][p] >= plan[p].chars

Working == {"select", "next", "moved", "call", "called", "charging", "asset"}

Account(p) ==
  /\ plan[p].status # "failed" => plan[p].recMonth = NoMonth
  /\ plan[p].status \in {"none", "pending"} =>
       billed[p] = 0 /\ charged[p] = 0 /\ plan[p].spent = 0
  /\ plan[p].status = "running" =>
       plan[p].spent <= charged[p] /\ (Booked(p) \/ Held(p, plan[p].month))
  /\ plan[p].status = "completed" => Booked(p) \/ plan[p].chars <= charged[p]
  /\ plan[p].status = "failed" =>
       IF Owed(p) THEN Booked(p) \/ charged[p] + plan[p].recReserved >= plan[p].chars
                  ELSE Booked(p) \/ plan[p].chars <= charged[p]
  /\ job[p].pc = "claimed" =>
       entry[job[p].month][p] = plan[p].chars /\ job[p].spent = 0
  /\ job[p].pc \in Working => Held(p, plan[p].month)
  /\ job[p].pc \in {"moved", "moving"} =>
       Held(p, job[p].target) /\ job[p].target # plan[p].month
  /\ job[p].pc \in {"select", "next", "moved", "moving", "call", "asset", "finishing"} =>
       billed[p] = plan[p].spent
  /\ job[p].pc \in Working \cup {"moving"} => billed[p] = job[p].spent
  /\ job[p].pc \in {"called", "charging"} => plan[p].spent <= job[p].spent
  /\ job[p].pc \in {"charging", "failed"} => Booked(p)
  /\ job[p].pc = "failing" => billed[p] <= job[p].spent \/ billed[p] <= plan[p].spent

IInv == TypeInv /\ \A p \in Plans : Account(p)

\* What the write of one ledger entry changes, and nothing else.
LEMMA LedgerEffect ==
  ASSUME TypeOK, NEW p \in Plans, NEW m \in Months, NEW n, NEW e, WriteLedger(m, p, n, e)
  PROVE  /\ charged'[p] = charged[p] + n
         /\ entry'[m][p] = e
         /\ \A k \in Months \ {m} : entry'[k][p] = entry[k][p]
         /\ \A q \in Plans \ {p} :
              charged'[q] = charged[q] /\ \A k \in Months : entry'[k][q] = entry[k][q]
<1>1. charged' = [charged EXCEPT ![p] = @ + n] /\ charged \in [Plans -> Nat]
  BY DEF WriteLedger, TypeOK
<1>2. entry' = [entry EXCEPT ![m][p] = e] /\ entry \in [Months -> [Plans -> Nat \cup {NoEntry}]]
  BY DEF WriteLedger, TypeOK
<1>3. entry'[m] = [entry[m] EXCEPT ![p] = e] /\ \A k \in Months \ {m} : entry'[k] = entry[k]
  BY <1>2
<1>4. entry[m] \in [Plans -> Nat \cup {NoEntry}]
  BY <1>2
<1>5. entry'[m][p] = e /\ \A q \in Plans \ {p} : entry'[m][q] = entry[m][q]
  BY <1>3, <1>4
<1>6. QED BY <1>1, <1>3, <1>5

\* A step about plan p leaves the accounts of the others alone.
Apart(p) ==
  \A q \in Plans \ {p} :
    /\ plan'[q] = plan[q] /\ job'[q] = job[q]
    /\ billed'[q] = billed[q] /\ charged'[q] = charged[q]
    /\ \A m \in Months : entry'[m][q] = entry[m][q]

\* A step about one plan that settles its account keeps the invariant.
LEMMA AccountFrame ==
  ASSUME IInv, TypeInv', NEW p \in Plans, Apart(p), Account(p)'
  PROVE  IInv'
<1>1. ASSUME NEW q \in Plans, q # p PROVE Account(q)'
  <2>1. /\ plan'[q] = plan[q] /\ job'[q] = job[q]
        /\ billed'[q] = billed[q] /\ charged'[q] = charged[q]
        /\ \A m \in Months : entry'[m][q] = entry[m][q]
    BY <1>1 DEF Apart
  <2>2. Account(q) /\ Shape(q) /\ plan[q] \in PlanRecord /\ job[q] \in JobRecord
    BY DEF IInv, TypeInv, TypeOK
  <2>3. \A m : Held(q, m)' <=> Held(q, m)
    BY <2>1 DEF Held
  <2>4. Owed(q)' <=> Owed(q)
    BY <2>1 DEF Owed, Holders
  <2>5. Booked(q)' <=> Booked(q)
    BY <2>1 DEF Booked
  <2>6. job[q].pc = "claimed" => entry'[job[q].month][q] = entry[job[q].month][q]
    BY <2>1, <2>2 DEF Shape
  <2>7. QED BY <2>1, <2>2, <2>3, <2>4, <2>5, <2>6 DEF Account
<1>2. QED BY <1>1 DEF IInv

\* ClaimStart keeps the account of its plan.
LEMMA ClaimStartAccount ==
  ASSUME IInv, NEW p \in Plans, ClaimStart(p)
  PROVE  IInv'
<1>1. /\ job \in [Plans -> JobRecord] /\ job[p] \in JobRecord
      /\ plan \in [Plans -> PlanRecord] /\ plan[p] \in PlanRecord
      /\ billed \in [Plans -> Nat] /\ charged \in [Plans -> Nat]
      /\ \A m \in Months : entry[m][p] \in Nat \cup {NoEntry}
      /\ Shape(p) /\ Account(p) /\ TypeOK /\ TypeInv
  BY DEF IInv, TypeInv, TypeOK
<1>2. TypeInv'
  BY <1>1, ClaimStartType
<1>3. /\ job[p].pc = "claimed"
      /\ job'[p].pc = "select"
      /\ job'[p].spent = job[p].spent
      /\ job'[p].month = job[p].month
      /\ job'[p].target = job[p].target
      /\ plan'[p].status = "running"
      /\ plan'[p].chars = plan[p].chars
      /\ plan'[p].month = job[p].month
      /\ plan'[p].spent = plan[p].spent
      /\ plan'[p].recMonth = plan[p].recMonth
      /\ plan'[p].recReserved = plan[p].recReserved
      /\ billed' = billed
  BY <1>1 DEF ClaimStart, JobRecord, PlanRecord, Goto, disk, history, NoJob, NewPlan
<1>4. charged' = charged /\ entry' = entry
  BY DEF ClaimStart, disk, history
<1>6. Apart(p)
  BY <1>1, <1>4 DEF ClaimStart, Apart, Goto, disk, history
<1>7. Account(p)'
  BY <1>1, <1>3, <1>4 DEF Account, Shape, Active, Steps, Working, Booked, Held, Owed, Holders, PlanRecord, JobRecord, NoEntry
<1>8. QED BY <1>1, <1>2, <1>6, <1>7, AccountFrame

\* NoCredentials keeps the account of its plan.
LEMMA NoCredentialsAccount ==
  ASSUME IInv, NEW p \in Plans, NoCredentials(p)
  PROVE  IInv'
<1>1. /\ job \in [Plans -> JobRecord] /\ job[p] \in JobRecord
      /\ plan \in [Plans -> PlanRecord] /\ plan[p] \in PlanRecord
      /\ billed \in [Plans -> Nat] /\ charged \in [Plans -> Nat]
      /\ \A m \in Months : entry[m][p] \in Nat \cup {NoEntry}
      /\ Shape(p) /\ Account(p) /\ TypeOK /\ TypeInv
  BY DEF IInv, TypeInv, TypeOK
<1>2. TypeInv'
  BY <1>1, NoCredentialsType
<1>3. /\ job[p].pc = "select"
      /\ job'[p].pc = "failing"
      /\ job'[p].spent = job[p].spent
      /\ job'[p].month = job[p].month
      /\ job'[p].target = job[p].target
      /\ plan' = plan
      /\ billed' = billed
  BY <1>1 DEF NoCredentials, JobRecord, PlanRecord, Goto, disk, history, NoJob, NewPlan
<1>4. charged' = charged /\ entry' = entry
  BY DEF NoCredentials, disk, history
<1>6. Apart(p)
  BY <1>1, <1>4 DEF NoCredentials, Apart, Goto, disk, history
<1>7. Account(p)'
  BY <1>1, <1>3, <1>4 DEF Account, Shape, Active, Steps, Working, Booked, Held, Owed, Holders, PlanRecord, JobRecord
<1>8. QED BY <1>1, <1>2, <1>6, <1>7, AccountFrame

\* SelectClips keeps the account of its plan.
LEMMA SelectClipsAccount ==
  ASSUME IInv, NEW p \in Plans, SelectClips(p)
  PROVE  IInv'
<1>1. /\ job \in [Plans -> JobRecord] /\ job[p] \in JobRecord
      /\ plan \in [Plans -> PlanRecord] /\ plan[p] \in PlanRecord
      /\ billed \in [Plans -> Nat] /\ charged \in [Plans -> Nat]
      /\ \A m \in Months : entry[m][p] \in Nat \cup {NoEntry}
      /\ Shape(p) /\ Account(p) /\ TypeOK /\ TypeInv
  BY DEF IInv, TypeInv, TypeOK
<1>2. TypeInv'
  BY <1>1, SelectClipsType
<1>3. /\ job[p].pc = "select"
      /\ job'[p].pc = "next"
      /\ job'[p].spent = job[p].spent
      /\ job'[p].month = job[p].month
      /\ job'[p].target = job[p].target
      /\ plan' = plan
      /\ billed' = billed
  BY <1>1 DEF SelectClips, JobRecord, PlanRecord, Goto, disk, history, NoJob, NewPlan
<1>4. charged' = charged /\ entry' = entry
  BY DEF SelectClips, disk, history
<1>6. Apart(p)
  BY <1>1, <1>4 DEF SelectClips, Apart, Goto, disk, history
<1>7. Account(p)'
  BY <1>1, <1>3, <1>4 DEF Account, Shape, Active, Steps, Working, Booked, Held, Owed, Holders, PlanRecord, JobRecord
<1>8. QED BY <1>1, <1>2, <1>6, <1>7, AccountFrame

\* SameMonth keeps the account of its plan.
LEMMA SameMonthAccount ==
  ASSUME IInv, NEW p \in Plans, NEW c \in Clips, SameMonth(p, c)
  PROVE  IInv'
<1>1. /\ job \in [Plans -> JobRecord] /\ job[p] \in JobRecord
      /\ plan \in [Plans -> PlanRecord] /\ plan[p] \in PlanRecord
      /\ billed \in [Plans -> Nat] /\ charged \in [Plans -> Nat]
      /\ \A m \in Months : entry[m][p] \in Nat \cup {NoEntry}
      /\ Shape(p) /\ Account(p) /\ TypeOK /\ TypeInv
  BY DEF IInv, TypeInv, TypeOK
<1>2. TypeInv'
  BY <1>1, SameMonthType
<1>3. /\ job[p].pc = "next"
      /\ job'[p].pc = "call"
      /\ job'[p].spent = job[p].spent
      /\ job'[p].month = job[p].month
      /\ job'[p].target = NoMonth
      /\ plan' = plan
      /\ billed' = billed
  BY <1>1 DEF SameMonth, Take, JobRecord, PlanRecord, Goto, disk, history, NoJob, NewPlan
<1>4. charged' = charged /\ entry' = entry
  BY DEF SameMonth, Take, disk, history
<1>6. Apart(p)
  BY <1>1, <1>4 DEF SameMonth, Take, Apart, Goto, disk, history
<1>7. Account(p)'
  BY <1>1, <1>3, <1>4 DEF Account, Shape, Active, Steps, Working, Booked, Held, Owed, Holders, PlanRecord, JobRecord
<1>8. QED BY <1>1, <1>2, <1>6, <1>7, AccountFrame

\* MoveIn keeps the account of its plan.
LEMMA MoveInAccount ==
  ASSUME IInv, NEW p \in Plans, NEW c \in Clips, MoveIn(p, c)
  PROVE  IInv'
<1>1. /\ job \in [Plans -> JobRecord] /\ job[p] \in JobRecord
      /\ plan \in [Plans -> PlanRecord] /\ plan[p] \in PlanRecord
      /\ billed \in [Plans -> Nat] /\ charged \in [Plans -> Nat]
      /\ \A m \in Months : entry[m][p] \in Nat \cup {NoEntry}
      /\ Shape(p) /\ Account(p) /\ TypeOK /\ TypeInv
  BY DEF IInv, TypeInv, TypeOK
<1>2. TypeInv'
  BY <1>1, MoveInType
<1>3. /\ job[p].pc = "next"
      /\ job'[p].pc = "moved"
      /\ job'[p].spent = job[p].spent
      /\ job'[p].month = job[p].month
      /\ job'[p].target = now
      /\ plan' = plan
      /\ billed' = billed
  BY <1>1 DEF MoveIn, Take, JobRecord, PlanRecord, Goto, disk, history, NoJob, NewPlan
<1>4. now \in Months /\ WriteLedger(now, p, 0, Remaining(p))
  BY <1>1 DEF MoveIn, Take, Shape, Active, Steps, TypeOK, PlanRecord, Owed, Holders
<1>5. /\ charged'[p] = charged[p] + 0
      /\ entry'[now][p] = Remaining(p)
      /\ \A k \in Months \ {now} : entry'[k][p] = entry[k][p]
      /\ \A q \in Plans \ {p} :
           charged'[q] = charged[q] /\ \A k \in Months : entry'[k][q] = entry[k][q]
  BY <1>1, <1>4, LedgerEffect
<1>6. Apart(p)
  BY <1>1, <1>4, <1>5 DEF MoveIn, Take, Apart, Goto, disk, history
<1>7. Account(p)'
  <2>1. plan[p].month # now /\ Held(p, plan[p].month) /\ now \in Months
    BY <1>1, <1>3, <1>4 DEF MoveIn, Account, Working
  <2>2. /\ Reserved(plan[p].month, p) = entry[plan[p].month][p]
        /\ entry[plan[p].month][p] \in Nat
    BY <1>1, <2>1 DEF Reserved, Held
  <2>3. /\ Remaining(p) \in Nat
        /\ Remaining(p) >= entry[plan[p].month][p]
    <3>1. Reserved(now, p) \in Nat /\ plan[p].chars - plan[p].spent \in Int
      BY <1>1, <2>1, ReservedNat DEF PlanRecord
    <3>2. QED BY <2>2, <3>1 DEF Remaining, Larger
  <2>4. charged'[p] = charged[p] /\ charged[p] \in Nat /\ plan[p].chars \in Nat
    BY <1>1, <1>5 DEF PlanRecord
  <2>5. ASSUME NEW m \in Months, m = now \/ m = plan[p].month PROVE Held(p, m)'
    <3>1. /\ entry'[m][p] >= entry[plan[p].month][p]
          /\ entry'[m][p] \in Nat
      BY <1>5, <2>1, <2>2, <2>3, <2>5 DEF Held
    <3>2. charged[p] + entry[plan[p].month][p] >= plan[p].chars
      BY <2>1 DEF Held
    <3>3. charged'[p] + entry'[m][p] >= plan[p].chars
      BY <2>2, <2>4, <3>1, <3>2
    <3>4. QED BY <1>3, <3>1, <3>3 DEF Held, NoEntry
  <2>6. /\ plan[p].month \in Months
        /\ billed[p] = plan[p].spent /\ billed[p] = job[p].spent
        /\ plan[p].status = "running" /\ plan[p].spent <= charged[p]
    BY <1>1, <1>3, <2>1 DEF Account, Working, Held, Shape, Active, Steps
  <2>7. QED
    BY <1>1, <1>3, <2>1, <2>4, <2>5, <2>6 DEF Account, Shape, Active, Steps, Working, Booked, Owed, Holders, PlanRecord, JobRecord
<1>8. QED BY <1>1, <1>2, <1>6, <1>7, AccountFrame

\* MoveOut keeps the account of its plan.
LEMMA MoveOutAccount ==
  ASSUME IInv, NEW p \in Plans, MoveOut(p)
  PROVE  IInv'
<1>1. /\ job \in [Plans -> JobRecord] /\ job[p] \in JobRecord
      /\ plan \in [Plans -> PlanRecord] /\ plan[p] \in PlanRecord
      /\ billed \in [Plans -> Nat] /\ charged \in [Plans -> Nat]
      /\ \A m \in Months : entry[m][p] \in Nat \cup {NoEntry}
      /\ Shape(p) /\ Account(p) /\ TypeOK /\ TypeInv
  BY DEF IInv, TypeInv, TypeOK
<1>2. TypeInv'
  BY <1>1, MoveOutType
<1>3. /\ job[p].pc = "moved"
      /\ job'[p].pc = "moving"
      /\ job'[p].spent = job[p].spent
      /\ job'[p].month = job[p].month
      /\ job'[p].target = job[p].target
      /\ plan' = plan
      /\ billed' = billed
  BY <1>1 DEF MoveOut, JobRecord, PlanRecord, Goto, disk, history, NoJob, NewPlan
<1>4. plan[p].month \in Months /\ WriteLedger(plan[p].month, p, 0, NoEntry)
  BY <1>1 DEF MoveOut, Shape, Active, Steps, TypeOK, PlanRecord, Owed, Holders
<1>5. /\ charged'[p] = charged[p] + 0
      /\ entry'[plan[p].month][p] = NoEntry
      /\ \A k \in Months \ {plan[p].month} : entry'[k][p] = entry[k][p]
      /\ \A q \in Plans \ {p} :
           charged'[q] = charged[q] /\ \A k \in Months : entry'[k][q] = entry[k][q]
  BY <1>1, <1>4, LedgerEffect
<1>6. Apart(p)
  BY <1>1, <1>4, <1>5 DEF MoveOut, Apart, Goto, disk, history
<1>7. Account(p)'
  BY <1>1, <1>3, <1>4, <1>5 DEF Account, Shape, Active, Steps, Working, Booked, Held, Owed, Holders, PlanRecord, JobRecord
<1>8. QED BY <1>1, <1>2, <1>6, <1>7, AccountFrame

\* MovePlan keeps the account of its plan.
LEMMA MovePlanAccount ==
  ASSUME IInv, NEW p \in Plans, MovePlan(p)
  PROVE  IInv'
<1>1. /\ job \in [Plans -> JobRecord] /\ job[p] \in JobRecord
      /\ plan \in [Plans -> PlanRecord] /\ plan[p] \in PlanRecord
      /\ billed \in [Plans -> Nat] /\ charged \in [Plans -> Nat]
      /\ \A m \in Months : entry[m][p] \in Nat \cup {NoEntry}
      /\ Shape(p) /\ Account(p) /\ TypeOK /\ TypeInv
  BY DEF IInv, TypeInv, TypeOK
<1>2. TypeInv'
  BY <1>1, MovePlanType
<1>3. /\ job[p].pc = "moving"
      /\ job'[p].pc = "call"
      /\ job'[p].spent = job[p].spent
      /\ job'[p].month = job[p].target
      /\ job'[p].target = job[p].target
      /\ plan'[p].status = plan[p].status
      /\ plan'[p].chars = plan[p].chars
      /\ plan'[p].month = job[p].target
      /\ plan'[p].spent = plan[p].spent
      /\ plan'[p].recMonth = plan[p].recMonth
      /\ plan'[p].recReserved = plan[p].recReserved
      /\ billed' = billed
  BY <1>1 DEF MovePlan, JobRecord, PlanRecord, Goto, disk, history, NoJob, NewPlan
<1>4. charged' = charged /\ entry' = entry
  BY DEF MovePlan, disk, history
<1>6. Apart(p)
  BY <1>1, <1>4 DEF MovePlan, Apart, Goto, disk, history
<1>7. Account(p)'
  BY <1>1, <1>3, <1>4 DEF Account, Shape, Active, Steps, Working, Booked, Held, Owed, Holders, PlanRecord, JobRecord
<1>8. QED BY <1>1, <1>2, <1>6, <1>7, AccountFrame

\* MoveRefused keeps the account of its plan.
LEMMA MoveRefusedAccount ==
  ASSUME IInv, NEW p \in Plans, MoveRefused(p)
  PROVE  IInv'
<1>1. /\ job \in [Plans -> JobRecord] /\ job[p] \in JobRecord
      /\ plan \in [Plans -> PlanRecord] /\ plan[p] \in PlanRecord
      /\ billed \in [Plans -> Nat] /\ charged \in [Plans -> Nat]
      /\ \A m \in Months : entry[m][p] \in Nat \cup {NoEntry}
      /\ Shape(p) /\ Account(p) /\ TypeOK /\ TypeInv
  BY DEF IInv, TypeInv, TypeOK
<1>2. TypeInv'
  BY <1>1, MoveRefusedType
<1>3. /\ job[p].pc = "next"
      /\ job'[p].pc = "failing"
      /\ job'[p].spent = job[p].spent
      /\ job'[p].month = job[p].month
      /\ job'[p].target = job[p].target
      /\ plan' = plan
      /\ billed' = billed
  BY <1>1 DEF MoveRefused, JobRecord, PlanRecord, Goto, disk, history, NoJob, NewPlan
<1>4. charged' = charged /\ entry' = entry
  BY DEF MoveRefused, disk, history
<1>6. Apart(p)
  BY <1>1, <1>4 DEF MoveRefused, Apart, Goto, disk, history
<1>7. Account(p)'
  BY <1>1, <1>3, <1>4 DEF Account, Shape, Active, Steps, Working, Booked, Held, Owed, Holders, PlanRecord, JobRecord
<1>8. QED BY <1>1, <1>2, <1>6, <1>7, AccountFrame

\* ProviderAnswers keeps the account of its plan.
LEMMA ProviderAnswersAccount ==
  ASSUME IInv, NEW p \in Plans, ProviderAnswers(p)
  PROVE  IInv'
<1>1. /\ job \in [Plans -> JobRecord] /\ job[p] \in JobRecord
      /\ plan \in [Plans -> PlanRecord] /\ plan[p] \in PlanRecord
      /\ billed \in [Plans -> Nat] /\ charged \in [Plans -> Nat]
      /\ \A m \in Months : entry[m][p] \in Nat \cup {NoEntry}
      /\ Shape(p) /\ Account(p) /\ TypeOK /\ TypeInv
  BY DEF IInv, TypeInv, TypeOK
<1>2. TypeInv'
  BY <1>1, ProviderAnswersType
<1>3. /\ job[p].pc = "call"
      /\ job'[p].pc = "called"
      /\ job'[p].spent = job[p].spent + Characters[{job[p].clip}]
      /\ job'[p].month = job[p].month
      /\ job'[p].target = job[p].target
      /\ plan' = plan
      /\ billed'[p] = billed[p] + Characters[{job[p].clip}]
  BY <1>1 DEF ProviderAnswers, JobRecord, PlanRecord, Goto, disk, history, NoJob, NewPlan
<1>4. charged' = charged /\ entry' = entry
  BY DEF ProviderAnswers, disk, history
<1>6. Apart(p)
  BY <1>1, <1>4 DEF ProviderAnswers, Apart, Goto, disk, history
<1>7. Account(p)'
  <2>1. Characters[{job[p].clip}] \in Nat
    BY <1>1, <1>3, CharactersNat DEF Shape
  <2>2. /\ billed[p] = plan[p].spent /\ billed[p] = job[p].spent
        /\ plan[p].status = "running" /\ Held(p, plan[p].month)
        /\ plan[p].spent <= charged[p]
    BY <1>1, <1>3 DEF Account, Working, Shape, Active, Steps
  <2>3. Held(p, plan[p].month)'
    BY <1>3, <1>4, <2>2 DEF Held
  <2>4. /\ billed'[p] = job'[p].spent
        /\ plan[p].spent <= job'[p].spent
    BY <1>1, <1>3, <2>1, <2>2 DEF PlanRecord, JobRecord
  <2>5. QED
    BY <1>1, <1>3, <1>4, <2>2, <2>3, <2>4 DEF Account, Working
<1>8. QED BY <1>1, <1>2, <1>6, <1>7, AccountFrame

\* ProviderFails keeps the account of its plan.
LEMMA ProviderFailsAccount ==
  ASSUME IInv, NEW p \in Plans, ProviderFails(p)
  PROVE  IInv'
<1>1. /\ job \in [Plans -> JobRecord] /\ job[p] \in JobRecord
      /\ plan \in [Plans -> PlanRecord] /\ plan[p] \in PlanRecord
      /\ billed \in [Plans -> Nat] /\ charged \in [Plans -> Nat]
      /\ \A m \in Months : entry[m][p] \in Nat \cup {NoEntry}
      /\ Shape(p) /\ Account(p) /\ TypeOK /\ TypeInv
  BY DEF IInv, TypeInv, TypeOK
<1>2. TypeInv'
  BY <1>1, ProviderFailsType
<1>3. /\ job[p].pc = "call"
      /\ job'[p].pc = "failing"
      /\ job'[p].spent = job[p].spent
      /\ job'[p].month = job[p].month
      /\ job'[p].target = job[p].target
      /\ plan' = plan
      /\ billed' = billed
  BY <1>1 DEF ProviderFails, JobRecord, PlanRecord, Goto, disk, history, NoJob, NewPlan
<1>4. charged' = charged /\ entry' = entry
  BY DEF ProviderFails, disk, history
<1>6. Apart(p)
  BY <1>1, <1>4 DEF ProviderFails, Apart, Goto, disk, history
<1>7. Account(p)'
  BY <1>1, <1>3, <1>4 DEF Account, Shape, Active, Steps, Working, Booked, Held, Owed, Holders, PlanRecord, JobRecord
<1>8. QED BY <1>1, <1>2, <1>6, <1>7, AccountFrame

\* BookLedger keeps the account of its plan.
LEMMA BookLedgerAccount ==
  ASSUME IInv, NEW p \in Plans, BookLedger(p)
  PROVE  IInv'
<1>1. /\ job \in [Plans -> JobRecord] /\ job[p] \in JobRecord
      /\ plan \in [Plans -> PlanRecord] /\ plan[p] \in PlanRecord
      /\ billed \in [Plans -> Nat] /\ charged \in [Plans -> Nat]
      /\ \A m \in Months : entry[m][p] \in Nat \cup {NoEntry}
      /\ Shape(p) /\ Account(p) /\ TypeOK /\ TypeInv
  BY DEF IInv, TypeInv, TypeOK
<1>2. TypeInv'
  BY <1>1, BookLedgerType
<1>3. /\ job[p].pc = "called"
      /\ job'[p].pc = "charging"
      /\ job'[p].spent = job[p].spent
      /\ job'[p].month = job[p].month
      /\ job'[p].target = job[p].target
      /\ plan' = plan
      /\ billed' = billed
  BY <1>1 DEF BookLedger, JobRecord, PlanRecord, Goto, disk, history, NoJob, NewPlan
<1>4. plan[p].month \in Months /\ WriteLedger(plan[p].month, p, AtLeast0(job[p].spent - plan[p].spent), AtLeast0(Reserved(plan[p].month, p) - AtLeast0(job[p].spent - plan[p].spent)))
  BY <1>1 DEF BookLedger, Shape, Active, Steps, TypeOK, PlanRecord, Owed, Holders
<1>5. /\ charged'[p] = charged[p] + AtLeast0(job[p].spent - plan[p].spent)
      /\ entry'[plan[p].month][p] = AtLeast0(Reserved(plan[p].month, p) - AtLeast0(job[p].spent - plan[p].spent))
      /\ \A k \in Months \ {plan[p].month} : entry'[k][p] = entry[k][p]
      /\ \A q \in Plans \ {p} :
           charged'[q] = charged[q] /\ \A k \in Months : entry'[k][q] = entry[k][q]
  BY <1>1, <1>4, LedgerEffect
<1>6. Apart(p)
  BY <1>1, <1>4, <1>5 DEF BookLedger, Apart, Goto, disk, history
<1>7. Account(p)'
  <2> DEFINE held == entry[plan[p].month][p]
             delta == job[p].spent - plan[p].spent
  <2>1. /\ billed[p] = job[p].spent /\ plan[p].spent <= job[p].spent
        /\ plan[p].status = "running" /\ plan[p].spent <= charged[p]
        /\ Held(p, plan[p].month)
    BY <1>1, <1>3 DEF Account, Working, Shape, Active, Steps
  <2>2. held \in Nat /\ Reserved(plan[p].month, p) = held
    BY <1>1, <2>1 DEF Held, Reserved
  <2>3. delta \in Nat /\ AtLeast0(delta) = delta
    BY <1>1, <2>1 DEF AtLeast0, PlanRecord, JobRecord
  <2>4. /\ charged'[p] = charged[p] + delta
        /\ entry'[plan[p].month][p] = AtLeast0(held - delta)
    BY <1>5, <2>2, <2>3
  <2>5. /\ AtLeast0(held - delta) \in Nat
        /\ AtLeast0(held - delta) >= held - delta
    BY <2>2, <2>3 DEF AtLeast0
  <2>6. billed[p] <= charged'[p] /\ plan[p].spent <= charged'[p]
    BY <1>1, <2>1, <2>4 DEF PlanRecord, JobRecord
  <2>7. Held(p, plan[p].month)'
    <3> HIDE DEF held, delta
    <3>1. charged[p] + held >= plan[p].chars
      BY <2>1 DEF Held, held
    <3>2. charged'[p] + entry'[plan[p].month][p] >= plan[p].chars
      BY <1>1, <2>2, <2>3, <2>4, <2>5, <3>1 DEF PlanRecord
    <3>3. QED BY <1>3, <1>4, <2>4, <2>5, <3>2 DEF Held, NoEntry
  <2>8. QED
    BY <1>1, <1>3, <2>1, <2>6, <2>7 DEF Account, Working, Booked
<1>8. QED BY <1>1, <1>2, <1>6, <1>7, AccountFrame

\* BookPlan keeps the account of its plan.
LEMMA BookPlanAccount ==
  ASSUME IInv, NEW p \in Plans, BookPlan(p)
  PROVE  IInv'
<1>1. /\ job \in [Plans -> JobRecord] /\ job[p] \in JobRecord
      /\ plan \in [Plans -> PlanRecord] /\ plan[p] \in PlanRecord
      /\ billed \in [Plans -> Nat] /\ charged \in [Plans -> Nat]
      /\ \A m \in Months : entry[m][p] \in Nat \cup {NoEntry}
      /\ Shape(p) /\ Account(p) /\ TypeOK /\ TypeInv
  BY DEF IInv, TypeInv, TypeOK
<1>2. TypeInv'
  BY <1>1, BookPlanType
<1>3. /\ job[p].pc = "charging"
      /\ job'[p].pc = "asset"
      /\ job'[p].spent = job[p].spent
      /\ job'[p].month = job[p].month
      /\ job'[p].target = job[p].target
      /\ plan'[p].status = plan[p].status
      /\ plan'[p].chars = plan[p].chars
      /\ plan'[p].month = plan[p].month
      /\ plan'[p].spent = job[p].spent
      /\ plan'[p].recMonth = plan[p].recMonth
      /\ plan'[p].recReserved = plan[p].recReserved
      /\ billed' = billed
  BY <1>1 DEF BookPlan, JobRecord, PlanRecord, Goto, disk, history, NoJob, NewPlan
<1>4. charged' = charged /\ entry' = entry
  BY DEF BookPlan, disk, history
<1>6. Apart(p)
  BY <1>1, <1>4 DEF BookPlan, Apart, Goto, disk, history
<1>7. Account(p)'
  BY <1>1, <1>3, <1>4 DEF Account, Shape, Active, Steps, Working, Booked, Held, Owed, Holders, PlanRecord, JobRecord
<1>8. QED BY <1>1, <1>2, <1>6, <1>7, AccountFrame

\* StoreAsset keeps the account of its plan.
LEMMA StoreAssetAccount ==
  ASSUME IInv, NEW p \in Plans, StoreAsset(p)
  PROVE  IInv'
<1>1. /\ job \in [Plans -> JobRecord] /\ job[p] \in JobRecord
      /\ plan \in [Plans -> PlanRecord] /\ plan[p] \in PlanRecord
      /\ billed \in [Plans -> Nat] /\ charged \in [Plans -> Nat]
      /\ \A m \in Months : entry[m][p] \in Nat \cup {NoEntry}
      /\ Shape(p) /\ Account(p) /\ TypeOK /\ TypeInv
  BY DEF IInv, TypeInv, TypeOK
<1>2. TypeInv'
  BY <1>1, StoreAssetType
<1>3. /\ job[p].pc = "asset"
      /\ job'[p].pc = "next"
      /\ job'[p].spent = job[p].spent
      /\ job'[p].month = job[p].month
      /\ job'[p].target = job[p].target
      /\ plan' = plan
      /\ billed' = billed
  BY <1>1 DEF StoreAsset, JobRecord, PlanRecord, Goto, disk, history, NoJob, NewPlan
<1>4. charged' = charged /\ entry' = entry
  BY DEF StoreAsset, disk, history
<1>6. Apart(p)
  BY <1>1, <1>4 DEF StoreAsset, Apart, Goto, disk, history
<1>7. Account(p)'
  BY <1>1, <1>3, <1>4 DEF Account, Shape, Active, Steps, Working, Booked, Held, Owed, Holders, PlanRecord, JobRecord
<1>8. QED BY <1>1, <1>2, <1>6, <1>7, AccountFrame

\* FinishLedger keeps the account of its plan.
LEMMA FinishLedgerAccount ==
  ASSUME IInv, NEW p \in Plans, FinishLedger(p)
  PROVE  IInv'
<1>1. /\ job \in [Plans -> JobRecord] /\ job[p] \in JobRecord
      /\ plan \in [Plans -> PlanRecord] /\ plan[p] \in PlanRecord
      /\ billed \in [Plans -> Nat] /\ charged \in [Plans -> Nat]
      /\ \A m \in Months : entry[m][p] \in Nat \cup {NoEntry}
      /\ Shape(p) /\ Account(p) /\ TypeOK /\ TypeInv
  BY DEF IInv, TypeInv, TypeOK
<1>2. TypeInv'
  BY <1>1, FinishLedgerType
<1>3. /\ job[p].pc = "next"
      /\ job'[p].pc = "finishing"
      /\ job'[p].spent = 0
      /\ job'[p].month = job[p].month
      /\ job'[p].target = job[p].target
      /\ plan' = plan
      /\ billed' = billed
  BY <1>1 DEF FinishLedger, JobRecord, PlanRecord, Goto, disk, history, NoJob, NewPlan
<1>4. job[p].month \in Months /\ WriteLedger(job[p].month, p, 0, NoEntry)
  BY <1>1 DEF FinishLedger, Shape, Active, Steps, TypeOK, PlanRecord, Owed, Holders
<1>5. /\ charged'[p] = charged[p] + 0
      /\ entry'[job[p].month][p] = NoEntry
      /\ \A k \in Months \ {job[p].month} : entry'[k][p] = entry[k][p]
      /\ \A q \in Plans \ {p} :
           charged'[q] = charged[q] /\ \A k \in Months : entry'[k][q] = entry[k][q]
  BY <1>1, <1>4, LedgerEffect
<1>6. Apart(p)
  BY <1>1, <1>4, <1>5 DEF FinishLedger, Apart, Goto, disk, history
<1>7. Account(p)'
  BY <1>1, <1>3, <1>4, <1>5 DEF Account, Shape, Active, Steps, Working, Booked, Held, Owed, Holders, PlanRecord, JobRecord
<1>8. QED BY <1>1, <1>2, <1>6, <1>7, AccountFrame

\* FinishPlan keeps the account of its plan.
LEMMA FinishPlanAccount ==
  ASSUME IInv, NEW p \in Plans, FinishPlan(p)
  PROVE  IInv'
<1>1. /\ job \in [Plans -> JobRecord] /\ job[p] \in JobRecord
      /\ plan \in [Plans -> PlanRecord] /\ plan[p] \in PlanRecord
      /\ billed \in [Plans -> Nat] /\ charged \in [Plans -> Nat]
      /\ \A m \in Months : entry[m][p] \in Nat \cup {NoEntry}
      /\ Shape(p) /\ Account(p) /\ TypeOK /\ TypeInv
  BY DEF IInv, TypeInv, TypeOK
<1>2. TypeInv'
  BY <1>1, FinishPlanType
<1>3. /\ job[p].pc = "finishing"
      /\ job'[p].pc = "idle"
      /\ job'[p].spent = 0
      /\ job'[p].month = NoMonth
      /\ job'[p].target = NoMonth
      /\ plan'[p].status = "completed"
      /\ plan'[p].chars = plan[p].chars
      /\ plan'[p].month = plan[p].month
      /\ plan'[p].spent = 0
      /\ plan'[p].recMonth = plan[p].recMonth
      /\ plan'[p].recReserved = plan[p].recReserved
      /\ billed' = billed
  BY <1>1 DEF FinishPlan, JobRecord, PlanRecord, Goto, disk, history, NoJob, NewPlan
<1>4. charged' = charged /\ entry' = entry
  BY DEF FinishPlan, disk, history
<1>6. Apart(p)
  BY <1>1, <1>4 DEF FinishPlan, Apart, Goto, disk, history
<1>7. Account(p)'
  BY <1>1, <1>3, <1>4 DEF Account, Shape, Active, Steps, Working, Booked, Held, Owed, Holders, PlanRecord, JobRecord
<1>8. QED BY <1>1, <1>2, <1>6, <1>7, AccountFrame

\* FailLedger keeps the account of its plan.
LEMMA FailLedgerAccount ==
  ASSUME IInv, NEW p \in Plans, FailLedger(p)
  PROVE  IInv'
<1>1. /\ job \in [Plans -> JobRecord] /\ job[p] \in JobRecord
      /\ plan \in [Plans -> PlanRecord] /\ plan[p] \in PlanRecord
      /\ billed \in [Plans -> Nat] /\ charged \in [Plans -> Nat]
      /\ \A m \in Months : entry[m][p] \in Nat \cup {NoEntry}
      /\ Shape(p) /\ Account(p) /\ TypeOK /\ TypeInv
  BY DEF IInv, TypeInv, TypeOK
<1>2. TypeInv'
  BY <1>1, FailLedgerType
<1>3. /\ job[p].pc = "failing"
      /\ job'[p].pc = "failed"
      /\ job'[p].spent = Larger(job[p].spent, plan[p].spent)
      /\ job'[p].month = job[p].month
      /\ job'[p].target = job[p].target
      /\ plan' = plan
      /\ billed' = billed
  BY <1>1 DEF FailLedger, JobRecord, PlanRecord, Goto, disk, history, NoJob, NewPlan
<1>4. plan[p].month \in Months /\ WriteLedger(plan[p].month, p, AtLeast0(Larger(job[p].spent, plan[p].spent) - Larger(plan[p].spent, plan[p].chars - Reserved(plan[p].month, p))), NoEntry)
  BY <1>1 DEF FailLedger, Shape, Active, Steps, TypeOK, PlanRecord, Owed, Holders
<1>5. /\ charged'[p] = charged[p] + AtLeast0(Larger(job[p].spent, plan[p].spent) - Larger(plan[p].spent, plan[p].chars - Reserved(plan[p].month, p)))
      /\ entry'[plan[p].month][p] = NoEntry
      /\ \A k \in Months \ {plan[p].month} : entry'[k][p] = entry[k][p]
      /\ \A q \in Plans \ {p} :
           charged'[q] = charged[q] /\ \A k \in Months : entry'[k][q] = entry[k][q]
  BY <1>1, <1>4, LedgerEffect
<1>6. Apart(p)
  BY <1>1, <1>4, <1>5 DEF FailLedger, Apart, Goto, disk, history
<1>7. Account(p)'
  <2> DEFINE res == Reserved(plan[p].month, p)
             total == Larger(job[p].spent, plan[p].spent)
             committed == Larger(plan[p].spent, plan[p].chars - res)
  <2>1. /\ billed[p] <= job[p].spent \/ billed[p] <= plan[p].spent
        /\ plan[p].status = "running" /\ plan[p].spent <= charged[p]
        /\ billed[p] <= charged[p] \/ Held(p, plan[p].month)
    BY <1>1, <1>3 DEF Account, Shape, Active, Steps, Booked
  <2>2. res \in Nat
    BY <1>1, <1>4, ReservedNat
  <2>3. total \in Nat /\ billed[p] <= total
    BY <1>1, <2>1 DEF Larger, PlanRecord, JobRecord
  <2>4. committed \in Nat
    BY <1>1, <2>2 DEF Larger, PlanRecord
  <2>5. charged'[p] = charged[p] + AtLeast0(total - committed)
    BY <1>5
  <2>6. billed[p] <= charged'[p]
    <3>1. CASE billed[p] <= charged[p]
      <4> HIDE DEF total, committed
      <4>1. AtLeast0(total - committed) \in Nat
        BY <2>3, <2>4 DEF AtLeast0
      <4>2. QED BY <1>1, <2>5, <3>1, <4>1
    <3>2. CASE Held(p, plan[p].month)
      <4>1. res = entry[plan[p].month][p] /\ charged[p] + res >= plan[p].chars
        BY <3>2 DEF Held, Reserved
      <4>2. committed <= charged[p]
        <5> HIDE DEF res
        <5>1. QED BY <1>1, <2>1, <2>2, <4>1 DEF Larger, PlanRecord
      <4>3. QED
        <5> HIDE DEF total, committed
        <5>1. AtLeast0(total - committed) >= total - committed
              /\ AtLeast0(total - committed) \in Nat
          BY <2>3, <2>4 DEF AtLeast0
        <5>2. QED BY <1>1, <2>3, <2>4, <2>5, <4>2, <5>1
    <3>3. QED BY <2>1, <3>1, <3>2
  <2>7. plan[p].spent <= charged'[p]
    <3> HIDE DEF total, committed
    <3>1. AtLeast0(total - committed) \in Nat
      BY <2>3, <2>4 DEF AtLeast0
    <3>2. QED BY <1>1, <2>1, <2>5, <3>1 DEF PlanRecord
  <2>8. QED
    BY <1>1, <1>3, <2>1, <2>6, <2>7 DEF Account, Working, Booked
<1>8. QED BY <1>1, <1>2, <1>6, <1>7, AccountFrame

\* FailPlan keeps the account of its plan.
LEMMA FailPlanAccount ==
  ASSUME IInv, NEW p \in Plans, FailPlan(p)
  PROVE  IInv'
<1>1. /\ job \in [Plans -> JobRecord] /\ job[p] \in JobRecord
      /\ plan \in [Plans -> PlanRecord] /\ plan[p] \in PlanRecord
      /\ billed \in [Plans -> Nat] /\ charged \in [Plans -> Nat]
      /\ \A m \in Months : entry[m][p] \in Nat \cup {NoEntry}
      /\ Shape(p) /\ Account(p) /\ TypeOK /\ TypeInv
  BY DEF IInv, TypeInv, TypeOK
<1>2. TypeInv'
  BY <1>1, FailPlanType
<1>3. /\ job[p].pc = "failed"
      /\ job'[p].pc = "idle"
      /\ job'[p].spent = 0
      /\ job'[p].month = NoMonth
      /\ job'[p].target = NoMonth
      /\ plan'[p].status = "failed"
      /\ plan'[p].chars = plan[p].chars
      /\ plan'[p].month = plan[p].month
      /\ plan'[p].spent = job[p].spent
      /\ plan'[p].recMonth = plan[p].recMonth
      /\ plan'[p].recReserved = plan[p].recReserved
      /\ billed' = billed
  BY <1>1 DEF FailPlan, JobRecord, PlanRecord, Goto, disk, history, NoJob, NewPlan
<1>4. charged' = charged /\ entry' = entry
  BY DEF FailPlan, disk, history
<1>6. Apart(p)
  BY <1>1, <1>4 DEF FailPlan, Apart, Goto, disk, history
<1>7. Account(p)'
  BY <1>1, <1>3, <1>4 DEF Account, Shape, Active, Steps, Working, Booked, Held, Owed, Holders, PlanRecord, JobRecord
<1>8. QED BY <1>1, <1>2, <1>6, <1>7, AccountFrame

\* ClaimReserve keeps the account of its plan.
LEMMA ClaimReserveAccount ==
  ASSUME IInv, NEW p \in Plans, ClaimReserve(p)
  PROVE  IInv'
<1>1. /\ job \in [Plans -> JobRecord] /\ job[p] \in JobRecord
      /\ plan \in [Plans -> PlanRecord] /\ plan[p] \in PlanRecord
      /\ billed \in [Plans -> Nat] /\ charged \in [Plans -> Nat]
      /\ \A m \in Months : entry[m][p] \in Nat \cup {NoEntry}
      /\ Shape(p) /\ Account(p) /\ TypeOK /\ TypeInv
  BY DEF IInv, TypeInv, TypeOK
<1>2. TypeInv'
  BY <1>1, ClaimReserveType
<1>3. /\ plan[p].status = "pending"
      /\ job'[p].pc = "claimed"
      /\ job'[p].spent = 0
      /\ job'[p].month = now
      /\ job'[p].target = NoMonth
      /\ plan' = plan
      /\ billed' = billed
  BY <1>1 DEF ClaimReserve, JobRecord, PlanRecord, Goto, disk, history, NoJob, NewPlan
<1>4. now \in Months /\ WriteLedger(now, p, 0, plan[p].chars)
  BY <1>1 DEF ClaimReserve, Shape, Active, Steps, TypeOK, PlanRecord, Owed, Holders
<1>5. /\ charged'[p] = charged[p] + 0
      /\ entry'[now][p] = plan[p].chars
      /\ \A k \in Months \ {now} : entry'[k][p] = entry[k][p]
      /\ \A q \in Plans \ {p} :
           charged'[q] = charged[q] /\ \A k \in Months : entry'[k][q] = entry[k][q]
  BY <1>1, <1>4, LedgerEffect
<1>6. Apart(p)
  BY <1>1, <1>4, <1>5 DEF ClaimReserve, Apart, Goto, disk, history
<1>7. Account(p)'
  BY <1>1, <1>3, <1>4, <1>5 DEF Account, Shape, Active, Steps, Working, Booked, Held, Owed, Holders, PlanRecord, JobRecord
<1>8. QED BY <1>1, <1>2, <1>6, <1>7, AccountFrame

\* RecoverCharge keeps the account of its plan.
LEMMA RecoverChargeAccount ==
  ASSUME IInv, NEW p \in Plans, RecoverCharge(p)
  PROVE  IInv'
<1>1. /\ job \in [Plans -> JobRecord] /\ job[p] \in JobRecord
      /\ plan \in [Plans -> PlanRecord] /\ plan[p] \in PlanRecord
      /\ billed \in [Plans -> Nat] /\ charged \in [Plans -> Nat]
      /\ \A m \in Months : entry[m][p] \in Nat \cup {NoEntry}
      /\ Shape(p) /\ Account(p) /\ TypeOK /\ TypeInv
  BY DEF IInv, TypeInv, TypeOK
<1>2. TypeInv'
  BY <1>1, RecoverChargeType
<1>3. /\ p \in left /\ job[p].pc = "idle" /\ Owed(p)
      /\ job' = job
      /\ plan' = plan
      /\ billed' = billed
  BY <1>1 DEF RecoverCharge, JobRecord, PlanRecord, Goto, disk, history, NoJob, NewPlan, Shape
<1>4. plan[p].recMonth \in Months /\ WriteLedger(plan[p].recMonth, p, plan[p].recReserved, NoEntry)
  BY <1>1 DEF RecoverCharge, Shape, Active, Steps, TypeOK, PlanRecord, Owed, Holders
<1>5. /\ charged'[p] = charged[p] + plan[p].recReserved
      /\ entry'[plan[p].recMonth][p] = NoEntry
      /\ \A k \in Months \ {plan[p].recMonth} : entry'[k][p] = entry[k][p]
      /\ \A q \in Plans \ {p} :
           charged'[q] = charged[q] /\ \A k \in Months : entry'[k][q] = entry[k][q]
  BY <1>1, <1>4, LedgerEffect
<1>6. Apart(p)
  BY <1>1, <1>4, <1>5 DEF RecoverCharge, Apart, Goto, disk, history
<1>7. Account(p)'
  BY <1>1, <1>3, <1>4, <1>5 DEF Account, Shape, Active, Steps, Working, Booked, Held, Owed, Holders, PlanRecord, JobRecord
<1>8. QED BY <1>1, <1>2, <1>6, <1>7, AccountFrame

\* RecoverRelease keeps the account of its plan.
LEMMA RecoverReleaseAccount ==
  ASSUME IInv, NEW p \in Plans, NEW m \in Months, RecoverRelease(p, m)
  PROVE  IInv'
<1>1. /\ job \in [Plans -> JobRecord] /\ job[p] \in JobRecord
      /\ plan \in [Plans -> PlanRecord] /\ plan[p] \in PlanRecord
      /\ billed \in [Plans -> Nat] /\ charged \in [Plans -> Nat]
      /\ \A k \in Months : entry[k][p] \in Nat \cup {NoEntry}
      /\ Shape(p) /\ Account(p) /\ TypeOK /\ TypeInv
  BY DEF IInv, TypeInv, TypeOK
<1>2. TypeInv'
  BY <1>1, RecoverReleaseType
<1>3. /\ p \in left /\ job[p].pc = "idle" /\ ~Owed(p) /\ plan[p].status # "running" /\ m \in Holders(p)
      /\ job' = job
      /\ plan' = plan
      /\ billed' = billed
  BY <1>1 DEF RecoverRelease, JobRecord, PlanRecord, Goto, disk, history, NoJob, NewPlan, Shape
<1>4. m \in Months /\ WriteLedger(m, p, 0, NoEntry)
  BY <1>1 DEF RecoverRelease, Shape, Active, Steps, TypeOK, PlanRecord, Owed, Holders
<1>5. /\ charged'[p] = charged[p] + 0
      /\ entry'[m][p] = NoEntry
      /\ \A k \in Months \ {m} : entry'[k][p] = entry[k][p]
      /\ \A q \in Plans \ {p} :
           charged'[q] = charged[q] /\ \A k \in Months : entry'[k][q] = entry[k][q]
  BY <1>1, <1>4, LedgerEffect
<1>6. Apart(p)
  BY <1>1, <1>4, <1>5 DEF RecoverRelease, Apart, Goto, disk, history
<1>7. Account(p)'
  BY <1>1, <1>3, <1>4, <1>5 DEF Account, Shape, Active, Steps, Working, Booked, Held, Owed, Holders, PlanRecord, JobRecord
<1>8. QED BY <1>1, <1>2, <1>6, <1>7, AccountFrame

\* RecoverNext keeps the account of its plan.
LEMMA RecoverNextAccount ==
  ASSUME IInv, NEW p \in Plans, RecoverNext(p)
  PROVE  IInv'
<1>1. /\ job \in [Plans -> JobRecord] /\ job[p] \in JobRecord
      /\ plan \in [Plans -> PlanRecord] /\ plan[p] \in PlanRecord
      /\ billed \in [Plans -> Nat] /\ charged \in [Plans -> Nat]
      /\ \A m \in Months : entry[m][p] \in Nat \cup {NoEntry}
      /\ Shape(p) /\ Account(p) /\ TypeOK /\ TypeInv
  BY DEF IInv, TypeInv, TypeOK
<1>2. TypeInv'
  BY <1>1, RecoverNextType
<1>3. /\ p \in left
      /\ job' = job
      /\ plan' = plan
      /\ billed' = billed
  BY <1>1 DEF RecoverNext, JobRecord, PlanRecord, Goto, disk, history, NoJob, NewPlan
<1>4. charged' = charged /\ entry' = entry
  BY DEF RecoverNext, disk, history
<1>6. Apart(p)
  BY <1>1, <1>4 DEF RecoverNext, Apart, Goto, disk, history
<1>7. Account(p)'
  BY <1>1, <1>3, <1>4 DEF Account, Shape, Active, Steps, Working, Booked, Held, Owed, Holders, PlanRecord, JobRecord
<1>8. QED BY <1>1, <1>2, <1>6, <1>7, AccountFrame

\* PlanAudio keeps the account of its plan.
LEMMA PlanAudioAccount ==
  ASSUME IInv, NEW p \in Plans, PlanAudio(p)
  PROVE  IInv'
<1>1. /\ plan \in [Plans -> PlanRecord] /\ Account(p) /\ Shape(p) /\ TypeInv
      /\ plan[p].status = "none"
  BY DEF IInv, TypeInv, TypeOK, PlanAudio
<1>2. TypeInv'
  BY <1>1, PlanAudioType
<1>3. /\ plan'[p].status = "pending" /\ plan'[p].spent = 0 /\ plan'[p].recMonth = NoMonth
      /\ job' = job /\ billed' = billed /\ charged' = charged /\ entry' = entry
  BY <1>1 DEF PlanAudio, NewPlan, history
<1>4. Apart(p)
  BY <1>1, <1>3 DEF Apart, PlanAudio
<1>5. Account(p)'
  BY <1>1, <1>3 DEF Account, Shape, Active, Steps, Working
<1>6. QED BY <1>2, <1>4, <1>5, AccountFrame

\* WriteRaises keeps the account of its plan.
LEMMA WriteRaisesAccount ==
  ASSUME IInv, NEW p \in Plans, WriteRaises(p)
  PROVE  IInv'
<1>1. /\ job \in [Plans -> JobRecord] /\ job[p] \in JobRecord
      /\ plan[p] \in PlanRecord /\ billed[p] \in Nat
      /\ Account(p) /\ Shape(p) /\ TypeInv
  BY DEF IInv, TypeInv, TypeOK
<1>2. TypeInv'
  BY <1>1, WriteRaisesType
<1>3. /\ plan' = plan /\ billed' = billed /\ charged' = charged /\ entry' = entry
      /\ Apart(p)
  BY <1>1 DEF WriteRaises, Goto, Apart, disk, history
<1>4. ASSUME job[p].pc \in {"claimed", "failing", "failed"}, job'[p].pc = "idle"
      PROVE  Account(p)'
  BY <1>1, <1>3, <1>4 DEF Account, Working, Booked, Held, Owed, Holders
<1>5. ASSUME job[p].pc \in {"next", "moved", "moving", "called", "charging",
                            "asset", "finishing"},
             job'[p].pc = "failing", job'[p].spent = job[p].spent
      PROVE  Account(p)'
  <2>1. billed[p] <= job[p].spent \/ billed[p] <= plan[p].spent
    BY <1>1, <1>5 DEF Account, Working
  <2>2. QED
    BY <1>1, <1>3, <1>5, <2>1 DEF Account, Working, Booked, Held, Owed, Holders
<1>6. QED
  <2>1. \/ job[p].pc \in {"claimed", "failing", "failed"} /\ job'[p].pc = "idle"
        \/ /\ job[p].pc \in {"next", "moved", "moving", "called", "charging",
                             "asset", "finishing"}
           /\ job'[p].pc = "failing" /\ job'[p].spent = job[p].spent
    BY <1>1 DEF WriteRaises, Goto, NoJob, JobRecord
  <2>2. Account(p)'
    BY <1>4, <1>5, <2>1
  <2>3. QED BY <1>2, <1>3, <2>2, AccountFrame

\* RecoverMark keeps the account of its plan.
LEMMA RecoverMarkAccount ==
  ASSUME IInv, NEW p \in Plans, RecoverMark(p)
  PROVE  IInv'
<1>1. /\ plan \in [Plans -> PlanRecord] /\ plan[p] \in PlanRecord
      /\ \A m \in Months : entry[m][p] \in Nat \cup {NoEntry}
      /\ Account(p) /\ Shape(p) /\ TypeInv /\ TypeOK
  BY DEF IInv, TypeInv, TypeOK
<1>2. TypeInv'
  BY <1>1, RecoverMarkType
<1>3. /\ job' = job /\ billed' = billed /\ charged' = charged /\ entry' = entry
      /\ job[p].pc = "idle" /\ plan[p].status = "running" /\ Apart(p)
  BY <1>1 DEF RecoverMark, Shape, Apart, history
<1>4. PICK m \in Months :
        /\ IsOwnerMonth(p, m)
        /\ plan'[p].status = "failed" /\ plan'[p].recMonth = m
        /\ plan'[p].recReserved = Reserved(m, p) /\ plan'[p].chars = plan[p].chars
  BY <1>1 DEF RecoverMark, PlanRecord
<1>5. Booked(p) \/ (plan[p].month \in Holders(p) /\ m = plan[p].month /\ Held(p, m))
  BY <1>1, <1>3, <1>4 DEF Account, Held, Holders, IsOwnerMonth
<1>6. Booked(p) \/ (Owed(p)' /\ charged[p] + Reserved(m, p) >= plan[p].chars)
  BY <1>3, <1>4, <1>5 DEF Owed, Holders, Held, Reserved, NoMonth, Months
<1>7. Account(p)'
  BY <1>1, <1>3, <1>4, <1>6 DEF Account, Working, Booked
<1>8. QED BY <1>2, <1>3, <1>7, AccountFrame

\* Crashes, the clock and the cap keep every account.
LEMMA CrashAccount ==
  ASSUME IInv, Crash \/ SetCap \/ AdvanceMonth \/ UNCHANGED vars
  PROVE  IInv'
<1>1. TypeInv'
  BY CrashType, WorldType DEF IInv
<1>2. ASSUME NEW p \in Plans PROVE Account(p)'
  <2>1. /\ plan' = plan /\ billed' = billed /\ charged' = charged /\ entry' = entry
        /\ job'[p] = job[p] \/ job'[p].pc = "idle"
    BY DEF Crash, SetCap, AdvanceMonth, vars, disk, history, NoJob
  <2>2. Account(p)
    BY DEF IInv
  <2>3. QED
    BY <2>1, <2>2 DEF Account, Working, Booked, Held, Owed, Holders
<1>3. QED BY <1>1, <1>2 DEF IInv

\* The empty store owes nothing.
LEMMA InitAccount == Init => IInv
<1>1. SUFFICES ASSUME Init PROVE IInv
  OBVIOUS
<1>2. ASSUME NEW p \in Plans PROVE Account(p)
  BY <1>1 DEF Init, NewPlan, NoJob, Account, Working
<1>3. QED BY <1>1, <1>2, InitType DEF IInv

\* Every step keeps every account.
LEMMA NextAccount == IInv /\ [Next]_vars => IInv'
<1>1. SUFFICES ASSUME IInv, [Next]_vars PROVE IInv'
  OBVIOUS
<1>2. CASE SetCap \/ Crash \/ AdvanceMonth \/ UNCHANGED vars
  BY <1>1, <1>2, CrashAccount
<1>3. ASSUME NEW p \in Plans,
             PlanAudio(p) \/ ClaimReserve(p) \/ WriteRaises(p)
      PROVE  IInv'
  BY <1>1, <1>3, PlanAudioAccount, ClaimReserveAccount, WriteRaisesAccount
<1>4. ASSUME NEW p \in Plans, Recover(p)
      PROVE  IInv'
  BY <1>1, <1>4, RecoverMarkAccount, RecoverChargeAccount,
     RecoverReleaseAccount, RecoverNextAccount DEF Recover
<1>5. ASSUME NEW p \in Plans, Work(p)
      PROVE  IInv'
  BY <1>1, <1>5, ClaimStartAccount, NoCredentialsAccount, SelectClipsAccount,
     SameMonthAccount, MoveInAccount, MoveOutAccount, MovePlanAccount,
     MoveRefusedAccount, ProviderAnswersAccount, ProviderFailsAccount,
     BookLedgerAccount, BookPlanAccount, StoreAssetAccount,
     FinishLedgerAccount, FinishPlanAccount, FailLedgerAccount,
     FailPlanAccount DEF Work
<1>6. QED BY <1>1, <1>2, <1>3, <1>4, <1>5 DEF Next

\* Whatever crashes and failing writes interrupt a running plan, an answer of
\* the provider is in a ledger or covered by the plan's own reservation.
THEOREM AnswersAreCovered == Spec => []AnswersCovered
<1>1. IInv => AnswersCovered
  BY DEF IInv, Account, Booked, Held, AnswersCovered, Holders
<1>2. QED BY <1>1, InitAccount, NextAccount, PTL DEF Spec

\* A plan that is over has been charged for what the provider answered, up to
\* what its author confirmed, also when recovery was itself interrupted.
THEOREM SettledPlansAreCharged == Spec => []SettledInFull
<1>1. IInv => SettledInFull
  BY DEF IInv, Account, Booked, SettledInFull, Settled
<1>2. QED BY <1>1, InitAccount, NextAccount, PTL DEF Spec

(***************************************************************************)
(* Reserved once, charged once.  As long as no write has raised, which     *)
(* months hold an entry of a plan follows from the step its job is at, and *)
(* what is charged and what is still reserved never add up to more than    *)
(* the larger of what was confirmed and what was answered.                 *)
(***************************************************************************)
\* The steps of a `with lock` block after its first write.
Writing == {"claimed", "moved", "moving", "charging", "finishing", "failed"}

HeldIn(p) ==
  CASE job[p].pc = "claimed" -> {job[p].month}
    [] job[p].pc = "moved" -> {plan[p].month, job[p].target}
    [] job[p].pc = "moving" -> {job[p].target}
    [] job[p].pc \in {"finishing", "failed"} -> {}
    [] OTHER -> IF plan[p].status = "running" THEN {plan[p].month} ELSE {}

Placed(p) ==
  /\ left = {} => Holders(p) = HeldIn(p)
  /\ left # {} /\ p \notin left => Holders(p) = {} /\ plan[p].status # "running"
  /\ p \in left => plan[p].status # "none"
  /\ job[p].pc \in Writing => lock = p
  /\ job[p].pc \in Active \ {"moving"} => job[p].month = plan[p].month

Limit(p) == Larger(plan[p].chars, billed[p])

Bounded(p) ==
  /\ charged[p] <= Limit(p)
  /\ plan[p].status # "failed" =>
       \A m \in Holders(p) : charged[p] + entry[m][p] <= Limit(p)
  /\ Owed(p) => charged[p] + plan[p].recReserved <= Limit(p)
  /\ job[p].pc \in Active \ {"charging", "failed"} => charged[p] = plan[p].spent
  /\ job[p].pc = "charging" => charged[p] = job[p].spent
  /\ job[p].pc = "failing" => job[p].spent <= billed[p]

OnceInv == IInv /\ (faults = 0 => \A p \in Plans : Placed(p) /\ Bounded(p))

\* What the invariant says of one plan, with the types of its records.
LEMMA OnceFacts ==
  ASSUME OnceInv, faults = 0, NEW p \in Plans
  PROVE  /\ job \in [Plans -> JobRecord] /\ job[p] \in JobRecord
         /\ plan \in [Plans -> PlanRecord] /\ plan[p] \in PlanRecord
         /\ billed \in [Plans -> Nat] /\ charged \in [Plans -> Nat]
         /\ \A m \in Months : entry[m][p] \in Nat \cup {NoEntry}
         /\ Shape(p) /\ Account(p) /\ Placed(p) /\ Bounded(p)
         /\ IInv /\ TypeInv /\ TypeOK /\ Nobody \notin Plans
BY BoundsAssumption DEF OnceInv, IInv, TypeInv, TypeOK

\* Writing an entry adds its month to the holders, and taking it out removes it.
LEMMA HoldersAfter ==
  ASSUME TypeOK, NEW p \in Plans, NEW m \in Months, NEW n, NEW e, WriteLedger(m, p, n, e)
  PROVE  Holders(p)' = IF e = NoEntry THEN Holders(p) \ {m} ELSE Holders(p) \cup {m}
<1>1. entry'[m][p] = e /\ \A k \in Months \ {m} : entry'[k][p] = entry[k][p]
  BY LedgerEffect
<1>2. \A k \in Months : k \in Holders(p)' <=> entry'[k][p] # NoEntry
  BY DEF Holders
<1>3. QED BY <1>1, <1>2 DEF Holders

\* A step about one plan that places and bounds its reservation, and takes the
\* lock from nobody else, keeps the invariant.
LEMMA OnceFrame ==
  ASSUME OnceInv, faults = 0, IInv', NEW p \in Plans, Apart(p), left' = left,
         lock' = lock \/ lock \in {p, Nobody}, Placed(p)', Bounded(p)'
  PROVE  OnceInv'
<1>1. ASSUME NEW q \in Plans, q # p PROVE Placed(q)' /\ Bounded(q)'
  <2>1. Placed(q) /\ Bounded(q) /\ q # Nobody
    BY OnceFacts
  <2>2. /\ plan'[q] = plan[q] /\ job'[q] = job[q]
        /\ billed'[q] = billed[q] /\ charged'[q] = charged[q]
        /\ \A m \in Months : entry'[m][q] = entry[m][q]
    BY <1>1 DEF Apart
  <2>3. Holders(q)' = Holders(q) /\ (Owed(q)' <=> Owed(q)) /\ HeldIn(q)' = HeldIn(q)
    BY <2>2 DEF Holders, Owed, HeldIn
  <2>4. job[q].pc \in Writing => lock' = q
    BY <1>1, <2>1 DEF Placed
  <2>5. Placed(q)'
    BY <2>1, <2>2, <2>3, <2>4 DEF Placed
  <2>6. \A m \in Holders(q) : m \in Months
    BY DEF Holders
  <2>7. QED BY <2>1, <2>2, <2>3, <2>5, <2>6 DEF Bounded, Limit
<1>2. QED BY <1>1 DEF OnceInv

\* A step that touches neither files nor ledgers, and moves the job of a plan
\* between two steps outside the lock's blocks, keeps the invariant.
Quiet(p) ==
  /\ plan' = plan /\ entry' = entry /\ billed' = billed /\ charged' = charged
  /\ left' = left /\ lock' = lock
  /\ \A q \in Plans \ {p} : job'[q] = job[q]
  /\ job'[p].spent = job[p].spent /\ job'[p].month = job[p].month
  /\ job[p].pc \in Active \ Writing
  /\ job'[p].pc \in Active \ Writing
  /\ job'[p].pc = "failing" => job[p].spent <= billed[p]

LEMMA QuietOnce ==
  ASSUME OnceInv, faults = 0, IInv', NEW p \in Plans, Quiet(p)
  PROVE  OnceInv'
<1>1. Shape(p) /\ Placed(p) /\ Bounded(p)
  BY OnceFacts
<1>2. Apart(p)
  BY DEF Quiet, Apart
<1>3. Holders(p)' = Holders(p) /\ (Owed(p)' <=> Owed(p))
  BY DEF Quiet, Holders, Owed
<1>4. Placed(p)'
  BY <1>1, <1>3 DEF Quiet, Placed, HeldIn, Writing, Shape, Active, Steps
<1>5. Bounded(p)'
  BY <1>1, <1>3 DEF Quiet, Bounded, Limit, Writing
<1>6. QED BY <1>2, <1>4, <1>5, OnceFrame DEF Quiet

\* The steps of a job that only change its memory or the shared cache.
LEMMA QuietSteps ==
  ASSUME OnceInv, faults = 0, NEW p \in Plans,
         \/ NoCredentials(p) \/ SelectClips(p) \/ MoveRefused(p)
         \/ ProviderFails(p) \/ StoreAsset(p)
         \/ \E c \in Clips : SameMonth(p, c)
  PROVE  OnceInv'
<1>1. /\ job \in [Plans -> JobRecord] /\ job[p] \in JobRecord
      /\ plan[p] \in PlanRecord /\ billed[p] \in Nat
      /\ Shape(p) /\ Account(p) /\ IInv
  BY OnceFacts
<1>2. IInv'
  BY <1>1, NoCredentialsAccount, SelectClipsAccount, MoveRefusedAccount,
     ProviderFailsAccount, StoreAssetAccount, SameMonthAccount
<1>3. job[p].pc \in {"select", "next", "call"} => job[p].spent <= billed[p]
  BY <1>1 DEF Account, Working, JobRecord
<1>4. Quiet(p)
  <2>1. CASE NoCredentials(p) \/ MoveRefused(p) \/ ProviderFails(p)
    BY <1>1, <1>3, <2>1 DEF NoCredentials, MoveRefused, ProviderFails, Goto, Quiet, Active,
       Steps, Writing, disk, history, JobRecord
  <2>2. CASE SelectClips(p) \/ StoreAsset(p)
    BY <1>1, <2>2 DEF SelectClips, StoreAsset, Quiet, Active, Steps, Writing, disk, history,
       JobRecord
  <2>3. CASE \E c \in Clips : SameMonth(p, c)
    <3>1. /\ job[p].pc = "next" /\ job'[p].pc = "call"
          /\ job'[p].spent = job[p].spent /\ job'[p].month = job[p].month
          /\ \A q \in Plans \ {p} : job'[q] = job[q]
      <4>1. PICK c \in Clips : job[p].pc = "next" /\ Take(p, c, "call", NoMonth)
        BY <2>3 DEF SameMonth
      <4>2. QED BY <1>1, <4>1 DEF Take, JobRecord
    <3>2. UNCHANGED <<disk, lock, left, history>>
      BY <2>3 DEF SameMonth
    <3>3. QED BY <3>1, <3>2 DEF Quiet, Active, Steps, Writing, disk, history
  <2>4. QED BY <2>1, <2>2, <2>3
<1>5. QED BY <1>2, <1>4, QuietOnce

\* ClaimReserve keeps its plan's reservation placed and bounded.
LEMMA ClaimReserveOnce ==
  ASSUME OnceInv, faults = 0, NEW p \in Plans, ClaimReserve(p)
  PROVE  OnceInv'
<1>1. /\ job \in [Plans -> JobRecord] /\ job[p] \in JobRecord
      /\ plan \in [Plans -> PlanRecord] /\ plan[p] \in PlanRecord
      /\ billed \in [Plans -> Nat] /\ charged \in [Plans -> Nat]
      /\ \A k \in Months : entry[k][p] \in Nat \cup {NoEntry}
      /\ Shape(p) /\ Account(p) /\ Placed(p) /\ Bounded(p)
      /\ IInv /\ TypeInv /\ TypeOK /\ Nobody \notin Plans
  BY OnceFacts
<1>2. IInv'
  BY <1>1, ClaimReserveAccount
<1>3. /\ left = {} /\ lock = Nobody /\ job[p].pc = "idle" /\ plan[p].status = "pending"
      /\ job'[p].pc = "claimed" /\ job'[p].spent = 0 /\ job'[p].month = now
      /\ lock' = p
      /\ plan' = plan
      /\ billed' = billed
      /\ left' = left
  BY <1>1 DEF ClaimReserve, Take, Goto, JobRecord, PlanRecord, NoJob, disk, history, Free, Serving, Shape, Active, Steps
<1>4. now \in Months /\ WriteLedger(now, p, 0, plan[p].chars)
  BY <1>1, <1>3 DEF ClaimReserve, Shape, Active, Steps, TypeOK, Owed, Holders
<1>5. /\ charged'[p] = charged[p] + 0
      /\ entry'[now][p] = plan[p].chars
      /\ \A k \in Months \ {now} : entry'[k][p] = entry[k][p]
      /\ \A q \in Plans \ {p} :
           charged'[q] = charged[q] /\ \A k \in Months : entry'[k][q] = entry[k][q]
  BY <1>1, <1>4, LedgerEffect
<1>6. Holders(p)' = IF plan[p].chars = NoEntry THEN Holders(p) \ {now} ELSE Holders(p) \cup {now}
  BY <1>1, <1>4, HoldersAfter
<1>7. plan[p].chars \in Nat /\ Holders(p) = {} /\ Holders(p)' = {now}
  BY <1>1, <1>3, <1>6 DEF Placed, HeldIn, PlanRecord, NoEntry
<1>7a. HeldIn(p)' = {now}
  BY <1>3 DEF HeldIn
<1>7b. Placed(p)'
  BY <1>1, <1>3, <1>7, <1>7a DEF Placed, Writing, Active
<1>8. Bounded(p)'
  <2>1. charged[p] = 0 /\ billed[p] = 0
    BY <1>1, <1>3 DEF Account
  <2>2. ~Owed(p)'
    BY <1>3 DEF Owed
  <2>3. QED BY <1>1, <1>3, <1>5, <1>7, <2>1, <2>2 DEF Bounded, Limit, Larger, Active
<1>9. Apart(p) /\ left' = left /\ (lock' = lock \/ lock \in {p, Nobody})
  BY <1>1, <1>3, <1>4, <1>5 DEF ClaimReserve, Take, Apart, Goto, Free, disk, history, Placed, Writing
<1>10. QED BY <1>1, <1>2, <1>7b, <1>8, <1>9, OnceFrame

\* ClaimStart keeps its plan's reservation placed and bounded.
LEMMA ClaimStartOnce ==
  ASSUME OnceInv, faults = 0, NEW p \in Plans, ClaimStart(p)
  PROVE  OnceInv'
<1>1. /\ job \in [Plans -> JobRecord] /\ job[p] \in JobRecord
      /\ plan \in [Plans -> PlanRecord] /\ plan[p] \in PlanRecord
      /\ billed \in [Plans -> Nat] /\ charged \in [Plans -> Nat]
      /\ \A k \in Months : entry[k][p] \in Nat \cup {NoEntry}
      /\ Shape(p) /\ Account(p) /\ Placed(p) /\ Bounded(p)
      /\ IInv /\ TypeInv /\ TypeOK /\ Nobody \notin Plans
  BY OnceFacts
<1>2. IInv'
  BY <1>1, ClaimStartAccount
<1>3. /\ job[p].pc = "claimed" /\ left = {}
      /\ job'[p].pc = "select"
      /\ job'[p].spent = job[p].spent
      /\ job'[p].month = job[p].month
      /\ plan'[p].status = "running"
      /\ plan'[p].chars = plan[p].chars
      /\ plan'[p].month = job[p].month
      /\ plan'[p].spent = plan[p].spent
      /\ plan'[p].recMonth = plan[p].recMonth
      /\ plan'[p].recReserved = plan[p].recReserved
      /\ billed' = billed
      /\ left' = left /\ lock' = Nobody
  BY <1>1 DEF ClaimStart, Take, Goto, JobRecord, PlanRecord, NoJob, disk, history, Free, Serving, Shape, Active, Steps
<1>4. charged' = charged /\ entry' = entry
  BY DEF ClaimStart, Take, disk, history
<1>5. Holders(p)' = Holders(p)
  BY <1>4 DEF Holders
<1>6. (Owed(p) /\ plan'[p].status = plan[p].status) => plan[p].status = "failed"
  BY DEF Owed
<1>7. Placed(p)'
  BY <1>1, <1>3, <1>4, <1>5, <1>6 DEF Placed, HeldIn, Writing, Shape, Active, Steps, JobRecord, PlanRecord
<1>8. Bounded(p)'
  BY <1>1, <1>3, <1>4, <1>5, <1>6, <1>7 DEF Bounded, Limit, Larger, Owed, Shape, Active, Steps, JobRecord, PlanRecord, Account
<1>9. Apart(p) /\ left' = left /\ (lock' = lock \/ lock \in {p, Nobody})
  BY <1>1, <1>3, <1>4, <1>5 DEF ClaimStart, Take, Apart, Goto, Free, disk, history, Placed, Writing
<1>10. QED BY <1>1, <1>2, <1>7, <1>8, <1>9, OnceFrame

\* MoveIn keeps its plan's reservation placed and bounded.
LEMMA MoveInOnce ==
  ASSUME OnceInv, faults = 0, NEW p \in Plans, NEW c \in Clips, MoveIn(p, c)
  PROVE  OnceInv'
<1>1. /\ job \in [Plans -> JobRecord] /\ job[p] \in JobRecord
      /\ plan \in [Plans -> PlanRecord] /\ plan[p] \in PlanRecord
      /\ billed \in [Plans -> Nat] /\ charged \in [Plans -> Nat]
      /\ \A k \in Months : entry[k][p] \in Nat \cup {NoEntry}
      /\ Shape(p) /\ Account(p) /\ Placed(p) /\ Bounded(p)
      /\ IInv /\ TypeInv /\ TypeOK /\ Nobody \notin Plans
  BY OnceFacts
<1>2. IInv'
  BY <1>1, MoveInAccount
<1>3. /\ left = {} /\ lock = Nobody /\ job[p].pc = "next" /\ plan[p].month # now
      /\ job'[p].pc = "moved" /\ job'[p].target = now
      /\ job'[p].spent = job[p].spent
      /\ job'[p].month = job[p].month
      /\ plan' = plan
      /\ billed' = billed
      /\ left' = left /\ lock' = p
  BY <1>1 DEF MoveIn, Take, Goto, JobRecord, PlanRecord, NoJob, disk, history, Free, Serving, Shape, Active, Steps
<1>4. now \in Months /\ WriteLedger(now, p, 0, Remaining(p))
  BY <1>1, <1>3 DEF MoveIn, Shape, Active, Steps, TypeOK, Owed, Holders
<1>5. /\ charged'[p] = charged[p] + 0
      /\ entry'[now][p] = Remaining(p)
      /\ \A k \in Months \ {now} : entry'[k][p] = entry[k][p]
      /\ \A q \in Plans \ {p} :
           charged'[q] = charged[q] /\ \A k \in Months : entry'[k][q] = entry[k][q]
  BY <1>1, <1>4, LedgerEffect
<1>6. Holders(p)' = IF Remaining(p) = NoEntry THEN Holders(p) \ {now} ELSE Holders(p) \cup {now}
  BY <1>1, <1>4, HoldersAfter
<1>7. /\ plan[p].status = "running" /\ plan[p].month \in Months
      /\ Holders(p) = {plan[p].month} /\ entry[plan[p].month][p] \in Nat /\ entry[now][p] = NoEntry
  <2>1. plan[p].status = "running" /\ plan[p].month \in Months
    BY <1>1, <1>3 DEF Shape, Active, Steps
  <2>2. Holders(p) = {plan[p].month}
    BY <1>1, <1>3, <2>1 DEF Placed, HeldIn
  <2>3. QED BY <1>1, <1>3, <1>4, <2>1, <2>2 DEF Holders
<1>7a. Remaining(p) = Larger(entry[plan[p].month][p], plan[p].chars - plan[p].spent)
       /\ Remaining(p) \in Nat
  BY <1>1, <1>7 DEF Remaining, Reserved, Larger, PlanRecord, NoEntry
<1>7b. Holders(p)' = {plan[p].month, now}
  BY <1>6, <1>7, <1>7a DEF NoEntry
<1>7c. HeldIn(p)' = {plan[p].month, now}
  BY <1>3 DEF HeldIn
<1>7d. Placed(p)'
  BY <1>1, <1>3, <1>7, <1>7b, <1>7c DEF Placed, Writing, Active, Steps
<1>8. Bounded(p)'
  <2>1. charged[p] = plan[p].spent /\ charged[p] <= Limit(p) /\ Limit(p) \in Nat
        /\ charged[p] + entry[plan[p].month][p] <= Limit(p) /\ plan[p].chars <= Limit(p)
    BY <1>1, <1>3, <1>7 DEF Bounded, Limit, Larger, Active, Steps, PlanRecord
  <2>2. charged[p] + Remaining(p) <= Limit(p)
    BY <1>1, <1>7, <1>7a, <2>1 DEF Larger, PlanRecord
  <2>3. ~Owed(p)' /\ Limit(p)' = Limit(p)
    BY <1>3, <1>7 DEF Owed, Limit
  <2>4. \A m \in {plan[p].month, now} : charged[p] + entry'[m][p] <= Limit(p)
    BY <1>3, <1>5, <1>7, <2>1, <2>2
  <2>5. QED BY <1>1, <1>3, <1>5, <1>7b, <2>1, <2>3, <2>4 DEF Bounded, Active, Steps
<1>9. Apart(p) /\ left' = left /\ (lock' = lock \/ lock \in {p, Nobody})
  BY <1>1, <1>3, <1>4, <1>5 DEF MoveIn, Take, Apart, Goto, Free, disk, history, Placed, Writing
<1>10. QED BY <1>1, <1>2, <1>7d, <1>8, <1>9, OnceFrame

\* MoveOut keeps its plan's reservation placed and bounded.
LEMMA MoveOutOnce ==
  ASSUME OnceInv, faults = 0, NEW p \in Plans, MoveOut(p)
  PROVE  OnceInv'
<1>1. /\ job \in [Plans -> JobRecord] /\ job[p] \in JobRecord
      /\ plan \in [Plans -> PlanRecord] /\ plan[p] \in PlanRecord
      /\ billed \in [Plans -> Nat] /\ charged \in [Plans -> Nat]
      /\ \A k \in Months : entry[k][p] \in Nat \cup {NoEntry}
      /\ Shape(p) /\ Account(p) /\ Placed(p) /\ Bounded(p)
      /\ IInv /\ TypeInv /\ TypeOK /\ Nobody \notin Plans
  BY OnceFacts
<1>2. IInv'
  BY <1>1, MoveOutAccount
<1>3. /\ job[p].pc = "moved" /\ left = {}
      /\ job'[p].pc = "moving" /\ job'[p].target = job[p].target
      /\ job'[p].spent = job[p].spent
      /\ job'[p].month = job[p].month
      /\ plan' = plan
      /\ billed' = billed
      /\ left' = left /\ lock' = lock
  BY <1>1 DEF MoveOut, Take, Goto, JobRecord, PlanRecord, NoJob, disk, history, Free, Serving, Shape, Active, Steps
<1>4. plan[p].month \in Months /\ WriteLedger(plan[p].month, p, 0, NoEntry)
  BY <1>1, <1>3 DEF MoveOut, Shape, Active, Steps, TypeOK, Owed, Holders
<1>5. /\ charged'[p] = charged[p] + 0
      /\ entry'[plan[p].month][p] = NoEntry
      /\ \A k \in Months \ {plan[p].month} : entry'[k][p] = entry[k][p]
      /\ \A q \in Plans \ {p} :
           charged'[q] = charged[q] /\ \A k \in Months : entry'[k][q] = entry[k][q]
  BY <1>1, <1>4, LedgerEffect
<1>6. Holders(p)' = IF NoEntry = NoEntry THEN Holders(p) \ {plan[p].month} ELSE Holders(p) \cup {plan[p].month}
  BY <1>1, <1>4, HoldersAfter
<1>7. /\ plan[p].status = "running" /\ job[p].target \in Months
      /\ Holders(p) = {plan[p].month, job[p].target} /\ job[p].target # plan[p].month
      /\ Holders(p)' = {job[p].target}
  <2>1. plan[p].status = "running" /\ job[p].target \in Months /\ job[p].target # plan[p].month
    BY <1>1, <1>3 DEF Shape, Active, Steps, Account
  <2>2. Holders(p) = {plan[p].month, job[p].target}
    BY <1>1, <1>3 DEF Placed, HeldIn
  <2>3. QED BY <1>6, <2>1, <2>2
<1>7a. HeldIn(p)' = {job[p].target}
  BY <1>3 DEF HeldIn
<1>7b. Placed(p)'
  BY <1>1, <1>3, <1>7, <1>7a DEF Placed, Writing, Active, Steps
<1>8. Bounded(p)'
  <2>1. ~Owed(p)' /\ Limit(p)' = Limit(p)
    BY <1>3, <1>7 DEF Owed, Limit
  <2>2. entry'[job[p].target][p] = entry[job[p].target][p]
    BY <1>5, <1>7
  <2>3. charged'[p] = charged[p]
    BY <1>1, <1>5
  <2>4. charged[p] <= Limit(p) /\ charged[p] + entry[job[p].target][p] <= Limit(p)
        /\ charged[p] = plan[p].spent
    BY <1>1, <1>3, <1>7 DEF Bounded, Active, Steps
  <2>5. QED BY <1>3, <1>7, <2>1, <2>2, <2>3, <2>4 DEF Bounded
<1>9. Apart(p) /\ left' = left /\ (lock' = lock \/ lock \in {p, Nobody})
  BY <1>1, <1>3, <1>4, <1>5 DEF MoveOut, Take, Apart, Goto, Free, disk, history, Placed, Writing
<1>10. QED BY <1>1, <1>2, <1>7b, <1>8, <1>9, OnceFrame

\* MovePlan keeps its plan's reservation placed and bounded.
LEMMA MovePlanOnce ==
  ASSUME OnceInv, faults = 0, NEW p \in Plans, MovePlan(p)
  PROVE  OnceInv'
<1>1. /\ job \in [Plans -> JobRecord] /\ job[p] \in JobRecord
      /\ plan \in [Plans -> PlanRecord] /\ plan[p] \in PlanRecord
      /\ billed \in [Plans -> Nat] /\ charged \in [Plans -> Nat]
      /\ \A k \in Months : entry[k][p] \in Nat \cup {NoEntry}
      /\ Shape(p) /\ Account(p) /\ Placed(p) /\ Bounded(p)
      /\ IInv /\ TypeInv /\ TypeOK /\ Nobody \notin Plans
  BY OnceFacts
<1>2. IInv'
  BY <1>1, MovePlanAccount
<1>3. /\ job[p].pc = "moving" /\ left = {}
      /\ job'[p].pc = "call"
      /\ job'[p].spent = job[p].spent
      /\ job'[p].month = job[p].target
      /\ plan'[p].status = plan[p].status
      /\ plan'[p].chars = plan[p].chars
      /\ plan'[p].month = job[p].target
      /\ plan'[p].spent = plan[p].spent
      /\ plan'[p].recMonth = plan[p].recMonth
      /\ plan'[p].recReserved = plan[p].recReserved
      /\ billed' = billed
      /\ left' = left /\ lock' = Nobody
  BY <1>1 DEF MovePlan, Take, Goto, JobRecord, PlanRecord, NoJob, disk, history, Free, Serving, Shape, Active, Steps
<1>4. charged' = charged /\ entry' = entry
  BY DEF MovePlan, Take, disk, history
<1>5. Holders(p)' = Holders(p)
  BY <1>4 DEF Holders
<1>6. (Owed(p) /\ plan'[p].status = plan[p].status) => plan[p].status = "failed"
  BY DEF Owed
<1>7. Placed(p)'
  BY <1>1, <1>3, <1>4, <1>5, <1>6 DEF Placed, HeldIn, Writing, Shape, Active, Steps, JobRecord, PlanRecord
<1>8. Bounded(p)'
  BY <1>1, <1>3, <1>4, <1>5, <1>6, <1>7 DEF Bounded, Limit, Larger, Owed, Shape, Active, Steps, JobRecord, PlanRecord, Account
<1>9. Apart(p) /\ left' = left /\ (lock' = lock \/ lock \in {p, Nobody})
  BY <1>1, <1>3, <1>4, <1>5 DEF MovePlan, Take, Apart, Goto, Free, disk, history, Placed, Writing
<1>10. QED BY <1>1, <1>2, <1>7, <1>8, <1>9, OnceFrame

\* ProviderAnswers keeps its plan's reservation placed and bounded.
LEMMA ProviderAnswersOnce ==
  ASSUME OnceInv, faults = 0, NEW p \in Plans, ProviderAnswers(p)
  PROVE  OnceInv'
<1>1. /\ job \in [Plans -> JobRecord] /\ job[p] \in JobRecord
      /\ plan \in [Plans -> PlanRecord] /\ plan[p] \in PlanRecord
      /\ billed \in [Plans -> Nat] /\ charged \in [Plans -> Nat]
      /\ \A k \in Months : entry[k][p] \in Nat \cup {NoEntry}
      /\ Shape(p) /\ Account(p) /\ Placed(p) /\ Bounded(p)
      /\ IInv /\ TypeInv /\ TypeOK /\ Nobody \notin Plans
  BY OnceFacts
<1>2. IInv'
  BY <1>1, ProviderAnswersAccount
<1>3. /\ job[p].pc = "call" /\ left = {}
      /\ job'[p].pc = "called"
      /\ job'[p].month = job[p].month
      /\ plan' = plan
      /\ billed'[p] = billed[p] + Characters[{job[p].clip}]
      /\ left' = left /\ lock' = lock
  BY <1>1 DEF ProviderAnswers, Take, Goto, JobRecord, PlanRecord, NoJob, disk, history, Free, Serving, Shape, Active, Steps
<1>4. charged' = charged /\ entry' = entry
  BY DEF ProviderAnswers, Take, disk, history
<1>5. Holders(p)' = Holders(p)
  BY <1>4 DEF Holders
<1>6. (Owed(p) /\ plan'[p].status = plan[p].status) => plan[p].status = "failed"
  BY DEF Owed
<1>7. Placed(p)'
  BY <1>1, <1>3, <1>4, <1>5, <1>6 DEF Placed, HeldIn, Writing, Shape, Active, Steps, JobRecord, PlanRecord
<1>8. Bounded(p)'
  <2>1. Characters[{job[p].clip}] \in Nat
    BY <1>1, <1>3, CharactersAssumption DEF Shape
  <2>2. Limit(p) <= Limit(p)' /\ Limit(p) \in Nat /\ Limit(p)' \in Nat
    BY <1>1, <1>3, <2>1 DEF Limit, Larger, PlanRecord
  <2>3. plan[p].status = "running" /\ ~Owed(p)'
    BY <1>1, <1>3 DEF Shape, Active, Steps, Owed
  <2>4. charged[p] <= Limit(p) /\ charged[p] = plan[p].spent
        /\ \A m \in Holders(p) : entry[m][p] \in Nat /\ charged[p] + entry[m][p] <= Limit(p)
    BY <1>1, <1>3, <2>3 DEF Bounded, Active, Steps, Holders
  <2>5. QED BY <1>1, <1>3, <1>4, <1>5, <2>2, <2>3, <2>4 DEF Bounded
<1>9. Apart(p) /\ left' = left /\ (lock' = lock \/ lock \in {p, Nobody})
  BY <1>1, <1>3, <1>4, <1>5 DEF ProviderAnswers, Take, Apart, Goto, Free, disk, history, Placed, Writing
<1>10. QED BY <1>1, <1>2, <1>7, <1>8, <1>9, OnceFrame

\* BookLedger keeps its plan's reservation placed and bounded.
LEMMA BookLedgerOnce ==
  ASSUME OnceInv, faults = 0, NEW p \in Plans, BookLedger(p)
  PROVE  OnceInv'
<1>1. /\ job \in [Plans -> JobRecord] /\ job[p] \in JobRecord
      /\ plan \in [Plans -> PlanRecord] /\ plan[p] \in PlanRecord
      /\ billed \in [Plans -> Nat] /\ charged \in [Plans -> Nat]
      /\ \A k \in Months : entry[k][p] \in Nat \cup {NoEntry}
      /\ Shape(p) /\ Account(p) /\ Placed(p) /\ Bounded(p)
      /\ IInv /\ TypeInv /\ TypeOK /\ Nobody \notin Plans
  BY OnceFacts
<1>2. IInv'
  BY <1>1, BookLedgerAccount
<1>3. /\ left = {} /\ lock = Nobody /\ job[p].pc = "called"
      /\ job'[p].pc = "charging"
      /\ job'[p].spent = job[p].spent
      /\ job'[p].month = job[p].month
      /\ plan' = plan
      /\ billed' = billed
      /\ left' = left /\ lock' = p
  BY <1>1 DEF BookLedger, Take, Goto, JobRecord, PlanRecord, NoJob, disk, history, Free, Serving, Shape, Active, Steps
<1>4. plan[p].month \in Months /\ WriteLedger(plan[p].month, p, AtLeast0(job[p].spent - plan[p].spent), AtLeast0(Reserved(plan[p].month, p) - AtLeast0(job[p].spent - plan[p].spent)))
  BY <1>1, <1>3 DEF BookLedger, Shape, Active, Steps, TypeOK, Owed, Holders
<1>5. /\ charged'[p] = charged[p] + AtLeast0(job[p].spent - plan[p].spent)
      /\ entry'[plan[p].month][p] = AtLeast0(Reserved(plan[p].month, p) - AtLeast0(job[p].spent - plan[p].spent))
      /\ \A k \in Months \ {plan[p].month} : entry'[k][p] = entry[k][p]
      /\ \A q \in Plans \ {p} :
           charged'[q] = charged[q] /\ \A k \in Months : entry'[k][q] = entry[k][q]
  BY <1>1, <1>4, LedgerEffect
<1>6. Holders(p)' = IF AtLeast0(Reserved(plan[p].month, p) - AtLeast0(job[p].spent - plan[p].spent)) = NoEntry THEN Holders(p) \ {plan[p].month} ELSE Holders(p) \cup {plan[p].month}
  BY <1>1, <1>4, HoldersAfter
<1>7. /\ plan[p].status = "running" /\ plan[p].month \in Months
      /\ Holders(p) = {plan[p].month} /\ entry[plan[p].month][p] \in Nat
  <2>1. plan[p].status = "running" /\ plan[p].month \in Months
    BY <1>1, <1>3 DEF Shape, Active, Steps
  <2>2. Holders(p) = {plan[p].month}
    BY <1>1, <1>3, <2>1 DEF Placed, HeldIn
  <2>3. QED BY <1>1, <2>1, <2>2 DEF Holders
<1>7a. /\ plan[p].spent \in Nat /\ job[p].spent \in Nat /\ plan[p].chars \in Nat
       /\ plan[p].spent <= job[p].spent
       /\ charged[p] = plan[p].spent /\ billed[p] = job[p].spent
       /\ charged[p] + entry[plan[p].month][p] <= Limit(p)
  BY <1>1, <1>3, <1>7 DEF Account, Working, Bounded, Active, Steps, JobRecord, PlanRecord
<1>7b. /\ charged'[p] = job[p].spent
       /\ entry'[plan[p].month][p] =
            AtLeast0(entry[plan[p].month][p] - (job[p].spent - plan[p].spent))
       /\ entry'[plan[p].month][p] \in Nat
  BY <1>5, <1>7, <1>7a DEF AtLeast0, Reserved, NoEntry
<1>7c. Holders(p)' = {plan[p].month}
  BY <1>5, <1>6, <1>7, <1>7b DEF NoEntry
<1>7d. HeldIn(p)' = {plan[p].month}
  BY <1>3, <1>7 DEF HeldIn
<1>7e. Placed(p)'
  BY <1>1, <1>3, <1>7, <1>7c, <1>7d DEF Placed, Writing, Active, Steps
<1>8. Bounded(p)'
  <2>1. ~Owed(p)' /\ Limit(p)' = Limit(p)
    BY <1>3, <1>7 DEF Owed, Limit
  <2>2. job[p].spent <= Limit(p) /\ Limit(p) \in Nat
    BY <1>1, <1>7a DEF Limit, Larger
  <2>3. charged'[p] + entry'[plan[p].month][p] <= Limit(p)
    BY <1>7, <1>7a, <1>7b, <2>2 DEF AtLeast0
  <2>4. QED BY <1>3, <1>7a, <1>7b, <1>7c, <2>1, <2>2, <2>3 DEF Bounded
<1>9. Apart(p) /\ left' = left /\ (lock' = lock \/ lock \in {p, Nobody})
  BY <1>1, <1>3, <1>4, <1>5 DEF BookLedger, Take, Apart, Goto, Free, disk, history, Placed, Writing
<1>10. QED BY <1>1, <1>2, <1>7e, <1>8, <1>9, OnceFrame

\* BookPlan keeps its plan's reservation placed and bounded.
LEMMA BookPlanOnce ==
  ASSUME OnceInv, faults = 0, NEW p \in Plans, BookPlan(p)
  PROVE  OnceInv'
<1>1. /\ job \in [Plans -> JobRecord] /\ job[p] \in JobRecord
      /\ plan \in [Plans -> PlanRecord] /\ plan[p] \in PlanRecord
      /\ billed \in [Plans -> Nat] /\ charged \in [Plans -> Nat]
      /\ \A k \in Months : entry[k][p] \in Nat \cup {NoEntry}
      /\ Shape(p) /\ Account(p) /\ Placed(p) /\ Bounded(p)
      /\ IInv /\ TypeInv /\ TypeOK /\ Nobody \notin Plans
  BY OnceFacts
<1>2. IInv'
  BY <1>1, BookPlanAccount
<1>3. /\ job[p].pc = "charging" /\ left = {}
      /\ job'[p].pc = "asset"
      /\ job'[p].spent = job[p].spent
      /\ job'[p].month = job[p].month
      /\ plan'[p].status = plan[p].status
      /\ plan'[p].chars = plan[p].chars
      /\ plan'[p].month = plan[p].month
      /\ plan'[p].spent = job[p].spent
      /\ plan'[p].recMonth = plan[p].recMonth
      /\ plan'[p].recReserved = plan[p].recReserved
      /\ billed' = billed
      /\ left' = left /\ lock' = Nobody
  BY <1>1 DEF BookPlan, Take, Goto, JobRecord, PlanRecord, NoJob, disk, history, Free, Serving, Shape, Active, Steps
<1>4. charged' = charged /\ entry' = entry
  BY DEF BookPlan, Take, disk, history
<1>5. Holders(p)' = Holders(p)
  BY <1>4 DEF Holders
<1>6. (Owed(p) /\ plan'[p].status = plan[p].status) => plan[p].status = "failed"
  BY DEF Owed
<1>7. Placed(p)'
  BY <1>1, <1>3, <1>4, <1>5, <1>6 DEF Placed, HeldIn, Writing, Shape, Active, Steps, JobRecord, PlanRecord
<1>8. Bounded(p)'
  BY <1>1, <1>3, <1>4, <1>5, <1>6, <1>7 DEF Bounded, Limit, Larger, Owed, Shape, Active, Steps, JobRecord, PlanRecord, Account
<1>9. Apart(p) /\ left' = left /\ (lock' = lock \/ lock \in {p, Nobody})
  BY <1>1, <1>3, <1>4, <1>5 DEF BookPlan, Take, Apart, Goto, Free, disk, history, Placed, Writing
<1>10. QED BY <1>1, <1>2, <1>7, <1>8, <1>9, OnceFrame

\* FinishLedger keeps its plan's reservation placed and bounded.
LEMMA FinishLedgerOnce ==
  ASSUME OnceInv, faults = 0, NEW p \in Plans, FinishLedger(p)
  PROVE  OnceInv'
<1>1. /\ job \in [Plans -> JobRecord] /\ job[p] \in JobRecord
      /\ plan \in [Plans -> PlanRecord] /\ plan[p] \in PlanRecord
      /\ billed \in [Plans -> Nat] /\ charged \in [Plans -> Nat]
      /\ \A k \in Months : entry[k][p] \in Nat \cup {NoEntry}
      /\ Shape(p) /\ Account(p) /\ Placed(p) /\ Bounded(p)
      /\ IInv /\ TypeInv /\ TypeOK /\ Nobody \notin Plans
  BY OnceFacts
<1>2. IInv'
  BY <1>1, FinishLedgerAccount
<1>3. /\ left = {} /\ lock = Nobody /\ job[p].pc = "next"
      /\ job'[p].pc = "finishing" /\ job'[p].month = job[p].month
      /\ plan' = plan
      /\ billed' = billed
      /\ left' = left /\ lock' = p
  BY <1>1 DEF FinishLedger, Take, Goto, JobRecord, PlanRecord, NoJob, disk, history, Free, Serving, Shape, Active, Steps
<1>4. job[p].month \in Months /\ WriteLedger(job[p].month, p, 0, NoEntry)
  BY <1>1, <1>3 DEF FinishLedger, Shape, Active, Steps, TypeOK, Owed, Holders
<1>5. /\ charged'[p] = charged[p] + 0
      /\ entry'[job[p].month][p] = NoEntry
      /\ \A k \in Months \ {job[p].month} : entry'[k][p] = entry[k][p]
      /\ \A q \in Plans \ {p} :
           charged'[q] = charged[q] /\ \A k \in Months : entry'[k][q] = entry[k][q]
  BY <1>1, <1>4, LedgerEffect
<1>6. Holders(p)' = IF NoEntry = NoEntry THEN Holders(p) \ {job[p].month} ELSE Holders(p) \cup {job[p].month}
  BY <1>1, <1>4, HoldersAfter
<1>7. plan[p].status = "running" /\ Holders(p)' = {}
  <2>1. plan[p].status = "running" /\ plan[p].month = job[p].month
    BY <1>1, <1>3 DEF Shape, Active, Steps, Placed
  <2>2. Holders(p) = {plan[p].month}
    BY <1>1, <1>3, <2>1 DEF Placed, HeldIn
  <2>3. QED BY <1>6, <2>1, <2>2
<1>7a. HeldIn(p)' = {}
  BY <1>3 DEF HeldIn
<1>7b. Placed(p)'
  BY <1>1, <1>3, <1>7, <1>7a DEF Placed, Writing, Active, Steps
<1>8. Bounded(p)'
  <2>1. ~Owed(p)' /\ Limit(p)' = Limit(p) /\ charged'[p] = charged[p]
    BY <1>1, <1>3, <1>5, <1>7 DEF Owed, Limit
  <2>2. charged[p] <= Limit(p) /\ charged[p] = plan[p].spent
    BY <1>1, <1>3 DEF Bounded, Active, Steps
  <2>3. QED BY <1>3, <1>7, <2>1, <2>2 DEF Bounded
<1>9. Apart(p) /\ left' = left /\ (lock' = lock \/ lock \in {p, Nobody})
  BY <1>1, <1>3, <1>4, <1>5 DEF FinishLedger, Take, Apart, Goto, Free, disk, history, Placed, Writing
<1>10. QED BY <1>1, <1>2, <1>7b, <1>8, <1>9, OnceFrame

\* FinishPlan keeps its plan's reservation placed and bounded.
LEMMA FinishPlanOnce ==
  ASSUME OnceInv, faults = 0, NEW p \in Plans, FinishPlan(p)
  PROVE  OnceInv'
<1>1. /\ job \in [Plans -> JobRecord] /\ job[p] \in JobRecord
      /\ plan \in [Plans -> PlanRecord] /\ plan[p] \in PlanRecord
      /\ billed \in [Plans -> Nat] /\ charged \in [Plans -> Nat]
      /\ \A k \in Months : entry[k][p] \in Nat \cup {NoEntry}
      /\ Shape(p) /\ Account(p) /\ Placed(p) /\ Bounded(p)
      /\ IInv /\ TypeInv /\ TypeOK /\ Nobody \notin Plans
  BY OnceFacts
<1>2. IInv'
  BY <1>1, FinishPlanAccount
<1>3. /\ job[p].pc = "finishing" /\ left = {}
      /\ job'[p].pc = "idle"
      /\ plan'[p].status = "completed"
      /\ plan'[p].chars = plan[p].chars
      /\ plan'[p].month = plan[p].month
      /\ plan'[p].spent = 0
      /\ plan'[p].recMonth = plan[p].recMonth
      /\ plan'[p].recReserved = plan[p].recReserved
      /\ billed' = billed
      /\ left' = left /\ lock' = Nobody
  BY <1>1 DEF FinishPlan, Take, Goto, JobRecord, PlanRecord, NoJob, disk, history, Free, Serving, Shape, Active, Steps
<1>4. charged' = charged /\ entry' = entry
  BY DEF FinishPlan, Take, disk, history
<1>5. Holders(p)' = Holders(p)
  BY <1>4 DEF Holders
<1>6. (Owed(p) /\ plan'[p].status = plan[p].status) => plan[p].status = "failed"
  BY DEF Owed
<1>7. Placed(p)'
  BY <1>1, <1>3, <1>4, <1>5, <1>6 DEF Placed, HeldIn, Writing, Shape, Active, Steps, JobRecord, PlanRecord
<1>8. Bounded(p)'
  BY <1>1, <1>3, <1>4, <1>5, <1>6, <1>7 DEF Bounded, Limit, Larger, Owed, Shape, Active, Steps, JobRecord, PlanRecord, Account
<1>9. Apart(p) /\ left' = left /\ (lock' = lock \/ lock \in {p, Nobody})
  BY <1>1, <1>3, <1>4, <1>5 DEF FinishPlan, Take, Apart, Goto, Free, disk, history, Placed, Writing
<1>10. QED BY <1>1, <1>2, <1>7, <1>8, <1>9, OnceFrame

\* FailLedger keeps its plan's reservation placed and bounded.
LEMMA FailLedgerOnce ==
  ASSUME OnceInv, faults = 0, NEW p \in Plans, FailLedger(p)
  PROVE  OnceInv'
<1>1. /\ job \in [Plans -> JobRecord] /\ job[p] \in JobRecord
      /\ plan \in [Plans -> PlanRecord] /\ plan[p] \in PlanRecord
      /\ billed \in [Plans -> Nat] /\ charged \in [Plans -> Nat]
      /\ \A k \in Months : entry[k][p] \in Nat \cup {NoEntry}
      /\ Shape(p) /\ Account(p) /\ Placed(p) /\ Bounded(p)
      /\ IInv /\ TypeInv /\ TypeOK /\ Nobody \notin Plans
  BY OnceFacts
<1>2. IInv'
  BY <1>1, FailLedgerAccount
<1>3. /\ left = {} /\ lock = Nobody /\ job[p].pc = "failing"
      /\ job'[p].pc = "failed" /\ job'[p].month = job[p].month
      /\ plan' = plan
      /\ billed' = billed
      /\ left' = left /\ lock' = p
  BY <1>1 DEF FailLedger, Take, Goto, JobRecord, PlanRecord, NoJob, disk, history, Free, Serving, Shape, Active, Steps
<1>4. plan[p].month \in Months /\ WriteLedger(plan[p].month, p, AtLeast0(Larger(job[p].spent, plan[p].spent) - Larger(plan[p].spent, plan[p].chars - Reserved(plan[p].month, p))), NoEntry)
  BY <1>1, <1>3 DEF FailLedger, Shape, Active, Steps, TypeOK, Owed, Holders
<1>5. /\ charged'[p] = charged[p] + AtLeast0(Larger(job[p].spent, plan[p].spent) - Larger(plan[p].spent, plan[p].chars - Reserved(plan[p].month, p)))
      /\ entry'[plan[p].month][p] = NoEntry
      /\ \A k \in Months \ {plan[p].month} : entry'[k][p] = entry[k][p]
      /\ \A q \in Plans \ {p} :
           charged'[q] = charged[q] /\ \A k \in Months : entry'[k][q] = entry[k][q]
  BY <1>1, <1>4, LedgerEffect
<1>6. Holders(p)' = IF NoEntry = NoEntry THEN Holders(p) \ {plan[p].month} ELSE Holders(p) \cup {plan[p].month}
  BY <1>1, <1>4, HoldersAfter
<1>7. plan[p].status = "running" /\ Holders(p)' = {}
  <2>1. plan[p].status = "running" /\ plan[p].month = job[p].month
    BY <1>1, <1>3 DEF Shape, Active, Steps, Placed
  <2>2. Holders(p) = {plan[p].month}
    BY <1>1, <1>3, <2>1 DEF Placed, HeldIn
  <2>3. QED BY <1>6, <2>1, <2>2
<1>7a. HeldIn(p)' = {}
  BY <1>3 DEF HeldIn
<1>7b. Placed(p)'
  BY <1>1, <1>3, <1>7, <1>7a DEF Placed, Writing, Active, Steps
<1>8. Bounded(p)'
  <2>1. ~Owed(p)' /\ Limit(p)' = Limit(p)
    BY <1>3, <1>7 DEF Owed, Limit
  <2>2. /\ plan[p].spent \in Nat /\ job[p].spent \in Nat /\ plan[p].chars \in Nat
        /\ Limit(p) \in Nat /\ Reserved(plan[p].month, p) \in Nat
        /\ charged[p] = plan[p].spent /\ charged[p] <= Limit(p)
        /\ job[p].spent <= Limit(p)
    <3>1. job[p].spent <= billed[p] /\ charged[p] = plan[p].spent /\ charged[p] <= Limit(p)
      BY <1>1, <1>3 DEF Bounded, Active, Steps
    <3>2. QED BY <1>1, <1>4, <3>1 DEF Limit, Larger, Reserved, JobRecord, PlanRecord
  <2>3. charged'[p] \in Nat /\ charged'[p] <= Limit(p)
    BY <1>5, <2>2 DEF AtLeast0, Larger
  <2>4. QED BY <1>3, <1>7, <2>1, <2>3 DEF Bounded
<1>9. Apart(p) /\ left' = left /\ (lock' = lock \/ lock \in {p, Nobody})
  BY <1>1, <1>3, <1>4, <1>5 DEF FailLedger, Take, Apart, Goto, Free, disk, history, Placed, Writing
<1>10. QED BY <1>1, <1>2, <1>7b, <1>8, <1>9, OnceFrame

\* FailPlan keeps its plan's reservation placed and bounded.
LEMMA FailPlanOnce ==
  ASSUME OnceInv, faults = 0, NEW p \in Plans, FailPlan(p)
  PROVE  OnceInv'
<1>1. /\ job \in [Plans -> JobRecord] /\ job[p] \in JobRecord
      /\ plan \in [Plans -> PlanRecord] /\ plan[p] \in PlanRecord
      /\ billed \in [Plans -> Nat] /\ charged \in [Plans -> Nat]
      /\ \A k \in Months : entry[k][p] \in Nat \cup {NoEntry}
      /\ Shape(p) /\ Account(p) /\ Placed(p) /\ Bounded(p)
      /\ IInv /\ TypeInv /\ TypeOK /\ Nobody \notin Plans
  BY OnceFacts
<1>2. IInv'
  BY <1>1, FailPlanAccount
<1>3. /\ job[p].pc = "failed" /\ left = {}
      /\ job'[p].pc = "idle"
      /\ plan'[p].status = "failed"
      /\ plan'[p].chars = plan[p].chars
      /\ plan'[p].month = plan[p].month
      /\ plan'[p].spent = job[p].spent
      /\ plan'[p].recMonth = plan[p].recMonth
      /\ plan'[p].recReserved = plan[p].recReserved
      /\ billed' = billed
      /\ left' = left /\ lock' = Nobody
  BY <1>1 DEF FailPlan, Take, Goto, JobRecord, PlanRecord, NoJob, disk, history, Free, Serving, Shape, Active, Steps
<1>4. charged' = charged /\ entry' = entry
  BY DEF FailPlan, Take, disk, history
<1>5. Holders(p)' = Holders(p)
  BY <1>4 DEF Holders
<1>6. (Owed(p) /\ plan'[p].status = plan[p].status) => plan[p].status = "failed"
  BY DEF Owed
<1>7. Placed(p)'
  BY <1>1, <1>3, <1>4, <1>5, <1>6 DEF Placed, HeldIn, Writing, Shape, Active, Steps, JobRecord, PlanRecord
<1>8. Bounded(p)'
  BY <1>1, <1>3, <1>4, <1>5, <1>6, <1>7 DEF Bounded, Limit, Larger, Owed, Shape, Active, Steps, JobRecord, PlanRecord, Account
<1>9. Apart(p) /\ left' = left /\ (lock' = lock \/ lock \in {p, Nobody})
  BY <1>1, <1>3, <1>4, <1>5 DEF FailPlan, Take, Apart, Goto, Free, disk, history, Placed, Writing
<1>10. QED BY <1>1, <1>2, <1>7, <1>8, <1>9, OnceFrame

\* RecoverCharge keeps its plan's reservation placed and bounded.
LEMMA RecoverChargeOnce ==
  ASSUME OnceInv, faults = 0, NEW p \in Plans, RecoverCharge(p)
  PROVE  OnceInv'
<1>1. /\ job \in [Plans -> JobRecord] /\ job[p] \in JobRecord
      /\ plan \in [Plans -> PlanRecord] /\ plan[p] \in PlanRecord
      /\ billed \in [Plans -> Nat] /\ charged \in [Plans -> Nat]
      /\ \A k \in Months : entry[k][p] \in Nat \cup {NoEntry}
      /\ Shape(p) /\ Account(p) /\ Placed(p) /\ Bounded(p)
      /\ IInv /\ TypeInv /\ TypeOK /\ Nobody \notin Plans
  BY OnceFacts
<1>2. IInv'
  BY <1>1, RecoverChargeAccount
<1>3. /\ p \in left /\ job[p].pc = "idle" /\ Owed(p)
      /\ job' = job
      /\ plan' = plan
      /\ billed' = billed
      /\ left' = left /\ lock' = lock
  BY <1>1 DEF RecoverCharge, Take, Goto, JobRecord, PlanRecord, NoJob, disk, history, Free, Serving, Shape, Active, Steps
<1>4. plan[p].recMonth \in Months /\ WriteLedger(plan[p].recMonth, p, plan[p].recReserved, NoEntry)
  BY <1>1, <1>3 DEF RecoverCharge, Shape, Active, Steps, TypeOK, Owed, Holders
<1>5. /\ charged'[p] = charged[p] + plan[p].recReserved
      /\ entry'[plan[p].recMonth][p] = NoEntry
      /\ \A k \in Months \ {plan[p].recMonth} : entry'[k][p] = entry[k][p]
      /\ \A q \in Plans \ {p} :
           charged'[q] = charged[q] /\ \A k \in Months : entry'[k][q] = entry[k][q]
  BY <1>1, <1>4, LedgerEffect
<1>6. Holders(p)' = IF NoEntry = NoEntry THEN Holders(p) \ {plan[p].recMonth} ELSE Holders(p) \cup {plan[p].recMonth}
  BY <1>1, <1>4, HoldersAfter
<1>7. Placed(p)'
  BY <1>1, <1>3, <1>4, <1>5, <1>6 DEF Placed, HeldIn, Writing, Shape, Active, Steps, JobRecord, PlanRecord
<1>8. Bounded(p)'
  BY <1>1, <1>3, <1>4, <1>5, <1>6, <1>7 DEF Bounded, Limit, Larger, Owed, Shape, Active, Steps, JobRecord, PlanRecord, Account
<1>9. Apart(p) /\ left' = left /\ (lock' = lock \/ lock \in {p, Nobody})
  BY <1>1, <1>3, <1>4, <1>5 DEF RecoverCharge, Take, Apart, Goto, Free, disk, history, Placed, Writing
<1>10. QED BY <1>1, <1>2, <1>7, <1>8, <1>9, OnceFrame

\* RecoverRelease keeps its plan's reservation placed and bounded.
LEMMA RecoverReleaseOnce ==
  ASSUME OnceInv, faults = 0, NEW p \in Plans, NEW m \in Months, RecoverRelease(p, m)
  PROVE  OnceInv'
<1>1. /\ job \in [Plans -> JobRecord] /\ job[p] \in JobRecord
      /\ plan \in [Plans -> PlanRecord] /\ plan[p] \in PlanRecord
      /\ billed \in [Plans -> Nat] /\ charged \in [Plans -> Nat]
      /\ \A k \in Months : entry[k][p] \in Nat \cup {NoEntry}
      /\ Shape(p) /\ Account(p) /\ Placed(p) /\ Bounded(p)
      /\ IInv /\ TypeInv /\ TypeOK /\ Nobody \notin Plans
  BY OnceFacts
<1>2. IInv'
  BY <1>1, RecoverReleaseAccount
<1>3. /\ p \in left /\ job[p].pc = "idle" /\ ~Owed(p)
      /\ job' = job
      /\ plan' = plan
      /\ billed' = billed
      /\ left' = left /\ lock' = lock
  BY <1>1 DEF RecoverRelease, Take, Goto, JobRecord, PlanRecord, NoJob, disk, history, Free, Serving, Shape, Active, Steps
<1>4. m \in Months /\ WriteLedger(m, p, 0, NoEntry)
  BY <1>1, <1>3 DEF RecoverRelease, Shape, Active, Steps, TypeOK, Owed, Holders
<1>5. /\ charged'[p] = charged[p] + 0
      /\ entry'[m][p] = NoEntry
      /\ \A k \in Months \ {m} : entry'[k][p] = entry[k][p]
      /\ \A q \in Plans \ {p} :
           charged'[q] = charged[q] /\ \A k \in Months : entry'[k][q] = entry[k][q]
  BY <1>1, <1>4, LedgerEffect
<1>6. Holders(p)' = IF NoEntry = NoEntry THEN Holders(p) \ {m} ELSE Holders(p) \cup {m}
  BY <1>1, <1>4, HoldersAfter
<1>7. Placed(p)'
  BY <1>1, <1>3, <1>4, <1>5, <1>6 DEF Placed, HeldIn, Writing, Shape, Active, Steps, JobRecord, PlanRecord
<1>8. Bounded(p)'
  <2>1. Limit(p)' = Limit(p) /\ charged'[p] = charged[p]
    BY <1>1, <1>3, <1>5 DEF Limit
  <2>2. Holders(p)' \subseteq Holders(p) /\ m \notin Holders(p)'
    BY <1>6
  <2>3. \A k \in Holders(p)' : entry'[k][p] = entry[k][p]
    BY <1>5, <2>2 DEF Holders
  <2>4. ~Owed(p)'
    BY <1>3, <2>2 DEF Owed
  <2>5. job'[p].pc = "idle"
    BY <1>3
  <2>6. QED BY <1>1, <1>3, <2>1, <2>2, <2>3, <2>4, <2>5 DEF Bounded, Active
<1>9. Apart(p) /\ left' = left /\ (lock' = lock \/ lock \in {p, Nobody})
  BY <1>1, <1>3, <1>4, <1>5 DEF RecoverRelease, Take, Apart, Goto, Free, disk, history, Placed, Writing
<1>10. QED BY <1>1, <1>2, <1>7, <1>8, <1>9, OnceFrame

\* An estimate reserves nothing.
LEMMA PlanAudioOnce ==
  ASSUME OnceInv, faults = 0, NEW p \in Plans, PlanAudio(p)
  PROVE  OnceInv'
<1>1. /\ plan \in [Plans -> PlanRecord] /\ plan[p].status = "none" /\ Shape(p)
      /\ Account(p) /\ Placed(p) /\ Bounded(p) /\ IInv /\ left = {}
      /\ billed[p] = 0 /\ charged[p] = 0 /\ job[p] \in JobRecord
  BY OnceFacts DEF PlanAudio, Serving, Account
<1>2. IInv' /\ plan'[p] \in PlanRecord
  BY <1>1, PlanAudioAccount DEF IInv, TypeInv, TypeOK
<1>3. /\ plan'[p].status = "pending" /\ plan'[p].recMonth = NoMonth
      /\ job' = job /\ billed' = billed /\ charged' = charged /\ entry' = entry
      /\ left' = left /\ lock' = lock
  BY <1>1 DEF PlanAudio, NewPlan, history
<1>4. Apart(p)
  BY <1>1, <1>3 DEF Apart, PlanAudio
<1>5. job[p].pc = "idle" /\ Holders(p) = {}
  <2>1. job[p].pc = "idle"
    BY <1>1 DEF Shape, Active, Steps, JobRecord
  <2>2. QED BY <1>1, <2>1 DEF Placed, HeldIn
<1>6. Holders(p)' = {}
  BY <1>3, <1>5 DEF Holders
<1>7. Placed(p)'
  BY <1>1, <1>3, <1>5, <1>6 DEF Placed, HeldIn, Writing, Active
<1>8. Bounded(p)'
  BY <1>1, <1>2, <1>3, <1>5, <1>6 DEF Bounded, Limit, Larger, Owed, Active, PlanRecord
<1>9. QED BY <1>1, <1>2, <1>3, <1>4, <1>7, <1>8, OnceFrame

\* Recovery takes note of a reservation the limit covers.
LEMMA RecoverMarkOnce ==
  ASSUME OnceInv, faults = 0, NEW p \in Plans, RecoverMark(p)
  PROVE  OnceInv'
<1>1. /\ plan \in [Plans -> PlanRecord] /\ plan[p] \in PlanRecord
      /\ billed[p] \in Nat /\ charged[p] \in Nat
      /\ Shape(p) /\ Placed(p) /\ Bounded(p) /\ IInv
  BY OnceFacts
<1>2. IInv'
  BY <1>1, RecoverMarkAccount
<1>3. /\ job' = job /\ billed' = billed /\ charged' = charged /\ entry' = entry
      /\ left' = left /\ lock' = lock /\ p \in left
      /\ job[p].pc = "idle" /\ plan[p].status = "running" /\ Apart(p)
  BY <1>1 DEF RecoverMark, Shape, Apart, history
<1>4. PICK m \in Months :
        /\ plan'[p].status = "failed" /\ plan'[p].recMonth = m
        /\ plan'[p].recReserved = Reserved(m, p) /\ plan'[p].chars = plan[p].chars
  BY <1>1 DEF RecoverMark, PlanRecord
<1>5. Holders(p)' = Holders(p)
  BY <1>3 DEF Holders
<1>6. Placed(p)'
  BY <1>1, <1>3, <1>4, <1>5 DEF Placed, Writing, Active
<1>7. m \in Holders(p) => charged[p] + Reserved(m, p) <= Limit(p)
  BY <1>1, <1>3 DEF Bounded, Reserved, Holders
<1>8. Bounded(p)'
  BY <1>1, <1>3, <1>4, <1>5, <1>7 DEF Bounded, Limit, Owed, Active
<1>9. QED BY <1>2, <1>3, <1>6, <1>8, OnceFrame

\* Recovery leaves a plan when it holds nothing.
LEMMA RecoverNextOnce ==
  ASSUME OnceInv, faults = 0, NEW p \in Plans, RecoverNext(p)
  PROVE  OnceInv'
<1>1. /\ p \in left /\ plan[p].status # "running" /\ Holders(p) = {}
      /\ left' = left \ {p} /\ lock' = lock /\ job' = job /\ plan' = plan
      /\ entry' = entry /\ billed' = billed /\ charged' = charged
  BY DEF RecoverNext, disk, history
<1>2. IInv'
  BY OnceFacts, RecoverNextAccount
<1>3. ASSUME NEW q \in Plans PROVE Placed(q)' /\ Bounded(q)'
  <2>1. Shape(q) /\ Placed(q) /\ Bounded(q)
    BY OnceFacts
  <2>2. /\ Holders(q)' = Holders(q) /\ (Owed(q)' <=> Owed(q)) /\ HeldIn(q)' = HeldIn(q)
        /\ Limit(q)' = Limit(q)
    BY <1>1 DEF Holders, Owed, HeldIn, Limit
  <2>3. q \notin left' => Holders(q) = {} /\ plan[q].status # "running"
    BY <1>1, <2>1 DEF Placed
  <2>4. job[q].pc = "idle"
    BY <1>1, <2>1 DEF Shape
  <2>5. Placed(q)'
    BY <1>1, <2>1, <2>2, <2>3, <2>4 DEF Placed, HeldIn, Writing, Active
  <2>6. QED BY <1>1, <2>1, <2>2, <2>5 DEF Bounded
<1>4. QED BY <1>2, <1>3 DEF OnceInv

\* A crash forgets the jobs; the stored plans wait for recovery.
LEMMA CrashOnce ==
  ASSUME OnceInv, faults = 0, Crash
  PROVE  OnceInv'
<1>1. /\ plan' = plan /\ entry' = entry /\ billed' = billed /\ charged' = charged
      /\ left' = {q \in Plans : plan[q].status # "none"}
      /\ \A q \in Plans : job'[q].pc = "idle"
  BY DEF Crash, disk, history, NoJob
<1>2. IInv'
  BY CrashAccount DEF OnceInv
<1>3. ASSUME NEW q \in Plans PROVE Placed(q)' /\ Bounded(q)'
  <2>1. Shape(q) /\ Placed(q) /\ Bounded(q) /\ job[q] \in JobRecord
    BY OnceFacts
  <2>2. /\ Holders(q)' = Holders(q) /\ (Owed(q)' <=> Owed(q)) /\ Limit(q)' = Limit(q)
    BY <1>1 DEF Holders, Owed, Limit
  <2>3. plan[q].status = "none" => Holders(q) = {}
    BY <2>1 DEF Placed, HeldIn, Shape, Active, JobRecord
  <2>4. Placed(q)'
    BY <1>1, <2>2, <2>3 DEF Placed, HeldIn, Writing, Active
  <2>5. QED BY <1>1, <2>1, <2>2, <2>4 DEF Bounded, Active
<1>4. QED BY <1>2, <1>3 DEF OnceInv

\* The clock and the cap move no reservation.
LEMMA WorldOnce ==
  ASSUME OnceInv, faults = 0, SetCap \/ AdvanceMonth \/ UNCHANGED vars
  PROVE  OnceInv'
<1>1. /\ plan' = plan /\ entry' = entry /\ billed' = billed /\ charged' = charged
      /\ left' = left /\ job' = job /\ lock' = lock
  BY DEF SetCap, AdvanceMonth, vars, disk, history
<1>2. IInv'
  BY CrashAccount DEF OnceInv
<1>3. ASSUME NEW q \in Plans PROVE Placed(q)' /\ Bounded(q)'
  <2>1. Placed(q) /\ Bounded(q)
    BY OnceFacts
  <2>2. /\ Holders(q)' = Holders(q) /\ (Owed(q)' <=> Owed(q)) /\ Limit(q)' = Limit(q)
        /\ HeldIn(q)' = HeldIn(q)
    BY <1>1 DEF Holders, Owed, Limit, HeldIn
  <2>3. QED BY <1>1, <2>1, <2>2 DEF Bounded, Placed
<1>4. QED BY <1>2, <1>3 DEF OnceInv

\* At first nothing is reserved.
LEMMA InitOnce == Init => OnceInv
<1>1. SUFFICES ASSUME Init PROVE OnceInv
  OBVIOUS
<1>2. ASSUME NEW p \in Plans PROVE Placed(p) /\ Bounded(p)
  <2>1. Holders(p) = {} /\ job[p].pc = "idle" /\ plan[p].status = "none" /\ left = {}
        /\ charged[p] = 0 /\ billed[p] = 0 /\ plan[p].chars = 0
    BY <1>1 DEF Init, NewPlan, NoJob, Holders
  <2>2. QED BY <2>1 DEF Placed, HeldIn, Bounded, Limit, Larger, Owed, Writing, Active
<1>3. QED BY <1>1, <1>2, InitAccount DEF OnceInv

\* Faults are counted up only.
LEMMA FaultsGrow == IInv /\ [Next]_vars => faults \in Nat /\ (faults' = 0 => faults = 0)
<1>1. SUFFICES ASSUME IInv, [Next]_vars PROVE faults \in Nat /\ (faults' = 0 => faults = 0)
  OBVIOUS
<1>2. faults \in Nat
  BY <1>1, BoundsAssumption DEF IInv, TypeInv, TypeOK
<1>3. faults' \in {faults, faults + 1}
  <2>1. CASE SetCap \/ Crash \/ AdvanceMonth \/ UNCHANGED vars
    BY <2>1 DEF SetCap, Crash, AdvanceMonth, vars, world
  <2>2. ASSUME NEW p \in Plans, PlanAudio(p) \/ ClaimReserve(p) \/ Recover(p)
        PROVE  faults' = faults
    BY <2>2 DEF PlanAudio, ClaimReserve, Recover, RecoverMark, RecoverCharge, RecoverRelease,
       RecoverNext, world
  <2>3. ASSUME NEW p \in Plans, Work(p)
        PROVE  faults' = faults
    BY <2>3 DEF Work, ClaimStart, NoCredentials, SelectClips, SameMonth, MoveIn, MoveOut,
       MovePlan, MoveRefused, ProviderAnswers, ProviderFails, BookLedger, BookPlan,
       StoreAsset, FinishLedger, FinishPlan, FailLedger, FailPlan, world
  <2>4. ASSUME NEW p \in Plans, WriteRaises(p)
        PROVE  faults' = faults + 1
    BY <2>4 DEF WriteRaises
  <2>5. QED BY <1>1, <2>1, <2>2, <2>3, <2>4 DEF Next
<1>4. QED BY <1>2, <1>3

\* Every step keeps the reservations placed and bounded, unless a write raises.
LEMMA NextOnce == OnceInv /\ [Next]_vars => OnceInv'
<1>1. SUFFICES ASSUME OnceInv, [Next]_vars PROVE OnceInv'
  OBVIOUS
<1>2. IInv'
  BY <1>1, NextAccount DEF OnceInv
<1>3. CASE faults' # 0
  BY <1>2, <1>3 DEF OnceInv
<1>4. CASE faults' = 0
  <2>1. faults = 0
    BY <1>1, <1>4, FaultsGrow DEF OnceInv
  <2>2. CASE SetCap \/ Crash \/ AdvanceMonth \/ UNCHANGED vars
    BY <1>1, <2>1, <2>2, CrashOnce, WorldOnce
  <2>3. ASSUME NEW p \in Plans, PlanAudio(p) \/ ClaimReserve(p)
        PROVE  OnceInv'
    BY <1>1, <2>1, <2>3, PlanAudioOnce, ClaimReserveOnce
  <2>4. ASSUME NEW p \in Plans, Recover(p)
        PROVE  OnceInv'
    BY <1>1, <2>1, <2>4, RecoverMarkOnce, RecoverChargeOnce, RecoverReleaseOnce,
       RecoverNextOnce DEF Recover
  <2>5. ASSUME NEW p \in Plans, Work(p)
        PROVE  OnceInv'
    BY <1>1, <2>1, <2>5, QuietSteps, ClaimStartOnce, MoveInOnce, MoveOutOnce,
       MovePlanOnce, ProviderAnswersOnce, BookLedgerOnce, BookPlanOnce,
       FinishLedgerOnce, FinishPlanOnce, FailLedgerOnce, FailPlanOnce DEF Work
  <2>6. ASSUME NEW p \in Plans, WriteRaises(p)
        PROVE  OnceInv'
    BY <1>4, <2>1, <2>6 DEF WriteRaises
  <2>7. QED BY <1>1, <2>2, <2>3, <2>4, <2>5, <2>6 DEF Next
<1>5. QED BY <1>3, <1>4

\* Unless a write raises, a plan is reserved for in one month at a time and
\* never charged beyond what was confirmed or answered, whatever the crashes,
\* the month ends and the recoveries on its way.
THEOREM ReservedOnceChargedOnce == Spec => []ReservedAndChargedOnce
<1>1. OnceInv => ReservedAndChargedOnce
  <2>1. SUFFICES ASSUME OnceInv, faults = 0
                 PROVE  OneReservation /\ ChargedOnce
    BY DEF ReservedAndChargedOnce, OneReservation, ChargedOnceUnlessRaised
  <2>2. ASSUME NEW p \in Plans, left = {}, lock = Nobody
        PROVE  Holders(p) = IF plan[p].status = "running" THEN {plan[p].month} ELSE {}
    BY <2>1, <2>2, OnceFacts DEF Placed, HeldIn, Writing
  <2>3. ChargedOnce
    BY <2>1, OnceFacts DEF ChargedOnce, Bounded, Limit
  <2>4. QED BY <2>2, <2>3 DEF OneReservation, Serving, Free
<1>2. QED BY <1>1, InitOnce, NextOnce, PTL DEF Spec

(***************************************************************************)
(* The budget implements AudioSpend.  A step concerns one plan; what it    *)
(* does to the promise of that plan is one of a few moves.                 *)
(***************************************************************************)
\* A plan whose status and whose debt to recovery stay, is in the phase it was.
LEMMA PhaseStays ==
  ASSUME NEW p \in Plans, plan'[p].status = plan[p].status, Owed(p)' <=> Owed(p)
  PROVE  Phase(p)' = Phase(p)
BY DEF Phase, Settled

\* What a step may do to the promise of plan p.
Settles(p) ==
  /\ billed'[p] = billed[p] \/ (Phase(p) = "open" /\ billed[p] <= billed'[p]
                                /\ charged'[p] = charged[p])
  /\ charged'[p] = charged[p] \/ (Phase(p) = "open" /\ charged[p] <= charged'[p])
  /\ plan'[p].chars = plan[p].chars
     \/ (Phase(p) = "offered" /\ Phase(p)' = "offered"
         /\ billed'[p] = billed[p] /\ charged'[p] = charged[p])
  /\ \/ Phase(p)' = Phase(p)
     \/ /\ Phase(p) = "offered" /\ Phase(p)' = "open"
        /\ billed'[p] = billed[p] /\ charged'[p] = charged[p]
     \/ /\ Phase(p) = "open" /\ Phase(p)' = "closed" /\ billed'[p] = billed[p]
        /\ billed[p] <= charged'[p] \/ plan[p].chars <= charged'[p]

\* Such a step about one plan is a step of AudioSpend, or none.
LEMMA SpendFrame ==
  ASSUME IInv, IInv', NEW p \in Plans, Apart(p), Settles(p)
  PROVE  [Spend!Next]_(Spend!vars)
<1>1. /\ billed \in [Plans -> Nat] /\ billed' \in [Plans -> Nat]
      /\ charged \in [Plans -> Nat] /\ charged' \in [Plans -> Nat]
      /\ plan[p].chars \in Nat /\ plan'[p].chars \in Nat
  BY DEF IInv, TypeInv, TypeOK, PlanRecord
<1> DEFINE ph == [q \in Plans |-> Phase(q)]
           co == [q \in Plans |-> plan[q].chars]
<1>2. \A q \in Plans \ {p} : /\ Phase(q)' = Phase(q) /\ plan'[q].chars = plan[q].chars
                             /\ billed'[q] = billed[q] /\ charged'[q] = charged[q]
  BY DEF Apart, Phase, Settled, Owed, Holders
<1>3. /\ ph' = [ph EXCEPT ![p] = Phase(p)'] /\ co' = [co EXCEPT ![p] = plan'[p].chars]
      /\ billed' = [billed EXCEPT ![p] = billed'[p]]
      /\ charged' = [charged EXCEPT ![p] = charged'[p]]
      /\ ph[p] = Phase(p) /\ co[p] = plan[p].chars
      /\ ph'[p] = Phase(p)' /\ co'[p] = plan'[p].chars
  BY <1>1, <1>2
<1>4. /\ Phase(p)' = Phase(p) => ph' = ph
      /\ plan'[p].chars = plan[p].chars => co' = co
      /\ billed'[p] = billed[p] => billed' = billed
      /\ charged'[p] = charged[p] => charged' = charged
  <2>1. /\ Phase(p)' = Phase(p) => \A q \in Plans : Phase(q)' = Phase(q)
        /\ plan'[p].chars = plan[p].chars => \A q \in Plans : plan'[q].chars = plan[q].chars
        /\ billed'[p] = billed[p] => \A q \in Plans : billed'[q] = billed[q]
        /\ charged'[p] = charged[p] => \A q \in Plans : charged'[q] = charged[q]
    BY <1>2
  <2>2. QED BY <1>1, <2>1
<1> HIDE DEF ph, co
<1>5. CASE /\ Phase(p)' = Phase(p) /\ plan'[p].chars = plan[p].chars
           /\ billed'[p] = billed[p] /\ charged'[p] = charged[p]
  BY <1>4, <1>5 DEF Spend!vars, ph, co
<1>6. CASE /\ plan'[p].chars # plan[p].chars
  <2>1. Spend!Estimate(p)
    BY <1>1, <1>3, <1>4, <1>6 DEF Settles, Spend!Estimate, Spend!Sets, ph, co
  <2>2. QED BY <2>1 DEF Spend!Next
<1>7. CASE Phase(p) = "offered" /\ Phase(p)' = "open"
  <2>1. Spend!Open(p)
    BY <1>3, <1>4, <1>7 DEF Settles, Spend!Open, ph, co
  <2>2. QED BY <2>1 DEF Spend!Next
<1>8. CASE Phase(p) = "open" /\ Phase(p)' = "closed"
  <2>1. Spend!Close(p)
    BY <1>1, <1>3, <1>4, <1>8 DEF Settles, Spend!Close, Spend!Raises, Spend!Sets, Spend!Covered, ph, co
  <2>2. QED BY <2>1 DEF Spend!Next
<1>9. CASE Phase(p)' = Phase(p) /\ billed'[p] # billed[p]
  <2>1. Spend!Answer(p)
    BY <1>1, <1>3, <1>4, <1>9 DEF Settles, Spend!Answer, Spend!Raises, Spend!Sets, ph, co
  <2>2. QED BY <2>1 DEF Spend!Next
<1>10. CASE /\ Phase(p)' = Phase(p) /\ billed'[p] = billed[p] /\ charged'[p] # charged[p]
  <2>1. Spend!Charge(p)
    BY <1>1, <1>3, <1>4, <1>10 DEF Settles, Spend!Charge, Spend!Raises, Spend!Sets, ph, co
  <2>2. QED BY <2>1 DEF Spend!Next
<1>11. QED BY <1>5, <1>6, <1>7, <1>8, <1>9, <1>10 DEF Settles

\* Steps that neither answer nor charge, and leave the record or only its month
\* and its booked result, while the plan runs.
LEMMA RunningSpend ==
  ASSUME IInv, IInv', NEW p \in Plans, Apart(p),
         plan[p].status = "running", plan'[p].status = "running",
         plan'[p].chars = plan[p].chars,
         \/ billed'[p] = billed[p] /\ charged[p] <= charged'[p]
         \/ billed[p] <= billed'[p] /\ charged'[p] = charged[p]
  PROVE  [Spend!Next]_(Spend!vars)
<1>1. Phase(p) = "open" /\ Phase(p)' = "open"
  BY DEF Phase, Settled
<1>2. QED BY <1>1, SpendFrame DEF Settles

\* A plan that ends is covered, by its account.
LEMMA ClosingSpend ==
  ASSUME IInv, IInv', NEW p \in Plans, Apart(p),
         Phase(p) = "open", Phase(p)' \in {"open", "closed"},
         plan'[p].chars = plan[p].chars, billed'[p] = billed[p],
         charged[p] <= charged'[p]
  PROVE  [Spend!Next]_(Spend!vars)
<1>1. Phase(p)' = "closed" => billed'[p] <= charged'[p] \/ plan'[p].chars <= charged'[p]
  <2>1. SUFFICES ASSUME Settled(p)'
                 PROVE  billed'[p] <= charged'[p] \/ plan'[p].chars <= charged'[p]
    BY DEF Phase
  <2>2. Account(p)'
    BY DEF IInv
  <2>3. QED BY <2>1, <2>2 DEF Settled, Account, Booked
<1>2. QED BY <1>1, SpendFrame DEF Settles

\* Steps that leave the plans, the ledgers and the answers alone.
LEMMA AloneSpend ==
  ASSUME plan' = plan, entry' = entry, billed' = billed, charged' = charged
  PROVE  [Spend!Next]_(Spend!vars)
<1>1. \A p \in Plans : Phase(p)' = Phase(p)
  BY DEF Phase, Settled, Owed, Holders
<1>2. QED BY <1>1 DEF Spend!vars

\* An estimate is made before anything is confirmed.
LEMMA EstimateSpend ==
  ASSUME IInv, NEW p \in Plans, PlanAudio(p)
  PROVE  [Spend!Next]_(Spend!vars)
<1>1. IInv' /\ plan[p] \in PlanRecord /\ plan \in [Plans -> PlanRecord]
  BY PlanAudioAccount DEF IInv, TypeInv, TypeOK
<1>2. /\ plan[p].status = "none" /\ plan'[p].status = "pending"
      /\ billed' = billed /\ charged' = charged
  BY <1>1 DEF PlanAudio, NewPlan, history
<1>3. Apart(p)
  BY <1>1, <1>2 DEF Apart, PlanAudio
<1>4. Phase(p) = "offered" /\ Phase(p)' = "offered"
  BY <1>2 DEF Phase
<1>5. QED BY <1>1, <1>2, <1>3, <1>4, SpendFrame DEF Settles

\* The reservation comes before the plan is open; its record opens it.
LEMMA ConfirmSpend ==
  ASSUME IInv, NEW p \in Plans, ClaimReserve(p) \/ ClaimStart(p)
  PROVE  [Spend!Next]_(Spend!vars)
<1>1. /\ IInv' /\ plan \in [Plans -> PlanRecord] /\ plan[p] \in PlanRecord
      /\ job \in [Plans -> JobRecord] /\ job[p] \in JobRecord
      /\ charged \in [Plans -> Nat] /\ Shape(p) /\ TypeOK
  BY ClaimReserveAccount, ClaimStartAccount DEF IInv, TypeInv, TypeOK
<1>2. CASE ClaimReserve(p)
  <2>1. /\ plan' = plan /\ billed' = billed /\ plan[p].status = "pending"
        /\ \A q \in Plans \ {p} : job'[q] = job[q]
    BY <1>1, <1>2 DEF ClaimReserve
  <2>2. now \in Months /\ WriteLedger(now, p, 0, plan[p].chars)
    BY <1>1, <1>2 DEF ClaimReserve, TypeOK
  <2>3. /\ charged'[p] = charged[p]
        /\ \A q \in Plans \ {p} :
             charged'[q] = charged[q] /\ \A k \in Months : entry'[k][q] = entry[k][q]
    <3>1. charged'[p] = charged[p] + 0
      BY <1>1, <2>2, LedgerEffect
    <3>2. QED BY <1>1, <2>2, <3>1, LedgerEffect
  <2>4. Apart(p)
    BY <2>1, <2>3 DEF Apart
  <2>5. Phase(p) = "offered" /\ Phase(p)' = "offered"
    BY <2>1 DEF Phase
  <2>6. QED BY <1>1, <2>1, <2>3, <2>4, <2>5, SpendFrame DEF Settles
<1>3. CASE ClaimStart(p)
  <2>1. /\ plan[p].status = "pending" /\ plan'[p].status = "running"
        /\ plan'[p].chars = plan[p].chars
        /\ billed' = billed /\ charged' = charged /\ entry' = entry
        /\ \A q \in Plans \ {p} : plan'[q] = plan[q] /\ job'[q] = job[q]
    BY <1>1, <1>3 DEF ClaimStart, Shape, PlanRecord, Goto, history
  <2>2. Apart(p)
    BY <2>1 DEF Apart
  <2>3. Phase(p) = "offered" /\ Phase(p)' = "open"
    BY <2>1 DEF Phase, Settled
  <2>4. QED BY <1>1, <2>1, <2>2, <2>3, SpendFrame DEF Settles
<1>4. QED BY <1>2, <1>3

\* The steps of a job that write a ledger or receive an answer.
LEMMA LedgerSpend ==
  ASSUME IInv, NEW p \in Plans,
         \/ \E c \in Clips : MoveIn(p, c)
         \/ MoveOut(p) \/ BookLedger(p) \/ FinishLedger(p) \/ FailLedger(p)
  PROVE  [Spend!Next]_(Spend!vars)
<1>1. /\ IInv' /\ plan \in [Plans -> PlanRecord] /\ plan[p] \in PlanRecord
      /\ job \in [Plans -> JobRecord] /\ job[p] \in JobRecord
      /\ charged \in [Plans -> Nat] /\ Shape(p) /\ TypeOK
  BY MoveInAccount, MoveOutAccount, BookLedgerAccount, FinishLedgerAccount,
     FailLedgerAccount DEF IInv, TypeInv, TypeOK
<1>2. plan[p].status = "running" /\ plan[p].month \in Months
  BY <1>1 DEF Shape, Active, Steps, MoveIn, MoveOut, BookLedger, FinishLedger, FailLedger
<1>3. /\ plan' = plan /\ billed' = billed
      /\ \A q \in Plans \ {p} : job'[q] = job[q]
  BY <1>1 DEF MoveIn, MoveOut, BookLedger, FinishLedger, FailLedger, Take, Goto
<1>4. \E m \in Months, n \in Nat : \E e : WriteLedger(m, p, n, e)
  <2>1. CASE \E c \in Clips : MoveIn(p, c)
    BY <1>1, <2>1 DEF MoveIn, TypeOK
  <2>2. CASE MoveOut(p)
    BY <1>2, <2>2 DEF MoveOut
  <2>3. CASE FinishLedger(p)
    BY <1>1, <2>3 DEF FinishLedger, Shape
  <2>4. CASE BookLedger(p)
    <3>1. AtLeast0(job[p].spent - plan[p].spent) \in Nat
      BY <1>1 DEF AtLeast0, JobRecord, PlanRecord
    <3>2. QED BY <1>2, <2>4, <3>1 DEF BookLedger
  <2>5. CASE FailLedger(p)
    <3>1. Reserved(plan[p].month, p) \in Nat
      BY <1>1, <1>2 DEF Reserved, TypeOK
    <3>2. AtLeast0(Larger(job[p].spent, plan[p].spent)
                   - Larger(plan[p].spent, plan[p].chars - Reserved(plan[p].month, p))) \in Nat
      BY <1>1, <3>1 DEF AtLeast0, Larger, JobRecord, PlanRecord
    <3>3. QED BY <1>2, <2>5, <3>2 DEF FailLedger
  <2>6. QED BY <2>1, <2>2, <2>3, <2>4, <2>5
<1>5. /\ charged[p] <= charged'[p]
      /\ \A q \in Plans \ {p} :
           charged'[q] = charged[q] /\ \A k \in Months : entry'[k][q] = entry[k][q]
  <2>1. PICK m \in Months, n \in Nat : \E e : WriteLedger(m, p, n, e)
    BY <1>4
  <2>2. PICK e : WriteLedger(m, p, n, e)
    BY <2>1
  <2>3. charged'[p] = charged[p] + n
    BY <1>1, <2>2, LedgerEffect
  <2>4. QED BY <1>1, <2>2, <2>3, LedgerEffect
<1>6. Apart(p)
  BY <1>3, <1>5 DEF Apart
<1>7. QED BY <1>1, <1>2, <1>3, <1>5, <1>6, RunningSpend

\* The steps of a job that write its plan's record, which stays running, or
\* receive an answer.
LEMMA RecordSpend ==
  ASSUME IInv, NEW p \in Plans, MovePlan(p) \/ BookPlan(p) \/ ProviderAnswers(p)
  PROVE  [Spend!Next]_(Spend!vars)
<1>1. /\ IInv' /\ plan \in [Plans -> PlanRecord] /\ plan[p] \in PlanRecord
      /\ job \in [Plans -> JobRecord] /\ job[p] \in JobRecord
      /\ billed \in [Plans -> Nat] /\ Shape(p)
  BY MovePlanAccount, BookPlanAccount, ProviderAnswersAccount DEF IInv, TypeInv, TypeOK
<1>2. plan[p].status = "running" /\ (ProviderAnswers(p) => job[p].clip \in Clips)
  BY <1>1 DEF Shape, Active, Steps, MovePlan, BookPlan, ProviderAnswers
<1>3. /\ plan'[p].status = "running" /\ plan'[p].chars = plan[p].chars
      /\ charged' = charged /\ entry' = entry
      /\ \A q \in Plans \ {p} : /\ plan'[q] = plan[q] /\ job'[q] = job[q]
                                /\ billed'[q] = billed[q]
  BY <1>1, <1>2 DEF MovePlan, BookPlan, ProviderAnswers, Goto, PlanRecord, disk, history
<1>4. billed[p] <= billed'[p]
  <2>1. ProviderAnswers(p) => Characters[{job[p].clip}] \in Nat
    BY <1>2, CharactersAssumption
  <2>2. ProviderAnswers(p) => billed'[p] = billed[p] + Characters[{job[p].clip}]
    BY <1>1 DEF ProviderAnswers
  <2>3. MovePlan(p) \/ BookPlan(p) => billed' = billed
    BY DEF MovePlan, BookPlan, history
  <2>4. QED BY <1>1, <2>1, <2>2, <2>3
<1>5. Apart(p)
  BY <1>3 DEF Apart
<1>6. QED BY <1>1, <1>2, <1>3, <1>4, <1>5, RunningSpend

\* The ends of a plan: its job's, and what recovery notes and charges.
LEMMA EndSpend ==
  ASSUME IInv, NEW p \in Plans,
         FinishPlan(p) \/ FailPlan(p) \/ RecoverMark(p) \/ RecoverCharge(p)
  PROVE  [Spend!Next]_(Spend!vars)
<1>1. /\ IInv' /\ plan \in [Plans -> PlanRecord] /\ plan[p] \in PlanRecord
      /\ job \in [Plans -> JobRecord] /\ job[p] \in JobRecord
      /\ charged \in [Plans -> Nat] /\ Shape(p) /\ TypeOK
  BY FinishPlanAccount, FailPlanAccount, RecoverMarkAccount, RecoverChargeAccount
     DEF IInv, TypeInv, TypeOK
<1>2. CASE FinishPlan(p) \/ FailPlan(p) \/ RecoverMark(p)
  <2>1. /\ plan[p].status = "running" /\ plan'[p].status \in {"completed", "failed"}
        /\ plan'[p].chars = plan[p].chars
        /\ billed' = billed /\ charged' = charged /\ entry' = entry
        /\ \A q \in Plans \ {p} : plan'[q] = plan[q] /\ job'[q] = job[q]
    <3>1. CASE FinishPlan(p) \/ FailPlan(p)
      BY <1>1, <3>1 DEF FinishPlan, FailPlan, Shape, Active, Steps, PlanRecord, history
    <3>2. CASE RecoverMark(p)
      <4>1. PICK m \in Months :
              plan' = [plan EXCEPT ![p].status = "failed", ![p].recMonth = m,
                                   ![p].recReserved = Reserved(m, p),
                                   ![p].spent = plan[p].chars]
        BY <3>2 DEF RecoverMark
      <4>2. plan'[p].status = "failed" /\ plan'[p].chars = plan[p].chars
            /\ \A q \in Plans \ {p} : plan'[q] = plan[q]
        BY <1>1, <4>1 DEF PlanRecord
      <4>3. QED BY <1>1, <3>2, <4>2 DEF RecoverMark, history
    <3>3. QED BY <1>2, <3>1, <3>2
  <2>2. Apart(p)
    BY <2>1 DEF Apart
  <2>3. Phase(p) = "open" /\ Phase(p)' \in {"open", "closed"}
    BY <2>1 DEF Phase, Settled
  <2>4. QED BY <1>1, <2>1, <2>2, <2>3, ClosingSpend
<1>3. CASE RecoverCharge(p)
  <2>1. /\ plan' = plan /\ billed' = billed /\ job' = job
        /\ plan[p].status = "failed" /\ Owed(p)
        /\ plan[p].recMonth \in Months /\ plan[p].recReserved \in Nat
        /\ WriteLedger(plan[p].recMonth, p, plan[p].recReserved, NoEntry)
    BY <1>1, <1>3 DEF RecoverCharge, Owed, Holders, PlanRecord
  <2>2. charged'[p] = charged[p] + plan[p].recReserved
    BY <1>1, <2>1, LedgerEffect
  <2>3. \A q \in Plans \ {p} :
          charged'[q] = charged[q] /\ \A k \in Months : entry'[k][q] = entry[k][q]
    BY <1>1, <2>1, LedgerEffect
  <2>4. Apart(p)
    BY <2>1, <2>3 DEF Apart
  <2>5. Phase(p) = "open" /\ Phase(p)' \in {"open", "closed"}
    BY <2>1 DEF Phase, Settled
  <2>6. charged[p] <= charged'[p]
    BY <1>1, <2>1, <2>2
  <2>7. QED BY <1>1, <2>1, <2>4, <2>5, <2>6, ClosingSpend
<1>4. QED BY <1>2, <1>3

\* Recovery's removal of other reservations touches no plan that is owed one.
LEMMA ReleaseSpend ==
  ASSUME IInv, NEW p \in Plans, NEW m \in Months, RecoverRelease(p, m)
  PROVE  [Spend!Next]_(Spend!vars)
<1>1. IInv' /\ TypeOK /\ charged \in [Plans -> Nat]
  BY RecoverReleaseAccount DEF IInv, TypeInv, TypeOK
<1>2. /\ plan' = plan /\ billed' = billed /\ job' = job
      /\ ~Owed(p) /\ WriteLedger(m, p, 0, NoEntry)
  BY DEF RecoverRelease
<1>3. charged'[p] = charged[p] + 0 /\ entry'[m][p] = NoEntry
      /\ \A k \in Months \ {m} : entry'[k][p] = entry[k][p]
  BY <1>1, <1>2, LedgerEffect
<1>4. \A q \in Plans \ {p} :
        charged'[q] = charged[q] /\ \A k \in Months : entry'[k][q] = entry[k][q]
  BY <1>1, <1>2, LedgerEffect
<1>5. Apart(p)
  BY <1>2, <1>4 DEF Apart
<1>6. ~Owed(p)'
  BY <1>2, <1>3 DEF Owed, Holders
<1>7. Phase(p)' = Phase(p)
  BY <1>2, <1>6 DEF Phase, Settled
<1>8. charged'[p] = charged[p]
  BY <1>1, <1>3
<1>9. QED BY <1>1, <1>2, <1>5, <1>7, <1>8, SpendFrame DEF Settles

\* Every step keeps the promise.
LEMMA NextSpend == IInv /\ [Next]_vars => [Spend!Next]_(Spend!vars)
<1>1. SUFFICES ASSUME IInv, [Next]_vars PROVE [Spend!Next]_(Spend!vars)
  OBVIOUS
<1>2. CASE SetCap \/ Crash \/ AdvanceMonth \/ UNCHANGED vars
  BY <1>2, AloneSpend DEF SetCap, Crash, AdvanceMonth, vars, disk, history
<1>3. ASSUME NEW p \in Plans, PlanAudio(p) \/ ClaimReserve(p) \/ WriteRaises(p)
      PROVE  [Spend!Next]_(Spend!vars)
  BY <1>1, <1>3, EstimateSpend, ConfirmSpend, AloneSpend DEF WriteRaises, disk, history
<1>4. ASSUME NEW p \in Plans, Recover(p)
      PROVE  [Spend!Next]_(Spend!vars)
  <2>1. CASE RecoverNext(p)
    BY <2>1, AloneSpend DEF RecoverNext, disk, history
  <2>2. QED BY <1>1, <1>4, <2>1, EndSpend, ReleaseSpend DEF Recover
<1>5. ASSUME NEW p \in Plans, Work(p)
      PROVE  [Spend!Next]_(Spend!vars)
  <2>1. CASE \/ NoCredentials(p) \/ SelectClips(p) \/ MoveRefused(p) \/ ProviderFails(p)
             \/ StoreAsset(p) \/ \E c \in Clips : SameMonth(p, c)
    BY <2>1, AloneSpend DEF NoCredentials, SelectClips, MoveRefused, ProviderFails, StoreAsset,
       SameMonth, disk, history
  <2>2. QED BY <1>1, <1>5, <2>1, ConfirmSpend, LedgerSpend, RecordSpend, EndSpend DEF Work
<1>6. QED BY <1>1, <1>2, <1>3, <1>4, <1>5 DEF Next

\* The budget implements the promise of AudioSpend: a confirmation is opened
\* once and closed once, charged only while it is open, and closed only when
\* its charge covers what the provider answered or what the author confirmed.
THEOREM BudgetKeepsPromise == Spec => ImplementsSpend
<1>1. Init => Spend!Init
  <2>1. Init => \A p \in Plans : Phase(p) = "offered" /\ plan[p].chars = 0
    BY DEF Init, NewPlan, Phase
  <2>2. QED BY <2>1 DEF Init, Spend!Init
<1>2. QED BY <1>1, InitAccount, NextAccount, NextSpend, PTL DEF Spec, ImplementsSpend, Spend!Spec
=============================================================================
