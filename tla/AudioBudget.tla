---------------------------- MODULE AudioBudget ----------------------------
(***************************************************************************)
(* The workbench's paid speech synthesis.  A cost plan is confirmed once;  *)
(* its job reserves the confirmed characters in the ledger of the current  *)
(* month, calls the provider clip by clip, books each answer, and gives    *)
(* the rest of the reservation back.  Plans and monthly ledgers are files  *)
(* written one at a time, so a crash or a failing write may fall between   *)
(* any two of them; at the next start every interrupted plan is settled.   *)
(*                                                                         *)
(* Each write of a file is one step.  The steps of one `with lock` block   *)
(* hold lock = p from the first write to the last.                         *)
(*                                                                         *)
(* Source: application/operations/workbench_audio.py.                      *)
(***************************************************************************)
EXTENDS Integers, FiniteSets, FiniteSetsExt

CONSTANTS
  Plans,        \* confirmation tokens
  Clips,        \* audio fingerprints of the lesson source
  Characters,   \* Characters[S]: length of the texts of the clips in S
  LastMonth,    \* bound: the clock stops in this month
  Price,        \* cost of one character
  Increment,    \* estimates are rounded up to a multiple of this cost
  Caps,         \* monthly caps the author may set
  Findings,     \* what inspecting fresh audio may say
  MaxCrashes,   \* bound: process crashes
  MaxFaults,    \* bound: writes that raise while the process survives
  Nobody,       \* the lock is free
  NoClip        \* no clip is being synthesized

Months == 0..LastMonth
NoMonth == -1
NoEntry == -1

ASSUME CharactersAssumption ==
  /\ Characters \in [SUBSET Clips -> Nat]
  /\ \A S \in SUBSET Clips, c \in Clips :
       c \notin S => Characters[S \cup {c}] = Characters[S] + Characters[{c}]

ASSUME CostAssumption ==
  /\ LastMonth \in Nat
  /\ Price \in Nat \ {0}
  /\ Increment \in Nat \ {0}
  /\ Caps \subseteq Nat

ASSUME BoundsAssumption ==
  /\ MaxCrashes \in Nat
  /\ MaxFaults \in Nat
  /\ Findings \subseteq {"none", "flawed", "invalid_wav"}
  /\ Nobody \notin Plans
  /\ NoClip \notin Clips

VARIABLES
  plan,     \* audio_plans/<token>: the persisted plan records
  entry,    \* audio_spend/<month>: reservations, NoEntry where there is none
  synth,    \* audio_spend/<month>: synthesized_characters
  cache,    \* the shared audio cache, by fingerprint
  job,      \* the memory of the job that runs a plan
  lock,     \* the server's mutation lock
  left,     \* tokens the start-up recovery has yet to settle; {} when serving
  now,      \* the current month
  cap,      \* the monthly cap in the workbench settings
  billed,   \* history: characters of the provider's answers to a plan
  charged,  \* history: characters a plan added to the ledgers
  crashes, faults

disk == <<plan, entry, synth, cache>>
history == <<billed, charged>>
world == <<now, cap, crashes, faults>>
vars == <<disk, job, lock, left, history, world>>

(***************************************************************************)
(* Records.                                                                *)
(***************************************************************************)
Status == {"none", "pending", "running", "completed", "failed"}

PlanRecord ==
  [status : Status,
   clips : SUBSET Clips,            \* the selected clips
   force : SUBSET Clips,            \* those that had no reusable audio
   chars : Nat,                     \* characters_to_synthesize
   blocked : BOOLEAN,               \* blocked_reason
   month : Months \cup {NoMonth},   \* reservation_month
   spent : Nat,                     \* result.spent_characters
   recMonth : Months \cup {NoMonth},
   recReserved : Nat]

NewPlan ==
  [status |-> "none", clips |-> {}, force |-> {}, chars |-> 0,
   blocked |-> FALSE, month |-> NoMonth, spent |-> 0,
   recMonth |-> NoMonth, recReserved |-> 0]

Steps == {"idle", "claimed", "select", "next", "moved", "moving", "call",
          "called", "charging", "asset", "finishing", "failing", "failed"}

JobRecord ==
  [pc : Steps,
   todo : SUBSET Clips,                \* clips yet to synthesize
   clip : Clips \cup {NoClip},         \* the clip in hand
   spent : Nat,                        \* record.result in memory
   month : Months \cup {NoMonth},      \* record.reservation_month in memory
   target : Months \cup {NoMonth}]     \* month a reservation is moving to

NoJob ==
  [pc |-> "idle", todo |-> {}, clip |-> NoClip, spent |-> 0,
   month |-> NoMonth, target |-> NoMonth]

(***************************************************************************)
(* Costs and the ledger of one month.                                      *)
(***************************************************************************)
AtLeast0(n) == IF n < 0 THEN 0 ELSE n
Larger(a, b) == IF a < b THEN b ELSE a

Cost(chars) == chars * Price
RoundedCost(chars) == ((Cost(chars) + Increment - 1) \div Increment) * Increment

Reserved(m, p) == IF entry[m][p] = NoEntry THEN 0 ELSE entry[m][p]

\* What month m has spent and what the given plans hold in it.
Committed(m, holders) ==
  synth[m] + MapThenSumSet(LAMBDA p : Reserved(m, p), holders)

Holders(p) == {m \in Months : entry[m][p] # NoEntry}

Reusable(c) == cache[c] = "none"

\* The write of a ledger: n more characters synthesized, and p's entry.
WriteLedger(m, p, n, e) ==
  /\ synth' = [synth EXCEPT ![m] = @ + n]
  /\ entry' = [entry EXCEPT ![m][p] = e]
  /\ charged' = [charged EXCEPT ![p] = @ + n]

Serving == left = {}
Free == lock = Nobody
Goto(p, pc) == job' = [job EXCEPT ![p].pc = pc]

Init ==
  /\ plan = [p \in Plans |-> NewPlan]
  /\ entry = [m \in Months |-> [p \in Plans |-> NoEntry]]
  /\ synth = [m \in Months |-> 0]
  /\ cache = [c \in Clips |-> "missing"]
  /\ job = [p \in Plans |-> NoJob]
  /\ lock = Nobody
  /\ left = {}
  /\ now = 0
  /\ cap \in Caps
  /\ billed = [p \in Plans |-> 0]
  /\ charged = [p \in Plans |-> 0]
  /\ crashes = 0
  /\ faults = 0

(***************************************************************************)
(* The author: ask for an estimate, change the cap.  An estimate is read   *)
(* without the lock and written under it; nothing distinguishes that from  *)
(* an estimate that goes stale between its write and its confirmation.     *)
(***************************************************************************)
PlanAudio(p) ==
  /\ Serving /\ Free
  /\ plan[p].status = "none"
  /\ \E clips \in SUBSET Clips \ {{}} :
       LET force == {c \in clips : ~Reusable(c)}
           chars == Characters[force]
       IN  plan' = [plan EXCEPT ![p] =
             [NewPlan EXCEPT
                !.status = "pending", !.clips = clips, !.force = force,
                !.chars = chars,
                !.blocked = Cost(Committed(now, Plans)) + RoundedCost(chars) > cap]]
  /\ UNCHANGED <<entry, synth, cache, job, lock, left, history, world>>

SetCap ==
  /\ Serving /\ Free
  /\ cap' \in Caps
  /\ UNCHANGED <<disk, job, lock, left, history, now, crashes, faults>>

(***************************************************************************)
(* Confirmation: reserve in the ledger, then write the plan as running.    *)
(***************************************************************************)
\* Mutant of ClaimReserve: any plan that is not running may be claimed again.
ClaimAgain(p) ==
  /\ Serving /\ Free
  /\ job[p].pc = "idle"
  /\ plan[p].status \in {"pending", "failed"}
  /\ ~plan[p].blocked
  /\ Cost(Committed(now, Plans)) + RoundedCost(plan[p].chars) <= cap
  /\ WriteLedger(now, p, 0, plan[p].chars)
  /\ job' = [job EXCEPT ![p] = [NoJob EXCEPT !.pc = "claimed", !.month = now]]
  /\ lock' = p
  /\ UNCHANGED <<plan, cache, left, billed, world>>

ClaimReserve(p) ==
  /\ Serving /\ Free
  /\ job[p].pc = "idle"
  /\ plan[p].status = "pending"
  /\ ~plan[p].blocked
  /\ \A c \in plan[p].clips : Reusable(c) <=> c \notin plan[p].force
  /\ Cost(Committed(now, Plans)) + RoundedCost(plan[p].chars) <= cap
  /\ WriteLedger(now, p, 0, plan[p].chars)
  /\ job' = [job EXCEPT ![p] = [NoJob EXCEPT !.pc = "claimed", !.month = now]]
  /\ lock' = p
  /\ UNCHANGED <<plan, cache, left, billed, world>>

ClaimStart(p) ==
  /\ job[p].pc = "claimed"
  /\ plan' = [plan EXCEPT ![p].status = "running", ![p].month = job[p].month]
  /\ Goto(p, "select")
  /\ lock' = Nobody
  /\ UNCHANGED <<entry, synth, cache, left, history, world>>

\* No service account on this machine.
NoCredentials(p) ==
  /\ job[p].pc = "select"
  /\ Goto(p, "failing")
  /\ UNCHANGED <<disk, lock, left, history, world>>

\* The clips to synthesize are looked up again, from the cache as it is now.
SelectClips(p) ==
  /\ job[p].pc = "select"
  /\ job' = [job EXCEPT ![p].pc = "next",
                        ![p].todo = {c \in plan[p].clips : ~Reusable(c)}]
  /\ UNCHANGED <<disk, lock, left, history, world>>

(***************************************************************************)
(* Before each call the reservation must be in the current month.          *)
(***************************************************************************)
Take(p, c, pc, target) ==
  job' = [job EXCEPT ![p].pc = pc, ![p].todo = @ \ {c},
                     ![p].clip = c, ![p].target = target]

SameMonth(p, c) ==
  /\ job[p].pc = "next" /\ Free
  /\ c \in job[p].todo
  /\ plan[p].month = now
  /\ Take(p, c, "call", NoMonth)
  /\ UNCHANGED <<disk, lock, left, history, world>>

\* Mutant of Remaining: read from the ledger the reservation is not in yet.
RemainingInNewMonth(p) == Reserved(now, p)

Remaining(p) ==
  Larger(Larger(Reserved(plan[p].month, p), Reserved(now, p)),
         plan[p].chars - plan[p].spent)

\* Mutant of Affordable: the other plans' reservations are not counted.
AffordableAlone(p) ==
  Cost(Committed(now, {})) + RoundedCost(Remaining(p)) <= cap

Affordable(p) ==
  Cost(Committed(now, Plans \ {p})) + RoundedCost(Remaining(p)) <= cap

\* First of three writes: the reservation appears in the new month.
MoveIn(p, c) ==
  /\ job[p].pc = "next" /\ Free
  /\ c \in job[p].todo
  /\ plan[p].month # now
  /\ Affordable(p)
  /\ WriteLedger(now, p, 0, Remaining(p))
  /\ Take(p, c, "moved", now)
  /\ lock' = p
  /\ UNCHANGED <<plan, cache, left, billed, world>>

MoveOut(p) ==
  /\ job[p].pc = "moved"
  /\ WriteLedger(plan[p].month, p, 0, NoEntry)
  /\ Goto(p, "moving")
  /\ UNCHANGED <<plan, cache, lock, left, billed, world>>

\* Mutant of MovePlan: the record in memory keeps the old month.
MovePlanOnDisk(p) ==
  /\ job[p].pc = "moving"
  /\ plan' = [plan EXCEPT ![p].month = job[p].target]
  /\ Goto(p, "call")
  /\ lock' = Nobody
  /\ UNCHANGED <<entry, synth, cache, left, history, world>>

MovePlan(p) ==
  /\ job[p].pc = "moving"
  /\ plan' = [plan EXCEPT ![p].month = job[p].target]
  /\ job' = [job EXCEPT ![p].pc = "call", ![p].month = job[p].target]
  /\ lock' = Nobody
  /\ UNCHANGED <<entry, synth, cache, left, history, world>>

\* Mutant of MoveRefused: the refusal ends the job outside the failure path.
MoveRefusedLoose(p) ==
  /\ job[p].pc = "next" /\ Free
  /\ job[p].todo # {}
  /\ plan[p].month # now
  /\ ~Affordable(p)
  /\ job' = [job EXCEPT ![p] = NoJob]
  /\ UNCHANGED <<disk, lock, left, history, world>>

\* The new month's cap leaves no room.
MoveRefused(p) ==
  /\ job[p].pc = "next" /\ Free
  /\ job[p].todo # {}
  /\ plan[p].month # now
  /\ ~Affordable(p)
  /\ Goto(p, "failing")
  /\ UNCHANGED <<disk, lock, left, history, world>>

(***************************************************************************)
(* The provider's answer, its booking, and the asset.                      *)
(***************************************************************************)
ProviderAnswers(p) ==
  /\ job[p].pc = "call"
  /\ billed' = [billed EXCEPT ![p] = @ + Characters[{job[p].clip}]]
  /\ job' = [job EXCEPT ![p].pc = "called",
                        ![p].spent = @ + Characters[{job[p].clip}]]
  /\ UNCHANGED <<disk, lock, left, charged, world>>

ProviderFails(p) ==
  /\ job[p].pc = "call"
  /\ Goto(p, "failing")
  /\ UNCHANGED <<disk, lock, left, history, world>>

\* Mutant of BookLedger: the reservation is not reduced by what was booked.
BookLedgerOnly(p) ==
  /\ job[p].pc = "called" /\ Free
  /\ LET delta == AtLeast0(job[p].spent - plan[p].spent)
         m == plan[p].month
     IN  WriteLedger(m, p, delta, Reserved(m, p))
  /\ Goto(p, "charging")
  /\ lock' = p
  /\ UNCHANGED <<plan, cache, left, billed, world>>

BookLedger(p) ==
  /\ job[p].pc = "called" /\ Free
  /\ LET delta == AtLeast0(job[p].spent - plan[p].spent)
         m == plan[p].month
     IN  WriteLedger(m, p, delta, AtLeast0(Reserved(m, p) - delta))
  /\ Goto(p, "charging")
  /\ lock' = p
  /\ UNCHANGED <<plan, cache, left, billed, world>>

BookPlan(p) ==
  /\ job[p].pc = "charging"
  /\ plan' = [plan EXCEPT ![p].spent = job[p].spent]
  /\ Goto(p, "asset")
  /\ lock' = Nobody
  /\ UNCHANGED <<entry, synth, cache, left, history, world>>

\* Audio with findings is stored too, over what was there; an unreadable
\* recording is not.
StoreAsset(p) ==
  /\ job[p].pc = "asset"
  /\ \E finding \in Findings :
       cache' = IF finding = "invalid_wav"
                THEN cache
                ELSE [cache EXCEPT ![job[p].clip] = finding]
  /\ job' = [job EXCEPT ![p].pc = "next", ![p].clip = NoClip]
  /\ UNCHANGED <<plan, entry, synth, lock, left, history, world>>

(***************************************************************************)
(* The end of a job.                                                       *)
(***************************************************************************)
\* Mutant of FinishLedger: the rest of the reservation stays.
FinishKeepingRest(p) ==
  /\ job[p].pc = "next" /\ Free
  /\ job[p].todo = {}
  /\ job' = [job EXCEPT ![p].pc = "finishing", ![p].spent = 0]
  /\ lock' = p
  /\ UNCHANGED <<disk, left, history, world>>

FinishLedger(p) ==
  /\ job[p].pc = "next" /\ Free
  /\ job[p].todo = {}
  /\ WriteLedger(job[p].month, p, 0, NoEntry)
  /\ job' = [job EXCEPT ![p].pc = "finishing", ![p].spent = 0]
  /\ lock' = p
  /\ UNCHANGED <<plan, cache, left, billed, world>>

FinishPlan(p) ==
  /\ job[p].pc = "finishing"
  /\ plan' = [plan EXCEPT ![p].status = "completed", ![p].spent = 0]
  /\ job' = [job EXCEPT ![p] = NoJob]
  /\ lock' = Nobody
  /\ UNCHANGED <<entry, synth, cache, left, history, world>>

\* Mutant of FailLedger: unbooked answers are forgotten with the reservation.
FailForgetting(p) ==
  /\ job[p].pc = "failing" /\ Free
  /\ WriteLedger(plan[p].month, p, 0, NoEntry)
  /\ job' = [job EXCEPT ![p].pc = "failed"]
  /\ lock' = p
  /\ UNCHANGED <<plan, cache, left, billed, world>>

\* Mutant of FailLedger: what was confirmed counts as already booked.
FailFromEstimate(p) ==
  /\ job[p].pc = "failing" /\ Free
  /\ LET total == Larger(job[p].spent, plan[p].spent)
     IN  /\ synth' = [synth EXCEPT ![plan[p].month] = @ + total - plan[p].chars]
         /\ entry' = [entry EXCEPT ![plan[p].month][p] = NoEntry]
         /\ job' = [job EXCEPT ![p].pc = "failed", ![p].spent = total]
  /\ lock' = p
  /\ UNCHANGED <<plan, cache, left, history, world>>

\* An answer that was not booked is charged while the reservation goes.
FailLedger(p) ==
  /\ job[p].pc = "failing" /\ Free
  /\ LET m == plan[p].month
         total == Larger(job[p].spent, plan[p].spent)
         committed == Larger(plan[p].spent, plan[p].chars - Reserved(m, p))
     IN  /\ WriteLedger(m, p, AtLeast0(total - committed), NoEntry)
         /\ job' = [job EXCEPT ![p].pc = "failed", ![p].spent = total]
  /\ lock' = p
  /\ UNCHANGED <<plan, cache, left, billed, world>>

FailPlan(p) ==
  /\ job[p].pc = "failed"
  /\ plan' = [plan EXCEPT ![p].status = "failed", ![p].spent = job[p].spent]
  /\ job' = [job EXCEPT ![p] = NoJob]
  /\ lock' = Nobody
  /\ UNCHANGED <<entry, synth, cache, left, history, world>>

(***************************************************************************)
(* Faults.  A write that raises ends a claim or the failure path itself,   *)
(* and sends a job at work to the failure path; the lock is released.      *)
(***************************************************************************)
WriteRaises(p) ==
  /\ faults < MaxFaults
  /\ faults' = faults + 1
  /\ lock \in {p, Nobody}
  /\ \/ /\ job[p].pc \in {"claimed", "failing", "failed"}
        /\ job' = [job EXCEPT ![p] = NoJob]
     \/ /\ job[p].pc \in {"next", "moved", "moving", "called", "charging",
                          "asset", "finishing"}
        /\ Goto(p, "failing")
  /\ lock' = Nobody
  /\ UNCHANGED <<disk, left, history, now, cap, crashes>>

\* The process dies; the next start has every stored plan to look at.
Crash ==
  /\ crashes < MaxCrashes
  /\ crashes' = crashes + 1
  /\ job' = [p \in Plans |-> NoJob]
  /\ lock' = Nobody
  /\ left' = {p \in Plans : plan[p].status # "none"}
  /\ UNCHANGED <<disk, history, now, cap, faults>>

AdvanceMonth ==
  /\ now < LastMonth
  /\ now' = now + 1
  /\ UNCHANGED <<disk, job, lock, left, history, cap, crashes, faults>>

(***************************************************************************)
(* Recovery at start-up, before the server accepts requests.               *)
(***************************************************************************)

\* The month an interrupted plan is charged to: its own if it still holds a
\* reservation there, else where it holds most, the later month on a tie.
IsOwnerMonth(p, m) ==
  IF plan[p].month \in Holders(p) \/ Holders(p) = {}
  THEN m = plan[p].month
  ELSE /\ m \in Holders(p)
       /\ \A n \in Holders(p) :
            entry[n][p] < entry[m][p] \/ (entry[n][p] = entry[m][p] /\ n <= m)

RecoverMark(p) ==
  /\ p \in left
  /\ plan[p].status = "running"
  /\ \E m \in Months :
       /\ IsOwnerMonth(p, m)
       /\ plan' = [plan EXCEPT ![p].status = "failed", ![p].recMonth = m,
                               ![p].recReserved = Reserved(m, p),
                               ![p].spent = plan[p].chars]
  /\ UNCHANGED <<entry, synth, cache, job, lock, left, history, world>>

Owed(p) ==
  /\ plan[p].status = "failed"
  /\ plan[p].recMonth # NoMonth
  /\ plan[p].recMonth \in Holders(p)

RecoverCharge(p) ==
  /\ p \in left
  /\ Owed(p)
  /\ WriteLedger(plan[p].recMonth, p, plan[p].recReserved, NoEntry)
  /\ UNCHANGED <<plan, cache, job, lock, left, billed, world>>

RecoverRelease(p, m) ==
  /\ p \in left
  /\ plan[p].status # "running" /\ ~Owed(p)
  /\ m \in Holders(p)
  /\ WriteLedger(m, p, 0, NoEntry)
  /\ UNCHANGED <<plan, cache, job, lock, left, billed, world>>

\* Mutant of RecoverNext: duplicate reservations are left in other months.
RecoverNextEarly(p) ==
  /\ p \in left
  /\ plan[p].status # "running" /\ ~Owed(p)
  /\ left' = left \ {p}
  /\ UNCHANGED <<disk, job, lock, history, world>>

RecoverNext(p) ==
  /\ p \in left
  /\ plan[p].status # "running"
  /\ Holders(p) = {}
  /\ left' = left \ {p}
  /\ UNCHANGED <<disk, job, lock, history, world>>

(***************************************************************************)
(* Specification.                                                          *)
(***************************************************************************)
Work(p) ==
  \/ ClaimStart(p) \/ NoCredentials(p) \/ SelectClips(p)
  \/ \E c \in Clips : SameMonth(p, c) \/ MoveIn(p, c)
  \/ MoveOut(p) \/ MovePlan(p) \/ MoveRefused(p)
  \/ ProviderAnswers(p) \/ ProviderFails(p)
  \/ BookLedger(p) \/ BookPlan(p) \/ StoreAsset(p)
  \/ FinishLedger(p) \/ FinishPlan(p) \/ FailLedger(p) \/ FailPlan(p)

Recover(p) ==
  \/ RecoverMark(p) \/ RecoverCharge(p)
  \/ \E m \in Months : RecoverRelease(p, m)
  \/ RecoverNext(p)

Next ==
  \/ \E p \in Plans : PlanAudio(p) \/ ClaimReserve(p) \/ Work(p)
                      \/ WriteRaises(p) \/ Recover(p)
  \/ SetCap \/ Crash \/ AdvanceMonth

Spec == Init /\ [][Next]_vars

(***************************************************************************)
(* Worker threads run, and so does recovery.  Nobody has to confirm a      *)
(* plan, and crashes, faults and the clock owe nothing.                    *)
(***************************************************************************)
LiveSpec ==
  /\ Spec
  /\ \A p \in Plans : WF_vars(Work(p)) /\ WF_vars(Recover(p))

(***************************************************************************)
(* Properties.                                                             *)
(***************************************************************************)
TypeOK ==
  /\ plan \in [Plans -> PlanRecord]
  /\ entry \in [Months -> [Plans -> Nat \cup {NoEntry}]]
  /\ synth \in [Months -> Nat]
  /\ cache \in [Clips -> {"missing", "none", "flawed"}]
  /\ job \in [Plans -> JobRecord]
  /\ lock \in Plans \cup {Nobody}
  /\ left \subseteq Plans
  /\ now \in Months
  /\ cap \in Caps
  /\ billed \in [Plans -> Nat]
  /\ charged \in [Plans -> Nat]
  /\ crashes \in 0..MaxCrashes
  /\ faults \in 0..MaxFaults

\* A plan no later start will charge again.
Settled(p) == plan[p].status \in {"completed", "failed"} /\ ~Owed(p)

\* While a plan is running, on disk, every character the provider answered
\* is in a ledger, or the reservation in the plan's own month covers the rest
\* of the confirmed characters: whatever the next write does, a crash loses
\* no spend (_persist_successful_provider_call, the rollover, recovery).
AnswersCovered ==
  \A p \in Plans :
    plan[p].status = "running" =>
      \/ billed[p] <= charged[p]
      \/ /\ plan[p].month \in Holders(p)
         /\ charged[p] + entry[plan[p].month][p] >= plan[p].chars

\* When a plan is over, for good or for ill, the ledgers have been charged
\* for every character answered, up to the characters that were confirmed.
SettledInFull ==
  \A p \in Plans :
    Settled(p) => \/ billed[p] <= charged[p]
                  \/ plan[p].chars <= charged[p]

\* No sequence of crashes, recoveries and rollovers charges a plan for more
\* than it reserved or the provider answered ("once", line 731).
ChargedOnce ==
  \A p \in Plans : charged[p] <= Larger(plan[p].chars, billed[p])

\* The same, as long as no write has raised.
ChargedOnceUnlessRaised == faults = 0 => ChargedOnce

\* While the server is idle and no write has raised, exactly the running
\* plans hold a reservation, each in its own month.
OneReservation ==
  Serving /\ Free /\ faults = 0 =>
    \A p \in Plans :
      Holders(p) = IF plan[p].status = "running" THEN {plan[p].month} ELSE {}

\* A step that raises what a month has spent and promised leaves it within
\* the cap of that moment.
CapHonoured ==
  [][\A m \in Months :
       Committed(m, Plans)' > Committed(m, Plans)
         => Cost(Committed(m, Plans))' <= cap']_vars

(***************************************************************************)
(* The promise of AudioSpend, seen through the files: a plan is open while *)
(* its record says running or recovery still owes its charge.              *)
(***************************************************************************)
Phase(p) ==
  IF plan[p].status \in {"none", "pending"} THEN "offered"
  ELSE IF Settled(p) THEN "closed" ELSE "open"

Spend == INSTANCE AudioSpend WITH
  phase <- [p \in Plans |-> Phase(p)],
  confirmed <- [p \in Plans |-> plan[p].chars],
  billed <- billed,
  charged <- charged

\* The budget implements the promise of AudioSpend.
ImplementsSpend == Spend!Spec

\* A confirmation is used once: after its plan is settled nothing is called
\* or charged for it, and it does not come back, whatever is restarted.
SingleUse ==
  [][\A p \in Plans :
       Settled(p) => /\ Settled(p)'
                     /\ billed'[p] = billed[p]
                     /\ charged'[p] = charged[p]]_vars

\* Start-up recovery ends with no reservation in any month.
RecoveryReleasesAll ==
  [][left # {} /\ left' = {} => \A p \in Plans : Holders(p) = {}]_vars

\* A started plan is eventually over, and a reservation is eventually given
\* back or turned into spend; a write that raised may leave both to the next
\* start.
PlansSettle ==
  \A p \in Plans :
    plan[p].status = "running" ~> plan[p].status # "running" \/ faults > 0

ReservationsReturn ==
  \A p \in Plans : Holders(p) # {} ~> Holders(p) = {} \/ faults > 0

\* What is reserved or charged for a plan is reserved and charged once.
ReservedAndChargedOnce == OneReservation /\ ChargedOnceUnlessRaised

\* No plan and no reservation is left over: a started plan is eventually over,
\* its reservation returns, and recovery releases those of the process before.
NothingLeftOver == PlansSettle /\ ReservationsReturn /\ RecoveryReleasesAll
=============================================================================
