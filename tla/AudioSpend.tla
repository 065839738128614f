----------------------------- MODULE AudioSpend -----------------------------
(***************************************************************************)
(* What the audio budget promises of one confirmation, whatever crashes,   *)
(* failing writes and month ends happen on the way: it is opened once and  *)
(* closed once, it is charged only while open, and it is not closed before *)
(* the charge covers what the provider answered, up to what the author     *)
(* confirmed.  AudioBudget implements this.                                *)
(***************************************************************************)
EXTENDS Naturals

CONSTANT Plans

VARIABLES
  phase,      \* [Plans -> {"offered", "open", "closed"}]
  confirmed,  \* characters the author confirmed
  billed,     \* characters of the provider's answers
  charged     \* characters charged to monthly ledgers

vars == <<phase, confirmed, billed, charged>>

Covered(b, n, c) == b <= c \/ n <= c

\* Only p's number changes, from old to new, to any natural.
Sets(old, new, p) == new[p] \in Nat /\ new = [old EXCEPT ![p] = new[p]]
Raises(old, new, p) == Sets(old, new, p) /\ old[p] <= new[p]

Init ==
  /\ phase = [p \in Plans |-> "offered"]
  /\ confirmed = [p \in Plans |-> 0]
  /\ billed = [p \in Plans |-> 0]
  /\ charged = [p \in Plans |-> 0]

Estimate(p) ==
  /\ phase[p] = "offered"
  /\ Sets(confirmed, confirmed', p)
  /\ UNCHANGED <<phase, billed, charged>>

Open(p) ==
  /\ phase[p] = "offered"
  /\ phase' = [phase EXCEPT ![p] = "open"]
  /\ UNCHANGED <<confirmed, billed, charged>>

Answer(p) ==
  /\ phase[p] = "open"
  /\ Raises(billed, billed', p)
  /\ UNCHANGED <<phase, confirmed, charged>>

Charge(p) ==
  /\ phase[p] = "open"
  /\ Raises(charged, charged', p)
  /\ UNCHANGED <<phase, confirmed, billed>>

\* The last charge may come with the closing.
Close(p) ==
  /\ phase[p] = "open"
  /\ Raises(charged, charged', p)
  /\ Covered(billed[p], confirmed[p], charged'[p])
  /\ phase' = [phase EXCEPT ![p] = "closed"]
  /\ UNCHANGED <<confirmed, billed>>

Next ==
  \E p \in Plans : Estimate(p) \/ Open(p) \/ Answer(p) \/ Charge(p) \/ Close(p)

Spec == Init /\ [][Next]_vars
=============================================================================
