------------------------------ MODULE SolvedToday ------------------------------
(***************************************************************************)
(* What other programs are told of the day: whether a problem was solved   *)
(* today and whether today was paid for, read from the ledger by rules of  *)
(* its own.  Two of them give an hour for it.  LeetCode stamps a           *)
(* submission with the true date, which a clock set back does not move.    *)
(***************************************************************************)
EXTENDS Forecast

VARIABLE when \* the true date of each submission, -1 before it and once it is past

\* Bound: once the clock was set back the true date is one it never shows.
TrueDate == IF Forward THEN today ELSE LastDay + 1

\* A date the clock cannot return to is forgotten.
Recent(date) == IF date < today' /\ budget'.back = 0 THEN -1 ELSE date

StampedInit == Init /\ when = [s \in Subs |-> -1]

StampedNext ==
  /\ Next
  /\ when' = [s \in Subs |-> IF s \in solved' \ solved THEN TrueDate ELSE Recent(when[s])]

StampedSpec == StampedInit /\ [][StampedNext]_<<vars, when>>

-----------------------------------------------------------------------------
\* _landed_today: the submission's own date, not the one it was harvested on.
LandedToday(e) == when[e.id[2]] = today

\* Mutant: a charge proves that the day was paid.
SettledByAnyCharge(L) == \E e \in OfKind(L, "charge") : e.day = today

\* Only a charge decide wrote stands for verified credits.
SettledByCredit(L) ==
  \E e \in OfKind(L, "charge") : e.day = today /\ e.source = "leetcode"

\* solved_today: rows whose signature fails are not counted, and without the
\* key nothing is said.
Answer ==
  LET verified == {e \in ledger : e.signed} IN
  [checked |-> keyOk,
   count |-> Cardinality({e \in OfKind(verified, "credit") : LandedToday(e)}),
   settled |-> SettledByCredit(verified)]

\* Asked live: today's price is off.
GateOff == today \in OffDays(pools)

\* build_status_payload, as its readers take it.
Earns == Answer.checked /\ (Answer.settled \/ (GateOff /\ Answer.count > 0))

-----------------------------------------------------------------------------
\* "Only a fully paid day earns": a day that earns the hour has a solve of its
\* own while the gate stands down, or it cost its whole price and all such days
\* together cost no more than what was solved for -- whatever was forgiven,
\* harvested late or read under a clock set back.
OnlyPaidDaysEarn ==
  LET paid == {e \in OfKind(ledger, "charge") : e.source = "leetcode"}
  IN Earns =>
       \/ GateOff /\ \E s \in solved : when[s] = today
       \/ /\ \E e \in paid : e.day = today /\ e.amount >= DayCost(today)
          /\ SumFunction([s \in solved |-> Weight(LevelOf[SlugOf[s]])]) >= Charged(paid)
=============================================================================
