-------------------------------- MODULE Bank --------------------------------
(***************************************************************************)
(* What the gate promises with its ledger: solves are money, each day is   *)
(* settled at most once and only while it is today, and a day is let       *)
(* through either paid in full from what is banked or forgiven.  Nothing   *)
(* else moves the account.  Gate implements it.                            *)
(***************************************************************************)
EXTENDS Integers

CONSTANTS
  Days,
  Price,  \* of each day
  First,  \* the first day with a price
  Epoch,  \* the first day that is owed when it is missed
  Dear    \* the days on which a debt is collected

VARIABLES
  date,   \* what the clock says
  earned, \* the worth of all solves credited
  spent,  \* what the days let through on a charge have cost
  day     \* each day "open", "paid" or "forgiven"

books == <<date, earned, spent, day>>

Init ==
  /\ date \in Days /\ earned = 0 /\ spent = 0
  /\ day = [d \in Days |-> "open"]

\* The clock moves on, or is set back.
Turn == date' \in Days /\ UNCHANGED <<earned, spent, day>>

Earn == earned' > earned /\ UNCHANGED <<date, spent, day>>

Missed == {d \in Days : Epoch <= d /\ d < date /\ day[d] = "open"}

\* Today is let through for its price, or one more if a day was missed; a run
\* that pays may have credited solves first.  A clock behind a day that is
\* settled pays nothing.
Pay ==
  /\ date >= First /\ \A d \in Days : day[d] # "open" => d < date
  /\ \E debt \in {0, 1} :
       /\ debt = 1 => date \in Dear /\ Missed # {}
       /\ spent' = spent + Price[date] + debt
  /\ earned' >= earned /\ spent' <= earned'
  /\ day' = [day EXCEPT ![date] = "paid"]
  /\ UNCHANGED date

\* Today is let through for nothing.
Forgive ==
  /\ day[date] = "open"
  /\ day' = [day EXCEPT ![date] = "forgiven"]
  /\ UNCHANGED <<date, earned, spent>>

Spec == Init /\ [][Turn \/ Earn \/ Pay \/ Forgive]_books
=============================================================================
