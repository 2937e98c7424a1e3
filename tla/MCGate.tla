------------------------------- MODULE MCGate -------------------------------
(* Small calendars, feeds and price eras for TLC. *)
EXTENDS Forecast, TLC

McNatSubs2 == {1, 2}

\* Each submission solves a problem of its own; later ones are dearer.
McSlugOf2 == [s \in {1, 2} |-> s]
McLevelOf2 == 1 :> "Easy" @@ 2 :> "Hard"

\* A near goal and a far one.
McGoals == {[Easy |-> 3, Medium |-> 0, Hard |-> 1], [Easy |-> 2, Medium |-> 1, Hard |-> 2]}

\* Bound: among the first runs, a pool is out of reach only while neither the key
\* nor the clock was touched.
OneTrouble ==
  pools = declared \/ (budget.key = MaxKeyFlips /\ budget.back = MaxBack)

FirstSpec ==
  Init /\ [][Next /\ OneTrouble']_vars /\ WF_vars(PollAnswered \/ PollBlind)
=============================================================================
