-------------------------------- MODULE MCWeek --------------------------------
(* The gate with dated submissions and its readers, over MCGate's constants. *)
EXTENDS MCGate, SolvedToday

\* Bound: a week has a free day or a focus day, in pools that may be out of reach,
\* or its clock is set back.
PlainWeek ==
  /\ declared.sick = {} /\ declared.penalty = {}
  /\ budget.back = MaxBack \/ budget.mark = MaxMarks

WeekSpec == StampedInit /\ [][StampedNext /\ PlainWeek']_<<vars, when>>
=============================================================================
