------------------------------ MODULE PollLoop ------------------------------
(***************************************************************************)
(* What the lock may rely on from SolvePoller: checks follow each other    *)
(* for ever, one at a time, each is delivered once, and only a check       *)
(* nobody asked for from outside counts as blind time.  LockWindow         *)
(* implements it.                                                          *)
(***************************************************************************)
EXTENDS Naturals

CONSTANT HatchPolls

VARIABLES
  phase, \* "checking", "resting" between two checks, or "stopped"
  asked, \* whether the running check was asked for by a poke
  blind  \* failed checks in a row, up to the ones that open the hatch

loop == <<phase, asked, blind>>

Counted(n) == IF n < HatchPolls THEN n + 1 ELSE n

Init == phase = "checking" /\ asked = FALSE /\ blind = 0

Start ==
  /\ phase = "resting" /\ phase' = "checking"
  /\ asked' \in BOOLEAN /\ UNCHANGED blind

Deliver ==
  /\ phase = "checking" /\ phase' = "resting" /\ asked' = FALSE
  /\ \/ blind' = 0
     \/ asked /\ blind' = blind
     \/ ~asked /\ blind' = Counted(blind)

Stop == phase' = "stopped" /\ asked' = FALSE /\ UNCHANGED blind

Spec == Init /\ [][Start \/ Deliver \/ Stop]_loop

\* What keeps the lock from freezing: no check and no pause lasts for ever.
Recurs ==
  /\ phase = "checking" ~> phase # "checking"
  /\ phase = "resting" ~> phase # "resting"
=============================================================================
