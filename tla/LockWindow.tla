----------------------------- MODULE LockWindow -----------------------------
(***************************************************************************)
(* The lock on screen: one Tk thread running timers, one executor thread   *)
(* running the check, and the doorbell's server thread.  The poller's      *)
(* jobs, the bursts a ring starts, blind time and the diagnosis it leads   *)
(* to, the two forms, the late carrot, and the way down.                   *)
(*                                                                         *)
(* Timers are untimed: a pending job may fire at any moment.  The verdict  *)
(* is reduced to "a solve is banked or today is settled" (GateRules has    *)
(* the rest); study mode is Study's.                                       *)
(***************************************************************************)
EXTENDS Integers

CONSTANTS
  HatchPolls,   \* failed polls in a row that make UNVERIFIABLE_HATCH_SECONDS
  BurstPokes,   \* pokes a ring schedules after its immediate check
  EscapeBudget, \* uses of the ordinary hatch that may be left at start
  MaxScreens,   \* monitors at start
  MaxRings, MaxFlips, MaxUnplugs \* bounds: rings, network changes, monitors lost

ASSUME WindowAssumption ==
  /\ HatchPolls \in Nat \ {0} /\ BurstPokes \in Nat /\ EscapeBudget \in Nat
  /\ MaxScreens \in Nat /\ MaxRings \in Nat /\ MaxFlips \in Nat /\ MaxUnplugs \in Nat

VARIABLES
  world,   \* the network, the solve, and how many bounded events are left
  poll,    \* SolvePoller: pending jobs, the future, flags, failed polls in a row
  bell,    \* NudgeMixin: the bell flag, the cooldown, the burst's pending jobs
  outage,  \* ReleaseMixin: the remembered diagnosis and the incident form's clock
  forms,   \* the two hatches
  screen,  \* surfaces, the button last painted, escapes left
  window,  \* "up", "leaving" (unlocked screen), "closed" or "terminated"
  settled, \* what settled today in the ledger
  waited   \* history: poll intervals waited out since the last usable answer

vars == <<world, poll, bell, outage, forms, screen, window, settled, waited>>

Nets == {"up", "down", "offline", "blocked"}
Usable == {"empty", "solved"}
Answers == Usable \cup {"failed"}
Diagnoses == {"REMOTE_OUTAGE", "LOCAL_OFFLINE", "LOCAL_TAMPERED"}
HatchStates == {"closed", "open", "orphan"}

Open == window \in {"up", "leaving"}
Quiet == [diagnosis |-> "none", form |-> "no"]

-----------------------------------------------------------------------------
(* The poller: every operator takes and gives the poller's record. *)

\* _tick: submit a check unless one is running, and drain it either way.
Tick(p, asked) ==
  [p EXCEPT !.flight = IF p.future = "running" THEN @ ELSE asked,
            !.future = "running", !.drain = @ + 1]

\* Mutant: the poked check starts without cancelling the pending tick.
FirePokeNoCancel(p) ==
  IF p.poked /\ p.tick > 0 THEN Tick([p EXCEPT !.poked = FALSE], TRUE) ELSE p

\* _fire_poke: a pending tick means idle; a poke while a check is in flight
\* stays set.
FirePoke(p) ==
  IF p.poked /\ p.tick > 0
  THEN Tick([p EXCEPT !.poked = FALSE, !.tick = @ - 1], TRUE)
  ELSE p

\* Mutant: every failed check counts, asked for or not.
RecordAll(n, usable, asked) ==
  IF usable THEN 0 ELSE IF n < HatchPolls THEN n + 1 ELSE n

\* PollState.record, unless the result is a failed extra check.
Record(n, usable, asked) ==
  CASE usable -> 0
    [] ~usable /\ ~asked /\ n < HatchPolls -> n + 1
    [] OTHER -> n

-----------------------------------------------------------------------------
(* Diagnosis and forms *)

\* classify: three anchors, then the name.  No caller passes identity_ok, so
\* the ONLINE verdict is never reached.
Classify(net) ==
  CASE net = "offline" -> "LOCAL_OFFLINE"
    [] net = "blocked" -> "LOCAL_TAMPERED"
    [] OTHER -> "REMOTE_OUTAGE"

\* decide_policy: LeetCode's fault unlocks now, ours waits for an account.
PolicyFor(diagnosis) ==
  [diagnosis |-> diagnosis,
   form |-> IF diagnosis = "REMOTE_OUTAGE" THEN "no" ELSE "waiting"]

BlindForLongEnough(n) == n >= HatchPolls

\* clear_outage on a usable answer; _handle_outage once when blind.
OutageAfter(answer, n) ==
  IF answer \in Usable THEN Quiet
  ELSE IF BlindForLongEnough(n) /\ outage.diagnosis = "none"
       THEN PolicyFor(Classify(world.net)) ELSE outage

\* is_offerable, without its delay of zero seconds.
IsOfferable(budget) == budget > 0

\* Mutant: the budget's veto also covers the incident form.
OfferedBudgetFirst(out, budget) == IsOfferable(budget)

\* _should_offer_escape.
Offered(out, budget) == out.form = "due" \/ IsOfferable(budget)

EndBurst(b) == [b EXCEPT !.pokes = 0, !.ranOut = 0, !.verifying = FALSE]

\* _render: the button follows the model, from poll to poll.
Repaint(out, budget) == [screen EXCEPT !.budget = budget, !.offered = Offered(out, budget)]

\* A written account is recorded: an ordinary escape also uses up one of those
\* left.
LeftAfter(h, budget) == IF h = "escape" THEN budget - 1 ELSE budget

-----------------------------------------------------------------------------
PollerAtStart ==
  [tick |-> 0, drain |-> 0, future |-> "none", poked |-> FALSE, flight |-> FALSE,
   blind |-> 0]

Init ==
  /\ world = [net |-> "up", solve |-> "none",
              rings |-> MaxRings, flips |-> MaxFlips, unplugs |-> MaxUnplugs]
  /\ poll = Tick(PollerAtStart, FALSE)
  /\ bell = [rung |-> FALSE, cool |-> TRUE, pokes |-> 0, ranOut |-> 0,
             verifying |-> FALSE]
  /\ outage = Quiet
  /\ forms = [escape |-> "closed", incident |-> "closed"]
  /\ \E left \in 0..EscapeBudget :
       screen = [up |-> MaxScreens, offered |-> left > 0, budget |-> left]
  /\ window = "up" /\ settled = {} /\ waited = 0

(* The world, which leaves the three seconds of the unlocked screen alone *)

NetworkChanges ==
  /\ window = "up" /\ world.flips > 0
  /\ \E net \in Nets \ {world.net} :
       world' = [world EXCEPT !.net = net, !.flips = @ - 1]
  /\ UNCHANGED <<poll, bell, outage, forms, screen, window, settled, waited>>

SolveAccepted ==
  /\ window = "up" /\ world.solve = "none" /\ world.net = "up"
  /\ world' = [world EXCEPT !.solve = "accepted"]
  /\ UNCHANGED <<poll, bell, outage, forms, screen, window, settled, waited>>

\* do_POST on the server thread only sets the bell.
Ring ==
  /\ window = "up" /\ world.rings > 0 /\ ~bell.rung
  /\ world' = [world EXCEPT !.rings = @ - 1]
  /\ bell' = [bell EXCEPT !.rung = TRUE]
  /\ UNCHANGED <<poll, outage, forms, screen, window, settled, waited>>

\* A monitor goes away, with the form on it if it carried one: the hatch still
\* counts as open.
Unplug ==
  /\ window = "up" /\ screen.up > 0 /\ world.unplugs > 0
  /\ world' = [world EXCEPT !.unplugs = @ - 1]
  /\ screen' = [screen EXCEPT !.up = @ - 1]
  /\ \/ forms' = [h \in {"escape", "incident"} |->
                    IF forms[h] = "open" THEN "orphan" ELSE forms[h]]
     \/ screen.up > 1 /\ UNCHANGED forms
  /\ UNCHANGED <<poll, bell, outage, window, settled, waited>>

-----------------------------------------------------------------------------
(* The poll loop *)

TickFires ==
  /\ Open /\ poll.tick > 0
  /\ poll' = Tick([poll EXCEPT !.tick = @ - 1], FALSE)
  /\ waited' = IF waited < HatchPolls THEN waited + 1 ELSE waited
  /\ UNCHANGED <<world, bell, outage, forms, screen, window, settled>>

\* _watch, every drain interval.
Watch ==
  /\ Open /\ FirePoke(poll) # poll /\ poll' = FirePoke(poll)
  /\ UNCHANGED <<world, bell, outage, forms, screen, window, settled, waited>>

\* _check on the executor.  The feed may lag behind a verdict, a reachable
\* LeetCode may still not answer, and a check that raises is a failed one.
CheckAnswers(answer) ==
  /\ Open /\ poll.future = "running"
  /\ answer \in Usable => world.net = "up"
  /\ answer = "solved" => world.solve # "none"
  /\ poll' = [poll EXCEPT !.future = answer]
  /\ UNCHANGED <<world, bell, outage, forms, screen, window, settled, waited>>

\* Mutant: a failed check is not followed by another tick.
NextTickUnlessFailed(ticks, answer) == IF answer = "failed" THEN ticks ELSE ticks + 1

NextTick(ticks, answer) == ticks + 1

\* _drain with a finished future: _on_poll_result, then the next tick.  A
\* solve seen is credited and ends the burst; an unlocked verdict releases; a
\* locked one repaints.
Drain ==
  /\ Open /\ poll.drain > 0 /\ poll.future \in Answers
  /\ LET answer == poll.future
         usable == answer \in Usable
         blind  == Record(poll.blind, usable, poll.flight)
         after  == OutageAfter(answer, blind)
         gained == answer = "solved" /\ world.solve = "accepted"
     IN  /\ poll' = [poll EXCEPT !.future = "none", !.flight = FALSE, !.blind = blind,
                                 !.tick = NextTick(@, answer), !.drain = @ - 1]
         /\ waited' = IF usable THEN 0 ELSE waited
         /\ outage' = after
         /\ settled' = IF after.diagnosis = "REMOTE_OUTAGE" /\ after # outage
                       THEN settled \cup {"outage"} ELSE settled
         /\ world' = IF gained THEN [world EXCEPT !.solve = "banked"] ELSE world
         /\ bell' = IF gained THEN EndBurst(bell) ELSE bell
         /\ window' = IF world'.solve = "banked" \/ settled' # {} THEN "leaving" ELSE window
         /\ screen' = Repaint(after, screen.budget)
  /\ UNCHANGED forms

-----------------------------------------------------------------------------
(* The doorbell *)

\* _watch_bell: the ring is taken off whether or not a burst may start.
WatchBell ==
  /\ Open /\ bell.rung
  /\ IF bell.cool
     THEN /\ bell' = [bell EXCEPT !.rung = FALSE, !.cool = FALSE, !.pokes = BurstPokes,
                                  !.ranOut = @ + 1, !.verifying = TRUE]
          /\ poll' = FirePoke([poll EXCEPT !.poked = TRUE])
     ELSE bell' = [bell EXCEPT !.rung = FALSE] /\ UNCHANGED poll
  /\ UNCHANGED <<world, outage, forms, screen, window, settled, waited>>

BurstPoke ==
  /\ Open /\ bell.pokes > 0
  /\ bell' = [bell EXCEPT !.pokes = @ - 1]
  /\ poll' = [poll EXCEPT !.poked = TRUE]
  /\ UNCHANGED <<world, outage, forms, screen, window, settled, waited>>

BurstRanOut ==
  /\ Open /\ bell.ranOut > 0 /\ bell.pokes = 0
  /\ bell' = [bell EXCEPT !.ranOut = @ - 1, !.verifying = FALSE]
  /\ UNCHANGED <<world, poll, outage, forms, screen, window, settled, waited>>

\* Five seconds: longer than the burst, not than the job that clears its note.
Cooled ==
  /\ Open /\ ~bell.cool /\ bell.pokes = 0 /\ bell' = [bell EXCEPT !.cool = TRUE]
  /\ UNCHANGED <<world, poll, outage, forms, screen, window, settled, waited>>

-----------------------------------------------------------------------------
(* The ways out *)

\* lockout_seconds have passed since the diagnosis.
IncidentWaited ==
  /\ Open /\ outage.form = "waiting" /\ outage' = [outage EXCEPT !.form = "due"]
  /\ UNCHANGED <<world, poll, bell, forms, screen, window, settled, waited>>

\* The button last painted was pressed: one form at a time, the incident's
\* first, on the first surface there is.
OpenEscape ==
  /\ Open /\ screen.offered /\ screen.up > 0
  /\ forms.escape = "closed" /\ forms.incident = "closed"
  /\ forms' = [forms EXCEPT ![IF outage.form = "due" THEN "incident" ELSE "escape"] = "open"]
  /\ UNCHANGED <<world, poll, bell, outage, screen, window, settled, waited>>

\* A form's account is accepted and recorded: settle today and leave.  A
\* complaint or a record that failed leaves the form as it is.
Grant(h) ==
  /\ Open /\ forms[h] = "open"
  /\ h = "escape" => screen.budget > 0
  /\ forms' = [forms EXCEPT ![h] = "closed"]
  /\ settled' = settled \cup {h} /\ window' = "leaving"
  /\ screen' = Repaint(outage, LeftAfter(h, screen.budget))
  /\ UNCHANGED <<world, poll, bell, outage, waited>>

\* _carrot_tick finds that the morning session earned the carrot: nothing is
\* settled.
CarrotTick ==
  /\ window = "up" /\ window' = "leaving"
  /\ UNCHANGED <<world, poll, bell, outage, forms, screen, settled, waited>>

\* on_close: the burst is dropped and the poller stopped; every pending job
\* goes with the root.
OnClose ==
  /\ bell' = [EndBurst(bell) EXCEPT !.rung = FALSE]
  /\ poll' = [poll EXCEPT !.tick = 0, !.drain = 0, !.future = "none",
                          !.poked = FALSE, !.flight = FALSE]
  /\ UNCHANGED <<world, outage, forms, screen, settled, waited>>

Close == window = "leaving" /\ window' = "closed" /\ OnClose

\* SIGTERM takes the same way out at any moment.
Terminated == Open /\ window' = "terminated" /\ OnClose

-----------------------------------------------------------------------------
World == NetworkChanges \/ SolveAccepted \/ Ring \/ Unplug
Next ==
  \/ World
  \/ TickFires \/ Watch \/ (\E a \in Answers : CheckAnswers(a)) \/ Drain
  \/ WatchBell \/ BurstPoke \/ BurstRanOut \/ Cooled
  \/ IncidentWaited \/ OpenEscape \/ (\E h \in {"escape", "incident"} : Grant(h))
  \/ CarrotTick \/ Close \/ Terminated

Spec == Init /\ [][Next]_vars

(* Tk runs every job that is due; a request ends (it has a time limit); a     *)
(* reachable LeetCode answers now and then, and shows a solve in the end.    *)
Fairness ==
  /\ WF_vars(TickFires) /\ WF_vars(Watch) /\ WF_vars(Drain)
  /\ WF_vars(WatchBell) /\ WF_vars(BurstPoke) /\ WF_vars(BurstRanOut)
  /\ WF_vars(IncidentWaited) /\ WF_vars(Close)
  /\ WF_vars(\E a \in Answers : CheckAnswers(a))
  /\ SF_vars(\E a \in Usable : CheckAnswers(a)) /\ SF_vars(CheckAnswers("solved"))

FairSpec == Spec /\ Fairness

-----------------------------------------------------------------------------
(* Properties *)

TypeOK ==
  /\ world \in [net : Nets, solve : {"none", "accepted", "banked"},
                rings : 0..MaxRings, flips : 0..MaxFlips, unplugs : 0..MaxUnplugs]
  /\ poll \in [tick : Nat, drain : Nat, future : {"none", "running"} \cup Answers,
               poked : BOOLEAN, flight : BOOLEAN, blind : 0..HatchPolls]
  /\ bell \in [rung : BOOLEAN, cool : BOOLEAN, pokes : 0..BurstPokes, ranOut : Nat,
               verifying : BOOLEAN]
  /\ outage \in [diagnosis : {"none"} \cup Diagnoses, form : {"no", "waiting", "due"}]
  /\ forms \in [{"escape", "incident"} -> HatchStates]
  /\ screen \in [up : 0..MaxScreens, offered : BOOLEAN, budget : 0..EscapeBudget]
  /\ window \in {"up", "leaving", "closed", "terminated"}
  /\ settled \subseteq {"outage", "escape", "incident"} /\ waited \in 0..HatchPolls

(* The poll loop is one chain: a tick is pending or a drain is, never both   *)
(* and never neither, and a check is out exactly while a drain is pending --  *)
(* whatever pokes, rings and answers interleave (_tick, _fire_poke, _drain). *)
OneChain ==
  /\ poll.tick + poll.drain = IF Open THEN 1 ELSE 0
  /\ poll.future = "none" <=> poll.drain = 0

(* Blind time is waited for: the failed polls that are worth an escape or a  *)
(* free day were started by the timer, one interval apart, and no ring buys  *)
(* one (PollState.record against last_was_poke; the first check is free).    *)
BlindTimeIsWaited == poll.blind <= waited + 1

(* SolvePoller is the periodic check it promises to be, one at a time and    *)
(* each delivered once, and it keeps recurring until it is stopped.          *)
Loop == INSTANCE PollLoop WITH
  phase <- IF ~Open THEN "stopped" ELSE IF poll.drain > 0 THEN "checking" ELSE "resting",
  asked <- Open /\ poll.drain > 0 /\ poll.flight,
  blind <- poll.blind
LoopIsPeriodic == Loop!Spec
LoopNeverDies == Loop!Recurs

(* A solve lets the user go: with LeetCode reachable, an accepted submission *)
(* brings the window down, whatever was rung or diagnosed meanwhile.         *)
SolveLetsGo ==
  (<>[](world.net = "up")) => (world.solve = "accepted" ~> window # "up")

(* A machine that lost its way to LeetCode is no trap: with the escapes used *)
(* up, the window comes down or offers a form, once nobody rings any more    *)
(* (_handle_outage, _should_offer_escape).                                   *)
BlindLockOffersAWayOut ==
  (<>[](world.net # "up")) => <>(window # "up" \/ screen.offered)

(* ONLINE "must NOT unlock: a working LeetCode is the one case where the     *)
(* user can simply solve something".                                         *)
FreeDayNeedsAnOutage ==
  [][("outage" \in settled' /\ "outage" \notin settled) => world.net # "up"]_vars
=============================================================================
