-------------------------------- MODULE Study --------------------------------
(***************************************************************************)
(* Study mode: the lock stands down for a browser and is put back.  Every  *)
(* call into Tk, gatelock or the browser launcher is a step, and may fail: *)
(* a TclError ("tcl"), which the steps expect, or anything else ("other"), *)
(* for which suspend has a net and resume has none: what is raised there,  *)
(* by a sentence put on the screen too, leaves the callback.               *)
(*                                                                         *)
(* gatelock's recovery loop, which re-takes the grab and re-maps the       *)
(* surfaces, runs between these callbacks and never inside one.            *)
(***************************************************************************)
EXTENDS Integers

CONSTANTS
  Screens,    \* monitors that carry a surface
  BackFaults, \* the kinds of failure a call on the way back can have
  MaxFaults   \* bound: calls that fail and grabs the browser takes

ASSUME StudyAssumption == BackFaults \subseteq {"tcl", "other"} /\ MaxFaults \in Nat

VARIABLES
  pc,      \* the call a transition is at; "idle" between callbacks
  why,     \* what the transition is for
  state,   \* StudyState
  guard,   \* grab held, grab claimed, gatelock's two watchers
  vt,      \* VT switching off, gatelock's flag, _vt_restored, setxkbmap present
  hidden,  \* surfaces withdrawn, "root" among them
  browser, \* whether it runs, and whether it holds a grab of its own
  strip,   \* the study strip is up
  window,  \* "up", "leaving", "closed", or "wedged": its close was cut short
  solved,  \* the verdict unlocks
  faults,  \* failures left, and grabs the browser may still take
  cut      \* history: the call an exception left the last transition at, or "no"

vars == <<pc, why, state, guard, vt, hidden, browser, strip, window, solved, faults, cut>>
outside == <<browser, window, solved>>

Aims == {"study", "rescue", "back", "leave", "close"}

SurfaceWindows == Screens \cup {"root"}

\* A call that works, or fails in one of the given ways.
Outcome(r, kinds) ==
  \/ r = "ok" /\ UNCHANGED faults
  \/ r \in kinds /\ faults > 0 /\ faults' = faults - 1
AnyFault == {"tcl", "other"}

Goto(next) == pc' = next /\ UNCHANGED why
\* Nothing catches it on the way back, and an exception out of on_close leaves
\* the window half closed; in a rescue the next step runs anyway.
Escapes(next) ==
  IF why = "rescue" THEN Goto(next) /\ UNCHANGED window
  ELSE /\ pc' = "idle" /\ UNCHANGED why
       /\ window' = IF why = "close" THEN "wedged" ELSE window

\* suspend's net: whatever escaped, _emergency_restore.
Rescue == pc' = "restore" /\ why' = "rescue" /\ state' = "LOCKED"

Init ==
  /\ pc = "idle" /\ why = "study" /\ state = "LOCKED"
  /\ guard = [grab |-> TRUE, claim |-> TRUE, recovery |-> "on", detector |-> "on"]
  /\ vt = [off |-> TRUE, flag |-> TRUE, restored |-> FALSE, xkb |-> TRUE]
  /\ hidden = {} /\ browser = [up |-> FALSE, grab |-> FALSE] /\ strip = FALSE
  /\ window = "up" /\ solved = FALSE /\ faults = MaxFaults /\ cut = "no"

-----------------------------------------------------------------------------
(* Standing down: _open_problem, suspend *)

\* An opener was found.  While studying, one more page is all there is to do.
OpenProblem ==
  /\ pc = "idle" /\ window # "closed" /\ state = "LOCKED"
  /\ pc' = "stop recovery" /\ why' = "study"
  /\ UNCHANGED <<state, guard, vt, hidden, strip, outside, faults>>

\* _stop_watchers: both or neither, and first.
StopWatcher(at, w, next) ==
  /\ pc = at
  /\ \E r \in {"ok", "tcl", "other"} :
       /\ Outcome(r, AnyFault)
       /\ guard' = IF r = "ok" THEN [guard EXCEPT ![w] = "off"] ELSE guard
       /\ CASE r = "ok" -> Goto(next) /\ UNCHANGED state
            [] r = "tcl" -> Goto("start detector") /\ UNCHANGED state
            [] OTHER -> Rescue
  /\ UNCHANGED <<vt, hidden, strip, outside>>

\* Mutant: the grab goes first.
ReleaseThenUnclaim ==
  /\ pc = "unclaim"
  /\ guard' = [guard EXCEPT !.grab = FALSE] /\ Goto("release")
  /\ UNCHANGED <<state, vt, hidden, strip, outside, faults>>

\* The claim is withdrawn before the grab is ...
Unclaim ==
  /\ pc = "unclaim"
  /\ guard' = [guard EXCEPT !.claim = FALSE] /\ Goto("release")
  /\ UNCHANGED <<state, vt, hidden, strip, outside, faults>>

\* ... and comes back with it: _rollback_suspend.
ReleaseGrab ==
  /\ pc = "release"
  /\ \E r \in {"ok", "tcl", "other"} :
       /\ Outcome(r, AnyFault)
       /\ CASE r = "ok" -> /\ guard' = [guard EXCEPT !.grab = FALSE]
                           /\ Goto("vt on") /\ UNCHANGED state
            [] r = "tcl" -> /\ guard' = [guard EXCEPT !.claim = TRUE]
                            /\ Goto("start detector") /\ UNCHANGED state
            [] OTHER -> Rescue /\ UNCHANGED guard
  /\ UNCHANGED <<vt, hidden, strip, outside>>

\* _restore_vt notes that it tried before it tries.
RestoreVt ==
  /\ pc = "vt on"
  /\ \E r \in {"ok", "other"}, off \in {vt.off, FALSE} :
       /\ Outcome(r, {"other"})
       /\ r = "ok" => (off <=> vt.off /\ ~vt.xkb)
       /\ vt' = [vt EXCEPT !.restored = TRUE, !.off = off,
                           !.flag = IF r = "ok" THEN FALSE ELSE @]
       /\ IF r = "ok" THEN Goto("withdraw") /\ UNCHANGED state ELSE Rescue
  /\ UNCHANGED <<guard, hidden, strip, outside>>

\* _withdraw_surfaces: one that will not go stays up.
Withdraw ==
  /\ pc = "withdraw"
  /\ \E r \in {"ok", "tcl", "other"}, gone \in SUBSET SurfaceWindows :
       /\ Outcome(r, AnyFault)
       /\ r = "ok" => gone = SurfaceWindows
       /\ r = "other" => "root" \notin gone
       /\ hidden' = gone
       /\ IF r = "other" THEN Rescue ELSE Goto("spawn") /\ state' = "STUDYING"
  /\ UNCHANGED <<guard, vt, strip, outside>>

\* launch never raises: it says whether there is a browser.
Launches == browser' = [browser EXCEPT !.up = TRUE] /\ UNCHANGED faults
LaunchFails == Outcome("tcl", AnyFault) /\ UNCHANGED browser

\* The strip needs an output to sit on and may fail to be built.
ShowStrip == strip' \in BOOLEAN
DropStrip == strip' = FALSE

\* Mutant: the launcher's promise never to raise is believed.
SpawnTrusting ==
  /\ pc = "spawn" /\ Goto("idle")
  /\ Launches \/ LaunchFails
  /\ UNCHANGED <<state, guard, vt, hidden, strip, window, solved>>

\* _spawn after the suspend.
Spawn ==
  /\ pc = "spawn"
  /\ \/ Launches /\ ShowStrip /\ Goto("idle")
     \/ LaunchFails /\ Goto("say spawn") /\ UNCHANGED strip
  /\ UNCHANGED <<state, guard, vt, hidden, window, solved>>

\* With no browser the lock comes back at once, if that can be said.
SaySpawn ==
  /\ pc = "say spawn"
  /\ \E r \in {"ok"} \cup BackFaults :
       /\ Outcome(r, BackFaults)
       /\ IF r = "ok" THEN pc' = "restore" /\ why' = "back" ELSE Goto("idle")
  /\ UNCHANGED <<state, guard, vt, hidden, strip, outside>>

-----------------------------------------------------------------------------
(* Coming back: _end_study, resume, _emergency_restore *)

\* LockWindow.close: gatelock restores VT only when its own flag is set.
Teardown(flag) ==
  /\ window' = "closed"
  /\ vt' = [vt EXCEPT !.off = @ /\ ~(flag /\ vt.xkb), !.flag = FALSE]
  /\ guard' = [grab |-> FALSE, claim |-> FALSE, recovery |-> "off", detector |-> "off"]

\* What the caller of _end_study goes on to do: nothing, _release's linger, or
\* the end of on_close.
Finish(aim) ==
  CASE aim = "leave" -> window' = "leaving" /\ UNCHANGED <<vt, guard>>
    [] aim = "close" -> Teardown(vt.flag)
    [] OTHER -> UNCHANGED <<window, vt, guard>>

\* What it puts on the screen before: the unlocked view, or that the grab is
\* missing.  A failure there is the end of it.
Writes(aim) == aim = "leave" \/ (aim = "close" /\ pc = "done" /\ ~guard.grab)
WriteAndFinish(aim) ==
  \E r \in {"ok"} \cup (IF Writes(aim) THEN BackFaults ELSE {}) :
    /\ Outcome(r, BackFaults)
    /\ IF r = "ok" THEN Finish(aim)
       ELSE /\ window' = IF aim = "close" THEN "wedged" ELSE window
            /\ UNCHANGED <<vt, guard>>

\* Mutant: while the lock stands down, a settled day has nothing to release.
EndStudyByHandOnly(aim) ==
  /\ pc = "idle" /\ window # "closed"
  /\ CASE aim = "back" -> strip
       [] aim = "leave" -> solved /\ window = "up" /\ state = "LOCKED"
       [] OTHER -> TRUE
  /\ DropStrip
  /\ \/ /\ state = "STUDYING" /\ pc' = "restore" /\ why' = aim
        /\ UNCHANGED <<window, vt, guard, faults>>
     \/ state = "LOCKED" /\ WriteAndFinish(aim) /\ UNCHANGED <<pc, why>>
  /\ UNCHANGED <<state, hidden, browser, solved>>

\* "back": the strip's button; "leave": a poll that found the day settled;
\* "close": the linger's timer, or SIGTERM.
EndStudy(aim) ==
  /\ pc = "idle" /\ window # "closed"
  /\ CASE aim = "back" -> strip
       [] aim = "leave" -> solved /\ window = "up"
       [] OTHER -> TRUE
  /\ DropStrip
  /\ \/ /\ state = "STUDYING" /\ pc' = "restore" /\ why' = aim
        /\ UNCHANGED <<window, vt, guard, faults>>
     \/ state = "LOCKED" /\ WriteAndFinish(aim) /\ UNCHANGED <<pc, why>>
  /\ UNCHANGED <<state, hidden, browser, solved>>

\* _restore_surfaces and _raise_root: a surface that will not come back is
\* skipped.
RestoreSurfaces ==
  /\ pc = "restore"
  /\ \E r \in {"ok"} \cup BackFaults, left \in SUBSET hidden :
       /\ Outcome(r, BackFaults)
       /\ r = "ok" => left = {}
       /\ hidden' = left
       /\ IF r = "other" THEN Escapes("regrab") ELSE Goto("vt off") /\ UNCHANGED window
  /\ UNCHANGED <<state, guard, vt, strip, browser, solved>>

\* Mutant: gatelock is not told.
VtOffUntold ==
  /\ pc = "vt off"
  /\ vt' = [vt EXCEPT !.off = @ \/ (vt.restored /\ vt.xkb), !.restored = FALSE]
  /\ state' = "LOCKED" /\ Goto("regrab")
  /\ UNCHANGED <<guard, hidden, strip, outside, faults>>

\* mark_vt: gatelock's own flag, which its teardown goes by.
MarkVt(switched) == [vt EXCEPT !.off = @ \/ switched, !.flag = switched, !.restored = FALSE]

\* gatelock is told what came of it.  Then the state says LOCKED.
VtOff ==
  /\ pc = "vt off"
  /\ vt' = IF vt.restored THEN MarkVt(vt.xkb) ELSE vt
  /\ state' = "LOCKED" /\ Goto("regrab")
  /\ UNCHANGED <<guard, hidden, strip, outside, faults>>

\* All eight tries happen at once, so they fare alike.  X refuses a window that
\* is not mapped, and a grab another program holds.
GrabWorks == "root" \notin hidden /\ ~browser.grab

\* Mutant: the loops are for a lock that holds its grab.
RegrabOrGiveUp ==
  /\ pc = "regrab"
  /\ guard' = IF GrabWorks THEN [guard EXCEPT !.grab = TRUE, !.claim = TRUE] ELSE guard
  /\ Goto(IF GrabWorks THEN "start detector" ELSE "idle")
  /\ UNCHANGED <<state, vt, hidden, strip, outside, faults>>

\* _regrab; a grab that is refused is said on the screen.
Regrab ==
  /\ pc = "regrab"
  /\ guard' = IF GrabWorks THEN [guard EXCEPT !.grab = TRUE, !.claim = TRUE] ELSE guard
  /\ Goto(IF GrabWorks THEN "start detector" ELSE "say regrab")
  /\ UNCHANGED <<state, vt, hidden, strip, outside, faults>>

\* _on_fail_closed: one sentence on every surface, unguarded, before the loops.
SayRegrab ==
  /\ pc = "say regrab"
  /\ \E r \in {"ok"} \cup BackFaults :
       /\ Outcome(r, BackFaults)
       /\ IF r = "ok" THEN Goto("start detector") /\ UNCHANGED window
          ELSE Escapes("start detector")
  /\ UNCHANGED <<state, guard, vt, hidden, strip, browser, solved>>

\* _start_watchers: each is started whatever became of the other, if what it
\* raised was Tk's.  A failed start inside suspend's try is caught by its net.
StartWatcher(at, w, next) ==
  /\ pc = at
  /\ \E r \in {"ok"} \cup BackFaults :
       /\ Outcome(r, BackFaults)
       /\ guard' = [guard EXCEPT ![w] = CASE r = "ok" -> "on"
                                          [] r = "tcl" /\ @ = "off" -> "broken"
                                          [] OTHER -> @]
       /\ IF r # "other" THEN Goto(next) /\ UNCHANGED <<state, window>>
          ELSE IF why = "study" THEN Rescue /\ UNCHANGED window
          ELSE Escapes("idle") /\ UNCHANGED state
  /\ UNCHANGED <<vt, hidden, strip, browser, solved>>

EndOfCall ==
  /\ pc = "done" /\ pc' = "idle" /\ UNCHANGED why
  /\ WriteAndFinish(why)
  /\ UNCHANGED <<state, hidden, browser, strip, solved>>

-----------------------------------------------------------------------------
(* Between two callbacks *)

\* gatelock's recovery loop: the surfaces back up, VT off without touching the
\* flag, the grab if it is free.
RecoveryTick ==
  /\ pc = "idle" /\ guard.recovery = "on"
  /\ hidden' = {}
  /\ vt' = [vt EXCEPT !.off = @ \/ vt.xkb]
  /\ guard' = IF browser.grab THEN guard ELSE [guard EXCEPT !.grab = TRUE, !.claim = TRUE]
  /\ UNCHANGED <<pc, why, state, browser, strip, window, solved, faults>>

\* A menu or a full-screen page takes a grab; one more is bounded by faults.
BrowserGrabs ==
  /\ browser.up /\ ~browser.grab /\ ~guard.grab /\ faults > 0
  /\ browser' = [browser EXCEPT !.grab = TRUE] /\ faults' = faults - 1
  /\ UNCHANGED <<pc, why, state, guard, vt, hidden, strip, window, solved>>

BrowserDrops ==
  /\ browser.grab /\ browser' = [browser EXCEPT !.grab = FALSE]
  /\ UNCHANGED <<pc, why, state, guard, vt, hidden, strip, window, solved, faults>>

\* setxkbmap is gone from the machine: disable_vt_switching answers False.
XkbVanishes ==
  /\ vt.xkb /\ window # "closed" /\ vt' = [vt EXCEPT !.xkb = FALSE]
  /\ UNCHANGED <<pc, why, state, guard, hidden, browser, strip, window, solved, faults>>

SolveLands ==
  /\ ~solved /\ solved' = TRUE
  /\ UNCHANGED <<pc, why, state, guard, vt, hidden, browser, strip, window, faults>>

Transition ==
  \/ StopWatcher("stop recovery", "recovery", "stop detector")
  \/ StopWatcher("stop detector", "detector", "unclaim")
  \/ Unclaim \/ ReleaseGrab \/ RestoreVt \/ Withdraw \/ Spawn \/ SaySpawn
  \/ RestoreSurfaces \/ VtOff \/ Regrab \/ SayRegrab
  \/ StartWatcher("start detector", "detector", "start recovery")
  \/ StartWatcher("start recovery", "recovery", "done") \/ EndOfCall

World == BrowserGrabs \/ BrowserDrops \/ XkbVanishes \/ SolveLands

Closed == window = "closed" /\ UNCHANGED vars

\* A transition that comes back to nothing before its last call was cut there;
\* the next one starts afresh.
Noted ==
  cut' = IF pc = "idle" /\ pc' # "idle" THEN "no"
         ELSE IF pc' = "idle" /\ pc \notin {"idle", "spawn", "done"} THEN pc
         ELSE cut

Next ==
  /\ \/ OpenProblem \/ (\E aim \in {"back", "leave", "close"} : EndStudy(aim))
     \/ Transition \/ RecoveryTick \/ World \/ Closed
  /\ Noted

Spec == Init /\ [][Next]_vars

\* Callbacks run to their end; the poll and the linger's timer are Tk's and due
\* for ever, until a close was begun; the recovery loop ticks every second; a
\* browser lets a grab go.
FairSpec ==
  /\ Spec
  /\ WF_vars(Transition /\ Noted) /\ WF_vars(BrowserDrops /\ Noted)
  /\ WF_vars(window # "wedged" /\ RecoveryTick /\ Noted)
  /\ SF_vars(EndStudy("leave") /\ Noted)
  /\ SF_vars(window = "leaving" /\ EndStudy("close") /\ Noted)

-----------------------------------------------------------------------------
(* Properties *)

TypeOK ==
  /\ pc \in {"idle", "stop recovery", "stop detector", "unclaim", "release", "vt on",
            "withdraw", "spawn", "say spawn", "restore", "vt off", "regrab", "say regrab",
            "start detector", "start recovery", "done"}
  /\ why \in Aims /\ state \in {"LOCKED", "STUDYING"}
  /\ guard \in [grab : BOOLEAN, claim : BOOLEAN,
                recovery : {"on", "off", "broken"}, detector : {"on", "off", "broken"}]
  /\ vt \in [off : BOOLEAN, flag : BOOLEAN, restored : BOOLEAN, xkb : BOOLEAN]
  /\ hidden \subseteq SurfaceWindows
  /\ browser \in [up : BOOLEAN, grab : BOOLEAN] /\ strip \in BOOLEAN
  /\ window \in {"up", "leaving", "closed", "wedged"} /\ solved \in BOOLEAN
  /\ faults \in 0..MaxFaults /\ cut \in {"no", "say spawn", "say regrab", "restore",
                                        "start detector", "start recovery"}

\* The claim published for other programs is withdrawn before the grab is: no
\* step gives the grab up under it (_suspend: "grab_held goes false FIRST").
ClaimFallsFirst ==
  [][guard.grab /\ ~guard'.grab /\ window' # "closed" => ~guard.claim]_vars

\* The stronger claim the comment makes: "held" is never read for a grab that
\* is gone.  _rollback_suspend breaks it when there was none to begin with.
ClaimIsHonest == guard.claim => guard.grab

Shown == window \in {"up", "leaving"}

\* Between callbacks a machine that says it is locked is: it holds the grab
\* with everything on the screen, or the loop that heals it is running, or that
\* loop's own start was refused and logged.  One failure alone undoes that: of
\* saying that the grab was refused, before the loops are started.
LockedIsGuarded ==
  pc = "idle" /\ state = "LOCKED" /\ Shown =>
    (guard.grab /\ hidden = {}) \/ guard.recovery # "off" \/ cut = "say regrab"

\* "The watchers restart unconditionally, including after a failed re-grab."
WatchersRestart == pc = "idle" /\ state = "LOCKED" /\ Shown => guard.recovery # "off"

\* A machine that is let go for study has the browser it was let go for, no
\* grab, and neither of the loops that would take one back under it.  It stays
\* open without a browser only where saying so failed, before the resume.
StudyIsForABrowser ==
  pc = "idle" /\ state = "STUDYING" =>
    /\ browser.up \/ cut = "say spawn"
    /\ ~guard.grab /\ guard.recovery # "on" /\ guard.detector # "on"

\* Whatever study mode did to it, VT switching works again once the lock has
\* gone, if the program that switches it is still there.
VtComesBack == window = "closed" /\ vt.xkb => ~vt.off

\* Nothing that fails on the way leaves a grab for ever out of reach: while the
\* recovery loop runs and can be restarted, a locked machine gets it back.
GrabComesBack ==
  (state = "LOCKED" /\ guard.recovery = "on" /\ Shown)
    ~> (guard.grab \/ state = "STUDYING" \/ ~Shown \/ guard.recovery = "broken")

\* A settled day ends study mode and the lock, wherever the solve finds them and
\* whatever is raised on the way, unless it is raised in the middle of the close.
SolveEndsStudy == solved ~> window \in {"closed", "wedged"}
=============================================================================
