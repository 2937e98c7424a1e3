----------------------------- MODULE Study_proofs -----------------------------
(***************************************************************************)
(* Proofs about Study, for any number of screens, failures and grabs of    *)
(* the browser's own.  What goes on on the way back is only proved when    *)
(* Tk's failures are the only ones there (the calls name no other).        *)
(***************************************************************************)
EXTENDS Study, TLAPS

Shapes ==
  /\ DOMAIN guard = {"grab", "claim", "recovery", "detector"}
  /\ DOMAIN vt = {"off", "flag", "restored", "xkb"}
  /\ DOMAIN browser = {"up", "grab"}
  /\ guard.grab \in BOOLEAN /\ guard.claim \in BOOLEAN
  /\ vt.off \in BOOLEAN /\ vt.flag \in BOOLEAN /\ vt.restored \in BOOLEAN /\ vt.xkb \in BOOLEAN
  /\ browser.up \in BOOLEAN

(* The claim is down whenever the grab is about to be given up.             *)
ClaimIsDown == pc = "release" => ~guard.claim

LetGo == [grab |-> FALSE, claim |-> FALSE, recovery |-> "off", detector |-> "off"]

LEMMA AllLetGo ==
  /\ DOMAIN LetGo = {"grab", "claim", "recovery", "detector"}
  /\ ~LetGo.grab /\ ~LetGo.claim /\ LetGo.grab \in BOOLEAN /\ LetGo.claim \in BOOLEAN
  /\ LetGo.recovery = "off" /\ LetGo.detector = "off"
<1>1. DOMAIN LetGo = {"grab", "claim", "recovery", "detector"}
  BY DEF LetGo
<1>2. ~LetGo.grab /\ ~LetGo.claim
  BY DEF LetGo
<1>3. LetGo.grab \in BOOLEAN /\ LetGo.claim \in BOOLEAN
  BY DEF LetGo
<1>4. LetGo.recovery = "off" /\ LetGo.detector = "off"
  BY DEF LetGo
<1> QED
  BY <1>1, <1>2, <1>3, <1>4

CInv == Shapes /\ ClaimIsDown

(* What ends a call closes the window or leaves VT and the guard alone.     *)
LEMMA FinishOrNot ==
  ASSUME NEW aim, WriteAndFinish(aim)
  PROVE  \/ Teardown(vt.flag) /\ window' = "closed"
         \/ window' \in {window, "leaving", "wedged"} /\ UNCHANGED <<vt, guard>>
<1>1. CASE Finish(aim)
  BY <1>1 DEF Finish, Teardown
<1>2. CASE ~Finish(aim)
  BY <1>2 DEF WriteAndFinish
<1> QED
  BY <1>1, <1>2

LEMMA InitShapes == Init => Shapes /\ ClaimIsDown
BY DEF Init, Shapes, ClaimIsDown

(* The steps of a transition keep the shapes, and only _unclaim leads to    *)
(* the release.                                                             *)
LEMMA StepShapes ==
  ASSUME Shapes, Next
  PROVE  /\ Shapes'
         /\ pc' = "release" => \/ pc = "release" /\ UNCHANGED guard
                               \/ pc = "unclaim" /\ ~guard'.claim
<1>1. CASE OpenProblem
  BY <1>1 DEF OpenProblem, Shapes, outside
<1>2. ASSUME NEW aim \in {"back", "leave", "close"}, EndStudy(aim)
      PROVE  Shapes' /\ (pc' = "release" => pc = "release" /\ UNCHANGED guard)
  <2>1. UNCHANGED browser /\ pc = "idle" /\ pc' \in {"idle", "restore"}
    BY <1>2 DEF EndStudy
  <2>2. UNCHANGED <<vt, guard>> \/ Teardown(vt.flag)
    BY <1>2, FinishOrNot DEF EndStudy
  <2>5. UNCHANGED guard \/ guard' = LetGo
    BY <2>2 DEF Teardown, LetGo
  <2>3. DOMAIN guard' = DOMAIN guard /\ guard'.grab \in BOOLEAN /\ guard'.claim \in BOOLEAN
    BY <2>5, AllLetGo DEF Shapes
  <2>4. /\ DOMAIN vt' = DOMAIN vt /\ vt'.off \in BOOLEAN /\ vt'.flag \in BOOLEAN
        /\ vt'.restored \in BOOLEAN /\ vt'.xkb \in BOOLEAN
    BY <2>2 DEF Teardown, Shapes
  <2> QED
    BY <2>1, <2>3, <2>4 DEF Shapes
<1>3. ASSUME NEW at, NEW w \in {"recovery", "detector"},
             NEW next \in {"stop detector", "unclaim"}, StopWatcher(at, w, next)
      PROVE  Shapes' /\ pc' # "release"
  BY <1>3 DEF StopWatcher, Outcome, Goto, Rescue, Shapes, outside
<1>4. CASE Unclaim
  BY <1>4 DEF Unclaim, Goto, Shapes, outside
<1>5. CASE ReleaseGrab
  BY <1>5 DEF ReleaseGrab, Goto, Rescue, Shapes, outside
<1>6. CASE RestoreVt
  <2>1. UNCHANGED <<guard, browser>> /\ pc' # "release"
    BY <1>6 DEF RestoreVt, Goto, Rescue, outside
  <2>2. PICK r \in {"ok", "other"}, off \in {vt.off, FALSE} :
          vt' = [vt EXCEPT !.restored = TRUE, !.off = off,
                           !.flag = IF r = "ok" THEN FALSE ELSE @]
    BY <1>6 DEF RestoreVt
  <2>3. /\ DOMAIN vt' = DOMAIN vt /\ vt'.off \in BOOLEAN /\ vt'.flag \in BOOLEAN
        /\ vt'.restored \in BOOLEAN /\ vt'.xkb \in BOOLEAN
    BY <2>2 DEF Shapes
  <2> QED
    BY <2>1, <2>3 DEF Shapes
<1>7. CASE Withdraw
  BY <1>7 DEF Withdraw, Goto, Rescue, Shapes, outside
<1>8. CASE Spawn
  BY <1>8 DEF Spawn, Launches, LaunchFails, Goto, Shapes, outside
<1>9. CASE RestoreSurfaces
  BY <1>9 DEF RestoreSurfaces, Goto, Escapes, Shapes, outside
<1>10. CASE VtOff
  <2>1. UNCHANGED <<guard, browser>> /\ pc' # "release"
    BY <1>10 DEF VtOff, Goto, outside
  <2>2. vt' = vt \/ vt' = [vt EXCEPT !.off = @ \/ vt.xkb, !.flag = vt.xkb, !.restored = FALSE]
    BY <1>10 DEF VtOff, MarkVt
  <2>3. /\ DOMAIN vt' = DOMAIN vt /\ vt'.off \in BOOLEAN /\ vt'.flag \in BOOLEAN
        /\ vt'.restored \in BOOLEAN /\ vt'.xkb \in BOOLEAN
    BY <2>2 DEF Shapes
  <2> QED
    BY <2>1, <2>3 DEF Shapes
<1>11. CASE Regrab
  BY <1>11 DEF Regrab, Goto, Shapes, outside
<1>19. CASE SaySpawn \/ SayRegrab
  BY <1>19 DEF SaySpawn, SayRegrab, Goto, Escapes, Shapes, outside
<1>12. ASSUME NEW at, NEW w \in {"recovery", "detector"},
              NEW next \in {"start recovery", "done"}, StartWatcher(at, w, next)
       PROVE  Shapes' /\ pc' # "release"
  BY <1>12 DEF StartWatcher, Goto, Rescue, Escapes, Shapes, outside
<1>13. CASE EndOfCall
  <2>1. UNCHANGED browser /\ pc' = "idle"
    BY <1>13 DEF EndOfCall
  <2>2. UNCHANGED <<vt, guard>> \/ Teardown(vt.flag)
    BY <1>13, FinishOrNot DEF EndOfCall
  <2>5. UNCHANGED guard \/ guard' = LetGo
    BY <2>2 DEF Teardown, LetGo
  <2>3. DOMAIN guard' = DOMAIN guard /\ guard'.grab \in BOOLEAN /\ guard'.claim \in BOOLEAN
    BY <2>5, AllLetGo DEF Shapes
  <2>4. /\ DOMAIN vt' = DOMAIN vt /\ vt'.off \in BOOLEAN /\ vt'.flag \in BOOLEAN
        /\ vt'.restored \in BOOLEAN /\ vt'.xkb \in BOOLEAN
    BY <2>2 DEF Teardown, Shapes
  <2> QED
    BY <2>1, <2>3, <2>4 DEF Shapes
<1>14. CASE RecoveryTick
  BY <1>14 DEF RecoveryTick, Shapes
<1>15. CASE World \/ Closed
  <2>1. CASE BrowserGrabs
    BY <2>1 DEF BrowserGrabs, Shapes
  <2>2. CASE BrowserDrops
    BY <2>2 DEF BrowserDrops, Shapes
  <2>3. CASE XkbVanishes
    BY <2>3 DEF XkbVanishes, Shapes
  <2>4. CASE SolveLands
    BY <2>4 DEF SolveLands, Shapes
  <2>5. CASE Closed
    BY <2>5 DEF Closed, vars, Shapes
  <2> QED
    BY <1>15, <2>1, <2>2, <2>3, <2>4, <2>5 DEF World
<1>16. CASE \E aim \in {"back", "leave", "close"} : EndStudy(aim)
  BY <1>16, <1>2
<1>17. CASE \/ StopWatcher("stop recovery", "recovery", "stop detector")
            \/ StopWatcher("stop detector", "detector", "unclaim")
  BY <1>17, <1>3
<1>18. CASE \/ StartWatcher("start detector", "detector", "start recovery")
            \/ StartWatcher("start recovery", "recovery", "done")
  BY <1>18, <1>12
<1> QED
  BY <1>1, <1>16, <1>17, <1>4, <1>5, <1>6, <1>7, <1>8, <1>9, <1>10, <1>11, <1>18, <1>13, <1>14,
     <1>15, <1>19 DEF Next, Transition

-----------------------------------------------------------------------------
(* Only the release and the teardown give the grab up.                      *)
LEMMA StepGrab ==
  ASSUME Shapes, Next, guard.grab, ~guard'.grab
  PROVE  pc = "release" \/ window' = "closed"
<1>1. ASSUME NEW aim \in {"back", "leave", "close"}, EndStudy(aim)
      PROVE  window' = "closed"
  BY <1>1, FinishOrNot DEF EndStudy
<1>2. ASSUME NEW at, NEW w \in {"recovery", "detector"}, NEW next, StopWatcher(at, w, next)
      PROVE  FALSE
  BY <1>2 DEF StopWatcher, Shapes
<1>3. ASSUME NEW at, NEW w \in {"recovery", "detector"}, NEW next, StartWatcher(at, w, next)
      PROVE  FALSE
  BY <1>3 DEF StartWatcher, Shapes
<1>4. CASE EndOfCall
  BY <1>4, FinishOrNot DEF EndOfCall
<1>5. CASE Unclaim \/ Regrab \/ RecoveryTick
  BY <1>5 DEF Unclaim, Regrab, RecoveryTick, Shapes
<1>6. CASE ReleaseGrab
  BY <1>6 DEF ReleaseGrab
<1>7. CASE \/ OpenProblem \/ RestoreVt \/ Withdraw \/ Spawn \/ SaySpawn \/ RestoreSurfaces
            \/ VtOff \/ SayRegrab
  BY <1>7 DEF OpenProblem, RestoreVt, Withdraw, Spawn, SaySpawn, RestoreSurfaces, VtOff, SayRegrab
<1>8. CASE World \/ Closed
  BY <1>8 DEF World, BrowserGrabs, BrowserDrops, XkbVanishes, SolveLands, Closed, vars
<1>9. CASE \E aim \in {"back", "leave", "close"} : EndStudy(aim)
  BY <1>1, <1>9
<1>10. CASE \/ StopWatcher("stop recovery", "recovery", "stop detector")
            \/ StopWatcher("stop detector", "detector", "unclaim")
  BY <1>2, <1>10
<1>11. CASE \/ StartWatcher("start detector", "detector", "start recovery")
            \/ StartWatcher("start recovery", "recovery", "done")
  BY <1>3, <1>11
<1> QED
  BY <1>4, <1>5, <1>6, <1>7, <1>8, <1>9, <1>10, <1>11 DEF Next, Transition

LEMMA StepCInv == CInv /\ [Next]_vars => CInv'
<1> SUFFICES ASSUME CInv, [Next]_vars PROVE CInv'
  OBVIOUS
<1>1. CASE UNCHANGED vars
  BY <1>1 DEF CInv, Shapes, ClaimIsDown, vars
<1>2. CASE Next
  <2>1. Shapes'
    BY <1>2, StepShapes DEF CInv
  <2>2. ClaimIsDown'
    BY <1>2, StepShapes DEF CInv, ClaimIsDown
  <2> QED
    BY <2>1, <2>2 DEF CInv
<1> QED
  BY <1>1, <1>2

(* Whatever fails on the way, and however: no step of any transition gives  *)
(* the grab up while other programs are still told that it is held          *)
(* (_suspend, _rollback_suspend, resume).                                   *)
THEOREM ClaimGoesBeforeTheGrab == Spec => ClaimFallsFirst
<1>1. Init => CInv
  BY InitShapes DEF CInv
<1>2. ASSUME CInv, Next
      PROVE  guard.grab /\ ~guard'.grab /\ window' # "closed" => ~guard.claim
  BY <1>2, StepGrab DEF CInv, ClaimIsDown
<1>3. CInv /\ [Next]_vars => [guard.grab /\ ~guard'.grab /\ window' # "closed" => ~guard.claim]_vars
  BY <1>2
<1> QED
  BY <1>1, StepCInv, <1>3, PTL DEF Spec, ClaimFallsFirst

-----------------------------------------------------------------------------
(* From here on Tk's failures are the only ones on the way back.            *)
TkOnly == "other" \notin BackFaults

(* The two loops are stopped before anything else is, a machine stands down *)
(* only where a transition says so, and not without its browser unless the  *)
(* transition was cut short before it could put the lock back.              *)
StandsDown ==
  /\ state \in {"LOCKED", "STUDYING"}
  /\ state = "STUDYING" =>
       /\ pc \in {"idle", "spawn", "say spawn", "restore", "vt off"}
       /\ ~guard.grab /\ guard.recovery # "on" /\ guard.detector # "on"
       /\ pc = "idle" => browser.up \/ cut = "say spawn"
  /\ pc \in {"spawn", "say spawn"} => state = "STUDYING"
  /\ pc \in {"stop detector", "unclaim", "release", "vt on", "withdraw"} =>
       guard.recovery # "on"
  /\ pc \in {"unclaim", "release", "vt on", "withdraw"} => guard.detector # "on"
  /\ pc \in {"vt on", "withdraw"} => ~guard.grab

(* No way back ends without an attempt to start the recovery loop, but the  *)
(* one that was cut short at the sentence before it.                        *)
Heals ==
  /\ pc = "done" => guard.recovery # "off"
  /\ pc = "idle" /\ state = "LOCKED" /\ window # "closed" =>
       guard.recovery # "off" \/ cut = "say regrab"

(* A closed window is the end.                                              *)
ClosedIsEnd ==
  window = "closed" =>
    pc = "idle" /\ state = "LOCKED" /\ guard.recovery = "off" /\ ~vt.flag

(* gatelock's flag: it is down while VT is off only where _restore_vt's note *)
(* will have it raised again, and that is no place for the recovery loop.   *)
FlagIsDue ==
  vt.xkb /\ ~vt.flag /\ window # "closed" =>
    vt.restored /\ (state = "STUDYING" \/ pc \in {"withdraw", "restore", "vt off"})

GInv ==
  /\ Shapes /\ StandsDown /\ Heals /\ ClosedIsEnd /\ FlagIsDue
  /\ vt.off /\ vt.xkb => vt.flag

LEMMA InitGInv == Init => GInv
<1> SUFFICES ASSUME Init PROVE GInv
  OBVIOUS
<1>1. guard.recovery = "on" /\ vt.flag /\ pc = "idle" /\ state = "LOCKED" /\ window = "up"
  BY DEF Init
<1> QED
  BY <1>1, InitShapes DEF GInv, StandsDown, Heals, ClosedIsEnd, FlagIsDue

Rest == StandsDown /\ Heals /\ ClosedIsEnd /\ FlagIsDue /\ (vt.off /\ vt.xkb => vt.flag)

LEMMA GStandDown ==
  ASSUME GInv, Noted,
         \/ OpenProblem \/ Unclaim \/ ReleaseGrab \/ Withdraw \/ Spawn
         \/ StopWatcher("stop recovery", "recovery", "stop detector")
         \/ StopWatcher("stop detector", "detector", "unclaim")
  PROVE  Rest'
<1> USE DEF GInv, Shapes, Rest, StandsDown, Heals, ClosedIsEnd, FlagIsDue, Noted
<1>1. CASE OpenProblem
  BY <1>1 DEF OpenProblem, outside
<1>2. CASE Unclaim
  BY <1>2 DEF Unclaim, Goto, outside
<1>3. CASE ReleaseGrab
  <2>1. /\ pc = "release" /\ UNCHANGED <<vt, outside>>
        /\ \/ guard' = [guard EXCEPT !.grab = FALSE] /\ pc' = "vt on" /\ UNCHANGED state
           \/ guard' = [guard EXCEPT !.claim = TRUE] /\ pc' = "start detector" /\ UNCHANGED state
           \/ guard' = guard /\ pc' = "restore" /\ state' = "LOCKED"
    BY <1>3 DEF ReleaseGrab, Goto, Rescue
  <2> QED
    BY <2>1 DEF outside
<1>4. CASE Withdraw
  BY <1>4 DEF Withdraw, Goto, Rescue, outside
<1>5. CASE Spawn
  BY <1>5 DEF Spawn, Launches, LaunchFails, Goto
<1>6. CASE StopWatcher("stop recovery", "recovery", "stop detector")
  <2>1. /\ pc = "stop recovery" /\ UNCHANGED <<vt, outside>>
        /\ \/ guard' = [guard EXCEPT !.recovery = "off"] /\ pc' = "stop detector" /\ UNCHANGED state
           \/ guard' = guard /\ pc' = "start detector" /\ UNCHANGED state
           \/ guard' = guard /\ pc' = "restore" /\ state' = "LOCKED"
    BY <1>6 DEF StopWatcher, Goto, Rescue
  <2> QED
    BY <2>1 DEF outside
<1>7. CASE StopWatcher("stop detector", "detector", "unclaim")
  <2>1. /\ pc = "stop detector" /\ UNCHANGED <<vt, outside>>
        /\ \/ guard' = [guard EXCEPT !.detector = "off"] /\ pc' = "unclaim" /\ UNCHANGED state
           \/ guard' = guard /\ pc' = "start detector" /\ UNCHANGED state
           \/ guard' = guard /\ pc' = "restore" /\ state' = "LOCKED"
    BY <1>7 DEF StopWatcher, Goto, Rescue
  <2> QED
    BY <2>1 DEF outside
<1> QED
  BY <1>1, <1>2, <1>3, <1>4, <1>5, <1>6, <1>7

(* The steps that touch VT switching.                                       *)
LEMMA GVt ==
  ASSUME GInv, Noted, RestoreVt \/ VtOff \/ RecoveryTick
  PROVE  Rest'
<1> USE DEF GInv, Shapes, Rest, StandsDown, Heals, ClosedIsEnd, FlagIsDue, Noted
<1>1. CASE RestoreVt
  <2>1. /\ pc = "vt on" /\ UNCHANGED <<guard, window, browser>>
        /\ \/ pc' = "withdraw" /\ UNCHANGED state
           \/ pc' = "restore" /\ state' = "LOCKED"
    BY <1>1 DEF RestoreVt, Goto, Rescue, outside
  <2>2. PICK r \in {"ok", "other"}, off \in {vt.off, FALSE} :
          /\ r = "ok" => (off <=> vt.off /\ ~vt.xkb)
          /\ vt' = [vt EXCEPT !.restored = TRUE, !.off = off,
                              !.flag = IF r = "ok" THEN FALSE ELSE @]
    BY <1>1 DEF RestoreVt
  <2>3. vt'.restored /\ (vt'.xkb <=> vt.xkb) /\ (vt'.off <=> off)
    BY <2>2
  <2>4. vt'.flag <=> r # "ok" /\ vt.flag
    BY <2>2
  <2>5. vt'.off /\ vt'.xkb => vt'.flag
    BY <2>2, <2>3, <2>4
  <2>6. StandsDown' /\ Heals' /\ ClosedIsEnd'
    BY <2>1
  <2>7. FlagIsDue'
    BY <2>1, <2>3
  <2> QED
    BY <2>5, <2>6, <2>7
<1>2. CASE VtOff
  <2>1. /\ pc = "vt off" /\ pc' = "regrab" /\ state' = "LOCKED"
        /\ UNCHANGED <<guard, window, browser>>
    BY <1>2 DEF VtOff, Goto, outside
  <2>2. CASE vt.restored
    <3>1. vt' = [vt EXCEPT !.off = @ \/ vt.xkb, !.flag = vt.xkb, !.restored = FALSE]
      BY <1>2, <2>2 DEF VtOff, MarkVt
    <3>2. (vt'.xkb <=> vt.xkb) /\ (vt'.flag <=> vt.xkb)
      BY <3>1
    <3> QED
      BY <2>1, <3>2
  <2>3. CASE ~vt.restored
    <3>1. vt' = vt
      BY <1>2, <2>3 DEF VtOff
    <3> QED
      BY <2>1, <2>3, <3>1
  <2> QED
    BY <2>2, <2>3
<1>3. CASE RecoveryTick
  <2>1. pc = "idle" /\ guard.recovery = "on" /\ UNCHANGED <<pc, state, window, browser>>
    BY <1>3 DEF RecoveryTick
  <2>2. state # "STUDYING" /\ window # "closed" /\ (vt.xkb => vt.flag)
    BY <2>1
  <2>3. vt' = [vt EXCEPT !.off = @ \/ vt.xkb]
    BY <1>3 DEF RecoveryTick
  <2>4. (vt'.xkb <=> vt.xkb) /\ (vt'.flag <=> vt.flag)
    BY <2>3
  <2>5. guard'.recovery = "on"
    BY <1>3, <2>1 DEF RecoveryTick
  <2> QED
    BY <2>1, <2>2, <2>4, <2>5
<1> QED
  BY <1>1, <1>2, <1>3

(* Closing the window gives VT switching back if gatelock's flag says so.   *)
LEMMA GTeardown ==
  ASSUME GInv, pc' = "idle", state' = "LOCKED", Teardown(vt.flag)
  PROVE  Rest'
<1>1. guard' = LetGo /\ window' = "closed"
  BY DEF Teardown, LetGo
<1>2. vt' = [vt EXCEPT !.off = @ /\ ~(vt.flag /\ vt.xkb), !.flag = FALSE]
  BY DEF Teardown
<1>3. (vt'.xkb <=> vt.xkb) /\ (vt'.off <=> vt.off /\ ~(vt.flag /\ vt.xkb))
  BY <1>2 DEF GInv, Shapes
<1>4. vt'.off /\ vt'.xkb => vt'.flag
  BY <1>3 DEF GInv
<1>5. ~vt'.flag
  BY <1>2 DEF GInv, Shapes
<1> QED
  BY <1>1, <1>4, <1>5, AllLetGo DEF Rest, StandsDown, Heals, ClosedIsEnd, FlagIsDue

LEMMA GEnd ==
  ASSUME GInv, Noted, NEW aim, WriteAndFinish(aim), UNCHANGED <<state, browser>>,
         pc \in {"idle", "done"}, pc' = "idle", state = "LOCKED", window # "closed"
  PROVE  Rest'
<1>1. CASE Teardown(vt.flag)
  BY <1>1, GTeardown
<1>2. CASE window' \in {window, "leaving", "wedged"} /\ UNCHANGED <<vt, guard>>
  BY <1>2 DEF GInv, Rest, StandsDown, Heals, ClosedIsEnd, FlagIsDue, Noted
<1> QED
  BY <1>1, <1>2, FinishOrNot

LEMMA GComeBack ==
  ASSUME GInv, Noted, TkOnly,
         \/ \E aim \in {"back", "leave", "close"} : EndStudy(aim)
         \/ SaySpawn \/ RestoreSurfaces \/ Regrab \/ SayRegrab \/ EndOfCall
         \/ StartWatcher("start detector", "detector", "start recovery")
         \/ StartWatcher("start recovery", "recovery", "done")
  PROVE  Rest'
<1> USE DEF Noted
<1>1. ASSUME NEW aim \in {"back", "leave", "close"}, EndStudy(aim)
      PROVE  Rest'
  <2>1. CASE state = "STUDYING"
    <3>1. pc' = "restore" /\ UNCHANGED <<state, window, vt, guard, browser>>
      BY <1>1, <2>1 DEF EndStudy
    <3> QED
      BY <2>1, <3>1 DEF GInv, Rest, StandsDown, Heals, ClosedIsEnd, FlagIsDue
  <2>2. CASE state = "LOCKED"
    <3>1. /\ WriteAndFinish(aim) /\ pc = "idle" /\ window # "closed"
          /\ UNCHANGED <<pc, state, browser>>
      BY <1>1, <2>2 DEF EndStudy
    <3> QED
      BY <2>2, <3>1, GEnd
  <2> QED
    BY <1>1, <2>1, <2>2 DEF EndStudy
<1>2. CASE RestoreSurfaces
  <2>1. pc = "restore" /\ pc' = "vt off" /\ UNCHANGED <<state, guard, vt, outside>>
    BY <1>2 DEF RestoreSurfaces, TkOnly, Goto, outside
  <2> QED
    BY <2>1 DEF GInv, Rest, StandsDown, Heals, ClosedIsEnd, FlagIsDue, outside
<1>3. CASE Regrab
  <2>1. /\ pc = "regrab" /\ pc' \in {"start detector", "say regrab"}
        /\ UNCHANGED <<state, vt, outside>>
    BY <1>3 DEF Regrab, Goto
  <2>2. state # "STUDYING" /\ window # "closed"
    BY <2>1 DEF GInv, StandsDown, ClosedIsEnd
  <2> QED
    BY <2>1, <2>2 DEF GInv, Rest, StandsDown, Heals, ClosedIsEnd, FlagIsDue, outside
<1>7. CASE SayRegrab
  <2>1. /\ pc = "say regrab" /\ UNCHANGED <<state, guard, vt, browser>>
        /\ \/ pc' = "start detector" /\ UNCHANGED window
           \/ pc' = "idle" /\ window' \in {window, "wedged"}
    BY <1>7 DEF SayRegrab, Escapes, Goto
  <2>2. state # "STUDYING" /\ window # "closed"
    BY <2>1 DEF GInv, StandsDown, ClosedIsEnd
  <2>3. pc' = "idle" => cut' = "say regrab"
    BY <2>1
  <2> QED
    BY <2>1, <2>2, <2>3 DEF GInv, Rest, StandsDown, Heals, ClosedIsEnd, FlagIsDue
<1>8. CASE SaySpawn
  <2>1. pc = "say spawn" /\ pc' \in {"restore", "idle"} /\ UNCHANGED <<state, guard, vt, outside>>
    BY <1>8 DEF SaySpawn, Goto
  <2>2. pc' = "idle" => cut' = "say spawn"
    BY <2>1
  <2> QED
    BY <2>1, <2>2 DEF GInv, Rest, StandsDown, Heals, ClosedIsEnd, FlagIsDue, outside
<1>4. CASE EndOfCall
  <2>1. pc = "done" /\ pc' = "idle" /\ WriteAndFinish(why) /\ UNCHANGED <<state, browser>>
    BY <1>4 DEF EndOfCall
  <2>2. state = "LOCKED" /\ window # "closed"
    BY <2>1 DEF GInv, StandsDown, ClosedIsEnd
  <2> QED
    BY <2>1, <2>2, GEnd
<1>5. CASE StartWatcher("start detector", "detector", "start recovery")
  <2>1. /\ pc = "start detector" /\ pc' = "start recovery" /\ UNCHANGED <<state, vt, outside>>
    BY <1>5 DEF StartWatcher, TkOnly, Goto, outside
  <2> QED
    BY <2>1 DEF GInv, Rest, StandsDown, Heals, ClosedIsEnd, FlagIsDue, outside
<1>6. CASE StartWatcher("start recovery", "recovery", "done")
  <2>1. /\ pc = "start recovery" /\ pc' = "done" /\ UNCHANGED <<state, vt, outside>>
    BY <1>6 DEF StartWatcher, TkOnly, Goto, outside
  <2>2. guard'.recovery # "off"
    <3>1. PICK r \in {"ok"} \cup BackFaults :
            guard' = [guard EXCEPT !["recovery"] = CASE r = "ok" -> "on"
                                                     [] r = "tcl" /\ @ = "off" -> "broken"
                                                     [] OTHER -> @]
      BY <1>6 DEF StartWatcher
    <3>2. r \in {"ok", "tcl"}
      BY StudyAssumption DEF StudyAssumption, TkOnly
    <3>3. guard'.recovery = CASE r = "ok" -> "on"
                              [] r = "tcl" /\ guard.recovery = "off" -> "broken"
                              [] OTHER -> guard.recovery
      BY <3>1 DEF GInv, Shapes
    <3> QED
      BY <3>2, <3>3
  <2> QED
    BY <2>1, <2>2 DEF GInv, Rest, StandsDown, Heals, ClosedIsEnd, FlagIsDue, outside
<1> QED
  BY <1>1, <1>2, <1>3, <1>4, <1>5, <1>6, <1>7, <1>8

LEMMA GWorld ==
  ASSUME GInv, Noted, World \/ Closed
  PROVE  Rest'
<1> USE DEF GInv, Shapes, Rest, StandsDown, Heals, ClosedIsEnd, FlagIsDue, Noted
<1>1. CASE BrowserGrabs
  BY <1>1 DEF BrowserGrabs
<1>2. CASE BrowserDrops
  BY <1>2 DEF BrowserDrops
<1>3. CASE XkbVanishes
  BY <1>3 DEF XkbVanishes
<1>4. CASE SolveLands
  BY <1>4 DEF SolveLands
<1>5. CASE Closed
  BY <1>5 DEF Closed, vars
<1> QED
  BY <1>1, <1>2, <1>3, <1>4, <1>5 DEF World

LEMMA StepGInv == ASSUME TkOnly PROVE GInv /\ [Next]_vars => GInv'
<1> SUFFICES ASSUME GInv, [Next]_vars PROVE GInv'
  OBVIOUS
<1>1. CASE UNCHANGED vars
  BY <1>1 DEF GInv, Shapes, StandsDown, Heals, ClosedIsEnd, FlagIsDue, vars
<1>2. CASE Next
  <2>1. Shapes'
    BY <1>2, StepShapes DEF GInv
  <2>2. Rest'
    <3>1. Noted
      BY <1>2 DEF Next
    <3> QED
      BY <1>2, <3>1, GStandDown, GVt, GComeBack, GWorld DEF Next, Transition
  <2> QED
    BY <2>1, <2>2 DEF GInv, Rest
<1> QED
  BY <1>1, <1>2

LEMMA Guarded == ASSUME TkOnly PROVE Spec => []GInv
<1>1. GInv /\ [Next]_vars => GInv'
  BY StepGInv
<1> QED
  BY InitGInv, <1>1, PTL DEF Spec

(* A machine that was let go for study is let go for a browser, and neither *)
(* loop is left running to take the grab back under it (suspend, _spawn):   *)
(* the only way to a machine without one is a failed launch that could not  *)
(* even be put on the screen.                                               *)
THEOREM StudyHasItsBrowser == ASSUME TkOnly PROVE Spec => []StudyIsForABrowser
<1>1. GInv => StudyIsForABrowser
  BY DEF GInv, StandsDown, StudyIsForABrowser
<1> QED
  BY Guarded, <1>1, PTL

(* Whatever of Tk's failed on the way down or back, a machine that says it  *)
(* is locked is guarded between callbacks (resume, _emergency_restore), but *)
(* for one call: saying that the grab was refused, before the loops start.  *)
THEOREM ALockedMachineIsGuarded == ASSUME TkOnly PROVE Spec => []LockedIsGuarded
<1>1. GInv => LockedIsGuarded
  BY DEF GInv, Heals, Shown, LockedIsGuarded
<1> QED
  BY Guarded, <1>1, PTL

(* VT switching is given back by the teardown, whatever study mode, the     *)
(* recovery loop and a vanishing setxkbmap did to it and to gatelock's flag.*)
THEOREM VtIsGivenBack == ASSUME TkOnly PROVE Spec => []VtComesBack
<1>1. GInv => VtComesBack
  BY DEF GInv, ClosedIsEnd, VtComesBack
<1> QED
  BY Guarded, <1>1, PTL
=============================================================================
