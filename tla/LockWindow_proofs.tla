-------------------------- MODULE LockWindow_proofs --------------------------
(***************************************************************************)
(* Proofs about LockWindow, for any number of rings, pokes of a burst,     *)
(* monitors and network changes, and any number of failed polls before the *)
(* hatch opens.                                                            *)
(***************************************************************************)
EXTENDS LockWindow, TLAPS

Typed(p) ==
  /\ DOMAIN p = {"tick", "drain", "future", "poked", "flight", "blind"}
  /\ p.tick \in Nat /\ p.drain \in Nat /\ p.future \in {"none", "running"} \cup Answers
  /\ p.poked \in BOOLEAN /\ p.flight \in BOOLEAN /\ p.blind \in 0..HatchPolls

(* The inductive invariant.  OneChain says which job is pending; a check    *)
(* nobody poked was started by a tick, and that tick was waited for before  *)
(* its failure counts.                                                      *)
TickIsWaited == poll.drain > 0 /\ ~poll.flight => poll.blind <= waited

PInv ==
  /\ Typed(poll) /\ waited \in 0..HatchPolls
  /\ window \in {"up", "leaving", "closed", "terminated"}
  /\ OneChain /\ BlindTimeIsWaited /\ TickIsWaited

USE WindowAssumption DEF WindowAssumption

-----------------------------------------------------------------------------
(* The operators on the poller's record *)

(* A tick over an idle poller leaves exactly a drain pending.               *)
LEMMA TickPends ==
  ASSUME NEW p, Typed(p),
         NEW asked \in BOOLEAN, p.future = "none"
  PROVE  /\ Typed(Tick(p, asked))
         /\ Tick(p, asked).tick = p.tick /\ Tick(p, asked).drain = p.drain + 1
         /\ Tick(p, asked).future = "running" /\ Tick(p, asked).flight = asked
         /\ Tick(p, asked).blind = p.blind
BY DEF Tick, Typed

(* A poke turns the pending tick into a check, or changes nothing.          *)
LEMMA PokeTakesTheTick ==
  ASSUME NEW p, Typed(p),
         p.tick > 0 => p.future = "none"
  PROVE  \/ FirePoke(p) = p
         \/ /\ p.tick > 0
            /\ Typed(FirePoke(p))
            /\ FirePoke(p).tick = p.tick - 1 /\ FirePoke(p).drain = p.drain + 1
            /\ FirePoke(p).future = "running" /\ FirePoke(p).flight
            /\ FirePoke(p).blind = p.blind
<1>1. CASE ~(p.poked /\ p.tick > 0)
  BY <1>1 DEF FirePoke
<1>2. CASE p.poked /\ p.tick > 0
  <2> DEFINE q == [p EXCEPT !.poked = FALSE, !.tick = @ - 1]
  <2>1. Typed(q)
    BY <1>2 DEF Typed
  <2>2. q.tick = p.tick - 1 /\ q.drain = p.drain /\ q.future = "none" /\ q.blind = p.blind
    BY <1>2
  <2>3. FirePoke(p) = Tick(q, TRUE)
    BY <1>2 DEF FirePoke
  <2> HIDE DEF q
  <2> QED
    BY <1>2, <2>1, <2>2, <2>3, TickPends
<1> QED
  BY <1>1, <1>2

(* Only a failed check nobody asked for is one more.                        *)
LEMMA RecordCounts ==
  ASSUME NEW n \in 0..HatchPolls, NEW usable, NEW asked
  PROVE  /\ Record(n, usable, asked) \in 0..HatchPolls
         /\ usable => Record(n, usable, asked) = 0
         /\ ~usable /\ asked => Record(n, usable, asked) = n
         /\ ~usable /\ ~asked => Record(n, usable, asked) = IF n < HatchPolls THEN n + 1 ELSE n
         /\ Record(n, usable, asked) <= n + 1
<1>1. CASE usable
  BY <1>1 DEF Record
<1>2. CASE ~usable /\ asked
  BY <1>2 DEF Record
<1>3. CASE ~usable /\ ~asked
  BY <1>3 DEF Record
<1> QED
  BY <1>1, <1>2, <1>3

-----------------------------------------------------------------------------
LEMMA InitPInv == Init => PInv
<1> SUFFICES ASSUME Init PROVE PInv
  OBVIOUS
<1>1. Typed(PollerAtStart)
  BY DEF PollerAtStart, Typed
<1>2. Typed(poll) /\ poll.tick = 0 /\ poll.drain = 1 /\ poll.future = "running" /\ poll.blind = 0
  <2>1. /\ PollerAtStart.tick = 0 /\ PollerAtStart.drain = 0 /\ PollerAtStart.blind = 0
        /\ PollerAtStart.future = "none"
    BY DEF PollerAtStart
  <2>2. poll = Tick(PollerAtStart, FALSE)
    BY DEF Init
  <2> QED
    BY <1>1, <2>1, <2>2 DEF Tick, Typed
<1>3. window = "up" /\ waited = 0
  BY DEF Init
<1> QED
  BY <1>2, <1>3 DEF PInv, OneChain, BlindTimeIsWaited, TickIsWaited, Open

(* Whatever leaves the poller's jobs, blind time and the window's being open *)
(* alone keeps the invariant.                                               *)
LEMMA Untouched ==
  ASSUME PInv, Typed(poll)', waited' = waited, Open' = Open,
         window' \in {"up", "leaving", "closed", "terminated"},
         poll'.tick = poll.tick, poll'.drain = poll.drain,
         poll'.future = "none" <=> poll.future = "none",
         poll'.flight = poll.flight, poll'.blind = poll.blind
  PROVE  PInv'
<1>1. OneChain'
  BY DEF PInv, OneChain
<1>2. BlindTimeIsWaited' /\ TickIsWaited'
  BY DEF PInv, BlindTimeIsWaited, TickIsWaited
<1> QED
  BY <1>1, <1>2 DEF PInv

(* A poke, of an open window.                                               *)
LEMMA Poked ==
  ASSUME PInv, Open, UNCHANGED <<waited, window>>,
         NEW p, p = poll \/ p = [poll EXCEPT !.poked = TRUE], poll' = FirePoke(p)
  PROVE  PInv'
<1>1. Typed(p)
  BY DEF PInv, Typed
<1>2. /\ p.tick = poll.tick /\ p.drain = poll.drain /\ p.future = poll.future
      /\ p.flight = poll.flight /\ p.blind = poll.blind
  BY DEF PInv, Typed
<1>3. p.tick > 0 => p.future = "none" /\ p.tick = 1 /\ p.drain = 0
  BY <1>2 DEF PInv, Typed, OneChain
<1>4. CASE poll' = p
  BY <1>1, <1>2, <1>4, Untouched DEF PInv, Typed, Open
<1>5. CASE poll' # p
  <2>1. /\ Typed(poll)' /\ poll'.tick = 0 /\ poll'.drain = 1 /\ poll'.future = "running"
        /\ poll'.flight /\ poll'.blind = poll.blind
    BY <1>1, <1>2, <1>3, <1>5, PokeTakesTheTick DEF Typed
  <2> QED
    BY <2>1 DEF PInv, OneChain, BlindTimeIsWaited, TickIsWaited, Open
<1> QED
  BY <1>4, <1>5

LEMMA TickFiresInd == PInv /\ TickFires => PInv'
<1> SUFFICES ASSUME PInv, TickFires PROVE PInv'
  OBVIOUS
<1> DEFINE p == [poll EXCEPT !.tick = @ - 1]
<1>1. /\ Typed(p)
      /\ p.tick = 0 /\ p.drain = 0 /\ p.future = "none" /\ p.blind = poll.blind
  BY DEF PInv, Typed, OneChain, TickFires
<1>2. poll' = Tick(p, FALSE)
  BY DEF TickFires
<1> HIDE DEF p
<1>3. /\ Typed(poll)' /\ poll'.tick = 0 /\ poll'.drain = 1 /\ poll'.future = "running"
      /\ ~poll'.flight /\ poll'.blind = poll.blind
  <2>1. /\ Typed(Tick(p, FALSE)) /\ Tick(p, FALSE).tick = 0 /\ Tick(p, FALSE).drain = 1
        /\ Tick(p, FALSE).future = "running" /\ Tick(p, FALSE).flight = FALSE
        /\ Tick(p, FALSE).blind = poll.blind
    BY <1>1 DEF Tick, Typed
  <2> QED
    BY <1>2, <2>1 DEF Typed
<1>4. poll.blind \in 0..HatchPolls /\ waited \in 0..HatchPolls /\ poll.blind <= waited + 1
  BY DEF PInv, Typed, BlindTimeIsWaited
<1>5. waited' = (IF waited < HatchPolls THEN waited + 1 ELSE waited) /\ Open /\ window' = window
  BY DEF TickFires
<1>6. waited' \in 0..HatchPolls /\ poll'.blind <= waited'
  BY <1>3, <1>4, <1>5
<1> QED
  BY <1>3, <1>5, <1>6 DEF PInv, Typed, OneChain, BlindTimeIsWaited, TickIsWaited, Open

LEMMA DrainInd == PInv /\ Drain => PInv'
<1> SUFFICES ASSUME PInv, Drain PROVE PInv'
  OBVIOUS
<1> DEFINE usable == poll.future \in Usable
           blind == Record(poll.blind, usable, poll.flight)
<1>1. /\ poll' = [poll EXCEPT !.future = "none", !.flight = FALSE, !.blind = blind,
                              !.tick = poll.tick + 1, !.drain = poll.drain - 1]
      /\ waited' = IF usable THEN 0 ELSE waited
  BY DEF Drain, NextTick
<1>2. /\ poll.blind \in 0..HatchPolls /\ poll.flight \in BOOLEAN /\ usable \in BOOLEAN
      /\ waited \in 0..HatchPolls
  BY DEF PInv, Typed
<1> HIDE DEF usable
<1>3. /\ blind \in 0..HatchPolls /\ (usable => blind = 0)
      /\ (~usable /\ poll.flight => blind = poll.blind)
      /\ blind <= poll.blind + 1
  BY <1>2, RecordCounts
<1> HIDE DEF blind
<1>4. poll.drain = 1 /\ poll.tick = 0 /\ Open
  BY DEF PInv, Typed, OneChain, Drain
<1>5. /\ Typed(poll)' /\ poll'.tick = 1 /\ poll'.drain = 0 /\ poll'.future = "none"
      /\ poll'.blind = blind
  BY <1>1, <1>3, <1>4 DEF PInv, Typed
<1>6. Open' /\ window' \in {"up", "leaving", "closed", "terminated"}
  BY <1>4 DEF Drain, Open
<1>7. blind <= waited' + 1 /\ waited' \in 0..HatchPolls
  BY <1>1, <1>2, <1>3, <1>4 DEF PInv, BlindTimeIsWaited, TickIsWaited
<1> QED
  BY <1>5, <1>6, <1>7 DEF PInv, OneChain, BlindTimeIsWaited, TickIsWaited

(* The end of the poller: every pending job goes.                           *)
LEMMA OnCloseInd ==
  ASSUME PInv, OnClose, ~Open', window' \in {"closed", "terminated"}
  PROVE  PInv'
<1>1. /\ Typed(poll)' /\ poll'.tick = 0 /\ poll'.drain = 0 /\ poll'.future = "none"
      /\ poll'.blind = poll.blind
  BY DEF PInv, Typed, OnClose
<1> QED
  BY <1>1 DEF PInv, OneChain, BlindTimeIsWaited, TickIsWaited, OnClose

LEMMA NextPInv == PInv /\ [Next]_vars => PInv'
<1> SUFFICES ASSUME PInv, [Next]_vars PROVE PInv'
  OBVIOUS
<1>1. CASE TickFires
  BY <1>1, TickFiresInd
<1>2. CASE Watch
  BY <1>2, Poked DEF Watch
<1>3. ASSUME NEW a \in Answers, CheckAnswers(a) PROVE PInv'
  <2>1. /\ Typed(poll)' /\ poll'.tick = poll.tick /\ poll'.drain = poll.drain
        /\ poll'.flight = poll.flight /\ poll'.blind = poll.blind /\ poll'.future = a
    BY <1>3 DEF CheckAnswers, PInv, Typed
  <2> QED
    BY <1>3, <2>1, Untouched DEF CheckAnswers, PInv, Open, Answers, Usable
<1>4. CASE Drain
  BY <1>4, DrainInd
<1>5. CASE WatchBell
  <2>1. CASE bell.cool
    BY <1>5, <2>1, Poked DEF WatchBell
  <2>2. CASE ~bell.cool
    BY <1>5, <2>2, Untouched DEF WatchBell, PInv, Typed, Open
  <2> QED
    BY <2>1, <2>2
<1>6. CASE BurstPoke
  <2>1. /\ Typed(poll)' /\ poll'.tick = poll.tick /\ poll'.drain = poll.drain
        /\ poll'.flight = poll.flight /\ poll'.blind = poll.blind
        /\ poll'.future = poll.future
    BY <1>6 DEF BurstPoke, PInv, Typed
  <2> QED
    BY <1>6, <2>1, Untouched DEF BurstPoke, PInv, Open
<1>7. CASE Close \/ Terminated
  BY <1>7, OnCloseInd DEF Close, Terminated, Open
<1>8. CASE CarrotTick \/ \E h \in {"escape", "incident"} : Grant(h)
  <2>1. UNCHANGED <<poll, waited>> /\ Open /\ window' = "leaving"
    BY <1>8 DEF CarrotTick, Grant, Open
  <2> QED
    BY <2>1, Untouched DEF PInv, Typed, Open
<1>9. CASE World \/ BurstRanOut \/ Cooled \/ IncidentWaited \/ OpenEscape \/ UNCHANGED vars
  <2>1. UNCHANGED <<poll, waited, window>>
    BY <1>9 DEF World, NetworkChanges, SolveAccepted, Ring, Unplug, BurstRanOut, Cooled,
                IncidentWaited, OpenEscape, vars
  <2> QED
    BY <2>1, Untouched DEF PInv, Typed, Open
<1> QED
  BY <1>1, <1>2, <1>3, <1>4, <1>5, <1>6, <1>7, <1>8, <1>9 DEF Next

(* One chain of checks: for any number of rings, whatever pokes, answers and *)
(* forms interleave, exactly one job of the poller is pending while the     *)
(* window is open (_tick, _drain, _fire_poke).                              *)
THEOREM ChecksAreOneChain == Spec => []OneChain
<1>1. PInv => OneChain
  BY DEF PInv
<1> QED
  BY <1>1, InitPInv, NextPInv, PTL DEF Spec

(* No ring and no poke buys blind time (PollState.record).                  *)
THEOREM NoRingBuysBlindTime == Spec => []BlindTimeIsWaited
<1>1. PInv => BlindTimeIsWaited
  BY DEF PInv
<1> QED
  BY <1>1, InitPInv, NextPInv, PTL DEF Spec

-----------------------------------------------------------------------------
(* LockWindow implements PollLoop *)

Phase == IF ~Open THEN "stopped" ELSE IF poll.drain > 0 THEN "checking" ELSE "resting"
Asked == Open /\ poll.drain > 0 /\ poll.flight
LoopStep == [Loop!Start \/ Loop!Deliver \/ Loop!Stop]_(Loop!loop)

(* What a step of the loop is, of the state that stands for it.             *)
LEMMA LoopStarts ==
  ASSUME Phase = "resting", Phase' = "checking", poll'.blind = poll.blind
  PROVE  LoopStep
BY DEF LoopStep, Loop!Start, Phase, Asked

LEMMA LoopDelivers ==
  ASSUME Phase = "checking", Phase' = "resting", ~Asked',
         \/ poll'.blind = 0
         \/ Asked /\ poll'.blind = poll.blind
         \/ ~Asked /\ poll'.blind = IF poll.blind < HatchPolls THEN poll.blind + 1 ELSE poll.blind
  PROVE  LoopStep
BY DEF LoopStep, Loop!Deliver, Loop!Counted, Phase, Asked

LEMMA LoopStops ==
  ASSUME Phase' = "stopped", ~Asked', poll'.blind = poll.blind
  PROVE  LoopStep
BY DEF LoopStep, Loop!Stop, Phase, Asked

LEMMA LoopRests ==
  ASSUME Phase' = Phase, Asked' <=> Asked, poll'.blind = poll.blind
  PROVE  LoopStep
BY DEF LoopStep, Loop!loop, Phase, Asked

LEMMA LoopInit == Init => Loop!Init
<1> SUFFICES ASSUME Init PROVE Loop!Init
  OBVIOUS
<1>1. poll = Tick(PollerAtStart, FALSE) /\ window = "up"
  BY DEF Init
<1>2. poll.drain = 1 /\ poll.flight = FALSE /\ poll.blind = 0
  BY <1>1 DEF Tick, PollerAtStart
<1>3. Open /\ ~(Open /\ poll.drain > 0 /\ poll.flight)
  BY <1>1, <1>2 DEF Open
<1> QED
  BY <1>2, <1>3 DEF Loop!Init

(* A poke starts a check or leaves the loop alone.                          *)
LEMMA PokeRefines ==
  ASSUME PInv, Open, Open',
         NEW p, p = poll \/ p = [poll EXCEPT !.poked = TRUE], poll' = FirePoke(p)
  PROVE  LoopStep
<1>1. Typed(p)
  BY DEF PInv, Typed
<1>2. /\ p.tick = poll.tick /\ p.drain = poll.drain /\ p.future = poll.future
      /\ p.flight = poll.flight /\ p.blind = poll.blind
  BY DEF PInv, Typed
<1>3. p.tick > 0 => p.future = "none" /\ p.drain = 0
  BY <1>2 DEF PInv, Typed, OneChain
<1>4. CASE poll' = p
  <2>1. Phase' = Phase /\ (Asked' <=> Asked)
    BY <1>2, <1>4 DEF Phase, Asked
  <2> QED
    BY <1>2, <1>4, <2>1, LoopRests
<1>5. CASE poll' # p
  <2>1. p.tick > 0 /\ poll'.drain = 1 /\ poll'.flight /\ poll'.blind = poll.blind
    BY <1>1, <1>2, <1>3, <1>5, PokeTakesTheTick
  <2>2. Phase = "resting" /\ Phase' = "checking"
    BY <1>2, <1>3, <2>1 DEF Phase, Asked
  <2> QED
    BY <2>1, <2>2, LoopStarts
<1> QED
  BY <1>4, <1>5

LEMMA TickFiresRefines == PInv /\ TickFires => LoopStep
<1> SUFFICES ASSUME PInv, TickFires PROVE LoopStep
  OBVIOUS
<1> DEFINE p == [poll EXCEPT !.tick = @ - 1]
<1>1. Typed(p) /\ p.drain = 0 /\ p.future = "none" /\ p.blind = poll.blind /\ poll.drain = 0
  BY DEF PInv, Typed, OneChain, TickFires
<1>2. poll' = Tick(p, FALSE)
  BY DEF TickFires
<1> HIDE DEF p
<1>3. poll'.drain = 1 /\ poll'.flight = FALSE /\ poll'.blind = poll.blind
  BY <1>1, <1>2 DEF Tick, Typed
<1>4. Phase = "resting" /\ Phase' = "checking"
  <2>1. Open /\ Open'
    BY DEF TickFires, Open
  <2>2. poll.drain = 0
    BY <1>1
  <2> QED
    BY <1>3, <2>1, <2>2 DEF Phase
<1> QED
  BY <1>3, <1>4, LoopStarts

LEMMA DrainRefines == PInv /\ Drain => LoopStep
<1> SUFFICES ASSUME PInv, Drain PROVE LoopStep
  OBVIOUS
<1> DEFINE usable == poll.future \in Usable
           blind == Record(poll.blind, usable, poll.flight)
<1>1. /\ poll' = [poll EXCEPT !.future = "none", !.flight = FALSE, !.blind = blind,
                              !.tick = poll.tick + 1, !.drain = poll.drain - 1]
      /\ Open /\ Open'
  BY DEF Drain, NextTick, Open
<1>2. poll.drain = 1 /\ poll.blind \in 0..HatchPolls
  BY DEF PInv, Typed, OneChain, Drain, Open
<1>3. poll'.drain = 0 /\ poll'.blind = blind
  BY <1>1, <1>2 DEF PInv, Typed
<1> HIDE DEF usable
<1>4. \/ blind = 0
      \/ poll.flight /\ blind = poll.blind
      \/ ~poll.flight /\ blind = IF poll.blind < HatchPolls THEN poll.blind + 1 ELSE poll.blind
  BY <1>2, RecordCounts
<1> HIDE DEF blind
<1>5. Phase = "checking" /\ Phase' = "resting" /\ ~Asked' /\ (Asked <=> poll.flight)
  BY <1>1, <1>2, <1>3 DEF Phase, Asked
<1> QED
  BY <1>3, <1>4, <1>5, LoopDelivers

LEMMA CloseRefines == PInv /\ (Close \/ Terminated) => LoopStep
<1> SUFFICES ASSUME PInv, Close \/ Terminated PROVE LoopStep
  OBVIOUS
<1>1. ~Open' /\ poll'.blind = poll.blind
  BY DEF Close, Terminated, OnClose, Open, PInv, Typed
<1>2. Phase' = "stopped" /\ ~Asked'
  BY <1>1 DEF Phase, Asked
<1> QED
  BY <1>1, <1>2, LoopStops

LEMMA NextRefines == PInv /\ [Next]_vars => LoopStep
<1> SUFFICES ASSUME PInv, [Next]_vars PROVE LoopStep
  OBVIOUS
<1>1. CASE TickFires
  BY <1>1, TickFiresRefines
<1>2. CASE Watch
  BY <1>2, PokeRefines DEF Watch, Open
<1>3. CASE Drain
  BY <1>3, DrainRefines
<1>4. CASE WatchBell /\ bell.cool
  BY <1>4, PokeRefines DEF WatchBell, Open
<1>5. CASE Close \/ Terminated
  BY <1>5, CloseRefines
<1>6. CASE CarrotTick \/ \E h \in {"escape", "incident"} : Grant(h)
  <2>1. poll' = poll /\ Open /\ Open'
    BY <1>6 DEF CarrotTick, Grant, Open
  <2>2. Phase' = Phase /\ (Asked' <=> Asked)
    BY <2>1 DEF Phase, Asked
  <2> QED
    BY <2>1, <2>2, LoopRests
<1>7. CASE \/ BurstPoke \/ (\E a \in Answers : CheckAnswers(a)) \/ (WatchBell /\ ~bell.cool)
          \/ World \/ BurstRanOut \/ Cooled \/ IncidentWaited \/ OpenEscape \/ UNCHANGED vars
  <2>1. /\ poll'.drain = poll.drain /\ poll'.flight = poll.flight /\ poll'.blind = poll.blind
        /\ window' = window
    BY <1>7 DEF BurstPoke, CheckAnswers, WatchBell, World, NetworkChanges, SolveAccepted, Ring,
                Unplug, BurstRanOut, Cooled, IncidentWaited, OpenEscape, vars, PInv, Typed
  <2>2. Phase' = Phase /\ (Asked' <=> Asked)
    BY <2>1 DEF Phase, Asked, Open
  <2> QED
    BY <2>1, <2>2, LoopRests
<1> QED
  BY <1>1, <1>2, <1>3, <1>4, <1>5, <1>6, <1>7 DEF Next

(* Implementation: whatever rings, network, forms and monitors do to it,    *)
(* SolvePoller is the periodic check of PollLoop.                           *)
THEOREM LockWindowImplementsPollLoop == Spec => LoopIsPeriodic
<1>1. PInv /\ [Next]_vars => [Loop!Start \/ Loop!Deliver \/ Loop!Stop]_(Loop!loop)
  BY NextRefines DEF LoopStep
<1> QED
  BY <1>1, InitPInv, NextPInv, LoopInit, PTL DEF Spec, LoopIsPeriodic, Loop!Spec
=============================================================================
