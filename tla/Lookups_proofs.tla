---------------------------- MODULE Lookups_proofs ----------------------------
(***************************************************************************)
(* Proofs about Lookups, for any problems, any of them dead, any callers   *)
(* and any number of requests of one call.                                 *)
(***************************************************************************)
EXTENDS Lookups, TLAPS

Fields == {"pc", "have", "marks", "dirty", "feed", "todo", "new", "since"}

Shapes ==
  /\ solved \subseteq Slugs /\ credited \subseteq Slugs
  /\ DOMAIN rows = Slugs /\ DOMAIN marks = Slugs /\ DOMAIN answered = Slugs
  /\ DOMAIN call = Callers
  /\ \A c \in Callers :
       /\ DOMAIN call[c] = Fields /\ DOMAIN call[c].marks = Slugs
       /\ call[c].pc \in {"idle", "ask", "mark", "end"} /\ call[c].since \in {0, 1}
       /\ call[c].feed \subseteq Slugs /\ call[c].todo \subseteq Slugs
       /\ call[c].pc # "ask" => call[c].todo = {}

(* A problem LeetCode said it does not know less than a day ago.            *)
Lately(s) == answered[s] \in {0, 1}

AgesAreReal == \A s \in Slugs : answered[s] \in {Unmarked, 0, 1, 2}

(* What is on file backs such a problem off, or it has its row after all.   *)
OnFile == \A s \in Slugs : Lately(s) => marks[s] = answered[s] \/ rows[s] = "priced"

(* A call under way: its copy does, and the copy it does not save is as on  *)
(* file.                                                                    *)
Remembers(c) ==
  /\ call[c].pc = "ask" =>
       /\ \A s \in Slugs :
            /\ Lately(s) => \/ call[c].marks[s] = answered[s]
                            \/ s \in call[c].new \/ rows[s] = "priced"
            /\ call[c].have[s] = rows[s]
            /\ call[c].dirty \/ call[c].marks[s] = marks[s]
  /\ call[c].pc = "mark" =>
       \A s \in Slugs : Lately(s) => call[c].marks[s] = answered[s] \/ rows[s] = "priced"
  /\ call[c].pc = "end" => OnFile
  /\ \A s \in call[c].todo : ~Lately(s)

Alone ==
  /\ \A c, d \in Callers : c # d => At(c, "idle") \/ At(d, "idle")
  /\ (\A c \in Callers : At(c, "idle")) => OnFile
  /\ \A c \in Callers : Remembers(c)

Clean == ~overlap /\ faults = MaxFaults

KInv ==
  /\ Shapes /\ faults \in Int /\ faults <= MaxFaults
  /\ Clean => AgesAreReal /\ Alone

LEMMA IdleShape ==
  /\ DOMAIN Idle = Fields /\ DOMAIN Idle.marks = Slugs /\ Idle.pc = "idle" /\ Idle.since = 0
  /\ Idle.feed = {} /\ Idle.todo = {}
BY DEF Idle, NoMarks, Fields

LEMMA InitKInv == Init => KInv
<1> SUFFICES ASSUME Init PROVE KInv
  OBVIOUS
<1>1. \A c \in Callers : call[c] = Idle
  BY DEF Init
<1>2. Shapes
  BY <1>1, IdleShape DEF Init, Shapes, NoRows, NoMarks
<1>3. \A s \in Slugs : answered[s] = Unmarked /\ ~Lately(s)
  BY DEF Init, NoMarks, Lately, Unmarked
<1>4. AgesAreReal
  BY <1>3 DEF AgesAreReal
<1>5. Alone
  BY <1>1, <1>3, IdleShape DEF Alone, Remembers, OnFile, At
<1>6. faults \in Int /\ faults <= MaxFaults
  BY LookupsAssumption DEF LookupsAssumption, Init
<1> QED
  BY <1>2, <1>4, <1>5, <1>6 DEF KInv

(* Faults are never given back, and overlaps are not forgotten.             *)
LEMMA StaysClean ==
  ASSUME KInv, Next
  PROVE  /\ faults' \in Int /\ faults' <= MaxFaults
         /\ Clean' => Clean /\ ~Fail /\ UNCHANGED faults
<1>0. MaxFaults \in Nat /\ faults \in Int /\ faults <= MaxFaults
  BY LookupsAssumption DEF LookupsAssumption, KInv
<1>1. UNCHANGED faults \/ faults' = faults - 1
  <2>1. CASE \E s \in Slugs : Solve(s) \/ Republish(s) \/ Forge(s)
    BY <2>1 DEF Solve, Republish, Forge, Fail
  <2>2. CASE HalfDay \/ ClockSetBack
    BY <2>2 DEF HalfDay, ClockSetBack, Fail
  <2>3. CASE \E c \in Callers : Begin(c)
    BY <2>3, Zenon DEF Begin, Works, Fail
  <2>4. ASSUME NEW c \in Callers, Step(c) PROVE UNCHANGED faults \/ faults' = faults - 1
    <3>1. AskOne(c) => UNCHANGED faults \/ faults' = faults - 1
      BY Zenon DEF AskOne, Works, Fail
    <3>2. SaveRows(c) => UNCHANGED faults \/ faults' = faults - 1
      BY Zenon DEF SaveRows, Works, Fail
    <3>3. SaveMarks(c) \/ Return(c) => UNCHANGED faults \/ faults' = faults - 1
      BY Zenon DEF SaveMarks, Return, Works, Fail
    <3> QED
      BY <2>4, <3>1, <3>2, <3>3 DEF Step
  <2>5. CASE \E c \in Callers : Kill(c)
    BY <2>5 DEF Kill, Fail
  <2> QED
    BY <2>1, <2>2, <2>3, <2>4, <2>5 DEF Next
<1>2. overlap => overlap'
  BY DEF Next, Solve, Republish, Forge, HalfDay, ClockSetBack, Begin, Step, AskOne, SaveRows,
         SaveMarks, Return, Kill
<1>3. faults' \in Int /\ faults' <= MaxFaults
  BY <1>0, <1>1
<1>4. faults' = MaxFaults => faults = MaxFaults /\ faults' = faults /\ faults' # faults - 1
  BY <1>0, <1>1
<1> QED
  BY <1>2, <1>3, <1>4, Zenon DEF Clean, Fail

(* What an action has to show.                                              *)
LEMMA KInvKept ==
  ASSUME KInv, Next, Shapes', Clean /\ Clean' /\ ~Fail /\ UNCHANGED faults => AgesAreReal' /\ Alone'
  PROVE  KInv'
BY StaysClean DEF KInv

(* Nothing the lookups go by changes.                                       *)
LEMMA KInvUnchanged ==
  ASSUME KInv, UNCHANGED <<rows, marks, call, answered, overlap, faults>>,
         solved' \subseteq Slugs, UNCHANGED credited
  PROVE  KInv'
<1>1. Shapes'
  BY DEF KInv, Shapes
<1> QED
  BY <1>1 DEF KInv, Clean, AgesAreReal, Alone, At, OnFile, Remembers, Lately

LEMMA SolveKeeps == ASSUME KInv, NEW s \in Slugs, Solve(s) \/ Republish(s) PROVE KInv'
BY KInvUnchanged DEF Solve, Republish, KInv, Shapes

LEMMA ForgeKeeps == ASSUME KInv, Next, NEW s \in Slugs, Forge(s) PROVE KInv'
<1>1. Shapes'
  BY DEF Forge, KInv, Shapes
<1> QED
  BY <1>1, KInvKept DEF Forge

LEMMA ClockSetBackKeeps == ASSUME KInv, Next, ClockSetBack PROVE KInv'
<1>1. Shapes'
  BY DEF ClockSetBack, KInv, Shapes, Aged
<1> QED
  BY <1>1, KInvKept DEF ClockSetBack

LEMMA KillKeeps == ASSUME KInv, Next, NEW c \in Callers, Kill(c) PROVE KInv'
<1>1. Shapes'
  BY IdleShape DEF Kill, KInv, Shapes
<1> QED
  BY <1>1, KInvKept DEF Kill

-----------------------------------------------------------------------------
(* Half a day makes every mark and every answer older together.             *)
LEMMA HalfDayKeeps ==
  ASSUME KInv, Next, HalfDay
  PROVE  KInv'
<1>1. \A c \in Callers :
        \/ call[c].pc = "idle" /\ call'[c] = Idle
        \/ /\ call[c].pc # "idle" /\ DOMAIN call'[c] = Fields
           /\ call'[c].pc = call[c].pc /\ call'[c].since = 1 /\ call'[c].feed = call[c].feed
           /\ call'[c].todo = call[c].todo /\ call'[c].new = call[c].new
           /\ call'[c].have = call[c].have /\ call'[c].dirty = call[c].dirty
           /\ DOMAIN call'[c].marks = Slugs
           /\ \A s \in Slugs : call'[c].marks[s] = Older(call[c].marks[s])
  BY Zenon DEF HalfDay, KInv, Shapes, Fields, At, Aged
<1>2. /\ DOMAIN marks' = Slugs /\ DOMAIN answered' = Slugs
      /\ \A s \in Slugs : marks'[s] = Older(marks[s]) /\ answered'[s] = Older(answered[s])
  BY DEF HalfDay, Aged
<1>3. Shapes'
  <2>1. DOMAIN call' = Callers /\ DOMAIN rows' = Slugs /\ solved' \subseteq Slugs /\ credited' \subseteq Slugs
    BY DEF HalfDay, KInv, Shapes
  <2> QED
    BY <1>1, <1>2, <2>1, IdleShape DEF KInv, Shapes
<1>4. SUFFICES ASSUME Clean, Clean' PROVE AgesAreReal' /\ Alone'
  BY <1>3, KInvKept
<1>5. \A s \in Slugs : answered[s] \in {Unmarked, 0, 1, 2}
  BY <1>4 DEF KInv, AgesAreReal
<1>6. \A s \in Slugs : answered'[s] \in {Unmarked, 1, 2} /\ (Lately(s)' => Lately(s))
  BY <1>2, <1>5 DEF Older, Lately, Unmarked, Retry
<1>7. rows' = rows /\ \A c \in Callers : call'[c].pc = call[c].pc
  BY <1>1, IdleShape DEF HalfDay
<1>8. OnFile => OnFile'
  BY <1>2, <1>6, <1>7 DEF OnFile
<1>9. ASSUME NEW c \in Callers PROVE Remembers(c)'
  <2>1. Remembers(c)
    BY <1>4 DEF KInv, Alone
  <2>2. CASE call'[c] = Idle
    BY <2>2, IdleShape DEF Remembers
  <2>3. CASE call'[c] # Idle
    <3>1. \A s \in call'[c].todo : ~Lately(s)'
      BY <1>1, <1>6, <2>1, <2>3 DEF Remembers, KInv, Shapes
    <3>2. ASSUME call[c].pc = "ask", NEW s \in Slugs
          PROVE  /\ Lately(s)' => \/ call'[c].marks[s] = answered'[s]
                                  \/ s \in call'[c].new \/ rows'[s] = "priced"
                 /\ call'[c].have[s] = rows'[s]
                 /\ call'[c].dirty \/ call'[c].marks[s] = marks'[s]
      BY <1>1, <1>2, <1>6, <1>7, <2>1, <2>3, <3>2 DEF Remembers
    <3>3. ASSUME call[c].pc = "mark", NEW s \in Slugs, Lately(s)'
          PROVE  call'[c].marks[s] = answered'[s] \/ rows'[s] = "priced"
      BY <1>1, <1>2, <1>6, <1>7, <2>1, <2>3, <3>3 DEF Remembers
    <3>4. call[c].pc = "end" => OnFile'
      BY <1>8, <2>1 DEF Remembers
    <3> QED
      BY <1>7, <3>1, <3>2, <3>3, <3>4 DEF Remembers
  <2> QED
    BY <2>2, <2>3
<1> QED
  BY <1>4, <1>6, <1>7, <1>8, <1>9 DEF KInv, AgesAreReal, Alone, At

-----------------------------------------------------------------------------
(* The steps of a call, the only one under way.                             *)
LEMMA OthersRemember ==
  ASSUME KInv, Clean, NEW c \in Callers, ~At(c, "idle") \/ \A d \in Callers : At(d, "idle"),
         NEW d \in Callers, d # c, call'[d] = call[d]
  PROVE  At(d, "idle")' /\ Remembers(d)'
<1>1. At(d, "idle")
  BY DEF KInv, Alone
<1>2. call[d].todo = {}
  BY <1>1 DEF KInv, Shapes, At
<1> QED
  BY <1>1, <1>2 DEF Remembers, At

LEMMA HeadIsOf == \A s, k : Head(s, k) \subseteq s
BY DEF Head

LEMMA QueueIsOf == \A c, slugs : Queue(c, slugs) \subseteq slugs
BY HeadIsOf DEF Queue

(* What a call alone has to show for the invariant.                         *)
LEMMA OneCallKeeps ==
  ASSUME KInv, Next, NEW c \in Callers, ~At(c, "idle") \/ \A d \in Callers : At(d, "idle") \/ overlap',
         Shapes', \A d \in Callers \ {c} : call'[d] = call[d],
         Clean /\ Clean' /\ ~Fail /\ UNCHANGED faults
           => AgesAreReal' /\ Remembers(c)' /\ (At(c, "idle")' => OnFile')
  PROVE  KInv'
<1> SUFFICES ASSUME Clean, Clean', ~Fail, UNCHANGED faults PROVE AgesAreReal' /\ Alone'
  BY KInvKept
<1>1. AgesAreReal' /\ Remembers(c)' /\ (At(c, "idle")' => OnFile')
  OBVIOUS
<1>2. ~At(c, "idle") \/ \A d \in Callers : At(d, "idle")
  BY DEF Clean
<1>3. \A d \in Callers : d # c => At(d, "idle")' /\ Remembers(d)'
  BY <1>2, OthersRemember
<1> QED
  BY <1>1, <1>3 DEF Alone

LEMMA ShapesKept ==
  ASSUME KInv, NEW c \in Callers, DOMAIN call' = Callers,
         \A d \in Callers \ {c} : call'[d] = call[d],
         solved' \subseteq Slugs, credited' \subseteq Slugs, DOMAIN rows' = Slugs,
         DOMAIN marks' = Slugs, DOMAIN answered' = Slugs,
         DOMAIN call'[c] = Fields, DOMAIN call'[c].marks = Slugs,
         call'[c].pc \in {"idle", "ask", "mark", "end"}, call'[c].since \in {0, 1},
         call'[c].feed \subseteq Slugs, call'[c].todo \subseteq Slugs,
         call'[c].pc # "ask" => call'[c].todo = {}
  PROVE  Shapes'
BY Zenon DEF KInv, Shapes

LEMMA BeginKeeps ==
  ASSUME KInv, Next, NEW c \in Callers, Begin(c)
  PROVE  KInv'
<1>1. PICK have \in {rows, NoRows}, seen \in {marks, NoMarks}, pool \in SUBSET (Slugs \ dead) :
        LET wanted == {s \in Wanted(c) : have[s] # "priced"}
            known == wanted \cap pool
            asked == {s \in wanted \ pool : ~IsBackedOff(seen[s])}
        IN /\ IF have = rows /\ seen = marks THEN Works ELSE Fail
           /\ call' = [call EXCEPT ![c] =
                        [pc |-> "ask", have |-> have, feed |-> solved,
                         todo |-> Queue(c, asked), new |-> known, since |-> 0,
                         marks |-> [s \in Slugs |-> IF s \in known THEN Unmarked ELSE seen[s]],
                         dirty |-> \E s \in known : seen[s] # Unmarked]]
  BY DEF Begin
<1> DEFINE wanted == {s \in Wanted(c) : have[s] # "priced"}
           known == wanted \cap pool
           asked == {s \in wanted \ pool : ~IsBackedOff(seen[s])}
<1>2. /\ DOMAIN call'[c] = Fields /\ call'[c].pc = "ask" /\ call'[c].have = have
      /\ call'[c].feed = solved /\ call'[c].todo = Queue(c, asked) /\ call'[c].new = known
      /\ call'[c].since = 0
      /\ call'[c].marks = [s \in Slugs |-> IF s \in known THEN Unmarked ELSE seen[s]]
      /\ call'[c].dirty = (\E s \in known : seen[s] # Unmarked)
  BY <1>1 DEF KInv, Shapes, Fields
<1>3. DOMAIN call' = Callers /\ \A d \in Callers \ {c} : call'[d] = call[d]
  BY <1>1 DEF KInv, Shapes
<1>4. Queue(c, asked) \subseteq asked
  BY QueueIsOf
<1>5. wanted \subseteq Slugs
  BY DEF Wanted, KInv, Shapes
<1>6. UNCHANGED <<dead, solved, credited, rows, marks, answered>>
  BY DEF Begin
<1>7. overlap' = (overlap \/ \E d \in Callers : ~At(d, "idle"))
  BY DEF Begin
<1>8. (have = rows /\ seen = marks) \/ Fail
  BY <1>1
<1> HIDE DEF wanted, known, asked
<1>9. Shapes'
  <2>1. Queue(c, asked) \subseteq Slugs
    BY <1>4, <1>5 DEF asked
  <2>2. DOMAIN call'[c].marks = Slugs
    BY <1>2
  <2> QED
    BY <1>2, <1>3, <1>6, <2>1, <2>2, ShapesKept DEF KInv, Shapes
<1>10. ASSUME Clean, Clean', ~Fail PROVE AgesAreReal' /\ Remembers(c)' /\ ~At(c, "idle")'
  <2>1. have = rows /\ seen = marks
    BY <1>8, <1>10
  <2>2. AgesAreReal /\ \A d \in Callers : At(d, "idle")
    BY <1>7, <1>10 DEF Clean, KInv
  <2>3. OnFile
    BY <1>10, <2>2 DEF KInv, Alone
  <2>4. ASSUME NEW s \in call'[c].todo PROVE ~Lately(s)'
    <3>1. s \in Slugs /\ ~IsBackedOff(marks[s]) /\ rows[s] # "priced"
      BY <1>2, <1>4, <1>5, <2>1, <2>4 DEF asked, wanted
    <3> QED
      BY <1>6, <2>3, <3>1 DEF OnFile, Lately, IsBackedOff, Retry
  <2>5. ASSUME NEW s \in Slugs
        PROVE  /\ Lately(s)' => \/ call'[c].marks[s] = answered'[s]
                                \/ s \in call'[c].new \/ rows'[s] = "priced"
               /\ call'[c].have[s] = rows'[s]
               /\ call'[c].dirty \/ call'[c].marks[s] = marks'[s]
    <3>1. CASE s \in known
      BY <1>2, <1>6, <2>1, <3>1
    <3>2. CASE s \notin known
      BY <1>2, <1>6, <2>1, <2>3, <3>2 DEF OnFile, Lately
    <3> QED
      BY <3>1, <3>2
  <2> QED
    BY <1>2, <1>6, <2>2, <2>4, <2>5 DEF Remembers, AgesAreReal, At
<1> QED
  BY <1>3, <1>7, <1>9, <1>10, OneCallKeeps

LEMMA AskOneKeeps ==
  ASSUME KInv, Next, NEW c \in Callers, AskOne(c)
  PROVE  KInv'
<1>0. /\ DOMAIN call[c] = Fields /\ DOMAIN call[c].marks = Slugs /\ call[c].since \in {0, 1}
      /\ call[c].feed \subseteq Slugs /\ call[c].todo \subseteq Slugs /\ DOMAIN call = Callers
      /\ call[c].pc = "ask" /\ DOMAIN answered = Slugs
  BY DEF AskOne, At, KInv, Shapes
<1>1. PICK s \in Head(call[c].todo, 1) :
       \/ /\ Works /\ s \notin dead /\ UNCHANGED answered
          /\ call' = [call EXCEPT ![c].todo = @ \ {s}, ![c].new = @ \cup {s},
                                  ![c].marks[s] = Unmarked,
                                  ![c].dirty = @ \/ call[c].marks[s] # Unmarked]
       \/ /\ Works /\ s \in dead /\ answered' = [answered EXCEPT ![s] = call[c].since]
          /\ call' = [call EXCEPT ![c].todo = @ \ {s}, ![c].dirty = TRUE,
                                  ![c].marks[s] = call[c].since]
       \/ Fail /\ call' = [call EXCEPT ![c].todo = @ \ {s}] /\ UNCHANGED answered
  BY DEF AskOne
<1>2. s \in call[c].todo /\ s \in Slugs
  BY <1>0, HeadIsOf
<1>3. DOMAIN call' = Callers /\ \A d \in Callers \ {c} : call'[d] = call[d]
  BY <1>0, <1>1
<1>4. /\ DOMAIN call'[c] = Fields /\ DOMAIN call'[c].marks = Slugs /\ call'[c].pc = "ask"
      /\ call'[c].since = call[c].since /\ call'[c].feed = call[c].feed
      /\ call'[c].todo = call[c].todo \ {s} /\ call'[c].have = call[c].have
  BY <1>0, <1>1, <1>2 DEF Fields
<1>5. UNCHANGED <<solved, credited, rows, marks, overlap>>
  BY DEF AskOne
<1>6. Shapes'
  <2>1. DOMAIN answered' = Slugs
    BY <1>0, <1>1
  <2> QED
    BY <1>0, <1>3, <1>4, <1>5, <2>1, ShapesKept DEF KInv, Shapes
<1>7. ASSUME Clean, Clean', ~Fail PROVE AgesAreReal' /\ Remembers(c)' /\ ~At(c, "idle")'
  <2>0. AgesAreReal /\ Remembers(c)
    BY <1>7 DEF KInv, Alone
  <2>1. CASE /\ UNCHANGED answered
             /\ call' = [call EXCEPT ![c].todo = @ \ {s}, ![c].new = @ \cup {s},
                                  ![c].marks[s] = Unmarked,
                                  ![c].dirty = @ \/ call[c].marks[s] # Unmarked]
    <3>1. /\ call'[c].new = call[c].new \cup {s}
          /\ call'[c].marks = [call[c].marks EXCEPT ![s] = Unmarked]
          /\ call'[c].dirty = (call[c].dirty \/ call[c].marks[s] # Unmarked)
      BY <1>0, <2>1 DEF Fields
    <3>2. ASSUME NEW t \in Slugs
          PROVE  /\ Lately(t)' => \/ call'[c].marks[t] = answered'[t]
                                  \/ t \in call'[c].new \/ rows'[t] = "priced"
                 /\ call'[c].have[t] = rows'[t]
                 /\ call'[c].dirty \/ call'[c].marks[t] = marks'[t]
      <4>0. /\ Lately(t) => \/ call[c].marks[t] = answered[t]
                            \/ t \in call[c].new \/ rows[t] = "priced"
            /\ call[c].have[t] = rows[t]
            /\ call[c].dirty \/ call[c].marks[t] = marks[t]
        BY <1>0, <2>0 DEF Remembers
      <4>1. (Lately(t)' => Lately(t)) /\ answered' = answered
        BY <2>1 DEF Lately
      <4>2. Lately(t)' => \/ call'[c].marks[t] = answered'[t]
                         \/ t \in call'[c].new \/ rows'[t] = "priced"
        BY <1>0, <1>5, <3>1, <4>0, <4>1
      <4>3. call'[c].have[t] = rows'[t]
        BY <1>4, <1>5, <4>0
      <4>4. call'[c].marks[t] = call[c].marks[t] \/ (t = s /\ call'[c].marks[t] = Unmarked)
        BY <1>0, <3>1
      <4>5. call'[c].dirty \/ call'[c].marks[t] = marks'[t]
        BY <1>5, <3>1, <4>0, <4>4, Zenon
      <4> QED
        BY <4>2, <4>3, <4>5
    <3>3. \A t \in call'[c].todo : ~Lately(t)'
      BY <1>4, <2>0, <2>1 DEF Remembers, Lately
    <3> QED
      BY <1>4, <2>0, <2>1, <3>2, <3>3 DEF Remembers, AgesAreReal, At
  <2>2. CASE /\ answered' = [answered EXCEPT ![s] = call[c].since]
             /\ call' = [call EXCEPT ![c].todo = @ \ {s}, ![c].dirty = TRUE,
                                  ![c].marks[s] = call[c].since]
    <3>1. /\ call'[c].new = call[c].new /\ call'[c].dirty = TRUE
          /\ call'[c].marks = [call[c].marks EXCEPT ![s] = call[c].since]
      BY <1>0, <2>2 DEF Fields
    <3>2. ASSUME NEW t \in Slugs
          PROVE  /\ Lately(t)' => \/ call'[c].marks[t] = answered'[t]
                                  \/ t \in call'[c].new \/ rows'[t] = "priced"
                 /\ call'[c].have[t] = rows'[t]
                 /\ call'[c].dirty \/ call'[c].marks[t] = marks'[t]
      <4>1. CASE t = s
        BY <1>0, <1>2, <1>4, <1>5, <2>0, <2>2, <3>1, <4>1 DEF Remembers
      <4>2. CASE t # s
        BY <1>0, <1>2, <1>4, <1>5, <2>0, <2>2, <3>1, <4>2 DEF Remembers, Lately
      <4> QED
        BY <4>1, <4>2
    <3>3. \A t \in call'[c].todo : ~Lately(t)'
      BY <1>0, <1>4, <2>0, <2>2 DEF Remembers, Lately
    <3>4. AgesAreReal'
      BY <1>0, <2>0, <2>2 DEF AgesAreReal
    <3> QED
      BY <1>4, <3>2, <3>3, <3>4 DEF Remembers, At
  <2> QED
    BY <1>1, <1>7, <2>1, <2>2
<1> QED
  BY <1>0, <1>3, <1>6, <1>7, OneCallKeeps DEF At

LEMMA SaveRowsKeeps ==
  ASSUME KInv, Next, NEW c \in Callers, SaveRows(c)
  PROVE  KInv'
<1>0. /\ DOMAIN call[c] = Fields /\ DOMAIN call[c].marks = Slugs /\ call[c].since \in {0, 1}
      /\ call[c].feed \subseteq Slugs /\ DOMAIN call = Callers
      /\ call[c].pc = "ask" /\ call[c].todo = {}
  BY DEF SaveRows, At, KInv, Shapes
<1>1. call' = [call EXCEPT ![c].pc = IF KeepsMarks(c) THEN "mark" ELSE "end",
                           ![c].marks = IF KeepsMarks(c) THEN @ ELSE NoMarks,
                           ![c].have = NoRows, ![c].new = {}, ![c].dirty = FALSE]
  BY DEF SaveRows
<1>3. DOMAIN call' = Callers /\ \A d \in Callers \ {c} : call'[d] = call[d]
  BY <1>0, <1>1
<1>4. /\ DOMAIN call'[c] = Fields /\ call'[c].since = call[c].since
      /\ call'[c].feed = call[c].feed /\ call'[c].todo = {}
      /\ \/ /\ call[c].dirty /\ call'[c].pc = "mark" /\ call'[c].marks = call[c].marks
         \/ /\ ~call[c].dirty /\ call'[c].pc = "end" /\ call'[c].marks = NoMarks
  BY <1>0, <1>1 DEF Fields, KeepsMarks
<1>5. UNCHANGED <<solved, credited, marks, answered, overlap>>
  BY DEF SaveRows
<1>6. \/ call[c].new = {} /\ UNCHANGED rows
      \/ rows' = Saved(c)
      \/ Fail /\ UNCHANGED rows
  BY DEF SaveRows
<1>7. Shapes'
  <2>1. DOMAIN rows' = Slugs /\ DOMAIN NoMarks = Slugs
    BY <1>6 DEF Saved, NoMarks, KInv, Shapes
  <2> QED
    BY <1>0, <1>3, <1>4, <1>5, <2>1, ShapesKept DEF KInv, Shapes
<1>8. ASSUME Clean, Clean', ~Fail PROVE AgesAreReal' /\ Remembers(c)' /\ ~At(c, "idle")'
  <2>0. AgesAreReal /\ Remembers(c)
    BY <1>8 DEF KInv, Alone
  <2>1. ASSUME NEW s \in Slugs
        PROVE  (s \in call[c].new => rows'[s] = "priced") /\ (rows[s] = "priced" => rows'[s] = "priced")
    BY <1>0, <1>6, <1>8, <2>0 DEF Saved, Remembers
  <2>2. ASSUME NEW s \in Slugs, Lately(s)'
        PROVE  call[c].marks[s] = answered'[s] \/ rows'[s] = "priced"
    BY <1>0, <1>5, <2>0, <2>1, <2>2 DEF Remembers, Lately
  <2>3. ~call[c].dirty => OnFile'
    BY <1>0, <1>5, <2>0, <2>2 DEF Remembers, OnFile
  <2> QED
    BY <1>4, <1>5, <2>0, <2>2, <2>3 DEF Remembers, AgesAreReal, At
<1> QED
  BY <1>0, <1>3, <1>7, <1>8, OneCallKeeps DEF At

LEMMA SaveMarksKeeps ==
  ASSUME KInv, Next, NEW c \in Callers, SaveMarks(c)
  PROVE  KInv'
<1>0. /\ DOMAIN call[c] = Fields /\ DOMAIN call[c].marks = Slugs /\ call[c].since \in {0, 1}
      /\ call[c].feed \subseteq Slugs /\ DOMAIN call = Callers
      /\ call[c].pc = "mark" /\ call[c].todo = {}
  BY DEF SaveMarks, At, KInv, Shapes
<1>1. call' = [call EXCEPT ![c].pc = "end", ![c].marks = NoMarks]
  BY DEF SaveMarks
<1>3. DOMAIN call' = Callers /\ \A d \in Callers \ {c} : call'[d] = call[d]
  BY <1>0, <1>1
<1>4. /\ DOMAIN call'[c] = Fields /\ call'[c].since = call[c].since
      /\ call'[c].feed = call[c].feed /\ call'[c].todo = {}
      /\ call'[c].pc = "end" /\ call'[c].marks = NoMarks
  BY <1>0, <1>1 DEF Fields
<1>5. UNCHANGED <<solved, credited, rows, answered, overlap>>
  BY DEF SaveMarks
<1>6. marks' = call[c].marks \/ (Fail /\ UNCHANGED marks)
  BY DEF SaveMarks
<1>7. Shapes'
  <2>1. DOMAIN marks' = Slugs /\ DOMAIN NoMarks = Slugs
    BY <1>0, <1>6 DEF NoMarks, KInv, Shapes
  <2> QED
    BY <1>0, <1>3, <1>4, <1>5, <2>1, ShapesKept DEF KInv, Shapes
<1>8. ASSUME Clean, Clean', ~Fail PROVE AgesAreReal' /\ Remembers(c)' /\ ~At(c, "idle")'
  <2>0. AgesAreReal /\ Remembers(c)
    BY <1>8 DEF KInv, Alone
  <2>1. OnFile'
    BY <1>0, <1>5, <1>6, <1>8, <2>0 DEF Remembers, OnFile, Lately
  <2> QED
    BY <1>4, <1>5, <2>0, <2>1 DEF Remembers, AgesAreReal, At
<1> QED
  BY <1>0, <1>3, <1>7, <1>8, OneCallKeeps DEF At

LEMMA ReturnKeeps ==
  ASSUME KInv, Next, NEW c \in Callers, Return(c)
  PROVE  KInv'
<1>0. DOMAIN call = Callers /\ call[c].pc = "end" /\ call[c].feed \subseteq Slugs
  BY DEF Return, At, KInv, Shapes
<1>1. DOMAIN call' = Callers /\ call'[c] = Idle /\ \A d \in Callers \ {c} : call'[d] = call[d]
  BY <1>0 DEF Return
<1>2. UNCHANGED <<solved, rows, marks, answered, overlap>>
  BY DEF Return
<1>3. credited' \subseteq Slugs
  BY <1>0 DEF Return, KInv, Shapes
<1>4. Shapes'
  BY <1>1, <1>2, <1>3, IdleShape, ShapesKept DEF KInv, Shapes
<1>5. ASSUME Clean, Clean' PROVE AgesAreReal' /\ Remembers(c)' /\ OnFile'
  <2>0. AgesAreReal /\ Remembers(c)
    BY <1>5 DEF KInv, Alone
  <2> QED
    BY <1>0, <1>1, <1>2, <2>0, IdleShape DEF Remembers, AgesAreReal, OnFile, Lately
<1> QED
  BY <1>0, <1>1, <1>4, <1>5, OneCallKeeps DEF At

-----------------------------------------------------------------------------
LEMMA NextKInv == ASSUME KInv, [Next]_vars PROVE KInv'
<1>1. ASSUME UNCHANGED vars PROVE KInv'
  BY <1>1, KInvUnchanged DEF vars, KInv, Shapes
<1>2. ASSUME Next PROVE KInv'
  <2>1. ASSUME NEW s \in Slugs, Solve(s) \/ Republish(s) \/ Forge(s) PROVE KInv'
    BY <1>2, <2>1, SolveKeeps, ForgeKeeps
  <2>2. ASSUME NEW c \in Callers, Begin(c) \/ Step(c) \/ Kill(c) PROVE KInv'
    BY <1>2, <2>2, BeginKeeps, AskOneKeeps, SaveRowsKeeps, SaveMarksKeeps, ReturnKeeps,
       KillKeeps DEF Step
  <2> QED
    BY <1>2, <2>1, <2>2, HalfDayKeeps, ClockSetBackKeeps DEF Next
<1> QED
  BY <1>1, <1>2

(* At most one request a day about a problem LeetCode does not know, unless *)
(* two calls overlapped or something failed: resolve_difficulties and its   *)
(* negative cache, _difficulty_negative.is_backed_off.                      *)
THEOREM DeadOnesAreAskedOnceADay == Spec => AskedOnceADay
<1>1. ASSUME KInv, [Next]_vars, NEW c \in Callers, NEW s \in call[c].todo \ call'[c].todo,
             call'[c].pc = "ask", answered[s] \in 0..(Retry - 1)
      PROVE  overlap \/ faults < MaxFaults
  <2>1. Lately(s)
    BY <1>1 DEF Lately, Retry
  <2>2. Clean => ~Lately(s)
    BY <1>1 DEF KInv, Alone, Remembers
  <2> QED
    BY <1>1, <2>1, <2>2, LookupsAssumption DEF Clean, KInv, LookupsAssumption
<1>2. KInv /\ [Next]_vars
        => [\A c \in Callers : \A s \in call[c].todo \ call'[c].todo :
              call'[c].pc = "ask" /\ answered[s] \in 0..(Retry - 1)
                => overlap \/ faults < MaxFaults]_vars
  BY <1>1
<1> QED
  BY <1>2, InitKInv, NextKInv, PTL DEF Spec, AskedOnceADay
=============================================================================
