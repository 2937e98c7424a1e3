------------------------------- MODULE Lookups -------------------------------
(***************************************************************************)
(* What LeetCode is asked about the problems solved, and how the answers   *)
(* are kept: a signed difficulty row per problem, written by harvests, by  *)
(* the lock's poll loop and by --backfill-difficulty, each holding its own *)
(* copy of the file over one request per problem; and the unsigned marks   *)
(* of the problems LeetCode no longer knows.  A difficulty is abstracted   *)
(* to whether there is a row for it.                                       *)
(***************************************************************************)
EXTENDS Integers, FiniteSets

CONSTANTS
  Slugs,     \* problems, numbered in the order of credited_slugs
  Dead,      \* those LeetCode answers with "question: null"
  Callers,   \* "harvest", and who else calls resolve_difficulties
  MaxFetch,  \* max_fetch, requests of one call
  MaxFaults  \* bound: requests, readings and writes that fail, kills, forgeries,
             \* clocks set back

ASSUME LookupsAssumption ==
  /\ IsFiniteSet(Slugs) /\ Slugs \subseteq Nat /\ Dead \subseteq Slugs
  /\ "harvest" \in Callers /\ Callers \subseteq {"harvest", "lock", "backfill"}
  /\ MaxFetch \in Nat \ {0} /\ MaxFaults \in Nat

Unmarked == -2
Future == -1
Retry == 2   \* RETRY_SECONDS, in units of half a day
Ages == Unmarked..Retry

VARIABLES
  dead,     \* the problems LeetCode does not know at the moment
  solved,   \* the submissions of the feed
  credited, \* those the ledger holds a credit for
  rows,     \* difficulty.json: "none", "forged" (no valid signature) or "priced"
  marks,    \* difficulty_unresolved.json, as the age of each mark
  call,     \* each caller's call of resolve_difficulties
  answered, \* history: the age of the call that last got "question: null"
  overlap,  \* history: two calls were under way at once
  ran,      \* whether a harvest ended in this half day
  faults

vars == <<dead, solved, credited, rows, marks, call, answered, overlap, ran, faults>>

Head(s, k) == {x \in s : Cardinality({y \in s : y < x}) < k}
Fail == faults > 0 /\ faults' = faults - 1
Works == UNCHANGED faults

NoRows == [s \in Slugs |-> "none"]
NoMarks == [s \in Slugs |-> Unmarked]
Idle == [pc |-> "idle", have |-> NoRows, marks |-> NoMarks, dirty |-> FALSE,
         feed |-> {}, todo |-> {}, new |-> {}, since |-> 0]
At(c, step) == call[c].pc = step

Init ==
  /\ dead = Dead /\ solved = {} /\ credited = {} /\ rows = NoRows /\ marks = NoMarks
  /\ call = [c \in Callers |-> Idle]
  /\ answered = NoMarks /\ overlap = FALSE /\ ran = FALSE
  /\ faults = MaxFaults

-----------------------------------------------------------------------------
(* Outside the program *)

Solve(s) ==
  /\ s \notin solved /\ solved' = solved \cup {s}
  /\ UNCHANGED <<dead, credited, rows, marks, call, answered, overlap, ran, faults>>

\* An unpublished problem returns.
Republish(s) ==
  /\ s \in dead /\ dead' = dead \ {s}
  /\ UNCHANGED <<solved, credited, rows, marks, call, answered, overlap, ran, faults>>

\* A row is edited, or was signed with a key that is gone.
Forge(s) ==
  /\ rows[s] = "priced" /\ Fail /\ rows' = [rows EXCEPT ![s] = "forged"]
  /\ UNCHANGED <<dead, solved, credited, marks, call, answered, overlap, ran>>

Older(age) == IF age \in {Unmarked, Retry} THEN age ELSE age + 1
Younger(age) == IF age \in {Unmarked, Future} THEN age ELSE age - 1
Aged(m, By(_)) == [s \in Slugs |-> By(m[s])]

\* Half a day, in which the one-minute timer had its turn and which no call
\* outlasts; a call reads the clock once, at its start.
HalfDay ==
  /\ ran /\ \A c \in Callers : call[c].since = 0
  /\ ran' = FALSE /\ marks' = Aged(marks, Older) /\ answered' = Aged(answered, Older)
  /\ call' = [c \in Callers |->
                IF At(c, "idle") THEN Idle
                ELSE [call[c] EXCEPT !.marks = Aged(call[c].marks, Older), !.since = 1]]
  /\ UNCHANGED <<dead, solved, credited, rows, overlap, faults>>

\* The wall clock is set back by as much, between two calls.
ClockSetBack ==
  /\ Fail /\ \A c \in Callers : At(c, "idle")
  /\ marks' = Aged(marks, Younger)
  /\ UNCHANGED <<dead, solved, credited, rows, call, answered, overlap, ran>>

-----------------------------------------------------------------------------
(* resolve_difficulties *)

\* The slugs of the call: the feed in the lock's poll loop (resolve_probe), the
\* fresh credits and all the ledger's in a harvest, the ledger's in a backfill.
Wanted(c) ==
  CASE c = "lock" -> solved [] c = "harvest" -> solved \cup credited [] OTHER -> credited

\* Mutant: no negative cache.
BackedOffNever(age) == FALSE

\* is_backed_off: a mark from the future does not suppress.
IsBackedOff(age) == age \in 0..(Retry - 1)

\* Fresh credits are asked about first, then the ledger's in their order.
Queue(c, slugs) ==
  LET fresh == IF c = "harvest" THEN slugs \ credited ELSE {}
  IN Head(fresh, MaxFetch) \cup Head(slugs \ fresh, MaxFetch - Cardinality(Head(fresh, MaxFetch)))

\* The rows and the marks are read; the pool mirror, whatever it names at the
\* moment, answers without a request.
Begin(c) ==
  /\ At(c, "idle")
  /\ \E have \in {rows, NoRows}, seen \in {marks, NoMarks}, pool \in SUBSET (Slugs \ dead) :
       LET wanted == {s \in Wanted(c) : have[s] # "priced"}
           known == wanted \cap pool
           asked == {s \in wanted \ pool : ~IsBackedOff(seen[s])}
       IN /\ IF have = rows /\ seen = marks THEN Works ELSE Fail
          /\ call' = [call EXCEPT ![c] =
                       [pc |-> "ask", have |-> have, feed |-> solved,
                        todo |-> Queue(c, asked), new |-> known, since |-> 0,
                        marks |-> [s \in Slugs |-> IF s \in known THEN Unmarked ELSE seen[s]],
                        dirty |-> \E s \in known : seen[s] # Unmarked]]
  /\ overlap' = (overlap \/ \E d \in Callers : ~At(d, "idle"))
  /\ UNCHANGED <<dead, solved, credited, rows, marks, answered, ran>>

\* _fetch_level: a difficulty, "question: null", or no answer.
AskOne(c) ==
  /\ At(c, "ask") /\ call[c].todo # {}
  /\ \E s \in Head(call[c].todo, 1) :
       /\ \/ /\ Works /\ s \notin dead /\ UNCHANGED answered
             /\ call' = [call EXCEPT ![c].todo = @ \ {s}, ![c].new = @ \cup {s},
                                     ![c].marks[s] = Unmarked,
                                     ![c].dirty = @ \/ call[c].marks[s] # Unmarked]
          \/ /\ Works /\ s \in dead /\ answered' = [answered EXCEPT ![s] = call[c].since]
             /\ call' = [call EXCEPT ![c].todo = @ \ {s}, ![c].dirty = TRUE,
                                     ![c].marks[s] = call[c].since]
          \/ Fail /\ call' = [call EXCEPT ![c].todo = @ \ {s}] /\ UNCHANGED answered
  /\ UNCHANGED <<dead, solved, credited, rows, marks, overlap, ran>>

\* Rows replace by id what was loaded.
Saved(c) == [s \in Slugs |-> IF s \in call[c].new THEN "priced" ELSE call[c].have[s]]

\* Mutant: marks are saved with rows or not at all.
KeepsMarksWithRows(c) == call[c].new # {}

\* Whatever became of the rows, if there is a new mark or one less.
KeepsMarks(c) == call[c].dirty

SaveRows(c) ==
  /\ At(c, "ask") /\ call[c].todo = {}
  /\ call' = [call EXCEPT ![c].pc = IF KeepsMarks(c) THEN "mark" ELSE "end",
                          ![c].marks = IF KeepsMarks(c) THEN @ ELSE NoMarks,
                          ![c].have = NoRows, ![c].new = {}, ![c].dirty = FALSE]
  /\ IF call[c].new = {} THEN UNCHANGED <<rows, faults>>
     ELSE \/ Works /\ rows' = Saved(c)
          \/ Fail /\ UNCHANGED rows
  /\ UNCHANGED <<dead, solved, credited, marks, answered, overlap, ran>>

SaveMarks(c) ==
  /\ At(c, "mark") /\ call' = [call EXCEPT ![c].pc = "end", ![c].marks = NoMarks]
  /\ \/ Works /\ marks' = call[c].marks
     \/ Fail /\ UNCHANGED marks
  /\ UNCHANGED <<dead, solved, credited, rows, answered, overlap, ran>>

\* What the feed named is credited; a backfill leaves the ledger alone.
Return(c) ==
  /\ At(c, "end") /\ call' = [call EXCEPT ![c] = Idle]
  /\ \/ Works /\ credited' = credited \cup (IF c = "backfill" THEN {} ELSE call[c].feed)
     \/ Fail /\ UNCHANGED credited
  /\ ran' = (ran \/ c = "harvest")
  /\ UNCHANGED <<dead, solved, rows, marks, answered, overlap>>

Kill(c) ==
  /\ ~At(c, "idle") /\ Fail /\ call' = [call EXCEPT ![c] = Idle]
  /\ UNCHANGED <<dead, solved, credited, rows, marks, answered, overlap, ran>>

-----------------------------------------------------------------------------
Step(c) == AskOne(c) \/ SaveRows(c) \/ SaveMarks(c) \/ Return(c)

Next ==
  \/ \E s \in Slugs : Solve(s) \/ Republish(s) \/ Forge(s)
  \/ HalfDay \/ ClockSetBack
  \/ \E c \in Callers : Begin(c) \/ Step(c) \/ Kill(c)

Spec == Init /\ [][Next]_vars

\* The timer calls every minute, a call goes on and time passes; nothing else
\* has to happen.
FairSpec ==
  /\ Spec /\ WF_vars(Begin("harvest")) /\ WF_vars(HalfDay)
  /\ \A c \in Callers : WF_vars(Step(c))

-----------------------------------------------------------------------------
(* Properties *)

\* The shape of the state: a problem about to be asked has no trusted row yet.
TypeOK ==
  /\ dead \in SUBSET Dead /\ solved \in SUBSET Slugs /\ credited \in SUBSET solved
  /\ rows \in [Slugs -> {"none", "forged", "priced"}] /\ marks \in [Slugs -> Ages]
  /\ call \in [Callers -> [pc : {"idle", "ask", "mark", "end"},
                           have : [Slugs -> {"none", "forged", "priced"}],
                           marks : [Slugs -> Ages], dirty : BOOLEAN,
                           feed : SUBSET Slugs, todo : SUBSET Slugs,
                           new : SUBSET Slugs, since : {0, 1}]]
  /\ answered \in [Slugs -> Ages]
  /\ {overlap, ran} \subseteq BOOLEAN /\ faults \in 0..MaxFaults
  /\ \A c \in Callers :
       /\ Cardinality(call[c].todo) <= MaxFetch
       /\ \A s \in call[c].todo \cup call[c].new : call[c].have[s] # "priced"

\* Every problem solved and known to LeetCode ends up priced for good, however
\* many dead ones come before it, whatever failed or was forged, and although
\* calls save whole files over each other: each loss heals.
DeadOnesStarveNobody ==
  \A s \in Slugs : (s \in solved /\ s \notin dead) ~> [](rows[s] = "priced")

\* A price is not lost: only a call that overlapped another, or a file that
\* could not be read, makes a save drop a row it was not asked to forge.
PricesAreKept ==
  [][\A s \in Slugs : rows[s] = "priced" /\ rows'[s] = "none"
                        => overlap \/ faults < MaxFaults]_vars

\* At most one request a day about a problem LeetCode does not know, unless
\* calls overlap or the marks could not be kept.
AskedOnceADay ==
  [][\A c \in Callers : \A s \in call[c].todo \ call'[c].todo :
       call'[c].pc = "ask" /\ answered[s] \in 0..(Retry - 1)
         => overlap \/ faults < MaxFaults]_vars
=============================================================================
