------------------------------- MODULE Suggest -------------------------------
(***************************************************************************)
(* Where a lock's suggestions come from and what is asked of LeetCode      *)
(* before a row is shown: a fresh mirror of the pool, a download or a      *)
(* stale mirror; the top rows confirmed before the window opens, the rest  *)
(* as they are scrolled to, one batch in flight at a time.  Problems are   *)
(* numbered by rank, so a ranked list is a set and its head the smallest.  *)
(***************************************************************************)
EXTENDS Integers, FiniteSets

CONSTANTS
  Problems,  \* numbered easiest first, then by acceptance
  Paid,      \* the premium ones
  Old,       \* solved long ago: neither the ledger nor the feed names them
  Bench,     \* SUGGESTION_COUNT, the rows confirmed before the window opens
  Initial,   \* INITIAL_ROWS, the rows a window is built with
  Batch,     \* ROW_BATCH, the rows a scroll adds and a check asks about
  MaxSolves, \* bound: problems solved meanwhile
  MaxFaults  \* bound: failed requests and writes, expiries, clocks set back

ASSUME SuggestAssumption ==
  /\ IsFiniteSet(Problems) /\ Problems \subseteq Nat /\ Paid \cup Old \subseteq Problems
  /\ Bench \in Nat \ {0} /\ Initial \in Nat \ {0} /\ Batch \in Nat \ {0}
  /\ MaxSolves \in Nat /\ MaxFaults \in Nat

VARIABLES
  ac,      \* what LeetCode counts as accepted
  session, \* whether the cookies still say whose status is asked for
  local,   \* what the ledger and the feed name as solved
  mirror,  \* pool_cache.json: its problems, those marked "ac", its age in weeks
  run,     \* the lock run: its phase, the rows still to verify and the pool
  model,   \* the rows of the surface
  built,   \* how many row widgets there are
  reveal,  \* RevealMixin: the depth, the checked set, whether it went blind
  flight,  \* the one batch being asked about
  told,    \* history: what LeetCode told this run to be solved
  asked,   \* history: how often this run asked about a problem
  shifted, \* history: a solve moved rows up since the last scroll
  faults

vars == <<ac, session, local, mirror, run, model, built, reveal, flight, told,
          asked, shifted, faults>>
windowVars == <<model, built, reveal, flight, shifted>>

Least(a, b) == IF a <= b THEN a ELSE b
\* The first k rows of a ranked list.
Top(rows, k) == {p \in rows : Cardinality({q \in rows : q < p}) < k}
Fail == faults > 0 /\ faults' = faults - 1
Works == UNCHANGED faults

NoMirror == [rows |-> {}, ac |-> {}, age |-> -2]
NoBatch == [rows |-> {}, state |-> "none", got |-> {}, solved |-> {}]
Recent == ac \ Old

Init ==
  /\ ac = Old /\ session \in BOOLEAN /\ local = {} /\ mirror = NoMirror
  /\ run = [phase |-> "idle", todo |-> {}, pool |-> {}]
  /\ model = {} /\ built = 0 /\ reveal = [depth |-> 0, checked |-> {}, blind |-> FALSE]
  /\ flight = NoBatch /\ told = {} /\ asked = [p \in Problems |-> 0]
  /\ shifted = FALSE /\ faults = MaxFaults

-----------------------------------------------------------------------------
(* Outside the program *)

Solve(p) ==
  /\ Cardinality(Recent) < MaxSolves /\ ac' = ac \cup {p}
  /\ UNCHANGED <<session, local, mirror, run, windowVars, told, asked, faults>>

Expire ==
  /\ session /\ session' = FALSE /\ Fail
  /\ UNCHANGED <<ac, local, mirror, run, windowVars, told, asked>>

\* A week between two runs, or a clock set back.
Age ==
  /\ run.phase = "idle" /\ mirror # NoMirror
  /\ \/ mirror.age < 1 /\ mirror' = [mirror EXCEPT !.age = mirror.age + 1] /\ Works
     \/ mirror.age >= 0 /\ mirror' = [mirror EXCEPT !.age = mirror.age - 1] /\ Fail
  /\ UNCHANGED <<ac, session, local, run, windowVars, told, asked>>

-----------------------------------------------------------------------------
(* resolve_pool, before there is a window *)

\* solved_slugs: what the ledger names, once the feed has joined it.
Named == local \cup Recent

\* fetch_recent_ac, whose feed joins what the ledger names.
Open ==
  /\ run.phase = "idle" /\ run' = [phase |-> "resolve", todo |-> {}, pool |-> {}]
  /\ \/ Works /\ local' = Named
     \/ Fail /\ UNCHANGED local
  /\ told' = {} /\ asked' = [p \in Problems |-> 0]
  /\ UNCHANGED <<ac, session, mirror, windowVars>>

IsFresh == mirror.age = 0

\* rank_pool.
RankPool(pool) == ((pool.rows \ pool.ac) \ local) \ Paid

Ranked(pool) ==
  run' = [phase |-> IF RankPool(pool) = {} THEN "ready" ELSE "verify",
          todo |-> RankPool(pool), pool |-> {}]

FromMirror ==
  /\ run.phase = "resolve" /\ IsFresh /\ Ranked(mirror)
  /\ UNCHANGED <<ac, session, local, mirror, windowVars, told, asked, faults>>

\* parse_questions: a row's status says "ac" while the session lives.
Parsed(got) == [rows |-> got, ac |-> IF session THEN got \cap ac ELSE {}, age |-> 0]

\* write_cache: the time is that of the download; a mirror that cannot be
\* written stays as it was.
WriteCache(pool) ==
  \/ mirror' = pool /\ IF pool.rows = Problems THEN Works ELSE Fail
  \/ UNCHANGED mirror /\ pool.rows = Problems /\ Fail

\* fetch_pool: whatever the pages before a failure held; any of it is a pool,
\* written as if it were all of it.
Download ==
  /\ run.phase = "resolve" /\ ~IsFresh
  /\ \E got \in (SUBSET Problems) \ {{}} :
       Ranked(Parsed(got)) /\ WriteCache(Parsed(got))
  /\ UNCHANGED <<ac, session, local, windowVars, told, asked>>

\* Nothing came: the stale mirror, or no suggestions.
FallBack ==
  /\ run.phase = "resolve" /\ ~IsFresh /\ Fail /\ Ranked(mirror)
  /\ UNCHANGED <<ac, session, local, mirror, windowVars, told, asked>>

-----------------------------------------------------------------------------
(* check_solved, verify_live *)

\* A request may fail; an answer names a problem solved while the session lives.
Answers(rows, got) == got \subseteq rows /\ IF got = rows THEN Works ELSE Fail
SolvedOf(got) == IF session THEN got \cap ac ELSE {}
Ask(rows) == asked' = [p \in Problems |-> IF p \in rows THEN Least(2, asked[p] + 1) ELSE asked[p]]

\* Mutant: the loop looks at its goal only.
EnoughSurvived(kept, left, got) == Cardinality(kept) >= Bench

\* Mutant: one sweep of the top, no backfill.
EnoughAfterOne(kept, left, got) == TRUE

\* Stop when enough survived, nothing is left or nothing was answered.
Enough(kept, left, got) == Cardinality(kept) >= Bench \/ left = {} \/ got = {}

VerifyBatch ==
  /\ run.phase = "verify"
  /\ LET batch == Top(run.todo, Bench - Cardinality(run.pool))
     IN \E got \in SUBSET batch :
          LET kept == run.pool \cup (batch \ SolvedOf(got))
              left == run.todo \ batch
          IN /\ Answers(batch, got)
             /\ run' = IF Enough(kept, left, got)
                       THEN [phase |-> "ready", todo |-> {}, pool |-> kept \cup left]
                       ELSE [phase |-> "verify", todo |-> left, pool |-> kept]
             /\ told' = told \cup SolvedOf(got) /\ Ask(batch)
  /\ UNCHANGED <<ac, session, local, mirror, windowVars>>

-----------------------------------------------------------------------------
(* The window *)

\* build_problem_lines lists what is not known to be solved, append_rows builds
\* as many rows as there are lines for.
Listed(pool, known) == pool \ known
BuiltRows(lines, wanted) == Least(wanted, Cardinality(lines))

\* _start_reveal takes the top of the pool as verified.
OpenWindow ==
  /\ run.phase = "ready" /\ run' = [run EXCEPT !.phase = "window"]
  /\ model' = Listed(run.pool, local) /\ built' = BuiltRows(model', Initial)
  /\ reveal' = [depth |-> 0, checked |-> Top(run.pool, Bench), blind |-> FALSE]
  /\ flight' = NoBatch /\ shifted' = FALSE
  /\ UNCHANGED <<ac, session, local, mirror, told, asked, faults>>

\* Mutant: only the rows the last scroll added are considered.
RequestNewest(rows, r) ==
  LET unchecked == (Top(rows, r.depth) \ Top(rows, r.depth - Batch)) \ r.checked
  IN IF r.blind \/ unchecked = {} THEN NoBatch
     ELSE [NoBatch EXCEPT !.rows = Top(unchecked, Batch), !.state = "asked"]

\* _request_reveal_check, from the state the caller leaves.
Request(rows, r) ==
  LET unchecked == Top(rows, r.depth) \ r.checked
  IN IF r.blind \/ unchecked = {} THEN NoBatch
     ELSE [NoBatch EXCEPT !.rows = Top(unchecked, Batch), !.state = "asked"]

\* grow_rows, _on_reveal.
Scroll ==
  /\ run.phase = "window" /\ built < Cardinality(model)
  /\ built' = BuiltRows(model, built + Batch)
  /\ reveal' = [reveal EXCEPT !.depth = IF built' > reveal.depth THEN built' ELSE reveal.depth]
  /\ IF flight = NoBatch
     THEN flight' = Request(model, reveal') /\ Ask(flight'.rows)
     ELSE UNCHANGED <<flight, asked>>
  /\ shifted' = FALSE
  /\ UNCHANGED <<ac, session, local, mirror, run, model, told, faults>>

\* The executor's thread.
RunBatch ==
  /\ run.phase = "window" /\ flight.state = "asked"
  /\ \/ \E got \in SUBSET flight.rows :
          /\ Answers(flight.rows, got)
          /\ flight' = [flight EXCEPT !.state = "answered", !.got = got, !.solved = SolvedOf(got)]
     \/ Fail /\ flight' = [flight EXCEPT !.state = "raised"]
  /\ UNCHANGED <<ac, session, local, mirror, run, model, built, reveal, told, asked, shifted>>

\* Mutant: only what was answered counts as checked.
CheckedAnswered == reveal.checked \cup flight.got

Checked == reveal.checked \cup flight.rows

\* Mutant: the rows are dropped from the surface and not from the pool.
PoolAfterKept == run.pool

PoolAfter == run.pool \ flight.solved

\* _drain_reveal, of a finished batch.
DrainReveal ==
  /\ run.phase = "window" /\ flight.state \in {"answered", "raised"}
  /\ reveal' = [reveal EXCEPT !.checked = IF flight.state = "raised" THEN @ ELSE Checked,
                              !.blind = flight.got = {}]
  /\ run' = [run EXCEPT !.pool = PoolAfter]
  /\ model' = IF flight.solved = {} THEN model ELSE Listed(run.pool \ flight.solved, local)
  /\ told' = told \cup flight.solved
  /\ flight' = Request(model', reveal') /\ Ask(flight'.rows)
  /\ UNCHANGED <<ac, session, local, mirror, built, shifted, faults>>

\* _on_poll_result repaints from the pool and what is now known.
Poll ==
  /\ run.phase = "window"
  /\ \/ Works /\ local' = Named
     \/ Fail /\ UNCHANGED local
  /\ model' = Listed(run.pool, local')
  /\ shifted' = (shifted \/ model' # model)
  /\ UNCHANGED <<ac, session, mirror, run, built, reveal, flight, told, asked>>

\* _stop_reveal: what a batch in flight answers is not looked at any more.
Close ==
  /\ run.phase = "window" /\ run' = [phase |-> "idle", todo |-> {}, pool |-> {}]
  /\ model' = {} /\ built' = 0 /\ flight' = NoBatch /\ shifted' = FALSE
  /\ reveal' = [depth |-> 0, checked |-> {}, blind |-> FALSE]
  /\ told' = {} /\ asked' = [p \in Problems |-> 0]
  /\ UNCHANGED <<ac, session, local, mirror, faults>>

-----------------------------------------------------------------------------
Resolve == FromMirror \/ Download \/ FallBack \/ VerifyBatch \/ OpenWindow
Reveal == RunBatch \/ DrainReveal

Next ==
  \/ \E p \in Problems \ ac : Solve(p)
  \/ Expire \/ Age
  \/ Open \/ Resolve \/ Scroll \/ Reveal \/ Poll \/ Close

Spec == Init /\ [][Next]_vars

\* A run goes on by itself, the executor works and Tk drains; nobody has to
\* scroll, to solve or to start another run.
FairSpec == Spec /\ WF_vars(Resolve) /\ WF_vars(Reveal)

-----------------------------------------------------------------------------
(* Properties *)

\* The shape of the state: a batch is in flight only over a window.
TypeOK ==
  /\ ac \in SUBSET Problems /\ session \in BOOLEAN /\ local \in SUBSET Problems
  /\ mirror \in [rows : SUBSET Problems, ac : SUBSET Problems, age : -2..1]
  /\ run \in [phase : {"idle", "resolve", "verify", "ready", "window"},
              todo : SUBSET Problems, pool : SUBSET Problems]
  /\ model \in SUBSET Problems /\ built \in 0..Cardinality(Problems)
  /\ reveal \in [depth : 0..Cardinality(Problems), checked : SUBSET Problems, blind : BOOLEAN]
  /\ flight \in [rows : SUBSET Problems, state : {"none", "asked", "answered", "raised"},
                 got : SUBSET Problems, solved : SUBSET Problems]
  /\ told \in SUBSET Problems /\ asked \in [Problems -> 0..2]
  /\ shifted \in BOOLEAN /\ faults \in 0..MaxFaults
  /\ flight.state # "none" => run.phase = "window" /\ flight.rows # {}

\* Whatever rebuilds the surface, and in whatever order, a row that LeetCode,
\* the ledger or the feed has told this run to be solved does not come back.
KnownSolvedStaysHidden ==
  run.phase = "window" => model \cap (told \cup local \cup Paid) = {}

\* As long as every request was answered, the rows of the bench were all
\* asked about before the window opens: dropping one asks about the next.
BenchIsConfirmed ==
  run.phase = "ready" /\ faults = MaxFaults
    => \A p \in Top(run.pool, Bench) : asked[p] > 0

\* One request per problem and run, however often rows move, batches end and
\* surfaces scroll: the endpoint answers a flood as it answers a dead session.
AskedOnce == \A p \in Problems : asked[p] <= 1

\* A lock gets its window whatever the network does to the suggestions.
LockComesUp == (run.phase = "resolve") ~> (run.phase = "window")

\* A row scrolled to is checked, or the checks have gone blind, unless it left
\* the list, the window closed or a solve moved the rows meanwhile.
RevealedIsChecked ==
  \A p \in Problems :
    (run.phase = "window" /\ p \in Top(model, reveal.depth) /\ ~shifted)
      ~> (p \in reveal.checked \/ p \notin model \/ reveal.blind \/ shifted)

\* Not so for a row that a solve moves into view: nothing asks about it until
\* the next scroll.  Violated.
VisibleIsChecked ==
  \A p \in Problems :
    (run.phase = "window" /\ p \in Top(model, reveal.depth))
      ~> (p \in reveal.checked \/ p \notin model \/ reveal.blind)
=============================================================================
