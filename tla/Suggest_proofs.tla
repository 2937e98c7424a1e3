---------------------------- MODULE Suggest_proofs ----------------------------
(***************************************************************************)
(* Proofs about Suggest, for any pool, any bench and any batch.            *)
(***************************************************************************)
EXTENDS Suggest, FiniteSetTheorems, WellFoundedInduction, TLAPS

Disjoint(a, b) == \A p \in a : p \notin b

(* What is still in the running has been told of neither by LeetCode nor as *)
(* a premium problem, and nothing is asked about twice before the window.   *)
Untold ==
  /\ run.phase = "resolve" => told = {}
  /\ run.phase \in {"verify", "ready", "window"} => Disjoint(run.pool, told \cup Paid)
  /\ run.phase = "verify" =>
       Disjoint(run.todo, told \cup Paid) /\ Disjoint(run.todo, run.pool)

(* The surface lists the pool, less what the ledger and the feed name.      *)
Lists == run.phase = "window" => model \subseteq run.pool /\ Disjoint(model, local)

HInv == DOMAIN run = {"phase", "todo", "pool"} /\ Untold /\ Lists

LEMMA InitHInv == Init => HInv
BY DEF Init, HInv, Untold, Lists

(* One batch of verify_live: what it tells leaves the running.              *)
LEMMA BatchTold ==
  ASSUME NEW pool, NEW todo, NEW known, NEW batch, NEW solvedNow,
         Disjoint(pool, known), Disjoint(todo, known), Disjoint(todo, pool),
         batch \subseteq todo, solvedNow \subseteq batch
  PROVE  /\ Disjoint(pool \cup (batch \ solvedNow), known \cup solvedNow)
         /\ Disjoint(todo \ batch, known \cup solvedNow)
         /\ Disjoint(todo \ batch, pool \cup (batch \ solvedNow))
         /\ Disjoint((pool \cup (batch \ solvedNow)) \cup (todo \ batch), known \cup solvedNow)
BY DEF Disjoint

LEMMA StepRanked ==
  ASSUME HInv, run.phase = "resolve", NEW pool, Ranked(pool), UNCHANGED told
  PROVE  HInv'
<1>1. told' = {} /\ run'.pool = {} /\ run'.todo = RankPool(pool)
      /\ run'.phase \in {"ready", "verify"} /\ DOMAIN run' = {"phase", "todo", "pool"}
  BY DEF Ranked, HInv, Untold
<1>2. Disjoint(RankPool(pool), Paid)
  BY DEF RankPool, Disjoint
<1> QED
  BY <1>1, <1>2 DEF HInv, Untold, Lists, Disjoint

LEMMA StepVerify ==
  ASSUME HInv, VerifyBatch
  PROVE  HInv'
<1> DEFINE batch == Top(run.todo, Bench - Cardinality(run.pool))
<1>1. PICK got \in SUBSET batch :
        LET kept == run.pool \cup (batch \ SolvedOf(got))
            left == run.todo \ batch
        IN /\ run' = IF Enough(kept, left, got)
                     THEN [phase |-> "ready", todo |-> {}, pool |-> kept \cup left]
                     ELSE [phase |-> "verify", todo |-> left, pool |-> kept]
           /\ told' = told \cup SolvedOf(got)
  BY DEF VerifyBatch
<1>2. batch \subseteq run.todo
  BY DEF Top
<1> HIDE DEF batch
<1>3. SolvedOf(got) \subseteq batch
  BY <1>1 DEF SolvedOf
<1> DEFINE known == told \cup Paid
           kept == run.pool \cup (batch \ SolvedOf(got))
           left == run.todo \ batch
<1>4. run.phase = "verify"
  BY DEF VerifyBatch
<1>5. Disjoint(run.pool, known) /\ Disjoint(run.todo, known) /\ Disjoint(run.todo, run.pool)
  BY <1>4 DEF HInv, Untold
<1>6. told' \cup Paid = known \cup SolvedOf(got)
  BY <1>1
<1>7. /\ Disjoint(kept, told' \cup Paid) /\ Disjoint(left, told' \cup Paid)
      /\ Disjoint(left, kept) /\ Disjoint(kept \cup left, told' \cup Paid)
  <2> HIDE DEF known
  <2> QED
    BY <1>2, <1>3, <1>5, <1>6, BatchTold
<1>8. \/ run' = [phase |-> "ready", todo |-> {}, pool |-> kept \cup left]
      \/ run' = [phase |-> "verify", todo |-> left, pool |-> kept]
  BY <1>1
<1> HIDE DEF kept, left
<1>9. CASE run' = [phase |-> "ready", todo |-> {}, pool |-> kept \cup left]
  <2>1. run'.phase = "ready" /\ run'.pool = kept \cup left /\ DOMAIN run' = {"phase", "todo", "pool"}
    BY <1>9
  <2> QED
    BY <1>7, <2>1 DEF HInv, Untold, Lists
<1>10. CASE run' = [phase |-> "verify", todo |-> left, pool |-> kept]
  <2>1. run'.phase = "verify" /\ run'.pool = kept /\ run'.todo = left
        /\ DOMAIN run' = {"phase", "todo", "pool"}
    BY <1>10
  <2> QED
    BY <1>7, <2>1 DEF HInv, Untold, Lists
<1> QED
  BY <1>8, <1>9, <1>10

LEMMA StepWindow ==
  ASSUME HInv, OpenWindow \/ Scroll \/ RunBatch \/ DrainReveal \/ Poll \/ Close
  PROVE  HInv'
<1> USE DEF HInv, Untold, Lists, Disjoint
<1>1. CASE OpenWindow
  BY <1>1 DEF OpenWindow, Listed
<1>2. CASE Scroll
  BY <1>2 DEF Scroll
<1>3. CASE RunBatch
  BY <1>3 DEF RunBatch
<1>4. CASE DrainReveal
  <2>1. /\ run.phase = "window" /\ run' = [run EXCEPT !.pool = run.pool \ flight.solved]
        /\ told' = told \cup flight.solved /\ UNCHANGED local
    BY <1>4 DEF DrainReveal, PoolAfter
  <2>2. \/ flight.solved = {} /\ model' = model
        \/ model' = (run.pool \ flight.solved) \ local
    BY <1>4 DEF DrainReveal, Listed
  <2>3. run'.pool = run.pool \ flight.solved /\ run'.phase = "window"
        /\ DOMAIN run' = {"phase", "todo", "pool"}
    BY <2>1
  <2> QED
    BY <2>1, <2>2, <2>3
<1>5. CASE Poll
  BY <1>5 DEF Poll, Listed
<1>6. CASE Close
  BY <1>6 DEF Close
<1> QED
  BY <1>1, <1>2, <1>3, <1>4, <1>5, <1>6

LEMMA StepHInv == HInv /\ [Next]_vars => HInv'
<1> SUFFICES ASSUME HInv, [Next]_vars PROVE HInv'
  OBVIOUS
<1>1. CASE UNCHANGED vars
  BY <1>1 DEF HInv, Untold, Lists, Disjoint, vars, windowVars
<1>2. CASE Open
  BY <1>2 DEF Open, HInv, Untold, Lists, Disjoint
<1>3. CASE FromMirror
  BY <1>3, StepRanked DEF FromMirror
<1>4. CASE Download
  BY <1>4, StepRanked DEF Download
<1>5. CASE FallBack
  BY <1>5, StepRanked DEF FallBack
<1>6. CASE Expire \/ Age \/ \E p \in Problems \ ac : Solve(p)
  <2>1. UNCHANGED <<run, told, local, model>>
    BY <1>6 DEF Expire, Age, Solve, windowVars
  <2> QED
    BY <2>1 DEF HInv, Untold, Lists, Disjoint
<1> QED
  BY <1>1, <1>2, <1>3, <1>4, <1>5, <1>6, StepVerify, StepWindow DEF Next, Resolve, Reveal

(* No repaint, backfill, late batch or poll brings back a row the run has   *)
(* been told is solved, nor a premium one (rank_pool, verify_live,          *)
(* _drain_reveal, _on_poll_result).                                         *)
THEOREM SolvedRowsStayHidden == Spec => []KnownSolvedStaysHidden
<1>1. HInv => KnownSolvedStaysHidden
  BY DEF HInv, Untold, Lists, Disjoint, KnownSolvedStaysHidden
<1> QED
  BY InitHInv, StepHInv, <1>1, PTL DEF Spec

-----------------------------------------------------------------------------
(* Ranked lists.                                                            *)

\* A non-empty family of subsets of a finite set has a smallest member.
Smallest(T, x) == x \in T /\ \A y \in T : y \subseteq x => y = x

LEMMA SmallestSet ==
  ASSUME NEW S, IsFiniteSet(S), NEW T, T \subseteq SUBSET S, T # {}
  PROVE  \E x : Smallest(T, x)
<1>1. T \subseteq FiniteSubsetsOf(S)
  BY FS_FiniteSubsetsOfFinite
<1>2. \E x \in T : \A y \in T : ~(<<y, x>> \in StrictSubsetOrdering(S))
  BY <1>1, FS_StrictSubsetOrderingWellFounded, WFMin
<1> QED
  BY <1>2 DEF StrictSubsetOrdering, Smallest

LEMMA FirstExists ==
  ASSUME NEW rows, IsFiniteSet(rows), rows \subseteq Nat, rows # {}
  PROVE  \E m \in rows : \A q \in rows : m <= q
<1> DEFINE upTo(p) == {q \in rows : q <= p}
           family == {upTo(p) : p \in rows}
<1>1. family \subseteq SUBSET rows /\ family # {}
  OBVIOUS
<1> HIDE DEF family
<1>2. PICK x : Smallest(family, x)
  BY <1>1, SmallestSet
<1>3. PICK m \in rows : x = upTo(m)
  BY <1>2 DEF Smallest, family
<1>4. ASSUME NEW q \in rows, q < m PROVE FALSE
  <2>0. q \in Nat /\ m \in Nat
    OBVIOUS
  <2>1. upTo(q) \in family
    BY DEF family
  <2>2. ASSUME NEW y \in rows, y <= q PROVE y <= m
    <3>1. y \in Nat
      OBVIOUS
    <3> QED
      BY <1>4, <2>0, <2>2, <3>1
  <2>3. m <= m /\ ~(m <= q)
    BY <1>4, <2>0
  <2>4. upTo(q) \subseteq upTo(m) /\ m \in upTo(m) /\ m \notin upTo(q)
    BY <2>2, <2>3
  <2> QED
    BY <1>2, <1>3, <2>1, <2>4 DEF Smallest
<1>5. \A q \in rows : ~(q < m)
  BY <1>4
<1> QED
  BY <1>5

LEMMA LastExists ==
  ASSUME NEW rows, IsFiniteSet(rows), rows \subseteq Nat, rows # {}
  PROVE  \E m \in rows : \A q \in rows : q <= m
<1> DEFINE from(p) == {q \in rows : p <= q}
           family == {from(p) : p \in rows}
<1>1. family \subseteq SUBSET rows /\ family # {}
  OBVIOUS
<1> HIDE DEF family
<1>2. PICK x : Smallest(family, x)
  BY <1>1, SmallestSet
<1>3. PICK m \in rows : x = from(m)
  BY <1>2 DEF Smallest, family
<1>4. ASSUME NEW q \in rows, m < q PROVE FALSE
  <2>0. q \in Nat /\ m \in Nat
    OBVIOUS
  <2>1. from(q) \in family
    BY DEF family
  <2>2. ASSUME NEW y \in rows, q <= y PROVE m <= y
    <3>1. y \in Nat
      OBVIOUS
    <3> QED
      BY <1>4, <2>0, <2>2, <3>1
  <2>3. m <= m /\ ~(q <= m)
    BY <1>4, <2>0
  <2>4. from(q) \subseteq from(m) /\ m \in from(m) /\ m \notin from(q)
    BY <2>2, <2>3
  <2> QED
    BY <1>2, <1>3, <2>1, <2>4 DEF Smallest
<1>5. \A q \in rows : ~(m < q)
  BY <1>4
<1> QED
  BY <1>5

(* The first k rows of a ranked list are at most k, and the lowest.         *)
LEMMA HeadIsShort ==
  ASSUME NEW rows, IsFiniteSet(rows), rows \subseteq Nat, NEW k \in Nat
  PROVE  /\ IsFiniteSet(Top(rows, k)) /\ Top(rows, k) \subseteq rows
         /\ Cardinality(Top(rows, k)) \in Nat /\ Cardinality(Top(rows, k)) <= k
<1> DEFINE H == Top(rows, k)
<1>1. IsFiniteSet(H) /\ H \subseteq rows
  BY FS_Subset DEF Top
<1>2. Cardinality(H) \in Nat
  BY <1>1, FS_CardinalityType
<1>3. CASE H = {}
  BY <1>1, <1>2, <1>3, FS_EmptySet
<1>4. CASE H # {}
  <2>1. PICK m \in H : \A q \in H : q <= m
    <3> HIDE DEF H
    <3> QED
      BY <1>1, <1>4, LastExists
  <2> DEFINE lower == {q \in rows : q < m}
  <2>2. IsFiniteSet(lower) /\ H \ {m} \subseteq lower
    <3>1. lower \subseteq rows /\ \A q \in H : q \in Nat /\ m \in Nat
      BY <1>1
    <3>2. H \ {m} \subseteq lower
      BY <1>1, <2>1, <3>1
    <3> QED
      BY <3>1, <3>2, FS_Subset
  <2>3. Cardinality(lower) < k /\ Cardinality(lower) \in Nat
    BY <2>1, <2>2, FS_CardinalityType DEF Top
  <2> HIDE DEF H, lower
  <2>4. Cardinality(H \ {m}) <= Cardinality(lower)
    BY <2>2, FS_Subset
  <2>5. Cardinality(H \ {m}) = Cardinality(H) - 1
    BY <1>1, <2>1, FS_RemoveElement
  <2>6. Cardinality(H) <= k
    BY <1>2, <2>3, <2>4, <2>5
  <2> QED
    BY <1>1, <1>2, <2>6 DEF H
<1> QED
  BY <1>3, <1>4

LEMMA HeadHasTheFirst ==
  ASSUME NEW rows, IsFiniteSet(rows), rows \subseteq Nat, rows # {}, NEW k \in Nat \ {0}
  PROVE  Top(rows, k) # {}
<1>1. PICK m \in rows : \A q \in rows : m <= q
  BY FirstExists
<1>2. {q \in rows : q < m} = {}
  <2>1. ASSUME NEW q \in rows PROVE ~(q < m)
    <3>1. q \in Nat /\ m \in Nat /\ m <= q
      BY <1>1
    <3> QED
      BY <3>1
  <2> QED
    BY <2>1
<1>3. Cardinality({q \in rows : q < m}) = 0
  BY <1>2, FS_EmptySet
<1>4. m \in Top(rows, k)
  BY <1>3 DEF Top
<1> QED
  BY <1>4

LEMMA HeadIsLow ==
  ASSUME NEW rows, IsFiniteSet(rows), rows \subseteq Nat, NEW k \in Nat,
         NEW p \in Top(rows, k), NEW q \in rows \ Top(rows, k)
  PROVE  p < q
<1> SUFFICES ASSUME q < p PROVE FALSE
  <2>1. p \in Nat /\ q \in Nat /\ p # q
    BY DEF Top
  <2> QED
    BY <2>1
<1> DEFINE less == {x \in rows : x < q}
           more == {x \in rows : x < p}
<1>0. p \in rows /\ q \in rows
  BY DEF Top
<1>1. less \subseteq more /\ IsFiniteSet(more) /\ IsFiniteSet(less)
  <2>1. ASSUME NEW x \in rows, x < q PROVE x < p
    <3>1. p \in Nat /\ q \in Nat /\ x \in Nat
      BY <1>0
    <3> QED
      BY <2>1, <3>1
  <2>2. less \subseteq more /\ more \subseteq rows /\ less \subseteq rows
    BY <2>1
  <2> QED
    BY <2>2, FS_Subset
<1>2. Cardinality(less) <= Cardinality(more)
  BY <1>1, FS_Subset
<1>3. Cardinality(less) \in Nat /\ Cardinality(more) \in Nat
  BY <1>1, FS_CardinalityType
<1>4. Cardinality(more) < k /\ ~(Cardinality(less) < k)
  BY DEF Top
<1> QED
  BY <1>2, <1>3, <1>4

(* Confirmed rows before the rest: at most k of them are the head, or a     *)
(* part of it; with k of them, nothing else is.                             *)
LEMMA HeadOfTwo ==
  ASSUME NEW low, NEW high, IsFiniteSet(low \cup high), low \cup high \subseteq Nat,
         \A p \in low, q \in high : p < q, NEW k \in Nat
  PROVE  /\ Cardinality(low) <= k => low \subseteq Top(low \cup high, k)
         /\ Cardinality(low) >= k => Top(low \cup high, k) \subseteq low
<1> DEFINE all == low \cup high
           below(p) == {q \in all : q < p}
<1>0. IsFiniteSet(low) /\ Cardinality(low) \in Nat
  BY FS_Subset, FS_CardinalityType
<1>1. ASSUME Cardinality(low) <= k, NEW p \in low PROVE p \in Top(all, k)
  <2>1. below(p) \subseteq low \ {p} /\ IsFiniteSet(low \ {p})
    BY <1>0, FS_Subset
  <2>2. Cardinality(below(p)) <= Cardinality(low \ {p})
    BY <2>1, FS_Subset
  <2>3. Cardinality(low \ {p}) = Cardinality(low) - 1
    BY <1>0, FS_RemoveElement
  <2>4. Cardinality(below(p)) \in Nat
    BY <2>1, FS_Subset, FS_CardinalityType
  <2>5. Cardinality(below(p)) < k
    <3> HIDE DEF below
    <3> QED
      BY <1>0, <1>1, <2>2, <2>3, <2>4
  <2> QED
    BY <2>5 DEF Top
<1>2. ASSUME Cardinality(low) >= k, NEW p \in high, p \in Top(all, k) PROVE FALSE
  <2>1. low \subseteq below(p) /\ IsFiniteSet(below(p))
    BY FS_Subset
  <2>2. Cardinality(low) <= Cardinality(below(p)) /\ Cardinality(below(p)) \in Nat
    BY <2>1, FS_Subset, FS_CardinalityType
  <2>3. Cardinality(below(p)) < k
    BY <1>2 DEF Top
  <2> HIDE DEF below
  <2> QED
    BY <1>0, <1>2, <2>2, <2>3
<1>3. Top(all, k) \subseteq all
  BY DEF Top
<1> HIDE DEF all
<1> QED
  BY <1>1, <1>2, <1>3 DEF all

-----------------------------------------------------------------------------
(* What a run has asked about.                                              *)

Below(low, high) == \A p \in low, q \in high : p < q
Unasked(rows) == \A p \in rows : asked[p] = 0
Confirmed(rows) == \A p \in rows : asked[p] > 0

(* Nothing is asked about before verify_live.                               *)
NoneAsked == run.phase = "resolve" => Unasked(Problems)

(* verify_live goes down the ranking: it has asked about every row it holds *)
(* and about none below them, and goes on only while the bench is short.    *)
GoingDown ==
  run.phase = "verify" =>
    /\ Confirmed(run.pool) /\ Unasked(run.todo) /\ Below(run.pool, run.todo)
    /\ run.todo # {} /\ Cardinality(run.pool) < Bench

(* Only rows of the bench were asked about, all of them when no request     *)
(* failed.                                                                  *)
BenchReady ==
  run.phase = "ready" =>
    /\ Unasked(run.pool \ Top(run.pool, Bench))
    /\ faults = MaxFaults => Confirmed(Top(run.pool, Bench))

(* A row of the pool asked about before is checked, in the batch in flight, *)
(* or the checks went blind: and then there is no other batch.              *)
OnTheRecord ==
  run.phase = "window" =>
    /\ ~reveal.blind => Unasked((run.pool \ reveal.checked) \ flight.rows)
    /\ reveal.blind => flight = NoBatch
    /\ flight.state \in {"asked", "raised"} => flight.got = {}

Shapes ==
  /\ asked \in [Problems -> Nat] /\ faults \in 0..MaxFaults
  /\ run.todo \subseteq Problems /\ run.pool \subseteq Problems
  /\ mirror.rows \subseteq Problems /\ DOMAIN mirror = {"rows", "ac", "age"}
  /\ DOMAIN flight = {"rows", "state", "got", "solved"}
  /\ DOMAIN reveal = {"depth", "checked", "blind"}

AskInv == Shapes /\ AskedOnce /\ NoneAsked /\ GoingDown /\ BenchReady /\ OnTheRecord

LEMMA InitAskInv == Init => AskInv
BY SuggestAssumption DEF Init, AskInv, Shapes, AskedOnce, NoneAsked, GoingDown, BenchReady,
  OnTheRecord, Unasked, NoMirror, NoBatch

\* Once each: what was asked about is untouched, the rows asked now are at one.
OnceEach(rows) ==
  /\ asked' \in [Problems -> Nat] /\ AskedOnce'
  /\ \A p \in Problems \ rows : asked'[p] = asked[p]
  /\ \A p \in rows : p \in Problems => asked'[p] = 1

LEMMA AskingOnce ==
  ASSUME NEW rows, asked \in [Problems -> Nat], AskedOnce, Unasked(rows), Ask(rows)
  PROVE  OnceEach(rows)
<1>1. asked' = [p \in Problems |-> IF p \in rows THEN Least(2, asked[p] + 1) ELSE asked[p]]
  BY DEF Ask
<1>2. ASSUME NEW p \in Problems, p \in rows PROVE asked'[p] = 1
  BY <1>1, <1>2 DEF Unasked, Least
<1>3. ASSUME NEW p \in Problems \ rows
      PROVE  asked'[p] = asked[p] /\ asked'[p] \in Nat /\ asked'[p] <= 1
  BY <1>1, <1>3 DEF AskedOnce
<1>4. \A p \in Problems : asked'[p] \in Nat /\ asked'[p] <= 1
  <2> TAKE p \in Problems
  <2>1. CASE p \in rows
    BY <1>2, <2>1
  <2>2. CASE p \notin rows
    BY <1>3, <2>2
  <2> QED
    BY <2>1, <2>2
<1>5. asked' \in [Problems -> Nat] /\ AskedOnce'
  BY <1>1, <1>4 DEF AskedOnce
<1> QED
  BY <1>2, <1>3, <1>5 DEF OnceEach

\* A fault, or none: the count never grows, and is full only after none.
LEMMA FaultsSpent ==
  ASSUME faults \in 0..MaxFaults, Works \/ Fail
  PROVE  faults' \in 0..MaxFaults /\ (faults' = MaxFaults => faults = MaxFaults /\ ~Fail)
BY SuggestAssumption DEF Works, Fail

LEMMA RankedAsks ==
  ASSUME AskInv, run.phase = "resolve", NEW pool, pool.rows \subseteq Problems, Ranked(pool),
         UNCHANGED <<asked, reveal, flight>>, mirror'.rows \subseteq Problems,
         DOMAIN mirror' = {"rows", "ac", "age"}, faults' \in 0..MaxFaults
  PROVE  AskInv'
<1> DEFINE rows == RankPool(pool)
<1>1. rows \subseteq Problems
  BY DEF RankPool
<1>2. run' = [phase |-> IF rows = {} THEN "ready" ELSE "verify", todo |-> rows, pool |-> {}]
  BY DEF Ranked
<1> HIDE DEF rows
<1>3. run'.todo = rows /\ run'.pool = {}
      /\ (run'.phase = "ready" \/ (run'.phase = "verify" /\ rows # {}))
  BY <1>2
<1>4. Cardinality({}) < Bench
  BY SuggestAssumption, FS_EmptySet
<1>5. Unasked(Problems)
  BY DEF AskInv, NoneAsked
<1>6. Shapes' /\ AskedOnce' /\ NoneAsked' /\ OnTheRecord'
  BY <1>1, <1>3 DEF AskInv, Shapes, AskedOnce, NoneAsked, OnTheRecord
<1>7. GoingDown'
  BY <1>1, <1>3, <1>4, <1>5 DEF GoingDown, Confirmed, Unasked, Below
<1>8. BenchReady'
  BY <1>3 DEF BenchReady, Unasked, Confirmed, Top
<1> QED
  BY <1>6, <1>7, <1>8 DEF AskInv

\* One batch, whatever was answered of it: what is confirmed grows from the top.
BatchFrom(pool, todo, batch, kept, left) ==
  /\ batch \subseteq todo /\ batch # {} /\ kept \subseteq pool \cup batch
  /\ left = todo \ batch /\ Cardinality(kept) \in Nat /\ Cardinality(kept) <= Bench
  /\ Below(kept, left) /\ kept \cap left = {}

LEMMA BatchGoesDown ==
  ASSUME NEW pool, NEW todo, pool \subseteq Problems, todo \subseteq Problems, todo # {},
         Below(pool, todo), Cardinality(pool) < Bench, NEW solvedNow, Disjoint(todo, pool)
  PROVE  LET batch == Top(todo, Bench - Cardinality(pool))
         IN BatchFrom(pool, todo, batch, pool \cup (batch \ solvedNow), todo \ batch)
<1> DEFINE n == Bench - Cardinality(pool)
           batch == Top(todo, n)
           kept == pool \cup (batch \ solvedNow)
           left == todo \ batch
<1>1. IsFiniteSet(pool) /\ IsFiniteSet(todo) /\ pool \subseteq Nat /\ todo \subseteq Nat
  BY SuggestAssumption, FS_Subset
<1>2. Cardinality(pool) \in Nat
  BY <1>1, FS_CardinalityType
<1>3. n \in Nat \ {0}
  BY <1>2, SuggestAssumption
<1> HIDE DEF n
<1>4. /\ IsFiniteSet(batch) /\ batch \subseteq todo
      /\ Cardinality(batch) \in Nat /\ Cardinality(batch) <= n
  BY <1>1, <1>3, HeadIsShort
<1>5. batch # {}
  BY <1>1, <1>3, HeadHasTheFirst
<1>6. Below(batch, left)
  <2>1. ASSUME NEW p \in batch, NEW q \in left PROVE p < q
    BY <1>1, <1>3, HeadIsLow
  <2> QED
    BY <2>1 DEF Below
<1> HIDE DEF batch
<1>7. Below(kept, left)
  BY <1>4, <1>6 DEF Below
<1>8. Cardinality(kept) \in Nat /\ Cardinality(kept) <= Bench
  <2> DEFINE more == batch \ solvedNow
  <2>1. IsFiniteSet(more) /\ Cardinality(more) <= Cardinality(batch)
    BY <1>4, FS_Subset
  <2>2. Cardinality(more) \in Nat
    BY <2>1, FS_CardinalityType
  <2>3. pool \cap more = {}
    BY <1>4 DEF Disjoint
  <2> HIDE DEF more
  <2>4. Cardinality(pool \cup more) = Cardinality(pool) + Cardinality(more) - Cardinality(pool \cap more)
    BY <1>1, <2>1, FS_Union
  <2>5. Cardinality(pool \cap more) = 0
    BY <2>3, FS_EmptySet
  <2>6. Cardinality(pool \cup more) = Cardinality(pool) + Cardinality(more)
    BY <1>2, <2>2, <2>4, <2>5
  <2>7. Cardinality(pool) + n = Bench
    BY <1>2, SuggestAssumption DEF n
  <2>8. Cardinality(pool) + Cardinality(more) <= Bench
    BY <1>2, <1>3, <1>4, <2>1, <2>2, <2>7
  <2>9. Cardinality(pool) + Cardinality(more) \in Nat
    BY <1>2, <2>2
  <2> QED
    BY <2>6, <2>8, <2>9 DEF more
<1>9. kept \cap left = {}
  BY <1>4 DEF Disjoint
<1> QED
  BY <1>4, <1>5, <1>7, <1>8, <1>9 DEF BatchFrom, batch, n

LEMMA VerifyAsks ==
  ASSUME HInv, AskInv, VerifyBatch
  PROVE  AskInv'
<1> DEFINE batch == Top(run.todo, Bench - Cardinality(run.pool))
<1>1. PICK got \in SUBSET batch :
        LET kept == run.pool \cup (batch \ SolvedOf(got))
            left == run.todo \ batch
        IN /\ Answers(batch, got)
           /\ run' = IF Enough(kept, left, got)
                     THEN [phase |-> "ready", todo |-> {}, pool |-> kept \cup left]
                     ELSE [phase |-> "verify", todo |-> left, pool |-> kept]
           /\ Ask(batch)
  BY DEF VerifyBatch
<1> DEFINE kept == run.pool \cup (batch \ SolvedOf(got))
           left == run.todo \ batch
<1>2. run.phase = "verify" /\ UNCHANGED <<mirror, reveal, flight>>
  BY DEF VerifyBatch, windowVars
<1>3. /\ run.pool \subseteq Problems /\ run.todo \subseteq Problems /\ run.todo # {}
      /\ Below(run.pool, run.todo) /\ Cardinality(run.pool) < Bench
      /\ Disjoint(run.todo, run.pool) /\ Confirmed(run.pool) /\ Unasked(run.todo)
  BY <1>2 DEF AskInv, Shapes, GoingDown, HInv, Untold
<1>4. BatchFrom(run.pool, run.todo, batch, kept, left)
  BY <1>3, BatchGoesDown
<1>5. \/ /\ Enough(kept, left, got)
         /\ run' = [phase |-> "ready", todo |-> {}, pool |-> kept \cup left]
      \/ /\ ~Enough(kept, left, got)
         /\ run' = [phase |-> "verify", todo |-> left, pool |-> kept]
  BY <1>1
<1>6. Answers(batch, got) /\ Ask(batch)
  BY <1>1
<1> HIDE DEF batch, kept, left
<1>7. Unasked(batch)
  BY <1>3, <1>4 DEF BatchFrom, Unasked
<1>8. OnceEach(batch)
  BY <1>6, <1>7, AskingOnce DEF AskInv, Shapes
<1>9. faults' \in 0..MaxFaults /\ (faults' = MaxFaults => faults = MaxFaults /\ got = batch)
  <2>1. Works \/ Fail
    BY <1>6 DEF Answers
  <2>2. got = batch \/ Fail
    BY <1>6 DEF Answers
  <2> QED
    BY <2>1, <2>2, FaultsSpent DEF AskInv, Shapes
<1>10. kept \subseteq Problems /\ left \subseteq Problems /\ batch \subseteq Problems
  BY <1>3, <1>4 DEF BatchFrom
<1>11. (\A p \in left : asked'[p] = 0) /\ (\A p \in kept : asked'[p] > 0)
  <2>1. ASSUME NEW p \in left PROVE asked'[p] = 0
    <3>1. p \in Problems \ batch /\ p \in run.todo
      BY <1>10, <1>4 DEF BatchFrom
    <3> QED
      BY <3>1, <1>3, <1>8 DEF OnceEach, Unasked
  <2>2. ASSUME NEW p \in kept PROVE asked'[p] > 0
    <3>1. p \in Problems
      BY <1>10
    <3>2. CASE p \in batch
      BY <3>1, <3>2, <1>8 DEF OnceEach
    <3>3. CASE p \notin batch
      <4>1. p \in run.pool /\ asked'[p] = asked[p]
        BY <3>1, <3>3, <1>4, <1>8 DEF BatchFrom, OnceEach
      <4> QED
        BY <4>1, <1>3 DEF Confirmed
    <3> QED
      BY <3>2, <3>3
  <2> QED
    BY <2>1, <2>2
<1>12. CASE /\ Enough(kept, left, got)
            /\ run' = [phase |-> "ready", todo |-> {}, pool |-> kept \cup left]
  <2> DEFINE all == kept \cup left
  <2>1. run'.phase = "ready" /\ run'.todo = {} /\ run'.pool = all
    BY <1>12
  <2>2. IsFiniteSet(all) /\ all \subseteq Nat /\ all \subseteq Problems
    BY <1>10, SuggestAssumption, FS_Subset
  <2>3. /\ Cardinality(kept) <= Bench => kept \subseteq Top(all, Bench)
        /\ Cardinality(kept) >= Bench => Top(all, Bench) \subseteq kept
    BY <1>4, <2>2, HeadOfTwo, SuggestAssumption DEF BatchFrom, Below
  <2>4. kept \subseteq Top(all, Bench)
    BY <1>4, <2>3 DEF BatchFrom
  <2>5. ASSUME faults' = MaxFaults PROVE Top(all, Bench) \subseteq kept
    <3>1. got # {}
      BY <1>4, <1>9, <2>5 DEF BatchFrom
    <3>2. CASE left = {}
      BY <3>2 DEF Top
    <3>3. CASE Cardinality(kept) >= Bench
      BY <2>3, <3>3
    <3> QED
      BY <1>12, <3>1, <3>2, <3>3 DEF Enough
  <2> HIDE DEF all
  <2>6. all \ Top(all, Bench) \subseteq left
    BY <2>4 DEF all
  <2>7. Unasked(run.pool \ Top(run.pool, Bench))'
    BY <1>11, <2>1, <2>6 DEF Unasked
  <2>8. faults' = MaxFaults => Confirmed(Top(run.pool, Bench))'
    BY <1>11, <2>1, <2>5 DEF Confirmed
  <2>9. Shapes'
    BY <1>2, <1>8, <1>9, <2>1, <2>2 DEF AskInv, Shapes, OnceEach
  <2> QED
    BY <1>8, <2>1, <2>7, <2>8, <2>9
      DEF AskInv, NoneAsked, GoingDown, BenchReady, OnTheRecord, OnceEach
<1>13. CASE /\ ~Enough(kept, left, got)
            /\ run' = [phase |-> "verify", todo |-> left, pool |-> kept]
  <2>1. run'.phase = "verify" /\ run'.todo = left /\ run'.pool = kept
    BY <1>13
  <2>2. left # {} /\ ~(Cardinality(kept) >= Bench)
    BY <1>13 DEF Enough
  <2>3. Cardinality(kept) < Bench /\ Below(kept, left)
    BY <1>4, <2>2, SuggestAssumption DEF BatchFrom
  <2>4. GoingDown'
    BY <1>11, <2>1, <2>2, <2>3 DEF GoingDown, Confirmed, Unasked, Below
  <2>5. Shapes'
    BY <1>2, <1>8, <1>9, <1>10, <2>1 DEF AskInv, Shapes, OnceEach
  <2> QED
    BY <1>8, <2>1, <2>4, <2>5 DEF AskInv, NoneAsked, BenchReady, OnTheRecord, OnceEach
<1> QED
  BY <1>5, <1>12, <1>13

\* A batch the window asks about: rows of the list not on the record.
LEMMA RequestIsNew ==
  ASSUME NEW rows, NEW r
  PROVE  /\ Request(rows, r).rows \subseteq rows \ r.checked
         /\ r.blind => Request(rows, r) = NoBatch
         /\ DOMAIN Request(rows, r) = {"rows", "state", "got", "solved"}
         /\ Request(rows, r).got = {}
<1> DEFINE unchecked == Top(rows, r.depth) \ r.checked
<1>1. Top(unchecked, Batch) \subseteq rows \ r.checked
  BY DEF Top
<1> HIDE DEF unchecked
<1>2. CASE r.blind \/ unchecked = {}
  BY <1>2 DEF Request, NoBatch, unchecked
<1>3. CASE ~(r.blind \/ unchecked = {})
  <2> DEFINE batch == Top(unchecked, Batch)
  <2>1. Request(rows, r) = [NoBatch EXCEPT !.rows = batch, !.state = "asked"]
    BY <1>3 DEF Request, unchecked
  <2> HIDE DEF batch
  <2> QED
    BY <1>1, <1>3, <2>1 DEF NoBatch, batch
<1> QED
  BY <1>2, <1>3

LEMMA OpenAsks ==
  ASSUME HInv, AskInv, OpenWindow
  PROVE  AskInv'
<1>1. run.phase = "ready" /\ UNCHANGED <<asked, faults, mirror>> /\ flight' = NoBatch
      /\ run' = [run EXCEPT !.phase = "window"]
      /\ reveal' = [depth |-> 0, checked |-> Top(run.pool, Bench), blind |-> FALSE]
  BY DEF OpenWindow
<1>2. run'.phase = "window" /\ run'.todo = run.todo /\ run'.pool = run.pool
  BY <1>1 DEF HInv
<1>3. /\ DOMAIN reveal' = {"depth", "checked", "blind"} /\ ~reveal'.blind
      /\ reveal'.checked = Top(run.pool, Bench)
      /\ DOMAIN flight' = {"rows", "state", "got", "solved"}
      /\ flight'.rows = {} /\ flight'.state = "none"
  BY <1>1 DEF NoBatch
<1>4. Unasked(run.pool \ Top(run.pool, Bench))
  BY <1>1 DEF AskInv, BenchReady
<1>5. Unasked((run.pool \ reveal.checked) \ flight.rows)'
  BY <1>1, <1>2, <1>3, <1>4 DEF Unasked
<1> QED
  BY <1>1, <1>2, <1>3, <1>5
    DEF AskInv, Shapes, AskedOnce, NoneAsked, GoingDown, BenchReady, OnTheRecord

LEMMA ScrollAsks ==
  ASSUME HInv, AskInv, Scroll
  PROVE  AskInv'
<1>1. /\ run.phase = "window" /\ UNCHANGED <<run, faults, mirror, model>>
      /\ \E d : reveal' = [reveal EXCEPT !.depth = d]
      /\ \/ flight = NoBatch /\ flight' = Request(model, reveal') /\ Ask(flight'.rows)
         \/ UNCHANGED <<flight, asked>>
  BY DEF Scroll
<1>2. reveal'.checked = reveal.checked /\ reveal'.blind = reveal.blind
      /\ DOMAIN reveal' = DOMAIN reveal
  BY <1>1 DEF AskInv, Shapes
<1>3. CASE UNCHANGED <<flight, asked>>
  BY <1>1, <1>2, <1>3
    DEF AskInv, Shapes, AskedOnce, NoneAsked, GoingDown, BenchReady, OnTheRecord, Unasked
<1>4. CASE flight = NoBatch /\ flight' = Request(model, reveal') /\ Ask(flight'.rows)
  <2>1. /\ flight'.rows \subseteq model \ reveal.checked /\ flight'.got = {}
        /\ DOMAIN flight' = {"rows", "state", "got", "solved"}
        /\ reveal.blind => flight' = NoBatch
    BY <1>2, <1>4, RequestIsNew
  <2>2. flight.rows = {} /\ model \subseteq run.pool /\ run.pool \subseteq Problems
    BY <1>1, <1>4 DEF NoBatch, HInv, Lists, AskInv, Shapes
  <2>3. Unasked(flight'.rows)
    <3>1. CASE reveal.blind
      BY <2>1, <3>1 DEF NoBatch, Unasked
    <3>2. CASE ~reveal.blind
      BY <1>1, <2>1, <2>2, <3>2 DEF AskInv, OnTheRecord, Unasked
    <3> QED
      BY <3>1, <3>2
  <2>4. OnceEach(flight'.rows)
    BY <1>4, <2>3, AskingOnce DEF AskInv, Shapes
  <2>5. ~reveal.blind => Unasked((run.pool \ reveal.checked) \ flight.rows)'
    BY <1>1, <1>2, <2>2, <2>4 DEF AskInv, OnTheRecord, Unasked, OnceEach
  <2> QED
    BY <1>1, <1>2, <2>1, <2>4, <2>5
      DEF AskInv, Shapes, NoneAsked, GoingDown, BenchReady, OnTheRecord, OnceEach
<1> QED
  BY <1>1, <1>3, <1>4

LEMMA BatchRuns ==
  ASSUME AskInv, RunBatch
  PROVE  AskInv'
<1>1. run.phase = "window" /\ flight.state = "asked" /\ UNCHANGED <<mirror, run, reveal, asked>>
  BY DEF RunBatch
<1>2. faults' \in 0..MaxFaults
  <2>1. Works \/ Fail
    BY DEF RunBatch, Answers
  <2> QED
    BY <2>1, FaultsSpent DEF AskInv, Shapes
<1>3. /\ DOMAIN flight' = {"rows", "state", "got", "solved"} /\ flight'.rows = flight.rows
      /\ flight'.state \in {"asked", "raised"} => flight'.got = {}
  BY <1>1 DEF RunBatch, AskInv, Shapes, OnTheRecord
<1>4. ~reveal.blind
  BY <1>1 DEF AskInv, OnTheRecord, NoBatch
<1> QED
  BY <1>1, <1>2, <1>3, <1>4
    DEF AskInv, Shapes, AskedOnce, NoneAsked, GoingDown, BenchReady, OnTheRecord, Unasked

LEMMA DrainAsks ==
  ASSUME HInv, AskInv, DrainReveal
  PROVE  AskInv'
<1>1. /\ run.phase = "window" /\ flight.state \in {"answered", "raised"}
      /\ UNCHANGED <<mirror, faults>>
      /\ reveal' = [reveal EXCEPT !.checked = IF flight.state = "raised" THEN @ ELSE Checked,
                                  !.blind = flight.got = {}]
      /\ run' = [run EXCEPT !.pool = run.pool \ flight.solved]
      /\ flight' = Request(model', reveal') /\ Ask(flight'.rows)
  BY DEF DrainReveal, PoolAfter
<1>2. /\ run'.phase = "window" /\ run'.todo = run.todo /\ run'.pool = run.pool \ flight.solved
      /\ run'.pool \subseteq Problems
  BY <1>1 DEF HInv, AskInv, Shapes
<1>3. /\ DOMAIN reveal' = DOMAIN reveal /\ reveal'.blind = (flight.got = {})
      /\ reveal'.checked = IF flight.state = "raised" THEN reveal.checked ELSE Checked
  BY <1>1 DEF AskInv, Shapes
<1>4. flight.state = "raised" => reveal'.blind
  BY <1>1, <1>3 DEF AskInv, OnTheRecord
<1>5. ~reveal'.blind => reveal'.checked = reveal.checked \cup flight.rows
  BY <1>1, <1>3, <1>4 DEF Checked
<1>6. ~reveal.blind
  BY <1>1 DEF AskInv, OnTheRecord, NoBatch
<1>7. model' \subseteq run'.pool
  BY <1>2, StepWindow DEF HInv, Lists
<1>8. /\ flight'.rows \subseteq model' \ reveal'.checked /\ flight'.got = {}
      /\ DOMAIN flight' = {"rows", "state", "got", "solved"}
      /\ reveal'.blind => flight' = NoBatch
  <2>1. flight' = Request(model', reveal')
    BY <1>1
  <2> QED
    BY <2>1, RequestIsNew
<1>9. Unasked(flight'.rows)
  <2>1. CASE reveal'.blind
    BY <1>8, <2>1 DEF NoBatch, Unasked
  <2>2. CASE ~reveal'.blind
    BY <1>1, <1>2, <1>5, <1>6, <1>7, <1>8, <2>2 DEF AskInv, OnTheRecord, Unasked
  <2> QED
    BY <2>1, <2>2
<1>10. OnceEach(flight'.rows)
  BY <1>1, <1>9, AskingOnce DEF AskInv, Shapes
<1>11. ~reveal'.blind => Unasked((run.pool \ reveal.checked) \ flight.rows)'
  BY <1>1, <1>2, <1>5, <1>6, <1>10 DEF AskInv, OnTheRecord, Unasked, OnceEach
<1>12. Shapes'
  BY <1>1, <1>2, <1>3, <1>8, <1>10 DEF AskInv, Shapes, OnceEach
<1> QED
  BY <1>2, <1>8, <1>10, <1>11, <1>12
    DEF AskInv, NoneAsked, GoingDown, BenchReady, OnTheRecord, OnceEach

LEMMA StepAskInv == HInv /\ AskInv /\ [Next]_vars => AskInv'
<1> SUFFICES ASSUME HInv, AskInv, [Next]_vars PROVE AskInv'
  OBVIOUS
<1> USE DEF Shapes
<1>1. CASE UNCHANGED vars
  BY <1>1 DEF AskInv, AskedOnce, NoneAsked, GoingDown, BenchReady, OnTheRecord,
    Unasked, Confirmed, Below, Top, vars, windowVars
<1>2. CASE Expire \/ \E p \in Problems \ ac : Solve(p)
  <2>1. UNCHANGED <<run, mirror, asked, reveal, flight>> /\ (UNCHANGED faults \/ Fail)
    BY <1>2 DEF Expire, Solve, windowVars
  <2>2. faults' \in 0..MaxFaults /\ (faults' = MaxFaults => faults = MaxFaults)
    BY <2>1, FaultsSpent DEF AskInv, Works
  <2> QED
    BY <2>1, <2>2 DEF AskInv, AskedOnce, NoneAsked, GoingDown, BenchReady, OnTheRecord,
      Unasked, Confirmed, Below, Top
<1>3. CASE Age
  <2>1. UNCHANGED <<run, asked, reveal, flight>> /\ (Works \/ Fail) /\ run.phase = "idle"
        /\ mirror'.rows = mirror.rows /\ DOMAIN mirror' = DOMAIN mirror
    BY <1>3 DEF Age, windowVars, AskInv
  <2>2. faults' \in 0..MaxFaults
    BY <2>1, FaultsSpent DEF AskInv
  <2> QED
    BY <2>1, <2>2 DEF AskInv, AskedOnce, NoneAsked, GoingDown, BenchReady, OnTheRecord
<1>4. CASE Open \/ Close
  <2>1. /\ asked' = [p \in Problems |-> 0] /\ UNCHANGED mirror /\ (Works \/ Fail)
        /\ run'.phase \in {"idle", "resolve"} /\ run'.todo = {} /\ run'.pool = {}
        /\ DOMAIN flight' = {"rows", "state", "got", "solved"}
        /\ DOMAIN reveal' = {"depth", "checked", "blind"}
    BY <1>4 DEF Open, Close, windowVars, AskInv, NoBatch, Works
  <2>2. faults' \in 0..MaxFaults
    BY <2>1, FaultsSpent DEF AskInv
  <2> QED
    BY <2>1, <2>2 DEF AskInv, AskedOnce, NoneAsked, GoingDown, BenchReady, OnTheRecord, Unasked
<1>5. CASE FromMirror \/ FallBack
  <2>1. /\ run.phase = "resolve" /\ Ranked(mirror) /\ UNCHANGED <<asked, reveal, flight, mirror>>
        /\ (Works \/ Fail)
    BY <1>5 DEF FromMirror, FallBack, windowVars, Works
  <2>2. faults' \in 0..MaxFaults
    BY <2>1, FaultsSpent DEF AskInv
  <2> QED
    BY <2>1, <2>2, RankedAsks DEF AskInv
<1>6. CASE Download
  <2>1. PICK got \in (SUBSET Problems) \ {{}} : Ranked(Parsed(got)) /\ WriteCache(Parsed(got))
    BY <1>6 DEF Download
  <2>2. run.phase = "resolve" /\ UNCHANGED <<asked, reveal, flight>>
    BY <1>6 DEF Download, windowVars
  <2>3. Parsed(got).rows \subseteq Problems /\ DOMAIN Parsed(got) = {"rows", "ac", "age"}
    BY DEF Parsed
  <2>4. mirror'.rows \subseteq Problems /\ DOMAIN mirror' = {"rows", "ac", "age"} /\ (Works \/ Fail)
    BY <2>1, <2>3 DEF WriteCache, AskInv
  <2>5. faults' \in 0..MaxFaults
    BY <2>4, FaultsSpent DEF AskInv
  <2> QED
    BY <2>1, <2>2, <2>3, <2>4, <2>5, RankedAsks
<1>7. CASE OpenWindow
  BY <1>7, OpenAsks
<1>8. CASE Poll
  <2>1. UNCHANGED <<run, mirror, asked, reveal, flight>> /\ (Works \/ Fail) /\ run.phase = "window"
    BY <1>8 DEF Poll
  <2>2. faults' \in 0..MaxFaults
    BY <2>1, FaultsSpent DEF AskInv
  <2> QED
    BY <2>1, <2>2 DEF AskInv, AskedOnce, NoneAsked, GoingDown, BenchReady, OnTheRecord, Unasked
<1> QED
  BY <1>1, <1>2, <1>3, <1>4, <1>5, <1>6, <1>7, <1>8, VerifyAsks, ScrollAsks, BatchRuns, DrainAsks
    DEF Next, Resolve, Reveal

(* A run asks LeetCode about a problem once, whatever is answered, however  *)
(* batches end and rows move (verify_live, _request_reveal_check).          *)
THEOREM NothingIsAskedTwice == Spec => []AskedOnce
<1>1. AskInv => AskedOnce
  BY DEF AskInv
<1> QED
  BY InitHInv, StepHInv, InitAskInv, StepAskInv, <1>1, PTL DEF Spec

(* Whatever was dropped on the way, the rows the bench opens with were all  *)
(* asked about when every request was answered (verify_live's backfill).    *)
THEOREM TheBenchIsConfirmed == Spec => []BenchIsConfirmed
<1>1. AskInv => BenchIsConfirmed
  BY DEF AskInv, BenchReady, BenchIsConfirmed, Confirmed
<1> QED
  BY InitHInv, StepHInv, InitAskInv, StepAskInv, <1>1, PTL DEF Spec

=============================================================================
