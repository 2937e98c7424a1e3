--------------------------- MODULE GateRules_proofs ---------------------------
(***************************************************************************)
(* What the operators of GateRules keep: every entry the code mints is     *)
(* well formed, a ledger it is added to stays a ledger, and what a charge, *)
(* a credit or a lost row does to the sums the verdict is made of.         *)
(***************************************************************************)
EXTENDS GateRules, FiniteSetTheorems, TLAPS

(* Every day of every era has a price (_daycost.day_cost).                  *)
LEMMA AnyDayHasAPrice ==
  ASSUME NEW d \in Int
  PROVE  DayCost(d) \in Nat \ {0}
<1> USE CalendarAssumption DEF CalendarAssumption
<1>1. Weekday(d) \in 0..6
  BY DEF Weekday, Days
<1>2. ASSUME NEW w \in 0..6
      PROVE  /\ OriginalCosts[w + 1] \in Nat \ {0}
             /\ InterimCosts[w + 1] \in Nat \ {0}
             /\ CurrentCosts[w + 1] \in Nat \ {0}
  <2>1. w = 0 \/ w = 1 \/ w = 2 \/ w = 3 \/ w = 4 \/ w = 5 \/ w = 6
    BY <1>2
  <2> QED
    BY <2>1 DEF OriginalCosts, InterimCosts, CurrentCosts
<1> QED
  BY <1>1, <1>2 DEF DayCost, PricingFor

LEMMA DayCostIsPositive ==
  ASSUME NEW d \in Days
  PROVE  DayCost(d) \in Nat \ {0}
BY AnyDayHasAPrice, CalendarAssumption DEF Days, CalendarAssumption

(* append keeps one entry per id (_ledger_io.append).                       *)
LEMMA AppendIsLedger ==
  ASSUME NEW L, NEW new, IsLedger(L), IsLedger(new)
  PROVE  IsLedger(Append(L, new))
BY DEF IsLedger, Append, Has

LEMMA EmptyIsLedger == IsLedger({})
BY DEF IsLedger

LEMMA SubsetIsLedger ==
  ASSUME NEW L, NEW K, K \subseteq L, IsLedger(L)
  PROVE  IsLedger(K)
BY DEF IsLedger

(* A harvest mints one credit per submission (harvest, credit_entry).       *)
LEMMA FreshIsLedger ==
  ASSUME NEW L, NEW feed, feed \subseteq Subs, NEW d \in Days, NEW key \in BOOLEAN
  PROVE  IsLedger(Fresh(L, feed, d, key))
<1> USE WorldAssumption DEF WorldAssumption
<1>1. ASSUME NEW s \in Subs PROVE IsEntry(CreditEntry(s, d, key))
  BY DEF IsEntry, CreditEntry
<1>2. ASSUME NEW s \in Subs, NEW t \in Subs, CreditEntry(s, d, key).id = CreditEntry(t, d, key).id
      PROVE  s = t
  BY <1>2 DEF CreditEntry
<1> QED
  BY <1>1, <1>2 DEF IsLedger, Fresh

(* Seeding writes a marker per submission and one for itself (seed_ledger). *)
LEMMA SeedMarkersAreLedger ==
  ASSUME NEW feed, feed \subseteq Subs, NEW d \in Days, NEW key \in BOOLEAN
  PROVE  IsLedger(SeedMarkers(feed, d, key))
<1> USE WorldAssumption DEF WorldAssumption
<1>1. ASSUME NEW s \in Subs PROVE IsEntry(SeenEntry(s, d, key))
  BY DEF IsEntry, SeenEntry
<1>2. IsEntry(BootstrapEntry(d, key))
  BY DEF IsEntry, BootstrapEntry
<1>3. ASSUME NEW s \in Subs, NEW t \in Subs, SeenEntry(s, d, key).id = SeenEntry(t, d, key).id
      PROVE  s = t
  BY <1>3 DEF SeenEntry
<1>4. ASSUME NEW s \in Subs PROVE SeenEntry(s, d, key).id # BootstrapEntry(d, key).id
  BY DEF SeenEntry, BootstrapEntry
<1> QED
  BY <1>1, <1>2, <1>3, <1>4 DEF IsLedger, SeedMarkers

(* The charge of a day is well formed and added at most once: a verdict and *)
(* settle_day both look for it first (decide, settle_day).                  *)
LEMMA ChargeIsEntry ==
  ASSUME NEW d \in Days, NEW source, NEW surcharge \in Nat, NEW key \in BOOLEAN
  PROVE  IsEntry(ChargeEntry(d, source, surcharge, key))
<1>1. DayCost(d) + surcharge \in Nat
  BY DayCostIsPositive
<1> QED
  BY <1>1, WorldAssumption DEF WorldAssumption, IsEntry, ChargeEntry

LEMMA DecideKeepsLedger ==
  ASSUME NEW L, IsLedger(L), NEW ok, NEW d \in Days, NEW pools, NEW rows, NEW key \in BOOLEAN
  PROVE  IsLedger(L \cup DecideCharge(L, ok, d, pools, rows, key))
<1> DEFINE s == SurchargeOn(L, ok, d, OffDays(pools))
           e == ChargeEntry(d, "leetcode", s, key)
<1>1. CASE DecideState(L, ok, d, pools, rows) = "charged-now"
  <2>1. ~Has(L, <<"charge", d>>)
    BY <1>1 DEF DecideState
  <2>2. s \in Nat
    BY DEF SurchargeOn
  <2>3. IsEntry(e) /\ e.id = <<"charge", d>>
    BY <2>2, ChargeIsEntry DEF ChargeEntry
  <2> HIDE DEF e
  <2>4. IsLedger(L \cup {e})
    BY <2>1, <2>3 DEF IsLedger, Has
  <2> QED
    BY <1>1, <2>4 DEF DecideCharge, e
<1>2. CASE DecideState(L, ok, d, pools, rows) # "charged-now"
  BY <1>2 DEF DecideCharge
<1> QED
  BY <1>1, <1>2

LEMMA SettleKeepsLedger ==
  ASSUME NEW L, IsLedger(L), NEW d \in Days, NEW source, NEW key \in BOOLEAN
  PROVE  IsLedger(L \cup SettleEntries(L, d, source, key))
<1> DEFINE e == ChargeEntry(d, source, 0, key)
<1>1. IsEntry(e) /\ e.id = <<"charge", d>>
  BY ChargeIsEntry DEF ChargeEntry
<1> HIDE DEF e
<1>2. CASE Has(L, <<"charge", d>>)
  BY <1>2 DEF SettleEntries
<1>3. CASE ~Has(L, <<"charge", d>>)
  <2>1. IsLedger(L \cup {e})
    BY <1>1, <1>3 DEF IsLedger, Has
  <2> QED
    BY <1>3, <2>1 DEF SettleEntries, e
<1> QED
  BY <1>2, <1>3
-----------------------------------------------------------------------------
(* Sums.  Every balance and every debt of the gate is a sum over a set of   *)
(* ledger rows or of days (SumFunction).  The induction these facts need is *)
(* made first-order: a non-empty family of subsets of a finite set has a    *)
(* smallest member, so a claim that fails on some subset fails on one whose *)
(* proper subsets all satisfy it.                                           *)
Smallest(T, x) == x \in T /\ \A y \in T : y \subseteq x => y = x

LEMMA SmallestSet ==
  ASSUME NEW S, IsFiniteSet(S), NEW T, T \subseteq SUBSET S, T # {}
  PROVE  \E x : Smallest(T, x)
<1>1. T \subseteq FiniteSubsetsOf(S)
  BY FS_FiniteSubsetsOfFinite
<1>2. \E x \in T : \A y \in T : ~(<<y, x>> \in StrictSubsetOrdering(S))
  BY <1>1, FS_StrictSubsetOrderingWellFounded, WFMin
<1> QED
  BY <1>2 DEF StrictSubsetOrdering, Smallest

(* The same of a non-empty set of numbers up to a bound.                    *)
LEMMA SmallestNumber ==
  ASSUME NEW n \in Nat, NEW T \in SUBSET (0..n), T # {}
  PROVE  \E k \in T : \A j \in T : k <= j
<1> DEFINE below == {0..k : k \in T}
<1>1. below \subseteq SUBSET (0..n) /\ below # {}
  <2>1. \A k \in T : 0..k \in SUBSET (0..n)
    OBVIOUS
  <2>2. PICK k \in T : TRUE
    OBVIOUS
  <2>3. 0..k \in below
    OBVIOUS
  <2> QED
    BY <2>1, <2>3
<1>2. IsFiniteSet(0..n)
  BY FS_Interval
<1> HIDE DEF below
<1>3. PICK x : Smallest(below, x)
  BY <1>1, <1>2, SmallestSet
<1>4. PICK k \in T : x = 0..k
  BY <1>3 DEF below, Smallest
<1>5. ASSUME NEW j \in T, j < k PROVE FALSE
  <2>1. 0..j \in below /\ 0..j \subseteq x /\ k \in x /\ k \notin 0..j
    BY <1>4, <1>5 DEF below
  <2> QED
    BY <1>3, <2>1 DEF Smallest
<1> QED
  BY <1>5

(* The recursion behind SumFunctionOnSet: the number of one element, chosen *)
(* by CHOOSE, and the sum of the others.                                    *)
Chosen(s) == CHOOSE x \in s : TRUE
SumStep(f, g, s) == IF s = {} THEN 0 ELSE f[Chosen(s)] + g[s \ {Chosen(s)}]
Sums(f, g, D) == g = [s \in D |-> SumStep(f, g, s)]

(* SumFunctionOnSet is that recursion over all subsets of the set.          *)
LEMMA SumIs ==
  ASSUME NEW f, NEW S
  PROVE  SumFunctionOnSet(f, S) = (CHOOSE g : Sums(f, g, SUBSET S))[S]
BY DEF SumFunctionOnSet, FoldFunctionOnSet, MapThenFoldSet, Sums, SumStep, Chosen

(* The recursion has a solution, built up by the size of the subsets.       *)
LEMMA SumsExist ==
  ASSUME NEW f, NEW S, IsFiniteSet(S)
  PROVE  \E g : Sums(f, g, SUBSET S)
<1> DEFINE D(n) == {s \in SUBSET S : Cardinality(s) <= n}
           N == Cardinality(S)
           bad == {n \in 0..N : ~\E g : Sums(f, g, D(n))}
<1>1. N \in Nat
  BY FS_CardinalityType
<1>1a. \A s \in SUBSET S : IsFiniteSet(s) /\ Cardinality(s) \in Nat /\ Cardinality(s) <= N
  BY FS_Subset, FS_CardinalityType
<1>1b. ASSUME NEW s \in SUBSET S, s # {}
       PROVE  /\ Chosen(s) \in s
              /\ s \ {Chosen(s)} \in SUBSET S
              /\ Cardinality(s \ {Chosen(s)}) = Cardinality(s) - 1
              /\ Cardinality(s) # 0
  <2>1. Chosen(s) \in s
    BY <1>1b DEF Chosen
  <2> QED
    BY <1>1a, <1>1b, <2>1, FS_RemoveElement, FS_EmptySet
<1>2. ASSUME bad # {} PROVE FALSE
  <2>1. bad \in SUBSET (0..N)
    OBVIOUS
  <2> HIDE DEF bad
  <2>2. PICK n \in bad : \A m \in bad : n <= m
    BY <1>1, <1>2, <2>1, SmallestNumber
  <2>3. CASE n = 0
    <3> DEFINE g == [s \in D(0) |-> 0]
    <3>1. \A s \in D(0) : s = {}
      BY <1>1a, FS_EmptySet
    <3>2. Sums(f, g, D(0))
      BY <3>1 DEF Sums, SumStep
    <3> QED
      BY <2>3, <3>2 DEF bad
  <2>4. CASE n # 0
    <3>1. n - 1 \in 0..N /\ n \in Nat /\ n - 1 \in Nat
      BY <1>1, <2>1, <2>4
    <3>2. PICK g : Sums(f, g, D(n - 1))
      <4>1. n - 1 \notin bad
        BY <2>2, <3>1
      <4> QED
        BY <3>1, <4>1 DEF bad
    <3> DEFINE h == [s \in D(n) |-> SumStep(f, g, s)]
    <3>3. \A s \in D(n - 1) : s \in D(n) /\ h[s] = g[s]
      <4>1. D(n - 1) \subseteq D(n)
        BY <1>1a, <3>1
      <4>2. \A s \in D(n) : h[s] = SumStep(f, g, s)
        OBVIOUS
      <4>3. \A s \in D(n - 1) : g[s] = SumStep(f, g, s)
        BY <3>2 DEF Sums
      <4> HIDE DEF h, D
      <4> QED
        BY <4>1, <4>2, <4>3
    <3>4. \A s \in D(n) : SumStep(f, g, s) = SumStep(f, h, s)
      <4> TAKE s \in D(n)
      <4>1. CASE s = {}
        BY <4>1 DEF SumStep
      <4>2. CASE s # {}
        <5>1. s \ {Chosen(s)} \in D(n - 1)
          BY <1>1a, <1>1b, <3>1, <4>2
        <5>2. h[s \ {Chosen(s)}] = g[s \ {Chosen(s)}]
          BY <3>3, <5>1
        <5> HIDE DEF h
        <5> QED
          BY <4>2, <5>2 DEF SumStep
      <4> QED
        BY <4>1, <4>2
    <3>5. Sums(f, h, D(n))
      BY <3>4 DEF Sums
    <3> QED
      BY <3>5 DEF bad
  <2> QED
    BY <2>3, <2>4
<1>3. \E g : Sums(f, g, D(N))
  <2>1. N \in 0..N /\ N \notin bad
    BY <1>1, <1>2
  <2> QED
    BY <2>1
<1>4. D(N) = SUBSET S
  BY <1>1a
<1> QED
  BY <1>3, <1>4

Agree(g, h, T) == \A s \in SUBSET T : h[s] = g[s]

(* ... and only one: over a subset it is the same.                          *)
LEMMA SumsAgree ==
  ASSUME NEW f, NEW g, NEW S, IsFiniteSet(S), Sums(f, g, SUBSET S),
         NEW h, NEW T \in SUBSET S, Sums(f, h, SUBSET T)
  PROVE  Agree(g, h, T)
<1> DEFINE bad == {s \in SUBSET T : h[s] # g[s]}
<1>1. ASSUME bad # {} PROVE FALSE
  <2>0. bad \subseteq SUBSET T /\ IsFiniteSet(T)
    BY FS_Subset
  <2> HIDE DEF bad
  <2>1. PICK s : Smallest(bad, s)
    BY <1>1, <2>0, SmallestSet
  <2> USE DEF bad
  <2>1a. s \in SUBSET T /\ h[s] # g[s]
    BY <2>1 DEF Smallest
  <2>2. h[s] = SumStep(f, h, s) /\ g[s] = SumStep(f, g, s)
    BY <2>1a DEF Sums
  <2>3. CASE s = {}
    BY <2>1a, <2>2, <2>3 DEF SumStep
  <2>4. CASE s # {}
    <3>1. Chosen(s) \in s
      BY <2>4 DEF Chosen
    <3>2. s \ {Chosen(s)} \subseteq s /\ s \ {Chosen(s)} # s /\ s \ {Chosen(s)} \in SUBSET T
      BY <2>1a, <3>1
    <3>3. h[s \ {Chosen(s)}] = g[s \ {Chosen(s)}]
      BY <2>1, <3>2 DEF Smallest
    <3>4. SumStep(f, h, s) = SumStep(f, g, s)
      BY <3>3, <2>4 DEF SumStep
    <3> QED BY <2>1a, <2>2, <3>4
  <2> QED
    BY <2>3, <2>4
<1> QED
  BY <1>1 DEF Agree

(* What SumFunctionOnSet is on a finite set.                                *)
LEMMA SumUnfolds ==
  ASSUME NEW f, NEW S, IsFiniteSet(S)
  PROVE  SumFunctionOnSet(f, S) = IF S = {} THEN 0
           ELSE f[Chosen(S)] + SumFunctionOnSet(f, S \ {Chosen(S)})
<1> DEFINE R == S \ {Chosen(S)}
           G(T) == CHOOSE g : Sums(f, g, SUBSET T)
<1>1. R \in SUBSET S /\ IsFiniteSet(R)
  BY FS_Subset
<1> HIDE DEF R
<1>2. Sums(f, G(S), SUBSET S) /\ Sums(f, G(R), SUBSET R)
  BY <1>1, SumsExist
<1>3. SumFunctionOnSet(f, S) = G(S)[S] /\ SumFunctionOnSet(f, R) = G(R)[R]
  BY SumIs
<1> HIDE DEF G
<1>4. Agree(G(S), G(R), R)
  BY <1>1, <1>2, SumsAgree
<1>5. G(S)[S] = SumStep(f, G(S), S)
  BY <1>2 DEF Sums
<1> QED
  BY <1>3, <1>4, <1>5 DEF SumStep, R, Agree

(* T holds the empty set and, with a subset of S, that subset and one more  *)
(* element: every subset of a finite S is then in T.                        *)
Inductive(T, S) == {} \in T /\ \A s \in T, x \in S : x \notin s => s \cup {x} \in T

(* Induction over the subsets of a finite set.                              *)
LEMMA SetInduction ==
  ASSUME NEW S, IsFiniteSet(S), NEW T, Inductive(T, S)
  PROVE  S \in T
<1> DEFINE bad == {s \in SUBSET S : s \notin T}
<1>1. ASSUME bad # {} PROVE FALSE
  <2>1. bad \subseteq SUBSET S
    OBVIOUS
  <2> HIDE DEF bad
  <2>2. PICK s : Smallest(bad, s)
    BY <1>1, <2>1, SmallestSet
  <2>3. s \subseteq S /\ s \notin T
    BY <2>2 DEF bad, Smallest
  <2>4. PICK x \in s : TRUE
    BY <2>3 DEF Inductive
  <2> DEFINE r == s \ {x}
  <2>5. r \subseteq s /\ r # s /\ x \in S /\ x \notin r /\ r \cup {x} = s
    BY <2>3, <2>4
  <2> HIDE DEF r
  <2>6. r \in T
    BY <2>2, <2>3, <2>5 DEF Smallest, bad
  <2> QED
    BY <2>3, <2>5, <2>6 DEF Inductive
<1> QED
  BY <1>1

(* Nothing adds up to zero.                                                 *)
LEMMA SumEmpty ==
  ASSUME NEW f
  PROVE  SumFunctionOnSet(f, {}) = 0
BY SumUnfolds, FS_EmptySet

SumsToInt(f, S) == \A x \in S : f[x] \in Int

(* A sum is the number of any one element and the sum of the others: the    *)
(* order in which CHOOSE takes them does not matter.                        *)
LEMMA SumRemoves ==
  ASSUME NEW f, NEW S, IsFiniteSet(S), SumsToInt(f, S)
  PROVE  /\ SumFunctionOnSet(f, S) \in Int
         /\ \A x \in S : SumFunctionOnSet(f, S) = f[x] + SumFunctionOnSet(f, S \ {x})
<1> DEFINE sum(s) == SumFunctionOnSet(f, s)
           good(s) == /\ sum(s) \in Int
                      /\ \A x \in s : sum(s) = f[x] + sum(s \ {x})
           bad == {s \in SUBSET S : ~good(s)}
<1>1. ASSUME bad # {} PROVE FALSE
  <2>1. bad \subseteq SUBSET S
    OBVIOUS
  <2> HIDE DEF bad
  <2>2. PICK s : Smallest(bad, s)
    BY <1>1, <2>1, SmallestSet
  <2>3. s \subseteq S /\ IsFiniteSet(s) /\ ~good(s)
    BY <2>2, FS_Subset DEF bad, Smallest
  <2>4. \A r \in SUBSET s : r # s => good(r)
    BY <2>2, <2>3 DEF Smallest, bad
  <2> DEFINE y == Chosen(s)
  <2>5. CASE s = {}
    BY <2>3, <2>5, SumEmpty
  <2>6. CASE s # {}
    <3>1. y \in s
      BY <2>6 DEF Chosen
    <3>2. sum(s) = f[y] + sum(s \ {y})
      BY <2>3, <2>6, SumUnfolds
    <3> HIDE DEF sum, y
    <3>3. good(s \ {y})
      BY <2>4, <3>1
    <3>4. \A x \in s : f[x] \in Int
      BY <2>3 DEF SumsToInt
    <3>5. sum(s) \in Int
      BY <3>1, <3>2, <3>3, <3>4
    <3>6. ASSUME NEW x \in s PROVE sum(s) = f[x] + sum(s \ {x})
      <4>1. CASE x = y
        BY <3>2, <4>1
      <4>2. CASE x # y
        <5> DEFINE r == (s \ {y}) \ {x}
        <5>1. r = (s \ {x}) \ {y}
          OBVIOUS
        <5>2. sum(s \ {y}) = f[x] + sum(r)
          BY <3>3, <4>2
        <5>3. good(s \ {x})
          BY <2>4
        <5>4. sum(s \ {x}) = f[y] + sum(r)
          BY <3>1, <4>2, <5>1, <5>3
        <5>5. good(r)
          BY <2>4
        <5> HIDE DEF r
        <5> QED
          BY <3>1, <3>2, <3>4, <5>2, <5>4, <5>5
      <4> QED
        BY <4>1, <4>2
    <3> QED
      BY <2>3, <3>5, <3>6
  <2> QED
    BY <2>5, <2>6
<1> QED
  BY <1>1

(* One more element adds its number.                                        *)
LEMMA SumAdds ==
  ASSUME NEW f, NEW S, IsFiniteSet(S), SumsToInt(f, S), NEW x, x \notin S, f[x] \in Int
  PROVE  SumFunctionOnSet(f, S \cup {x}) = f[x] + SumFunctionOnSet(f, S)
<1> DEFINE U == S \cup {x}
<1>1. IsFiniteSet(U)
  BY FS_AddElement
<1>2. SumsToInt(f, U) /\ x \in U /\ U \ {x} = S
  BY DEF SumsToInt
<1> QED
  BY <1>1, <1>2, SumRemoves

SumsBelow(f, g, S) == SumsToInt(f, S) /\ SumsToInt(g, S) /\ \A x \in S : f[x] <= g[x]

(* Adding up smaller numbers gives no more.                                 *)
LEMMA SumOrder ==
  ASSUME NEW f, NEW g, NEW S, IsFiniteSet(S), SumsBelow(f, g, S)
  PROVE  SumFunctionOnSet(f, S) <= SumFunctionOnSet(g, S)
<1> DEFINE T == {s \in SUBSET S : SumFunctionOnSet(f, s) <= SumFunctionOnSet(g, s)}
<1>1. {} \in T
  BY SumEmpty
<1>2. ASSUME NEW s \in T, NEW x \in S, x \notin s PROVE s \cup {x} \in T
  <2>1. IsFiniteSet(s) /\ SumsToInt(f, s) /\ SumsToInt(g, s) /\ f[x] \in Int /\ g[x] \in Int
        /\ f[x] <= g[x]
    BY FS_Subset DEF SumsBelow, SumsToInt
  <2>2. /\ SumFunctionOnSet(f, s \cup {x}) = f[x] + SumFunctionOnSet(f, s)
        /\ SumFunctionOnSet(g, s \cup {x}) = g[x] + SumFunctionOnSet(g, s)
    BY <1>2, <2>1, SumAdds
  <2>3. SumFunctionOnSet(f, s) \in Int /\ SumFunctionOnSet(g, s) \in Int
    BY <2>1, SumRemoves
  <2>4. SumFunctionOnSet(f, s) <= SumFunctionOnSet(g, s) /\ s \cup {x} \in SUBSET S
    OBVIOUS
  <2> QED
    BY <2>1, <2>2, <2>3, <2>4
<1>3. Inductive(T, S)
  BY <1>1, <1>2 DEF Inductive
<1>4. S \in T
  BY <1>3, SetInduction
<1> QED
  BY <1>4

(* A sum only depends on the numbers that are added. *)
LEMMA SumSame ==
  ASSUME NEW f, NEW g, NEW S, IsFiniteSet(S), SumsToInt(f, S), \A x \in S : f[x] = g[x]
  PROVE  SumFunctionOnSet(f, S) = SumFunctionOnSet(g, S)
<1>1. SumsBelow(f, g, S) /\ SumsBelow(g, f, S) /\ SumsToInt(g, S)
  BY DEF SumsBelow, SumsToInt
<1>2. /\ SumFunctionOnSet(f, S) <= SumFunctionOnSet(g, S)
      /\ SumFunctionOnSet(g, S) <= SumFunctionOnSet(f, S)
      /\ SumFunctionOnSet(f, S) \in Int /\ SumFunctionOnSet(g, S) \in Int
  BY <1>1, SumOrder, SumRemoves
<1> QED
  BY <1>2

Apart(S, T) == \A x \in S : x \notin T

(* The sum over two sets apart is the sum of the two.                       *)
LEMMA SumJoins ==
  ASSUME NEW f, NEW S, NEW R, IsFiniteSet(S), IsFiniteSet(R), Apart(S, R),
         SumsToInt(f, S), SumsToInt(f, R)
  PROVE  SumFunctionOnSet(f, S \cup R) = SumFunctionOnSet(f, S) + SumFunctionOnSet(f, R)
<1> DEFINE T == {s \in SUBSET S :
                   SumFunctionOnSet(f, s \cup R) = SumFunctionOnSet(f, s) + SumFunctionOnSet(f, R)}
<1>0. SumFunctionOnSet(f, R) \in Int
  BY SumRemoves
<1>1. {} \in T
  <2>1. {} \cup R = R
    OBVIOUS
  <2> QED
    BY <1>0, <2>1, SumEmpty
<1>2. ASSUME NEW s \in T, NEW x \in S, x \notin s PROVE s \cup {x} \in T
  <2> DEFINE u == s \cup R
  <2>1. IsFiniteSet(s) /\ SumsToInt(f, s) /\ IsFiniteSet(u) /\ SumsToInt(f, u) /\ f[x] \in Int
        /\ x \notin u
    BY <1>2, FS_Subset, FS_Union DEF SumsToInt, Apart
  <2>2. (s \cup {x}) \cup R = u \cup {x}
    OBVIOUS
  <2>3. SumFunctionOnSet(f, u) = SumFunctionOnSet(f, s) + SumFunctionOnSet(f, R)
        /\ s \cup {x} \in SUBSET S
    OBVIOUS
  <2> HIDE DEF u
  <2>4. SumFunctionOnSet(f, u \cup {x}) = f[x] + SumFunctionOnSet(f, u)
        /\ SumFunctionOnSet(f, s \cup {x}) = f[x] + SumFunctionOnSet(f, s)
        /\ SumFunctionOnSet(f, s) \in Int
    BY <1>2, <2>1, SumAdds, SumRemoves
  <2>5. SumFunctionOnSet(f, (s \cup {x}) \cup R)
          = SumFunctionOnSet(f, s \cup {x}) + SumFunctionOnSet(f, R)
    <3>1. SumFunctionOnSet(f, u \cup {x})
            = SumFunctionOnSet(f, s \cup {x}) + SumFunctionOnSet(f, R)
      BY <1>0, <2>1, <2>3, <2>4
    <3> QED
      BY <2>2, <3>1
  <2> QED
    BY <2>3, <2>5
<1>3. Inductive(T, S)
  BY <1>1, <1>2 DEF Inductive
<1>4. S \in T
  BY <1>3, SetInduction
<1> QED
  BY <1>4

(* Zeros add up to zero.                                                    *)
LEMMA SumZero ==
  ASSUME NEW f, NEW S, IsFiniteSet(S), \A x \in S : f[x] = 0
  PROVE  SumFunctionOnSet(f, S) = 0
<1> DEFINE T == {s \in SUBSET S : SumFunctionOnSet(f, s) = 0}
<1>1. {} \in T
  BY SumEmpty
<1>2. ASSUME NEW s \in T, NEW x \in S, x \notin s PROVE s \cup {x} \in T
  <2>1. IsFiniteSet(s) /\ SumsToInt(f, s) /\ f[x] \in Int
    BY FS_Subset DEF SumsToInt
  <2>2. SumFunctionOnSet(f, s \cup {x}) = f[x] + SumFunctionOnSet(f, s)
    BY <1>2, <2>1, SumAdds
  <2>3. f[x] = 0 /\ SumFunctionOnSet(f, s) = 0 /\ s \cup {x} \in SUBSET S
    OBVIOUS
  <2> QED
    BY <2>2, <2>3
<1>3. Inductive(T, S)
  BY <1>1, <1>2 DEF Inductive
<1>4. S \in T
  BY <1>3, SetInduction
<1> QED
  BY <1>4

SumsToNat(f, S) == \A x \in S : f[x] \in Nat

(* A sum of numbers that are not negative is not negative.                  *)
LEMMA SumNat ==
  ASSUME NEW f, NEW S, IsFiniteSet(S), SumsToNat(f, S)
  PROVE  SumFunctionOnSet(f, S) \in Nat
<1> DEFINE zero == [x \in S |-> 0]
<1>1. SumsBelow(zero, f, S) /\ SumsToInt(f, S) /\ \A x \in S : zero[x] = 0
  BY DEF SumsToNat, SumsBelow, SumsToInt
<1> HIDE DEF zero
<1>2. /\ SumFunctionOnSet(zero, S) = 0
      /\ SumFunctionOnSet(zero, S) <= SumFunctionOnSet(f, S)
      /\ SumFunctionOnSet(f, S) \in Int
  BY <1>1, SumZero, SumOrder, SumRemoves
<1> QED
  BY <1>2

(* ... and does not shrink when elements come in.                           *)
LEMMA SumGrows ==
  ASSUME NEW f, NEW S, IsFiniteSet(S), SumsToNat(f, S), NEW R \in SUBSET S
  PROVE  SumFunctionOnSet(f, R) <= SumFunctionOnSet(f, S)
<1> DEFINE rest == S \ R
<1>1. /\ IsFiniteSet(R) /\ IsFiniteSet(rest) /\ Apart(R, rest) /\ R \cup rest = S
      /\ SumsToInt(f, R) /\ SumsToInt(f, rest) /\ SumsToNat(f, rest)
  BY FS_Subset DEF Apart, SumsToInt, SumsToNat
<1> HIDE DEF rest
<1>2. SumFunctionOnSet(f, R \cup rest) = SumFunctionOnSet(f, R) + SumFunctionOnSet(f, rest)
  BY <1>1, SumJoins
<1>3. SumFunctionOnSet(f, R) \in Int /\ SumFunctionOnSet(f, rest) \in Nat
  BY <1>1, SumNat, SumRemoves
<1>4. SumFunctionOnSet(f, S) = SumFunctionOnSet(f, R) + SumFunctionOnSet(f, rest)
  BY <1>1, <1>2
<1> QED
  BY <1>3, <1>4

(* Adding up sums is the sum of what is added up.                           *)
LEMMA SumPlus ==
  ASSUME NEW f, NEW g, NEW h, NEW S, IsFiniteSet(S), SumsToInt(f, S), SumsToInt(g, S),
         \A x \in S : h[x] = f[x] + g[x]
  PROVE  SumFunctionOnSet(h, S) = SumFunctionOnSet(f, S) + SumFunctionOnSet(g, S)
<1> DEFINE T == {s \in SUBSET S :
                   SumFunctionOnSet(h, s) = SumFunctionOnSet(f, s) + SumFunctionOnSet(g, s)}
<1>1. {} \in T
  BY SumEmpty
<1>2. ASSUME NEW s \in T, NEW x \in S, x \notin s PROVE s \cup {x} \in T
  <2>1. /\ IsFiniteSet(s) /\ SumsToInt(f, s) /\ SumsToInt(g, s) /\ SumsToInt(h, s)
        /\ f[x] \in Int /\ g[x] \in Int /\ h[x] = f[x] + g[x]
    BY FS_Subset DEF SumsToInt
  <2>2. /\ SumFunctionOnSet(f, s \cup {x}) = f[x] + SumFunctionOnSet(f, s)
        /\ SumFunctionOnSet(g, s \cup {x}) = g[x] + SumFunctionOnSet(g, s)
        /\ SumFunctionOnSet(h, s \cup {x}) = h[x] + SumFunctionOnSet(h, s)
    BY <1>2, <2>1, SumAdds
  <2>3. SumFunctionOnSet(f, s) \in Int /\ SumFunctionOnSet(g, s) \in Int
    BY <2>1, SumRemoves
  <2>4. /\ SumFunctionOnSet(h, s) = SumFunctionOnSet(f, s) + SumFunctionOnSet(g, s)
        /\ s \cup {x} \in SUBSET S
    OBVIOUS
  <2>5. SumFunctionOnSet(h, s \cup {x})
          = SumFunctionOnSet(f, s \cup {x}) + SumFunctionOnSet(g, s \cup {x})
    BY <2>1, <2>2, <2>3, <2>4
  <2> QED
    BY <2>4, <2>5
<1>3. Inductive(T, S)
  BY <1>1, <1>2 DEF Inductive
<1>4. S \in T
  BY <1>3, SetInduction
<1> QED
  BY <1>4

(* A multiple of a sum is the sum of the multiples.                         *)
LEMMA SumTimes ==
  ASSUME NEW f, NEW h, NEW n \in Nat, NEW S, IsFiniteSet(S), SumsToInt(f, S),
         \A x \in S : h[x] = n * f[x]
  PROVE  SumFunctionOnSet(h, S) = n * SumFunctionOnSet(f, S)
<1> DEFINE T == {s \in SUBSET S : SumFunctionOnSet(h, s) = n * SumFunctionOnSet(f, s)}
<1>1. {} \in T
  BY SumEmpty
<1>2. ASSUME NEW s \in T, NEW x \in S, x \notin s PROVE s \cup {x} \in T
  <2>1. /\ IsFiniteSet(s) /\ SumsToInt(f, s) /\ f[x] \in Int /\ h[x] = n * f[x] /\ h[x] \in Int
        /\ SumsToInt(h, s)
    BY FS_Subset DEF SumsToInt
  <2>2. /\ SumFunctionOnSet(f, s \cup {x}) = f[x] + SumFunctionOnSet(f, s)
        /\ SumFunctionOnSet(h, s \cup {x}) = h[x] + SumFunctionOnSet(h, s)
    BY <1>2, <2>1, SumAdds
  <2>3. SumFunctionOnSet(f, s) \in Int
    BY <2>1, SumRemoves
  <2>4. SumFunctionOnSet(h, s) = n * SumFunctionOnSet(f, s) /\ s \cup {x} \in SUBSET S
    OBVIOUS
  <2>5. n * (f[x] + SumFunctionOnSet(f, s)) = n * f[x] + n * SumFunctionOnSet(f, s)
    BY <2>1, <2>3
  <2>6. SumFunctionOnSet(h, s \cup {x}) = n * SumFunctionOnSet(f, s \cup {x})
    BY <2>1, <2>2, <2>3, <2>4, <2>5
  <2> QED
    BY <2>4, <2>6
<1>3. Inductive(T, S)
  BY <1>1, <1>2 DEF Inductive
<1>4. S \in T
  BY <1>3, SetInduction
<1> QED
  BY <1>4

ImageOf(m, S) == {m[x] : x \in S}
OneToOne(m, S) == \A x, y \in S : m[x] = m[y] => x = y

LEMMA ImageIsFinite ==
  ASSUME NEW m, NEW S, IsFiniteSet(S)
  PROVE  IsFiniteSet(ImageOf(m, S))
<1> DEFINE T == {s \in SUBSET S : IsFiniteSet(ImageOf(m, s))}
<1>1. {} \in T
  <2>1. ImageOf(m, {}) = {}
    BY DEF ImageOf
  <2> QED
    BY <2>1, FS_EmptySet
<1>2. ASSUME NEW s \in T, NEW x \in S, x \notin s PROVE s \cup {x} \in T
  <2>1. ImageOf(m, s \cup {x}) = ImageOf(m, s) \cup {m[x]}
    BY DEF ImageOf
  <2>2. IsFiniteSet(ImageOf(m, s) \cup {m[x]})
    BY FS_AddElement
  <2> QED
    BY <2>1, <2>2
<1>3. Inductive(T, S)
  BY <1>1, <1>2 DEF Inductive
<1> QED
  BY <1>3, SetInduction

(* Adding up over other names of the same things gives the same. *)
LEMMA SumRenamed ==
  ASSUME NEW f, NEW g, NEW m, NEW S, IsFiniteSet(S), SumsToInt(f, S), OneToOne(m, S),
         \A x \in S : f[x] = g[m[x]]
  PROVE  /\ IsFiniteSet(ImageOf(m, S))
         /\ SumFunctionOnSet(f, S) = SumFunctionOnSet(g, ImageOf(m, S))
<1> DEFINE T == {s \in SUBSET S :
                   /\ IsFiniteSet(ImageOf(m, s))
                   /\ SumFunctionOnSet(f, s) = SumFunctionOnSet(g, ImageOf(m, s))}
<1>1. {} \in T
  <2>1. ImageOf(m, {}) = {}
    BY DEF ImageOf
  <2> QED
    BY <2>1, SumEmpty, FS_EmptySet
<1>2. ASSUME NEW s \in T, NEW x \in S, x \notin s PROVE s \cup {x} \in T
  <2>1. /\ IsFiniteSet(s) /\ SumsToInt(f, s) /\ f[x] \in Int /\ f[x] = g[m[x]]
        /\ s \cup {x} \in SUBSET S
    BY FS_Subset DEF SumsToInt
  <2>2. /\ ImageOf(m, s \cup {x}) = ImageOf(m, s) \cup {m[x]}
        /\ m[x] \notin ImageOf(m, s)
    BY <1>2, <2>1 DEF ImageOf, OneToOne
  <2>3. IsFiniteSet(ImageOf(m, s)) /\ SumsToInt(g, ImageOf(m, s))
    BY DEF SumsToInt, ImageOf
  <2>4. SumFunctionOnSet(f, s \cup {x}) = f[x] + SumFunctionOnSet(f, s)
    BY <1>2, <2>1, SumAdds
  <2>5. SumFunctionOnSet(g, ImageOf(m, s) \cup {m[x]}) = f[x] + SumFunctionOnSet(g, ImageOf(m, s))
    BY <2>1, <2>2, <2>3, SumAdds
  <2>6. IsFiniteSet(ImageOf(m, s \cup {x}))
    <3>1. IsFiniteSet(ImageOf(m, s) \cup {m[x]})
      BY <2>3, FS_AddElement
    <3> QED
      BY <2>2, <3>1
  <2>7. SumFunctionOnSet(f, s) = SumFunctionOnSet(g, ImageOf(m, s))
    OBVIOUS
  <2> QED
    BY <2>1, <2>2, <2>4, <2>5, <2>6, <2>7
<1>3. Inductive(T, S)
  BY <1>1, <1>2 DEF Inductive
<1>4. S \in T
  BY <1>3, SetInduction
<1> QED
  BY <1>4

(* Counting is adding ones.                                                 *)
LEMMA SumOfOnes ==
  ASSUME NEW f, NEW S, IsFiniteSet(S), \A x \in S : f[x] = 1
  PROVE  SumFunctionOnSet(f, S) = Cardinality(S)
<1> DEFINE T == {s \in SUBSET S : SumFunctionOnSet(f, s) = Cardinality(s)}
<1>1. {} \in T
  BY SumEmpty, FS_EmptySet
<1>2. ASSUME NEW s \in T, NEW x \in S, x \notin s PROVE s \cup {x} \in T
  <2>1. /\ IsFiniteSet(s) /\ SumsToInt(f, s) /\ f[x] = 1
        /\ s \cup {x} \in SUBSET S /\ SumFunctionOnSet(f, s) = Cardinality(s)
    BY FS_Subset DEF SumsToInt
  <2>2. SumFunctionOnSet(f, s \cup {x}) = 1 + SumFunctionOnSet(f, s)
    BY <1>2, <2>1, SumAdds
  <2>3. Cardinality(s \cup {x}) = Cardinality(s) + 1 /\ Cardinality(s) \in Nat
    BY <1>2, <2>1, FS_AddElement, FS_CardinalityType
  <2> QED
    BY <2>1, <2>2, <2>3
<1>3. Inductive(T, S)
  BY <1>1, <1>2 DEF Inductive
<1>4. S \in T
  BY <1>3, SetInduction
<1> QED
  BY <1>4
-----------------------------------------------------------------------------
(* The sums of a ledger.                                                    *)
FiniteLedger(L) == IsFiniteSet(L) /\ IsLedger(L)

LEMMA PartIsFinite ==
  ASSUME NEW L, FiniteLedger(L), NEW K \in SUBSET L
  PROVE  FiniteLedger(K)
BY FS_Subset DEF FiniteLedger, IsLedger

(* A function over the whole that agrees with the one that is summed.       *)
LEMMA SumOfPart ==
  ASSUME NEW h, NEW R, DOMAIN h = R, IsFiniteSet(R), NEW f, SumsToInt(f, R),
         \A x \in R : h[x] = f[x]
  PROVE  SumFunction(h) = SumFunctionOnSet(f, R)
<1>1. SumFunction(h) = SumFunctionOnSet(h, R)
  BY DEF SumFunction
<1> QED
  BY <1>1, SumSame DEF SumsToInt

Amounts(L) == [e \in L |-> e.amount]

(* What the charges among some rows of a ledger add up to.                  *)
LEMMA ChargedOn ==
  ASSUME NEW M, FiniteLedger(M), NEW L \in SUBSET M
  PROVE  /\ Charged(L) = SumFunctionOnSet(Amounts(M), OfKind(L, "charge"))
         /\ SumsToNat(Amounts(M), OfKind(L, "charge"))
         /\ SumsToInt(Amounts(M), OfKind(L, "charge"))
         /\ IsFiniteSet(OfKind(L, "charge"))
<1> DEFINE R == OfKind(L, "charge")
           h == [e \in R |-> e.amount]
<1>1. R \in SUBSET M /\ IsFiniteSet(R)
  BY FS_Subset DEF OfKind, FiniteLedger
<1>2. \A e \in M : Amounts(M)[e] = e.amount /\ e.amount \in Nat
  BY DEF FiniteLedger, IsLedger, IsEntry, Amounts
<1>3. DOMAIN h = R /\ \A x \in R : h[x] = x.amount
  OBVIOUS
<1>4. SumsToNat(Amounts(M), R) /\ SumsToInt(Amounts(M), R)
  BY <1>1, <1>2 DEF SumsToNat, SumsToInt
<1>5. Charged(L) = SumFunction(h)
  BY DEF Charged
<1> HIDE DEF R, h
<1>6. SumFunction(h) = SumFunctionOnSet(Amounts(M), R)
  BY <1>1, <1>2, <1>3, <1>4, SumOfPart
<1> QED
  BY <1>1, <1>4, <1>5, <1>6 DEF R

LEMMA ChargedIsNat ==
  ASSUME NEW L, FiniteLedger(L)
  PROVE  Charged(L) \in Nat
<1>1. /\ Charged(L) = SumFunctionOnSet(Amounts(L), OfKind(L, "charge"))
      /\ SumsToNat(Amounts(L), OfKind(L, "charge"))
      /\ IsFiniteSet(OfKind(L, "charge"))
  BY ChargedOn
<1> QED
  BY <1>1, SumNat

(* A charge adds its amount to what was charged (GateDecision.charge,       *)
(* settle_day).                                                             *)
LEMMA ChargedAdds ==
  ASSUME NEW L, NEW e, FiniteLedger(L \cup {e}), e.kind = "charge", e \notin L
  PROVE  Charged(L \cup {e}) = Charged(L) + e.amount
<1> DEFINE M == L \cup {e}
           f == Amounts(M)
<1>1. OfKind(M, "charge") = OfKind(L, "charge") \cup {e} /\ e \notin OfKind(L, "charge")
  BY DEF OfKind
<1>2. L \in SUBSET M /\ M \in SUBSET M
  OBVIOUS
<1>3. f[e] = e.amount /\ f[e] \in Int
  BY DEF FiniteLedger, IsLedger, IsEntry, Amounts
<1> HIDE DEF M
<1>4. /\ Charged(L) = SumFunctionOnSet(f, OfKind(L, "charge"))
      /\ Charged(M) = SumFunctionOnSet(f, OfKind(M, "charge"))
      /\ IsFiniteSet(OfKind(L, "charge")) /\ SumsToInt(f, OfKind(L, "charge"))
  BY <1>2, ChargedOn DEF M
<1> HIDE DEF f
<1>5. SumFunctionOnSet(f, OfKind(L, "charge") \cup {e}) = f[e] + SumFunctionOnSet(f, OfKind(L, "charge"))
  BY <1>1, <1>3, <1>4, SumAdds
<1>6. Charged(M) = e.amount + Charged(L)
  BY <1>1, <1>3, <1>4, <1>5
<1>7. Charged(L) \in Int
  BY <1>4, SumRemoves
<1> QED
  BY <1>3, <1>6, <1>7 DEF M

LEMMA ChargedJoins ==
  ASSUME NEW L, NEW N, FiniteLedger(L \cup N), Apart(L, N)
  PROVE  Charged(L \cup N) = Charged(L) + Charged(N)
<1> DEFINE M == L \cup N
           f == Amounts(M)
           cl == OfKind(L, "charge")
           cn == OfKind(N, "charge")
<1>1. OfKind(M, "charge") = cl \cup cn /\ Apart(cl, cn)
  BY DEF OfKind, Apart
<1>2. L \in SUBSET M /\ N \in SUBSET M /\ M \in SUBSET M
  OBVIOUS
<1> HIDE DEF M
<1>3. /\ Charged(L) = SumFunctionOnSet(f, cl) /\ IsFiniteSet(cl) /\ SumsToInt(f, cl)
      /\ Charged(N) = SumFunctionOnSet(f, cn) /\ IsFiniteSet(cn) /\ SumsToInt(f, cn)
      /\ Charged(M) = SumFunctionOnSet(f, OfKind(M, "charge"))
  BY <1>2, ChargedOn DEF M
<1> HIDE DEF f, cl, cn
<1>4. SumFunctionOnSet(f, cl \cup cn) = SumFunctionOnSet(f, cl) + SumFunctionOnSet(f, cn)
  BY <1>1, <1>3, SumJoins
<1> QED
  BY <1>1, <1>3, <1>4 DEF M

(* Entries of other kinds do not change what was charged.                   *)
LEMMA ChargedIgnores ==
  ASSUME NEW L, NEW M, OfKind(L, "charge") = OfKind(M, "charge")
  PROVE  Charged(L) = Charged(M)
BY DEF Charged

(* A credit is one submission, whatever it is worth (credit_entry).         *)
UnitCredits(L) == \A e \in OfKind(L, "credit") : e.amount = 1

Worths(L) == [e \in L |-> Weight(LevelOf[SlugOf[e.id[2]]])]

LEMMA WeightIsPositive ==
  ASSUME NEW s \in Subs
  PROVE  Weight(LevelOf[SlugOf[s]]) \in Nat \ {0}
<1>1. SlugOf[s] \in Slugs
  BY DEF Slugs
<1>2. LevelOf[SlugOf[s]] \in Levels
  BY <1>1, WorldAssumption DEF WorldAssumption
<1> QED
  BY <1>2 DEF Levels, Weight

LEMMA WorthOn ==
  ASSUME NEW M, FiniteLedger(M), NEW L \in SUBSET M
  PROVE  /\ Worth(L) = SumFunctionOnSet(Worths(M), OfKind(L, "credit"))
         /\ SumsToNat(Worths(M), OfKind(L, "credit"))
         /\ SumsToInt(Worths(M), OfKind(L, "credit"))
         /\ IsFiniteSet(OfKind(L, "credit"))
<1> DEFINE R == OfKind(L, "credit")
           h == [e \in R |-> Weight(LevelOf[SlugOf[e.id[2]]])]
<1>1. R \in SUBSET M /\ IsFiniteSet(R)
  BY FS_Subset DEF OfKind, FiniteLedger
<1>2. \A e \in R : /\ Worths(M)[e] = Weight(LevelOf[SlugOf[e.id[2]]])
                   /\ Weight(LevelOf[SlugOf[e.id[2]]]) \in Nat
  <2> TAKE e \in R
  <2>1. e \in M /\ e.kind = "credit"
    BY DEF OfKind
  <2>2. e.id[2] \in Subs
    BY <2>1 DEF FiniteLedger, IsLedger, IsEntry
  <2> QED
    BY <2>1, <2>2, WeightIsPositive DEF Worths
<1>3. DOMAIN h = R /\ \A x \in R : h[x] = Weight(LevelOf[SlugOf[x.id[2]]])
  OBVIOUS
<1>4. SumsToNat(Worths(M), R) /\ SumsToInt(Worths(M), R)
  BY <1>2 DEF SumsToNat, SumsToInt
<1>5. Worth(L) = SumFunction(h)
  BY DEF Worth
<1> HIDE DEF R, h
<1>6. SumFunction(h) = SumFunctionOnSet(Worths(M), R)
  BY <1>1, <1>2, <1>3, <1>4, SumOfPart
<1> QED
  BY <1>1, <1>4, <1>5, <1>6 DEF R

(* Credits never lose what they are worth at most when more come in.        *)
LEMMA WorthGrows ==
  ASSUME NEW M, FiniteLedger(M), NEW L \in SUBSET M
  PROVE  Worth(L) \in Nat /\ Worth(M) \in Nat /\ Worth(L) <= Worth(M)
<1> DEFINE f == Worths(M)
<1>1. M \in SUBSET M /\ OfKind(L, "credit") \in SUBSET OfKind(M, "credit")
  BY DEF OfKind
<1>2. /\ Worth(L) = SumFunctionOnSet(f, OfKind(L, "credit"))
      /\ Worth(M) = SumFunctionOnSet(f, OfKind(M, "credit"))
      /\ IsFiniteSet(OfKind(L, "credit")) /\ SumsToNat(f, OfKind(L, "credit"))
      /\ IsFiniteSet(OfKind(M, "credit")) /\ SumsToNat(f, OfKind(M, "credit"))
  BY <1>1, WorthOn
<1> HIDE DEF f
<1>3. SumFunctionOnSet(f, OfKind(L, "credit")) <= SumFunctionOnSet(f, OfKind(M, "credit"))
  BY <1>1, <1>2, SumGrows
<1> QED
  BY <1>2, <1>3, SumNat

(* What the balance counts is at most what the credits are worth: it may    *)
(* lack a row or distrust an entry, never the other way round (credit_value,*)
(* counts_toward_balance).                                                  *)
LEMMA CreditsAreWorthIt ==
  ASSUME NEW L, FiniteLedger(L), UnitCredits(L), NEW ok, NEW rows
  PROVE  Credits(L, ok, rows) \in Nat /\ Credits(L, ok, rows) <= Worth(L)
<1> DEFINE R == {c \in OfKind(L, "credit") : CountsTowardBalance(c, ok)}
           h == [e \in R |-> CreditValue(e, rows)]
           f == Worths(L)
<1>1. L \in SUBSET L /\ R \in SUBSET OfKind(L, "credit") /\ DOMAIN h = R
  OBVIOUS
<1>2. /\ Worth(L) = SumFunctionOnSet(f, OfKind(L, "credit"))
      /\ IsFiniteSet(OfKind(L, "credit")) /\ SumsToNat(f, OfKind(L, "credit"))
  BY <1>1, WorthOn
<1>3. IsFiniteSet(R)
  BY <1>1, <1>2, FS_Subset
<1>4. \A e \in R : h[e] \in Nat /\ f[e] \in Nat /\ h[e] <= f[e]
  <2> TAKE e \in R
  <2>1. e \in L /\ e.kind = "credit" /\ e.amount = 1
    BY DEF OfKind, UnitCredits
  <2>2. e.id[2] \in Subs
    BY <2>1 DEF FiniteLedger, IsLedger, IsEntry
  <2> DEFINE w == Weight(LevelOf[SlugOf[e.id[2]]])
  <2>3. w \in Nat /\ 1 <= w
    BY <2>2, WeightIsPositive
  <2>4. f[e] = w
    BY <2>1 DEF Worths
  <2>5. h[e] = 1 * (IF SlugOf[e.id[2]] \in rows THEN w ELSE 1)
    BY <2>1 DEF CreditValue
  <2> HIDE DEF w, f, h
  <2> QED
    BY <2>3, <2>4, <2>5
<1>5. Credits(L, ok, rows) = SumFunction(h)
  BY DEF Credits
<1>6. SumFunction(h) = SumFunctionOnSet(h, R)
  BY <1>1 DEF SumFunction
<1> HIDE DEF h, f
<1>7. SumsToNat(h, R) /\ SumsBelow(h, f, R)
  BY <1>4 DEF SumsToNat, SumsBelow, SumsToInt
<1> HIDE DEF R
<1>8. SumFunctionOnSet(h, R) \in Nat /\ SumFunctionOnSet(h, R) <= SumFunctionOnSet(f, R)
  BY <1>3, <1>7, SumNat, SumOrder
<1>9. SumFunctionOnSet(f, R) <= SumFunctionOnSet(f, OfKind(L, "credit"))
  BY <1>1, <1>2, SumGrows
<1>10. SumFunctionOnSet(f, OfKind(L, "credit")) \in Nat /\ SumFunctionOnSet(f, R) \in Int
  <2>1. SumsToInt(f, R)
    BY <1>7 DEF SumsBelow
  <2> QED
    BY <1>2, <1>3, <2>1, SumNat, SumRemoves
<1> QED
  BY <1>2, <1>5, <1>6, <1>8, <1>9, <1>10

-----------------------------------------------------------------------------
(* The debt.                                                                *)
Costs == [d \in Days |-> DayCost(d)]

LEMMA DaysAreFinite == IsFiniteSet(Days)
BY FS_Interval, CalendarAssumption DEF CalendarAssumption, Days

LEMMA PriceOn ==
  ASSUME NEW D \in SUBSET Days
  PROVE  /\ PriceOf(D) = SumFunctionOnSet(Costs, D)
         /\ IsFiniteSet(D) /\ SumsToNat(Costs, D) /\ SumsToInt(Costs, D)
<1> DEFINE h == [d \in D |-> DayCost(d)]
<1>1. IsFiniteSet(D) /\ DOMAIN h = D
  BY DaysAreFinite, FS_Subset
<1>2. \A d \in D : h[d] = DayCost(d) /\ Costs[d] = DayCost(d) /\ DayCost(d) \in Nat
  BY DayCostIsPositive DEF Costs
<1>3. SumsToNat(Costs, D) /\ SumsToInt(Costs, D)
  BY <1>2 DEF SumsToNat, SumsToInt
<1>4. PriceOf(D) = SumFunction(h)
  BY DEF PriceOf
<1> HIDE DEF h
<1> QED
  BY <1>1, <1>2, <1>3, <1>4, SumOfPart

(* More days never cost less.                                               *)
LEMMA PriceGrows ==
  ASSUME NEW E \in SUBSET Days, NEW D \in SUBSET E
  PROVE  PriceOf(D) \in Nat /\ PriceOf(E) \in Nat /\ PriceOf(D) <= PriceOf(E)
<1>1. D \in SUBSET Days
  OBVIOUS
<1>2. /\ PriceOf(D) = SumFunctionOnSet(Costs, D) /\ PriceOf(E) = SumFunctionOnSet(Costs, E)
      /\ IsFiniteSet(D) /\ SumsToNat(Costs, D)
      /\ IsFiniteSet(E) /\ SumsToNat(Costs, E)
  BY <1>1, PriceOn
<1>3. SumFunctionOnSet(Costs, D) <= SumFunctionOnSet(Costs, E)
  BY <1>2, SumGrows
<1> QED
  BY <1>2, <1>3, SumNat

LEMMA NothingHasNoPrice == PriceOf({}) = 0
<1>1. {} \in SUBSET Days
  OBVIOUS
<1>2. PriceOf({}) = SumFunctionOnSet(Costs, {})
  BY <1>1, PriceOn
<1> QED
  BY <1>2, SumEmpty

LEMMA PriceJoins ==
  ASSUME NEW D \in SUBSET Days, NEW E \in SUBSET Days, Apart(D, E)
  PROVE  PriceOf(D \cup E) = PriceOf(D) + PriceOf(E)
<1>1. D \cup E \in SUBSET Days
  OBVIOUS
<1>2. /\ PriceOf(D) = SumFunctionOnSet(Costs, D) /\ PriceOf(E) = SumFunctionOnSet(Costs, E)
      /\ PriceOf(D \cup E) = SumFunctionOnSet(Costs, D \cup E)
      /\ IsFiniteSet(D) /\ SumsToInt(Costs, D) /\ IsFiniteSet(E) /\ SumsToInt(Costs, E)
  BY <1>1, PriceOn
<1> QED
  BY <1>2, SumJoins

\* The charges that count as repayment, and what each repays.
Repayments(L, ok) == {c \in OfKind(L, "charge") : c.day >= DebtStart /\ IsTrusted(c, ok)}
Excesses(L) == [e \in L |-> Excess(e)]

LEMMA ExcessIsNat ==
  ASSUME NEW L, FiniteLedger(L), NEW e \in L
  PROVE  Excess(e) \in Nat /\ DayCost(e.day) \in Nat /\ e.amount \in Nat
<1>1. e.day \in Days /\ e.amount \in Nat
  BY DEF FiniteLedger, IsLedger, IsEntry
<1>2. DayCost(e.day) \in Nat
  BY <1>1, DayCostIsPositive
<1> QED
  BY <1>1, <1>2 DEF Excess

LEMMA ExcessOn ==
  ASSUME NEW M, FiniteLedger(M), NEW R \in SUBSET M
  PROVE  /\ SumFunction([e \in R |-> Excess(e)]) = SumFunctionOnSet(Excesses(M), R)
         /\ IsFiniteSet(R) /\ SumsToNat(Excesses(M), R) /\ SumsToInt(Excesses(M), R)
<1> DEFINE h == [e \in R |-> Excess(e)]
<1>1. IsFiniteSet(R) /\ DOMAIN h = R
  BY FS_Subset DEF FiniteLedger
<1>2. \A e \in R : h[e] = Excess(e) /\ Excesses(M)[e] = Excess(e) /\ Excess(e) \in Nat
  BY ExcessIsNat DEF Excesses
<1>3. SumsToNat(Excesses(M), R) /\ SumsToInt(Excesses(M), R)
  BY <1>2 DEF SumsToNat, SumsToInt
<1> HIDE DEF h
<1>4. SumFunction(h) = SumFunctionOnSet(Excesses(M), R)
  BY <1>1, <1>2, <1>3, SumOfPart
<1> QED
  BY <1>1, <1>3, <1>4 DEF h

LEMMA RepaidOn ==
  ASSUME NEW M, FiniteLedger(M), NEW L \in SUBSET M, NEW ok
  PROVE  /\ Repaid(L, ok) = SumFunctionOnSet(Excesses(M), Repayments(L, ok))
         /\ IsFiniteSet(Repayments(L, ok)) /\ SumsToNat(Excesses(M), Repayments(L, ok))
         /\ SumsToInt(Excesses(M), Repayments(L, ok))
<1>1. Repayments(L, ok) \in SUBSET M
  BY DEF Repayments, OfKind
<1>2. Repaid(L, ok) = SumFunction([e \in Repayments(L, ok) |-> Excess(e)])
  BY DEF Repaid, Repayments
<1> QED
  BY <1>1, <1>2, ExcessOn

(* Rows that are lost, and trust that is lost, never raise what was repaid. *)
LEMMA RepaidGrows ==
  ASSUME NEW M, FiniteLedger(M), NEW L \in SUBSET M, NEW ok, NEW better,
         Repayments(L, ok) \subseteq Repayments(M, better)
  PROVE  /\ Repaid(L, ok) \in Nat /\ Repaid(M, better) \in Nat
         /\ Repaid(L, ok) <= Repaid(M, better)
<1> DEFINE f == Excesses(M)
           R == Repayments(L, ok)
           S == Repayments(M, better)
<1>1. R \in SUBSET S /\ M \in SUBSET M
  OBVIOUS
<1>2. /\ Repaid(L, ok) = SumFunctionOnSet(f, R) /\ Repaid(M, better) = SumFunctionOnSet(f, S)
      /\ IsFiniteSet(R) /\ SumsToNat(f, R) /\ IsFiniteSet(S) /\ SumsToNat(f, S)
  BY <1>1, RepaidOn
<1> HIDE DEF f, R, S
<1>3. SumFunctionOnSet(f, R) <= SumFunctionOnSet(f, S)
  BY <1>1, <1>2, SumGrows
<1> QED
  BY <1>2, <1>3, SumNat

(* A new charge repays at most what it takes above the price of its day.    *)
LEMMA RepaidAdds ==
  ASSUME NEW L, NEW e, FiniteLedger(L \cup {e}), e \notin L, NEW ok
  PROVE  /\ Repaid(L, ok) \in Nat /\ Repaid(L \cup {e}, ok) \in Nat
         /\ Repaid(L \cup {e}, ok) <= Repaid(L, ok) + Excess(e)
<1> DEFINE M == L \cup {e}
           f == Excesses(M)
           R == Repayments(L, ok)
           S == Repayments(M, ok)
<1>1. L \in SUBSET M /\ M \in SUBSET M /\ e \in M
  OBVIOUS
<1>2. (S = R \/ S = R \cup {e}) /\ e \notin R
  BY DEF Repayments, OfKind
<1>3. f[e] = Excess(e)
  BY DEF Excesses
<1> HIDE DEF M
<1>4. Excess(e) \in Nat
  BY <1>1, ExcessIsNat DEF M
<1>5. /\ Repaid(L, ok) = SumFunctionOnSet(f, R) /\ Repaid(M, ok) = SumFunctionOnSet(f, S)
      /\ IsFiniteSet(R) /\ SumsToNat(f, R) /\ SumsToInt(f, R)
      /\ IsFiniteSet(S) /\ SumsToNat(f, S)
  BY <1>1, RepaidOn DEF M
<1> HIDE DEF f, R, S
<1>6. SumFunctionOnSet(f, R) \in Nat /\ SumFunctionOnSet(f, S) \in Nat
  BY <1>5, SumNat
<1>7. SumFunctionOnSet(f, R \cup {e}) = f[e] + SumFunctionOnSet(f, R)
  BY <1>2, <1>3, <1>4, <1>5, SumAdds
<1>8. SumFunctionOnSet(f, S) <= SumFunctionOnSet(f, R) + Excess(e)
  <2>1. CASE S = R
    BY <1>4, <1>6, <2>1
  <2>2. CASE S = R \cup {e}
    BY <1>3, <1>4, <1>6, <1>7, <2>2
  <2> QED
    BY <1>2, <2>1, <2>2
<1> QED
  BY <1>5, <1>6, <1>8 DEF M

(* A trusted charge repays all of it (is_trusted, compute_debt).            *)
LEMMA RepaidAddsAll ==
  ASSUME NEW L, NEW e, FiniteLedger(L \cup {e}), e \notin L, e.kind = "charge",
         NEW ok, IsTrusted(e, ok), e.day >= DebtStart \/ Excess(e) = 0
  PROVE  /\ Repaid(L, ok) \in Nat /\ Repaid(L \cup {e}, ok) \in Nat
         /\ Repaid(L \cup {e}, ok) = Repaid(L, ok) + Excess(e)
<1> DEFINE M == L \cup {e}
           f == Excesses(M)
           R == Repayments(L, ok)
           S == Repayments(M, ok)
<1>1. L \in SUBSET M /\ M \in SUBSET M /\ e \in M
  OBVIOUS
<1>2. (e.day >= DebtStart => S = R \cup {e}) /\ (S = R \/ S = R \cup {e}) /\ e \notin R
  BY DEF Repayments, OfKind
<1>3. f[e] = Excess(e)
  BY DEF Excesses
<1> HIDE DEF M
<1>4. Excess(e) \in Nat
  BY <1>1, ExcessIsNat DEF M
<1>5. /\ Repaid(L, ok) = SumFunctionOnSet(f, R) /\ Repaid(M, ok) = SumFunctionOnSet(f, S)
      /\ IsFiniteSet(R) /\ SumsToNat(f, R) /\ SumsToInt(f, R)
      /\ IsFiniteSet(S) /\ SumsToNat(f, S)
  BY <1>1, RepaidOn DEF M
<1> HIDE DEF f, R, S
<1>6. SumFunctionOnSet(f, R) \in Nat /\ SumFunctionOnSet(f, S) \in Nat
  BY <1>5, SumNat
<1>7. SumFunctionOnSet(f, R \cup {e}) = f[e] + SumFunctionOnSet(f, R)
  BY <1>2, <1>3, <1>4, <1>5, SumAdds
<1>8. SumFunctionOnSet(f, S) = SumFunctionOnSet(f, R) + Excess(e)
  <2>1. CASE S = R \cup {e}
    BY <1>3, <1>4, <1>6, <1>7, <2>1
  <2>2. CASE S = R /\ Excess(e) = 0
    BY <1>6, <2>2
  <2> QED
    BY <1>2, <2>1, <2>2
<1> QED
  BY <1>5, <1>6, <1>8 DEF M

LEMMA MissedAreDays ==
  ASSUME NEW L, NEW day \in 0..(LastDay + 1), NEW off
  PROVE  MissedDays(L, day, off) \in SUBSET Days
BY CalendarAssumption DEF CalendarAssumption, MissedDays, Days

(* "Deleting the ledger grows it": with fewer rows on file, trusted the     *)
(* same way, what is outstanding is never less (compute_debt).              *)
LEMMA ForgettingGrowsDebt ==
  ASSUME NEW L, FiniteLedger(L), NEW K \in SUBSET L, NEW ok,
         NEW day \in 0..(LastDay + 1), NEW off
  PROVE  Outstanding(K, ok, day, off) >= Outstanding(L, ok, day, off)
<1>1. MissedDays(L, day, off) \in SUBSET MissedDays(K, day, off)
  BY DEF MissedDays, ChargedDays, OfKind
<1>2. MissedDays(K, day, off) \in SUBSET Days
  BY MissedAreDays
<1>3. /\ Owed(L, day, off) \in Nat /\ Owed(K, day, off) \in Nat
      /\ Owed(L, day, off) <= Owed(K, day, off)
  BY <1>1, <1>2, PriceGrows DEF Owed
<1>4. Repayments(K, ok) \subseteq Repayments(L, ok)
  BY DEF Repayments, OfKind
<1>5. Repaid(K, ok) \in Nat /\ Repaid(L, ok) \in Nat /\ Repaid(K, ok) <= Repaid(L, ok)
  BY <1>4, RepaidGrows
<1> QED
  BY <1>3, <1>5 DEF Outstanding

-----------------------------------------------------------------------------
(* The verdict.                                                             *)
LEMMA CostCoversTheDay ==
  ASSUME NEW L, NEW ok, NEW d \in Days, NEW pools, ~FocusDay(pools, d)
  PROVE  /\ Cost(L, ok, d, pools) \in Nat
         /\ DayCost(d) + SurchargeOn(L, ok, d, OffDays(pools)) <= Cost(L, ok, d, pools)
         /\ SurchargeOn(L, ok, d, OffDays(pools)) \in {0, 1}
<1> DEFINE s == SurchargeOn(L, ok, d, OffDays(pools))
           p == PricingFor(d).penalty
<1>1. s \in {0, 1}
  BY DEF SurchargeOn
<1>2. DayCost(d) \in Nat
  BY DayCostIsPositive
<1>3. p \in Nat
  BY CalendarAssumption DEF CalendarAssumption, PricingFor
<1>4. PenalisedCost(d) = IF DayCost(d) < p THEN p ELSE DayCost(d)
  BY DEF PenalisedCost
<1>5. Cost(L, ok, d, pools) = PenalisedCost(d) + s \/ Cost(L, ok, d, pools) = DayCost(d) + s
  BY DEF Cost
<1> HIDE DEF s, p
<1> QED
  BY <1>1, <1>2, <1>3, <1>4, <1>5 DEF s

(* The entry a "charged-now" verdict writes, and that it spends nothing that*)
(* is not there: with it, everything charged is at most what the balance    *)
(* counts (decide).                                                         *)
LEMMA ChargedNowIsAfforded ==
  ASSUME NEW L, FiniteLedger(L), UnitCredits(L), NEW ok, NEW d \in Days, NEW pools, NEW rows,
         NEW key \in BOOLEAN, NEW e,
         e = ChargeEntry(d, "leetcode", SurchargeOn(L, ok, d, OffDays(pools)), key),
         DecideState(L, ok, d, pools, rows) = "charged-now"
  PROVE  /\ DecideCharge(L, ok, d, pools, rows, key) = {e}
         /\ e \notin L /\ e.kind = "charge" /\ FiniteLedger(L \cup {e})
         /\ Charged(L \cup {e}) <= Credits(L, ok, rows)
<1> DEFINE s == SurchargeOn(L, ok, d, OffDays(pools))
<1>1. /\ DecideCharge(L, ok, d, pools, rows, key) = {e}
      /\ e.kind = "charge" /\ e.id = <<"charge", d>> /\ e.amount = DayCost(d) + s
  BY DEF DecideCharge, ChargeEntry
<1>2. /\ ~Has(L, <<"charge", d>>) /\ Affords(L, ok, d, pools, rows)
      /\ ~FocusDay(pools, d)
  BY DEF DecideState
<1>3. e \notin L
  BY <1>1, <1>2 DEF Has
<1>4. FiniteLedger(L \cup {e})
  <2>1. IsLedger(L \cup {e})
    BY <1>1, DecideKeepsLedger DEF FiniteLedger
  <2>2. IsFiniteSet(L \cup {e})
    BY FS_AddElement DEF FiniteLedger
  <2> QED
    BY <2>1, <2>2 DEF FiniteLedger
<1>5. Charged(L \cup {e}) = Charged(L) + e.amount
  BY <1>1, <1>3, <1>4, ChargedAdds
<1>6. Credits(L, ok, rows) \in Nat /\ Charged(L) \in Nat
  BY CreditsAreWorthIt, ChargedIsNat
<1>7. Credits(L, ok, rows) - Charged(L) >= Cost(L, ok, d, pools)
  BY <1>2 DEF Affords, Available
<1>8. /\ Cost(L, ok, d, pools) \in Nat /\ DayCost(d) + s <= Cost(L, ok, d, pools)
      /\ s \in {0, 1} /\ DayCost(d) \in Nat
  BY <1>2, CostCoversTheDay, DayCostIsPositive
<1>9. Charged(L \cup {e}) <= Credits(L, ok, rows)
  <2> HIDE DEF s
  <2> QED
    BY <1>1, <1>5, <1>6, <1>7, <1>8
<1> QED
  BY <1>1, <1>3, <1>4, <1>9

(* A settled day is charged its plain price, once (settle_day).             *)
LEMMA SettledIsThePrice ==
  ASSUME NEW L, FiniteLedger(L), NEW d \in Days, NEW source, NEW key \in BOOLEAN, NEW e,
         e = ChargeEntry(d, source, 0, key)
  PROVE  \/ SettleEntries(L, d, source, key) = {}
         \/ /\ SettleEntries(L, d, source, key) = {e}
            /\ e \notin L /\ e.kind = "charge" /\ FiniteLedger(L \cup {e})
            /\ e.amount = DayCost(d) /\ e.source = source
<1> SUFFICES ASSUME ~Has(L, <<"charge", d>>)
             PROVE  /\ SettleEntries(L, d, source, key) = {e}
                    /\ e \notin L /\ e.kind = "charge" /\ FiniteLedger(L \cup {e})
                    /\ e.amount = DayCost(d) /\ e.source = source
  BY DEF SettleEntries
<1>1. SettleEntries(L, d, source, key) = {e}
  BY DEF SettleEntries
<1>2. DayCost(d) \in Nat
  BY DayCostIsPositive
<1>3. e.kind = "charge" /\ e.id = <<"charge", d>> /\ e.amount = DayCost(d) /\ e.source = source
  BY <1>2 DEF ChargeEntry
<1>4. e \notin L
  BY <1>3 DEF Has
<1>5. FiniteLedger(L \cup {e})
  <2>1. IsLedger(L \cup {e})
    BY <1>1, SettleKeepsLedger DEF FiniteLedger
  <2>2. IsFiniteSet(L \cup {e})
    BY FS_AddElement DEF FiniteLedger
  <2> QED
    BY <2>1, <2>2 DEF FiniteLedger
<1> QED
  BY <1>1, <1>3, <1>4, <1>5

(* What a harvest mints from a finite feed, and what seeding writes, is a   *)
(* finite number of rows, none of them a charge.                            *)
LEMMA FreshIsFinite ==
  ASSUME NEW L, NEW feed, IsFiniteSet(feed), NEW d, NEW key
  PROVE  IsFiniteSet(Fresh(L, feed, d, key))
<1> DEFINE S == {x \in feed : ~Has(L, <<"ac", x>>)}
           m == [s \in S |-> CreditEntry(s, d, key)]
<1>1. IsFiniteSet(S)
  BY FS_Subset
<1>2. ImageOf(m, S) = Fresh(L, feed, d, key)
  BY DEF ImageOf, Fresh
<1> HIDE DEF m, S
<1>3. IsFiniteSet(ImageOf(m, S))
  BY <1>1, ImageIsFinite
<1> QED
  BY <1>2, <1>3

LEMMA SeedMarkersAreFinite ==
  ASSUME NEW feed, IsFiniteSet(feed), NEW d, NEW key
  PROVE  IsFiniteSet(SeedMarkers(feed, d, key))
<1> DEFINE m == [s \in feed |-> SeenEntry(s, d, key)]
<1>1. SeedMarkers(feed, d, key) = ImageOf(m, feed) \cup {BootstrapEntry(d, key)}
  BY DEF ImageOf, SeedMarkers
<1> HIDE DEF m
<1>2. IsFiniteSet(ImageOf(m, feed))
  BY ImageIsFinite
<1> QED
  BY <1>1, <1>2, FS_AddElement

\* M is L and rows that are not charges: what harvests and seeding do.
Minted(L, M) ==
  /\ L \subseteq M /\ FiniteLedger(M)
  /\ \A e \in M \ L : e.kind # "charge" /\ (e.kind = "credit" => e.amount = 1)

LEMMA AppendMints ==
  ASSUME NEW L, FiniteLedger(L), NEW new, FiniteLedger(new),
         \A e \in new : e.kind # "charge" /\ (e.kind = "credit" => e.amount = 1)
  PROVE  Minted(L, Append(L, new))
<1>1. IsLedger(Append(L, new))
  BY AppendIsLedger DEF FiniteLedger
<1>2. IsFiniteSet(Append(L, new))
  <2>1. IsFiniteSet({e \in new : ~Has(L, e.id)})
    BY FS_Subset DEF FiniteLedger
  <2> QED
    BY <2>1, FS_Union DEF FiniteLedger, Append
<1>3. L \subseteq Append(L, new) /\ Append(L, new) \ L \subseteq new
  BY DEF Append
<1> QED
  BY <1>1, <1>2, <1>3 DEF Minted, FiniteLedger

LEMMA HarvestMints ==
  ASSUME NEW L, FiniteLedger(L), NEW feed, feed \subseteq Subs, IsFiniteSet(feed),
         NEW d \in Days, NEW key \in BOOLEAN
  PROVE  Minted(L, Append(L, Fresh(L, feed, d, key)))
<1> DEFINE new == Fresh(L, feed, d, key)
<1>1. FiniteLedger(new)
  BY FreshIsLedger, FreshIsFinite DEF FiniteLedger
<1>2. \A e \in new : e.kind # "charge" /\ (e.kind = "credit" => e.amount = 1)
  <2>1. \A s : CreditEntry(s, d, key).kind = "credit" /\ CreditEntry(s, d, key).amount = 1
    BY DEF CreditEntry
  <2> QED
    BY <2>1 DEF Fresh
<1> HIDE DEF new
<1> QED
  BY <1>1, <1>2, AppendMints DEF new

LEMMA SeedingMints ==
  ASSUME NEW L, FiniteLedger(L), NEW feed, feed \subseteq Subs, IsFiniteSet(feed),
         NEW d \in Days, NEW key \in BOOLEAN
  PROVE  Minted(L, Append(L, SeedMarkers(feed, d, key)))
<1> DEFINE new == SeedMarkers(feed, d, key)
<1>1. FiniteLedger(new)
  BY SeedMarkersAreLedger, SeedMarkersAreFinite DEF FiniteLedger
<1>2. \A e \in new : e.kind # "charge" /\ (e.kind = "credit" => e.amount = 1)
  <2>1. BootstrapEntry(d, key).kind = "bootstrap" /\ \A s : SeenEntry(s, d, key).kind = "seen"
    BY DEF SeenEntry, BootstrapEntry
  <2> QED
    BY <2>1 DEF SeedMarkers
<1> HIDE DEF new
<1> QED
  BY <1>1, <1>2, AppendMints DEF new

(* Minting leaves the charges, and so the debt and what was charged, alone. *)
LEMMA MintingKeepsCharges ==
  ASSUME NEW L, NEW M, Minted(L, M)
  PROVE  /\ OfKind(M, "charge") = OfKind(L, "charge")
         /\ Charged(M) = Charged(L) /\ ChargedDays(M) = ChargedDays(L)
         /\ UnitCredits(L) => UnitCredits(M)
         /\ \A ok : Repaid(M, ok) = Repaid(L, ok)
         /\ \A day, off : Owed(M, day, off) = Owed(L, day, off)
<1>1. OfKind(M, "charge") = OfKind(L, "charge")
  BY DEF Minted, OfKind
<1>2. ChargedDays(M) = ChargedDays(L)
  BY <1>1 DEF ChargedDays
<1>3. \A ok : Repaid(M, ok) = Repaid(L, ok)
  BY <1>1 DEF Repaid
<1>4. \A day, off : Owed(M, day, off) = Owed(L, day, off)
  BY <1>2 DEF Owed, MissedDays
<1>5. Charged(M) = Charged(L)
  BY <1>1 DEF Charged
<1>6. UnitCredits(L) => UnitCredits(M)
  BY DEF UnitCredits, Minted, OfKind
<1> QED
  BY <1>1, <1>2, <1>3, <1>4, <1>5, <1>6

=============================================================================
