------------------------------- MODULE Forecast -------------------------------
(***************************************************************************)
(* What the status window and the status app foretell from a ledger: the   *)
(* credits still to be earned by a date, what the rules will have taken by *)
(* then, and the price at which a goal lands on the date.  Arithmetic over *)
(* the price table that no run of the gate uses, so the gate's own runs    *)
(* are what it is held against.                                            *)
(***************************************************************************)
EXTENDS Gate

CONSTANTS
  Prices,  \* base prices a what-if may ask about
  Goals    \* solved counts to be reached, per level

ASSUME ForecastAssumption == Prices \subseteq Nat \ {0} /\ Goals \subseteq [Levels -> Nat]

AtLeast(n, x) == IF x < n THEN n ELSE x
AtMost(n, x) == IF x < n THEN x ELSE n
Horizon == LastDay + 14
Never == Horizon + 1

-----------------------------------------------------------------------------
(* _daycost: tiered, what_if, base_terms *)

Tiered(base, d) ==
  CASE Weekday(d) \in {0, 4} -> base + 1
    [] Weekday(d) \in {1, 2, 3} -> base
    [] OTHER -> 2 * base

\* Past days keep their real prices.
WhatIf(base, d) == IF d >= RepriceDate THEN Tiered(base, d) ELSE DayCost(d)

\* A day's price as a linear function of the base price.
BaseTerms(d) == [per |-> Tiered(1, d) - Tiered(0, d), flat |-> Tiered(0, d)]

-----------------------------------------------------------------------------
(* _projection, _status_projection *)

\* position_of: today counts as charged when the verdict says so.
Position ==
  [first |-> IF DecideState(ledger, keyOk, today, pools, rows) = "already-charged"
             THEN today + 1 ELSE today,
   available |-> Available(ledger, keyOk, rows),
   debt |-> Outstanding(ledger, keyOk, today, OffDays(pools))]

\* Mutant: the debt is taken to be repaid in full by any date.
ProjectDebtInFull(at, target, price) ==
  LET gated == (at.first..target) \ OffDays(pools)
      base == SumFunction([d \in gated |-> WhatIf(price, d)])
  IN  [required |-> AtLeast(0, base + at.debt - at.available),
       demand |-> AtLeast(0, base + at.debt - at.available),
       left |-> 0]

\* Mutant: the sum starts today, charged or not.
ProjectFromToday(at, target, price) ==
  LET gated == (today..target) \ OffDays(pools)
      base == SumFunction([d \in gated |-> WhatIf(price, d)])
      dear == Cardinality({d \in gated : SurchargeApplies(d)})
      repaid == AtMost(at.debt, dear)
  IN  [required |-> AtLeast(0, base + at.debt - at.available),
       demand |-> AtLeast(0, base + repaid - at.available),
       left |-> at.debt - repaid]

\* project: the base price of every gated day, with the debt in full, and with
\* what the surcharges will have repaid of it.
Project(at, target, price) ==
  LET gated == (at.first..target) \ OffDays(pools)
      base == SumFunction([d \in gated |-> WhatIf(price, d)])
      dear == Cardinality({d \in gated : SurchargeApplies(d)})
      repaid == AtMost(at.debt, dear)
  IN  [required |-> AtLeast(0, base + at.debt - at.available),
       demand |-> AtLeast(0, base + repaid - at.available),
       left |-> at.debt - repaid]

-----------------------------------------------------------------------------
(* _scenario *)

\* LeetCode's own count of a level's problems that are solved.
SolvedCount(level) == Cardinality({SlugOf[s] : s \in {x \in solved : LevelOf[SlugOf[x]] = level}})

\* Goal.needed: the credits a goal still requires.
Needed(goal) ==
  SumFunction([l \in Levels |-> AtLeast(0, goal[l] - SolvedCount(l)) * Weight(l)])

\* landing_day: the first day by which the demanded credits reach the goal.
LandingDay(at, price, needed) ==
  LET cost(d) == IF d \in OffDays(pools) THEN 0 ELSE WhatIf(price, d)
      collected[d \in (at.first - 1)..Horizon] ==
        IF d < at.first THEN at.debt - at.available ELSE collected[d - 1] + cost(d)
  IN  IF collected[at.first - 1] >= needed THEN at.first
      ELSE CHOOSE d \in at.first..Never :
             /\ d = Never \/ (d \notin OffDays(pools) /\ collected[d] >= needed)
             /\ \A e \in at.first..(d - 1) : e \in OffDays(pools) \/ collected[e] < needed

\* Mutant: a day of another era is priced as if it scaled too.
ScaledAll(gated) == gated

\* exact_price: the days that scale with the base price.
Scaled(gated) == {d \in gated : d >= RepriceDate}

\* The whole price at or above the exact one, or 0 when no price can land it.
MinimalPrice(at, target, needed) ==
  LET gated == (at.first..target) \ OffDays(pools)
      units == SumFunction([d \in Scaled(gated) |-> BaseTerms(d).per])
      fixed == SumFunction([d \in Scaled(gated) |-> BaseTerms(d).flat])
               + PriceOf(gated \ Scaled(gated))
      remaining == AtLeast(0, needed - at.debt + at.available - fixed)
  IN  IF units = 0 THEN 0 ELSE AtLeast(1, (remaining + units - 1) \div units)

-----------------------------------------------------------------------------
(* Properties.  A clock that was set back makes days count twice; the gate  *)
(* itself is locked then.                                                   *)

Forward == budget.back = MaxBack
Targets == today..LastDay

\* build_projections, at the price in force.
Projections == LET at == Position IN [t \in Targets |-> Project(at, t, CurrentBase)]

\* However the days so far were paid, missed or escaped, with whatever
\* surcharges, the work ahead is the price of all the days up to the date less
\* the credits ("the daily surcharge is deliberately not added on top: it *is*
\* the debt being repaid ... adding both would count the debt twice").  Days
\* count from the debt's epoch, or from today before it; what was taken without
\* a signature has to be taken again once the key is back, and what was repaid
\* for a day that turned out to be off is lost ("overpaying is not a credit").
WorkIsThePriceLessTheCredits ==
  LET told == Projections
      off == OffDays(pools)
      banked == Credits(ledger, keyOk, rows)
      counted == {d \in AtMost(DebtStart, today)..LastDay :
                    d \notin off \/ d \in ChargedDays(ledger)}
  IN Forward /\ keyOk => \A t \in Targets :
       told[t].required
         = AtLeast(0, PriceOf({d \in counted : d <= t}) + UnsignedExcess(ledger) + Overpaid - banked)

\* The ledger after every day up to the last one is paid by the gate's rules,
\* day by day.
PaidThrough(first) ==
  LET paid[d \in (first - 1)..LastDay] ==
        IF d < first THEN ledger
        ELSE IF d \in OffDays(pools) THEN paid[d - 1]
        ELSE paid[d - 1] \cup
               {ChargeEntry(d, "leetcode",
                            SurchargeOn(paid[d - 1], keyOk, d, OffDays(pools)), keyOk)}
  IN  paid

\* "What the mechanism will actually have collected by then" is what decide
\* collects, and the debt said to be left is the debt there will be.
RulesDemandIsTaken ==
  LET told == Projections
      first == Position.first
      paid == PaidThrough(first)
      banked == Credits(ledger, keyOk, rows)
  IN Forward => \A t \in Targets :
       LET after == paid[IF t < first THEN first - 1 ELSE t]
       IN /\ told[t].demand = AtLeast(0, Charged(after) - banked)
          /\ told[t].left = Outstanding(after, keyOk, t + 1, OffDays(pools))

\* The closed form and the day-by-day search agree: a price lands the goal by
\* the date exactly if it is at least the smallest one named.
MinimalPriceLands ==
  LET at == Position IN
  Forward => \A goal \in Goals, p \in Prices :
    LET n == Needed(goal)
        lands == LandingDay(at, p, n)
    IN
    \A t \in Targets :
      LET least == MinimalPrice(at, t, n) IN least > 0 => (lands <= t <=> p >= least)
=============================================================================
