------------------------------ MODULE GateRules ------------------------------
(***************************************************************************)
(* The pure half of leetcode_guard: what a ledger is, what a day costs,    *)
(* what the missed days are owed, what the balance is, and the verdict     *)
(* `decide` reaches from all of that.  Nothing here has state; the modules *)
(* that do (Gate, GuardRuns) decide when a verdict is reached and what of  *)
(* it reaches the disk.                                                    *)
(*                                                                         *)
(* Days are numbered.  A submission, its problem (title_slug) and a device *)
(* are opaque.  Signing is kept as the one fact the rules look at: whether *)
(* the key could be read when the entry was made.                          *)
(***************************************************************************)
EXTENDS Integers, FiniteSetsExt

CONSTANTS
  LastDay,       \* the last day the calendar of a model reaches
  Monday,        \* a day number that falls on a Monday
  GateStart,     \* GATE_START_DATE
  DebtStart,     \* DEBT_START_DATE
  InterimDate,   \* first day of INTERIM_PRICING
  RepriceDate,   \* first day of CURRENT_PRICING
  CurrentBase,   \* CURRENT_BASE, the Tue-Thu price now in force
  Subs,          \* accepted submissions, numbered in the order they are made
  SlugOf,        \* the problem each submission solves
  LevelOf,       \* LeetCode's label for a problem
  Devices,       \* machines that write ledger entries
  ThisDevice     \* DEVICE_ID

Days == 0..LastDay
Slugs == {SlugOf[s] : s \in Subs}
Levels == {"Easy", "Medium", "Hard"}

ASSUME CalendarAssumption ==
  /\ LastDay \in Nat /\ Monday \in Int
  /\ GateStart \in Int /\ DebtStart \in Nat /\ DebtStart <= GateStart
  /\ InterimDate \in Int /\ RepriceDate \in Int
  /\ CurrentBase \in Nat \ {0}
ASSUME WorldAssumption ==
  /\ Subs \subseteq Nat /\ DOMAIN SlugOf = Subs
  /\ LevelOf \in [Slugs -> Levels]
  /\ ThisDevice \in Devices

-----------------------------------------------------------------------------
(* Day prices: _daycost *)

\* datetime.date.weekday order, Monday is 0.
Weekday(d) == (d - Monday) % 7

\* Three eras of prices, one tuple of seven weekday costs each.
OriginalCosts == <<1, 1, 1, 1, 1, 2, 2>>
InterimCosts == <<2, 1, 1, 1, 2, 2, 2>>
CurrentCosts ==
  LET mid == CurrentBase + 1 IN
  <<mid, CurrentBase, CurrentBase, CurrentBase, mid, 2 * CurrentBase, 2 * CurrentBase>>

PricingFor(d) ==
  IF d >= RepriceDate THEN [costs |-> CurrentCosts, penalty |-> CurrentBase + 1]
  ELSE IF d >= InterimDate THEN [costs |-> InterimCosts, penalty |-> 2]
  ELSE [costs |-> OriginalCosts, penalty |-> 2]

DayCost(d) == PricingFor(d).costs[Weekday(d) + 1]

\* A missed wake-alarm ring takes the Tue-Thu discount away, never more.
PenalisedCost(d) ==
  IF DayCost(d) < PricingFor(d).penalty THEN PricingFor(d).penalty ELSE DayCost(d)

\* Outstanding debt never makes Tue, Wed or Thu dearer.
SurchargeApplies(d) == Weekday(d) \notin {1, 2, 3}

Weight(level) == CASE level = "Easy" -> 1 [] level = "Medium" -> 2 [] level = "Hard" -> 4

-----------------------------------------------------------------------------
(* Entries and ledgers: _ledger, _ledger_entries, _ledger_io *)

CreditEntry(s, d, key) ==
  [id |-> <<"ac", s>>, kind |-> "credit", day |-> d, amount |-> 1,
   device |-> ThisDevice, signed |-> key, source |-> "leetcode"]

\* Mutant: the marker has an id of its own, which a harvest does not look for.
SeenEntryOwnId(s, d, key) ==
  [id |-> <<"seen", s>>, kind |-> "seen", day |-> d, amount |-> 0,
   device |-> ThisDevice, signed |-> key, source |-> "seed"]

SeenEntry(s, d, key) ==
  [id |-> <<"ac", s>>, kind |-> "seen", day |-> d, amount |-> 0,
   device |-> ThisDevice, signed |-> key, source |-> "seed"]

BootstrapEntry(d, key) ==
  [id |-> <<"bootstrap", d>>, kind |-> "bootstrap", day |-> d, amount |-> 0,
   device |-> ThisDevice, signed |-> key, source |-> "seed"]

ChargeEntry(d, source, surcharge, key) ==
  [id |-> <<"charge", d>>, kind |-> "charge", day |-> d,
   amount |-> DayCost(d) + surcharge,
   device |-> ThisDevice, signed |-> key, source |-> source]

ForgivenSources == {"escape", "leetcode-outage", "network-incident"}
ChargeSources == ForgivenSources \cup {"leetcode"}

IsEntry(e) ==
  /\ e.kind \in {"credit", "seen", "bootstrap", "charge"}
  /\ e.day \in Days /\ e.amount \in Nat /\ e.device \in Devices /\ e.signed \in BOOLEAN
  /\ e.kind \in {"credit", "seen"} => e.id = <<"ac", e.id[2]>> /\ e.id[2] \in Subs
  /\ e.kind \in {"charge", "bootstrap"} => e.id = <<e.kind, e.day>>

\* A ledger holds well-formed entries, at most one per id.
IsLedger(L) == \A e \in L : IsEntry(e) /\ \A f \in L : e.id = f.id => e = f

Has(L, id) == \E e \in L : e.id = id
OfKind(L, k) == {e \in L : e.kind = k}

\* Ids already present are left untouched: the ledger is append-only.
Append(L, new) == L \cup {e \in new : ~Has(L, e.id)}

NeedsSeeding(L) == OfKind(L, "bootstrap") = {}

\* Mutant: the bootstrap marker alone, as if the probe had covered nothing.
SeedMarkersBootstrapOnly(feed, d, key) == {BootstrapEntry(d, key)}

\* What seeding writes for one usable probe: a worthless marker per submission
\* in the feed, and the marker that seeding has happened.
SeedMarkers(feed, d, key) ==
  {SeenEntry(s, d, key) : s \in feed} \cup {BootstrapEntry(d, key)}

\* What one harvest mints: every submission in the feed the ledger lacks.
Fresh(L, feed, d, key) ==
  {CreditEntry(s, d, key) : s \in {x \in feed : ~Has(L, <<"ac", x>>)}}

-----------------------------------------------------------------------------
(* Trust and the balance: _balance, _difficulty                            *)
(* `ok` is Ledger.integrity_ok: the key could be read when it was loaded.  *)

IsTrusted(e, ok) == IF ok THEN e.signed ELSE e.device = ThisDevice

CountsTowardBalance(e, ok) ==
  \/ e.kind = "charge"
  \/ e.kind = "credit" /\ IsTrusted(e, ok)

\* `rows` is the set of problems with a trusted difficulty row; a credit
\* without one counts as Easy.
CreditValue(e, rows) ==
  LET slug == SlugOf[e.id[2]] IN
  e.amount * (IF slug \in rows THEN Weight(LevelOf[slug]) ELSE 1)

Credits(L, ok, rows) ==
  SumFunction([e \in {c \in OfKind(L, "credit") : CountsTowardBalance(c, ok)} |->
                 CreditValue(e, rows)])

\* What the credits on file are worth at most: each problem at its own level.
Worth(L) == SumFunction([e \in OfKind(L, "credit") |-> Weight(LevelOf[SlugOf[e.id[2]]])])

Charged(L) == SumFunction([e \in OfKind(L, "charge") |-> e.amount])

Available(L, ok, rows) == Credits(L, ok, rows) - Charged(L)

-----------------------------------------------------------------------------
(* The missed-day debt: _debt.  Derived from the ledger, never stored.     *)

ChargedDays(L) == {e.day : e \in OfKind(L, "charge")}

\* Mutants: today is already owed; the epoch is the first charge on file.
MissedDaysWithToday(L, day, off) ==
  {d \in DebtStart..day : d \notin ChargedDays(L) /\ d \notin off}
MissedDaysSinceFirstCharge(L, day, off) ==
  {d \in DebtStart..(day - 1) :
     d \notin off /\ d \notin ChargedDays(L) /\ \E c \in ChargedDays(L) : c < d}

\* `off` is the set of days that owe nothing: free, sick without leetcode, or
\* replaced by a focus project.
MissedDays(L, day, off) ==
  {d \in DebtStart..(day - 1) : d \notin ChargedDays(L) /\ d \notin off}

PriceOf(days) == SumFunction([d \in days |-> DayCost(d)])

Owed(L, day, off) == PriceOf(MissedDays(L, day, off))

\* What a charge took on top of the price of its day.
Excess(e) == IF e.amount > DayCost(e.day) THEN e.amount - DayCost(e.day) ELSE 0

Repaid(L, ok) ==
  SumFunction([e \in {c \in OfKind(L, "charge") : c.day >= DebtStart /\ IsTrusted(c, ok)} |->
                 Excess(e)])

Outstanding(L, ok, day, off) ==
  LET net == Owed(L, day, off) - Repaid(L, ok) IN IF net > 0 THEN net ELSE 0

SurchargeOn(L, ok, day, off) ==
  IF Outstanding(L, ok, day, off) > 0 /\ SurchargeApplies(day) THEN 1 ELSE 0

-----------------------------------------------------------------------------
(* The verdict: _clock_guard, _sick, _gate, _gate_today                    *)

\* Mutant: a clock one day behind is put down to the time zone.
ClockTrustedWithinADay(L, day) == \A d \in ChargedDays(L) : day + 1 >= d

ClockTrusted(L, day) == \A d \in ChargedDays(L) : day >= d

(* The pools a verdict consults, as sets of days: `free` is the shared     *)
(* free-day pool, `sick` the sick days that do not keep leetcode, `focus`  *)
(* the days of a focus project, `penalty` the days whose Tue-Thu discount  *)
(* a missed wake-alarm ring took away.                                     *)
StandsDown(pools, d) == d \in pools.sick \cup pools.focus
OffDays(pools) == pools.free \cup pools.sick \cup pools.focus
FocusDay(pools, d) == d \in pools.focus \ pools.sick

Cost(L, ok, day, pools) ==
  IF FocusDay(pools, day) THEN 0
  ELSE (IF day \in pools.penalty /\ ~StandsDown(pools, day)
        THEN PenalisedCost(day) ELSE DayCost(day))
       + SurchargeOn(L, ok, day, OffDays(pools))

\* Mutant: one credit short is enough.
AffordsOneShort(L, ok, day, pools, rows) ==
  Available(L, ok, rows) + 1 >= Cost(L, ok, day, pools)

Affords(L, ok, day, pools, rows) == Available(L, ok, rows) >= Cost(L, ok, day, pools)

LockedStates == {"locked-insufficient", "locked-clock"}

\* decide_today: the first condition that applies is the verdict.
DecideState(L, ok, day, pools, rows) ==
  IF ~ClockTrusted(L, day) THEN "locked-clock"
  ELSE IF day \in pools.free THEN "free-day"
  ELSE IF FocusDay(pools, day) THEN "focus-day"
  ELSE IF StandsDown(pools, day) THEN "sick-day"
  ELSE IF day < GateStart THEN "not-started"
  ELSE IF Has(L, <<"charge", day>>) THEN "already-charged"
  ELSE IF Affords(L, ok, day, pools, rows) THEN "charged-now"
  ELSE "locked-insufficient"

Locked(L, ok, day, pools, rows) == DecideState(L, ok, day, pools, rows) \in LockedStates

\* GateDecision.charge: the entry a "charged-now" verdict carries, if any.
DecideCharge(L, ok, day, pools, rows, key) ==
  IF DecideState(L, ok, day, pools, rows) = "charged-now"
  THEN {ChargeEntry(day, "leetcode", SurchargeOn(L, ok, day, OffDays(pools)), key)}
  ELSE {}

\* Mutant: a forgiven day is recorded at no cost.
SettleEntriesFree(L, day, source, key) ==
  IF Has(L, <<"charge", day>>) THEN {}
  ELSE {[ChargeEntry(day, source, 0, key) EXCEPT !.amount = 0]}

\* settle_day: the whole price without a surcharge, once.
SettleEntries(L, day, source, key) ==
  IF Has(L, <<"charge", day>>) THEN {} ELSE {ChargeEntry(day, source, 0, key)}
=============================================================================
