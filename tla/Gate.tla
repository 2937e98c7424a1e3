-------------------------------- MODULE Gate --------------------------------
(***************************************************************************)
(* The gate over the calendar: one machine, whose runs do not overlap.     *)
(* Every run of the program is one action -- the lock run of `cmd_lock`,   *)
(* one tick of an armed lock, the timer's harvest, a granted escape or     *)
(* outage -- between which days pass, solves are made, days are declared   *)
(* free or sick, the clock is set back and the HMAC key comes and goes.    *)
(* GuardRuns takes the same runs apart and lets them overlap.              *)
(***************************************************************************)
EXTENDS GateRules

CONSTANTS
  FeedLimit,   \* RECENT_AC_LIMIT: how many submissions the feed returns
  MaxBack,     \* bound: how often the clock is set back
  MaxMarks,    \* bound: how many days are declared free, sick, focus or penalised
  MaxKeyFlips, \* bound: how often the key becomes unreadable or readable
  MayBeUnseeded, \* whether the model starts before the first run
  Causes       \* which of the forgiven sources are exercised

ASSUME GateBounds ==
  /\ FeedLimit \in Nat \ {0} /\ MaxBack \in Nat /\ MaxMarks \in Nat
  /\ MaxKeyFlips \in Nat /\ MayBeUnseeded \in BOOLEAN
  /\ Causes \subseteq ForgivenSources

VARIABLES
  today,    \* the local date
  solved,   \* submissions accepted so far
  ledger,   \* ledger.json
  rows,     \* difficulty.json: the problems with a trusted row
  declared, \* what the shared free/sick/focus pools and the penalty file hold
  pools,    \* what they answer: nothing at all while they cannot be read
  keyOk,    \* whether the HMAC key can be read
  armed,    \* whether a lock window is up
  lockOk,   \* its Ledger.integrity_ok, read when it armed
  budget,   \* how often each bounded event may still happen
  preGate   \* history: the submissions made before the ledger was seeded

dayPools == <<declared, pools>>
vars == <<today, solved, ledger, rows, dayPools, keyOk, armed, lockOk, budget, preGate>>

\* The newest submissions, which is all fetch_recent_ac ever sees.
Feed == {s \in solved : Cardinality({x \in solved : x > s}) < FeedLimit}

PoolNames == {"free", "sick", "focus", "penalty"}

TypeOK ==
  /\ today \in Days /\ solved \subseteq Subs
  /\ IsLedger(ledger)
  /\ \A e \in ledger : e.kind \in {"credit", "seen"} => e.id[2] \in solved
  /\ rows \subseteq Slugs
  /\ declared \in [PoolNames -> SUBSET Days]
  /\ pools \in [PoolNames -> SUBSET Days]
  /\ \A p \in PoolNames : pools[p] \in {declared[p], {}}
  /\ keyOk \in BOOLEAN /\ armed \in BOOLEAN /\ lockOk \in BOOLEAN
  /\ budget \in [{"back", "mark", "key"} -> Nat]
  /\ preGate \subseteq solved

Init ==
  /\ today = 0 /\ solved = {} /\ rows = {}
  /\ ledger \in {{BootstrapEntry(0, TRUE)}} \cup (IF MayBeUnseeded THEN {{}} ELSE {})
  /\ declared = [p \in PoolNames |-> {}] /\ pools = declared
  /\ keyOk = TRUE /\ armed = FALSE /\ lockOk = TRUE
  /\ budget = [back |-> MaxBack, mark |-> MaxMarks, key |-> MaxKeyFlips]
  /\ preGate = {}

-----------------------------------------------------------------------------
(* The world *)

\* LeetCode accepts the next submission.
Solve ==
  /\ \E s \in Subs \ solved :
       /\ \A x \in Subs : x < s => x \in solved
       /\ solved' = solved \cup {s}
       /\ preGate' = IF NeedsSeeding(ledger) THEN preGate \cup {s} ELSE preGate
  /\ UNCHANGED <<today, ledger, rows, dayPools, keyOk, armed, lockOk, budget>>

\* Midnight -- of any later day, when the PC was off meanwhile.
Midnight ==
  /\ today' \in {d \in Days : d > today}
  /\ UNCHANGED <<solved, ledger, rows, dayPools, keyOk, armed, lockOk, budget, preGate>>

SetClockBack ==
  /\ budget.back > 0
  /\ today' \in {d \in Days : d < today}
  /\ budget' = [budget EXCEPT !.back = @ - 1]
  /\ UNCHANGED <<solved, ledger, rows, dayPools, keyOk, armed, lockOk, preGate>>

\* freedays mark, sickdays add, a focus project, a missed wake-alarm ring: each
\* may be declared late, for a day that is over and may have been paid for.
MarkDay ==
  /\ budget.mark > 0
  /\ \E p \in PoolNames, d \in Days :
       /\ d \notin declared[p]
       /\ declared' = [declared EXCEPT ![p] = @ \cup {d}]
       /\ pools' = IF pools[p] = declared[p] THEN [pools EXCEPT ![p] = @ \cup {d}] ELSE pools
  /\ budget' = [budget EXCEPT !.mark = @ - 1]
  /\ UNCHANGED <<today, solved, ledger, rows, keyOk, armed, lockOk, preGate>>

\* A pool that cannot be read says no to every day, and the rules apply as if
\* nothing had been declared.
PoolUnreadable ==
  /\ \E p \in PoolNames : pools[p] # {} /\ pools' = [pools EXCEPT ![p] = {}]
  /\ UNCHANGED <<today, solved, ledger, rows, declared, keyOk, armed, lockOk, budget, preGate>>

PoolReadable ==
  /\ \E p \in PoolNames :
       pools[p] # declared[p] /\ pools' = [pools EXCEPT ![p] = declared[p]]
  /\ UNCHANGED <<today, solved, ledger, rows, declared, keyOk, armed, lockOk, budget, preGate>>

\* The rows made without the key carry no signature: they are worth nothing
\* once it is back.
KeyFlips ==
  /\ budget.key > 0
  /\ keyOk' = ~keyOk
  /\ rows' \in IF keyOk THEN {rows} ELSE SUBSET rows
  /\ budget' = [budget EXCEPT !.key = @ - 1]
  /\ UNCHANGED <<today, solved, ledger, dayPools, armed, lockOk, preGate>>

-----------------------------------------------------------------------------
(* The runs *)

\* resolve_difficulties: each problem asked about gets its row, or LeetCode
\* does not answer for it and it stays priced as Easy.
Resolve(slugs) ==
  \E got \in SUBSET ({SlugOf[s] : s \in slugs} \ rows) : rows' = rows \cup got

\* Mint what the feed holds, then decide on today and write the charge, if any.
HarvestAndDecide(feed, ok) ==
  LET minted == Append(ledger, Fresh(ledger, feed, today, keyOk)) IN
  ledger' = minted \cup DecideCharge(minted, ok, today, pools, rows', keyOk)

\* The lock run: settle a day the bank can pay, seed a ledger that has never
\* been seeded and go away, or put the lock up.
LockRun ==
  /\ ~armed /\ today >= GateStart
  /\ UNCHANGED <<today, solved, rows, dayPools, keyOk, budget, preGate>>
  /\ IF ~Locked(ledger, keyOk, today, pools, rows)
     THEN /\ ledger' = ledger \cup DecideCharge(ledger, keyOk, today, pools, rows, keyOk)
          /\ UNCHANGED <<armed, lockOk>>
     ELSE \E answered \in BOOLEAN :
            IF NeedsSeeding(ledger) /\ answered
            THEN /\ ledger' = Append(ledger, SeedMarkers(Feed, today, keyOk))
                 /\ UNCHANGED <<armed, lockOk>>
            ELSE armed' = TRUE /\ lockOk' = keyOk /\ UNCHANGED ledger

\* Mutant: a tick that mints nothing returns before it decides.
PollTickOnlyOnGain(feed) ==
  /\ HarvestAndDecide(feed, lockOk)
  /\ armed' = \/ Fresh(ledger, feed, today, keyOk) = {}
              \/ Locked(ledger', lockOk, today, pools, rows')

\* What every tick of an armed lock comes to, answered or not.
PollTick(feed) ==
  /\ HarvestAndDecide(feed, lockOk)
  /\ armed' = Locked(ledger', lockOk, today, pools, rows')

PollAnswered ==
  /\ armed
  /\ Resolve(Feed)
  /\ PollTick(Feed)
  /\ UNCHANGED <<today, solved, dayPools, keyOk, lockOk, budget, preGate>>

\* A tick that LeetCode does not answer mints nothing, and still decides.
PollBlind ==
  /\ armed
  /\ UNCHANGED <<today, solved, rows, dayPools, keyOk, lockOk, budget, preGate>>
  /\ PollTick({})

\* An escape, an outage or a written network account is granted.
SettleAndRelease ==
  /\ armed
  /\ \E source \in Causes :
       ledger' = ledger \cup SettleEntries(ledger, today, source, keyOk)
  /\ armed' = FALSE
  /\ UNCHANGED <<today, solved, rows, dayPools, keyOk, lockOk, budget, preGate>>

\* The machine goes down under the lock: the ledger is whatever was saved.
PowerOff ==
  /\ armed /\ armed' = FALSE
  /\ UNCHANGED <<today, solved, ledger, rows, dayPools, keyOk, lockOk, budget, preGate>>

\* The one-minute harvest: no lock is up, never seeds, and settles today only
\* in a run that minted a credit.
HarvestRun ==
  /\ ~armed /\ today >= GateStart
  /\ ~NeedsSeeding(ledger)
  /\ Resolve({s \in Feed : ~Has(ledger, <<"ac", s>>)}
             \cup {e.id[2] : e \in OfKind(ledger, "credit")})
  /\ IF Fresh(ledger, Feed, today, keyOk) = {}
     THEN UNCHANGED ledger
     ELSE HarvestAndDecide(Feed, keyOk)
  /\ UNCHANGED <<today, solved, dayPools, keyOk, armed, lockOk, budget, preGate>>

Next ==
  \/ Solve \/ Midnight \/ SetClockBack \/ KeyFlips
  \/ MarkDay \/ PoolUnreadable \/ PoolReadable
  \/ LockRun \/ PollAnswered \/ PollBlind \/ SettleAndRelease \/ PowerOff
  \/ HarvestRun

Spec == Init /\ [][Next]_vars

\* The poll loop of an armed lock ticks for ever; everything else is up to the
\* user, the network and the timers.
FairSpec == Spec /\ WF_vars(PollAnswered \/ PollBlind)

-----------------------------------------------------------------------------
(* Properties *)

\* What the credits on file are worth once every problem has its row, and what
\* was forgiven.
Earned == Worth(ledger)
Forgiven == Charged({e \in ledger : e.source \in ForgivenSources})

\* The surcharges written while the key could not be read: signed for by nobody.
UnsignedExcess(L) ==
  SumFunction([e \in {c \in OfKind(L, "charge") : c.day >= DebtStart /\ ~c.signed} |-> Excess(e)])

(* Solves pay for every day that was not forgiven: whatever the order of     *)
(* runs, late difficulty rows, surcharges and a key that comes and goes, a   *)
(* verdict never spends a credit that was already spent (decide).            *)
Solvent == Earned + Forgiven >= Charged(ledger)

\* What was repaid on top of everything that was ever owed: no credit for it.
Overpaid ==
  LET over == Repaid(ledger, TRUE) - Owed(ledger, today, OffDays(pools))
  IN  IF over > 0 THEN over ELSE 0

(* No run of the gate takes a surcharge that nothing was outstanding for --  *)
(* with whatever key the window was armed, in one charge or in several runs: *)
(* the account overpays only "a charge surcharged before a free day cleared  *)
(* the debt", so only when a day that was owed turns out to be off, or the   *)
(* clock goes back (compute_debt, surcharge_on).                             *)
OnlyALateOffDayOverpays ==
  [][today' >= today /\ OffDays(pools') = OffDays(pools) => Overpaid' <= Overpaid]_vars

(* Paying for a day, escaping it and missing it come to the same: what was   *)
(* charged plus what is still owed for the whole calendar, less what was     *)
(* repaid, is the price of the days that were not off -- and the surcharges  *)
(* of entries written while the key could not be read, which repay nothing   *)
(* (charge_entry, settle_day, compute_debt, is_trusted).                     *)
EveryDayCostsItsPrice ==
  LET off == OffDays(pools)
      priced == {d \in Days : d >= DebtStart /\ (d \notin off \/ d \in ChargedDays(ledger))}
      early == {e \in ledger : e.day < DebtStart}
  IN  Charged(ledger) + Owed(ledger, LastDay + 1, off) - Repaid(ledger, TRUE)
        = PriceOf(priced) + Charged(early) + UnsignedExcess(ledger)

(* Losing rows of the ledger never lowers the debt -- one row or the whole   *)
(* file: "deleting the ledger grows it" (compute_debt derives, never stores).*)
ForgettingNeverPays ==
  LET off == OffDays(pools)
      before == Outstanding(ledger, TRUE, today, off)
  IN  /\ \A e \in ledger : Outstanding(ledger \ {e}, TRUE, today, off) >= before
      /\ Outstanding({}, TRUE, today, off) >= before

(* seed_ledger refuses a probe it could not read because the next tick would *)
(* then "harvest the whole recent feed as credits -- exactly the outcome     *)
(* seeding exists to prevent": no credit enters a ledger never seeded.       *)
CreditsOnlyAfterSeeding ==
  [][NeedsSeeding(ledger) => OfKind(ledger', "credit") = OfKind(ledger, "credit")]_vars

(* "What today costs in full": the charge a verdict carries is the cost the  *)
(* verdict names (GateDecision.cost, workday_penalty).                       *)
ChargeIsTheCost ==
  \A e \in DecideCharge(ledger, keyOk, today, pools, rows, keyOk) :
    e.amount = Cost(ledger, keyOk, today, pools)

(* Once the ledger is seeded, no submission made before that ever earns a    *)
(* credit, however late and by whichever run the feed is read again          *)
(* (seed_ledger, harvest).                                                   *)
PreGateNeverEarns ==
  [][~NeedsSeeding(ledger) =>
       \A e \in ledger' \ ledger : e.kind = "credit" => e.id[2] \notin preGate]_vars

(* The ledger is an account book: every run of the gate is a step of Bank -- *)
(* solves are banked, today is paid from them, once, at its price and never  *)
(* on a clock behind a settled day, or it is forgiven; no other row, day or  *)
(* amount ever changes (decide, apply_decision, settle_day, harvest).        *)
NotForgiven(L) == {e \in L : e.source \notin ForgivenSources}
Settled(L, d) ==
  LET causes == {e.source : e \in {c \in OfKind(L, "charge") : c.day = d}} IN
  IF causes = {} THEN "open" ELSE IF causes \subseteq ForgivenSources THEN "forgiven" ELSE "paid"

Books == INSTANCE Bank WITH
  Price <- [d \in Days |-> DayCost(d)], First <- GateStart, Epoch <- DebtStart,
  Dear <- {d \in Days : SurchargeApplies(d)},
  date <- today, earned <- Worth(ledger), spent <- Charged(NotForgiven(ledger)),
  day <- [d \in Days |-> Settled(ledger, d)]
KeepsTheBooks == Books!Spec

(* A lock that is up comes down once the day can be paid or stands down,     *)
(* even if LeetCode never answers again (every poll ends in a decision).     *)
PayableDayUnlocks ==
  armed /\ ~Locked(ledger, lockOk, today, pools, rows)
    ~> (~armed \/ Locked(ledger, lockOk, today, pools, rows))
=============================================================================
