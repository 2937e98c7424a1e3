----------------------------- MODULE Gate_proofs -----------------------------
(***************************************************************************)
(* Proofs about Gate and what is read from its ledger (Forecast,           *)
(* SolvedToday), for every calendar, price era, history of solves, feed    *)
(* length and bound on the events of the world.                            *)
(***************************************************************************)
EXTENDS SolvedToday, GateRules_proofs, FiniteSetTheorems

USE DEF dayPools

\* What becomes of the declared days, and of what the pools answer.
PoolsChange == MarkDay \/ PoolUnreadable \/ PoolReadable

(* The inductive invariant.  A submission made before seeding is either on  *)
(* file, as a marker or (when the lock armed before seeding) as a credit,   *)
(* or so old that the feed will never show it again.                        *)
PreGateIsCovered ==
  ~NeedsSeeding(ledger) => \A s \in preGate : Has(ledger, <<"ac", s>>) \/ s \notin Feed

GInv == TypeOK /\ IsFiniteSet(solved) /\ PreGateIsCovered

(* The feed only ever forgets: a submission that newer ones have pushed out *)
(* does not come back (fetch_recent_ac, RECENT_AC_LIMIT).                   *)
LEMMA FeedForgets ==
  ASSUME IsFiniteSet(solved'), solved \subseteq solved', NEW s \in solved, s \notin Feed
  PROVE  s \notin Feed'
<1> DEFINE older == {x \in solved : x > s}
           newer == {x \in solved' : x > s}
<1>1. older \subseteq newer /\ IsFiniteSet(newer)
  BY FS_Subset
<1>2. Cardinality(older) <= Cardinality(newer)
  BY <1>1, FS_Subset
<1>3. IsFiniteSet(older) /\ Cardinality(older) \in Nat /\ Cardinality(newer) \in Nat
  BY <1>1, FS_Subset, FS_CardinalityType
<1>4. ~(Cardinality(older) < FeedLimit)
  BY DEF Feed
<1>5. ~(Cardinality(newer) < FeedLimit)
  BY <1>2, <1>3, <1>4, GateBounds DEF GateBounds
<1> QED
  BY <1>5 DEF Feed

(* A ledger that has been seeded stays seeded, and what is on file stays.   *)
LEMMA GrowingKeeps ==
  ASSUME NEW L, NEW M, L \subseteq M
  PROVE  /\ NeedsSeeding(M) => NeedsSeeding(L)
         /\ \A id : Has(L, id) => Has(M, id)
BY DEF NeedsSeeding, OfKind, Has

LEMMA InitGInv == Init => GInv
<1> SUFFICES ASSUME Init PROVE GInv
  OBVIOUS
<1> USE CalendarAssumption, WorldAssumption, GateBounds
    DEF CalendarAssumption, WorldAssumption, GateBounds
<1>1. IsLedger(ledger) /\ \A e \in ledger : e.kind = "bootstrap"
  <2>1. 0 \in Days
    BY DEF Days
  <2>2. IsEntry(BootstrapEntry(0, TRUE)) /\ BootstrapEntry(0, TRUE).kind = "bootstrap"
    BY <2>1 DEF IsEntry, BootstrapEntry
  <2>3. ledger = {BootstrapEntry(0, TRUE)} \/ ledger = {}
    BY DEF Init
  <2> QED
    BY <2>2, <2>3 DEF IsLedger
<1>2. TypeOK
  <2>1. budget \in [{"back", "mark", "key"} -> Nat]
    BY DEF Init
  <2>2. /\ declared \in [PoolNames -> SUBSET Days] /\ pools \in [PoolNames -> SUBSET Days]
        /\ \A p \in PoolNames : pools[p] \in {declared[p], {}}
    BY DEF Init
  <2>3. today \in Days /\ solved = {} /\ rows = {} /\ preGate = {}
    BY DEF Init, Days
  <2>4. keyOk \in BOOLEAN /\ armed \in BOOLEAN /\ lockOk \in BOOLEAN
    BY DEF Init
  <2>5. \A e \in ledger : e.kind \in {"credit", "seen"} => e.id[2] \in solved
    BY <1>1
  <2> QED
    BY <1>1, <2>1, <2>2, <2>3, <2>4, <2>5 DEF TypeOK
<1>3. IsFiniteSet(solved)
  BY FS_EmptySet DEF Init
<1>4. PreGateIsCovered
  BY DEF Init, PreGateIsCovered
<1> QED
  BY <1>2, <1>3, <1>4 DEF GInv

(* A step that only adds well-formed entries of known submissions to the    *)
(* ledger keeps the invariant.                                              *)
LEMMA LedgerGrows ==
  ASSUME GInv, UNCHANGED <<today, solved, dayPools, keyOk, budget, preGate>>,
         ledger \subseteq ledger', IsLedger(ledger'),
         \A e \in ledger' \ ledger : e.kind \in {"credit", "seen"} => e.id[2] \in solved,
         rows' \subseteq Slugs, armed' \in BOOLEAN, lockOk' \in BOOLEAN,
         NeedsSeeding(ledger) /\ ~NeedsSeeding(ledger') =>
           \A s \in preGate : Has(ledger', <<"ac", s>>) \/ s \notin Feed
  PROVE  GInv'
<1>1. TypeOK'
  BY DEF GInv, TypeOK
<1>2. Feed' = Feed
  BY DEF Feed
<1>3. PreGateIsCovered'
  BY <1>2, GrowingKeeps DEF GInv, PreGateIsCovered
<1> QED
  BY <1>1, <1>3 DEF GInv

(* What HarvestAndDecide adds: credits for submissions in the feed that the *)
(* ledger lacked, and the charge of the day.                                *)
LEMMA HarvestAndDecideAdds ==
  ASSUME GInv, NEW feed, feed \subseteq solved, NEW ok, HarvestAndDecide(feed, ok)
  PROVE  /\ ledger \subseteq ledger' /\ IsLedger(ledger')
         /\ NeedsSeeding(ledger') => NeedsSeeding(ledger)
         /\ NeedsSeeding(ledger) => NeedsSeeding(ledger')
         /\ \A e \in ledger' \ ledger :
              \/ e.kind = "charge"
              \/ /\ e.kind = "credit" /\ e.id[2] \in feed /\ ~Has(ledger, <<"ac", e.id[2]>>)
<1> DEFINE fresh == Fresh(ledger, feed, today, keyOk)
           minted == Append(ledger, fresh)
           charge == DecideCharge(minted, ok, today, pools, rows', keyOk)
<1>1. /\ IsLedger(ledger) /\ feed \subseteq Subs /\ today \in Days /\ keyOk \in BOOLEAN
  BY DEF GInv, TypeOK
<1>2. IsLedger(minted)
  BY <1>1, FreshIsLedger, AppendIsLedger
<1>3. ledger' = minted \cup charge
  BY DEF HarvestAndDecide
<1>4. IsLedger(ledger')
  BY <1>1, <1>2, <1>3, DecideKeepsLedger
<1>5. \A e \in fresh : e.kind = "credit" /\ e.id[2] \in feed /\ ~Has(ledger, <<"ac", e.id[2]>>)
  <2>1. \A s : CreditEntry(s, today, keyOk).kind = "credit" /\ CreditEntry(s, today, keyOk).id[2] = s
    BY DEF CreditEntry
  <2> QED
    BY <2>1 DEF Fresh
<1>6. \A e \in charge : e.kind = "charge"
  BY DEF DecideCharge, ChargeEntry
<1>7. ledger \subseteq minted /\ minted \subseteq ledger \cup fresh
  BY DEF Append
<1> HIDE DEF fresh, minted, charge
<1>8. \A e \in ledger' \ ledger :
              \/ e.kind = "charge"
              \/ /\ e.kind = "credit" /\ e.id[2] \in feed /\ ~Has(ledger, <<"ac", e.id[2]>>)
  BY <1>3, <1>5, <1>6, <1>7
<1> QED
  BY <1>3, <1>4, <1>7, <1>8 DEF NeedsSeeding, OfKind

LEMMA ResolveRows ==
  ASSUME rows \subseteq Slugs, NEW asked, asked \subseteq Subs, Resolve(asked)
  PROVE  rows' \subseteq Slugs
<1> DEFINE problems == {SlugOf[s] : s \in asked}
<1>1. PICK got \in SUBSET (problems \ rows) : rows' = rows \cup got
  BY DEF Resolve
<1>2. problems \subseteq Slugs
  BY DEF Slugs
<1> HIDE DEF problems
<1> QED
  BY <1>1, <1>2

LEMMA FeedIsSolved == Feed \subseteq solved
BY DEF Feed

LEMMA PoolsInd ==
  ASSUME GInv, PoolsChange
  PROVE  /\ declared' \in [PoolNames -> SUBSET Days] /\ pools' \in [PoolNames -> SUBSET Days]
         /\ \A p \in PoolNames : pools'[p] \in {declared'[p], {}}
<1>1. /\ declared \in [PoolNames -> SUBSET Days] /\ pools \in [PoolNames -> SUBSET Days]
      /\ \A p \in PoolNames : pools[p] \in {declared[p], {}}
  BY DEF GInv, TypeOK
<1>2. CASE MarkDay
  <2>1. PICK p \in PoolNames, d \in Days :
          /\ declared' = [declared EXCEPT ![p] = @ \cup {d}]
          /\ pools' = IF pools[p] = declared[p] THEN [pools EXCEPT ![p] = @ \cup {d}] ELSE pools
    BY <1>2 DEF MarkDay
  <2>2. declared' \in [PoolNames -> SUBSET Days] /\ pools' \in [PoolNames -> SUBSET Days]
    BY <1>1, <2>1
  <2>3. ASSUME NEW q \in PoolNames PROVE pools'[q] \in {declared'[q], {}}
    <3>1. CASE q = p /\ pools[p] = declared[p]
      BY <1>1, <2>1, <3>1
    <3>2. CASE q = p /\ pools[p] # declared[p]
      BY <1>1, <2>1, <3>2
    <3>3. CASE q # p
      BY <1>1, <2>1, <3>3
    <3> QED
      BY <3>1, <3>2, <3>3
  <2> QED
    BY <2>2, <2>3
<1>3. CASE PoolUnreadable
  <2>1. PICK p \in PoolNames : pools' = [pools EXCEPT ![p] = {}]
    BY <1>3 DEF PoolUnreadable
  <2>2. declared' = declared
    BY <1>3 DEF PoolUnreadable
  <2> QED
    BY <1>1, <2>1, <2>2
<1>4. CASE PoolReadable
  <2>1. PICK p \in PoolNames : pools' = [pools EXCEPT ![p] = declared[p]]
    BY <1>4 DEF PoolReadable
  <2>2. declared' = declared
    BY <1>4 DEF PoolReadable
  <2> QED
    BY <1>1, <2>1, <2>2
<1> QED
  BY <1>2, <1>3, <1>4 DEF PoolsChange

LEMMA WorldInd == GInv /\ (Midnight \/ SetClockBack \/ PoolsChange \/ KeyFlips) => GInv'
<1> SUFFICES ASSUME GInv, Midnight \/ SetClockBack \/ PoolsChange \/ KeyFlips PROVE GInv'
  OBVIOUS
<1> USE DEF PoolsChange
<1>1. UNCHANGED <<solved, ledger, armed, lockOk, preGate>>
  BY DEF Midnight, SetClockBack, MarkDay, PoolUnreadable, PoolReadable, KeyFlips
<1>2. PreGateIsCovered'
  BY <1>1 DEF GInv, PreGateIsCovered, Feed
<1>3. today' \in Days /\ keyOk' \in BOOLEAN /\ rows' \subseteq Slugs
  BY DEF Midnight, SetClockBack, MarkDay, PoolUnreadable, PoolReadable, KeyFlips, GInv, TypeOK
<1>4. /\ declared' \in [PoolNames -> SUBSET Days] /\ pools' \in [PoolNames -> SUBSET Days]
      /\ \A p \in PoolNames : pools'[p] \in {declared'[p], {}}
  <2>1. CASE Midnight \/ SetClockBack \/ KeyFlips
    BY <2>1 DEF Midnight, SetClockBack, KeyFlips, GInv, TypeOK
  <2> QED
    BY <2>1, PoolsInd
<1>5. budget' \in [{"back", "mark", "key"} -> Nat]
  <2>1. budget' = budget \/ \E b \in {"back", "mark", "key"} :
          budget[b] > 0 /\ budget' = [budget EXCEPT ![b] = @ - 1]
    BY DEF Midnight, SetClockBack, MarkDay, PoolUnreadable, PoolReadable, KeyFlips
  <2> QED
    BY <2>1 DEF GInv, TypeOK
<1>6. TypeOK'
  BY <1>1, <1>3, <1>4, <1>5 DEF GInv, TypeOK
<1> QED
  BY <1>1, <1>2, <1>6 DEF GInv

LEMMA SolveInd == GInv /\ Solve => GInv'
<1> SUFFICES ASSUME GInv, Solve PROVE GInv'
  OBVIOUS
<1>1. PICK s \in Subs \ solved :
        /\ solved' = solved \cup {s}
        /\ preGate' = IF NeedsSeeding(ledger) THEN preGate \cup {s} ELSE preGate
  BY DEF Solve
<1>2. UNCHANGED <<today, ledger, rows, dayPools, keyOk, armed, lockOk, budget>>
  BY DEF Solve
<1>3. IsFiniteSet(solved')
  BY <1>1, FS_AddElement DEF GInv
<1>4. TypeOK'
  BY <1>1, <1>2 DEF GInv, TypeOK
<1>5. PreGateIsCovered'
  <2> SUFFICES ASSUME ~NeedsSeeding(ledger), NEW x \in preGate, ~Has(ledger, <<"ac", x>>)
               PROVE  x \notin Feed'
    BY <1>1, <1>2 DEF PreGateIsCovered
  <2>1. x \in solved /\ x \notin Feed
    BY DEF GInv, PreGateIsCovered, TypeOK
  <2> QED
    BY <1>1, <1>3, <2>1, FeedForgets
<1> QED
  BY <1>3, <1>4, <1>5 DEF GInv

LEMMA RunsInd ==
  GInv /\ (LockRun \/ PollAnswered \/ PollBlind \/ SettleAndRelease \/ PowerOff \/ HarvestRun)
    => GInv'
<1> SUFFICES ASSUME GInv,
                    LockRun \/ PollAnswered \/ PollBlind \/ SettleAndRelease \/ PowerOff
                      \/ HarvestRun
             PROVE  GInv'
  OBVIOUS
<1>1. UNCHANGED <<today, solved, dayPools, keyOk, budget, preGate>>
  BY DEF LockRun, PollAnswered, PollBlind, SettleAndRelease, PowerOff, HarvestRun
<1>2. /\ IsLedger(ledger) /\ today \in Days /\ keyOk \in BOOLEAN /\ lockOk \in BOOLEAN
      /\ armed \in BOOLEAN /\ rows \subseteq Slugs /\ solved \subseteq Subs
      /\ \A e \in ledger : e.kind \in {"credit", "seen"} => e.id[2] \in solved
  BY DEF GInv, TypeOK
<1>3. Feed \subseteq solved /\ Feed \subseteq Subs
  BY <1>2, FeedIsSolved
<1>4. ASSUME NEW feed, feed \subseteq solved, NEW ok, HarvestAndDecide(feed, ok),
             rows' \subseteq Slugs, armed' \in BOOLEAN, lockOk' = lockOk
      PROVE  GInv'
  <2>1. \A e \in ledger' \ ledger : e.kind \in {"credit", "seen"} => e.id[2] \in solved
    BY <1>4, HarvestAndDecideAdds
  <2> QED
    BY <1>1, <1>2, <1>4, <2>1, HarvestAndDecideAdds, LedgerGrows
<1>5. ASSUME NEW charge, ledger' = ledger \cup charge, IsLedger(ledger'),
             \A e \in charge : e.kind = "charge",
             rows' = rows, armed' \in BOOLEAN, lockOk' \in BOOLEAN
      PROVE  GInv'
  <2>1. NeedsSeeding(ledger) => NeedsSeeding(ledger')
    BY <1>5 DEF NeedsSeeding, OfKind
  <2> QED
    BY <1>1, <1>2, <1>5, <2>1, LedgerGrows
<1>5a. ASSUME ledger' = ledger, rows' = rows, armed' \in BOOLEAN, lockOk' \in BOOLEAN
       PROVE  GInv'
  BY <1>1, <1>2, <1>5a, LedgerGrows
<1>6. CASE LockRun
  <2> DEFINE charge == DecideCharge(ledger, keyOk, today, pools, rows, keyOk)
             marked == Append(ledger, SeedMarkers(Feed, today, keyOk))
  <2>1. CASE ledger' = ledger \cup charge /\ UNCHANGED <<armed, lockOk, rows>>
    <3>1. \A e \in charge : e.kind = "charge"
      BY DEF DecideCharge, ChargeEntry
    <3>2. IsLedger(ledger')
      BY <1>2, <2>1, DecideKeepsLedger
    <3> QED
      BY <1>2, <1>5, <2>1, <3>1, <3>2
  <2>2. CASE ledger' = marked /\ UNCHANGED <<armed, lockOk, rows>>
    <3>1. IsLedger(ledger')
      BY <1>2, <1>3, <2>2, SeedMarkersAreLedger, AppendIsLedger
    <3>2. \A e \in ledger' \ ledger : e.kind \in {"credit", "seen"} => e.id[2] \in solved
      BY <1>3, <2>2 DEF Append, SeedMarkers, SeenEntry, BootstrapEntry
    <3>3. \A s \in Feed : Has(ledger', <<"ac", s>>)
      <4> TAKE s \in Feed
      <4> DEFINE e == SeenEntry(s, today, keyOk)
      <4>1. e \in SeedMarkers(Feed, today, keyOk) /\ e.id = <<"ac", s>>
        BY DEF SeedMarkers, SeenEntry
      <4> HIDE DEF e
      <4> QED
        BY <2>2, <4>1 DEF Append, Has
    <3>4. ledger \subseteq ledger'
      BY <2>2 DEF Append
    <3> QED
      BY <1>1, <1>2, <2>2, <3>1, <3>2, <3>3, <3>4, LedgerGrows
  <2>3. CASE ledger' = ledger /\ armed' = TRUE /\ lockOk' = keyOk /\ rows' = rows
    BY <1>2, <1>5a, <2>3
  <2>4. rows' = rows
    BY <1>6 DEF LockRun
  <2>5. \/ ledger' = ledger \cup charge /\ UNCHANGED <<armed, lockOk>>
        \/ ledger' = marked /\ UNCHANGED <<armed, lockOk>>
        \/ ledger' = ledger /\ armed' = TRUE /\ lockOk' = keyOk
    BY <1>6 DEF LockRun
  <2> HIDE DEF charge, marked
  <2> QED
    BY <2>1, <2>2, <2>3, <2>4, <2>5
<1>7. CASE PollAnswered
  <2>1. rows' \subseteq Slugs
    BY <1>2, <1>3, <1>7, ResolveRows DEF PollAnswered
  <2> QED
    BY <1>3, <1>4, <1>7, <2>1 DEF PollAnswered, PollTick, Locked
<1>8. CASE PollBlind
  BY <1>2, <1>4, <1>8 DEF PollBlind, PollTick, Locked
<1>9. CASE SettleAndRelease
  <2>1. PICK source \in Causes : ledger' = ledger \cup SettleEntries(ledger, today, source, keyOk)
    BY <1>9 DEF SettleAndRelease
  <2>2. IsLedger(ledger')
    BY <1>2, <2>1, SettleKeepsLedger
  <2>3. \A e \in SettleEntries(ledger, today, source, keyOk) : e.kind = "charge"
    BY DEF SettleEntries, ChargeEntry
  <2> QED
    BY <1>2, <1>5, <1>9, <2>1, <2>2, <2>3 DEF SettleAndRelease
<1>10. CASE PowerOff
  BY <1>2, <1>5a, <1>10 DEF PowerOff
<1>11. CASE HarvestRun
  <2> DEFINE asked == {s \in Feed : ~Has(ledger, <<"ac", s>>)}
                        \cup {e.id[2] : e \in OfKind(ledger, "credit")}
  <2>1. asked \subseteq Subs
    BY <1>2, <1>3 DEF OfKind
  <2>2. rows' \subseteq Slugs
    BY <1>2, <1>11, <2>1, ResolveRows DEF HarvestRun
  <2>3. CASE ledger' = ledger
    <3>1. armed' = armed /\ lockOk' = lockOk
      BY <1>11 DEF HarvestRun
    <3> QED
      BY <1>1, <1>2, <2>2, <2>3, <3>1, LedgerGrows
  <2>4. CASE HarvestAndDecide(Feed, keyOk)
    BY <1>2, <1>3, <1>4, <1>11, <2>2, <2>4 DEF HarvestRun
  <2> QED
    BY <1>11, <2>3, <2>4 DEF HarvestRun
<1> QED
  BY <1>6, <1>7, <1>8, <1>9, <1>10, <1>11

LEMMA StepInd == GInv /\ [Next]_vars => GInv'
<1> SUFFICES ASSUME GInv, [Next]_vars PROVE GInv'
  OBVIOUS
<1>1. CASE UNCHANGED vars
  <2>1. UNCHANGED <<today, solved, ledger, rows, dayPools, keyOk, armed, lockOk, budget, preGate>>
    BY <1>1 DEF vars
  <2>2. TypeOK'
    BY <2>1 DEF GInv, TypeOK
  <2>3. PreGateIsCovered'
    BY <2>1 DEF GInv, PreGateIsCovered, Feed
  <2> QED
    BY <2>1, <2>2, <2>3 DEF GInv
<1> QED
  BY <1>1, WorldInd, SolveInd, RunsInd DEF Next, PoolsChange

(* Type correctness: whatever the order of runs, the ledger is well formed, *)
(* holds one entry per id, and no credit or marker is for a submission that *)
(* was never made (append, harvest, seed_ledger, settle_day).               *)
THEOREM TypeCorrect == Spec => []TypeOK
<1>1. GInv => TypeOK
  BY DEF GInv
<1> QED
  BY InitGInv, StepInd, <1>1, PTL DEF Spec

(* Once the ledger is seeded, no run ever mints a credit for a submission   *)
(* that was made before it was -- also when the feed had already forgotten  *)
(* the submission at seeding, when the lock armed before seeding, and with  *)
(* any feed length (seed_ledger, harvest, fetch_recent_ac).                 *)
THEOREM HistoryNeverEarns == Spec => PreGateNeverEarns
<1> DEFINE NoneEarns ==
      ~NeedsSeeding(ledger) =>
        \A e \in ledger' \ ledger : e.kind = "credit" => e.id[2] \notin preGate
<1>1. GInv /\ [Next]_vars => [NoneEarns]_vars
  <2> SUFFICES ASSUME GInv, Next, ~NeedsSeeding(ledger),
                      NEW e \in ledger' \ ledger, e.kind = "credit"
               PROVE  e.id[2] \notin preGate
    OBVIOUS
  <2>1. CASE Solve \/ Midnight \/ SetClockBack \/ PoolsChange \/ KeyFlips \/ PowerOff
    BY <2>1 DEF Solve, Midnight, SetClockBack, PoolsChange, MarkDay, PoolUnreadable, PoolReadable,
                KeyFlips, PowerOff
  <2>2. ASSUME NEW feed, feed \subseteq Feed, NEW ok, HarvestAndDecide(feed, ok)
        PROVE  e.id[2] \notin preGate
    <3>1. feed \subseteq solved
      BY <2>2, FeedIsSolved
    <3>2. e.id[2] \in Feed /\ ~Has(ledger, <<"ac", e.id[2]>>)
      BY <2>2, <3>1, HarvestAndDecideAdds
    <3> QED
      BY <3>2 DEF GInv, PreGateIsCovered
  <2>3. CASE PollAnswered \/ PollBlind
    BY <2>2, <2>3 DEF PollAnswered, PollBlind, PollTick
  <2>4. CASE HarvestRun
    BY <2>2, <2>4 DEF HarvestRun
  <2>5. CASE LockRun
    <3>1. e \in DecideCharge(ledger, keyOk, today, pools, rows, keyOk)
      BY <2>5 DEF LockRun
    <3> QED
      BY <3>1 DEF DecideCharge, ChargeEntry
  <2>6. CASE SettleAndRelease
    BY <2>6 DEF SettleAndRelease, SettleEntries, ChargeEntry
  <2> QED
    BY <2>1, <2>3, <2>4, <2>5, <2>6 DEF Next, PoolsChange
<1> QED
  BY InitGInv, StepInd, <1>1, PTL DEF Spec, PreGateNeverEarns
-----------------------------------------------------------------------------
(* The account.  What must be known of a ledger for its sums to come out:   *)
(* a credit is one submission, a charge is the price of its day or one more,*)
(* this device wrote every row -- and the solves pay for what was spent.    *)
OwnEntries(L) == \A e \in L : e.device = ThisDevice
PricedCharges(L) ==
  \A e \in OfKind(L, "charge") : e.amount = DayCost(e.day) \/ e.amount = DayCost(e.day) + 1
ForgivenIn(L) == {e \in L : e.source \in ForgivenSources}
PaidFor(L) == Worth(L) + Charged(ForgivenIn(L)) >= Charged(L)

Account(L) ==
  /\ FiniteLedger(L) /\ UnitCredits(L) /\ OwnEntries(L) /\ PricedCharges(L)
  /\ PaidFor(L)

(* No more is repaid than was owed, but for n credits of it.                *)
RepaidWithin(L, day, off, n) == Repaid(L, TRUE) <= Owed(L, day, off) + n

LEMMA MintingKeepsAccount ==
  ASSUME NEW L, NEW M, Account(L), Minted(L, M), \A e \in M \ L : e.device = ThisDevice
  PROVE  Account(M)
<1>1. /\ FiniteLedger(M) /\ L \in SUBSET M
      /\ OfKind(M, "charge") = OfKind(L, "charge") /\ Charged(M) = Charged(L)
      /\ UnitCredits(M)
  BY MintingKeepsCharges DEF Minted, Account
<1>2. OwnEntries(M) /\ PricedCharges(M)
  BY <1>1 DEF Account, OwnEntries, PricedCharges
<1>3. Worth(L) \in Nat /\ Worth(M) \in Nat /\ Worth(L) <= Worth(M)
  BY <1>1, WorthGrows
<1>4. Charged(ForgivenIn(M)) = Charged(ForgivenIn(L))
  <2>1. OfKind(ForgivenIn(M), "charge") = OfKind(ForgivenIn(L), "charge")
    BY <1>1 DEF OfKind, ForgivenIn
  <2> QED
    BY <2>1, ChargedIgnores
<1>5. Charged(L) \in Nat /\ Charged(ForgivenIn(L)) \in Nat
  <2>1. ForgivenIn(L) \in SUBSET L
    BY DEF ForgivenIn
  <2> QED
    BY <2>1, PartIsFinite, ChargedIsNat DEF Account
<1>6. PaidFor(M)
  BY <1>1, <1>3, <1>4, <1>5 DEF Account, PaidFor
<1> QED
  BY <1>1, <1>2, <1>6 DEF Account

(* A charge that the solves pay for, or that is forgiven, keeps the account.*)
LEMMA ChargingKeepsAccount ==
  ASSUME NEW L, Account(L), NEW e, e \notin L, e.kind = "charge", FiniteLedger(L \cup {e}),
         e.device = ThisDevice, e.amount = DayCost(e.day) \/ e.amount = DayCost(e.day) + 1,
         e.source \in ForgivenSources \/ Charged(L \cup {e}) <= Worth(L)
  PROVE  Account(L \cup {e})
<1> DEFINE M == L \cup {e}
<1>1. UnitCredits(M) /\ OwnEntries(M) /\ PricedCharges(M)
  BY DEF Account, UnitCredits, OwnEntries, PricedCharges, OfKind
<1>2. Worth(M) = Worth(L)
  <2>1. OfKind(M, "credit") = OfKind(L, "credit")
    BY DEF OfKind
  <2> QED
    BY <2>1 DEF Worth
<1>3. Worth(L) \in Nat /\ Charged(L) \in Nat /\ e.amount \in Nat
  <2>1. L \in SUBSET L
    OBVIOUS
  <2> QED
    BY <2>1, WorthGrows, ChargedIsNat DEF Account, FiniteLedger, IsLedger, IsEntry
<1>4. Charged(M) = Charged(L) + e.amount
  BY ChargedAdds
<1>5. /\ FiniteLedger(ForgivenIn(L)) /\ FiniteLedger(ForgivenIn(M))
      /\ Charged(ForgivenIn(L)) \in Nat /\ Charged(ForgivenIn(M)) \in Nat
  <2>1. ForgivenIn(L) \in SUBSET L /\ ForgivenIn(M) \in SUBSET M
    BY DEF ForgivenIn
  <2> HIDE DEF M
  <2>2. FiniteLedger(ForgivenIn(L)) /\ FiniteLedger(ForgivenIn(M))
    BY <2>1, PartIsFinite DEF Account, M
  <2> QED
    BY <2>2, ChargedIsNat
<1>6. PaidFor(M)
  <2>1. CASE Charged(M) <= Worth(L)
    BY <1>2, <1>3, <1>4, <1>5, <2>1 DEF PaidFor
  <2>2. CASE e.source \in ForgivenSources
    <3>1. ForgivenIn(M) = ForgivenIn(L) \cup {e} /\ e \notin ForgivenIn(L)
      BY <2>2 DEF ForgivenIn
    <3>2. Charged(ForgivenIn(L) \cup {e}) = Charged(ForgivenIn(L)) + e.amount
      BY <1>5, <3>1, ChargedAdds
    <3>3. Charged(ForgivenIn(M)) = Charged(ForgivenIn(L)) + e.amount
      BY <3>1, <3>2
    <3>4. Worth(L) + Charged(ForgivenIn(L)) >= Charged(L)
      BY DEF Account, PaidFor
    <3> HIDE DEF M
    <3> QED
      BY <1>2, <1>3, <1>4, <1>5, <3>3, <3>4 DEF PaidFor
  <2> QED
    BY <2>1, <2>2
<1> QED
  BY <1>1, <1>6 DEF Account

LEMMA DecideKeepsAccount ==
  ASSUME NEW L, Account(L), NEW ok, NEW d \in Days, NEW key \in BOOLEAN,
         NEW who, NEW known
  PROVE  Account(L \cup DecideCharge(L, ok, d, who, known, key))
<1> DEFINE s == SurchargeOn(L, ok, d, OffDays(who))
           e == ChargeEntry(d, "leetcode", s, key)
<1>1. CASE DecideState(L, ok, d, who, known) = "charged-now"
  <2>1. /\ DecideCharge(L, ok, d, who, known, key) = {e}
        /\ e \notin L /\ e.kind = "charge" /\ FiniteLedger(L \cup {e})
        /\ Charged(L \cup {e}) <= Credits(L, ok, known)
    BY <1>1, ChargedNowIsAfforded DEF Account
  <2>2. Credits(L, ok, known) \in Nat /\ Credits(L, ok, known) <= Worth(L) /\ Worth(L) \in Nat
    <3>1. L \in SUBSET L
      OBVIOUS
    <3> QED
      BY <3>1, CreditsAreWorthIt, WorthGrows DEF Account
  <2>3. Charged(L \cup {e}) \in Nat
    BY <2>1, ChargedIsNat
  <2>4. s \in {0, 1} /\ DayCost(d) \in Nat
    BY DayCostIsPositive DEF SurchargeOn
  <2>5. e.device = ThisDevice /\ e.day = d /\ e.amount = DayCost(d) + s
    BY DEF ChargeEntry
  <2> HIDE DEF e, s
  <2>6. e.amount = DayCost(e.day) \/ e.amount = DayCost(e.day) + 1
    BY <2>4, <2>5
  <2>7. Charged(L \cup {e}) <= Worth(L)
    BY <2>1, <2>2, <2>3
  <2>8. Account(L \cup {e})
    BY <2>1, <2>5, <2>6, <2>7, ChargingKeepsAccount
  <2> QED
    BY <2>1, <2>8
<1>2. CASE DecideState(L, ok, d, who, known) # "charged-now"
  BY <1>2 DEF DecideCharge
<1> QED
  BY <1>1, <1>2

LEMMA SettleKeepsAccount ==
  ASSUME NEW L, Account(L), NEW d \in Days, NEW source \in ForgivenSources, NEW key \in BOOLEAN
  PROVE  Account(L \cup SettleEntries(L, d, source, key))
<1> DEFINE e == ChargeEntry(d, source, 0, key)
<1>1. \/ SettleEntries(L, d, source, key) = {}
      \/ /\ SettleEntries(L, d, source, key) = {e}
         /\ e \notin L /\ e.kind = "charge" /\ FiniteLedger(L \cup {e})
         /\ e.amount = DayCost(d) /\ e.source = source
  BY SettledIsThePrice DEF Account
<1>2. e.device = ThisDevice /\ e.day = d
  BY DEF ChargeEntry
<1> HIDE DEF e
<1>3. CASE SettleEntries(L, d, source, key) = {}
  BY <1>3
<1>4. CASE /\ SettleEntries(L, d, source, key) = {e}
           /\ e \notin L /\ e.kind = "charge" /\ FiniteLedger(L \cup {e})
           /\ e.amount = DayCost(d) /\ e.source = source
  <2>1. Account(L \cup {e})
    BY <1>2, <1>4, ChargingKeepsAccount
  <2> QED
    BY <1>4, <2>1
<1> QED
  BY <1>1, <1>3, <1>4

-----------------------------------------------------------------------------
(* The debt of an account.                                                  *)
LEMMA MintingKeepsDebt ==
  ASSUME NEW L, NEW M, Minted(L, M), NEW day, NEW off, NEW n, RepaidWithin(L, day, off, n)
  PROVE  RepaidWithin(M, day, off, n)
<1>1. \A ok : Repaid(M, ok) = Repaid(L, ok)
  BY MintingKeepsCharges
<1>2. \A d, o : Owed(M, d, o) = Owed(L, d, o)
  BY MintingKeepsCharges
<1>3. Repaid(M, TRUE) = Repaid(L, TRUE) /\ Owed(M, day, off) = Owed(L, day, off)
  BY <1>1, <1>2
<1> QED
  BY <1>3 DEF RepaidWithin

(* A charge for today leaves what is owed for the days before it alone; it  *)
(* repays no more than is outstanding.                                      *)
LEMMA ChargingKeepsDebt ==
  ASSUME NEW L, NEW e, e \notin L, e.kind = "charge", FiniteLedger(L \cup {e}),
         NEW off, e.day \in Days, NEW n \in Nat, RepaidWithin(L, e.day, off, n),
         Excess(e) = 0 \/ (Excess(e) = 1 /\ Repaid(L, TRUE) < Owed(L, e.day, off))
  PROVE  RepaidWithin(L \cup {e}, e.day, off, n)
<1> DEFINE M == L \cup {e}
<1>1. ChargedDays(M) = ChargedDays(L) \cup {e.day}
  BY DEF ChargedDays, OfKind
<1>2. MissedDays(M, e.day, off) = MissedDays(L, e.day, off)
  <2>1. e.day \in Int /\ DebtStart \in Int
    BY CalendarAssumption DEF CalendarAssumption, Days
  <2>2. \A x \in DebtStart..(e.day - 1) : x # e.day
    BY <2>1
  <2> QED
    BY <1>1, <2>2 DEF MissedDays
<1>3. Owed(M, e.day, off) = Owed(L, e.day, off)
  BY <1>2 DEF Owed
<1>4. Owed(L, e.day, off) \in Nat
  <2>1. e.day \in 0..(LastDay + 1)
    BY CalendarAssumption DEF CalendarAssumption, Days
  <2>2. MissedDays(L, e.day, off) \in SUBSET Days
    BY <2>1, MissedAreDays
  <2> QED
    BY <2>2, PriceGrows DEF Owed
<1>5. /\ Repaid(L, TRUE) \in Nat /\ Repaid(M, TRUE) \in Nat
      /\ Repaid(M, TRUE) <= Repaid(L, TRUE) + Excess(e)
  BY RepaidAdds
<1>6. Repaid(L, TRUE) <= Owed(L, e.day, off) + n
  BY DEF RepaidWithin
<1>7. Repaid(M, TRUE) <= Owed(M, e.day, off) + n
  <2> DEFINE was == Repaid(L, TRUE)
             is == Repaid(M, TRUE)
             owed == Owed(L, e.day, off)
  <2>1. was \in Nat /\ is \in Nat /\ owed \in Nat /\ is <= was + Excess(e) /\ was <= owed + n
    BY <1>4, <1>5, <1>6
  <2>2. Excess(e) = 0 \/ (Excess(e) = 1 /\ was < owed)
    OBVIOUS
  <2> HIDE DEF was, is, owed
  <2>3. is <= owed + n
    BY <2>1, <2>2
  <2> QED
    BY <1>3, <2>3 DEF is, owed
<1> QED
  BY <1>7 DEF RepaidWithin, M

(* A row that carries no signature may count while the key is away, never   *)
(* the other way round, when every row is this device's own (is_trusted).   *)
LEMMA SignedRepayLess ==
  ASSUME NEW L, FiniteLedger(L), OwnEntries(L), NEW ok \in BOOLEAN
  PROVE  Repaid(L, TRUE) \in Nat /\ Repaid(L, ok) \in Nat /\ Repaid(L, TRUE) <= Repaid(L, ok)
<1>1. Repayments(L, TRUE) \subseteq Repayments(L, ok)
  BY DEF Repayments, IsTrusted, OwnEntries, OfKind
<1>2. L \in SUBSET L
  OBVIOUS
<1> QED
  BY <1>1, <1>2, RepaidGrows

LEMMA DecideKeepsDebt ==
  ASSUME NEW L, Account(L), NEW ok \in BOOLEAN, NEW d \in Days, NEW who, NEW known,
         NEW key \in BOOLEAN, NEW n \in Nat, RepaidWithin(L, d, OffDays(who), n)
  PROVE  RepaidWithin(L \cup DecideCharge(L, ok, d, who, known, key), d, OffDays(who), n)
<1> DEFINE off == OffDays(who)
           s == SurchargeOn(L, ok, d, OffDays(who))
           e == ChargeEntry(d, "leetcode", s, key)
<1>1. CASE DecideState(L, ok, d, who, known) = "charged-now"
  <2>1. /\ DecideCharge(L, ok, d, who, known, key) = {e}
        /\ e \notin L /\ e.kind = "charge" /\ FiniteLedger(L \cup {e})
        /\ Charged(L \cup {e}) <= Credits(L, ok, known)
    BY <1>1, ChargedNowIsAfforded DEF Account
  <2>2. e.day = d /\ e.amount = DayCost(d) + s /\ DayCost(d) \in Nat
    BY DayCostIsPositive DEF ChargeEntry
  <2>3. s = 0 \/ (s = 1 /\ Outstanding(L, ok, d, off) > 0)
    BY DEF SurchargeOn
  <2>4. Repaid(L, TRUE) \in Nat /\ Repaid(L, ok) \in Nat /\ Repaid(L, TRUE) <= Repaid(L, ok)
    BY SignedRepayLess DEF Account
  <2>5. Owed(L, d, off) \in Nat
    <3>1. d \in 0..(LastDay + 1)
      BY CalendarAssumption DEF CalendarAssumption, Days
    <3>2. MissedDays(L, d, off) \in SUBSET Days
      BY <3>1, MissedAreDays
    <3> QED
      BY <3>2, PriceGrows DEF Owed
  <2> HIDE DEF s, off, e
  <2>6. Outstanding(L, ok, d, off) > 0 => Repaid(L, TRUE) < Owed(L, d, off)
    <3>1. Outstanding(L, ok, d, off) > 0 => Owed(L, d, off) - Repaid(L, ok) > 0
      BY <2>4, <2>5 DEF Outstanding
    <3> DEFINE signed == Repaid(L, TRUE)
    <3>2. signed \in Nat /\ signed <= Repaid(L, ok) /\ Repaid(L, ok) \in Nat
      BY <2>4
    <3> HIDE DEF signed
    <3>3. Outstanding(L, ok, d, off) > 0 => signed < Owed(L, d, off)
      BY <2>5, <3>1, <3>2
    <3> QED
      BY <3>3 DEF signed
  <2>7. Excess(e) = s
    BY <2>2, <2>3 DEF Excess
  <2>8. RepaidWithin(L \cup {e}, e.day, off, n)
    BY <2>1, <2>2, <2>3, <2>6, <2>7, ChargingKeepsDebt DEF off
  <2> QED
    BY <2>1, <2>2, <2>8 DEF off
<1>2. CASE DecideState(L, ok, d, who, known) # "charged-now"
  BY <1>2 DEF DecideCharge
<1> QED
  BY <1>1, <1>2

LEMMA SettleKeepsDebt ==
  ASSUME NEW L, Account(L), NEW d \in Days, NEW source, NEW key \in BOOLEAN,
         NEW off, NEW n \in Nat, RepaidWithin(L, d, off, n)
  PROVE  RepaidWithin(L \cup SettleEntries(L, d, source, key), d, off, n)
<1> DEFINE e == ChargeEntry(d, source, 0, key)
<1>1. \/ SettleEntries(L, d, source, key) = {}
      \/ /\ SettleEntries(L, d, source, key) = {e}
         /\ e \notin L /\ e.kind = "charge" /\ FiniteLedger(L \cup {e})
         /\ e.amount = DayCost(d)
  BY SettledIsThePrice DEF Account
<1>2. e.day = d /\ DayCost(d) \in Nat
  BY DayCostIsPositive DEF ChargeEntry
<1> HIDE DEF e
<1>3. CASE SettleEntries(L, d, source, key) = {}
  BY <1>3
<1>4. CASE /\ SettleEntries(L, d, source, key) = {e}
           /\ e \notin L /\ e.kind = "charge" /\ FiniteLedger(L \cup {e})
           /\ e.amount = DayCost(d)
  <2>1. Excess(e) = 0
    BY <1>2, <1>4 DEF Excess
  <2>2. RepaidWithin(L \cup {e}, e.day, off, n)
    BY <1>2, <1>4, <2>1, ChargingKeepsDebt
  <2> QED
    BY <1>2, <1>4, <2>2
<1> QED
  BY <1>1, <1>3, <1>4

-----------------------------------------------------------------------------
(* Every run of the gate keeps the account, and repays nothing beyond the   *)
(* debt.  While the clock runs forward no day to come is charged.           *)
AccountInv ==
  /\ GInv /\ Account(ledger) /\ budget.back <= MaxBack
  /\ budget.back = MaxBack => ClockTrusted(ledger, today)

Keeps(L, M) ==
  /\ Account(M)
  /\ \A n \in Nat : RepaidWithin(L, today, OffDays(pools), n)
                       => RepaidWithin(M, today, OffDays(pools), n)

LEMMA HarvestKeeps ==
  ASSUME GInv, Account(ledger), NEW feed, feed \subseteq solved, NEW ok \in BOOLEAN,
         HarvestAndDecide(feed, ok)
  PROVE  Keeps(ledger, ledger')
<1> DEFINE minted == Append(ledger, Fresh(ledger, feed, today, keyOk))
           charge == DecideCharge(minted, ok, today, pools, rows', keyOk)
<1>1. /\ feed \subseteq Subs /\ IsFiniteSet(feed) /\ today \in Days /\ keyOk \in BOOLEAN
      /\ FiniteLedger(ledger)
  BY FS_Subset DEF GInv, TypeOK, Account
<1>2. Minted(ledger, minted)
  BY <1>1, HarvestMints
<1>3. \A e \in minted \ ledger : e.device = ThisDevice
  <2>1. \A s : CreditEntry(s, today, keyOk).device = ThisDevice
    BY DEF CreditEntry
  <2> QED
    BY <2>1 DEF Append, Fresh
<1>4. ledger' = minted \cup charge
  BY DEF HarvestAndDecide
<1> HIDE DEF minted
<1>5. Account(minted)
  BY <1>2, <1>3, MintingKeepsAccount
<1>6. Account(minted \cup charge)
  BY <1>1, <1>5, DecideKeepsAccount
<1>7. ASSUME NEW n \in Nat, RepaidWithin(ledger, today, OffDays(pools), n)
      PROVE  RepaidWithin(minted \cup charge, today, OffDays(pools), n)
  <2>1. RepaidWithin(minted, today, OffDays(pools), n)
    BY <1>2, <1>7, MintingKeepsDebt
  <2> QED
    BY <1>1, <1>5, <2>1, DecideKeepsDebt
<1> HIDE DEF charge
<1> QED
  BY <1>4, <1>6, <1>7 DEF Keeps

LEMMA LockRunKeeps ==
  ASSUME GInv, Account(ledger), LockRun
  PROVE  Keeps(ledger, ledger')
<1> DEFINE charge == DecideCharge(ledger, keyOk, today, pools, rows, keyOk)
           marked == Append(ledger, SeedMarkers(Feed, today, keyOk))
<1>1. /\ Feed \subseteq Subs /\ IsFiniteSet(Feed) /\ today \in Days /\ keyOk \in BOOLEAN
      /\ FiniteLedger(ledger)
  BY FS_Subset, FeedIsSolved DEF GInv, TypeOK, Account
<1>2. Keeps(ledger, ledger \cup charge)
  BY <1>1, DecideKeepsAccount, DecideKeepsDebt DEF Keeps
<1>3. Keeps(ledger, marked)
  <2>1. Minted(ledger, marked)
    BY <1>1, SeedingMints
  <2>2. \A e \in marked \ ledger : e.device = ThisDevice
    <3>1. /\ \A s : SeenEntry(s, today, keyOk).device = ThisDevice
          /\ BootstrapEntry(today, keyOk).device = ThisDevice
      BY DEF SeenEntry, BootstrapEntry
    <3> QED
      BY <3>1 DEF Append, SeedMarkers
  <2> HIDE DEF marked
  <2> QED
    BY <2>1, <2>2, MintingKeepsAccount, MintingKeepsDebt DEF Keeps
<1>4. Keeps(ledger, ledger)
  BY DEF Keeps
<1>5. ledger' = ledger \cup charge \/ ledger' = marked \/ ledger' = ledger
  BY DEF LockRun
<1> HIDE DEF charge, marked
<1> QED
  BY <1>2, <1>3, <1>4, <1>5

LEMMA RunsKeep ==
  ASSUME GInv, Account(ledger),
         LockRun \/ PollAnswered \/ PollBlind \/ SettleAndRelease \/ PowerOff \/ HarvestRun
  PROVE  Keeps(ledger, ledger')
<1>1. keyOk \in BOOLEAN /\ lockOk \in BOOLEAN /\ today \in Days
  BY DEF GInv, TypeOK
<1>2. Keeps(ledger, ledger)
  BY DEF Keeps
<1>3. CASE LockRun
  BY <1>3, LockRunKeeps
<1>4. CASE PollAnswered \/ PollBlind
  BY <1>1, <1>4, FeedIsSolved, HarvestKeeps DEF PollAnswered, PollBlind, PollTick
<1>5. CASE SettleAndRelease
  <2>1. PICK source \in Causes : ledger' = ledger \cup SettleEntries(ledger, today, source, keyOk)
    BY <1>5 DEF SettleAndRelease
  <2>2. source \in ForgivenSources
    BY <2>1, GateBounds DEF GateBounds
  <2> QED
    BY <1>1, <2>1, <2>2, SettleKeepsAccount, SettleKeepsDebt DEF Keeps
<1>6. CASE PowerOff
  BY <1>2, <1>6 DEF PowerOff
<1>7. CASE HarvestRun
  BY <1>1, <1>2, <1>7, FeedIsSolved, HarvestKeeps DEF HarvestRun
<1> QED
  BY <1>3, <1>4, <1>5, <1>6, <1>7

(* A run charges for no other day than today.                               *)
LEMMA RunsChargeToday ==
  ASSUME LockRun \/ PollAnswered \/ PollBlind \/ SettleAndRelease \/ PowerOff \/ HarvestRun
  PROVE  \A e \in ledger' \ ledger : e.kind = "charge" => e.day = today
<1>1. \A L, ok, known : \A e \in DecideCharge(L, ok, today, pools, known, keyOk) : e.day = today
  BY DEF DecideCharge, ChargeEntry
<1>2. \A source : \A e \in SettleEntries(ledger, today, source, keyOk) : e.day = today
  BY DEF SettleEntries, ChargeEntry
<1>3. \A feed : \A e \in Append(ledger, Fresh(ledger, feed, today, keyOk)) \ ledger : e.kind # "charge"
  <2>1. \A s : CreditEntry(s, today, keyOk).kind = "credit"
    BY DEF CreditEntry
  <2> QED
    BY <2>1 DEF Append, Fresh
<1>4. \A e \in Append(ledger, SeedMarkers(Feed, today, keyOk)) \ ledger : e.kind # "charge"
  <2>1. (\A s : SeenEntry(s, today, keyOk).kind = "seen") /\ BootstrapEntry(today, keyOk).kind = "bootstrap"
    BY DEF SeenEntry, BootstrapEntry
  <2> QED
    BY <2>1 DEF Append, SeedMarkers
<1>5. ASSUME NEW feed, NEW ok, HarvestAndDecide(feed, ok)
      PROVE  \A e \in ledger' \ ledger : e.kind = "charge" => e.day = today
  BY <1>1, <1>3, <1>5 DEF HarvestAndDecide
<1>6. CASE LockRun
  BY <1>1, <1>4, <1>6 DEF LockRun
<1>7. CASE PollAnswered \/ PollBlind
  BY <1>5, <1>7 DEF PollAnswered, PollBlind, PollTick
<1>8. CASE SettleAndRelease
  BY <1>2, <1>8 DEF SettleAndRelease
<1>9. CASE PowerOff
  BY <1>9 DEF PowerOff
<1>10. CASE HarvestRun
  BY <1>5, <1>10 DEF HarvestRun
<1> QED
  BY <1>6, <1>7, <1>8, <1>9, <1>10

(* Midnight makes the debt larger, if anything.                             *)
LEMMA LaterOwesMore ==
  ASSUME NEW L, NEW off, NEW d \in Days, NEW later \in Days, d <= later
  PROVE  Owed(L, d, off) \in Nat /\ Owed(L, later, off) \in Nat
         /\ Owed(L, d, off) <= Owed(L, later, off)
<1> DEFINE was == MissedDays(L, d, off)
           is == MissedDays(L, later, off)
<1>1. d \in Int /\ later \in Int /\ DebtStart \in Int
  BY CalendarAssumption DEF CalendarAssumption, Days
<1>2. was \subseteq is
  BY <1>1 DEF MissedDays
<1>3. is \in SUBSET Days
  <2>1. later \in 0..(LastDay + 1)
    BY CalendarAssumption DEF CalendarAssumption, Days
  <2> QED
    BY <2>1, MissedAreDays
<1> HIDE DEF was, is
<1>4. PriceOf(was) \in Nat /\ PriceOf(is) \in Nat /\ PriceOf(was) <= PriceOf(is)
  BY <1>2, <1>3, PriceGrows
<1> QED
  BY <1>4 DEF Owed, was, is

(* What was paid for, nobody owes: the clock alone never loses its trust.   *)
LEMMA ForwardIsTrusted ==
  ASSUME GInv, ClockTrusted(ledger, today), today' \in Days, today <= today', ledger' = ledger
  PROVE  ClockTrusted(ledger', today')
<1>1. today \in Int /\ today' \in Int
  BY CalendarAssumption DEF CalendarAssumption, GInv, TypeOK, Days
<1>2. \A d \in ChargedDays(ledger) : d \in Int
  BY CalendarAssumption
     DEF CalendarAssumption, ChargedDays, OfKind, GInv, TypeOK, IsLedger, IsEntry, Days
<1> QED
  BY <1>1, <1>2 DEF ClockTrusted

(* A ledger without charges owes nothing to anybody yet.                    *)
LEMMA UnchargedAccount ==
  ASSUME NEW L, FiniteLedger(L), OwnEntries(L), \A e \in L : e.kind \in {"seen", "bootstrap"},
         NEW day
  PROVE  Account(L) /\ ClockTrusted(L, day)
<1>1. OfKind(L, "charge") = {} /\ OfKind(L, "credit") = {} /\ OfKind({}, "charge") = {}
  BY DEF OfKind
<1>2. ForgivenIn(L) \in SUBSET L /\ {} \in SUBSET L /\ L \in SUBSET L
  BY DEF ForgivenIn
<1>3. Charged(L) = SumFunctionOnSet(Amounts(L), {})
  BY <1>1, <1>2, ChargedOn
<1>4. Charged(L) = 0
  BY <1>3, SumEmpty
<1>5. Charged(ForgivenIn(L)) \in Nat /\ Worth(L) \in Nat
  BY <1>2, PartIsFinite, ChargedIsNat, WorthGrows
<1>6. UnitCredits(L) /\ PricedCharges(L) /\ PaidFor(L)
  BY <1>1, <1>4, <1>5 DEF UnitCredits, PricedCharges, PaidFor
<1>7. ClockTrusted(L, day)
  BY <1>1 DEF ClockTrusted, ChargedDays
<1> QED
  BY <1>6, <1>7 DEF Account

LEMMA InitAccount == Init => AccountInv
<1> SUFFICES ASSUME Init PROVE AccountInv
  OBVIOUS
<1>1. GInv
  BY InitGInv
<1>2. ledger = {BootstrapEntry(0, TRUE)} \/ ledger = {}
  BY DEF Init
<1>3. IsFiniteSet(ledger)
  <2> DEFINE marker == BootstrapEntry(0, TRUE)
  <2>1. IsFiniteSet({marker}) /\ IsFiniteSet({})
    BY FS_EmptySet, FS_Singleton
  <2> QED
    BY <1>2, <2>1
<1>4. OwnEntries(ledger) /\ \A e \in ledger : e.kind \in {"seen", "bootstrap"}
  <2>1. BootstrapEntry(0, TRUE).kind = "bootstrap" /\ BootstrapEntry(0, TRUE).device = ThisDevice
    BY DEF BootstrapEntry
  <2> QED
    BY <1>2, <2>1 DEF OwnEntries
<1>5. Account(ledger) /\ ClockTrusted(ledger, today)
  BY <1>1, <1>3, <1>4, UnchargedAccount DEF GInv, TypeOK, FiniteLedger
<1>6. budget.back = MaxBack /\ MaxBack \in Nat
  BY GateBounds DEF Init, GateBounds
<1> QED
  BY <1>1, <1>5, <1>6 DEF AccountInv

LEMMA AccountStep == AccountInv /\ [Next]_vars => AccountInv'
<1> SUFFICES ASSUME AccountInv, [Next]_vars PROVE AccountInv'
  OBVIOUS
<1>1. GInv /\ GInv' /\ Account(ledger)
  BY StepInd DEF AccountInv
<1>2. /\ MaxBack \in Nat /\ budget.back \in Nat /\ budget.back <= MaxBack
      /\ budget \in [{"back", "mark", "key"} -> Nat]
  BY <1>1, GateBounds DEF AccountInv, GInv, TypeOK, GateBounds
<1>3. CASE UNCHANGED vars
  BY <1>1, <1>2, <1>3 DEF AccountInv, vars
<1>4. CASE SetClockBack
  <2>1. ledger' = ledger /\ budget' = [budget EXCEPT !.back = @ - 1] /\ budget.back > 0
    BY <1>4 DEF SetClockBack
  <2>2. budget'.back = budget.back - 1
    BY <1>2, <2>1
  <2>3. budget'.back < MaxBack /\ budget'.back <= MaxBack
    BY <1>2, <2>1, <2>2
  <2>4. Account(ledger')
    BY <1>1, <2>1
  <2> QED
    BY <1>1, <1>2, <2>3, <2>4 DEF AccountInv
<1>5. CASE Solve \/ Midnight \/ PoolsChange \/ KeyFlips
  <2>1. ledger' = ledger /\ budget'.back = budget.back
    BY <1>2, <1>5 DEF Solve, Midnight, PoolsChange, MarkDay, PoolUnreadable, PoolReadable, KeyFlips
  <2>2. Account(ledger')
    BY <1>1, <2>1
  <2>3. today \in Days /\ today' \in Days /\ today <= today'
    <3>1. today' = today \/ today < today'
      BY <1>5 DEF Solve, Midnight, PoolsChange, MarkDay, PoolUnreadable, PoolReadable, KeyFlips
    <3> QED
      BY <1>1, <3>1, CalendarAssumption DEF GInv, TypeOK, Days, CalendarAssumption
  <2>4. budget'.back = MaxBack => ClockTrusted(ledger', today')
    BY <1>1, <2>1, <2>3, ForwardIsTrusted DEF AccountInv
  <2> QED
    BY <1>1, <1>2, <2>1, <2>2, <2>4 DEF AccountInv
<1>6. CASE LockRun \/ PollAnswered \/ PollBlind \/ SettleAndRelease \/ PowerOff \/ HarvestRun
  <2>1. UNCHANGED <<today, budget>>
    BY <1>6 DEF LockRun, PollAnswered, PollBlind, SettleAndRelease, PowerOff, HarvestRun
  <2>2. Keeps(ledger, ledger')
    BY <1>1, <1>6, RunsKeep
  <2>3. \A d \in ChargedDays(ledger') : d \in ChargedDays(ledger) \/ d = today
    BY <1>6, RunsChargeToday DEF ChargedDays, OfKind
  <2>4. today \in Int
    BY <1>1, CalendarAssumption DEF GInv, TypeOK, Days, CalendarAssumption
  <2>5. budget'.back = MaxBack => ClockTrusted(ledger', today')
    BY <2>1, <2>3, <2>4 DEF AccountInv, ClockTrusted
  <2> QED
    BY <1>1, <1>2, <2>1, <2>2, <2>5 DEF AccountInv, Keeps
<1> QED
  BY <1>3, <1>4, <1>5, <1>6 DEF Next, PoolsChange

(* The solves pay for every day that was not forgiven, whatever the order   *)
(* of runs, the rows and the key (decide, counts_toward_balance).           *)
THEOREM GateIsSolvent == Spec => []Solvent
<1>1. AccountInv => Solvent
  BY DEF AccountInv, Account, PaidFor, ForgivenIn, Solvent, Earned, Forgiven
<1> QED
  BY InitAccount, AccountStep, <1>1, PTL DEF Spec

(* What is overpaid, in numbers.                                            *)
Beyond(L, day, off) ==
  LET over == Repaid(L, TRUE) - Owed(L, day, off) IN IF over > 0 THEN over ELSE 0

LEMMA BeyondIsTheRest ==
  ASSUME NEW L, Account(L), NEW day \in Days, NEW off
  PROVE  /\ Beyond(L, day, off) \in Nat /\ Repaid(L, TRUE) \in Nat /\ Owed(L, day, off) \in Nat
         /\ RepaidWithin(L, day, off, Beyond(L, day, off))
         /\ \A n \in Nat : RepaidWithin(L, day, off, n) => Beyond(L, day, off) <= n
<1> DEFINE repaid == Repaid(L, TRUE)
           owed == Owed(L, day, off)
           beyond == Beyond(L, day, off)
<1>1. repaid \in Nat
  BY SignedRepayLess DEF Account
<1>2. owed \in Nat
  BY LaterOwesMore, CalendarAssumption DEF CalendarAssumption, Days
<1>3. beyond = IF repaid - owed > 0 THEN repaid - owed ELSE 0
  BY DEF Beyond
<1>4. \A n : RepaidWithin(L, day, off, n) <=> repaid <= owed + n
  BY DEF RepaidWithin
<1> HIDE DEF repaid, owed, beyond
<1>5. beyond \in Nat /\ repaid <= owed + beyond
  BY <1>1, <1>2, <1>3
<1>6. ASSUME NEW n \in Nat, repaid <= owed + n PROVE beyond <= n
  BY <1>1, <1>2, <1>3, <1>6
<1> QED
  BY <1>1, <1>2, <1>4, <1>5, <1>6 DEF repaid, owed, beyond

LEMMA OverpaidIsTheRest ==
  ASSUME AccountInv
  PROVE  /\ Overpaid \in Nat /\ Repaid(ledger, TRUE) \in Nat
         /\ Owed(ledger, today, OffDays(pools)) \in Nat
         /\ RepaidWithin(ledger, today, OffDays(pools), Overpaid)
<1>1. Overpaid = Beyond(ledger, today, OffDays(pools))
  BY DEF Overpaid, Beyond
<1>2. Account(ledger) /\ today \in Days
  BY DEF AccountInv, GInv, TypeOK
<1> QED
  BY <1>1, <1>2, BeyondIsTheRest

(* Whatever the calendar, the order of runs and the state of the key, a run *)
(* only takes a surcharge that is owed: what was repaid beyond the debt     *)
(* grows in no step in which no day turns out to be off and the clock is    *)
(* not set back (compute_debt, surcharge_on, settle_day).                   *)
THEOREM RunsOverpayNothing == Spec => OnlyALateOffDayOverpays
<1> DEFINE MoreIsOff ==
      today' >= today /\ OffDays(pools') = OffDays(pools) => Overpaid' <= Overpaid
<1>1. AccountInv /\ [Next]_vars => [MoreIsOff]_vars
  <2> SUFFICES ASSUME AccountInv, Next, today' >= today, OffDays(pools') = OffDays(pools)
               PROVE  Overpaid' <= Overpaid
    OBVIOUS
  <2>1. AccountInv'
    BY AccountStep
  <2>2. GInv /\ Account(ledger) /\ today \in Days /\ today' \in Days
    BY <2>1 DEF AccountInv, GInv, TypeOK
  <2>3. /\ Overpaid \in Nat /\ Repaid(ledger, TRUE) \in Nat
        /\ Owed(ledger, today, OffDays(pools)) \in Nat
        /\ RepaidWithin(ledger, today, OffDays(pools), Overpaid)
    BY OverpaidIsTheRest
  <2>4. \A n \in Nat : RepaidWithin(ledger', today', OffDays(pools'), n) => Overpaid' <= n
    <3>1. Overpaid' = Beyond(ledger', today', OffDays(pools'))
      BY DEF Overpaid, Beyond
    <3>2. Account(ledger')
      BY <2>1 DEF AccountInv
    <3> QED
      BY <2>2, <3>1, <3>2, BeyondIsTheRest
  <2>5. RepaidWithin(ledger', today', OffDays(pools'), Overpaid)
    <3>1. CASE Solve \/ Midnight \/ SetClockBack \/ PoolsChange \/ KeyFlips
      <4>1. ledger' = ledger
        BY <3>1 DEF Solve, Midnight, SetClockBack, PoolsChange, MarkDay, PoolUnreadable,
                    PoolReadable, KeyFlips
      <4>2. today <= today'
        BY <2>2, CalendarAssumption DEF CalendarAssumption, Days
      <4> DEFINE off == OffDays(pools)
      <4>3. /\ Owed(ledger, today', off) \in Nat
            /\ Owed(ledger, today, off) <= Owed(ledger, today', off)
        BY <2>2, <4>2, LaterOwesMore
      <4>4. Repaid(ledger, TRUE) <= Owed(ledger, today, off) + Overpaid
        BY <2>3 DEF RepaidWithin
      <4> DEFINE now == Owed(ledger, today', off)
                 was == Owed(ledger, today, off)
                 repaid == Repaid(ledger, TRUE)
      <4>5. now \in Nat /\ was \in Nat /\ repaid \in Nat /\ was <= now /\ repaid <= was + Overpaid
        BY <2>3, <4>3, <4>4
      <4> HIDE DEF now, was, repaid
      <4>6. repaid <= now + Overpaid
        BY <2>3, <4>5
      <4> QED
        BY <4>1, <4>6 DEF RepaidWithin, now, repaid
    <3>2. CASE LockRun \/ PollAnswered \/ PollBlind \/ SettleAndRelease \/ PowerOff \/ HarvestRun
      <4>1. UNCHANGED <<today, pools>>
        BY <3>2 DEF LockRun, PollAnswered, PollBlind, SettleAndRelease, PowerOff, HarvestRun
      <4>2. Keeps(ledger, ledger')
        BY <2>2, <3>2, RunsKeep
      <4> QED
        BY <2>3, <4>1, <4>2 DEF Keeps
    <3> QED
      BY <3>1, <3>2 DEF Next, PoolsChange
  <2> QED
    BY <2>3, <2>4, <2>5
<1> QED
  BY InitAccount, AccountStep, <1>1, PTL DEF Spec, OnlyALateOffDayOverpays

LateDays(L) == {d \in ChargedDays(L) : d >= DebtStart}
EarlyRows(L) == {e \in L : e.day < DebtStart}

(* What every late charge took is the price of its day and an excess.       *)
LEMMA ChargesAreDays ==
  ASSUME NEW L, Account(L)
  PROVE  /\ LateDays(L) \in SUBSET Days
         /\ Charged(L) - Repaid(L, TRUE)
              = PriceOf(LateDays(L)) + Charged(EarlyRows(L)) + UnsignedExcess(L)
         /\ Charged(L) \in Nat /\ Repaid(L, TRUE) \in Nat /\ PriceOf(LateDays(L)) \in Nat
         /\ Charged(EarlyRows(L)) \in Nat /\ UnsignedExcess(L) \in Nat
<1> DEFINE charges == OfKind(L, "charge")
           late == {e \in charges : e.day >= DebtStart}
           before == {e \in charges : e.day < DebtStart}
           signed == {e \in late : e.signed}
           unsigned == {e \in late : ~e.signed}
           early == EarlyRows(L)
           lateDays == LateDays(L)
           A == Amounts(L)
           X == Excesses(L)
           P == [e \in L |-> DayCost(e.day)]
<1>1. FiniteLedger(L) /\ PricedCharges(L) /\ L \in SUBSET L
  BY DEF Account
<1>2. /\ early \in SUBSET L /\ charges \in SUBSET L /\ late \in SUBSET charges
      /\ before \in SUBSET charges /\ late \in SUBSET L
      /\ signed \in SUBSET L /\ unsigned \in SUBSET L
  BY DEF OfKind, EarlyRows
<1>3. \A e \in L : /\ e.day \in Days /\ e.day \in Int /\ DebtStart \in Int
                   /\ e.signed \in BOOLEAN
  BY <1>1, CalendarAssumption DEF FiniteLedger, IsLedger, IsEntry, CalendarAssumption, Days
<1>4. Apart(before, late) /\ charges = before \cup late
  BY <1>2, <1>3 DEF Apart
<1>5. Apart(signed, unsigned) /\ late = signed \cup unsigned
  BY <1>2, <1>3 DEF Apart
<1>6. OfKind(early, "charge") = before
  BY DEF OfKind, EarlyRows
<1>7. Repayments(L, TRUE) = signed
  BY DEF Repayments, IsTrusted
<1>8. \A e \in late : /\ P[e] \in Nat /\ X[e] \in Nat /\ A[e] = P[e] + X[e]
                     /\ P[e] = Costs[e.day]
  <2> TAKE e \in late
  <2>1. e \in L /\ e \in charges
    BY <1>2
  <2>2. Excess(e) \in Nat /\ DayCost(e.day) \in Nat /\ e.amount \in Nat
    BY <1>1, <2>1, ExcessIsNat
  <2>3. e.amount = DayCost(e.day) \/ e.amount = DayCost(e.day) + 1
    BY <1>1, <2>1 DEF PricedCharges
  <2>4. e.amount = DayCost(e.day) + Excess(e)
    BY <2>2, <2>3 DEF Excess
  <2> QED
    BY <1>3, <2>1, <2>2, <2>4 DEF Amounts, Excesses, Costs
<1>9. lateDays = {e.day : e \in late} /\ lateDays \in SUBSET Days
  BY <1>2, <1>3 DEF LateDays, ChargedDays
<1>10. UnsignedExcess(L) = SumFunction([e \in unsigned |-> Excess(e)])
  <2>1. {c \in OfKind(L, "charge") : c.day >= DebtStart /\ ~c.signed} = unsigned
    OBVIOUS
  <2> QED
    BY <2>1 DEF UnsignedExcess
<1> HIDE DEF charges, late, before, signed, unsigned, early, lateDays, A, X, P
<1>11. /\ Charged(L) = SumFunctionOnSet(A, charges)
       /\ IsFiniteSet(charges) /\ SumsToInt(A, charges)
  BY <1>1, ChargedOn DEF charges, A
<1>12. /\ Charged(early) = SumFunctionOnSet(A, before)
       /\ IsFiniteSet(before) /\ SumsToInt(A, before)
  BY <1>1, <1>2, <1>6, ChargedOn DEF A
<1>13. IsFiniteSet(late) /\ SumsToInt(A, late) /\ SumsToInt(P, late) /\ SumsToInt(X, late)
  <2>1. \A e \in late : A[e] \in Int /\ P[e] \in Int /\ X[e] \in Int
    BY <1>8
  <2> QED
    BY <1>2, <1>11, <2>1, FS_Subset DEF SumsToInt
<1>14. SumFunctionOnSet(A, charges) = SumFunctionOnSet(A, before) + SumFunctionOnSet(A, late)
  BY <1>4, <1>12, <1>13, SumJoins
<1>15. SumFunctionOnSet(A, late) = SumFunctionOnSet(P, late) + SumFunctionOnSet(X, late)
  BY <1>8, <1>13, SumPlus
<1>16. SumFunctionOnSet(P, late) = PriceOf(lateDays)
  <2> DEFINE m == [e \in late |-> e.day]
  <2>1. ImageOf(m, late) = lateDays
    BY <1>9 DEF ImageOf
  <2>2. OneToOne(m, late)
    <3>1. \A e, f \in late : e.day = f.day => e.id = f.id
      BY <1>1, <1>2 DEF FiniteLedger, IsLedger, IsEntry, charges, OfKind
    <3> QED
      BY <1>1, <1>2, <3>1 DEF OneToOne, FiniteLedger, IsLedger
  <2>3. \A e \in late : P[e] \in Int /\ P[e] = Costs[m[e]]
    BY <1>8
  <2> HIDE DEF m
  <2>4. SumFunctionOnSet(P, late) = SumFunctionOnSet(Costs, ImageOf(m, late))
    BY <1>13, <2>2, <2>3, SumRenamed DEF SumsToInt
  <2> QED
    BY <1>9, <2>1, <2>4, PriceOn
<1>17. /\ Repaid(L, TRUE) = SumFunctionOnSet(X, signed)
       /\ IsFiniteSet(signed) /\ SumsToInt(X, signed) /\ SumsToNat(X, signed)
  BY <1>1, <1>7, RepaidOn DEF X
<1>18. /\ UnsignedExcess(L) = SumFunctionOnSet(X, unsigned)
       /\ IsFiniteSet(unsigned) /\ SumsToInt(X, unsigned) /\ SumsToNat(X, unsigned)
  BY <1>1, <1>2, <1>10, ExcessOn DEF X
<1>19. SumFunctionOnSet(X, late) = SumFunctionOnSet(X, signed) + SumFunctionOnSet(X, unsigned)
  BY <1>5, <1>17, <1>18, SumJoins
<1>20. /\ Charged(L) \in Nat /\ Charged(early) \in Nat /\ PriceOf(lateDays) \in Nat
       /\ UnsignedExcess(L) \in Nat
  <2>1. Charged(L) \in Nat /\ Charged(early) \in Nat
    BY <1>1, <1>2, PartIsFinite, ChargedIsNat
  <2>2. PriceOf(lateDays) \in Nat
    BY <1>9, PriceGrows
  <2>3. SumFunctionOnSet(X, unsigned) \in Nat
    BY <1>18, SumNat
  <2> QED
    BY <1>18, <2>1, <2>2, <2>3
<1> DEFINE repaid == Repaid(L, TRUE)
<1>21. repaid = SumFunctionOnSet(X, signed) /\ repaid \in Nat
  BY <1>17, SumNat
<1> HIDE DEF repaid
<1>22. SumFunctionOnSet(P, late) = PriceOf(lateDays) /\ PriceOf(lateDays) \in Nat
  BY <1>16, <1>20
<1>23. Charged(L) - repaid = PriceOf(lateDays) + Charged(early) + UnsignedExcess(L)
  BY <1>11, <1>12, <1>14, <1>15, <1>18, <1>19, <1>20, <1>21, <1>22
<1> QED
  BY <1>9, <1>20, <1>21, <1>23 DEF repaid, early, lateDays

LEMMA AccountOfTheCalendar ==
  ASSUME AccountInv
  PROVE  EveryDayCostsItsPrice
<1> DEFINE L == ledger
           off == OffDays(pools)
           missed == MissedDays(L, LastDay + 1, off)
           priced == {d \in Days : d >= DebtStart /\ (d \notin off \/ d \in ChargedDays(L))}
<1>1. /\ LateDays(L) \in SUBSET Days
      /\ Charged(L) - Repaid(L, TRUE)
           = PriceOf(LateDays(L)) + Charged(EarlyRows(L)) + UnsignedExcess(L)
      /\ Charged(L) \in Nat /\ Repaid(L, TRUE) \in Nat /\ PriceOf(LateDays(L)) \in Nat
      /\ Charged(EarlyRows(L)) \in Nat /\ UnsignedExcess(L) \in Nat
  BY ChargesAreDays DEF AccountInv
<1>2. missed \in SUBSET Days
  <2>1. LastDay + 1 \in 0..(LastDay + 1)
    BY CalendarAssumption DEF CalendarAssumption
  <2> QED
    BY <2>1, MissedAreDays
<1>3. Apart(missed, LateDays(L)) /\ missed \cup LateDays(L) = priced
  <2>1. \A d : d \in missed <=> /\ d \in Days /\ d >= DebtStart
                               /\ d \notin ChargedDays(L) /\ d \notin off
    BY CalendarAssumption DEF CalendarAssumption, MissedDays, Days
  <2> HIDE DEF missed, off, L
  <2> QED
    BY <1>1, <2>1 DEF Apart, LateDays
<1> HIDE DEF L, off, missed, priced
<1>4. PriceOf(priced) = PriceOf(missed) + PriceOf(LateDays(L)) /\ PriceOf(missed) \in Nat
  BY <1>1, <1>2, <1>3, PriceJoins, PriceGrows
<1> DEFINE repaid == Repaid(L, TRUE)
<1>5. /\ repaid \in Nat
      /\ Charged(L) - repaid = PriceOf(LateDays(L)) + Charged(EarlyRows(L)) + UnsignedExcess(L)
  BY <1>1
<1> HIDE DEF repaid
<1>6. Charged(L) + PriceOf(missed) - repaid
        = PriceOf(priced) + Charged(EarlyRows(L)) + UnsignedExcess(L)
  BY <1>1, <1>4, <1>5
<1> QED
  BY <1>6 DEF EveryDayCostsItsPrice, Owed, EarlyRows, L, off, missed, priced, repaid

(* Paying for a day, escaping it and missing it come to the same, with any  *)
(* history of keys, pools and clocks (charge_entry, compute_debt).          *)
THEOREM EveryDayIsPricedOnce == Spec => []EveryDayCostsItsPrice
  BY InitAccount, AccountStep, AccountOfTheCalendar, PTL DEF Spec

(* Losing rows of any ledger the gate can reach, one or all of them, never  *)
(* lowers the debt (compute_debt derives, never stores).                    *)
THEOREM LosingRowsNeverPays == Spec => []ForgettingNeverPays
<1>1. AccountInv => ForgettingNeverPays
  <2> SUFFICES ASSUME AccountInv PROVE ForgettingNeverPays
    OBVIOUS
  <2> DEFINE off == OffDays(pools)
  <2>1. FiniteLedger(ledger) /\ today \in 0..(LastDay + 1)
    BY CalendarAssumption DEF AccountInv, Account, GInv, TypeOK, Days, CalendarAssumption
  <2>2. \A K \in SUBSET ledger :
          Outstanding(K, TRUE, today, off) >= Outstanding(ledger, TRUE, today, off)
    BY <2>1, ForgettingGrowsDebt
  <2>3. {} \in SUBSET ledger /\ \A e \in ledger : ledger \ {e} \in SUBSET ledger
    OBVIOUS
  <2> QED
    BY <2>2, <2>3 DEF ForgettingNeverPays
<1> QED
  BY InitAccount, AccountStep, <1>1, PTL DEF Spec

-----------------------------------------------------------------------------
(* What is told of the day (SolvedToday).                                   *)

Weights == [s \in Subs |-> Weight(LevelOf[SlugOf[s]])]

\* One credit per submission: what is on file was all solved for.
LEMMA SolvesAreWorthIt ==
  ASSUME GInv, FiniteLedger(ledger)
  PROVE  /\ Worth(ledger) \in Nat
         /\ Worth(ledger) <= SumFunction([s \in solved |-> Weight(LevelOf[SlugOf[s]])])
         /\ SumFunction([s \in solved |-> Weight(LevelOf[SlugOf[s]])]) \in Nat
<1> DEFINE credits == OfKind(ledger, "credit")
           f == Worths(ledger)
           m == [e \in credits |-> e.id[2]]
           h == [s \in solved |-> Weight(LevelOf[SlugOf[s]])]
<1>1. /\ Worth(ledger) = SumFunctionOnSet(f, credits)
      /\ SumsToNat(f, credits) /\ SumsToInt(f, credits) /\ IsFiniteSet(credits)
  <2>1. ledger \in SUBSET ledger
    OBVIOUS
  <2> QED
    BY <2>1, WorthOn
<1>2. \A e \in credits : /\ e \in ledger /\ e.id = <<"ac", e.id[2]>>
                        /\ e.id[2] \in solved /\ e.id[2] \in Subs
  BY DEF GInv, TypeOK, OfKind, FiniteLedger, IsLedger, IsEntry
<1>3. OneToOne(m, credits)
  <2>1. \A e, f1 \in credits : e.id[2] = f1.id[2] => e = f1
    BY <1>2 DEF FiniteLedger, IsLedger
  <2> QED
    BY <2>1 DEF OneToOne
<1>4. \A e \in credits : f[e] = Weights[m[e]]
  BY <1>2 DEF Worths, Weights
<1>5. ImageOf(m, credits) \in SUBSET solved
  BY <1>2 DEF ImageOf
<1>6. IsFiniteSet(solved) /\ solved \subseteq Subs
  BY DEF GInv, TypeOK
<1>7. /\ SumsToNat(Weights, solved) /\ SumsToInt(Weights, solved)
      /\ \A s \in solved : h[s] = Weights[s]
  <2>1. \A s \in solved : Weights[s] \in Nat /\ Weights[s] = Weight(LevelOf[SlugOf[s]])
    BY <1>6, WeightIsPositive DEF Weights
  <2> QED
    BY <2>1 DEF SumsToNat, SumsToInt
<1>8. DOMAIN h = solved
  OBVIOUS
<1> HIDE DEF credits, f, m, h
<1>9. SumFunctionOnSet(f, credits) = SumFunctionOnSet(Weights, ImageOf(m, credits))
  BY <1>1, <1>3, <1>4, SumRenamed
<1>10. SumFunctionOnSet(Weights, ImageOf(m, credits)) <= SumFunctionOnSet(Weights, solved)
  BY <1>5, <1>6, <1>7, SumGrows
<1>11. SumFunction(h) = SumFunctionOnSet(Weights, solved)
  BY <1>6, <1>7, <1>8, SumOfPart
<1>12. SumFunctionOnSet(f, credits) \in Nat /\ SumFunctionOnSet(Weights, solved) \in Nat
  BY <1>1, <1>6, <1>7, SumNat
<1> QED
  BY <1>1, <1>9, <1>10, <1>11, <1>12 DEF h

\* The charges decide wrote cost no more than what was solved for.
LEMMA SolvesPay ==
  ASSUME AccountInv
  PROVE  SumFunction([s \in solved |-> Weight(LevelOf[SlugOf[s]])])
           >= Charged({e \in OfKind(ledger, "charge") : e.source = "leetcode"})
<1> DEFINE paid == {e \in OfKind(ledger, "charge") : e.source = "leetcode"}
           forgiven == ForgivenIn(ledger)
           both == paid \cup forgiven
           rest == ledger \ both
<1>1. FiniteLedger(ledger) /\ GInv /\ PaidFor(ledger)
  BY DEF AccountInv, Account
<1>2. Apart(paid, forgiven) /\ Apart(both, rest) /\ both \cup rest = ledger
      /\ paid \in SUBSET ledger /\ forgiven \in SUBSET ledger /\ both \in SUBSET ledger
      /\ rest \in SUBSET ledger
  BY DEF Apart, ForgivenIn, ForgivenSources, OfKind
<1> HIDE DEF paid, forgiven, rest
<1>3. FiniteLedger(paid) /\ FiniteLedger(forgiven) /\ FiniteLedger(both) /\ FiniteLedger(rest)
  BY <1>1, <1>2, PartIsFinite
<1>4. Charged(both) = Charged(paid) + Charged(forgiven)
  BY <1>2, <1>3, ChargedJoins
<1> HIDE DEF both
<1>5. Charged(both \cup rest) = Charged(both) + Charged(rest)
  BY <1>1, <1>2, ChargedJoins
<1>6. /\ Charged(paid) \in Nat /\ Charged(forgiven) \in Nat /\ Charged(rest) \in Nat
  BY <1>3, ChargedIsNat
<1>7. Charged(ledger) = Charged(paid) + Charged(forgiven) + Charged(rest)
  BY <1>2, <1>4, <1>5
<1>8. Worth(ledger) + Charged(forgiven) >= Charged(ledger)
  BY <1>1 DEF PaidFor, forgiven
<1>9. /\ Worth(ledger) \in Nat
      /\ Worth(ledger) <= SumFunction([s \in solved |-> Weight(LevelOf[SlugOf[s]])])
      /\ SumFunction([s \in solved |-> Weight(LevelOf[SlugOf[s]])]) \in Nat
  BY <1>1, SolvesAreWorthIt
<1> DEFINE all == SumFunction([s \in solved |-> Weight(LevelOf[SlugOf[s]])])
<1>10. all \in Nat /\ Worth(ledger) <= all
  BY <1>9
<1> HIDE DEF all
<1>11. Worth(ledger) >= Charged(paid)
  BY <1>6, <1>7, <1>8, <1>9
<1>12. all >= Charged(paid)
  BY <1>6, <1>9, <1>10, <1>11
<1> QED
  BY <1>12 DEF all, paid

LEMMA PaidDayEarns ==
  ASSUME AccountInv
  PROVE  OnlyPaidDaysEarn
<1> DEFINE paid == {e \in OfKind(ledger, "charge") : e.source = "leetcode"}
           verified == {e \in ledger : e.signed}
           landed == {e \in OfKind(verified, "credit") : LandedToday(e)}
<1> SUFFICES ASSUME Earns
             PROVE  \/ GateOff /\ \E s \in solved : when[s] = today
                    \/ /\ \E e \in paid : e.day = today /\ e.amount >= DayCost(today)
                       /\ SumFunction([s \in solved |-> Weight(LevelOf[SlugOf[s]])]) >= Charged(paid)
  BY DEF OnlyPaidDaysEarn
<1>1. SettledByCredit(verified) \/ (GateOff /\ Cardinality(landed) > 0)
  BY DEF Earns, Answer
<1>2. CASE SettledByCredit(verified)
  <2>1. PICK e \in OfKind(verified, "charge") : e.day = today /\ e.source = "leetcode"
    BY <1>2 DEF SettledByCredit
  <2>2. e \in paid /\ e \in OfKind(ledger, "charge")
    BY <2>1 DEF OfKind
  <2>3. e.amount = DayCost(today) \/ e.amount = DayCost(today) + 1
    BY <2>1, <2>2 DEF AccountInv, Account, PricedCharges
  <2>4. DayCost(today) \in Nat
    BY DayCostIsPositive DEF AccountInv, GInv, TypeOK
  <2>5. e.amount >= DayCost(today)
    BY <2>3, <2>4
  <2> QED
    BY <2>1, <2>2, <2>5, SolvesPay
<1>3. CASE GateOff /\ Cardinality(landed) > 0
  <2>1. landed # {}
    <3> HIDE DEF landed
    <3>1. Cardinality({}) = 0 /\ Cardinality(landed) > 0
      BY <1>3, FS_EmptySet
    <3> QED
      BY <3>1
  <2>2. PICK e \in landed : TRUE
    BY <2>1
  <2>3. e.id[2] \in solved /\ when[e.id[2]] = today
    BY <2>2 DEF LandedToday, OfKind, AccountInv, GInv, TypeOK
  <2> QED
    BY <1>3, <2>3
<1> QED
  BY <1>1, <1>2, <1>3

(* A day that earns the hour was solved on, or paid in full by a ledger     *)
(* whose paid days cost no more than the solves are worth, for any history  *)
(* of clocks, keys and late harvests (solved_today, _settled_by_credit).    *)
THEOREM AnEarnedDayIsPaid == StampedSpec => []OnlyPaidDaysEarn
<1>1. StampedInit => AccountInv
  BY InitAccount DEF StampedInit
<1>2. AccountInv /\ [StampedNext]_<<vars, when>> => AccountInv'
  BY AccountStep DEF StampedNext
<1>3. AccountInv => OnlyPaidDaysEarn
  BY PaidDayEarns
<1> QED
  BY <1>1, <1>2, <1>3, PTL DEF StampedSpec

-----------------------------------------------------------------------------
(* What is foretold from a ledger (Forecast).                               *)

(* While the clock runs forward nothing is charged for a day before the     *)
(* gate's first (LockRun, HarvestRun and the poll of a lock put up on it).  *)
Started ==
  /\ armed => today >= GateStart
  /\ \A d \in ChargedDays(ledger) : d >= GateStart

ForecastInv == AccountInv /\ (budget.back = MaxBack => Started)

LEMMA InitForecast == Init => ForecastInv
<1> SUFFICES ASSUME Init PROVE ForecastInv
  OBVIOUS
<1>1. ChargedDays(ledger) = {} /\ ~armed
  BY DEF Init, ChargedDays, OfKind, BootstrapEntry
<1> QED
  BY <1>1, InitAccount DEF ForecastInv, Started

LEMMA ForecastStep == ForecastInv /\ [Next]_vars => ForecastInv'
<1> SUFFICES ASSUME ForecastInv, [Next]_vars, budget'.back = MaxBack PROVE Started'
  BY AccountStep DEF ForecastInv
<1>1. /\ MaxBack \in Nat /\ budget.back \in Nat /\ budget.back <= MaxBack
      /\ budget \in [{"back", "mark", "key"} -> Nat] /\ today \in Int /\ GateStart \in Int
  BY GateBounds, CalendarAssumption
     DEF ForecastInv, AccountInv, GInv, TypeOK, GateBounds, CalendarAssumption, Days
<1>2. CASE UNCHANGED vars
  BY <1>2 DEF ForecastInv, Started, vars
<1>3. CASE SetClockBack
  <2>1. budget'.back = budget.back - 1
    BY <1>1, <1>3 DEF SetClockBack
  <2> QED
    BY <1>1, <2>1
<1>4. CASE Solve \/ Midnight \/ PoolsChange \/ KeyFlips
  <2>1. /\ ledger' = ledger /\ armed' = armed /\ budget'.back = budget.back
        /\ today' = today \/ today' > today
    BY <1>1, <1>4 DEF Solve, Midnight, PoolsChange, MarkDay, PoolUnreadable, PoolReadable, KeyFlips
  <2>2. Started /\ today' \in Int
    BY <1>1, <2>1, AccountStep, CalendarAssumption
       DEF ForecastInv, AccountInv, GInv, TypeOK, CalendarAssumption, Days
  <2>3. armed => today' >= GateStart
    BY <1>1, <2>1, <2>2 DEF Started
  <2> QED
    BY <2>1, <2>2, <2>3 DEF Started
<1>5. CASE LockRun \/ PollAnswered \/ PollBlind \/ SettleAndRelease \/ PowerOff \/ HarvestRun
  <2>1. today' = today /\ budget' = budget
    BY <1>5 DEF LockRun, PollAnswered, PollBlind, SettleAndRelease, PowerOff, HarvestRun
  <2>2. Started
    BY <2>1 DEF ForecastInv
  <2>3. today >= GateStart
    BY <1>5, <2>2
       DEF LockRun, PollAnswered, PollBlind, SettleAndRelease, PowerOff, HarvestRun, Started
  <2>4. \A e \in OfKind(ledger', "charge") : e \in OfKind(ledger, "charge") \/ e.day = today
    BY <1>5, RunsChargeToday DEF OfKind
  <2>5. \A d \in ChargedDays(ledger') : d \in ChargedDays(ledger) \/ d = today
    BY <2>4 DEF ChargedDays
  <2> QED
    BY <2>1, <2>2, <2>3, <2>5 DEF Started
<1> QED
  BY <1>2, <1>3, <1>4, <1>5 DEF Next, PoolsChange

\* The what-if price of the base now in force is the live price (what_if).
LEMMA LivePrice ==
  ASSUME NEW d \in Days
  PROVE  WhatIf(CurrentBase, d) = DayCost(d)
<1> USE CalendarAssumption DEF CalendarAssumption
<1>1. Weekday(d) \in 0..6
  BY DEF Weekday, Days
<1>2. CASE d >= RepriceDate
  <2> DEFINE w == Weekday(d)
  <2>1. DayCost(d) = CurrentCosts[w + 1]
    BY <1>2 DEF DayCost, PricingFor
  <2>2. WhatIf(CurrentBase, d) = Tiered(CurrentBase, d)
    BY <1>2 DEF WhatIf
  <2>3. w = 0 \/ w = 1 \/ w = 2 \/ w = 3 \/ w = 4 \/ w = 5 \/ w = 6
    BY <1>1
  <2>4. Tiered(CurrentBase, d) = CurrentCosts[w + 1]
    BY <2>3 DEF Tiered, CurrentCosts
  <2> QED
    BY <2>1, <2>2, <2>4
<1>3. CASE ~(d >= RepriceDate)
  BY <1>3 DEF WhatIf
<1> QED
  BY <1>2, <1>3

(* The first day that is still to be priced (position_of).                  *)
FirstDayIsOpen ==
  /\ \/ Position.first = today /\ (today \in OffDays(pools) \/ today \notin ChargedDays(ledger))
     \/ /\ Position.first = today + 1
        /\ today \in ChargedDays(ledger) /\ today \notin OffDays(pools)
  /\ \A d \in ChargedDays(ledger) : d \in Days /\ DebtStart <= d /\ d <= today

LEMMA FirstDay ==
  ASSUME ForecastInv, Forward
  PROVE  FirstDayIsOpen
<1>1. /\ FiniteLedger(ledger) /\ today \in Days /\ Started
      /\ ClockTrusted(ledger, today)
  BY DEF ForecastInv, AccountInv, Account, GInv, TypeOK, Forward
<1>2. today \in ChargedDays(ledger) <=> Has(ledger, <<"charge", today>>)
  <2>1. \A e \in ledger : e.kind = "charge" => e.id = <<"charge", e.day>>
    BY <1>1 DEF FiniteLedger, IsLedger, IsEntry
  <2>2. \A e \in ledger : e.id = <<"charge", today>> => e.kind = "charge" /\ e.day = today
    BY <1>1 DEF FiniteLedger, IsLedger, IsEntry
  <2> QED
    BY <2>1, <2>2 DEF ChargedDays, OfKind, Has
<1>3. \A d \in ChargedDays(ledger) : d \in Days /\ DebtStart <= d /\ d <= today
  <2>1. \A d \in ChargedDays(ledger) : d \in Days
    BY <1>1 DEF ChargedDays, OfKind, FiniteLedger, IsLedger, IsEntry
  <2>2. \A d \in ChargedDays(ledger) : GateStart <= d /\ d <= today
    BY <1>1, <2>1, CalendarAssumption DEF Started, ClockTrusted, Days, CalendarAssumption
  <2> QED
    BY <2>1, <2>2, CalendarAssumption DEF Days, CalendarAssumption
<1>4. ClockTrusted(ledger, today)
  BY <1>1
<1> DEFINE state == DecideState(ledger, keyOk, today, pools, rows)
<1>5. Position.first = IF state = "already-charged" THEN today + 1 ELSE today
  BY DEF Position
<1>6. CASE today \in OffDays(pools)
  <2>1. state # "already-charged"
    BY <1>4, <1>6 DEF DecideState, FocusDay, StandsDown, OffDays
  <2> QED
    BY <1>3, <1>5, <1>6, <2>1 DEF FirstDayIsOpen
<1>7. CASE today \notin OffDays(pools)
  <2>1. CASE today < GateStart
    <3>1. today \notin ChargedDays(ledger)
      BY <1>1, <2>1, CalendarAssumption DEF Started, CalendarAssumption, Days
    <3>2. state # "already-charged"
      BY <2>1, <1>4 DEF DecideState
    <3> QED
      BY <1>3, <1>5, <3>1, <3>2 DEF FirstDayIsOpen
  <2>2. CASE ~(today < GateStart)
    <3>1. state = "already-charged" <=> Has(ledger, <<"charge", today>>)
      BY <1>4, <1>7, <2>2 DEF DecideState, FocusDay, StandsDown, OffDays
    <3> QED
      BY <1>2, <1>3, <1>5, <1>7, <3>1 DEF FirstDayIsOpen
  <2> QED
    BY <2>1, <2>2
<1> QED
  BY <1>6, <1>7

(* The days up to a date, partitioned: owed for, charged, or still ahead.   *)
Counted(t) ==
  {d \in AtMost(DebtStart, today)..LastDay :
     /\ d \notin OffDays(pools) \/ d \in ChargedDays(ledger)
     /\ d <= t}
Ahead(t) == (Position.first..t) \ OffDays(pools)
Behind == MissedDays(ledger, today, OffDays(pools))

LEMMA DaysArePartitioned ==
  ASSUME FirstDayIsOpen, today \in Days, NEW t \in Targets
  PROVE  /\ Counted(t) = (Behind \cup LateDays(ledger)) \cup Ahead(t)
         /\ Apart(Behind, LateDays(ledger)) /\ Apart(Behind \cup LateDays(ledger), Ahead(t))
         /\ Behind \in SUBSET Days /\ LateDays(ledger) \in SUBSET Days /\ Ahead(t) \in SUBSET Days
<1> DEFINE off == OffDays(pools)
           charged == ChargedDays(ledger)
           first == Position.first
<1>1. /\ today \in Int /\ t \in Int /\ today <= t /\ t <= LastDay /\ 0 <= today
      /\ DebtStart \in Nat /\ LastDay \in Nat /\ first \in Int /\ Days = 0..LastDay
  BY CalendarAssumption DEF Targets, CalendarAssumption, Days, FirstDayIsOpen
<1>2. \A d \in charged : d \in Int /\ DebtStart <= d /\ d <= today
  BY <1>1 DEF FirstDayIsOpen
<1>3. \/ first = today /\ (today \in off \/ today \notin charged)
      \/ first = today + 1 /\ today \in charged /\ today \notin off
  BY DEF FirstDayIsOpen
<1>4. \A d : d \in Behind <=>
               d \in Int /\ DebtStart <= d /\ d < today /\ d \notin charged /\ d \notin off
  BY <1>1 DEF Behind, MissedDays
<1>5. \A d : d \in LateDays(ledger) <=> d \in charged
  BY <1>2 DEF LateDays
<1>6. \A d : d \in Ahead(t) <=> d \in Int /\ first <= d /\ d <= t /\ d \notin off
  BY <1>1 DEF Ahead
<1>7. \A d : d \in Counted(t) <=>
               /\ d \in Int /\ (DebtStart <= d \/ today <= d) /\ d <= t
               /\ (d \notin off \/ d \in charged)
  BY <1>1 DEF Counted, AtMost
<1> HIDE DEF off, charged, first
<1>8. ASSUME NEW d \in Counted(t) PROVE d \in (Behind \cup LateDays(ledger)) \cup Ahead(t)
  BY <1>1, <1>3, <1>4, <1>5, <1>6, <1>7, <1>8
<1>9. ASSUME NEW d \in (Behind \cup LateDays(ledger)) \cup Ahead(t) PROVE d \in Counted(t)
  BY <1>1, <1>2, <1>3, <1>4, <1>5, <1>6, <1>7, <1>9
<1>10. Apart(Behind, LateDays(ledger))
  BY <1>4, <1>5 DEF Apart
<1>11. ASSUME NEW d \in Behind \cup LateDays(ledger), d \in Ahead(t) PROVE FALSE
  BY <1>1, <1>2, <1>3, <1>4, <1>5, <1>6, <1>11
<1>12. Behind \in SUBSET Days /\ LateDays(ledger) \in SUBSET Days /\ Ahead(t) \in SUBSET Days
  BY <1>1, <1>2, <1>3, <1>4, <1>5, <1>6
<1> QED
  BY <1>8, <1>9, <1>10, <1>11, <1>12 DEF Apart

LEMMA PriceAhead ==
  ASSUME NEW t, Ahead(t) \in SUBSET Days
  PROVE  SumFunction([d \in Ahead(t) |-> WhatIf(CurrentBase, d)]) = PriceOf(Ahead(t))
<1> DEFINE days == Ahead(t)
<1>1. \A d \in days : WhatIf(CurrentBase, d) = DayCost(d)
  BY LivePrice
<1> HIDE DEF days
<1>2. [d \in days |-> WhatIf(CurrentBase, d)] = [d \in days |-> DayCost(d)]
  BY <1>1
<1> QED
  BY <1>2 DEF PriceOf, days

LEMMA WorkAhead ==
  ASSUME ForecastInv, Forward, keyOk, NEW t \in Targets
  PROVE  Projections[t].required
           = AtLeast(0, PriceOf(Counted(t)) + UnsignedExcess(ledger) + Overpaid
                          - Credits(ledger, keyOk, rows))
<1> DEFINE credits == Credits(ledger, keyOk, rows)
           owed == Owed(ledger, today, OffDays(pools))
           repaid == Repaid(ledger, TRUE)
           charged == Charged(ledger)
           late == PriceOf(LateDays(ledger))
           over == UnsignedExcess(ledger)
           lost == Overpaid
           ahead == PriceOf(Ahead(t))
           base == SumFunction([d \in Ahead(t) |-> WhatIf(CurrentBase, d)])
<1>1. /\ keyOk = TRUE /\ today \in Days /\ Account(ledger)
      /\ AccountInv /\ FirstDayIsOpen
  BY FirstDay DEF ForecastInv, AccountInv, GInv, TypeOK, Forward
<1>2. Projections[t].required
        = AtLeast(0, base + Outstanding(ledger, keyOk, today, OffDays(pools))
                       - (Credits(ledger, keyOk, rows) - Charged(ledger)))
  BY DEF Projections, Project, Position, Available, Ahead
<1>3. /\ Counted(t) = (Behind \cup LateDays(ledger)) \cup Ahead(t)
      /\ Apart(Behind, LateDays(ledger)) /\ Apart(Behind \cup LateDays(ledger), Ahead(t))
      /\ Behind \in SUBSET Days /\ LateDays(ledger) \in SUBSET Days /\ Ahead(t) \in SUBSET Days
  BY <1>1, DaysArePartitioned
<1>4. base = ahead
  BY <1>3, PriceAhead
<1>5. owed = PriceOf(Behind) /\ owed \in Nat /\ ahead \in Nat
  BY <1>3, PriceGrows DEF Owed, Behind
<1>6. /\ charged - repaid = late + Charged(EarlyRows(ledger)) + over
      /\ charged \in Nat /\ repaid \in Nat /\ late \in Nat /\ over \in Nat
  BY <1>1, ChargesAreDays
<1>7. Charged(EarlyRows(ledger)) = 0
  <2>1. OfKind(EarlyRows(ledger), "charge") = {}
    <3>1. \A e \in OfKind(ledger, "charge") : ~(e.day < DebtStart)
      <4>1. \A e \in OfKind(ledger, "charge") : e.day \in Days /\ DebtStart <= e.day
        BY <1>1 DEF FirstDayIsOpen, ChargedDays
      <4> QED
        BY <4>1, CalendarAssumption DEF CalendarAssumption, Days
    <3> QED
      BY <3>1 DEF OfKind, EarlyRows
  <2>2. EarlyRows(ledger) \in SUBSET ledger /\ FiniteLedger(ledger)
    BY <1>1 DEF EarlyRows, Account
  <2>3. Charged(EarlyRows(ledger)) = SumFunctionOnSet(Amounts(ledger), {})
    BY <2>1, <2>2, ChargedOn
  <2> QED
    BY <2>3, SumEmpty
<1>8. PriceOf(Counted(t)) = owed + late + ahead
  <2>1. PriceOf(Behind \cup LateDays(ledger)) = PriceOf(Behind) + PriceOf(LateDays(ledger))
    BY <1>3, PriceJoins
  <2>2. Behind \cup LateDays(ledger) \in SUBSET Days
    BY <1>3
  <2> DEFINE past == Behind \cup LateDays(ledger)
  <2>3. past \in SUBSET Days /\ Apart(past, Ahead(t))
    BY <1>3, <2>2
  <2> HIDE DEF past
  <2>4. PriceOf(past \cup Ahead(t)) = PriceOf(past) + PriceOf(Ahead(t))
    BY <1>3, <2>3, PriceJoins
  <2> QED
    BY <1>3, <1>5, <2>1, <2>4 DEF past
<1>9. lost = IF repaid - owed > 0 THEN repaid - owed ELSE 0
  BY DEF Overpaid
<1>10. Outstanding(ledger, keyOk, today, OffDays(pools)) = owed - repaid + lost
  <2> DEFINE net == owed - repaid
  <2>1. Outstanding(ledger, keyOk, today, OffDays(pools)) = IF net > 0 THEN net ELSE 0
    BY <1>1 DEF Outstanding
  <2>2. ASSUME NEW a \in Nat, NEW b \in Nat
        PROVE  (IF a - b > 0 THEN a - b ELSE 0) = a - b + (IF b - a > 0 THEN b - a ELSE 0)
    OBVIOUS
  <2>3. owed \in Nat /\ repaid \in Nat
    BY <1>5, <1>6
  <2> QED
    BY <1>9, <2>1, <2>2, <2>3
<1>11. credits \in Nat /\ lost \in Nat
  BY <1>1, CreditsAreWorthIt, OverpaidIsTheRest DEF Account
<1> HIDE DEF credits, owed, repaid, charged, late, over, lost, ahead, base
<1>12. base + (owed - repaid + lost) - (credits - charged)
         = owed + late + ahead + over + lost - credits
  BY <1>4, <1>5, <1>6, <1>7, <1>11
<1> QED
  BY <1>2, <1>8, <1>10, <1>12 DEF credits, charged, over, lost

(* The work ahead is every counted day at its price less the credits: what  *)
(* was paid, missed, escaped or surcharged on the way is in it once, except *)
(* what was repaid for a day that then was off, which is lost (project,     *)
(* position_of, compute_debt).                                              *)
THEOREM WorkAheadIsThePrice == Spec => []WorkIsThePriceLessTheCredits
<1>1. ForecastInv => WorkIsThePriceLessTheCredits
  <2> SUFFICES ASSUME ForecastInv, Forward, keyOk, NEW t \in Targets
      PROVE Projections[t].required
              = AtLeast(0, PriceOf({d \in {x \in AtMost(DebtStart, today)..LastDay :
                                             x \notin OffDays(pools) \/ x \in ChargedDays(ledger)} :
                                      d <= t})
                             + UnsignedExcess(ledger) + Overpaid - Credits(ledger, keyOk, rows))
    BY DEF WorkIsThePriceLessTheCredits
  <2>1. {d \in {x \in AtMost(DebtStart, today)..LastDay :
                  x \notin OffDays(pools) \/ x \in ChargedDays(ledger)} : d <= t} = Counted(t)
    BY DEF Counted
  <2> QED
    BY <2>1, WorkAhead
<1> QED
  BY InitForecast, ForecastStep, <1>1, PTL DEF Spec

-----------------------------------------------------------------------------
(* The days ahead, paid one by one (PaidThrough).                           *)
PaysDay(L, ok, d, off) ==
  IF d \in off THEN L ELSE L \cup {ChargeEntry(d, "leetcode", SurchargeOn(L, ok, d, off), ok)}

PaysFrom(p, L, ok, first, off, n) ==
  p = [d \in (first - 1)..n |-> IF d < first THEN L ELSE PaysDay(p[d - 1], ok, d, off)]

\* The recursion has a solution: one more day extends the payments so far.
LEMMA PaymentsExtend ==
  ASSUME NEW L, NEW ok, NEW off, NEW first \in Int, NEW n \in Int, first <= n,
         NEW p, PaysFrom(p, L, ok, first, off, n - 1)
  PROVE  \E q : PaysFrom(q, L, ok, first, off, n)
<1> DEFINE step(r, d) == IF d < first THEN L ELSE PaysDay(r[d - 1], ok, d, off)
           q == [d \in (first - 1)..n |-> step(p, d)]
<1>1. \A d \in (first - 1)..(n - 1) : p[d] = step(p, d)
  BY DEF PaysFrom
<1>2. \A d \in (first - 1)..n : q[d] = step(p, d)
  OBVIOUS
<1>3. ASSUME NEW d \in (first - 1)..n PROVE step(p, d) = step(q, d)
  <2>1. CASE d < first
    BY <2>1
  <2>2. CASE ~(d < first)
    <3>1. d - 1 \in (first - 1)..(n - 1) /\ d - 1 \in (first - 1)..n
      BY <2>2
    <3>2. p[d - 1] = q[d - 1]
      <4> HIDE DEF q, step
      <4> QED
        BY <1>1, <1>2, <3>1
    <3> QED
      BY <2>2, <3>2
  <2> QED
    BY <2>1, <2>2
<1>4. q = [d \in (first - 1)..n |-> step(q, d)]
  <2>1. [d \in (first - 1)..n |-> step(p, d)] = [d \in (first - 1)..n |-> step(q, d)]
    <3> HIDE DEF step, q
    <3> QED
      BY <1>3
  <2> QED
    BY <2>1
<1>5. PaysFrom(q, L, ok, first, off, n)
  <2> HIDE DEF q
  <2> QED
    BY <1>4 DEF PaysFrom
<1> QED
  BY <1>5

LEMMA PaymentsExist ==
  ASSUME NEW L, NEW ok, NEW off, NEW first \in Int, NEW n \in Int, first - 1 <= n
  PROVE  \E p : PaysFrom(p, L, ok, first, off, n)
<1> DEFINE days == n - (first - 1)
           bad == {k \in 0..days : ~\E p : PaysFrom(p, L, ok, first, off, first - 1 + k)}
<1>0. days \in Nat /\ bad \in SUBSET (0..days)
  OBVIOUS
<1>1. ASSUME bad # {} PROVE FALSE
  <2>1. PICK k \in bad : \A j \in bad : k <= j
    <3> HIDE DEF bad, days
    <3> QED
      BY <1>0, <1>1, SmallestNumber
  <2>2. k \in 0..days /\ k \in Int /\ first - 1 + k \in Int
    BY <1>0
  <2>3. CASE k = 0
    <3> DEFINE p == [d \in (first - 1)..(first - 1) |-> L]
    <3>1. p = [d \in (first - 1)..(first - 1) |->
                 IF d < first THEN L ELSE PaysDay(p[d - 1], ok, d, off)]
      OBVIOUS
    <3> HIDE DEF p
    <3>2. PaysFrom(p, L, ok, first, off, first - 1 + k)
      BY <2>3, <3>1 DEF PaysFrom
    <3> QED
      BY <3>2
  <2>4. CASE k # 0
    <3> DEFINE m == first - 1 + k
    <3>1. k - 1 \in 0..days /\ k - 1 \notin bad
      BY <2>1, <2>2, <2>4
    <3>2. \E p : PaysFrom(p, L, ok, first, off, first - 1 + (k - 1))
      BY <3>1
    <3>3. first - 1 + (k - 1) = m - 1 /\ m \in Int /\ first <= m
      BY <2>2, <2>4
    <3> HIDE DEF m
    <3>4. PICK p : PaysFrom(p, L, ok, first, off, m - 1)
      BY <3>2, <3>3
    <3>5. \E q : PaysFrom(q, L, ok, first, off, m)
      BY <3>3, <3>4, PaymentsExtend
    <3> QED
      BY <3>5 DEF m
  <2> QED
    BY <2>3, <2>4
<1>2. days \in 0..days /\ first - 1 + days = n
  BY <1>0
<1>3. days \notin bad
  BY <1>1
<1>4. \E p : PaysFrom(p, L, ok, first, off, first - 1 + days)
  BY <1>2, <1>3
<1> HIDE DEF days
<1> QED
  BY <1>2, <1>4

LEMMA PaidThroughPays ==
  ASSUME NEW first \in Int, first - 1 <= LastDay
  PROVE  PaysFrom(PaidThrough(first), ledger, keyOk, first, OffDays(pools), LastDay)
<1>1. PaidThrough(first)
        = CHOOSE p : PaysFrom(p, ledger, keyOk, first, OffDays(pools), LastDay)
  BY DEF PaidThrough, PaysFrom, PaysDay
<1>2. \E p : PaysFrom(p, ledger, keyOk, first, OffDays(pools), LastDay)
  BY PaymentsExist, CalendarAssumption DEF CalendarAssumption
<1> QED
  BY <1>1, <1>2

\* A day that is not off and not charged yet is charged once, and what it
\* takes on top of its price is repaid.
LEMMA PayingADay ==
  ASSUME NEW M, FiniteLedger(M), NEW ok \in BOOLEAN, NEW d \in Days, NEW off,
         d \notin ChargedDays(M), d \notin off, NEW s, s = SurchargeOn(M, ok, d, off),
         s = 0 \/ d >= DebtStart, NEW N, N = PaysDay(M, ok, d, off)
  PROVE  /\ FiniteLedger(N) /\ ChargedDays(N) = ChargedDays(M) \cup {d}
         /\ Charged(N) = Charged(M) + (DayCost(d) + s)
         /\ Repaid(N, ok) = Repaid(M, ok) + s
<1> DEFINE e == ChargeEntry(d, "leetcode", s, ok)
<1>1. N = M \cup {e}
  BY DEF PaysDay
<1>2. s \in {0, 1} /\ s \in Nat /\ DayCost(d) \in Nat
  BY DayCostIsPositive DEF SurchargeOn
<1>3. IsEntry(e)
  BY <1>2, ChargeIsEntry
<1>4. /\ e.kind = "charge" /\ e.id = <<"charge", d>> /\ e.day = d
      /\ e.amount = DayCost(d) + s /\ e.signed = ok /\ e.device = ThisDevice
  BY DEF ChargeEntry
<1> HIDE DEF e
<1>5. \A f \in M : f.id # e.id
  <2>1. \A f \in M : f.id = <<"charge", d>> => f \in OfKind(M, "charge") /\ f.day = d
    BY DEF FiniteLedger, IsLedger, IsEntry, OfKind
  <2> QED
    BY <1>4, <2>1 DEF ChargedDays
<1>6. e \notin M
  BY <1>5
<1>7. FiniteLedger(M \cup {e})
  <2>1. IsFiniteSet(M \cup {e})
    BY FS_AddElement DEF FiniteLedger
  <2>2. IsLedger(M \cup {e})
    BY <1>3, <1>5 DEF FiniteLedger, IsLedger
  <2> QED
    BY <2>1, <2>2 DEF FiniteLedger
<1>8. OfKind(M \cup {e}, "charge") = OfKind(M, "charge") \cup {e}
  BY <1>4 DEF OfKind
<1>9. ChargedDays(M \cup {e}) = ChargedDays(M) \cup {d}
  BY <1>4, <1>8 DEF ChargedDays
<1>10. Charged(M \cup {e}) = Charged(M) + e.amount
  BY <1>4, <1>6, <1>7, ChargedAdds
<1>11. Excess(e) = s
  BY <1>2, <1>4 DEF Excess
<1>12. IsTrusted(e, ok)
  BY <1>4 DEF IsTrusted
<1>13. Repaid(M \cup {e}, ok) = Repaid(M, ok) + Excess(e)
  BY <1>4, <1>6, <1>7, <1>11, <1>12, RepaidAddsAll
<1> QED
  BY <1>1, <1>4, <1>7, <1>9, <1>10, <1>11, <1>13

\* The days ahead on which the debt is collected, and how much of it is.
Dear(t) == {d \in Ahead(t) : SurchargeApplies(d)}
Took(t) == AtMost(Position.debt, Cardinality(Dear(t)))

\* M is the ledger with the days ahead paid up to d.
PaidUpTo(M, d) ==
  /\ FiniteLedger(M) /\ ChargedDays(M) = ChargedDays(ledger) \cup Ahead(d)
  /\ Charged(M) = Charged(ledger) + PriceOf(Ahead(d)) + Took(d)
  /\ Repaid(M, keyOk) = Repaid(ledger, keyOk) + Took(d)

LEMMA AheadNext ==
  ASSUME FirstDayIsOpen, today \in Days, NEW d \in Days, Position.first <= d
  PROVE  /\ Ahead(d) = Ahead(d - 1) \cup ({d} \ OffDays(pools)) /\ d \notin Ahead(d - 1)
         /\ Ahead(d) \in SUBSET Days /\ Ahead(d - 1) \in SUBSET Days
         /\ IsFiniteSet(Ahead(d)) /\ IsFiniteSet(Ahead(d - 1))
<1>1. Position.first \in Int /\ Position.first >= 0 /\ Days = 0..LastDay /\ LastDay \in Nat
  BY CalendarAssumption DEF FirstDayIsOpen, Days, CalendarAssumption
<1> DEFINE first == Position.first
<1> HIDE DEF first
<1>2. first..d = (first..(d - 1)) \cup {d} /\ d \notin first..(d - 1)
  BY <1>1 DEF first
<1>3. Ahead(d) = Ahead(d - 1) \cup ({d} \ OffDays(pools)) /\ d \notin Ahead(d - 1)
  BY <1>2 DEF Ahead, first
<1>4. Ahead(d) \in SUBSET Days /\ Ahead(d - 1) \in SUBSET Days
  BY <1>1 DEF Ahead
<1> QED
  BY <1>3, <1>4, DaysAreFinite, FS_Subset

LEMMA DebtIsNat ==
  ASSUME ForecastInv
  PROVE  /\ Position.debt \in Nat
         /\ Position.debt = LET net == Owed(ledger, today, OffDays(pools)) - Repaid(ledger, keyOk)
                            IN  IF net > 0 THEN net ELSE 0
         /\ Owed(ledger, today, OffDays(pools)) \in Nat /\ Repaid(ledger, keyOk) \in Nat
<1>1. FiniteLedger(ledger) /\ today \in 0..(LastDay + 1) /\ ledger \in SUBSET ledger
  BY CalendarAssumption
     DEF ForecastInv, AccountInv, Account, GInv, TypeOK, Days, CalendarAssumption
<1>2. MissedDays(ledger, today, OffDays(pools)) \in SUBSET Days
  BY <1>1, MissedAreDays
<1>3. Owed(ledger, today, OffDays(pools)) \in Nat
  BY <1>2, PriceGrows DEF Owed
<1>4. Repaid(ledger, keyOk) \in Nat
  BY <1>1, RepaidGrows
<1>5. Position.debt = Outstanding(ledger, keyOk, today, OffDays(pools))
  BY DEF Position
<1> QED
  BY <1>3, <1>4, <1>5 DEF Outstanding

LEMMA TookIsNat ==
  ASSUME ForecastInv, NEW d, IsFiniteSet(Ahead(d))
  PROVE  Took(d) \in Nat /\ Took(d) <= Position.debt /\ Cardinality(Dear(d)) \in Nat
<1>1. Cardinality(Dear(d)) \in Nat
  BY FS_Subset, FS_CardinalityType DEF Dear
<1> QED
  BY <1>1, DebtIsNat DEF Took, AtMost

\* Once more of the debt is collected if any is left and the day is a dear one.
LEMMA TookNext ==
  ASSUME ForecastInv, FirstDayIsOpen, NEW d \in Days, Position.first <= d
  PROVE  Took(d) = Took(d - 1)
           + (IF Position.debt - Took(d - 1) > 0 /\ SurchargeApplies(d) /\ d \notin OffDays(pools)
              THEN 1 ELSE 0)
<1>1. today \in Days
  BY DEF ForecastInv, AccountInv, GInv, TypeOK
<1>2. /\ Ahead(d) = Ahead(d - 1) \cup ({d} \ OffDays(pools)) /\ d \notin Ahead(d - 1)
      /\ IsFiniteSet(Ahead(d)) /\ IsFiniteSet(Ahead(d - 1))
  BY <1>1, AheadNext
<1> DEFINE new == SurchargeApplies(d) /\ d \notin OffDays(pools)
           n == Cardinality(Dear(d - 1))
           m == Cardinality(Dear(d))
           debt == Position.debt
<1>3. IsFiniteSet(Dear(d - 1)) /\ d \notin Dear(d - 1)
  BY <1>2, FS_Subset DEF Dear
<1>4. n \in Nat /\ debt \in Nat
  BY <1>2, TookIsNat, DebtIsNat
<1>5. CASE new
  <2>1. Dear(d) = Dear(d - 1) \cup {d}
    BY <1>2, <1>5 DEF Dear
  <2>2. m = n + 1
    BY <1>3, <2>1, FS_AddElement
  <2>3. Took(d) = AtMost(debt, m) /\ Took(d - 1) = AtMost(debt, n)
    BY DEF Took
  <2> HIDE DEF m, n, debt
  <2>4. AtMost(debt, m) = AtMost(debt, n) + (IF debt - AtMost(debt, n) > 0 THEN 1 ELSE 0)
    BY <1>4, <2>2 DEF AtMost
  <2> QED
    BY <1>5, <2>3, <2>4 DEF debt
<1>6. CASE ~new
  <2>1. Dear(d) = Dear(d - 1)
    BY <1>2, <1>6 DEF Dear
  <2>2. Took(d) = Took(d - 1) /\ Took(d - 1) \in Nat
    BY <1>2, <2>1, TookIsNat DEF Took
  <2> QED
    BY <1>6, <2>2
<1> QED
  BY <1>5, <1>6

\* Paid days are not owed for: only what was missed before today is.
LEMMA OwedAfter ==
  ASSUME ForecastInv, FirstDayIsOpen, NEW d \in Int, Position.first - 1 <= d, d <= LastDay,
         NEW M, PaidUpTo(M, d), IsFiniteSet(Ahead(d))
  PROVE  Outstanding(M, keyOk, d + 1, OffDays(pools)) = Position.debt - Took(d)
<1> DEFINE off == OffDays(pools)
           owed == Owed(ledger, today, off)
           repaid == Repaid(ledger, keyOk)
           took == Took(d)
           debt == Position.debt
           net == Owed(M, d + 1, off) - Repaid(M, keyOk)
<1>1. /\ today \in Int /\ Position.first \in Int /\ DebtStart \in Nat
      /\ today <= Position.first
      /\ \/ Position.first = today
         \/ Position.first = today + 1 /\ today \in ChargedDays(ledger)
  BY CalendarAssumption
     DEF ForecastInv, AccountInv, GInv, TypeOK, Days, CalendarAssumption, FirstDayIsOpen
<1> DEFINE first == Position.first
<1> HIDE DEF first
<1>2. \A x : x \in Ahead(d) <=> x \in Int /\ first <= x /\ x <= d /\ x \notin off
  BY <1>1 DEF Ahead, first
<1>3. ChargedDays(M) = ChargedDays(ledger) \cup Ahead(d)
  BY DEF PaidUpTo
<1>4. MissedDays(M, d + 1, off) = MissedDays(ledger, today, off)
  <2>1. \A x : x \in MissedDays(M, d + 1, off) <=>
                 /\ x \in Int /\ DebtStart <= x /\ x <= d
                 /\ x \notin ChargedDays(M) /\ x \notin off
    BY <1>1 DEF MissedDays
  <2>2. \A x : x \in MissedDays(ledger, today, off) <=>
                 /\ x \in Int /\ DebtStart <= x /\ x < today
                 /\ x \notin ChargedDays(ledger) /\ x \notin off
    BY <1>1 DEF MissedDays
  <2>3. first - 1 <= d /\ (first = today \/ (first = today + 1 /\ today \in ChargedDays(ledger)))
    BY <1>1 DEF first
  <2> HIDE DEF off
  <2>4. ASSUME NEW x \in MissedDays(M, d + 1, off) PROVE x \in MissedDays(ledger, today, off)
    BY <1>1, <1>2, <1>3, <2>1, <2>2, <2>3, <2>4 DEF first
  <2>5. ASSUME NEW x \in MissedDays(ledger, today, off) PROVE x \in MissedDays(M, d + 1, off)
    BY <1>1, <1>2, <1>3, <2>1, <2>2, <2>3, <2>5 DEF first
  <2> QED
    BY <2>4, <2>5
<1>5. Owed(M, d + 1, off) = owed /\ Repaid(M, keyOk) = repaid + took
  BY <1>4 DEF Owed, PaidUpTo
<1>6. /\ owed \in Nat /\ repaid \in Nat /\ took \in Nat /\ took <= debt /\ debt \in Nat
      /\ debt = IF owed - repaid > 0 THEN owed - repaid ELSE 0
  BY DebtIsNat, TookIsNat
<1>7. Outstanding(M, keyOk, d + 1, off) = IF net > 0 THEN net ELSE 0
  BY DEF Outstanding
<1>8. net = owed - (repaid + took)
  BY <1>5
<1> HIDE DEF owed, repaid, took, debt, net, off
<1>9. (IF net > 0 THEN net ELSE 0) = debt - took
  BY <1>6, <1>8
<1> QED
  BY <1>7, <1>9 DEF debt, took, off

\* Each day that is paid by the rules keeps the account of the days before.
LEMMA PayingOnceMore ==
  ASSUME ForecastInv, FirstDayIsOpen, NEW d \in Days, Position.first <= d,
         NEW M, PaidUpTo(M, d - 1)
  PROVE  PaidUpTo(PaysDay(M, keyOk, d, OffDays(pools)), d)
<1> DEFINE off == OffDays(pools)
           s == SurchargeOn(M, keyOk, d, off)
           N == PaysDay(M, keyOk, d, off)
           debt == Position.debt
<1>1. /\ today \in Days /\ keyOk \in BOOLEAN /\ d \in Int /\ d - 1 \in Int /\ d <= LastDay
      /\ Position.first \in Int /\ Position.first - 1 <= d - 1 /\ d - 1 <= LastDay
      /\ today <= Position.first /\ DebtStart \in Nat
  BY CalendarAssumption
     DEF ForecastInv, AccountInv, GInv, TypeOK, Days, CalendarAssumption, FirstDayIsOpen
<1>2. /\ Ahead(d) = Ahead(d - 1) \cup ({d} \ off) /\ d \notin Ahead(d - 1)
      /\ Ahead(d) \in SUBSET Days /\ Ahead(d - 1) \in SUBSET Days
      /\ IsFiniteSet(Ahead(d)) /\ IsFiniteSet(Ahead(d - 1))
  BY <1>1, AheadNext
<1>3. /\ FiniteLedger(M) /\ ChargedDays(M) = ChargedDays(ledger) \cup Ahead(d - 1)
      /\ Charged(M) = Charged(ledger) + PriceOf(Ahead(d - 1)) + Took(d - 1)
      /\ Repaid(M, keyOk) = Repaid(ledger, keyOk) + Took(d - 1)
  BY DEF PaidUpTo
<1>4. CASE d \in off
  <2>1. N = M /\ Ahead(d) = Ahead(d - 1)
    BY <1>2, <1>4 DEF PaysDay
  <2>2. Dear(d) = Dear(d - 1)
    BY <2>1 DEF Dear
  <2>3. Took(d) = Took(d - 1)
    BY <2>2 DEF Took
  <2> QED
    BY <1>3, <2>1, <2>3 DEF PaidUpTo
<1>5. CASE d \notin off
  <2>1. d \notin ChargedDays(M)
    <3>1. d \notin ChargedDays(ledger)
      <4>1. today \in Int /\ (d \in ChargedDays(ledger) => d <= today)
        BY <1>1, CalendarAssumption DEF FirstDayIsOpen, Days, CalendarAssumption
      <4>2. CASE d = today
        BY <1>1, <1>5, <4>2 DEF FirstDayIsOpen
      <4> QED
        BY <1>1, <4>1, <4>2
    <3> QED
      BY <1>2, <1>3, <3>1
  <2>2. Outstanding(M, keyOk, d, off) = debt - Took(d - 1)
    <3>1. Outstanding(M, keyOk, (d - 1) + 1, off) = debt - Took(d - 1)
      BY <1>1, <1>2, OwedAfter
    <3> QED
      BY <1>1, <3>1
  <2>3. s = IF debt - Took(d - 1) > 0 /\ SurchargeApplies(d) THEN 1 ELSE 0
    BY <2>2 DEF SurchargeOn
  <2>4. s \in Nat /\ Took(d) = Took(d - 1) + s
    BY <1>5, <2>3, TookNext
  <2>5. debt \in Nat /\ Took(d - 1) \in Nat
    BY <1>2, DebtIsNat, TookIsNat
  <2>6. s = 0 \/ d >= DebtStart
    <3>1. CASE d < DebtStart
      <4>1. MissedDays(ledger, today, off) = {}
        BY <1>1, <3>1 DEF MissedDays, Days
      <4>2. Owed(ledger, today, off) = 0
        BY <4>1, PriceOn, SumEmpty DEF Owed
      <4>3. debt = 0
        BY <4>2, DebtIsNat
      <4> QED
        BY <2>3, <2>5, <4>3
    <3> QED
      BY <1>1, <3>1
  <2>7. /\ FiniteLedger(N) /\ ChargedDays(N) = ChargedDays(M) \cup {d}
        /\ Charged(N) = Charged(M) + (DayCost(d) + s)
        /\ Repaid(N, keyOk) = Repaid(M, keyOk) + s
    <3> HIDE DEF s, N
    <3> QED
      BY <1>1, <1>3, <1>5, <2>1, <2>6, PayingADay DEF s, N
  <2>8. PriceOf(Ahead(d)) = PriceOf(Ahead(d - 1)) + DayCost(d)
    <3>1. Ahead(d) = Ahead(d - 1) \cup {d}
      BY <1>2, <1>5
    <3>2. /\ PriceOf(Ahead(d)) = SumFunctionOnSet(Costs, Ahead(d))
          /\ PriceOf(Ahead(d - 1)) = SumFunctionOnSet(Costs, Ahead(d - 1))
          /\ SumsToInt(Costs, Ahead(d - 1)) /\ Costs[d] = DayCost(d) /\ Costs[d] \in Int
      BY <1>2, PriceOn, DayCostIsPositive DEF Costs
    <3>3. SumFunctionOnSet(Costs, Ahead(d - 1) \cup {d}) = Costs[d] + SumFunctionOnSet(Costs, Ahead(d - 1))
      BY <1>2, <3>2, SumAdds
    <3>4. SumFunctionOnSet(Costs, Ahead(d - 1)) \in Int
      BY <1>2, <3>2, SumRemoves
    <3> QED
      BY <3>1, <3>2, <3>3, <3>4
  <2>9. /\ Charged(ledger) \in Nat /\ PriceOf(Ahead(d - 1)) \in Nat /\ DayCost(d) \in Nat
        /\ Repaid(ledger, keyOk) \in Nat
    BY <1>2, ChargedIsNat, PriceGrows, DayCostIsPositive, DebtIsNat
       DEF ForecastInv, AccountInv, Account
  <2> HIDE DEF s, N
  <2>10. Charged(N) = Charged(ledger) + PriceOf(Ahead(d)) + Took(d)
    BY <1>3, <2>4, <2>5, <2>7, <2>8, <2>9
  <2>11. Repaid(N, keyOk) = Repaid(ledger, keyOk) + Took(d)
    BY <1>3, <2>4, <2>5, <2>7, <2>9
  <2>12. ChargedDays(N) = ChargedDays(ledger) \cup Ahead(d)
    BY <1>2, <1>3, <1>5, <2>7
  <2> QED
    BY <2>7, <2>10, <2>11, <2>12 DEF PaidUpTo, N
<1> QED
  BY <1>4, <1>5

\* The ledger after a day ahead is the ledger with the days up to it paid.
LEMMA PaymentsAddUp ==
  ASSUME ForecastInv, FirstDayIsOpen, NEW d \in Int, Position.first - 1 <= d, d <= LastDay
  PROVE  PaidUpTo(PaidThrough(Position.first)[d], d)
<1> DEFINE first == Position.first
           p == PaidThrough(first)
           start == first - 1
           days == LastDay - start
           bad == {k \in 0..days : ~PaidUpTo(p[start + k], start + k)}
<1>1. /\ today \in Days /\ today \in Int /\ first \in Int /\ first \in Nat
      /\ start \in Int /\ LastDay \in Nat /\ start <= LastDay /\ Days = 0..LastDay
  BY CalendarAssumption
     DEF ForecastInv, AccountInv, GInv, TypeOK, Days, CalendarAssumption, FirstDayIsOpen
<1>2. days \in Nat /\ bad \in SUBSET (0..days)
  BY <1>1
<1>3. PaysFrom(p, ledger, keyOk, first, OffDays(pools), LastDay)
  BY <1>1, PaidThroughPays
<1>4. /\ p[start] = ledger
      /\ \A x \in first..LastDay : p[x] = PaysDay(p[x - 1], keyOk, x, OffDays(pools))
  <2> HIDE DEF p, first
  <2>1. \A x \in start..LastDay :
          p[x] = IF x < first THEN ledger ELSE PaysDay(p[x - 1], keyOk, x, OffDays(pools))
    BY <1>3 DEF PaysFrom
  <2>2. start \in start..LastDay /\ start < first
    BY <1>1
  <2>3. \A x \in first..LastDay : x \in start..LastDay /\ ~(x < first)
    BY <1>1
  <2> QED
    BY <2>1, <2>2, <2>3
<1>5. ASSUME bad # {} PROVE FALSE
  <2>1. PICK k \in bad : \A j \in bad : k <= j
    <3> HIDE DEF bad, days
    <3> QED
      BY <1>2, <1>5, SmallestNumber
  <2>2. k \in 0..days /\ k \in Int /\ ~PaidUpTo(p[start + k], start + k)
    BY <1>2
  <2>3. CASE k = 0
    <3>1. start + k = start
      BY <1>1, <2>3
    <3>2. Ahead(start) = {}
      <4> HIDE DEF first
      <4>1. first..start = {}
        BY <1>1
      <4> QED
        BY <4>1 DEF Ahead, first
    <3>3. Took(start) = 0
      <4>1. Dear(start) = {}
        BY <3>2 DEF Dear
      <4>2. Cardinality(Dear(start)) = 0
        BY <4>1, FS_EmptySet
      <4> QED
        BY <4>2, DebtIsNat DEF Took, AtMost
    <3>4. PriceOf({}) = 0
      <4>1. PriceOf({}) = SumFunctionOnSet(Costs, {})
        BY PriceOn
      <4> QED
        BY <4>1, SumEmpty
    <3>5. FiniteLedger(ledger) /\ Charged(ledger) \in Nat /\ Repaid(ledger, keyOk) \in Nat
      BY ChargedIsNat, DebtIsNat DEF ForecastInv, AccountInv, Account
    <3>6. PaidUpTo(ledger, start)
      BY <3>2, <3>3, <3>4, <3>5 DEF PaidUpTo
    <3> QED
      BY <1>4, <2>2, <3>1, <3>6
  <2>4. CASE k # 0
    <3> DEFINE x == start + k
    <3>1. k - 1 \in 0..days /\ k - 1 \notin bad
      <4> HIDE DEF bad, days
      <4> QED
        BY <1>2, <2>1, <2>2, <2>4
    <3>2. PaidUpTo(p[start + (k - 1)], start + (k - 1))
      BY <3>1
    <3>3. x \in first..LastDay /\ x \in Days /\ start + (k - 1) = x - 1 /\ first <= x
      <4>1. k <= LastDay - start /\ 1 <= k
        BY <1>1, <2>2, <2>4
      <4> HIDE DEF first, p
      <4> QED
        BY <1>1, <2>2, <4>1
    <3> HIDE DEF x, p
    <3>4. PaidUpTo(p[x - 1], x - 1)
      BY <3>2, <3>3
    <3>5. PaidUpTo(PaysDay(p[x - 1], keyOk, x, OffDays(pools)), x)
      BY <3>3, <3>4, PayingOnceMore
    <3>6. PaidUpTo(p[x], x)
      BY <1>4, <3>3, <3>5
    <3> QED
      BY <2>2, <3>6 DEF x
  <2> QED
    BY <2>3, <2>4
<1>6. d - start \in 0..days /\ start + (d - start) = d
  BY <1>1
<1>7. d - start \notin bad
  BY <1>5
<1>8. PaidUpTo(p[start + (d - start)], start + (d - start))
  BY <1>6, <1>7
<1> HIDE DEF p
<1> QED
  BY <1>6, <1>8 DEF p

(* What is said to be collected by a date, and the debt said to be left, is *)
(* what the rules will have charged by then (project, surcharge_on).        *)
THEOREM RulesDemandIsCollected == Spec => []RulesDemandIsTaken
<1>1. ForecastInv => RulesDemandIsTaken
  <2> DEFINE first == Position.first
             after(t) == PaidThrough(first)[IF t < first THEN first - 1 ELSE t]
  <2> SUFFICES ASSUME ForecastInv, Forward, NEW t \in Targets
      PROVE /\ Projections[t].demand = AtLeast(0, Charged(after(t)) - Credits(ledger, keyOk, rows))
            /\ Projections[t].left = Outstanding(after(t), keyOk, t + 1, OffDays(pools))
    BY DEF RulesDemandIsTaken
  <2>1. FirstDayIsOpen
    BY FirstDay
  <2>2. /\ t \in Int /\ first \in Int /\ today \in Int /\ t <= LastDay /\ today <= t
        /\ (first = today \/ first = today + 1) /\ today \in Days
    BY <2>1, CalendarAssumption
       DEF ForecastInv, AccountInv, GInv, TypeOK, Days, CalendarAssumption, FirstDayIsOpen, Targets
  <2>3. (IF t < first THEN first - 1 ELSE t) = t /\ first - 1 <= t
    BY <2>2
  <2> DEFINE M == PaidThrough(first)[t]
  <2>4. after(t) = M
    BY <2>3
  <2>5. PaidUpTo(M, t)
    BY <2>1, <2>2, <2>3, PaymentsAddUp
  <2>6. Ahead(t) \in SUBSET Days /\ IsFiniteSet(Ahead(t))
    BY <2>1, <2>2, DaysArePartitioned, DaysAreFinite, FS_Subset
  <2> DEFINE base == SumFunction([d \in Ahead(t) |-> WhatIf(CurrentBase, d)])
  <2>7. /\ Projections[t].demand
             = AtLeast(0, base + Took(t) - (Credits(ledger, keyOk, rows) - Charged(ledger)))
        /\ Projections[t].left = Position.debt - Took(t)
    BY DEF Projections, Project, Took, Dear, Ahead, Position, Available
  <2>8. base = PriceOf(Ahead(t)) /\ PriceOf(Ahead(t)) \in Nat
    BY <2>6, PriceAhead, PriceGrows
  <2>9. Took(t) \in Nat /\ Charged(ledger) \in Nat /\ Credits(ledger, keyOk, rows) \in Nat
    BY <2>6, TookIsNat, ChargedIsNat, CreditsAreWorthIt DEF ForecastInv, AccountInv, Account
  <2>10. Charged(M) = Charged(ledger) + PriceOf(Ahead(t)) + Took(t)
    BY <2>5 DEF PaidUpTo
  <2>11. Outstanding(M, keyOk, t + 1, OffDays(pools)) = Position.debt - Took(t)
    BY <2>1, <2>2, <2>3, <2>5, <2>6, OwedAfter
  <2> HIDE DEF M, base
  <2>12. base + Took(t) - (Credits(ledger, keyOk, rows) - Charged(ledger))
           = Charged(M) - Credits(ledger, keyOk, rows)
    BY <2>8, <2>9, <2>10
  <2> HIDE DEF after
  <2> QED
    BY <2>4, <2>7, <2>11, <2>12
<1> QED
  BY InitForecast, ForecastStep, <1>1, PTL DEF Spec

-----------------------------------------------------------------------------
(* The price at which a goal lands on a date (landing_day, exact_price).    *)
LEMMA WhatIfIsNat ==
  ASSUME NEW d \in Int, NEW price \in Nat
  PROVE  /\ WhatIf(price, d) \in Nat
         /\ BaseTerms(d).per \in Nat \ {0} /\ BaseTerms(d).flat \in Nat
         /\ Tiered(price, d) = price * BaseTerms(d).per + BaseTerms(d).flat
<1> DEFINE w == Weekday(d)
<1>1. w \in 0..6
  BY CalendarAssumption DEF Weekday, CalendarAssumption
<1>2. \A n \in Nat : Tiered(n, d) = IF w \in {0, 4} THEN n + 1
                                    ELSE IF w \in {1, 2, 3} THEN n ELSE 2 * n
  BY <1>1 DEF Tiered
<1>3. BaseTerms(d) = [per |-> Tiered(1, d) - Tiered(0, d), flat |-> Tiered(0, d)]
  BY DEF BaseTerms
<1> HIDE DEF w
<1>4. /\ Tiered(price, d) \in Nat
      /\ Tiered(1, d) - Tiered(0, d) \in Nat \ {0} /\ Tiered(0, d) \in Nat
      /\ Tiered(price, d) = price * (Tiered(1, d) - Tiered(0, d)) + Tiered(0, d)
  <2>1. CASE w \in {0, 4}
    <3>1. Tiered(price, d) = price + 1 /\ Tiered(1, d) = 2 /\ Tiered(0, d) = 1
      BY <1>2, <2>1
    <3> QED
      BY <3>1
  <2>2. CASE w \in {1, 2, 3}
    <3>1. Tiered(price, d) = price /\ Tiered(1, d) = 1 /\ Tiered(0, d) = 0
      BY <1>2, <2>2
    <3> QED
      BY <3>1
  <2>3. CASE w \in {5, 6}
    <3>1. Tiered(price, d) = 2 * price /\ Tiered(1, d) = 2 /\ Tiered(0, d) = 0
      BY <1>2, <2>3
    <3> QED
      BY <3>1
  <2> QED
    BY <1>1, <2>1, <2>2, <2>3
<1>5. DayCost(d) \in Nat
  BY AnyDayHasAPrice
<1> QED
  BY <1>3, <1>4, <1>5 DEF WhatIf

\* A position a forecast starts from, its gated days, and what the price has
\* gathered up to a day.
WellPlaced(at) == at.first \in 0..Horizon /\ at.debt \in Int /\ at.available \in Int
Gated(at, d) == (at.first..d) \ OffDays(pools)
PricesAt(price) == [d \in 0..Horizon |-> WhatIf(price, d)]
Gathered(at, price, d) ==
  at.debt - at.available + SumFunctionOnSet(PricesAt(price), Gated(at, d))

LEMMA GatedDays ==
  ASSUME NEW at, WellPlaced(at), NEW d \in Int, d <= Horizon
  PROVE  Gated(at, d) \in SUBSET (0..Horizon) /\ IsFiniteSet(Gated(at, d))
<1>1. at.first \in Nat /\ Horizon \in Nat
  BY CalendarAssumption DEF WellPlaced, Horizon, CalendarAssumption
<1>2. Gated(at, d) \in SUBSET (0..Horizon)
  BY <1>1 DEF Gated
<1>3. IsFiniteSet(0..Horizon)
  BY <1>1, FS_Interval
<1> QED
  BY <1>2, <1>3, FS_Subset

LEMMA PricesAdd ==
  ASSUME NEW price \in Nat, NEW D \in SUBSET (0..Horizon), IsFiniteSet(D)
  PROVE  /\ SumsToNat(PricesAt(price), D) /\ SumsToInt(PricesAt(price), D)
         /\ SumFunctionOnSet(PricesAt(price), D) \in Nat
<1>1. Horizon \in Nat
  BY CalendarAssumption DEF Horizon, CalendarAssumption
<1>2. \A d \in D : PricesAt(price)[d] = WhatIf(price, d) /\ WhatIf(price, d) \in Nat
  BY <1>1, WhatIfIsNat DEF PricesAt
<1>3. SumsToNat(PricesAt(price), D) /\ SumsToInt(PricesAt(price), D)
  BY <1>2 DEF SumsToNat, SumsToInt
<1> QED
  BY <1>3, SumNat

\* What is gathered starts with the debt less the balance, grows by the price
\* of each gated day, and never shrinks.
LEMMA GatheredGrows ==
  ASSUME NEW at, WellPlaced(at), NEW price \in Nat, NEW d \in at.first..Horizon
  PROVE  /\ Gathered(at, price, d) \in Int /\ Gathered(at, price, d - 1) \in Int
         /\ Gathered(at, price, d)
              = Gathered(at, price, d - 1)
                + (IF d \in OffDays(pools) THEN 0 ELSE WhatIf(price, d))
<1> DEFINE f == PricesAt(price)
           before == Gated(at, d - 1)
           start == at.debt - at.available
<1>1. /\ Horizon \in Nat /\ at.first \in Nat /\ d \in Int /\ d \in 0..Horizon /\ at.first <= d
      /\ start \in Int
  BY CalendarAssumption DEF WellPlaced, Horizon, CalendarAssumption
<1>2. before \in SUBSET (0..Horizon) /\ IsFiniteSet(before)
  BY <1>1, GatedDays
<1>3. Gated(at, d) = before \cup ({d} \ OffDays(pools)) /\ d \notin before
  <2> DEFINE first == at.first
  <2> HIDE DEF first
  <2>1. first..d = (first..(d - 1)) \cup {d} /\ d \notin first..(d - 1)
    BY <1>1 DEF first
  <2> QED
    BY <2>1 DEF Gated, first
<1>4. f[d] = WhatIf(price, d) /\ f[d] \in Nat
  BY <1>1, WhatIfIsNat DEF PricesAt
<1>5. Gathered(at, price, d) = start + SumFunctionOnSet(f, Gated(at, d))
      /\ Gathered(at, price, d - 1) = start + SumFunctionOnSet(f, before)
  BY DEF Gathered
<1>6. SumsToInt(f, before) /\ SumFunctionOnSet(f, before) \in Nat
  BY <1>2, PricesAdd
<1> HIDE DEF f, before, start
<1>7. CASE d \in OffDays(pools)
  <2>1. Gated(at, d) = before
    BY <1>3, <1>7
  <2> QED
    BY <1>1, <1>5, <1>6, <1>7, <2>1
<1>8. CASE d \notin OffDays(pools)
  <2>1. Gated(at, d) = before \cup {d}
    BY <1>3, <1>8
  <2>2. SumFunctionOnSet(f, before \cup {d}) = f[d] + SumFunctionOnSet(f, before)
    BY <1>2, <1>3, <1>4, <1>6, SumAdds
  <2> QED
    BY <1>1, <1>4, <1>5, <1>6, <1>8, <2>1, <2>2
<1> QED
  BY <1>7, <1>8

LEMMA GatheredStarts ==
  ASSUME NEW at, WellPlaced(at), NEW price
  PROVE  /\ Gathered(at, price, at.first - 1) = at.debt - at.available
         /\ Gathered(at, price, at.first - 1) \in Int
<1>1. at.first \in Nat /\ at.debt - at.available \in Int
  BY CalendarAssumption DEF WellPlaced, Horizon, CalendarAssumption
<1>2. Gated(at, at.first - 1) = {}
  <2> DEFINE first == at.first
  <2> HIDE DEF first
  <2>1. first..(first - 1) = {}
    BY <1>1 DEF first
  <2> QED
    BY <2>1 DEF Gated, first
<1> QED
  BY <1>1, <1>2, SumEmpty DEF Gathered

LEMMA GatheredNeverShrinks ==
  ASSUME NEW at, WellPlaced(at), NEW price \in Nat, NEW e \in Int, NEW d \in Int,
         e <= d, d <= Horizon
  PROVE  /\ Gathered(at, price, e) \in Int /\ Gathered(at, price, d) \in Int
         /\ Gathered(at, price, e) <= Gathered(at, price, d)
<1> DEFINE f == PricesAt(price)
           E == Gated(at, e)
           D == Gated(at, d)
           start == at.debt - at.available
<1>1. Horizon \in Nat /\ start \in Int /\ at.first \in Int
  BY CalendarAssumption DEF WellPlaced, Horizon, CalendarAssumption
<1>2. /\ D \in SUBSET (0..Horizon) /\ IsFiniteSet(D)
      /\ E \in SUBSET (0..Horizon) /\ IsFiniteSet(E)
  BY <1>1, GatedDays
<1>3. E \in SUBSET D
  BY <1>1 DEF Gated
<1>4. Gathered(at, price, e) = start + SumFunctionOnSet(f, E)
      /\ Gathered(at, price, d) = start + SumFunctionOnSet(f, D)
  BY DEF Gathered
<1> HIDE DEF D, E
<1>5. SumsToNat(f, D) /\ SumFunctionOnSet(f, D) \in Nat /\ SumFunctionOnSet(f, E) \in Nat
  BY <1>2, PricesAdd
<1> HIDE DEF f, start
<1>6. SumFunctionOnSet(f, E) <= SumFunctionOnSet(f, D)
  BY <1>2, <1>3, <1>5, SumGrows
<1> QED
  BY <1>1, <1>4, <1>5, <1>6

\* The day-by-day sum of landing_day, and that it is the closed form.
Collects(c, at, price) ==
  c = [d \in (at.first - 1)..Horizon |->
         IF d < at.first THEN at.debt - at.available
         ELSE c[d - 1] + (IF d \in OffDays(pools) THEN 0 ELSE WhatIf(price, d))]
Collected(at, price) == CHOOSE c : Collects(c, at, price)

LEMMA CollectedExists ==
  ASSUME NEW at, WellPlaced(at), NEW price \in Nat
  PROVE  Collects(Collected(at, price), at, price)
<1> DEFINE first == at.first
           step(r, d) == IF d < first THEN at.debt - at.available
                         ELSE r[d - 1] + (IF d \in OffDays(pools) THEN 0 ELSE WhatIf(price, d))
           g == [d \in (first - 1)..Horizon |-> Gathered(at, price, d)]
<1>1. first \in Int /\ Horizon \in Int
  BY CalendarAssumption DEF WellPlaced, Horizon, CalendarAssumption
<1>2. ASSUME NEW d \in (first - 1)..Horizon PROVE Gathered(at, price, d) = step(g, d)
  <2>1. CASE d < first
    <3>1. d = first - 1
      <4> HIDE DEF first
      <4> QED
        BY <1>1, <2>1
    <3> QED
      BY <2>1, <3>1, GatheredStarts
  <2>2. CASE ~(d < first)
    <3>1. d \in first..Horizon /\ d - 1 \in (first - 1)..Horizon
      <4> HIDE DEF first
      <4> QED
        BY <1>1, <2>2
    <3>2. g[d - 1] = Gathered(at, price, d - 1)
      BY <3>1
    <3> HIDE DEF g
    <3> QED
      BY <2>2, <3>1, <3>2, GatheredGrows
  <2> QED
    BY <2>1, <2>2
<1>3. [d \in (first - 1)..Horizon |-> Gathered(at, price, d)]
        = [d \in (first - 1)..Horizon |-> step(g, d)]
  <2> HIDE DEF step, g, first
  <2> QED
    BY <1>2
<1>4. g = [d \in (first - 1)..Horizon |-> step(g, d)]
  BY <1>3
<1> HIDE DEF g
<1>5. Collects(g, at, price)
  BY <1>4 DEF Collects
<1> QED
  BY <1>5 DEF Collected

LEMMA CollectedIsGathered ==
  ASSUME NEW at, WellPlaced(at), NEW price \in Nat, NEW d \in (at.first - 1)..Horizon
  PROVE  Collected(at, price)[d] = Gathered(at, price, d)
<1> DEFINE first == at.first
           start == first - 1
           c == Collected(at, price)
           n == Horizon - start
           bad == {k \in 0..n : c[start + k] # Gathered(at, price, start + k)}
<1>1. first \in Int /\ Horizon \in Int /\ n \in Nat /\ start \in Int /\ start <= Horizon
  BY CalendarAssumption DEF WellPlaced, Horizon, CalendarAssumption
<1>2. Collects(c, at, price)
  BY CollectedExists
<1> HIDE DEF c, first
<1>3. c[start] = Gathered(at, price, start)
  <2>1. start \in start..Horizon /\ start < first
    BY <1>1
  <2>2. c[start] = at.debt - at.available
    BY <1>2, <2>1 DEF Collects, first
  <2> QED
    BY <2>2, GatheredStarts DEF first
<1>4. ASSUME NEW x \in first..Horizon
      PROVE  c[x] = c[x - 1] + (IF x \in OffDays(pools) THEN 0 ELSE WhatIf(price, x))
  <2>1. x \in start..Horizon /\ ~(x < first)
    BY <1>1
  <2> QED
    BY <1>2, <2>1 DEF Collects, first
<1>5. ASSUME bad # {} PROVE FALSE
  <2>1. PICK k \in bad : \A j \in bad : k <= j
    <3>1. bad \in SUBSET (0..n)
      OBVIOUS
    <3> HIDE DEF bad, n
    <3> QED
      BY <1>1, <1>5, <3>1, SmallestNumber
  <2>2. k \in 0..n /\ k \in Int /\ c[start + k] # Gathered(at, price, start + k)
    OBVIOUS
  <2>3. k # 0
    BY <1>1, <1>3, <2>2
  <2>4. k - 1 \in 0..n /\ k - 1 \notin bad
    <3> HIDE DEF bad, n
    <3> QED
      BY <1>1, <2>1, <2>2, <2>3
  <2> DEFINE x == start + k
  <2>5. c[start + (k - 1)] = Gathered(at, price, start + (k - 1))
    BY <2>4
  <2>6. x \in first..Horizon /\ start + (k - 1) = x - 1
    BY <1>1, <2>2, <2>3
  <2> HIDE DEF x
  <2>7. c[x - 1] = Gathered(at, price, x - 1)
    BY <2>5, <2>6
  <2>8. c[x] = Gathered(at, price, x)
    BY <1>4, <2>6, <2>7, GatheredGrows DEF first
  <2> QED
    BY <2>2, <2>8 DEF x
<1>6. d - start \in 0..n /\ start + (d - start) = d
  BY <1>1 DEF first
<1>7. d - start \notin bad
  BY <1>5
<1> QED
  BY <1>6, <1>7 DEF c

\* Below the goal on every gated day is below it on every day.
LEMMA StaysBelow ==
  ASSUME NEW at, WellPlaced(at), NEW price \in Nat, NEW n \in Int,
         Gathered(at, price, at.first - 1) < n, NEW t \in (at.first - 1)..Horizon,
         \A e \in at.first..t : e \in OffDays(pools) \/ Gathered(at, price, e) < n
  PROVE  Gathered(at, price, t) < n
<1> DEFINE first == at.first
           start == first - 1
           m == t - start
           bad == {k \in 0..m : ~(Gathered(at, price, start + k) < n)}
<1>1. first \in Int /\ Horizon \in Int /\ m \in Nat /\ start \in Int /\ t \in Int /\ t <= Horizon
  BY CalendarAssumption DEF WellPlaced, Horizon, CalendarAssumption
<1> HIDE DEF first
<1>2. ASSUME bad # {} PROVE FALSE
  <2>1. PICK k \in bad : \A j \in bad : k <= j
    <3>1. bad \in SUBSET (0..m)
      OBVIOUS
    <3> HIDE DEF bad, m
    <3> QED
      BY <1>1, <1>2, <3>1, SmallestNumber
  <2>2. k \in 0..m /\ k \in Int /\ ~(Gathered(at, price, start + k) < n)
    OBVIOUS
  <2>3. k # 0
    <3>1. start + 0 = start
      BY <1>1
    <3> QED
      BY <2>2, <3>1 DEF first
  <2>4. k - 1 \in 0..m /\ k - 1 \notin bad
    <3> HIDE DEF bad, m
    <3> QED
      BY <1>1, <2>1, <2>2, <2>3
  <2> DEFINE x == start + k
  <2>5. Gathered(at, price, start + (k - 1)) < n
    BY <2>4
  <2>6. x \in first..t /\ x \in first..Horizon /\ start + (k - 1) = x - 1
    BY <1>1, <2>2, <2>3
  <2> HIDE DEF x
  <2>7. Gathered(at, price, x - 1) < n
    BY <2>5, <2>6
  <2>8. ~(Gathered(at, price, x) < n)
    BY <2>2 DEF x
  <2>9. x \in OffDays(pools)
    BY <2>6, <2>8 DEF first
  <2>10. Gathered(at, price, x) = Gathered(at, price, x - 1) /\ Gathered(at, price, x - 1) \in Int
    BY <2>6, <2>9, GatheredGrows DEF first
  <2> QED
    BY <2>7, <2>8, <2>10
<1>3. m \in 0..m /\ start + m = t
  BY <1>1
<1>4. m \notin bad
  BY <1>2
<1> QED
  BY <1>3, <1>4

Lands(at, price, n, d) ==
  /\ d = Never \/ (d \notin OffDays(pools) /\ Collected(at, price)[d] >= n)
  /\ \A e \in at.first..(d - 1) : e \in OffDays(pools) \/ Collected(at, price)[e] < n

LEMMA LandingDayIs ==
  ASSUME NEW at, NEW price, NEW n
  PROVE  LandingDay(at, price, n)
           = IF Collected(at, price)[at.first - 1] >= n THEN at.first
             ELSE CHOOSE d \in at.first..Never : Lands(at, price, n, d)
BY DEF LandingDay, Lands, Collected, Collects

\* The search finds a day: the first that reaches the goal, or none at all.
LEMMA SomeDayLands ==
  ASSUME NEW at, WellPlaced(at), NEW price \in Nat, NEW n \in Int
  PROVE  \E d \in at.first..Never : Lands(at, price, n, d)
<1> DEFINE first == at.first
           c == Collected(at, price)
           off == OffDays(pools)
           good == {d \in first..Horizon : d \notin off /\ c[d] >= n}
<1>1. first \in Nat /\ Horizon \in Nat /\ Never = Horizon + 1 /\ first <= Horizon
  BY CalendarAssumption DEF WellPlaced, Horizon, CalendarAssumption, Never
<1>2. \A d \in first..Horizon : c[d] \in Int
  <2>1. ASSUME NEW d \in first..Horizon PROVE c[d] \in Int
    <3>1. d \in (first - 1)..Horizon
      <4> HIDE DEF first
      <4> QED
        BY <1>1
    <3> QED
      BY <3>1, CollectedIsGathered, GatheredGrows
  <2> QED
    BY <2>1
<1> HIDE DEF first, c, off
<1>3. CASE good = {}
  <2>1. \A e \in first..(Never - 1) : e \in off \/ c[e] < n
    <3>1. Never - 1 = Horizon
      BY <1>1
    <3>2. ASSUME NEW e \in first..Horizon PROVE e \in off \/ c[e] < n
      BY <1>2, <1>3
    <3> QED
      BY <3>1, <3>2
  <2>2. Lands(at, price, n, Never) /\ Never \in first..Never
    BY <1>1, <2>1 DEF Lands, first, c, off
  <2> QED
    BY <2>2 DEF first
<1>4. CASE good # {}
  <2>1. good \in SUBSET (0..Horizon)
    BY <1>1
  <2>2. PICK d \in good : \A j \in good : d <= j
    <3> HIDE DEF good
    <3> QED
      BY <1>1, <1>4, <2>1, SmallestNumber
  <2>3. d \in first..Horizon /\ d \notin off /\ c[d] >= n /\ d \in first..Never
    BY <1>1
  <2>4. ASSUME NEW e \in first..(d - 1) PROVE e \in off \/ c[e] < n
    <3>1. e \in first..Horizon /\ ~(d <= e)
      BY <1>1, <2>3
    <3>2. e \notin good
      BY <2>2, <3>1
    <3> QED
      BY <1>2, <3>1, <3>2
  <2>5. Lands(at, price, n, d)
    BY <2>3, <2>4 DEF Lands, first, c, off
  <2> QED
    BY <2>3, <2>5 DEF first
<1> QED
  BY <1>3, <1>4

(* The day-by-day search lands by a date exactly if what is gathered by     *)
(* then reaches the goal (landing_day).                                     *)
LEMMA LandsOnceGathered ==
  ASSUME NEW at, WellPlaced(at), NEW price \in Nat, NEW n \in Int, NEW t \in at.first..LastDay
  PROVE  LandingDay(at, price, n) <= t <=> Gathered(at, price, t) >= n
<1> DEFINE first == at.first
           c == Collected(at, price)
           lands == LandingDay(at, price, n)
<1>1. /\ first \in Nat /\ Horizon \in Nat /\ t \in Int /\ first <= t /\ t < Horizon
      /\ Never = Horizon + 1 /\ t <= Horizon /\ first - 1 <= t
  BY CalendarAssumption DEF WellPlaced, Horizon, CalendarAssumption, Never
<1>2. \A d \in (first - 1)..Horizon : c[d] = Gathered(at, price, d) /\ c[d] \in Int
  <2>1. ASSUME NEW d \in (first - 1)..Horizon
        PROVE  c[d] = Gathered(at, price, d) /\ Gathered(at, price, d) \in Int
    <3>1. d \in Int /\ d <= Horizon
      <4> HIDE DEF first
      <4> QED
        BY <1>1
    <3> QED
      BY <3>1, CollectedIsGathered, GatheredNeverShrinks
  <2> QED
    BY <2>1
<1>3. lands = IF c[first - 1] >= n THEN first ELSE CHOOSE d \in first..Never : Lands(at, price, n, d)
  BY LandingDayIs
<1> HIDE DEF first, c, lands
<1>4. first - 1 \in (first - 1)..Horizon /\ t \in (first - 1)..Horizon /\ first - 1 \in Int
  BY <1>1
<1>5. CASE c[first - 1] >= n
  <2>1. lands = first
    BY <1>3, <1>5
  <2>2. Gathered(at, price, first - 1) >= n /\ Gathered(at, price, first - 1) \in Int
    BY <1>2, <1>4, <1>5
  <2>3. Gathered(at, price, t) \in Int /\ Gathered(at, price, first - 1) <= Gathered(at, price, t)
    BY <1>1, <1>4, GatheredNeverShrinks
  <2> QED
    BY <1>1, <2>1, <2>2, <2>3 DEF lands
<1>6. CASE ~(c[first - 1] >= n)
  <2>1. Gathered(at, price, first - 1) < n
    BY <1>2, <1>4, <1>6
  <2>2. lands \in first..Never /\ Lands(at, price, n, lands)
    <3>1. \E d \in first..Never : Lands(at, price, n, d)
      BY SomeDayLands DEF first
    <3> QED
      BY <1>3, <1>6, <3>1
  <2>3. lands \in Int /\ first <= lands
    BY <1>1, <2>2
  <2>4. ASSUME lands <= t PROVE Gathered(at, price, t) >= n
    <3>1. lands # Never /\ lands \in (first - 1)..Horizon
      BY <1>1, <2>3, <2>4
    <3>2. c[lands] >= n
      BY <2>2, <3>1 DEF Lands, c
    <3>3. Gathered(at, price, lands) >= n /\ Gathered(at, price, lands) \in Int
      BY <1>2, <3>1, <3>2
    <3>4. Gathered(at, price, t) \in Int /\ Gathered(at, price, lands) <= Gathered(at, price, t)
      BY <1>1, <2>3, <2>4, GatheredNeverShrinks
    <3> QED
      BY <3>3, <3>4
  <2>5. ASSUME ~(lands <= t) PROVE Gathered(at, price, t) < n
    <3>1. ASSUME NEW e \in first..t PROVE e \in OffDays(pools) \/ Gathered(at, price, e) < n
      <4>1. e \in first..(lands - 1) /\ e \in (first - 1)..Horizon
        BY <1>1, <2>3, <2>5
      <4>2. e \in OffDays(pools) \/ c[e] < n
        BY <2>2, <4>1 DEF Lands, first, c
      <4> QED
        BY <1>2, <4>1, <4>2
    <3> QED
      BY <1>4, <2>1, <3>1, StaysBelow DEF first
  <2>6. Gathered(at, price, t) \in Int
    BY <1>2, <1>4
  <2> QED
    BY <2>4, <2>5, <2>6 DEF lands
<1> QED
  BY <1>5, <1>6

\* How many credits a unit of the base price is worth over the gated days, and
\* what they cost whatever it is (exact_price).
Units(at, t) == SumFunction([d \in Scaled(Gated(at, t)) |-> BaseTerms(d).per])
Fixed(at, t) ==
  SumFunction([d \in Scaled(Gated(at, t)) |-> BaseTerms(d).flat])
  + PriceOf(Gated(at, t) \ Scaled(Gated(at, t)))

(* What is gathered is linear in the price (base_terms).                    *)
LEMMA GatheredIsLinear ==
  ASSUME NEW at, WellPlaced(at), NEW price \in Nat, NEW t \in at.first..LastDay
  PROVE  /\ Units(at, t) \in Nat /\ Fixed(at, t) \in Nat
         /\ Gathered(at, price, t) = at.debt - at.available + (price * Units(at, t) + Fixed(at, t))
<1> DEFINE G == Gated(at, t)
           S == Scaled(G)
           R == G \ S
           P == PricesAt(price)
           per == [d \in S |-> BaseTerms(d).per]
           flat == [d \in S |-> BaseTerms(d).flat]
           times == [d \in S |-> price * per[d]]
<1>1. t \in Int /\ t <= Horizon /\ t <= LastDay /\ LastDay \in Nat /\ Horizon \in Nat /\ at.first \in Nat
  BY CalendarAssumption DEF WellPlaced, Horizon, CalendarAssumption
<1>2. G \in SUBSET (0..Horizon) /\ IsFiniteSet(G) /\ G \in SUBSET Days
  <2>1. G \in SUBSET Days
    BY <1>1 DEF Gated, Days
  <2> QED
    BY <1>1, <2>1, GatedDays
<1> HIDE DEF G
<1>3. /\ IsFiniteSet(S) /\ IsFiniteSet(R) /\ Apart(S, R) /\ S \cup R = G /\ R \in SUBSET Days
      /\ S \in SUBSET (0..Horizon) /\ R \in SUBSET (0..Horizon)
  BY <1>2, FS_Subset DEF Apart, Scaled
<1>4. ASSUME NEW d \in G
      PROVE  /\ P[d] = WhatIf(price, d) /\ d \in Int
             /\ BaseTerms(d).per \in Nat /\ BaseTerms(d).flat \in Nat
             /\ Tiered(price, d) = price * BaseTerms(d).per + BaseTerms(d).flat
  <2>1. d \in 0..Horizon /\ d \in Int
    BY <1>2
  <2> QED
    BY <2>1, WhatIfIsNat DEF PricesAt
<1>5. SumFunctionOnSet(P, G) = SumFunctionOnSet(P, S) + SumFunctionOnSet(P, R)
  <2>1. SumsToInt(P, S) /\ SumsToInt(P, R)
    BY <1>3, PricesAdd
  <2> HIDE DEF P, S, R
  <2>2. SumFunctionOnSet(P, S \cup R) = SumFunctionOnSet(P, S) + SumFunctionOnSet(P, R)
    BY <1>3, <2>1, SumJoins
  <2> QED
    BY <1>3, <2>2
<1>6. SumFunctionOnSet(P, R) = PriceOf(R) /\ PriceOf(R) \in Nat
  <2>1. \A d \in R : Costs[d] = P[d]
    <3>1. ASSUME NEW d \in R PROVE Costs[d] = P[d]
      <4>1. d \in G /\ ~(d >= RepriceDate) /\ d \in Days
        BY <1>3 DEF Scaled
      <4>2. P[d] = WhatIf(price, d) /\ WhatIf(price, d) = DayCost(d)
        BY <1>4, <4>1 DEF WhatIf
      <4> QED
        BY <4>1, <4>2 DEF Costs
    <3> QED
      BY <3>1
  <2>2. /\ PriceOf(R) = SumFunctionOnSet(Costs, R) /\ SumsToInt(Costs, R) /\ PriceOf(R) \in Nat
    <3> HIDE DEF R
    <3>1. R \in SUBSET R
      OBVIOUS
    <3> QED
      BY <1>3, <3>1, PriceOn, PriceGrows
  <2> HIDE DEF P, R
  <2> QED
    BY <1>3, <2>1, <2>2, SumSame
<1>7. /\ \A d \in S : per[d] \in Nat /\ flat[d] \in Nat /\ times[d] = price * per[d]
      /\ \A d \in S : P[d] = times[d] + flat[d]
  <2>1. ASSUME NEW d \in S
        PROVE  /\ per[d] \in Nat /\ flat[d] \in Nat /\ times[d] = price * per[d]
               /\ P[d] = times[d] + flat[d]
    <3>1. d \in G /\ d >= RepriceDate
      BY DEF Scaled
    <3>2. WhatIf(price, d) = Tiered(price, d)
      BY <3>1 DEF WhatIf
    <3>3. /\ P[d] = price * BaseTerms(d).per + BaseTerms(d).flat
          /\ BaseTerms(d).per \in Nat /\ BaseTerms(d).flat \in Nat
      BY <1>4, <3>1, <3>2
    <3>4. per[d] = BaseTerms(d).per /\ flat[d] = BaseTerms(d).flat /\ times[d] = price * per[d]
      OBVIOUS
    <3> HIDE DEF P, S, per, flat, times
    <3> QED
      BY <3>3, <3>4
  <2> QED
    BY <2>1
<1>8. DOMAIN per = S /\ DOMAIN flat = S
  OBVIOUS
<1>9. Units(at, t) = SumFunction(per) /\ Fixed(at, t) = SumFunction(flat) + PriceOf(R)
  BY DEF Units, Fixed, G
<1>10. Gathered(at, price, t) = at.debt - at.available + SumFunctionOnSet(P, G)
  BY DEF Gathered, G
<1> HIDE DEF P, S, R, per, flat, times
<1>11. /\ SumsToNat(per, S) /\ SumsToInt(per, S) /\ SumsToNat(flat, S) /\ SumsToInt(flat, S)
       /\ SumsToInt(times, S)
  <2>1. \A d \in S : times[d] \in Int
    BY <1>7
  <2> QED
    BY <1>7, <2>1 DEF SumsToNat, SumsToInt
<1>12. SumFunction(per) = SumFunctionOnSet(per, S) /\ SumFunction(flat) = SumFunctionOnSet(flat, S)
  BY <1>8 DEF SumFunction
<1>13. SumFunctionOnSet(times, S) = price * SumFunctionOnSet(per, S)
  <2>1. \A d \in S : times[d] = price * per[d]
    BY <1>7
  <2>2. IsFiniteSet(S) /\ SumsToInt(per, S)
    BY <1>3, <1>11
  <2> QED
    BY <2>1, <2>2, SumTimes
<1>14. SumFunctionOnSet(P, S) = SumFunctionOnSet(times, S) + SumFunctionOnSet(flat, S)
  <2>1. \A d \in S : P[d] = times[d] + flat[d]
    BY <1>7
  <2>2. IsFiniteSet(S) /\ SumsToInt(times, S) /\ SumsToInt(flat, S)
    BY <1>3, <1>11
  <2> QED
    BY <2>1, <2>2, SumPlus
<1>15. SumFunctionOnSet(per, S) \in Nat /\ SumFunctionOnSet(flat, S) \in Nat
  BY <1>3, <1>11, SumNat
<1>16. at.debt - at.available \in Int
  BY DEF WellPlaced
<1>17. price * Units(at, t) \in Nat
  BY <1>9, <1>12, <1>15
<1>18. SumFunctionOnSet(P, G) = price * Units(at, t) + Fixed(at, t)
  BY <1>5, <1>6, <1>9, <1>12, <1>13, <1>14, <1>15, <1>17
<1> QED
  BY <1>6, <1>9, <1>10, <1>12, <1>15, <1>18

LEMMA SmallestMultiple ==
  ASSUME NEW u \in Nat \ {0}, NEW r \in Nat, NEW p \in Nat \ {0}
  PROVE  p >= AtLeast(1, (r + u - 1) \div u) <=> p * u >= r
<1> DEFINE a == r + u - 1
           q == a \div u
<1>1. a \in Nat
  OBVIOUS
<1> HIDE DEF a
<1>2. q \in Int /\ q * u <= a /\ a < q * u + u
  BY <1>1
<1> HIDE DEF q
<1>3. q >= 0
  <2>1. ASSUME q <= -1 PROVE FALSE
    <3>1. (q + 1) * u = q * u + u /\ (-(q + 1)) \in Nat
      BY <1>2, <2>1
    <3>2. (-(q + 1)) * u \in Nat /\ (-(q + 1)) * u = -((q + 1) * u)
      BY <1>2, <3>1
    <3> QED
      BY <1>1, <1>2, <3>1, <3>2
  <2> QED
    BY <1>2, <2>1
<1>4. p >= AtLeast(1, q) <=> p >= q
  BY <1>2 DEF AtLeast
<1>5. ASSUME p >= q PROVE p * u >= r
  <2>1. (p - q) \in Nat /\ (p - q) * u = p * u - q * u /\ p * u \in Int /\ q * u \in Int
    BY <1>2, <1>5
  <2>2. (p - q) * u \in Nat
    BY <2>1
  <2>3. q * u >= r
    <3>1. q * u > a - u /\ a - u = r - 1
      BY <1>1, <1>2 DEF a
    <3> QED
      BY <2>1, <3>1
  <2> QED
    BY <2>1, <2>2, <2>3
<1>6. ASSUME p < q PROVE p * u < r
  <2>1. (q - p - 1) \in Nat /\ (q - p - 1) * u = q * u - p * u - u /\ p * u \in Int /\ q * u \in Int
    BY <1>2, <1>6
  <2>2. (q - p - 1) * u \in Nat
    BY <2>1
  <2>3. q * u <= r + u - 1
    BY <1>2 DEF a
  <2> QED
    BY <2>1, <2>2, <2>3
<1>7. p * u \in Int
  OBVIOUS
<1> QED
  BY <1>2, <1>4, <1>5, <1>6, <1>7 DEF q, a

(* The closed form names the smallest price that gathers the goal: one      *)
(* below it does not land by the date, and one at or above it does          *)
(* (exact_price against landing_day).                                       *)
LEMMA LeastPriceLands ==
  ASSUME NEW at, WellPlaced(at), NEW price \in Nat \ {0}, NEW n \in Int, NEW t \in Days,
         at.first - 1 <= t, MinimalPrice(at, t, n) > 0
  PROVE  LandingDay(at, price, n) <= t <=> price >= MinimalPrice(at, t, n)
<1> DEFINE u == Units(at, t)
           fixed == Fixed(at, t)
           start == at.debt - at.available
           r == AtLeast(0, n - at.debt + at.available - fixed)
<1>1. MinimalPrice(at, t, n) = IF u = 0 THEN 0 ELSE AtLeast(1, (r + u - 1) \div u)
  BY DEF MinimalPrice, Units, Fixed, Gated
<1>2. at.first \in Nat /\ t \in Int /\ t <= LastDay /\ LastDay \in Nat /\ start \in Int
  BY CalendarAssumption DEF WellPlaced, Horizon, Days, CalendarAssumption
<1>3. at.first <= t
  <2>1. ASSUME ~(at.first <= t) PROVE FALSE
    <3>1. Gated(at, t) = {}
      <4> DEFINE first == at.first
      <4> HIDE DEF first
      <4>1. first..t = {}
        BY <1>2, <2>1 DEF first
      <4> QED
        BY <4>1 DEF Gated, first
    <3>2. Scaled(Gated(at, t)) = {}
      BY <3>1 DEF Scaled
    <3> DEFINE per == [d \in Scaled(Gated(at, t)) |-> BaseTerms(d).per]
    <3>3. DOMAIN per = {}
      BY <3>2
    <3>4. u = SumFunctionOnSet(per, {})
      <4>1. u = SumFunction(per)
        BY DEF Units
      <4> HIDE DEF per
      <4> QED
        BY <3>3, <4>1 DEF SumFunction
    <3>5. u = 0
      BY <3>4, SumEmpty
    <3> QED
      BY <1>1, <3>5
  <2> QED
    BY <2>1
<1>4. t \in at.first..LastDay
  BY <1>2, <1>3
<1>5. u \in Nat /\ fixed \in Nat /\ Gathered(at, price, t) = start + (price * u + fixed)
  BY <1>4, GatheredIsLinear
<1>6. LandingDay(at, price, n) <= t <=> Gathered(at, price, t) >= n
  BY <1>4, LandsOnceGathered
<1>7. at.debt \in Int /\ at.available \in Int
  BY DEF WellPlaced
<1> HIDE DEF u, fixed
<1>8. u # 0
  BY <1>1
<1>9. r \in Nat
  BY <1>5, <1>7 DEF AtLeast
<1>10. price >= MinimalPrice(at, t, n) <=> price * u >= r
  <2> HIDE DEF r
  <2> QED
    BY <1>1, <1>5, <1>8, <1>9, SmallestMultiple
<1>11. price * u \in Nat
  BY <1>5
<1> DEFINE worth == price * u
<1>12. worth \in Nat /\ Gathered(at, price, t) = start + (worth + fixed)
       /\ (price >= MinimalPrice(at, t, n) <=> worth >= r)
  BY <1>5, <1>10, <1>11
<1> HIDE DEF worth
<1>13. start + (worth + fixed) >= n <=> worth >= r
  BY <1>5, <1>7, <1>12 DEF AtLeast
<1> QED
  BY <1>6, <1>12, <1>13

LEMMA NeededIsInt ==
  ASSUME IsFiniteSet(solved), NEW goal \in [Levels -> Nat]
  PROVE  Needed(goal) \in Int
<1> DEFINE f == [l \in Levels |-> AtLeast(0, goal[l] - SolvedCount(l)) * Weight(l)]
<1>1. IsFiniteSet(Levels)
  <2>1. IsFiniteSet({"Easy"})
    BY FS_Singleton
  <2>2. IsFiniteSet({"Easy"} \cup {"Medium"})
    BY <2>1, FS_AddElement
  <2>3. IsFiniteSet(({"Easy"} \cup {"Medium"}) \cup {"Hard"})
    BY <2>2, FS_AddElement
  <2>4. ({"Easy"} \cup {"Medium"}) \cup {"Hard"} = Levels
    BY DEF Levels
  <2> QED
    BY <2>3, <2>4
<1>2. ASSUME NEW l \in Levels PROVE SolvedCount(l) \in Nat
  <2> DEFINE some == {x \in solved : LevelOf[SlugOf[x]] = l}
             m == [x \in some |-> SlugOf[x]]
  <2>1. IsFiniteSet(some)
    BY FS_Subset
  <2>2. {SlugOf[s] : s \in some} = ImageOf(m, some)
    BY DEF ImageOf
  <2> HIDE DEF m
  <2>3. IsFiniteSet(ImageOf(m, some))
    <3> HIDE DEF some
    <3> QED
      BY <2>1, ImageIsFinite
  <2>4. SolvedCount(l) = Cardinality(ImageOf(m, some))
    BY <2>2 DEF SolvedCount
  <2> QED
    BY <2>3, <2>4, FS_CardinalityType
<1>3. ASSUME NEW l \in Levels PROVE f[l] \in Int
  <2>1. goal[l] \in Nat /\ Weight(l) \in {1, 2, 4}
    BY DEF Levels, Weight
  <2>2. AtLeast(0, goal[l] - SolvedCount(l)) \in Nat
    BY <1>2, <2>1 DEF AtLeast
  <2> DEFINE open == AtLeast(0, goal[l] - SolvedCount(l))
  <2>3. f[l] = open * Weight(l)
    OBVIOUS
  <2> HIDE DEF open, f
  <2> QED
    BY <2>1, <2>2, <2>3 DEF open
<1>4. Needed(goal) = SumFunction(f) /\ DOMAIN f = Levels
  BY DEF Needed
<1> HIDE DEF f
<1>5. SumsToInt(f, Levels)
  BY <1>3 DEF SumsToInt
<1> QED
  BY <1>1, <1>4, <1>5, SumRemoves DEF SumFunction

(* The closed form and the day-by-day search agree, from any ledger, at any *)
(* position, for any goal and price (exact_price, landing_day).             *)
THEOREM TheNamedPriceLands == Spec => []MinimalPriceLands
<1>1. AccountInv => MinimalPriceLands
  <2> DEFINE at == Position
  <2> SUFFICES ASSUME AccountInv, NEW goal \in Goals, NEW price \in Prices, NEW t \in Targets,
                      MinimalPrice(at, t, Needed(goal)) > 0
      PROVE LandingDay(at, price, Needed(goal)) <= t
              <=> price >= MinimalPrice(at, t, Needed(goal))
    BY DEF MinimalPriceLands
  <2>1. price \in Nat \ {0} /\ goal \in [Levels -> Nat]
    BY ForecastAssumption DEF ForecastAssumption
  <2>2. Needed(goal) \in Int
    BY <2>1, NeededIsInt DEF AccountInv, GInv
  <2>3. /\ FiniteLedger(ledger) /\ UnitCredits(ledger) /\ today \in Days
        /\ ledger \in SUBSET ledger /\ LastDay \in Nat /\ Days = 0..LastDay
    BY CalendarAssumption DEF AccountInv, Account, GInv, TypeOK, CalendarAssumption, Days
  <2>4. at.first = today \/ at.first = today + 1
    BY DEF Position
  <2>5. at.available \in Int
    <3>1. Credits(ledger, keyOk, rows) \in Nat /\ Charged(ledger) \in Nat
      BY <2>3, CreditsAreWorthIt, ChargedIsNat
    <3>2. at.available = Credits(ledger, keyOk, rows) - Charged(ledger)
      BY DEF Position, Available
    <3> QED
      BY <3>1, <3>2
  <2>6. at.debt \in Int
    <3>1. MissedDays(ledger, today, OffDays(pools)) \in SUBSET Days
      BY <2>3, MissedAreDays
    <3>2. Owed(ledger, today, OffDays(pools)) \in Nat /\ Repaid(ledger, keyOk) \in Nat
      BY <2>3, <3>1, PriceGrows, RepaidGrows DEF Owed
    <3>3. at.debt = Outstanding(ledger, keyOk, today, OffDays(pools))
      BY DEF Position
    <3> QED
      BY <3>2, <3>3 DEF Outstanding
  <2>7. t \in Days /\ at.first - 1 <= t /\ at.first \in 0..Horizon
    <3> HIDE DEF at
    <3> QED
      BY <2>3, <2>4 DEF Targets, Horizon
  <2>8. WellPlaced(at)
    BY <2>5, <2>6, <2>7 DEF WellPlaced
  <2> HIDE DEF at
  <2> QED
    BY <2>1, <2>2, <2>7, <2>8, LeastPriceLands
<1> QED
  BY InitAccount, AccountStep, <1>1, PTL DEF Spec

-----------------------------------------------------------------------------
(* The account book: Gate implements Bank.                                  *)
SpentIn(L) == Charged(NotForgiven(L))
Page(L) == [d \in Days |-> Settled(L, d)]
BookStep == [Books!Turn \/ Books!Earn \/ Books!Pay \/ Books!Forgive]_(Books!books)

LEMMA OpenIsUncharged ==
  ASSUME NEW L, NEW d
  PROVE  Settled(L, d) = "open" <=> d \notin ChargedDays(L)
<1> DEFINE causes == {e.source : e \in {c \in OfKind(L, "charge") : c.day = d}}
<1>1. causes = {} <=> d \notin ChargedDays(L)
  BY DEF ChargedDays
<1>2. Settled(L, d) = IF causes = {} THEN "open"
                      ELSE IF causes \subseteq ForgivenSources THEN "forgiven" ELSE "paid"
  BY DEF Settled
<1> HIDE DEF causes
<1> QED
  BY <1>1, <1>2

(* A charge settles its day, which was open: ids are unique (charge_entry). *)
LEMMA ChargingSettles ==
  ASSUME NEW L, NEW e, e \notin L, e.kind = "charge", FiniteLedger(L \cup {e})
  PROVE  /\ e.day \in Days /\ Settled(L, e.day) = "open"
         /\ e.source \in ForgivenSources
              => Page(L \cup {e}) = [Page(L) EXCEPT ![e.day] = "forgiven"]
         /\ e.source \notin ForgivenSources
              => Page(L \cup {e}) = [Page(L) EXCEPT ![e.day] = "paid"]
<1> DEFINE M == L \cup {e}
           mark == IF e.source \in ForgivenSources THEN "forgiven" ELSE "paid"
           causes(N, d) == {x.source : x \in {c \in OfKind(N, "charge") : c.day = d}}
<1>1. e.day \in Days
  BY DEF FiniteLedger, IsLedger, IsEntry
<1>2. \A c \in OfKind(L, "charge") : c.day # e.day
  <2> SUFFICES ASSUME NEW c \in OfKind(L, "charge"), c.day = e.day PROVE FALSE
    OBVIOUS
  <2>1. c.id = <<"charge", c.day>> /\ e.id = <<"charge", e.day>> /\ c \in M /\ e \in M
    BY DEF OfKind, FiniteLedger, IsLedger, IsEntry
  <2>2. c = e
    BY <2>1 DEF FiniteLedger, IsLedger
  <2> QED
    BY <2>2 DEF OfKind
<1>3. causes(M, e.day) = {e.source}
  BY <1>2 DEF OfKind
<1>4. \A d \in Days : d # e.day => causes(M, d) = causes(L, d)
  BY DEF OfKind
<1>5. \A N, d : Settled(N, d) = IF causes(N, d) = {} THEN "open"
                                ELSE IF causes(N, d) \subseteq ForgivenSources
                                     THEN "forgiven" ELSE "paid"
  BY DEF Settled
<1>6. Settled(L, e.day) = "open"
  BY <1>2, OpenIsUncharged DEF ChargedDays
<1>6a. /\ e.source \in ForgivenSources => mark = "forgiven"
       /\ e.source \notin ForgivenSources => mark = "paid"
  OBVIOUS
<1>7. Settled(M, e.day) = mark
  BY <1>3, <1>5
<1> HIDE DEF causes, M, mark
<1>8. \A d \in Days : d # e.day => Settled(M, d) = Settled(L, d)
  BY <1>4, <1>5
<1>9. Page(M) = [Page(L) EXCEPT ![e.day] = mark]
  BY <1>1, <1>7, <1>8 DEF Page
<1> QED
  BY <1>1, <1>6, <1>6a, <1>9 DEF M

(* What is spent grows by a charge that is not forgiven (settle_day).       *)
LEMMA SpendingAdds ==
  ASSUME NEW L, NEW e, e \notin L, e.kind = "charge", FiniteLedger(L \cup {e})
  PROVE  /\ e.source \in ForgivenSources => SpentIn(L \cup {e}) = SpentIn(L)
         /\ e.source \notin ForgivenSources => SpentIn(L \cup {e}) = SpentIn(L) + e.amount
<1>1. CASE e.source \in ForgivenSources
  <2>1. NotForgiven(L \cup {e}) = NotForgiven(L)
    BY <1>1 DEF NotForgiven
  <2> QED
    BY <1>1, <2>1 DEF SpentIn
<1>2. CASE e.source \notin ForgivenSources
  <2>1. NotForgiven(L \cup {e}) = NotForgiven(L) \cup {e} /\ e \notin NotForgiven(L)
    BY <1>2 DEF NotForgiven
  <2>2. NotForgiven(L \cup {e}) \in SUBSET (L \cup {e})
    BY DEF NotForgiven
  <2>3. FiniteLedger(NotForgiven(L) \cup {e})
    BY <2>1, <2>2, PartIsFinite
  <2> QED
    BY <1>2, <2>1, <2>3, ChargedAdds DEF SpentIn
<1> QED
  BY <1>1, <1>2

(* The book of a sound account: nothing is spent that was not earned.       *)
LEMMA SpentIsEarned ==
  ASSUME NEW L, Account(L)
  PROVE  SpentIn(L) \in Nat /\ Worth(L) \in Nat /\ SpentIn(L) <= Worth(L)
<1>1. /\ NotForgiven(L) \in SUBSET L /\ ForgivenIn(L) \in SUBSET L /\ L \in SUBSET L
      /\ L = NotForgiven(L) \cup ForgivenIn(L) /\ Apart(NotForgiven(L), ForgivenIn(L))
  BY DEF NotForgiven, ForgivenIn, Apart
<1>2. Charged(NotForgiven(L)) \in Nat /\ Charged(ForgivenIn(L)) \in Nat /\ Worth(L) \in Nat
  BY <1>1, PartIsFinite, ChargedIsNat, WorthGrows DEF Account
<1>3. Charged(L) = Charged(NotForgiven(L)) + Charged(ForgivenIn(L))
  <2> DEFINE paid == NotForgiven(L)
             rest == ForgivenIn(L)
  <2>1. FiniteLedger(paid \cup rest) /\ Apart(paid, rest) /\ L = paid \cup rest
    BY <1>1 DEF Account
  <2> HIDE DEF paid, rest
  <2>2. Charged(paid \cup rest) = Charged(paid) + Charged(rest)
    BY <2>1, ChargedJoins
  <2> QED
    BY <2>1, <2>2 DEF paid, rest
<1> QED
  BY <1>2, <1>3 DEF Account, PaidFor, SpentIn

(* What the steps of the bank are, of the ledger that stands for its books. *)
LEMMA BooksAreLeft ==
  ASSUME today' \in Days, ledger' = ledger
  PROVE  BookStep
<1>1. /\ Worth(ledger') = Worth(ledger) /\ NotForgiven(ledger') = NotForgiven(ledger)
      /\ \A d \in Days : Settled(ledger', d) = Settled(ledger, d)
  OBVIOUS
<1> QED
  BY <1>1 DEF BookStep, Books!Turn

LEMMA BooksEarn ==
  ASSUME today' = today, Worth(ledger) \in Nat, Worth(ledger') \in Nat,
         Worth(ledger) <= Worth(ledger'),
         SpentIn(ledger') = SpentIn(ledger), Page(ledger') = Page(ledger)
  PROVE  BookStep
<1>1. CASE Worth(ledger') = Worth(ledger)
  BY <1>1 DEF BookStep, Books!books, SpentIn, Page
<1>2. CASE Worth(ledger') > Worth(ledger)
  BY <1>2 DEF BookStep, Books!Earn, SpentIn, Page
<1> QED
  BY <1>1, <1>2

LEMMA BooksPay ==
  ASSUME today' = today, today \in Days, today >= GateStart,
         \A d \in Days : Page(ledger)[d] # "open" => d < today,
         NEW debt \in {0, 1},
         debt = 1 => /\ SurchargeApplies(today)
                     /\ \E d \in Days : DebtStart <= d /\ d < today /\ Page(ledger)[d] = "open",
         SpentIn(ledger') = SpentIn(ledger) + DayCost(today) + debt,
         Worth(ledger) <= Worth(ledger'), SpentIn(ledger') <= Worth(ledger'),
         Page(ledger') = [Page(ledger) EXCEPT ![today] = "paid"]
  PROVE  BookStep
<1>1. [d \in Days |-> DayCost(d)][today] = DayCost(today)
  OBVIOUS
<1>2. debt = 1 => today \in {d \in Days : SurchargeApplies(d)} /\ Books!Missed # {}
  BY DEF Books!Missed, Page
<1> QED
  BY <1>1, <1>2 DEF BookStep, Books!Pay, SpentIn, Page

LEMMA BooksForgive ==
  ASSUME today' = today, today \in Days, Page(ledger)[today] = "open",
         SpentIn(ledger') = SpentIn(ledger), Worth(ledger') = Worth(ledger),
         Page(ledger') = [Page(ledger) EXCEPT ![today] = "forgiven"]
  PROVE  BookStep
BY DEF BookStep, Books!Forgive, SpentIn, Page

(* Minting turns no page and spends nothing (harvest, seed_ledger).         *)
LEMMA MintingEarns ==
  ASSUME NEW L, Account(L), NEW M, Minted(L, M)
  PROVE  /\ Worth(L) \in Nat /\ Worth(M) \in Nat /\ Worth(L) <= Worth(M)
         /\ SpentIn(M) = SpentIn(L) /\ Page(M) = Page(L)
<1>1. OfKind(M, "charge") = OfKind(L, "charge") /\ L \in SUBSET M /\ FiniteLedger(M)
  BY MintingKeepsCharges DEF Minted
<1>2. OfKind(NotForgiven(M), "charge") = OfKind(NotForgiven(L), "charge")
  BY <1>1 DEF OfKind, NotForgiven
<1>3. SpentIn(M) = SpentIn(L)
  BY <1>2, ChargedIgnores DEF SpentIn
<1>4. Page(M) = Page(L)
  BY <1>1 DEF Page, Settled
<1> QED
  BY <1>1, <1>3, <1>4, WorthGrows

(* A verdict that charges is a payment, whatever the run credited before it *)
(* decided (decide, apply_decision).                                        *)
LEMMA DecidingIsABookStep ==
  ASSUME Account(ledger), today \in Days, today' = today, NEW L, Account(L),
         Worth(ledger) <= Worth(L), SpentIn(L) = SpentIn(ledger), Page(L) = Page(ledger),
         NEW ok \in BOOLEAN, NEW who, NEW known, NEW key \in BOOLEAN,
         ledger' = L \cup DecideCharge(L, ok, today, who, known, key)
  PROVE  BookStep
<1> DEFINE off == OffDays(who)
           debt == SurchargeOn(L, ok, today, off)
           e == ChargeEntry(today, "leetcode", debt, key)
           M == L \cup {e}
<1>0. /\ Worth(ledger) \in Nat /\ Worth(L) \in Nat /\ SpentIn(ledger) \in Nat
      /\ today \in 0..(LastDay + 1) /\ today \in Int
  BY SpentIsEarned, CalendarAssumption DEF CalendarAssumption, Days
<1>0a. FiniteLedger(L) /\ UnitCredits(L)
  BY DEF Account
<1>1. CASE DecideState(L, ok, today, who, known) # "charged-now"
  <2>1. ledger' = L
    BY <1>1 DEF DecideCharge
  <2> QED
    BY <1>0, <2>1, BooksEarn
<1>2. CASE DecideState(L, ok, today, who, known) = "charged-now"
  <2>1. /\ DecideCharge(L, ok, today, who, known, key) = {e}
        /\ e \notin L /\ e.kind = "charge" /\ FiniteLedger(L \cup {e})
    BY <1>0a, <1>2, ChargedNowIsAfforded
  <2>2. e.day = today /\ e.source = "leetcode" /\ e.amount = DayCost(today) + debt
    BY DEF ChargeEntry
  <2>3. ledger' = M
    BY <2>1
  <2>4. Account(M)
    <3>1. Account(L \cup DecideCharge(L, ok, today, who, known, key))
      BY DecideKeepsAccount
    <3> QED
      BY <2>1, <3>1
  <2>5. today >= GateStart /\ ClockTrusted(L, today)
    BY <1>2, <1>0, CalendarAssumption DEF DecideState, CalendarAssumption
  <2>6. debt \in {0, 1} /\ DayCost(today) \in Nat
    BY DayCostIsPositive DEF SurchargeOn
  <2>7. ASSUME debt = 1
        PROVE  /\ SurchargeApplies(today)
               /\ \E d \in Days : DebtStart <= d /\ d < today /\ Page(ledger)[d] = "open"
    <3>1. SurchargeApplies(today) /\ Outstanding(L, ok, today, off) > 0
      BY <2>7 DEF SurchargeOn
    <3>2. MissedDays(L, today, off) \in SUBSET Days
      BY <1>0, MissedAreDays
    <3>3. Repaid(L, ok) \in Nat /\ Owed(L, today, off) \in Nat
      <4>1. L \in SUBSET L /\ FiniteLedger(L)
        BY DEF Account
      <4> QED
        BY <3>2, <4>1, RepaidGrows, PriceGrows DEF Owed
    <3>4. Owed(L, today, off) # 0
      BY <3>1, <3>3 DEF Outstanding
    <3>5. MissedDays(L, today, off) # {}
      BY <3>4, NothingHasNoPrice DEF Owed
    <3>6. PICK d \in MissedDays(L, today, off) : TRUE
      BY <3>5
    <3>7. d \in Days /\ DebtStart <= d /\ d < today /\ d \notin ChargedDays(L)
      BY <1>0, <3>2, <3>6, CalendarAssumption DEF MissedDays, CalendarAssumption
    <3>8. Page(L)[d] = "open"
      BY <3>7, OpenIsUncharged DEF Page
    <3> QED
      BY <3>1, <3>7, <3>8
  <2>7a. FiniteLedger(M) /\ e \notin L /\ e.kind = "charge"
    BY <2>1
  <2> HIDE DEF e, debt
  <2>8. /\ Page(M) = [Page(L) EXCEPT ![today] = "paid"] /\ Page(L)[today] = "open"
        /\ SpentIn(M) = SpentIn(L) + e.amount
    <3>1. e.source \notin ForgivenSources
      BY <2>2 DEF ForgivenSources
    <3>2. Settled(L, e.day) = "open" /\ Page(M) = [Page(L) EXCEPT ![e.day] = "paid"]
      BY <2>7a, <3>1, ChargingSettles
    <3>3. SpentIn(M) = SpentIn(L) + e.amount
      BY <2>7a, <3>1, SpendingAdds
    <3> HIDE DEF M
    <3> QED
      BY <2>2, <3>2, <3>3 DEF Page
  <2> HIDE DEF M
  <2>9. \A d \in Days : Page(ledger)[d] # "open" => d < today
    <3> SUFFICES ASSUME NEW d \in Days, Page(L)[d] # "open" PROVE d < today
      OBVIOUS
    <3>1. d \in ChargedDays(L)
      BY OpenIsUncharged DEF Page
    <3>2. d # today
      BY <2>8
    <3> QED
      BY <1>0, <2>5, <3>1, <3>2, CalendarAssumption DEF ClockTrusted, Days, CalendarAssumption
  <2>10. SpentIn(M) <= Worth(M) /\ Worth(M) \in Nat /\ Worth(L) <= Worth(M)
    <3>1. L \in SUBSET M /\ FiniteLedger(M)
      BY <2>7a DEF M
    <3> QED
      BY <2>4, <3>1, SpentIsEarned, WorthGrows
  <2>11. /\ SpentIn(ledger') = SpentIn(ledger) + DayCost(today) + debt
         /\ Worth(ledger) <= Worth(ledger') /\ SpentIn(ledger') <= Worth(ledger')
         /\ Page(ledger') = [Page(ledger) EXCEPT ![today] = "paid"]
    <3>1. SpentIn(M) = SpentIn(ledger) + (DayCost(today) + debt)
      BY <2>2, <2>8
    <3>2. SpentIn(M) = SpentIn(ledger) + DayCost(today) + debt /\ Worth(ledger) <= Worth(M)
      BY <1>0, <2>6, <2>10, <3>1
    <3>3. Page(M) = [Page(ledger) EXCEPT ![today] = "paid"]
      BY <2>8
    <3> QED
      BY <2>3, <2>10, <3>2, <3>3
  <2> QED
    BY <2>5, <2>6, <2>7, <2>9, <2>11, BooksPay
<1> QED
  BY <1>1, <1>2

LEMMA HarvestingIsABookStep ==
  ASSUME GInv, Account(ledger), today' = today, NEW feed, feed \subseteq solved,
         NEW ok \in BOOLEAN, HarvestAndDecide(feed, ok)
  PROVE  BookStep
<1> DEFINE minted == Append(ledger, Fresh(ledger, feed, today, keyOk))
<1>1. /\ feed \subseteq Subs /\ IsFiniteSet(feed) /\ today \in Days /\ keyOk \in BOOLEAN
      /\ FiniteLedger(ledger)
  BY FS_Subset DEF GInv, TypeOK, Account
<1>2. Minted(ledger, minted)
  BY <1>1, HarvestMints
<1>3. \A e \in minted \ ledger : e.device = ThisDevice
  <2>1. \A s : CreditEntry(s, today, keyOk).device = ThisDevice
    BY DEF CreditEntry
  <2> QED
    BY <2>1 DEF Append, Fresh
<1>4. ledger' = minted \cup DecideCharge(minted, ok, today, pools, rows', keyOk)
  BY DEF HarvestAndDecide
<1> HIDE DEF minted
<1>5. Account(minted)
  BY <1>2, <1>3, MintingKeepsAccount
<1>6. /\ Worth(ledger) <= Worth(minted) /\ SpentIn(minted) = SpentIn(ledger)
      /\ Page(minted) = Page(ledger)
  BY <1>2, MintingEarns
<1> QED
  BY <1>1, <1>4, <1>5, <1>6, DecidingIsABookStep

LEMMA LockRunIsABookStep ==
  ASSUME GInv, Account(ledger), LockRun
  PROVE  BookStep
<1> DEFINE charge == DecideCharge(ledger, keyOk, today, pools, rows, keyOk)
           marked == Append(ledger, SeedMarkers(Feed, today, keyOk))
<1>1. /\ Feed \subseteq Subs /\ IsFiniteSet(Feed) /\ today \in Days /\ keyOk \in BOOLEAN
      /\ FiniteLedger(ledger) /\ today' = today
  BY FS_Subset, FeedIsSolved DEF GInv, TypeOK, Account, LockRun
<1>2. CASE ledger' = ledger \cup charge
  <2>1. Worth(ledger) \in Nat
    BY SpentIsEarned
  <2> QED
    BY <1>1, <1>2, <2>1, DecidingIsABookStep
<1>3. CASE ledger' = marked
  <2>1. Minted(ledger, marked)
    BY <1>1, SeedingMints
  <2> HIDE DEF marked
  <2>2. /\ Worth(ledger) \in Nat /\ Worth(marked) \in Nat /\ Worth(ledger) <= Worth(marked)
        /\ SpentIn(marked) = SpentIn(ledger) /\ Page(marked) = Page(ledger)
    BY <2>1, MintingEarns
  <2> QED
    BY <1>1, <1>3, <2>2, BooksEarn
<1>4. CASE ledger' = ledger
  BY <1>1, <1>4, BooksAreLeft
<1>5. ledger' = ledger \cup charge \/ ledger' = marked \/ ledger' = ledger
  BY DEF LockRun
<1> QED
  BY <1>2, <1>3, <1>4, <1>5

LEMMA SettlingIsABookStep ==
  ASSUME GInv, Account(ledger), SettleAndRelease
  PROVE  BookStep
<1>1. today \in Days /\ keyOk \in BOOLEAN /\ today' = today /\ FiniteLedger(ledger)
  BY DEF GInv, TypeOK, Account, SettleAndRelease
<1>2. PICK source \in Causes : ledger' = ledger \cup SettleEntries(ledger, today, source, keyOk)
  BY DEF SettleAndRelease
<1>3. source \in ForgivenSources
  BY <1>2, GateBounds DEF GateBounds
<1> DEFINE e == ChargeEntry(today, source, 0, keyOk)
<1>4. \/ SettleEntries(ledger, today, source, keyOk) = {}
      \/ /\ SettleEntries(ledger, today, source, keyOk) = {e}
         /\ e \notin ledger /\ e.kind = "charge" /\ FiniteLedger(ledger \cup {e})
         /\ e.amount = DayCost(today) /\ e.source = source
  BY <1>1, SettledIsThePrice
<1>5. e.day = today
  BY DEF ChargeEntry
<1> HIDE DEF e
<1>6. CASE SettleEntries(ledger, today, source, keyOk) = {}
  BY <1>1, <1>2, <1>6, BooksAreLeft
<1>7. CASE /\ SettleEntries(ledger, today, source, keyOk) = {e}
           /\ e \notin ledger /\ e.kind = "charge" /\ FiniteLedger(ledger \cup {e})
           /\ e.amount = DayCost(today) /\ e.source = source
  <2> DEFINE M == ledger \cup {e}
  <2>1. ledger' = M
    BY <1>2, <1>7
  <2>2. /\ Settled(ledger, e.day) = "open"
        /\ Page(M) = [Page(ledger) EXCEPT ![e.day] = "forgiven"]
    BY <1>3, <1>7, ChargingSettles
  <2>3. SpentIn(M) = SpentIn(ledger)
    BY <1>3, <1>7, SpendingAdds
  <2>4. Worth(M) = Worth(ledger)
    <3>1. OfKind(M, "credit") = OfKind(ledger, "credit")
      BY <1>7 DEF OfKind
    <3> QED
      BY <3>1 DEF Worth
  <2> HIDE DEF M
  <2>5. Page(ledger)[today] = "open"
    BY <1>1, <1>5, <2>2 DEF Page
  <2> QED
    BY <1>1, <1>5, <2>1, <2>2, <2>3, <2>4, <2>5, BooksForgive
<1> QED
  BY <1>4, <1>6, <1>7

LEMMA BooksAtFirst ==
  ASSUME Init
  PROVE  Books!Init
<1>1. ledger = {BootstrapEntry(0, TRUE)} \/ ledger = {}
  BY DEF Init
<1>2. \A e \in ledger : e.kind = "bootstrap"
  <2>1. BootstrapEntry(0, TRUE).kind = "bootstrap"
    BY DEF BootstrapEntry
  <2> QED
    BY <1>1, <2>1
<1>3. /\ OfKind(ledger, "credit") = {} /\ OfKind(ledger, "charge") = {}
      /\ OfKind(NotForgiven(ledger), "charge") = {} /\ OfKind({}, "charge") = {}
  BY <1>2 DEF OfKind, NotForgiven
<1>4. AccountInv
  BY InitAccount
<1>5. /\ FiniteLedger(ledger) /\ {} \in SUBSET ledger /\ ledger \in SUBSET ledger
      /\ NotForgiven(ledger) \in SUBSET ledger
  BY <1>4 DEF AccountInv, Account, NotForgiven
<1>6. Worth(ledger) = 0
  <2>1. Worth(ledger) = SumFunctionOnSet(Worths(ledger), {})
    BY <1>3, <1>5, WorthOn
  <2> QED
    BY <2>1, SumEmpty
<1>7. Charged(NotForgiven(ledger)) = 0
  <2>1. Charged(NotForgiven(ledger)) = SumFunctionOnSet(Amounts(ledger), {})
    BY <1>3, <1>5, ChargedOn
  <2> QED
    BY <2>1, SumEmpty
<1>8. \A d \in Days : Settled(ledger, d) = "open"
  BY <1>3, OpenIsUncharged DEF ChargedDays
<1>9. today \in Days
  BY <1>4 DEF AccountInv, GInv, TypeOK
<1> QED
  BY <1>6, <1>7, <1>8, <1>9 DEF Books!Init

LEMMA EveryStepIsABookStep ==
  ASSUME AccountInv, [Next]_vars
  PROVE  BookStep
<1>1. GInv /\ Account(ledger) /\ today \in Days /\ keyOk \in BOOLEAN /\ lockOk \in BOOLEAN
  BY DEF AccountInv, GInv, TypeOK
<1>2. today' \in Days
  BY StepInd DEF AccountInv, GInv, TypeOK
<1>3. CASE Solve \/ Midnight \/ SetClockBack \/ PoolsChange \/ KeyFlips \/ PowerOff \/ UNCHANGED vars
  <2>1. ledger' = ledger
    BY <1>3 DEF Solve, Midnight, SetClockBack, PoolsChange, MarkDay, PoolUnreadable, PoolReadable,
                KeyFlips, PowerOff, vars
  <2> QED
    BY <1>2, <2>1, BooksAreLeft
<1>4. CASE LockRun
  BY <1>1, <1>4, LockRunIsABookStep
<1>5. CASE PollAnswered \/ PollBlind
  <2>1. today' = today
    BY <1>5 DEF PollAnswered, PollBlind
  <2> QED
    BY <1>1, <1>5, <2>1, FeedIsSolved, HarvestingIsABookStep DEF PollAnswered, PollBlind, PollTick
<1>6. CASE SettleAndRelease
  BY <1>1, <1>6, SettlingIsABookStep
<1>7. CASE HarvestRun
  <2>1. today' = today
    BY <1>7 DEF HarvestRun
  <2>2. CASE ledger' = ledger
    BY <1>2, <2>2, BooksAreLeft
  <2>3. CASE HarvestAndDecide(Feed, keyOk)
    BY <1>1, <2>1, <2>3, FeedIsSolved, HarvestingIsABookStep
  <2> QED
    BY <1>7, <2>2, <2>3 DEF HarvestRun
<1> QED
  BY <1>3, <1>4, <1>5, <1>6, <1>7 DEF Next, PoolsChange

(* Implementation: whatever the order of runs, pools, rows, keys and clocks,*)
(* the ledger is the account book of Bank -- each day settled once and as   *)
(* today, for its price out of what is banked or forgiven, and nothing else *)
(* moves the account (decide, settle_day, harvest, seed_ledger).            *)
THEOREM GateImplementsBank == Spec => KeepsTheBooks
<1>1. AccountInv /\ [Next]_vars
        => [Books!Turn \/ Books!Earn \/ Books!Pay \/ Books!Forgive]_(Books!books)
  BY EveryStepIsABookStep DEF BookStep
<1> QED
  BY BooksAtFirst, InitAccount, AccountStep, <1>1, PTL DEF Spec, KeepsTheBooks, Books!Spec

=============================================================================
