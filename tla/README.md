# leetcode-guard, specified and checked

TLA+ models of `leetcode_guard` (Python), kept beside the code. A module
translates source it names; `PROJECT.json` maps every definition to its lines.
This page says what the parts of the system are, which module models which, what
is model-checked, what is proved, and what is not modelled.

## 1. The system

leetcode-guard locks the screen of a workstation until the day is *paid for*.
Solves of LeetCode problems are credits, days are charges, the balance is
derived from an append-only ledger, and so is the debt for days that were
missed. A login service and a timer start lock runs; a one-minute timer starts
harvests that bank solves while no lock is up and push a status to a phone.

| Component (source) | State | Operations | Correct when |
|---|---|---|---|
| Day prices (`_daycost`) | none | `day_cost`, `penalised_cost`, `surcharge_applies` | total, and the same price wherever one is asked |
| Ledger (`_ledger*`, `_atomic_json`) | `ledger.json`: entries by id, each signed | `append`, `load_ledger`, `save_ledger` (whole file) | nothing on file is lost; ids are unique; an unreadable file never pays |
| Balance, weights, debt (`_balance`, `_difficulty`, `_debt`) | none: derived | `compute_balance`, `compute_debt` | no credit is spent twice; every day costs its price once, paid, escaped or missed |
| Verdict (`_gate*`, `_clock_guard`, `_sick`, `_focus`, `_workday_penalty`) | none | `decide`, `apply_decision`, `settle_day` | what is demanded is affordable, what is charged is what was demanded |
| Seeding, harvesting (`_harvest`, `_submissions`) | none | `seed_ledger`, `harvest`, `commit_harvest` | history never earns; a solve earns once |
| Difficulty (`_difficulty_resolve`, `_difficulty_negative`) | `difficulty.json`, negative marks | `resolve_difficulties` | every live problem is priced in the end, dead ones cost one request a day |
| Lock run (`_cli`, `_instance`, deferrals) | instance lock, ledger copy | `cmd_lock`, `_run_lock` | one run at a time; a paid day is on disk before the user is let through |
| Harvest (`_harvest_run`) | harvest lock, ledger copy | `run_harvest` | writes only when no lock is up; never seeds |
| Lock window (`_lock*`, `_poller`, `_nudge_server`, `_netcheck`, `_escape*`, `_network_incident`) | poll state, blind time, forms, one diagnosis | ticks, pokes, release, escapes, outages | polling never stops nor doubles; blind time is never bought; there is always a way out |
| Study mode (`_study*`, `_lock_study`) | grab, VT, surfaces, watchers | `suspend`, `resume` | never "locked" without a grab or a loop that restores it |
| Suggestions (`_pool*`, `_live_solved`, `_lock_reveal`) | pool mirror, bench, revealed rows | fetch, rank, verify, reveal | a solved problem is not suggested; LeetCode is not flooded; the window opens |
| Status push, phone errors (`_snapshot*`, `_push_trigger`, `_phone_errors*`) | pushed hash, heartbeat, mirror | `push_snapshot`, `sync_phone_errors` | a fresh heartbeat never stands over stale content; an error is announced once |
| Projection, scenarios (`_projection*`, `_scenario*`) | none | what-if arithmetic | agrees with running the rules day by day |
| Solved-today consumers (`solved_today`, `_web_server`, `_mcp`, `status_cli`) | none | one question about today | only a paid day, or a solve on a day off, earns |
| Ledger sync (`_sync*`) | per-device logs in a repository | `sync_ledger` | merging never drops a local entry |
| Profile, coach log, views, app (`app/`, Dart), extension, units | caches, widgets | display, requests | not modelled, section 6 |

Interaction: lock runs, harvests and `--sync` are separate processes that share
`ledger.json` with **no lock on the file**. The instance lock (`flock`) is held
by a lock run for its whole life; a harvest peeks at it (taking it for a moment)
before and after its fetch; a second `flock` keeps harvests apart; `--sync`
takes neither. `difficulty.json` is shared the same way, by callers that share
no lock at all. Inside a lock run the executor thread, the nudge server and the
Tk loop share the poller. Every save of the ledger spawns a push that waits for
nobody, and the minute timer runs one of its own. gatelock's recovery loop
re-takes the grab behind study mode's back.

Hard behaviours: whole-file saves of copies taken before network calls; runs
that cross midnight; files that cannot be read or written for a moment; a key
that comes and goes; a clock that is set back; processes killed between two
writes; writes that land although their reply is lost; timers, pokes and an
executor that hand one check around; results that arrive after what they were
asked about has moved. `PROJECT.json` lists each hazard at its line.

## 2. The modules

| Module | Models | State and actions |
|---|---|---|
| `GateRules` | `_daycost`, `_difficulty`, `_ledger*`, `_balance`, `_debt`, `_harvest` (pure part), `_gate`, `_clock_guard`, `_sick` | operators only: entries and ledgers, prices of three eras, balance, debt, `DecideState`, `DecideCharge`, `SettleEntries` |
| `Gate` | the gate over the calendar, runs that do not overlap | `ledger`, `rows` (difficulty.json), `declared` (free, sick, focus, penalty files) and `pools` (what they answer), `keyOk`, `armed`, `lockOk`; one action per run: `LockRun`, `PollAnswered`, `PollBlind`, `SettleAndRelease`, `HarvestRun`; and the world: `Solve`, `Midnight`, `SetClockBack`, `MarkDay`, `PoolUnreadable`, `PoolReadable`, `KeyFlips`, `PowerOff` |
| `Forecast` | `_projection`, `_scenario`, the what-if half of `_daycost` | operators over `Gate`'s state: `Project`, the landing day, the least price |
| `SolvedToday` | `solved_today` and what its readers make of it | `Gate` with one more variable, the true date of each submission |
| `Bank` | what the gate promises with its ledger | abstract: `earned`, `spent`, and each day open, paid or forgiven; `Gate` implements it |
| `GuardRuns` | `_cli._run_lock`, `_lock`, `_lock_poll`, `_lock_release` (settling), `_harvest_run`, `_sync`, `_instance` | the runs of `Gate` taken apart at every load, save, network call and lock operation: `disk`, `instance`, `harvestLock`, a program counter with a ledger copy per process, and `published`, what peers hand on of this device's pushes |
| `LockWindow` | `_lock`, `_lock_poll`, `_poller`, `_lock_nudge`, `_nudge_server`, `_lock_release`, `_netcheck`, `_network_incident`, `_escape*`, `_lock_carrot` | `poll` (pending jobs, future, flags, blind count), `bell`, `outage`, `forms`, `screen`, `window`; one action per callback |
| `PollLoop` | what the lock may rely on from `SolvePoller` | abstract: a check runs, rests or has stopped; `LockWindow` implements it |
| `Study` | `_lock_study`, `_study*`, the parts of gatelock they drive | a program counter over the calls of `suspend`, `resume` and the emergency restore; `guard`, `vt`, `hidden`, `browser`, `strip`; each call may fail, a sentence put on the screen (`SaySpawn`, `SayRegrab`, `Writes`) too |
| `Suggest` | `_pool_cache`, `_pool_fetch`, `_pool_resolve`, `_pool_verify`, `_live_solved`, `_lock_reveal` | `mirror`, the run's phase and bench, the rows shown, the one batch in flight |
| `Lookups` | `_difficulty_resolve`, `_difficulty_negative`, `_cli_difficulty` | `rows`, `marks` by age, and per caller the copy it works on; `HalfDay` and `ClockSetBack` move time |
| `Publish` | `_snapshot*`, `_push_trigger`, `_phone_errors*`, the second half of `_harvest_run` | per push where it is and what it gathered; `local`, `node` (status, hash, heartbeat), `pushed`, `phone`, `mirror`, `told` |
| `*_proofs` | -- | the theorems of section 5 |
| `MCGate`, `MCWeek`, `MCGuardRuns` | -- | submissions, levels, goals, another machine's log, and the symmetry of the harvests for TLC |

How they fit. `Gate` is broad and coarse (every rule, one run at a time);
`GuardRuns` is narrow and fine (every interleaving; every solve is Easy, every
local entry signed, no pools). Both use `GateRules`, so the verdict is stated
once. `LockWindow` reduces the verdict to "a solve is banked or today is
settled", because what a poll does to the ledger is `GuardRuns`'s; `Study` is
what happens under the window while it stands down; `Lookups` is the part of a
poll and a harvest that asks about difficulties, which `Gate` takes as "any
subset of the rows asked for"; `Publish` is what follows a save.

A day is a number; `Monday` anchors the weekday. A submission is its number, a
problem is a value `SlugOf` gives. Signing is the bit "the key was readable when
the entry was made"; `IsTrusted` is what the code makes of it, with and without
a key. `load_ledger`'s degradation to an empty ledger is `Load(copy, misread)`.
A failed save leaves the file and lets the caller carry on, as `save_ledger`'s
ignored return value does. What a snapshot shows is a version number. Ranked
problems are numbered by rank, so a ranked list is a set. Timers in `LockWindow`
and `Study` are untimed: a pending job may fire at any moment, in any order.

History variables change no behaviour; they are set from the guards the code
tests. `GuardRuns`: `ever` (what was ever on disk), `through` (days let through
on a charge), `causes` (which overlaps have happened: `window`, a lock run took
the instance lock after a harvest's second peek; `sync`, a `--sync` and another
copy were open at once; `misread`, an existing file was read as empty), `returned`
(charges of this device that a merge brought in).
`LockWindow`: `waited`. `Study`: `cut`, the call an exception left the last
transition at. `Suggest`: `told`, `asked`, `shifted`. `Lookups`:
`answered`, `overlap`. `Publish`: `told`, `raced`, `misread`, `unrecorded` (the
status that landed last was not recorded as pushed), `crossed` (a status landed
inside a phone's poll). `SolvedToday`: `when`.

Off days. A day may be declared free, sick, a focus day or penalised before it,
on it or after it was charged or missed (`MarkDay`); a pool that cannot be read
says no to every day, as `_focus` and `_sick` make it, until it can be read again
(`PoolUnreadable`, `PoolReadable`). What is owed for the past may therefore shrink
after a surcharge was taken for it. `Overpaid` is what was repaid beyond what is
owed: the code gives no credit for it (`_debt.py:71`).

Peers. `Merge` appends any part of what the peers' logs hold: entries of their own
(`Cloud`) and whatever this device pushed when one of its syncs ran (`published`),
one entry per id. That a merged log has one record per id is the code's
(`records_from_ledger` keys the records by it); `Cloud` and `published` together
may hold several versions of one.

## 3. What the runs check

`CHECK_DEADLOCK FALSE` stands in the configurations of `Gate`, `GuardRuns` and
`LockWindow`: their calendars, submissions and windows end, and with them the
behaviour. `Study`, `Suggest`, `Publish` and `Lookups` are checked for deadlock.

| Run | Properties | Bounds |
|---|---|---|
| `gate_week` | `Solvent`, `OnlyALateOffDayOverpays`, `EveryDayCostsItsPrice`, `ForgettingNeverPays`, `WorkIsThePriceLessTheCredits`, `RulesDemandIsTaken`, `MinimalPriceLands`, `OnlyPaidDaysEarn` | Friday to Monday across a re-pricing, two solves (Easy, Hard), one day, past or to come, marked free or a focus day in pools that go and come, or the clock set back once, prices 1-3, two goals |
| `gate_first` | `TypeOK`, `PreGateNeverEarns`, `KeepsTheBooks`, `PayableDayUnlocks` | Sunday and Monday, two solves and a feed of one, one key flip, one day marked in any pool, pools that go and come, clock back once, seeded or not at start |
| `runs_faults` | `TypeOK`, `LossNeedsOverlap`, `Solvent`, `PaidDayIsOnDiskUnlessRaced` | two harvests, two lock runs, midnight, one crash, one failed save, one misread, one deferral, peers that hand on what was pushed |
| `runs_sync` | `SolvesStayBanked` | a harvest that starts again and again, one lock run, `--sync`, another machine's charge and what it hands on, two solves, fairness |
| `window` | `OneChain`, `BlindTimeIsWaited`, `LoopIsPeriodic`, `LoopNeverDies`, `SolveLetsGo`, `BlindLockOffersAWayOut` | two failed polls open the hatch, one poke per burst, one escape at most, two rings, one network change, a monitor that may go |
| `study` | `LockedIsGuarded`, `StudyIsForABrowser`, `VtComesBack`, `ClaimFallsFirst`, `GrabComesBack`, `SolveEndsStudy` | two screens, three faults; any failure on the way in, Tk's on the way back and in what is put on the screen |
| `publish` | `ToldOnce`, `LoneBeatMeansFreshStatus`, `LocalCatchesUp`, `PhoneCatchesUp` | a status already published, the minute's push and a spawned one, two versions of which the later is the published one again, one fault of any kind, one sibling session, one error |
| `suggest` | `KnownSolvedStaysHidden`, `BenchIsConfirmed`, `AskedOnce`, `LockComesUp`, `RevealedIsChecked` | six problems (one premium, one solved long ago), a bench, a first screen and a batch of two, one solve, two faults |
| `lookups` | `DeadOnesStarveNobody`, `AskedOnceADay` | two problems, one of them dead, one request per call, a harvest and a poll loop, one fault |

Why the bounds suffice. A debt property needs a missed day, a paid day, an
escape and a surcharge on both sides of a price change: four days hold all of
them. A lost update needs two open copies; `runs_faults` has three processes and
every fault once, at any point, and the proofs cover any number. A feed of one
with two solves is the smallest in which the feed forgets. One poke per burst and
two rings already put a poke before, inside and after a check, and a second ring
inside the first one's cooldown. Three faults reach a suspend that fails, a
rollback that fails after it and a recovery loop that fails after that. One dead
problem ahead of a live one with one request per call is the smallest queue in
which the dead one could starve the other. Two pushes, one fault: each write
fails, or lands without its reply, with and without the other push under way; and
content that leaves the published version and returns to it is the shortest way
in which a status can land in between without being recorded. One late mark is
enough to take a surcharged-for day out of the debt, and so is one pool that is
out of reach for the day it is asked about. A charge that returns needs it pushed,
lost and its credit spent again, which two lock runs and a misread allow.

Bounds of their own: `PlainWeek` in `MCWeek` (free and focus days only, and none in a
week in which the clock is set back) and `OneTrouble` in `MCGate` (among the first runs a pool is out of reach
only while neither key nor clock was touched) keep the two runs of `Gate` small --
the theorems have neither;
`SolvedToday!TrueDate` takes the true date, once the clock was set back, to be one
the clock never shows; `HalfDay` in `Lookups` waits for a harvest, since the timer
calls 720 of them in that time, and no call outlasts it; in `LockWindow` the
world leaves the three seconds of the unlocked screen alone.

What the properties say.

* `Solvent` -- whatever the order of runs, late difficulty rows, surcharges and
  lost updates, the solves on file pay for every day that was not forgiven. In
  `GuardRuns` what another device charged is not this one's to pay either, and
  neither is a charge of its own that was lost here and came back from a peer after
  its credit had been spent again (`returned`): `sync_ledger` appends it without
  asking whether it can be afforded, and `runs_faults` without that exception is
  violated.
* `EveryDayCostsItsPrice` -- charges plus what is still owed over the whole
  calendar, less what surcharges repaid, is the price of the days that were not
  off: paying, escaping and missing a day come to the same, also with the clock
  set back. Surcharges written while the key could not be read repay nothing
  (nobody signed for them), so they come on top. `OnlyALateOffDayOverpays`: no run takes a surcharge that
  nothing was outstanding for, in whatever order and under whatever key; what was
  repaid beyond the debt grows only when an owed day turns out to be off or the
  clock goes back. `ForgettingNeverPays`: removing any row, or the
  file, never lowers the debt.
* `WorkIsThePriceLessTheCredits`, `RulesDemandIsTaken`, `MinimalPriceLands` -- the
  projection and the what-if are held against the gate's own prices, debt and
  surcharges from every reachable ledger: what is foretold is what is taken, and
  the price solved for in closed form lands on the date while none smaller does.
  They ask for a clock that was not set back. The first has what was overpaid on top
  (the truncation of `Debt.outstanding` forgets it) and asks for a readable key: it
  counts days from the debt's epoch, and a surcharge nobody signed for
  has to be taken again.
* `OnlyPaidDaysEarn` -- the extra hour other programs give for today is earned by
  a day that cost its whole price in solves, or by a solve on a day off.
* `KeepsTheBooks` -- the ledger refines `Bank`: a day is settled once and only
  while it is today, for its price (one more only on a dear day after a missed
  one) out of what is banked at that moment, never on a clock behind a settled
  day, or it is forgiven; nothing else moves what is earned or spent. Two
  things `Bank` allows because the code does: an escape asks no clock, and the
  penalised price is demanded but not charged (`ChargeIsTheCost` below).
* `PreGateNeverEarns` -- nothing solved before seeding earns once seeded.
* `PayableDayUnlocks` -- an armed lock over a day that became payable or free
  comes down even if LeetCode never answers again.
* `LossNeedsOverlap` -- what reached the disk stays there, and no merge brings back
  a charge of this device, unless one of the three named overlaps happened (`runs_faults` has the first and the third; with
  `--sync` among the processes it is proved). `PaidDayIsOnDiskUnlessRaced` -- a day let
  through on a charge has it on disk, in every behaviour with no overlap and no
  failed save. `SolvesStayBanked` -- every solve in the feed is on disk for good
  in the end, although an update of it may have been lost on the way.
* `OneChain`, `LoopIsPeriodic`, `LoopNeverDies` -- the poller is one chain of
  checks, refines `PollLoop`, and keeps recurring until it is stopped.
  `BlindTimeIsWaited` -- no ring buys blind time. `SolveLetsGo` -- an accepted
  submission brings the window down. `BlindLockOffersAWayOut` -- a machine that
  lost LeetCode is let go or offered a form, escapes left or not.
* `LockedIsGuarded` -- a session that says LOCKED has the grab and everything on
  screen, or a loop that heals it. `StudyIsForABrowser` -- one that stands down
  has a browser, and neither loop under it. Each has one exception, and it is
  named: the sentence about a refused grab (`cut = "say regrab"`) or about a failed
  launch (`cut = "say spawn"`) could not be shown, and the exception skipped the
  loops, or the resume. `study_regrab` shows the first without the exception. `VtComesBack` -- terminal switching
  works again after the window. `ClaimFallsFirst` -- the published claim is
  withdrawn before the grab is. `GrabComesBack`, `SolveEndsStudy` -- both ends of
  a study session are reached whatever failed, but for a close that was cut in the
  middle by such a sentence (`wedged`, `_lock_study.py:175` out of `on_close`).
* `ToldOnce`, `LoneBeatMeansFreshStatus`, `LocalCatchesUp`, `PhoneCatchesUp` --
  errors are announced at most once; a heartbeat never vouches for content that
  is not there unless two pushes overlapped, or a status landed that was never
  recorded and content then returned to what was; both readers end up with the last
  content.
* `KnownSolvedStaysHidden`, `AskedOnce`, `BenchIsConfirmed`, `RevealedIsChecked`,
  `LockComesUp` -- a row known to be solved does not come back by a repaint, a
  backfill or a late batch; no problem is asked about twice in a run; the bench
  is confirmed before the window and rows as they are scrolled to; the window
  opens whatever the network does.
* `DeadOnesStarveNobody`, `AskedOnceADay` -- every live solved problem is priced
  for good in the end, a dead one costs a request a day.

Disagreements between the code and what it says of itself, each shown by a run
that TLC must find violated:

| Run | What the text says | What the code does |
|---|---|---|
| `runs_window` | "Never write while a lock is up" (`_harvest_run.py:20`) | a lock run may start after the second peek; the harvest then saves under it |
| `publish_race` | "a fresh heartbeat over stale content would tell the app everything is current" (`_snapshot_push.py:118`) | a push that gathered before a save writes its snapshot between the newer push's snapshot and its heartbeat |
| `study_regrab` | "The watchers restart **unconditionally**, including after a failed re-grab" (`_study_resume.py:19`) | a refused grab is put on the screen by a bare Tk call before the watchers are started; if that raises too, they are not |

Others met while modelling. Those with a property name are stated in their module
and fail there; no configuration carries them.

* Ledger and verdict: a day whose Tue-Thu discount was taken away is demanded at the
  penalised and charged at the plain price (`ChargeIsTheCost`; `_gate.py:37` has
  `cost` as what today costs in full and `charge` as the entry to persist,
  `_gate.py:136` demands, `_gate.py:180` charges); a lock run that cannot read its ledger seeds over it and
  does not arm (`CorruptFileLocks`, `_ledger_io.py:102` "a corrupt file locks
  rather than unlocks"); declining to seed from a probe that failed makes the next
  tick harvest history (`CreditsOnlyAfterSeeding`, `_harvest.py:94`); an escape
  granted while the clock is set back charges a past day (`_gate.py:228`), and one
  granted on a day declared off after the lock armed charges that day; entries
  written while the key was unreadable are counted as tampered later
  (`_ledger_io.py:46`), and a charge among them no longer counts for
  `solved_today`; Tue-Thu cost the same with debt (`_daycost.py:111`); a harvest's
  peek makes a lock run that starts at that moment stand down for its slot
  (`_harvest_run.py:76`); `--sync` moves the balance (`_cli.py:10`); a charge
  whose save failed counts as paid (`_cli.py:127`).
* Lock window: the ONLINE verdict is unreachable, since no caller passes
  `identity_ok`, so a poll that fails on a working network ends in a free day
  (`FreeDayNeedsAnOutage`, `_netcheck.py:81`); an incident form that is open still
  releases after LeetCode is back (`_network_incident.py:136`); a form on a monitor
  that is unplugged blocks both hatches (`_lock_release.py:144`), and an open
  ordinary form blocks the incident's; the diagnosis is kept though the network
  changes; the carrot releases without settling; a doorbell rung without end
  leaves no unasked poll to count as blind; the check at start counts, so the
  180 s of blind time are 150; the README's "after ten minutes" is a delay of zero.
* Study mode: a rollback re-publishes the claim of a grab that was not there
  (`ClaimIsHonest`, `_rollback_suspend`); a failure other than Tk's when the loops
  are started again on the way back leaves LOCKED without grab or loop
  (`LockedIsGuarded` with `BackFaults = {"tcl", "other"}`); a strip whose refresh
  failed is never destroyed.
* Status: with content that returns to an earlier value after a half-failed push
  the phone may hold the one in between, and a push that runs alone finds its
  content unchanged and beats over it, which `_snapshot_push.py:118` ("skipped after
  a failed one") means to exclude: the exceptions `unrecorded` and `crossed`; an unreadable mirror
  announces the phone's errors again.
* Suggestions and lookups: rows a solve moves into view are not asked about until
  the next scroll (`VisibleIsChecked`); rows of a request that failed are marked
  as checked; 16 rows are built before the window and 14 are confirmed; a download
  that ends early replaces a complete mirror and stays fresh for a week; live
  checks have no bound on requests; two overlapping resolutions ask about a dead
  problem twice a day and drop a row until the next one (`PricesAreKept` needs its
  exception); a problem always rejected with an error is never marked, and uses up
  a request of every call. A profile fetch that fails is retried every minute
  (`_profile_cache.py:3`).
* Forecast: with a goal already met, today charged and the target today, the
  landing is reported for tomorrow.

## 4. Fairness

* `Gate`: the poll loop of an armed lock keeps ticking, answered or not
  (`SolvePoller` reschedules itself after every delivery, also when the check
  raised). Nothing else is fair.
* `GuardRuns`: a started process keeps going; the harvest timer fires every
  minute for ever; LeetCode answers now and then (strong fairness of `PollFetch`
  and `HarvestFetch`); a released lock closes. Nobody has to start a lock run, ask
  for an escape, or sync.
* `LockWindow`: Tk runs every job that is due; a request ends, it has a time
  limit; a reachable LeetCode answers now and then and shows a solve in the end
  (strong fairness). Nobody has to ring or open a form, and the carrot need not be
  earned.
* `Study`: a transition runs to its end, being one callback; the recovery loop
  ticks each second; the browser lets go of a grab it took. Strong fairness of
  leaving study mode, because the poll and the linger's timer are due for ever
  while a transition may be under way whenever they look.
* `Publish`: the timer fires, a process runs to its end unless it is killed, the
  app polls. Faults are bounded, so writes succeed in the end.
* `Suggest`: a run goes on, the executor works and Tk drains.
* `Lookups`: the timer starts harvests, a call goes on, time passes.

## 5. What is proved

Everything below holds for every value of the constants, from the assumptions on
them in the modules: any calendar, price base, set of submissions and feed length,
any number of harvests, rings, pokes, screens, pushes, siblings, callers and
faults. One assumption more is named where it is used: `TkOnly`, the calls on
the way back from study mode fail as Tk fails (they name no other failure).
The assumptions on constants that say something about the program:
`CalendarAssumption` has the debt's epoch no later than the gate's first day
(the code defines one as the other, `_constants.py:46`), and `RunsAssumption`
has the peers' logs hold entries whose credits are one each (every writer of credits
writes that amount, `_ledger_entries.py:36`): of any device, this one included, in
any number of versions per id.

Every invariant, action property and refinement the passing runs check is also
stated by a theorem; what is left to TLC alone is liveness.

| Theorem | Says |
|---|---|
| `GuardRuns_proofs!NoEntryIsLost` | `Spec => []LossNeedsOverlap` |
| `GuardRuns_proofs!PaidDaysAreOnDisk` | `Spec => []PaidDayIsOnDiskUnlessRaced` |
| `GuardRuns_proofs!TypeCorrect` | `Spec => []TypeOK`: every copy of the ledger, open or on disk, is well formed with one entry per id |
| `GuardRuns_proofs!EveryFileIsSolvent` | `Spec => []Solvent`, of the file on disk however saves overwrite each other |
| `Gate_proofs!HistoryNeverEarns` | `Spec => PreGateNeverEarns` |
| `Gate_proofs!TypeCorrect` | `Spec => []TypeOK`: the same, and credits are only for submissions that were made |
| `Gate_proofs!GateIsSolvent` | `Spec => []Solvent` |
| `Gate_proofs!GateImplementsBank` | `Spec => KeepsTheBooks`: the gate's initial states and steps map to `Bank`'s |
| `Gate_proofs!RunsOverpayNothing` | `Spec => OnlyALateOffDayOverpays` |
| `Gate_proofs!EveryDayIsPricedOnce` | `Spec => []EveryDayCostsItsPrice` |
| `Gate_proofs!LosingRowsNeverPays` | `Spec => []ForgettingNeverPays` |
| `Gate_proofs!AnEarnedDayIsPaid` | `StampedSpec => []OnlyPaidDaysEarn` |
| `Gate_proofs!WorkAheadIsThePrice` | `Spec => []WorkIsThePriceLessTheCredits` |
| `Gate_proofs!RulesDemandIsCollected` | `Spec => []RulesDemandIsTaken`: the prediction is compared with paying every day by the rules, for a stretch of any length |
| `Gate_proofs!TheNamedPriceLands` | `Spec => []MinimalPriceLands`: closed form and day-by-day search agree for every goal, price and date |
| `LockWindow_proofs!ChecksAreOneChain` | `Spec => []OneChain` |
| `LockWindow_proofs!NoRingBuysBlindTime` | `Spec => []BlindTimeIsWaited` |
| `LockWindow_proofs!LockWindowImplementsPollLoop` | `Spec => LoopIsPeriodic`: the window's initial states and steps map to `PollLoop`'s |
| `Study_proofs!ClaimGoesBeforeTheGrab` | `Spec => ClaimFallsFirst`, any failures |
| `Study_proofs!StudyHasItsBrowser` | `TkOnly`: `Spec => []StudyIsForABrowser` |
| `Study_proofs!ALockedMachineIsGuarded` | `TkOnly`: `Spec => []LockedIsGuarded` |
| `Study_proofs!VtIsGivenBack` | `TkOnly`: `Spec => []VtComesBack` |
| `Suggest_proofs!SolvedRowsStayHidden` | `Spec => []KnownSolvedStaysHidden` |
| `Suggest_proofs!NothingIsAskedTwice` | `Spec => []AskedOnce` |
| `Suggest_proofs!TheBenchIsConfirmed` | `Spec => []BenchIsConfirmed` |
| `Publish_proofs!ErrorsAreToldOnce` | `Spec => []ToldOnce` |
| `Publish_proofs!LoneBeatStandsForItsStatus` | `Spec => LoneBeatMeansFreshStatus` |
| `Lookups_proofs!DeadOnesAreAskedOnceADay` | `Spec => AskedOnceADay` |

`GateRules_proofs` holds the lemmas about the rules, in three layers.

* Shape: every day has a positive price; `Append`, `Fresh`, `SeedMarkers`,
  `DecideCharge` and `SettleEntries` keep a ledger a ledger (the last two because
  they look for the day's charge first).
* Sums. The rules add with `SumFunction`, a fold, which is a recursive function
  under a CHOOSE. Induction theorems with an operator parameter cannot be used,
  so each law is proved by a smallest counterexample instead: `SmallestSet` and
  `SmallestNumber` are first-order (every non-empty set of subsets of a finite
  set has a minimal member, by the library's well-foundedness of strict
  inclusion; `Suggest_proofs` has its own copy for ranked rows). `SumsExist` and
  `SumsAgree` show that the recursion has one solution; then `SumRemoves` (one
  element out), `SumJoins` (two disjoint parts), `SumOrder`, `SumPlus`,
  `SumTimes` and `SumRenamed` (the sum along a bijection).
* Money: `ChargedAdds`, `WorthGrows`, `CreditsAreWorthIt` (what a verdict counts
  is never more than the credits are worth), `PriceJoins`, `RepaidAddsAll`,
  `ForgettingGrowsDebt`, and what the two writers of charges do:
  `ChargedNowIsAfforded` (a charge taken by a verdict is covered by what was
  available) and `SettledIsThePrice` (a forgiven one is the plain price).

*Nothing is lost.* `LossNeedsOverlap` is not inductive: it must be known why the
copy a process saves has everything on file. `IInv` is

* `Fields` -- the shape of the process records;
* `Holders` -- the lock run holds the instance lock exactly while it runs, a
  running harvest holds the harvest lock, so at most one runs, and one in the
  middle of a peek holds the instance lock;
* while no overlap has happened (`causes = {}`): `OneCopy`, at most one process
  has an open copy, and `CopiesCover`, every open copy contains what is on file
  and the file contains everything that ever was.

Each action has a lemma. The argument turns in two places: the start of a lock
run (no harvest is past its second peek, or `window` is recorded) and a
harvest's load (it got through its second peek, so no lock run has started
since, or `window` is recorded). `SaveCovers` and `AppendKeeps` carry the copy
through a save and an append; a crash or a failed save only drops a copy or
leaves the file alone. `BackInv` adds that what a peer can hand on was on disk once,
so while nothing is lost a merge brings back nothing of this device
(`MergeBringsNothingBack`).

*Paid days are on disk.* `StepShape` says how any step may touch the file, the
fault budget and `through`; since nothing is lost, it is enough that the charge
got there once, which a save that did not fail ensures.

*History never earns.* The invariant `PreGateIsCovered`: once seeded, a
submission made before is on file, or it is no longer in the feed. `FeedForgets`
shows that the second stays so, because the feed is the newest `FeedLimit`
submissions and solves only accumulate.

*The account.* `Solvent` is not inductive: it must be known what the rows are.
`AccountInv` adds that a credit is one submission (`UnitCredits`), that this
device wrote every row, and that a charge is the price of its day or one more
(`PricedCharges`); and, while the clock runs forward, that nothing is charged for a
day to come. Minting (`MintingKeepsAccount`) only adds worth; a verdict's charge is
afforded; a settled day is forgiven.

*Nothing is overpaid by a run.* What is owed goes up and down, so no bound on what
was repaid is inductive. `RepaidWithin` says that what was repaid stays within the
debt and a margin `n`, and every run keeps it for every `n` (`Keeps`):
`ChargingKeepsDebt` needs that a surcharge is taken only while something is
outstanding, and that charging today takes no missed day away; `SignedRepayLess`
that a key which cannot be read makes unsigned surcharges count too, never signed
ones stop to. With the margin at what is overpaid (`OverpaidIsTheRest`), no step
widens it in which the off days and the clock's direction stay; midnight only adds
to what is owed.

*The account book.* The mapping reads `earned`, `spent` and the page of each day
off the ledger. Minting turns no page and only earns (`MintingEarns`); a charge
settles a day that was open, ids being unique (`ChargingSettles`), and adds its
amount to what is spent unless it is forgiven (`SpendingAdds`).
`DecidingIsABookStep` is the case that matters: a run that credits solves and
then charges is one `Pay`, affordable because `Account` holds after it
(`SpentIsEarned`), with a surcharge only if some day was missed
(`NothingHasNoPrice`).

*Every day its price.* `AccountOfTheCalendar` splits the charges by their day:
those before the debt's epoch stand for themselves; each later one is the price
of its day plus its excess (`ChargesAreDays`), the excess is repaid or unsigned,
and the charged and the missed days are the days that cost something.
`OnlyPaidDaysEarn` follows by the same rows: a day that earns has a charge it
paid for, or a solve of its own on a day off (`SolvesPay`, `PaidDayEarns`).

*Forecasts.* `ForecastInv` adds `Started`: while the clock runs forward nothing
is charged before the gate's first day, so a projection starts at today if today
has no charge or is off, and at tomorrow if today was charged
(`FirstDayIsOpen`). For `WorkIsThePriceLessTheCredits` the days are parted into
`Behind` (missed), charged and `Ahead` (`DaysArePartitioned`); what was overpaid is
carried along, since the truncation drops it. For `RulesDemandIsTaken`,
`PaidThrough` pays day after day; `PaidUpTo` is the invariant of that recursion
-- after each day the charges have grown by the prices so far plus `Took`, the
surcharges, which is the smaller of the debt and the number of dear days -- and
`PaymentsAddUp` carries it over any stretch, by the smallest day at which it
fails. For `MinimalPriceLands`, `CollectedIsGathered` turns the day-by-day
collection into a sum, which never shrinks (`GatheredNeverShrinks`), so the goal
lands by a date exactly if it is gathered by then (`LandsOnceGathered`); the sum
is linear in the price (`GatheredIsLinear`) and the smallest multiple that
reaches a bound is what the rounding division names (`SmallestMultiple`).

*Solvent files.* In `GuardRuns` the invariant must be about every copy at once:
`SoundCopies` says of the disk and of every open copy, alive or stale, that its
own credits pay for its own charges, but those in `returned`. A save replaces one
sound copy by another; a decision adds a charge to the copy it was decided on; a
merge may bring in a charge nothing in the copy pays for, and then it is one of
`returned` (`MergeIsSound`), which only grows (`ReturnedGrows`, `StillSound`). So no lost update can
part a charge from the credit that paid for it, although it may lose both.

*One chain, and blind time.* `PInv` adds to the two properties `TickIsWaited`: a
check nobody poked was started by a tick, so the interval before it was waited
out and its failure may count. `TickPends` and `PokeTakesTheTick` say what the
two ways to start a check do to the poller's record; the refinement then needs
one case per action, all but ticks, pokes, drains and the ways to close being
stutters of `PollLoop`.

*Study mode.* `GInv` says where each transition stands: `StandsDown` (which loops
are off and whether the grab is gone at each call), `Heals` (outside a transition
a locked session's recovery loop is not off, or the way back was cut at the sentence
about the grab), `ClosedIsEnd`, and `FlagIsDue` (if
gatelock's flag no longer says that VT switching is off, study mode has given it
back and still knows). `ClaimFallsFirst` needs only that the claim is down
wherever the next call is the release.

*Suggestions.* `HInv`: what is still to verify or on the bench is disjoint from
what was told and from the premium ones, and what is shown is part of the bench.
`AskInv` follows a run through its phases: nothing is asked about while the pool is resolved (`NoneAsked`);
`verify_live` goes down the ranking, so what it holds was asked about, what is
below was not, and it goes on only while the bench is short (`GoingDown`); what
it leaves is a bench that was asked about and a rest that was not (`BenchReady`);
in the window a row asked about is checked, in the batch in flight, or the checks
are blind and no batch is out (`OnTheRecord`). The ranked list is a set of
numbers, and `HeadOfTwo` says what its first `k` are when one part ranks above
the other.

*Publishing.* `TInv`: as long as the mirror could be read, an error that was
announced is in it or the phone has dropped it, and one about to be announced
never was. `LInv`: while no two pushes overlapped one push at most is under
way (`Lone`), what is recorded as pushed is what is there unless a status landed
unrecorded (`Recorded`), and `PushInOrder` has a push with news find its own status
there when it comes to the hash and one without find its own content recorded. So a
heartbeat stands over the status gathered, whatever failed and also when content
returns.

*Lookups.* `KInv`: while nothing failed and no calls overlapped, every problem
answered dead within the day is backed off in the marks on file, in the copy of
the call under way, or in the marks that call is about to save, or it has its row;
and none is in a call's queue.

Only model-checked: liveness (`PayableDayUnlocks`, `SolvesStayBanked`,
`LoopNeverDies`, `SolveLetsGo`, `BlindLockOffersAWayOut`, `GrabComesBack`,
`SolveEndsStudy`, `LocalCatchesUp`, `PhoneCatchesUp`, `LockComesUp`,
`RevealedIsChecked`, `DeadOnesStarveNobody`), since liveness under fairness and
`ENABLED` are out of the prover's reach. No module declares a RECURSIVE operator.

## 6. Not modelled, and simplifications

* `Gate` takes a run as one step: the load, the network and the save of one run
  are not interleaved there (they are in `GuardRuns`), and a difficulty
  resolution yields any subset of the rows asked for at once (taken apart in
  `Lookups`, which in turn keeps of a row only whether it is there).
* `GuardRuns` prices every day and solve by `GateRules` with Easy solves only and
  every local entry signed; keys, pools and penalties are `Gate`'s. The morning
  and evening deferrals are one nondeterministic exit, `LockDefer`.
* `LockWindow` has no clock: intervals are orders of events, not lengths. Demo
  mode is left out everywhere.
* `Study` leaves out which opener is chosen, and takes gatelock and the window
  system from how `src/` uses them.
* Ledger sync is a merge into one machine's file of what peers publish; the peers'
  own ledgers, the shape of the logs and the token are left out, since the merge is
  a library's.
* The cache of problem statements, the order in which a projection fills a goal,
  and every text and layout are left out: no state depends on them.
* Not modelled: profile and progress caches, the LeetCode client with its login
  and throttle (what it answers is an input), status commands and views, the coach
  log reader, the Dart app (a viewer no verdict depends on; only its download of a
  changed hash appears, as the phone of `Publish`), the browser extension (a ring
  of the doorbell), units and scripts (the fairness of the models).
