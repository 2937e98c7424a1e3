------------------------------ MODULE GuardRuns ------------------------------
(***************************************************************************)
(* The processes that share ledger.json: the lock run, the one-minute      *)
(* harvests and `--sync`.  Each loads the whole file, works on its copy    *)
(* across network calls, and saves the whole copy back.  What keeps them   *)
(* apart is the instance lock, the harvest lock, and the harvest's two     *)
(* peeks at the instance lock -- nothing guards the file itself.           *)
(*                                                                         *)
(* Every submission is Easy and this device signs every entry; Gate covers *)
(* prices, pools and the key.                                              *)
(***************************************************************************)
EXTENDS GateRules

CONSTANTS
  Harvesters,  \* processes that run _harvest_run (timer fires, manual starts)
  WithLock,    \* whether lock runs are started
  WithSync,    \* whether `--sync` is run by hand
  WithPeers,   \* whether peers publish what this device pushed along with their own
  Cloud,       \* the entries that are in the peers' logs from the start
  MaxCrash,    \* bound: processes killed
  MaxSaveFail, \* bound: saves that raise OSError
  MaxMisread,  \* bound: loads of an existing file that fail
  MaxDefer,    \* bound: runs deferred by the morning session or the lockdown
  MaxStarts    \* bound: lock runs started (login, and the timer's daily slots)

ASSUME RunsAssumption ==
  /\ "lock" \notin Harvesters /\ "none" \notin Harvesters
  /\ WithLock \in BOOLEAN /\ WithSync \in BOOLEAN /\ WithPeers \in BOOLEAN
  /\ MaxCrash \in Nat /\ MaxSaveFail \in Nat /\ MaxMisread \in Nat /\ MaxDefer \in Nat
  /\ MaxStarts \in Nat
  /\ IsFiniteSet(Cloud)
  /\ \A e \in Cloud : IsEntry(e) /\ (e.kind = "credit" => e.amount = 1)

VARIABLES
  today, solved,
  disk,         \* the entries in ledger.json
  instance,     \* who holds the instance lock
  harvestLock,  \* who holds the harvest lock
  lock,         \* the lock run
  harv,         \* the harvest runs
  sync,         \* the `--sync` run
  published,    \* what peers publish of this device's own pushes
  budget,       \* how often each bounded fault may still happen
  ever,         \* history: every entry that was ever on disk
  returned,     \* history: charges of this device that a merge brought (back) in
  through,      \* history: the days a verdict let the user through on a charge
  causes        \* history: what let two copies of the ledger be open at once

procs == <<lock, harv, sync>>
locks == <<instance, harvestLock>>
peers == <<published, returned>>
vars == <<today, solved, disk, locks, procs, peers, budget, ever, through, causes>>

NoPools == [p \in {"free", "sick", "focus", "penalty"} |-> {}]
Verdict(L, day) == DecideState(L, TRUE, day, NoPools, Slugs)
IsLocked(L, day) == Verdict(L, day) \in LockedStates
ChargeFor(L, day) == DecideCharge(L, TRUE, day, NoPools, Slugs, TRUE)

LockOff == [pc |-> "off", day |-> 0, mem |-> {}, probe |-> {}, released |-> FALSE, misread |-> FALSE]
HarvOff == [pc |-> "off", day |-> 0, feed |-> {}, mem |-> {}]
SyncOff == [pc |-> "off", mem |-> {}]

\* A copy is open from its load to its owner's last save.
LockOpen == lock.pc \in {"deciding", "probing", "seeding", "armed", "folded", "syncing"}
HarvOpen(h) == harv[h].pc \in {"loaded", "committed"}
SyncOpen == sync.pc = "syncing"
PastRepeek(h) == harv[h].pc \in {"clear", "loaded", "committed"}

Init ==
  /\ today = 0 /\ solved = {}
  /\ disk = {BootstrapEntry(0, TRUE)}
  /\ instance = "none" /\ harvestLock = "none"
  /\ lock = LockOff /\ harv = [h \in Harvesters |-> HarvOff] /\ sync = SyncOff
  /\ budget = [crash |-> MaxCrash, save |-> MaxSaveFail,
               misread |-> MaxMisread, defer |-> MaxDefer, start |-> MaxStarts]
  /\ published = {} /\ returned = {}
  /\ ever = disk /\ through = {} /\ causes = {}

-----------------------------------------------------------------------------
(* The file *)

Spend(what) == budget[what] > 0 /\ budget' = [budget EXCEPT ![what] = @ - 1]

\* save_ledger: the whole copy replaces the file, or the write fails and the
\* caller carries on.
Save(copy) ==
  \/ disk' = copy /\ ever' = ever \cup copy /\ UNCHANGED budget
  \/ copy # disk /\ Spend("save") /\ UNCHANGED <<disk, ever>>

NoSave == UNCHANGED <<disk, ever, budget>>

\* load_ledger: the file, or an empty ledger when it cannot be read.
Load(copy, misread) ==
  \/ copy = disk /\ misread = FALSE /\ UNCHANGED budget
  \/ copy = {} /\ misread = TRUE /\ Spend("misread")

Feed == solved

\* A charge of this device's that a solve has to pay for.
PaidHere(e) == e.kind = "charge" /\ e.device = ThisDevice /\ e.source \notin ForgivenSources

\* sync_ledger after the merge: of the entries in whichever logs came down, one
\* per id, the new ones are appended, and the file is saved if there are any.
Merge(copy) ==
  /\ \E got \in SUBSET {e \in Cloud \cup published : ~Has(copy, e.id)} :
       LET mem == Append(copy, got) IN
       /\ IsLedger(got)
       /\ IF mem = copy THEN NoSave ELSE Save(mem)
       /\ returned' = returned \cup {e \in mem \ copy : PaidHere(e)}
  /\ UNCHANGED published

-----------------------------------------------------------------------------
(* The world *)

Solve ==
  /\ \E s \in Subs \ solved :
       /\ \A x \in Subs : x < s => x \in solved
       /\ solved' = solved \cup {s}
  /\ UNCHANGED <<today, peers, disk, locks, procs, budget, ever, through, causes>>

Midnight ==
  /\ today < LastDay /\ today' = today + 1
  /\ UNCHANGED <<solved, peers, disk, locks, procs, budget, ever, through, causes>>

-----------------------------------------------------------------------------
(* The lock run: cmd_lock, _run_lock, LeetcodeGuard *)

LockExit == lock' = LockOff /\ instance' = "none"

\* Mutant: a lock run does not look whether the instance lock is free.
LockStartRegardless ==
  /\ WithLock /\ lock.pc = "off" /\ today >= GateStart
  /\ Spend("start")
  /\ instance' = "lock" /\ lock' = [LockOff EXCEPT !.pc = "held", !.day = today]
  /\ UNCHANGED <<today, peers, solved, disk, harvestLock, harv, sync, ever, through, causes>>

\* The instance lock is free; whoever peeked before may still be about to save.
LockStart ==
  /\ WithLock /\ lock.pc = "off" /\ instance = "none" /\ today >= GateStart
  /\ Spend("start")
  /\ instance' = "lock"
  /\ lock' = [LockOff EXCEPT !.pc = "held", !.day = today]
  /\ causes' = IF \E h \in Harvesters : PastRepeek(h)
               THEN causes \cup {"window"} ELSE causes
  /\ UNCHANGED <<today, peers, solved, disk, harvestLock, harv, sync, ever, through>>

\* The instance lock is taken: exit 0, and the timer counts the slot as run.
LockStandDown ==
  /\ WithLock /\ instance # "none" /\ today >= GateStart
  /\ Spend("start")
  /\ UNCHANGED <<today, peers, solved, disk, locks, procs, ever, through, causes>>

\* defer_for_morning_session before the load, defer_for_evening_lockdown after
\* a locked verdict.
LockDefer ==
  /\ lock.pc \in {"held", "probing"}
  /\ Spend("defer") /\ LockExit
  /\ UNCHANGED <<today, peers, solved, disk, harvestLock, harv, sync, ever, through, causes>>

LockLoad ==
  /\ lock.pc = "held"
  /\ \E copy \in {disk, {}}, misread \in BOOLEAN :
       /\ Load(copy, misread)
       /\ lock' = [lock EXCEPT !.pc = "deciding", !.mem = copy, !.misread = misread]
       /\ causes' = causes \cup (IF SyncOpen THEN {"sync"} ELSE {})
                           \cup (IF misread THEN {"misread"} ELSE {})
  /\ UNCHANGED <<today, peers, solved, disk, locks, harv, sync, ever, through>>

\* Not locked: settle from the bank and go away, whatever the save returned.
LockDecide ==
  /\ lock.pc = "deciding"
  /\ IF IsLocked(lock.mem, lock.day)
     THEN /\ lock' = [lock EXCEPT !.pc = "probing"]
          /\ NoSave /\ UNCHANGED <<instance, through>>
     ELSE LET charge == ChargeFor(lock.mem, lock.day) IN
          /\ IF charge = {} THEN NoSave ELSE Save(lock.mem \cup charge)
          /\ through' = through \cup {e.day : e \in charge}
          /\ LockExit
  /\ UNCHANGED <<today, peers, solved, harvestLock, harv, sync, causes>>

\* The probe before any window: a ledger never seeded is seeded and the run
\* does not arm.
LockProbe ==
  /\ lock.pc = "probing"
  /\ \E answer \in {{}, {Feed}} :
       IF NeedsSeeding(lock.mem) /\ answer # {}
       THEN Save(Append(lock.mem, SeedMarkers(Feed, lock.day, TRUE))) /\ LockExit
       ELSE /\ lock' = [lock EXCEPT !.pc = "arming", !.mem = {}, !.probe = answer]
            /\ NoSave /\ UNCHANGED instance
  /\ UNCHANGED <<today, peers, solved, harvestLock, harv, sync, through, causes>>

\* LeetcodeGuard.__init__ loads the ledger again ...
LockArm ==
  /\ lock.pc = "arming"
  /\ \E copy \in {disk, {}}, misread \in BOOLEAN :
       /\ Load(copy, misread)
       /\ lock' = IF NeedsSeeding(copy) /\ lock.probe # {}
                  THEN [lock EXCEPT !.pc = "seeding", !.mem = copy, !.misread = misread]
                  ELSE [lock EXCEPT !.pc = "armed", !.mem = copy, !.misread = misread,
                                    !.probe = {}]
       /\ causes' = causes \cup (IF SyncOpen THEN {"sync"} ELSE {})
                           \cup (IF misread THEN {"misread"} ELSE {})
  /\ UNCHANGED <<today, peers, solved, disk, locks, harv, sync, ever, through>>

\* ... and _maybe_seed seeds it from the probe the run started with.
LockSeed ==
  /\ lock.pc = "seeding"
  /\ LET mem == Append(lock.mem, SeedMarkers(UNION lock.probe, today, TRUE)) IN
     /\ lock' = [lock EXCEPT !.pc = "armed", !.mem = mem, !.probe = {}]
     /\ Save(mem)
  /\ UNCHANGED <<today, peers, solved, locks, harv, sync, through, causes>>

\* _check on the executor: the feed as it is now, folded in later.
PollFetch ==
  /\ lock.pc = "armed" /\ lock.probe = {}
  /\ lock' = [lock EXCEPT !.probe = {Feed}]
  /\ UNCHANGED <<today, peers, solved, disk, locks, harv, sync, budget, ever, through, causes>>

\* _on_poll_result: mint into the copy and save it; a tick that got no answer
\* mints nothing.
PollFold ==
  /\ lock.pc = "armed"
  /\ LET fresh == Fresh(lock.mem, UNION lock.probe, today, TRUE)
         mem == Append(lock.mem, fresh)
     IN  /\ lock' = [lock EXCEPT !.pc = "folded", !.mem = mem, !.probe = {}]
         /\ IF fresh = {} THEN NoSave ELSE Save(mem)
  /\ UNCHANGED <<today, peers, solved, locks, harv, sync, through, causes>>

\* ... then decide on today, write the charge and let go.
PollDecide ==
  /\ lock.pc = "folded"
  /\ LET charge == ChargeFor(lock.mem, today)
         locked == IsLocked(lock.mem, today)
     IN  /\ lock' = [lock EXCEPT !.pc = "armed", !.mem = @ \cup charge,
                                 !.released = @ \/ ~locked]
         /\ IF charge = {} THEN NoSave ELSE Save(lock.mem \cup charge)
         /\ through' = through \cup {e.day : e \in charge}
  /\ UNCHANGED <<today, peers, solved, locks, harv, sync, causes>>

\* An escape, an outage or a network account settles today: settle_day.
Settle ==
  /\ lock.pc = "armed"
  /\ LET charge == SettleEntries(lock.mem, today, "escape", TRUE) IN
     /\ lock' = [lock EXCEPT !.mem = @ \cup charge, !.released = TRUE]
     /\ IF charge = {} THEN NoSave ELSE Save(lock.mem \cup charge)
  /\ UNCHANGED <<today, peers, solved, locks, harv, sync, through, causes>>

\* on_close after the linger, or on SIGTERM: the poller is stopped and
\* sync_quietly loads a copy of its own.
LockClose ==
  /\ lock.pc = "armed"
  /\ \E copy \in {disk, {}}, misread \in BOOLEAN :
       /\ Load(copy, misread)
       /\ lock' = [LockOff EXCEPT !.pc = "syncing", !.mem = copy, !.misread = misread]
       /\ causes' = causes \cup (IF SyncOpen THEN {"sync"} ELSE {})
                           \cup (IF misread THEN {"misread"} ELSE {})
  /\ UNCHANGED <<today, peers, solved, disk, locks, harv, sync, ever, through>>

\* The merge came back, or the network did not: only then is the lock released.
LockSynced ==
  /\ lock.pc = "syncing"
  /\ Merge(lock.mem) /\ LockExit
  /\ UNCHANGED <<today, solved, harvestLock, harv, sync, through, causes>>

LockCrash ==
  /\ lock.pc # "off" /\ Spend("crash") /\ LockExit
  /\ UNCHANGED <<today, peers, solved, disk, harvestLock, harv, sync, ever, through, causes>>

-----------------------------------------------------------------------------
(* The harvest: run_harvest, _harvest_once *)

\* Mutant: a harvest that ends keeps the harvest lock.
HarvExitKeepsLock(h) == harv' = [harv EXCEPT ![h] = HarvOff] /\ UNCHANGED harvestLock

HarvExit(h) == harv' = [harv EXCEPT ![h] = HarvOff] /\ harvestLock' = "none"

\* Mutant: a harvest does not look whether another one is running.
HarvestStartUnlocked(h) ==
  /\ harv[h].pc = "off" /\ today >= GateStart
  /\ harvestLock' = h
  /\ harv' = [harv EXCEPT ![h].pc = "starting", ![h].day = today]
  /\ UNCHANGED <<today, peers, solved, disk, instance, lock, sync, budget, ever, through,
                 causes>>

\* run_harvest takes the harvest lock and fixes the day it works for.
HarvestStart(h) ==
  /\ harv[h].pc = "off" /\ harvestLock = "none" /\ today >= GateStart
  /\ harvestLock' = h
  /\ harv' = [harv EXCEPT ![h].pc = "starting", ![h].day = today]
  /\ UNCHANGED <<today, peers, solved, disk, instance, lock, sync, budget, ever, through,
                 causes>>

\* Mutant: only the first peek counts.
PeekOnce(h) ==
  /\ harv[h].pc \in {"starting", "fetched"}
  /\ IF harv[h].pc = "starting" /\ instance # "none"
     THEN HarvExit(h) /\ UNCHANGED instance
     ELSE /\ instance' = IF instance = "none" THEN h ELSE instance
          /\ UNCHANGED harvestLock
          /\ harv' = [harv EXCEPT ![h].pc =
                        IF @ = "starting" THEN "peeking"
                        ELSE IF instance = "none" THEN "repeeking" ELSE "clear"]
  /\ UNCHANGED <<today, peers, solved, disk, lock, sync, budget, ever, through, causes>>

\* lock_is_up takes the instance lock for a moment, before the fetch and again
\* after it; a lock it cannot take means a lock run is up.
Peek(h) ==
  /\ harv[h].pc \in {"starting", "fetched"}
  /\ IF instance # "none" THEN HarvExit(h) /\ UNCHANGED instance
     ELSE /\ instance' = h /\ UNCHANGED harvestLock
          /\ harv' = [harv EXCEPT ![h].pc = IF @ = "starting" THEN "peeking" ELSE "repeeking"]
  /\ UNCHANGED <<today, peers, solved, disk, lock, sync, budget, ever, through, causes>>

Unpeek(h) ==
  /\ harv[h].pc \in {"peeking", "repeeking"}
  /\ instance' = "none"
  /\ harv' = [harv EXCEPT ![h].pc = IF @ = "peeking" THEN "fetching" ELSE "clear"]
  /\ UNCHANGED <<today, peers, solved, disk, harvestLock, lock, sync, budget, ever, through,
                 causes>>

HarvestFetch(h) ==
  /\ harv[h].pc = "fetching"
  /\ harv' = [harv EXCEPT ![h].pc = "fetched", ![h].feed = Feed]
  /\ UNCHANGED <<today, peers, solved, disk, locks, lock, sync, budget, ever, through,
                 causes>>

HarvestUnanswered(h) ==
  /\ harv[h].pc = "fetching" /\ HarvExit(h)
  /\ UNCHANGED <<today, peers, solved, disk, instance, lock, sync, budget, ever, through,
                 causes>>

\* Never seeds: without the marker (or without a readable file) it stops.
HarvestLoad(h) ==
  /\ harv[h].pc = "clear"
  /\ \E copy \in {disk, {}}, misread \in BOOLEAN :
       /\ Load(copy, misread)
       /\ IF NeedsSeeding(copy)
          THEN HarvExit(h) /\ UNCHANGED causes
          ELSE /\ harv' = [harv EXCEPT ![h].pc = "loaded", ![h].mem = copy]
               /\ causes' = IF SyncOpen THEN causes \cup {"sync"} ELSE causes
               /\ UNCHANGED harvestLock
  /\ UNCHANGED <<today, peers, solved, disk, instance, lock, sync, ever, through>>

\* Between the load and this save lies resolve_difficulties, a network call.
HarvestCommit(h) ==
  /\ harv[h].pc = "loaded"
  /\ LET fresh == Fresh(harv[h].mem, harv[h].feed, harv[h].day, TRUE)
         mem == Append(harv[h].mem, fresh)
     IN  IF fresh = {} THEN HarvExit(h) /\ NoSave
         ELSE /\ harv' = [harv EXCEPT ![h].pc = "committed", ![h].mem = mem]
              /\ Save(mem) /\ UNCHANGED harvestLock
  /\ UNCHANGED <<today, peers, solved, instance, lock, sync, through, causes>>

\* A run that minted a credit settles the day it started on.
HarvestSettle(h) ==
  /\ harv[h].pc = "committed"
  /\ LET charge == ChargeFor(harv[h].mem, harv[h].day) IN
     /\ IF charge = {} THEN NoSave ELSE Save(harv[h].mem \cup charge)
     /\ through' = through \cup {e.day : e \in charge}
  /\ HarvExit(h)
  /\ UNCHANGED <<today, peers, solved, instance, lock, sync, causes>>

\* A killed process drops its flocks.
HarvestCrash(h) ==
  /\ harv[h].pc # "off" /\ Spend("crash") /\ HarvExit(h)
  /\ instance' = IF instance = h THEN "none" ELSE instance
  /\ UNCHANGED <<today, peers, solved, disk, lock, sync, ever, through, causes>>

-----------------------------------------------------------------------------
(* `--sync`: takes no lock at all *)

SyncStart ==
  /\ WithSync /\ sync.pc = "off"
  /\ \E copy \in {disk, {}}, misread \in BOOLEAN :
       /\ Load(copy, misread)
       /\ sync' = [pc |-> "syncing", mem |-> copy]
       /\ causes' = causes
            \cup (IF LockOpen \/ \E h \in Harvesters : HarvOpen(h) THEN {"sync"} ELSE {})
            \cup (IF misread THEN {"misread"} ELSE {})
  /\ UNCHANGED <<today, peers, solved, disk, locks, lock, harv, ever, through>>

SyncMerge ==
  /\ sync.pc = "syncing" /\ sync' = SyncOff
  /\ Merge(sync.mem)
  /\ UNCHANGED <<today, solved, locks, lock, harv, through, causes>>

\* sync_log pushes the copy the run loaded; a peer that takes it in publishes
\* it with its own, whatever becomes of the run.
PeerPicksUp ==
  /\ WithPeers
  /\ \/ lock.pc = "syncing" /\ published' = published \cup lock.mem
     \/ SyncOpen /\ published' = published \cup sync.mem
  /\ UNCHANGED <<today, solved, disk, locks, procs, returned, budget, ever, through, causes>>

-----------------------------------------------------------------------------
LockNext ==
  \/ LockStart \/ LockStandDown \/ LockDefer \/ LockLoad \/ LockDecide \/ LockProbe
  \/ LockArm \/ LockSeed
  \/ PollFetch \/ PollFold \/ PollDecide \/ Settle \/ LockClose \/ LockSynced
  \/ LockCrash
HarvestNext(h) ==
  \/ HarvestStart(h) \/ Peek(h) \/ Unpeek(h) \/ HarvestFetch(h)
  \/ HarvestUnanswered(h) \/ HarvestLoad(h) \/ HarvestCommit(h) \/ HarvestSettle(h)
  \/ HarvestCrash(h)

Next ==
  \/ Solve \/ Midnight \/ LockNext
  \/ \E h \in Harvesters : HarvestNext(h)
  \/ SyncStart \/ SyncMerge \/ PeerPicksUp

Spec == Init /\ [][Next]_vars

(* What the scheduling justifies: a run that has started keeps going, the    *)
(* poll loop and the harvest timer fire for ever, and LeetCode answers now   *)
(* and then.  Nobody has to start a lock run, ask for an escape or sync.     *)
Fairness ==
  /\ WF_vars(LockLoad \/ LockDecide \/ LockProbe \/ LockArm \/ LockSeed
             \/ PollFold \/ PollDecide \/ LockSynced)
  /\ SF_vars(PollFetch)
  /\ SF_vars(lock.released /\ LockClose)
  /\ \A h \in Harvesters :
       /\ WF_vars(HarvestStart(h) \/ Peek(h) \/ Unpeek(h) \/ HarvestLoad(h)
                  \/ HarvestCommit(h) \/ HarvestSettle(h))
       /\ WF_vars(HarvestFetch(h) \/ HarvestUnanswered(h))
       /\ SF_vars(HarvestFetch(h))

FairSpec == Spec /\ Fairness

-----------------------------------------------------------------------------
(* Properties *)

TypeOK ==
  /\ today \in Days /\ solved \subseteq Subs
  /\ IsLedger(disk) /\ IsLedger(lock.mem) /\ IsLedger(sync.mem)
  /\ lock.day \in Days /\ UNION lock.probe \subseteq Subs
  /\ \A h \in Harvesters :
       IsLedger(harv[h].mem) /\ harv[h].day \in Days /\ harv[h].feed \subseteq Subs
  /\ instance \in {"none", "lock"} \cup Harvesters
  /\ harvestLock \in {"none"} \cup Harvesters
  /\ (lock.pc # "off") <=> (instance = "lock")
  /\ \A e \in published : IsEntry(e)
  /\ causes \subseteq {"window", "sync", "misread"}

(* What reached the disk stays there, unless a lock run took the instance    *)
(* lock between a harvest's second peek and its last save, a `--sync`        *)
(* overlapped another copy, or a readable ledger was read as empty.  Those   *)
(* are the only three ways to lose an entry, with any number of harvests,    *)
(* crashes and failed saves; and while none of them has happened, no merge   *)
(* brings back a charge this device has made (lock_is_up, acquire,           *)
(* save_ledger, sync_ledger).                                                *)
LossNeedsOverlap == causes = {} => ever \subseteq disk /\ returned \subseteq Cloud

(* Every file a run leaves behind is one the solves in it pay for, however   *)
(* the saves overwrite each other: a lost update never keeps a charge and    *)
(* drops the credit that paid for it (whole-file saves of one copy).  What   *)
(* was forgiven, or charged by another device, is not this one's to pay --   *)
(* and neither is a charge that a merge brought back after it was lost here  *)
(* and its credit spent again: nothing looks whether it can be afforded.     *)
PaidFor(L) ==
  LET excused == {e \in L : \/ e.source \in ForgivenSources \/ e.device # ThisDevice
                            \/ e \in returned}
  IN  Worth(L) + Charged(excused) >= Charged(L)
Solvent == PaidFor(disk)

(* "A day paid from banked credit is only settled once the charge is on      *)
(* disk": the days the gate let through on a charge are on file -- in every  *)
(* run that meets neither an overlap nor a failed save.                      *)
PaidDayIsOnDisk == \A d \in through : Has(disk, <<"charge", d>>)
PaidDayIsOnDiskUnlessRaced ==
  causes = {} /\ budget.save = MaxSaveFail => PaidDayIsOnDisk

(* A solve in the feed is banked for good, whatever update of it was lost on *)
(* the way: a harvest or a poll mints it again until no copy without it is   *)
(* left (harvest keys on the submission id).                                 *)
SolvesStayBanked ==
  \A s \in Subs : <>[](s \in solved => Has(disk, <<"ac", s>>))

(* "Never write while a lock is up."                                         *)
HarvestNeverWritesUnderALock ==
  [][(\E h \in Harvesters : HarvOpen(h) /\ harv'[h] # harv[h]) /\ instance = "lock"
       => disk' = disk]_vars

(* "a corrupt file locks rather than unlocks": a lock run that could not     *)
(* read its ledger goes on to arm.                                           *)
CorruptFileLocks ==
  [][lock.pc = "probing" /\ lock.misread => lock'.pc # "off"]_vars
=============================================================================
