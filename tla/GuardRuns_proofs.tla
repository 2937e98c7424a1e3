--------------------------- MODULE GuardRuns_proofs ---------------------------
(***************************************************************************)
(* Proofs about GuardRuns, for any number of harvests, submissions and     *)
(* days and any bound on the faults.                                       *)
(***************************************************************************)
EXTENDS GuardRuns, GateRules_proofs

(* Appending keeps what was there: the ledger is append-only (_ledger_io).  *)
LEMMA AppendKeeps ==
  ASSUME NEW L, NEW new
  PROVE  L \subseteq Append(L, new)
BY DEF Append

-----------------------------------------------------------------------------
(* The inductive invariant.  Who holds which lock fixes who may have a copy *)
(* of the ledger open; and as long as nothing let two copies be open, the   *)
(* one that is holds everything the file does.                              *)

Fields ==
  /\ DOMAIN lock = {"pc", "day", "mem", "probe", "released", "misread"}
  /\ DOMAIN harv = Harvesters
  /\ \A h \in Harvesters : DOMAIN harv[h] = {"pc", "day", "feed", "mem"}

Holders ==
  /\ (lock.pc # "off") <=> (instance = "lock")
  /\ \A h \in Harvesters :
       /\ (harv[h].pc # "off") <=> (harvestLock = h)
       /\ (harv[h].pc \in {"peeking", "repeeking"}) <=> (instance = h)

OneCopy ==
  /\ instance = "lock" => \A h \in Harvesters : ~PastRepeek(h)
  /\ SyncOpen => ~LockOpen /\ \A h \in Harvesters : ~HarvOpen(h)

CopiesCover ==
  /\ ever \subseteq disk
  /\ LockOpen => disk \subseteq lock.mem
  /\ SyncOpen => disk \subseteq sync.mem
  /\ \A h \in Harvesters : HarvOpen(h) => disk \subseteq harv[h].mem

Quiet == causes = {}
IInv == Fields /\ Holders /\ (Quiet => OneCopy /\ CopiesCover)

USE DEF locks, procs, peers

LEMMA InitInd == Init => IInv
<1> SUFFICES ASSUME Init PROVE IInv
  OBVIOUS
<1> USE RunsAssumption DEF RunsAssumption, Init, LockOff, HarvOff, SyncOff
<1>1. Fields
  BY DEF Fields
<1>2. Holders
  BY DEF Holders
<1>3. OneCopy /\ CopiesCover
  BY DEF OneCopy, CopiesCover, LockOpen, HarvOpen, SyncOpen, PastRepeek
<1> QED
  BY <1>1, <1>2, <1>3 DEF IInv

LEMMA WorldInd == IInv /\ (Solve \/ Midnight) => IInv'
<1> SUFFICES ASSUME IInv, Solve \/ Midnight PROVE IInv'
  OBVIOUS
<1>1. UNCHANGED <<disk, instance, harvestLock, lock, harv, sync, ever, causes>>
  BY DEF Solve, Midnight
<1> QED
  BY <1>1 DEF IInv, Fields, Holders, OneCopy, CopiesCover, LockOpen, HarvOpen, SyncOpen,
     PastRepeek, Quiet

LEMMA LockStartInd == IInv /\ LockStart => IInv'
<1> SUFFICES ASSUME IInv, LockStart PROVE IInv'
  OBVIOUS
<1> USE RunsAssumption DEF RunsAssumption, LockStart, LockOff
<1>1. Fields'
  BY DEF IInv, Fields
<1>2. Holders'
  BY DEF IInv, Holders
<1>3. ASSUME Quiet' PROVE OneCopy' /\ CopiesCover'
  BY <1>3 DEF IInv, Quiet, OneCopy, CopiesCover, LockOpen, HarvOpen, SyncOpen, PastRepeek
<1> QED
  BY <1>1, <1>2, <1>3 DEF IInv

(* A step of a lock run that is up disturbs only what its own copy says:    *)
(* the instance lock keeps every harvest from having one open.              *)
LEMMA LockSide ==
  ASSUME IInv, lock.pc # "off",
         UNCHANGED <<harvestLock, harv, sync>>, causes \subseteq causes',
         DOMAIN lock' = DOMAIN lock,
         IF lock'.pc = "off" THEN instance' = "none" ELSE instance' = instance,
         Quiet /\ Quiet' => /\ ever' \subseteq disk'
                            /\ LockOpen' => disk' \subseteq lock'.mem /\ ~SyncOpen
                            /\ SyncOpen => disk' = disk
  PROVE  IInv'
<1> USE RunsAssumption DEF RunsAssumption
<1>1. Fields'
  BY DEF IInv, Fields
<1>2. Holders'
  BY DEF IInv, Holders
<1>3. ASSUME Quiet' PROVE OneCopy' /\ CopiesCover'
  <2>1. Quiet /\ instance = "lock"
    BY <1>3 DEF Quiet, IInv, Holders
  <2>2. \A h \in Harvesters : ~PastRepeek(h)
    BY <2>1 DEF IInv, OneCopy
  <2> QED
    BY <1>3, <2>1, <2>2
       DEF IInv, OneCopy, CopiesCover, LockOpen, HarvOpen, SyncOpen, PastRepeek
<1> QED
  BY <1>1, <1>2, <1>3 DEF IInv

(* A save that covers the file leaves a file that covers all there ever was. *)
LEMMA SaveCovers ==
  ASSUME NEW copy, disk \subseteq copy, ever \subseteq disk, Save(copy) \/ NoSave
  PROVE  ever' \subseteq disk' /\ disk' \subseteq copy
BY DEF Save, NoSave

LEMMA LockLoadInd == IInv /\ LockLoad => IInv'
<1> SUFFICES ASSUME IInv, LockLoad PROVE IInv'
  OBVIOUS
<1> USE DEF LockLoad
<1>1. PICK copy \in {disk, {}}, misread \in BOOLEAN :
        /\ Load(copy, misread)
        /\ lock' = [lock EXCEPT !.pc = "deciding", !.mem = copy, !.misread = misread]
        /\ causes' = causes \cup (IF SyncOpen THEN {"sync"} ELSE {})
                            \cup (IF misread THEN {"misread"} ELSE {})
  OBVIOUS
<1>2. lock'.pc = "deciding" /\ lock'.mem = copy /\ DOMAIN lock' = DOMAIN lock
  BY <1>1 DEF IInv, Fields
<1>3. Quiet' => ~SyncOpen /\ copy = disk
  BY <1>1 DEF Quiet, Load
<1>4. Quiet => ever \subseteq disk
  BY DEF IInv, CopiesCover
<1> QED
  BY <1>1, <1>2, <1>3, <1>4, LockSide DEF LockOpen

LEMMA LockArmInd == IInv /\ LockArm => IInv'
<1> SUFFICES ASSUME IInv, LockArm PROVE IInv'
  OBVIOUS
<1> USE DEF LockArm
<1>1. PICK copy \in {disk, {}}, misread \in BOOLEAN :
        /\ Load(copy, misread)
        /\ lock' = IF NeedsSeeding(copy) /\ lock.probe # {}
                   THEN [lock EXCEPT !.pc = "seeding", !.mem = copy, !.misread = misread]
                   ELSE [lock EXCEPT !.pc = "armed", !.mem = copy, !.misread = misread,
                                     !.probe = {}]
        /\ causes' = causes \cup (IF SyncOpen THEN {"sync"} ELSE {})
                            \cup (IF misread THEN {"misread"} ELSE {})
  OBVIOUS
<1>2. lock'.pc \in {"seeding", "armed"} /\ lock'.mem = copy /\ DOMAIN lock' = DOMAIN lock
  BY <1>1 DEF IInv, Fields
<1>3. Quiet' => ~SyncOpen /\ copy = disk
  BY <1>1 DEF Quiet, Load
<1>4. Quiet => ever \subseteq disk
  BY DEF IInv, CopiesCover
<1> QED
  BY <1>1, <1>2, <1>3, <1>4, LockSide DEF LockOpen

LEMMA LockCloseInd == IInv /\ LockClose => IInv'
<1> SUFFICES ASSUME IInv, LockClose PROVE IInv'
  OBVIOUS
<1> USE DEF LockClose
<1>1. PICK copy \in {disk, {}}, misread \in BOOLEAN :
        /\ Load(copy, misread)
        /\ lock' = [LockOff EXCEPT !.pc = "syncing", !.mem = copy, !.misread = misread]
        /\ causes' = causes \cup (IF SyncOpen THEN {"sync"} ELSE {})
                            \cup (IF misread THEN {"misread"} ELSE {})
  OBVIOUS
<1>2. lock'.pc = "syncing" /\ lock'.mem = copy /\ DOMAIN lock' = DOMAIN lock
  BY <1>1 DEF IInv, Fields, LockOff
<1>3. Quiet' => ~SyncOpen /\ copy = disk
  BY <1>1 DEF Quiet, Load
<1>4. Quiet => ever \subseteq disk
  BY DEF IInv, CopiesCover
<1> QED
  BY <1>1, <1>2, <1>3, <1>4, LockSide DEF LockOpen

LEMMA LockDecideInd == IInv /\ LockDecide => IInv'
<1> SUFFICES ASSUME IInv, LockDecide PROVE IInv'
  OBVIOUS
<1>1. CASE IsLocked(lock.mem, lock.day)
  <2>1. lock'.pc = "probing" /\ lock'.mem = lock.mem /\ DOMAIN lock' = DOMAIN lock
    BY <1>1 DEF LockDecide, IInv, Fields
  <2>2. lock.pc = "deciding" /\ NoSave /\ instance' = instance
    BY <1>1 DEF LockDecide
  <2>3. UNCHANGED <<causes, harvestLock, harv, sync>>
    BY DEF LockDecide
  <2>4. Quiet => ever \subseteq disk /\ disk \subseteq lock.mem /\ ~SyncOpen
    BY <2>2 DEF IInv, OneCopy, CopiesCover, LockOpen
  <2> QED
    BY <2>1, <2>2, <2>3, <2>4, LockSide DEF NoSave
<1>2. CASE ~IsLocked(lock.mem, lock.day)
  <2> DEFINE copy == lock.mem \cup ChargeFor(lock.mem, lock.day)
  <2>1. lock'.pc = "off" /\ instance' = "none" /\ DOMAIN lock' = DOMAIN lock
    BY <1>2 DEF LockDecide, LockExit, LockOff, IInv, Fields
  <2>2. Save(copy) \/ NoSave
    BY <1>2 DEF LockDecide
  <2>3. Quiet => disk \subseteq copy /\ ever \subseteq disk /\ ~SyncOpen
    BY DEF LockDecide, LockOpen, IInv, OneCopy, CopiesCover
  <2>4. Quiet => ever' \subseteq disk'
    BY <2>2, <2>3, SaveCovers
  <2> QED
    BY <2>1, <2>3, <2>4, LockSide DEF LockDecide, LockOpen
<1> QED
  BY <1>1, <1>2

LEMMA LockProbeInd == IInv /\ LockProbe => IInv'
<1> SUFFICES ASSUME IInv, LockProbe PROVE IInv'
  OBVIOUS
<1>1. PICK answer \in {{}, {Feed}} :
        IF NeedsSeeding(lock.mem) /\ answer # {}
        THEN Save(Append(lock.mem, SeedMarkers(Feed, lock.day, TRUE))) /\ LockExit
        ELSE /\ lock' = [lock EXCEPT !.pc = "arming", !.mem = {}, !.probe = answer]
             /\ NoSave /\ UNCHANGED instance
  BY DEF LockProbe
<1>2. CASE NeedsSeeding(lock.mem) /\ answer # {}
  <2> DEFINE copy == Append(lock.mem, SeedMarkers(Feed, lock.day, TRUE))
  <2>1. lock'.pc = "off" /\ instance' = "none" /\ DOMAIN lock' = DOMAIN lock
    BY <1>1, <1>2 DEF LockExit, LockOff, IInv, Fields
  <2>2. Quiet => disk \subseteq copy /\ ever \subseteq disk /\ ~SyncOpen
    BY AppendKeeps DEF LockProbe, LockOpen, IInv, OneCopy, CopiesCover
  <2>3. Quiet => ever' \subseteq disk'
    BY <1>1, <1>2, <2>2, SaveCovers
  <2> QED
    BY <2>1, <2>2, <2>3, LockSide DEF LockProbe, LockOpen
<1>3. CASE ~(NeedsSeeding(lock.mem) /\ answer # {})
  <2>1. lock'.pc = "arming" /\ DOMAIN lock' = DOMAIN lock /\ instance' = instance
    BY <1>1, <1>3 DEF IInv, Fields
  <2> QED
    BY <1>1, <1>3, <2>1, LockSide DEF LockProbe, NoSave, LockOpen, IInv, CopiesCover
<1> QED
  BY <1>2, <1>3

LEMMA LockSeedInd == IInv /\ LockSeed => IInv'
<1> SUFFICES ASSUME IInv, LockSeed PROVE IInv'
  OBVIOUS
<1> DEFINE mem == Append(lock.mem, SeedMarkers(UNION lock.probe, today, TRUE))
<1>1. lock'.pc = "armed" /\ lock'.mem = mem /\ DOMAIN lock' = DOMAIN lock
  BY DEF LockSeed, IInv, Fields
<1>2. Quiet => disk \subseteq mem /\ ever \subseteq disk /\ ~SyncOpen
  BY AppendKeeps DEF LockSeed, LockOpen, IInv, OneCopy, CopiesCover
<1>3. Quiet => ever' \subseteq disk' /\ disk' \subseteq mem
  BY <1>2, SaveCovers DEF LockSeed
<1> QED
  BY <1>1, <1>2, <1>3, LockSide DEF LockSeed, LockOpen

LEMMA PollInd == IInv /\ (PollFetch \/ PollFold \/ PollDecide \/ Settle) => IInv'
<1> SUFFICES ASSUME IInv PROVE PollFetch \/ PollFold \/ PollDecide \/ Settle => IInv'
  OBVIOUS
<1>1. ASSUME PollFetch PROVE IInv'
  <2>1. lock'.pc = "armed" /\ lock'.mem = lock.mem /\ DOMAIN lock' = DOMAIN lock
    BY <1>1 DEF PollFetch, IInv, Fields
  <2> QED
    BY <1>1, <2>1, LockSide DEF PollFetch, LockOpen, IInv, OneCopy, CopiesCover
<1>2. ASSUME PollFold PROVE IInv'
  <2> DEFINE mem == Append(lock.mem, Fresh(lock.mem, UNION lock.probe, today, TRUE))
  <2>1. lock'.pc = "folded" /\ lock'.mem = mem /\ DOMAIN lock' = DOMAIN lock
    BY <1>2 DEF PollFold, IInv, Fields
  <2>2. Quiet => disk \subseteq mem /\ ever \subseteq disk /\ ~SyncOpen
    BY <1>2, AppendKeeps DEF PollFold, LockOpen, IInv, OneCopy, CopiesCover
  <2>3. Quiet => ever' \subseteq disk' /\ disk' \subseteq mem
    BY <1>2, <2>2, SaveCovers DEF PollFold
  <2> QED
    BY <1>2, <2>1, <2>2, <2>3, LockSide DEF PollFold, LockOpen
<1>3. ASSUME PollDecide PROVE IInv'
  <2> DEFINE mem == lock.mem \cup ChargeFor(lock.mem, today)
  <2>1. lock'.pc = "armed" /\ lock'.mem = mem /\ DOMAIN lock' = DOMAIN lock
    BY <1>3 DEF PollDecide, IInv, Fields
  <2>2. Quiet => disk \subseteq mem /\ ever \subseteq disk /\ ~SyncOpen
    BY <1>3 DEF PollDecide, LockOpen, IInv, OneCopy, CopiesCover
  <2>3. Quiet => ever' \subseteq disk' /\ disk' \subseteq mem
    BY <1>3, <2>2, SaveCovers DEF PollDecide
  <2> QED
    BY <1>3, <2>1, <2>2, <2>3, LockSide DEF PollDecide, LockOpen
<1>4. ASSUME Settle PROVE IInv'
  <2> DEFINE mem == lock.mem \cup SettleEntries(lock.mem, today, "escape", TRUE)
  <2>1. lock'.pc = "armed" /\ lock'.mem = mem /\ DOMAIN lock' = DOMAIN lock
    BY <1>4 DEF Settle, IInv, Fields
  <2>2. Quiet => disk \subseteq mem /\ ever \subseteq disk /\ ~SyncOpen
    BY <1>4 DEF Settle, LockOpen, IInv, OneCopy, CopiesCover
  <2>3. Quiet => ever' \subseteq disk' /\ disk' \subseteq mem
    BY <1>4, <2>2, SaveCovers DEF Settle
  <2> QED
    BY <1>4, <2>1, <2>2, <2>3, LockSide DEF Settle, LockOpen
<1> QED
  BY <1>1, <1>2, <1>3, <1>4

LEMMA LockEndInd == IInv /\ (LockDefer \/ LockSynced \/ LockCrash) => IInv'
<1> SUFFICES ASSUME IInv, LockDefer \/ LockSynced \/ LockCrash PROVE IInv'
  OBVIOUS
<1>1. /\ lock'.pc = "off" /\ instance' = "none" /\ DOMAIN lock' = DOMAIN lock
      /\ lock.pc # "off" /\ UNCHANGED <<harvestLock, harv, sync, causes>>
  BY DEF LockDefer, LockSynced, LockCrash, LockExit, LockOff, IInv, Fields
<1>2. Quiet => ever' \subseteq disk' /\ (SyncOpen => disk' = disk)
  <2>1. CASE LockDefer \/ LockCrash
    BY <2>1 DEF LockDefer, LockCrash, IInv, CopiesCover
  <2>2. CASE LockSynced
    <3>1. PICK got \in SUBSET (Cloud \cup published) :
            IF Append(lock.mem, got) = lock.mem THEN NoSave ELSE Save(Append(lock.mem, got))
      BY <2>2 DEF LockSynced, Merge
    <3>2. Quiet => disk \subseteq Append(lock.mem, got) /\ ever \subseteq disk /\ ~SyncOpen
      BY <2>2, AppendKeeps DEF LockSynced, LockOpen, IInv, OneCopy, CopiesCover
    <3> QED
      BY <3>1, <3>2, SaveCovers
  <2> QED
    BY <2>1, <2>2
<1> QED
  BY <1>1, <1>2, LockSide DEF LockOpen

-----------------------------------------------------------------------------
(* A step of a harvest that holds the harvest lock: no other harvest runs,  *)
(* and a lock run is only up if the harvest is not past its second peek.    *)
LEMMA HarvSide ==
  ASSUME IInv, NEW h \in Harvesters, NEW r,
         UNCHANGED <<lock, sync>>, causes \subseteq causes',
         harv' = [harv EXCEPT ![h] = r], DOMAIN r = {"pc", "day", "feed", "mem"},
         harvestLock \in {h, "none"},
         harvestLock' = IF r.pc = "off" THEN "none" ELSE h,
         IF r.pc \in {"peeking", "repeeking"} THEN instance \in {h, "none"} /\ instance' = h
         ELSE instance' = IF instance = h THEN "none" ELSE instance,
         r.pc \in {"clear", "loaded", "committed"} => PastRepeek(h) \/ harv[h].pc = "repeeking",
         Quiet /\ Quiet' => /\ ever' \subseteq disk'
                            /\ r.pc \in {"loaded", "committed"} =>
                                 disk' \subseteq r.mem /\ ~SyncOpen
                            /\ disk' = disk \/ HarvOpen(h)
  PROVE  IInv'
<1> USE RunsAssumption DEF RunsAssumption
<1>1. Fields'
  BY DEF IInv, Fields
<1>2. harv'[h] = r /\ \A g \in Harvesters \ {h} : harv'[g] = harv[g] /\ harv[g].pc = "off"
  BY DEF IInv, Fields, Holders
<1>3. Holders'
  BY <1>2 DEF IInv, Holders
<1>4. ASSUME Quiet' PROVE OneCopy' /\ CopiesCover'
  <2>1. Quiet
    BY <1>4 DEF Quiet
  <2>2. PastRepeek(h) \/ harv[h].pc = "repeeking" => instance # "lock" /\ ~LockOpen
    BY <2>1 DEF IInv, OneCopy, Holders, LockOpen
  <2>3. OneCopy'
    <3>1. instance' = "lock" => \A g \in Harvesters : ~PastRepeek(g)'
      BY <1>2, <2>2 DEF PastRepeek
    <3>2. SyncOpen' => ~LockOpen' /\ \A g \in Harvesters : ~HarvOpen(g)'
      BY <1>2, <1>4, <2>1 DEF IInv, OneCopy, SyncOpen, LockOpen, HarvOpen
    <3> QED
      BY <3>1, <3>2 DEF OneCopy
  <2>4. HarvOpen(h) => ~LockOpen /\ ~SyncOpen
    BY <2>1, <2>2 DEF IInv, OneCopy, HarvOpen, PastRepeek
  <2>5. CopiesCover'
    BY <1>2, <1>4, <2>1, <2>4 DEF IInv, CopiesCover, SyncOpen, LockOpen, HarvOpen
  <2> QED
    BY <2>3, <2>5
<1> QED
  BY <1>1, <1>3, <1>4 DEF IInv

LEMMA HarvPeeksInd ==
  ASSUME IInv, NEW h \in Harvesters,
         HarvestStart(h) \/ Peek(h) \/ Unpeek(h) \/ HarvestFetch(h) \/ HarvestUnanswered(h)
           \/ HarvestCrash(h)
  PROVE  IInv'
<1> USE RunsAssumption DEF RunsAssumption, HarvExit, HarvOff
<1>1. UNCHANGED <<lock, sync, causes, disk, ever>>
  BY DEF HarvestStart, Peek, Unpeek, HarvestFetch, HarvestUnanswered, HarvestCrash
<1>2. Quiet => ever \subseteq disk
  BY DEF IInv, CopiesCover
<1>3. DOMAIN harv = Harvesters /\ DOMAIN harv[h] = {"pc", "day", "feed", "mem"}
  BY DEF IInv, Fields
<1>4. /\ (harv[h].pc # "off") <=> (harvestLock = h)
      /\ (harv[h].pc \in {"peeking", "repeeking"}) <=> (instance = h)
  BY DEF IInv, Holders
<1>5. CASE HarvestStart(h)
  <2> DEFINE r == [harv[h] EXCEPT !.pc = "starting", !.day = today]
  <2>1. harv' = [harv EXCEPT ![h] = r] /\ harvestLock' = h /\ instance' = instance
    BY <1>3, <1>5 DEF HarvestStart
  <2>2. r.pc = "starting" /\ DOMAIN r = DOMAIN harv[h]
    BY <1>3
  <2>3. harvestLock = "none" /\ instance # h
    BY <1>4, <1>5 DEF HarvestStart
  <2> HIDE DEF r
  <2> QED
    BY <1>1, <1>2, <1>3, <2>1, <2>2, <2>3, HarvSide
<1>6. CASE Peek(h)
  <2>1. CASE instance # "none"
    <3>1. harv' = [harv EXCEPT ![h] = HarvOff] /\ harvestLock' = "none" /\ instance' = instance
      BY <1>6, <2>1 DEF Peek
    <3> QED
      BY <1>1, <1>2, <1>3, <1>4, <1>6, <2>1, <3>1, HarvSide DEF Peek
  <2>2. CASE instance = "none"
    <3> DEFINE r == [harv[h] EXCEPT !.pc = IF @ = "starting" THEN "peeking" ELSE "repeeking"]
    <3>1. harv' = [harv EXCEPT ![h] = r] /\ harvestLock' = harvestLock /\ instance' = h
      BY <1>6, <2>2 DEF Peek
    <3>2. r.pc \in {"peeking", "repeeking"} /\ DOMAIN r = DOMAIN harv[h]
      BY <1>3
    <3> HIDE DEF r
    <3> QED
      BY <1>1, <1>2, <1>3, <1>4, <1>6, <2>2, <3>1, <3>2, HarvSide DEF Peek
  <2> QED
    BY <2>1, <2>2
<1>7. CASE Unpeek(h)
  <2> DEFINE r == [harv[h] EXCEPT !.pc = IF @ = "peeking" THEN "fetching" ELSE "clear"]
  <2>1. harv' = [harv EXCEPT ![h] = r] /\ harvestLock' = harvestLock /\ instance' = "none"
    BY <1>7 DEF Unpeek
  <2>2. /\ r.pc \in {"fetching", "clear"} /\ DOMAIN r = DOMAIN harv[h]
        /\ r.pc = "clear" => harv[h].pc = "repeeking"
    BY <1>3, <1>7 DEF Unpeek
  <2>3. harvestLock = h /\ instance = h
    BY <1>4, <1>7 DEF Unpeek
  <2> HIDE DEF r
  <2> QED
    BY <1>1, <1>2, <1>3, <2>1, <2>2, <2>3, HarvSide
<1>8. CASE HarvestFetch(h)
  BY <1>1, <1>2, <1>3, <1>4, <1>8, HarvSide DEF HarvestFetch
<1>9. CASE HarvestUnanswered(h)
  BY <1>1, <1>2, <1>3, <1>4, <1>9, HarvSide DEF HarvestUnanswered
<1>10. CASE HarvestCrash(h)
  BY <1>1, <1>2, <1>3, <1>4, <1>10, HarvSide DEF HarvestCrash
<1> QED
  BY <1>5, <1>6, <1>7, <1>8, <1>9, <1>10

LEMMA HarvLoadInd ==
  ASSUME IInv, NEW h \in Harvesters, HarvestLoad(h)
  PROVE  IInv'
<1>1. PICK copy \in {disk, {}}, misread \in BOOLEAN :
        /\ Load(copy, misread)
        /\ IF NeedsSeeding(copy)
           THEN HarvExit(h) /\ UNCHANGED causes
           ELSE /\ harv' = [harv EXCEPT ![h].pc = "loaded", ![h].mem = copy]
                /\ causes' = IF SyncOpen THEN causes \cup {"sync"} ELSE causes
                /\ UNCHANGED harvestLock
  BY DEF HarvestLoad
<1>2. Quiet => ever \subseteq disk
  BY DEF IInv, CopiesCover
<1>3. DOMAIN harv = Harvesters /\ DOMAIN harv[h] = {"pc", "day", "feed", "mem"}
  BY DEF IInv, Fields
<1>4. harv[h].pc = "clear" /\ harvestLock = h /\ instance # h
  BY DEF HarvestLoad, IInv, Holders
<1>5. UNCHANGED <<lock, sync, disk, ever, instance>>
  BY DEF HarvestLoad
<1>6. CASE NeedsSeeding(copy)
  BY <1>1, <1>2, <1>3, <1>4, <1>5, <1>6, HarvSide DEF HarvExit, HarvOff
<1>7. CASE ~NeedsSeeding(copy)
  <2> DEFINE r == [harv[h] EXCEPT !.pc = "loaded", !.mem = copy]
  <2>1. harv' = [harv EXCEPT ![h] = r] /\ harvestLock' = h
    BY <1>1, <1>3, <1>4, <1>7
  <2>2. r.pc = "loaded" /\ r.mem = copy /\ DOMAIN r = DOMAIN harv[h]
    BY <1>3
  <2>3. copy = disk
    BY <1>1, <1>7 DEF Load, NeedsSeeding, OfKind
  <2>4. Quiet' => ~SyncOpen
    BY <1>1, <1>7 DEF Quiet
  <2>5. causes \subseteq causes'
    BY <1>1, <1>7
  <2> HIDE DEF r
  <2> QED
    BY <1>2, <1>3, <1>4, <1>5, <2>1, <2>2, <2>3, <2>4, <2>5, HarvSide DEF PastRepeek
<1> QED
  BY <1>6, <1>7

LEMMA HarvSavesInd ==
  ASSUME IInv, NEW h \in Harvesters, HarvestCommit(h) \/ HarvestSettle(h)
  PROVE  IInv'
<1>1. DOMAIN harv = Harvesters /\ DOMAIN harv[h] = {"pc", "day", "feed", "mem"}
  BY DEF IInv, Fields
<1>2. /\ harv[h].pc \in {"loaded", "committed"} /\ harvestLock = h /\ instance # h
      /\ UNCHANGED <<lock, sync, causes, instance>>
  BY DEF HarvestCommit, HarvestSettle, IInv, Holders
<1>3. Quiet => ever \subseteq disk /\ disk \subseteq harv[h].mem /\ ~SyncOpen
  BY <1>2 DEF IInv, OneCopy, CopiesCover, HarvOpen
<1>4. CASE HarvestCommit(h)
  <2> DEFINE fresh == Fresh(harv[h].mem, harv[h].feed, harv[h].day, TRUE)
             mem == Append(harv[h].mem, fresh)
  <2>1. CASE fresh = {}
    <3>1. harv' = [harv EXCEPT ![h] = HarvOff] /\ harvestLock' = "none" /\ UNCHANGED <<disk, ever>>
      BY <1>4, <2>1 DEF HarvestCommit, HarvExit, NoSave
    <3> QED
      BY <1>1, <1>2, <1>3, <3>1, HarvSide DEF HarvOff
  <2>2. CASE fresh # {}
    <3> DEFINE r == [harv[h] EXCEPT !.pc = "committed", !.mem = mem]
    <3>1. harv' = [harv EXCEPT ![h] = r] /\ harvestLock' = h /\ Save(mem)
      BY <1>1, <1>2, <1>4, <2>2 DEF HarvestCommit
    <3>2. r.pc = "committed" /\ r.mem = mem /\ DOMAIN r = DOMAIN harv[h]
      BY <1>1
    <3>3. Quiet => ever' \subseteq disk' /\ disk' \subseteq mem
      BY <1>3, <3>1, AppendKeeps, SaveCovers
    <3> HIDE DEF r, mem
    <3> QED
      BY <1>1, <1>2, <1>3, <3>1, <3>2, <3>3, HarvSide DEF PastRepeek, HarvOpen
  <2> QED
    BY <2>1, <2>2
<1>5. CASE HarvestSettle(h)
  <2> DEFINE copy == harv[h].mem \cup ChargeFor(harv[h].mem, harv[h].day)
  <2>1. harv' = [harv EXCEPT ![h] = HarvOff] /\ harvestLock' = "none" /\ (Save(copy) \/ NoSave)
    BY <1>5 DEF HarvestSettle, HarvExit
  <2>2. Quiet => ever' \subseteq disk'
    <3>1. Quiet => disk \subseteq copy
      BY <1>3
    <3> QED
      BY <1>3, <2>1, <3>1, SaveCovers
  <2> QED
    BY <1>1, <1>2, <1>3, <2>1, <2>2, HarvSide DEF HarvOff, HarvOpen
<1> QED
  BY <1>4, <1>5

LEMMA SyncInd == IInv /\ (SyncStart \/ SyncMerge) => IInv'
<1> SUFFICES ASSUME IInv, SyncStart \/ SyncMerge PROVE IInv'
  OBVIOUS
<1>1. UNCHANGED <<lock, harv, instance, harvestLock>> /\ causes \subseteq causes'
  BY DEF SyncStart, SyncMerge
<1>2. Fields' /\ Holders'
  BY <1>1 DEF IInv, Fields, Holders
<1>3. ASSUME Quiet' PROVE OneCopy' /\ CopiesCover'
  <2>1. Quiet
    BY <1>1, <1>3 DEF Quiet
  <2>2. CASE SyncStart
    <3>1. PICK copy \in {disk, {}}, misread \in BOOLEAN :
            /\ Load(copy, misread)
            /\ sync' = [pc |-> "syncing", mem |-> copy]
            /\ causes' = causes
                 \cup (IF LockOpen \/ \E h \in Harvesters : HarvOpen(h) THEN {"sync"} ELSE {})
                 \cup (IF misread THEN {"misread"} ELSE {})
      BY <2>2 DEF SyncStart
    <3>2. copy = disk /\ ~LockOpen /\ \A h \in Harvesters : ~HarvOpen(h)
      BY <1>3, <3>1 DEF Quiet, Load
    <3>3. UNCHANGED <<disk, ever>>
      BY <2>2 DEF SyncStart
    <3> QED
      BY <1>1, <2>1, <3>1, <3>2, <3>3
         DEF IInv, OneCopy, CopiesCover, LockOpen, HarvOpen, SyncOpen, PastRepeek
  <2>3. CASE SyncMerge
    <3>1. PICK got \in SUBSET (Cloud \cup published) :
            IF Append(sync.mem, got) = sync.mem THEN NoSave ELSE Save(Append(sync.mem, got))
      BY <2>3 DEF SyncMerge, Merge
    <3>2. /\ disk \subseteq Append(sync.mem, got) /\ ever \subseteq disk
          /\ ~LockOpen /\ \A h \in Harvesters : ~HarvOpen(h)
      BY <2>1, <2>3, AppendKeeps DEF SyncMerge, SyncOpen, IInv, OneCopy, CopiesCover
    <3>3. ever' \subseteq disk'
      BY <3>1, <3>2, SaveCovers
    <3>4. sync'.pc = "off"
      BY <2>3 DEF SyncMerge, SyncOff
    <3> QED
      BY <1>1, <2>1, <3>2, <3>3, <3>4
         DEF IInv, OneCopy, CopiesCover, LockOpen, HarvOpen, SyncOpen, PastRepeek
  <2> QED
    BY <2>2, <2>3
<1> QED
  BY <1>2, <1>3 DEF IInv

LEMMA StutterInd == IInv /\ (LockStandDown \/ PeerPicksUp \/ UNCHANGED vars) => IInv'
<1> SUFFICES ASSUME IInv, LockStandDown \/ PeerPicksUp \/ UNCHANGED vars PROVE IInv'
  OBVIOUS
<1>1. UNCHANGED <<disk, instance, harvestLock, lock, harv, sync, ever, causes>>
  BY DEF LockStandDown, PeerPicksUp, vars
<1> QED
  BY <1>1 DEF IInv, Fields, Holders, OneCopy, CopiesCover, LockOpen, HarvOpen, SyncOpen,
     PastRepeek, Quiet

-----------------------------------------------------------------------------
LEMMA StepInd == IInv /\ [Next]_vars => IInv'
<1> SUFFICES ASSUME IInv, [Next]_vars PROVE IInv'
  OBVIOUS
<1>1. CASE Solve \/ Midnight
  BY <1>1, WorldInd
<1>2. CASE LockNext
  BY <1>2, LockStartInd, LockLoadInd, LockDecideInd, LockProbeInd, LockArmInd,
     LockSeedInd, PollInd, LockCloseInd, LockEndInd, StutterInd DEF LockNext
<1>3. ASSUME NEW h \in Harvesters, HarvestNext(h) PROVE IInv'
  BY <1>3, HarvPeeksInd, HarvLoadInd, HarvSavesInd DEF HarvestNext
<1>4. CASE SyncStart \/ SyncMerge
  BY <1>4, SyncInd
<1>5. CASE PeerPicksUp \/ UNCHANGED vars
  BY <1>5, StutterInd
<1> QED
  BY <1>1, <1>2, <1>3, <1>4, <1>5 DEF Next

-----------------------------------------------------------------------------
(* Type correctness.  Every copy of the ledger, open or on disk, is one     *)
(* entry per id, whatever overlapped.                                       *)

LockTyped(l) == IsLedger(l.mem) /\ l.day \in Days /\ UNION l.probe \subseteq Subs
HarvTyped(r) == IsLedger(r.mem) /\ r.day \in Days /\ r.feed \subseteq Subs

LEMMA OffTyped == LockTyped(LockOff) /\ HarvTyped(HarvOff) /\ IsLedger(SyncOff.mem)
BY EmptyIsLedger, CalendarAssumption
   DEF CalendarAssumption, LockTyped, HarvTyped, LockOff, HarvOff, SyncOff, Days

LEMMA SaveIsLedger ==
  ASSUME NEW copy, IsLedger(copy), IsLedger(disk), Save(copy) \/ NoSave
  PROVE  IsLedger(disk')
BY DEF Save, NoSave

LEMMA MergeIsLedger ==
  ASSUME NEW mem, IsLedger(mem), IsLedger(disk), Merge(mem)
  PROVE  IsLedger(disk')
<1>1. PICK got : IsLedger(got) /\ (Save(Append(mem, got)) \/ NoSave)
  BY DEF Merge
<1> QED
  BY <1>1, AppendIsLedger, SaveIsLedger

LEMMA ChargeForKeepsLedger ==
  ASSUME NEW L, IsLedger(L), NEW d \in Days
  PROVE  IsLedger(L \cup ChargeFor(L, d))
BY DecideKeepsLedger DEF ChargeFor

\* What a step of the lock run must keep for TypeOK to hold after it.
LockKeeps ==
  IsLedger(disk') /\ LockTyped(lock') /\ causes' \subseteq {"window", "sync", "misread"}

LEMMA LockLoadsTyped ==
  ASSUME TypeOK, IInv, LockStart \/ LockLoad \/ LockArm \/ LockClose
  PROVE  LockKeeps
<1> USE DEF LockKeeps, LockTyped
<1>1. IsLedger(disk') /\ LockTyped(lock) /\ causes \subseteq {"window", "sync", "misread"}
      /\ today \in Days
  BY DEF TypeOK, LockStart, LockLoad, LockArm, LockClose
<1>2. causes' \subseteq {"window", "sync", "misread"}
  BY <1>1 DEF LockStart, LockLoad, LockArm, LockClose
<1>3. ASSUME NEW copy \in {disk, {}} PROVE IsLedger(copy)
  BY <1>3, EmptyIsLedger DEF TypeOK
<1>4. CASE LockStart
  <2>1. lock'.mem = {} /\ lock'.day = today /\ lock'.probe = {}
    BY <1>4 DEF LockStart, LockOff
  <2> QED
    BY <1>1, <1>2, <2>1, EmptyIsLedger
<1>5. CASE LockLoad
  <2>1. PICK copy \in {disk, {}}, misread \in BOOLEAN :
          lock' = [lock EXCEPT !.pc = "deciding", !.mem = copy, !.misread = misread]
    BY <1>5 DEF LockLoad
  <2>2. lock'.mem = copy /\ lock'.day = lock.day /\ lock'.probe = lock.probe
    BY <2>1 DEF IInv, Fields
  <2> QED
    BY <1>1, <1>2, <1>3, <2>2
<1>6. CASE LockArm
  <2>1. PICK copy \in {disk, {}}, misread \in BOOLEAN :
          lock' = IF NeedsSeeding(copy) /\ lock.probe # {}
                  THEN [lock EXCEPT !.pc = "seeding", !.mem = copy, !.misread = misread]
                  ELSE [lock EXCEPT !.pc = "armed", !.mem = copy, !.misread = misread,
                                    !.probe = {}]
    BY <1>6 DEF LockArm
  <2>2. lock'.mem = copy /\ lock'.day = lock.day /\ lock'.probe \in {lock.probe, {}}
    BY <2>1 DEF IInv, Fields
  <2> QED
    BY <1>1, <1>2, <1>3, <2>2
<1>7. CASE LockClose
  <2>1. PICK copy \in {disk, {}}, misread \in BOOLEAN :
          lock' = [LockOff EXCEPT !.pc = "syncing", !.mem = copy, !.misread = misread]
    BY <1>7 DEF LockClose
  <2>2. lock'.mem = copy /\ lock'.day = LockOff.day /\ lock'.probe = LockOff.probe
    BY <2>1 DEF LockOff
  <2> QED
    BY <1>1, <1>2, <1>3, <2>2, OffTyped
<1> QED
  BY <1>4, <1>5, <1>6, <1>7

LEMMA LockSavesTyped ==
  ASSUME TypeOK, IInv,
         LockDecide \/ LockProbe \/ LockSeed \/ PollFetch \/ PollFold \/ PollDecide \/ Settle
           \/ LockDefer \/ LockSynced \/ LockCrash
  PROVE  LockKeeps
<1> USE DEF LockKeeps, LockTyped
<1>1. /\ IsLedger(disk) /\ LockTyped(lock) /\ today \in Days /\ solved \subseteq Subs
      /\ causes' \subseteq {"window", "sync", "misread"}
  BY DEF TypeOK, LockDecide, LockProbe, LockSeed, PollFetch, PollFold, PollDecide, Settle,
         LockDefer, LockSynced, LockCrash
<1>2. DOMAIN lock = {"pc", "day", "mem", "probe", "released", "misread"}
  BY DEF IInv, Fields
<1>3. CASE LockDecide
  <2>1. IsLedger(lock.mem \cup ChargeFor(lock.mem, lock.day))
    BY <1>1, ChargeForKeepsLedger
  <2>2. IsLedger(disk')
    BY <1>1, <1>3, <2>1, SaveIsLedger DEF LockDecide
  <2>3. lock' = LockOff \/ (lock'.mem = lock.mem /\ lock'.day = lock.day /\ lock'.probe = lock.probe)
    BY <1>2, <1>3 DEF LockDecide, LockExit
  <2> QED
    BY <1>1, <2>2, <2>3, OffTyped
<1>4. CASE LockProbe
  <2>1. PICK answer \in {{}, {Feed}} :
          IF NeedsSeeding(lock.mem) /\ answer # {}
          THEN Save(Append(lock.mem, SeedMarkers(Feed, lock.day, TRUE))) /\ LockExit
          ELSE /\ lock' = [lock EXCEPT !.pc = "arming", !.mem = {}, !.probe = answer]
               /\ NoSave /\ UNCHANGED instance
    BY <1>4 DEF LockProbe
  <2>2. IsLedger(Append(lock.mem, SeedMarkers(Feed, lock.day, TRUE)))
    BY <1>1, SeedMarkersAreLedger, AppendIsLedger DEF Feed
  <2>3. IsLedger(disk')
    BY <1>1, <2>1, <2>2, SaveIsLedger
  <2>4. \/ lock' = LockOff
        \/ lock'.mem = {} /\ lock'.day = lock.day /\ lock'.probe = answer
    BY <1>2, <2>1 DEF LockExit
  <2>5. UNION answer \subseteq Subs
    BY <1>1, <2>1 DEF Feed
  <2> QED
    BY <1>1, <2>3, <2>4, <2>5, OffTyped, EmptyIsLedger
<1>5. CASE LockSeed
  <2> DEFINE mem == Append(lock.mem, SeedMarkers(UNION lock.probe, today, TRUE))
  <2>1. IsLedger(mem)
    BY <1>1, SeedMarkersAreLedger, AppendIsLedger
  <2>2. lock'.mem = mem /\ lock'.day = lock.day /\ lock'.probe = {} /\ Save(mem)
    BY <1>2, <1>5 DEF LockSeed
  <2> QED
    BY <1>1, <2>1, <2>2, SaveIsLedger
<1>6. CASE PollFetch
  <2>1. lock'.mem = lock.mem /\ lock'.day = lock.day /\ lock'.probe = {Feed} /\ disk' = disk
    BY <1>2, <1>6 DEF PollFetch
  <2> QED
    BY <1>1, <2>1 DEF Feed
<1>7. CASE PollFold
  <2> DEFINE mem == Append(lock.mem, Fresh(lock.mem, UNION lock.probe, today, TRUE))
  <2>1. IsLedger(mem)
    BY <1>1, FreshIsLedger, AppendIsLedger
  <2>2. lock'.mem = mem /\ lock'.day = lock.day /\ lock'.probe = {} /\ (Save(mem) \/ NoSave)
    BY <1>2, <1>7 DEF PollFold
  <2> QED
    BY <1>1, <2>1, <2>2, SaveIsLedger
<1>8. CASE PollDecide
  <2> DEFINE mem == lock.mem \cup ChargeFor(lock.mem, today)
  <2>1. IsLedger(mem)
    BY <1>1, ChargeForKeepsLedger
  <2>2. lock'.mem = mem /\ lock'.day = lock.day /\ lock'.probe = lock.probe
        /\ (Save(mem) \/ NoSave)
    BY <1>2, <1>8 DEF PollDecide
  <2> QED
    BY <1>1, <2>1, <2>2, SaveIsLedger
<1>9. CASE Settle
  <2> DEFINE mem == lock.mem \cup SettleEntries(lock.mem, today, "escape", TRUE)
  <2>1. IsLedger(mem)
    BY <1>1, SettleKeepsLedger
  <2>2. lock'.mem = mem /\ lock'.day = lock.day /\ lock'.probe = lock.probe
        /\ (Save(mem) \/ NoSave)
    BY <1>2, <1>9 DEF Settle
  <2> QED
    BY <1>1, <2>1, <2>2, SaveIsLedger
<1>10. CASE LockSynced
  <2>1. IsLedger(disk')
    BY <1>1, <1>10, MergeIsLedger DEF LockSynced
  <2> QED
    BY <1>1, <1>10, <2>1, OffTyped DEF LockSynced, LockExit
<1>11. CASE LockDefer \/ LockCrash
  BY <1>1, <1>11, OffTyped DEF LockDefer, LockCrash, LockExit
<1> QED
  BY <1>3, <1>4, <1>5, <1>6, <1>7, <1>8, <1>9, <1>10, <1>11

LEMMA HarvTypedInd ==
  ASSUME TypeOK, IInv, NEW h \in Harvesters, HarvestNext(h)
  PROVE  IsLedger(disk') /\ HarvTyped(harv'[h])
<1> USE DEF HarvTyped
<1>1. IsLedger(disk) /\ HarvTyped(harv[h]) /\ today \in Days /\ solved \subseteq Subs
  BY DEF TypeOK
<1>2. DOMAIN harv = Harvesters /\ DOMAIN harv[h] = {"pc", "day", "feed", "mem"}
  BY DEF IInv, Fields
<1>3. ASSUME NEW pc, NEW day \in Days, harv' = [harv EXCEPT ![h].pc = pc, ![h].day = day]
      PROVE  HarvTyped(harv'[h])
  <2>1. harv'[h].mem = harv[h].mem /\ harv'[h].day = day /\ harv'[h].feed = harv[h].feed
    BY <1>2, <1>3
  <2> QED
    BY <1>1, <2>1
<1>4. ASSUME harv'[h] = HarvOff PROVE HarvTyped(harv'[h])
  BY <1>4, OffTyped
<1>5. CASE HarvestStart(h)
  <2>1. disk' = disk
    BY <1>5 DEF HarvestStart
  <2> QED
    BY <1>1, <1>3, <1>5, <2>1 DEF HarvestStart
<1>6. CASE Peek(h) \/ Unpeek(h)
  <2>1. disk' = disk
    BY <1>6 DEF Peek, Unpeek
  <2>2. \/ harv'[h] = HarvOff
        \/ /\ harv'[h].mem = harv[h].mem /\ harv'[h].day = harv[h].day
           /\ harv'[h].feed = harv[h].feed
    BY <1>2, <1>6 DEF Peek, Unpeek, HarvExit
  <2> QED
    BY <1>1, <1>4, <2>1, <2>2
<1>7. CASE HarvestFetch(h)
  <2>1. /\ harv'[h].mem = harv[h].mem /\ harv'[h].day = harv[h].day
        /\ harv'[h].feed = Feed /\ disk' = disk
    BY <1>2, <1>7 DEF HarvestFetch
  <2> QED
    BY <1>1, <2>1 DEF Feed
<1>8. CASE HarvestUnanswered(h) \/ HarvestCrash(h)
  BY <1>1, <1>2, <1>4, <1>8 DEF HarvestUnanswered, HarvestCrash, HarvExit
<1>9. CASE HarvestLoad(h)
  <2>1. PICK copy \in {disk, {}} :
          \/ HarvExit(h)
          \/ harv' = [harv EXCEPT ![h].pc = "loaded", ![h].mem = copy]
    BY <1>9 DEF HarvestLoad
  <2>2. \/ harv'[h] = HarvOff
        \/ /\ harv'[h].mem = copy /\ harv'[h].day = harv[h].day
           /\ harv'[h].feed = harv[h].feed
    BY <1>2, <2>1 DEF HarvExit
  <2>3. IsLedger(copy) /\ disk' = disk
    BY <1>1, <1>9, EmptyIsLedger DEF HarvestLoad
  <2> QED
    BY <1>1, <1>4, <2>2, <2>3
<1>10. CASE HarvestCommit(h)
  <2> DEFINE mem == Append(harv[h].mem, Fresh(harv[h].mem, harv[h].feed, harv[h].day, TRUE))
  <2>1. IsLedger(mem)
    BY <1>1, FreshIsLedger, AppendIsLedger
  <2>2. \/ harv'[h] = HarvOff
        \/ /\ harv'[h].mem = mem /\ harv'[h].day = harv[h].day
           /\ harv'[h].feed = harv[h].feed
    <3>1. \/ harv' = [harv EXCEPT ![h] = HarvOff]
          \/ harv' = [harv EXCEPT ![h].pc = "committed", ![h].mem = mem]
      BY <1>10 DEF HarvestCommit, HarvExit
    <3> HIDE DEF mem
    <3> QED
      BY <1>2, <3>1
  <2>3. Save(mem) \/ NoSave
    BY <1>10 DEF HarvestCommit
  <2> HIDE DEF mem
  <2> QED
    BY <1>1, <1>4, <2>1, <2>2, <2>3, SaveIsLedger
<1>11. CASE HarvestSettle(h)
  <2>1. IsLedger(harv[h].mem \cup ChargeFor(harv[h].mem, harv[h].day))
    BY <1>1, ChargeForKeepsLedger
  <2>2. IsLedger(disk')
    BY <1>1, <1>11, <2>1, SaveIsLedger DEF HarvestSettle
  <2> QED
    BY <1>2, <1>4, <1>11, <2>2 DEF HarvestSettle, HarvExit
<1> QED
  BY <1>5, <1>6, <1>7, <1>8, <1>9, <1>10, <1>11 DEF HarvestNext

LEMMA TypeInd == TypeOK /\ IInv /\ IInv' /\ [Next]_vars => TypeOK'
<1> SUFFICES ASSUME TypeOK, IInv, IInv', [Next]_vars PROVE TypeOK'
  OBVIOUS
<1> USE RunsAssumption DEF RunsAssumption
<1>1. (lock'.pc # "off") <=> (instance' = "lock")
  BY DEF IInv, Holders
<1>2. CASE LockNext
  <2>1. CASE LockStandDown
    BY <2>1 DEF LockStandDown, TypeOK
  <2>2. CASE ~LockStandDown
    <3>1. LockKeeps
      BY <1>2, <2>2, LockLoadsTyped, LockSavesTyped DEF LockNext
    <3>2. /\ UNCHANGED <<today, solved, harvestLock, harv, sync, published>>
          /\ instance' \in {instance, "lock", "none"}
      BY <1>2, <2>2 DEF LockNext, LockStart, LockDefer, LockLoad, LockDecide, LockProbe,
           LockArm, LockSeed, PollFetch, PollFold, PollDecide, Settle, LockClose,
           LockSynced, Merge, LockCrash, LockExit
    <3> QED
      BY <1>1, <3>1, <3>2 DEF TypeOK, LockKeeps, LockTyped
  <2> QED
    BY <2>1, <2>2
<1>3. ASSUME NEW h \in Harvesters, HarvestNext(h) PROVE TypeOK'
  <2>1. IsLedger(disk') /\ HarvTyped(harv'[h])
    BY <1>3, HarvTypedInd
  <2>2. /\ UNCHANGED <<today, solved, lock, sync, published>>
        /\ instance' \in {instance, h, "none"} /\ harvestLock' \in {harvestLock, h, "none"}
        /\ causes' \subseteq causes \cup {"sync"}
    BY <1>3 DEF HarvestNext, HarvestStart, Peek, Unpeek, HarvestFetch, HarvestUnanswered,
       HarvestLoad, HarvestCommit, HarvestSettle, HarvestCrash, HarvExit
  <2>3. \A g \in Harvesters \ {h} : harv'[g] = harv[g]
    BY <1>3 DEF HarvestNext, HarvestStart, Peek, Unpeek, HarvestFetch, HarvestUnanswered,
       HarvestLoad, HarvestCommit, HarvestSettle, HarvestCrash, HarvExit, IInv, Fields
  <2>4. \A g \in Harvesters : HarvTyped(harv'[g])
    BY <2>1, <2>3 DEF TypeOK, HarvTyped
  <2> QED
    BY <1>1, <2>1, <2>2, <2>4 DEF TypeOK, HarvTyped
<1>4. CASE SyncStart
  <2>1. PICK copy \in {disk, {}} : sync' = [pc |-> "syncing", mem |-> copy]
    BY <1>4 DEF SyncStart
  <2>2. IsLedger(sync'.mem)
    BY <2>1, EmptyIsLedger DEF TypeOK
  <2> QED
    BY <1>1, <1>4, <2>2 DEF SyncStart, TypeOK
<1>5. CASE SyncMerge
  <2>2. IsLedger(disk') /\ published' = published
    BY <1>5, MergeIsLedger DEF SyncMerge, Merge, TypeOK
  <2>3. IsLedger(sync'.mem)
    BY <1>5, OffTyped DEF SyncMerge
  <2> QED
    BY <1>1, <1>5, <2>2, <2>3 DEF SyncMerge, TypeOK
<1>6. CASE Solve \/ Midnight
  <2>1. solved' \subseteq Subs
    BY <1>6 DEF Solve, Midnight, TypeOK
  <2>2. today' \in Days
    BY <1>6, CalendarAssumption DEF CalendarAssumption, Solve, Midnight, TypeOK, Days
  <2>3. UNCHANGED <<disk, instance, harvestLock, lock, harv, sync, published, causes>>
    BY <1>6 DEF Solve, Midnight
  <2> QED
    BY <2>1, <2>2, <2>3 DEF TypeOK
<1>7. CASE PeerPicksUp
  <2>1. published' \in {published \cup lock.mem, published \cup sync.mem}
    BY <1>7 DEF PeerPicksUp
  <2>2. \A e \in published' : IsEntry(e)
    BY <2>1 DEF TypeOK, IsLedger
  <2> QED
    BY <1>7, <2>2 DEF PeerPicksUp, TypeOK
<1>8. CASE UNCHANGED vars
  BY <1>8 DEF vars, TypeOK
<1> QED
  BY <1>2, <1>3, <1>4, <1>5, <1>6, <1>7, <1>8 DEF Next

LEMMA InitTyped == Init => TypeOK
<1> SUFFICES ASSUME Init PROVE TypeOK
  OBVIOUS
<1>1. IsLedger({BootstrapEntry(0, TRUE)})
  <2>1. 0 \in Days
    BY CalendarAssumption DEF CalendarAssumption, Days
  <2>2. IsEntry(BootstrapEntry(0, TRUE))
    BY <2>1, WorldAssumption DEF WorldAssumption, IsEntry, BootstrapEntry
  <2> QED
    BY <2>2 DEF IsLedger
<1>2. (lock.pc # "off") <=> (instance = "lock")
  BY DEF Init, LockOff
<1> QED
  BY <1>1, <1>2, OffTyped, CalendarAssumption
     DEF CalendarAssumption, Init, TypeOK, LockTyped, HarvTyped, Days

(* Type correctness: every copy of the ledger, open in a process or on      *)
(* disk, is well formed and holds one entry per id, however the processes   *)
(* overlap (append, load_ledger, save_ledger, decide, settle_day).          *)
THEOREM TypeCorrect == Spec => []TypeOK
<1>1. TypeOK /\ IInv /\ [Next]_vars => TypeOK' /\ IInv'
  BY StepInd, TypeInd
<1> QED
  BY InitInd, InitTyped, <1>1, PTL DEF Spec

-----------------------------------------------------------------------------
(* How any step may touch the file, the faults and what was let through.    *)
Faults == {"crash", "save", "misread", "defer", "start"}

FileKept == UNCHANGED <<disk, ever>> \/ ever' = ever \cup disk'
BudgetKept == budget' = budget \/ \E what \in Faults : Spend(what)
LetsThrough ==
  \/ through' = through
  \/ \E L, day : LET charge == ChargeFor(L, day) IN
       /\ through' = through \cup {e.day : e \in charge}
       /\ IF charge = {} THEN NoSave ELSE Save(L \cup charge)
StepShape == FileKept /\ BudgetKept /\ LetsThrough /\ causes \subseteq causes'

LEMMA SaveShape ==
  ASSUME NEW copy, Save(copy) \/ NoSave
  PROVE  FileKept /\ BudgetKept
BY DEF Save, NoSave, FileKept, BudgetKept, Faults

LEMMA LoadShape ==
  ASSUME NEW copy, NEW misread, Load(copy, misread)
  PROVE  BudgetKept
BY DEF Load, BudgetKept, Faults

LEMMA LockShape == LockNext => StepShape
<1> SUFFICES ASSUME LockNext PROVE StepShape
  OBVIOUS
<1> USE DEF StepShape
<1>1. causes \subseteq causes'
  BY DEF LockNext, LockStart, LockStandDown, LockDefer, LockLoad, LockDecide, LockProbe,
     LockArm, LockSeed, PollFetch, PollFold, PollDecide, Settle, LockClose, LockSynced, LockCrash
<1>2. CASE LockStart \/ LockStandDown \/ LockDefer \/ LockCrash \/ PollFetch
  BY <1>1, <1>2 DEF LockStart, LockStandDown, LockDefer, LockCrash, PollFetch, FileKept,
     BudgetKept, LetsThrough, Faults
<1>3. CASE LockLoad \/ LockArm \/ LockClose
  <2>1. \E copy, misread : Load(copy, misread)
    BY <1>3 DEF LockLoad, LockArm, LockClose
  <2>2. UNCHANGED <<disk, ever, through>>
    BY <1>3 DEF LockLoad, LockArm, LockClose
  <2> QED
    BY <1>1, <2>1, <2>2, LoadShape DEF FileKept, LetsThrough
<1>4. CASE LockProbe \/ LockSeed \/ PollFold \/ Settle \/ LockSynced
  <2>1. (\E copy : Save(copy)) \/ NoSave
    BY <1>4 DEF LockProbe, LockSeed, PollFold, Settle, LockSynced, Merge
  <2>2. through' = through
    BY <1>4 DEF LockProbe, LockSeed, PollFold, Settle, LockSynced
  <2> QED
    BY <1>1, <2>1, <2>2, SaveShape DEF LetsThrough
<1>5. CASE LockDecide
  <2>1. (\E copy : Save(copy)) \/ NoSave
    BY <1>5 DEF LockDecide
  <2>2. LetsThrough
    BY <1>5 DEF LockDecide, LetsThrough
  <2> QED
    BY <1>1, <2>1, <2>2, SaveShape
<1>6. CASE PollDecide
  <2>1. (\E copy : Save(copy)) \/ NoSave
    BY <1>6 DEF PollDecide
  <2>2. LetsThrough
    BY <1>6 DEF PollDecide, LetsThrough
  <2> QED
    BY <1>1, <2>1, <2>2, SaveShape
<1> QED
  BY <1>2, <1>3, <1>4, <1>5, <1>6 DEF LockNext

LEMMA HarvShape ==
  ASSUME NEW h \in Harvesters, HarvestNext(h)
  PROVE  StepShape
<1> USE DEF StepShape
<1>1. causes \subseteq causes'
  BY DEF HarvestNext, HarvestStart, Peek, Unpeek, HarvestFetch, HarvestUnanswered,
     HarvestLoad, HarvestCommit, HarvestSettle, HarvestCrash
<1>2. CASE HarvestStart(h) \/ Peek(h) \/ Unpeek(h) \/ HarvestFetch(h) \/ HarvestUnanswered(h)
             \/ HarvestCrash(h)
  BY <1>1, <1>2 DEF HarvestStart, Peek, Unpeek, HarvestFetch, HarvestUnanswered, HarvestCrash,
     FileKept, BudgetKept, LetsThrough, Faults
<1>3. CASE HarvestLoad(h)
  <2>1. \E copy, misread : Load(copy, misread)
    BY <1>3 DEF HarvestLoad
  <2>2. UNCHANGED <<disk, ever, through>>
    BY <1>3 DEF HarvestLoad
  <2> QED
    BY <1>1, <2>1, <2>2, LoadShape DEF FileKept, LetsThrough
<1>4. CASE HarvestCommit(h)
  <2>1. (\E copy : Save(copy)) \/ NoSave
    BY <1>4 DEF HarvestCommit
  <2>2. through' = through
    BY <1>4 DEF HarvestCommit
  <2> QED
    BY <1>1, <2>1, <2>2, SaveShape DEF LetsThrough
<1>5. CASE HarvestSettle(h)
  <2>1. (\E copy : Save(copy)) \/ NoSave
    BY <1>5 DEF HarvestSettle
  <2>2. LetsThrough
    BY <1>5 DEF HarvestSettle, LetsThrough
  <2> QED
    BY <1>1, <2>1, <2>2, SaveShape
<1> QED
  BY <1>2, <1>3, <1>4, <1>5 DEF HarvestNext

LEMMA OtherShape == Solve \/ Midnight \/ SyncStart \/ SyncMerge \/ PeerPicksUp => StepShape
<1> SUFFICES ASSUME Solve \/ Midnight \/ SyncStart \/ SyncMerge \/ PeerPicksUp
             PROVE  StepShape
  OBVIOUS
<1>1. CASE Solve \/ Midnight \/ PeerPicksUp
  BY <1>1 DEF Solve, Midnight, PeerPicksUp, StepShape, FileKept, BudgetKept, LetsThrough
<1>2. CASE SyncStart
  <2>1. \E copy, misread : Load(copy, misread)
    BY <1>2 DEF SyncStart
  <2>2. UNCHANGED <<disk, ever, through>> /\ causes \subseteq causes'
    BY <1>2 DEF SyncStart
  <2> QED
    BY <2>1, <2>2, LoadShape DEF StepShape, FileKept, LetsThrough
<1>3. CASE SyncMerge
  <2>1. (\E copy : Save(copy)) \/ NoSave
    BY <1>3 DEF SyncMerge, Merge
  <2>2. through' = through /\ causes' = causes
    BY <1>3 DEF SyncMerge
  <2> QED
    BY <2>1, <2>2, SaveShape DEF StepShape, LetsThrough
<1> QED
  BY <1>1, <1>2, <1>3

(* What a peer can send back was on disk once: the pushed copies are        *)
(* loaded ones.  So while nothing is lost, nothing comes back.              *)
BackInv ==
  /\ disk \subseteq ever /\ published \subseteq ever
  /\ lock.pc = "syncing" => lock.mem \subseteq ever
  /\ SyncOpen => sync.mem \subseteq ever
  /\ Quiet => returned \subseteq Cloud

LEMMA MergeBringsNothingBack ==
  ASSUME NEW copy, ever \subseteq copy, published \subseteq ever, Merge(copy)
  PROVE  returned' \subseteq returned \cup Cloud
<1>1. PICK got \in SUBSET (Cloud \cup published) :
        returned' = returned \cup {e \in Append(copy, got) \ copy : PaidHere(e)}
  BY DEF Merge
<1>2. Append(copy, got) \ copy \subseteq Cloud
  BY DEF Append
<1> QED
  BY <1>1, <1>2

LEMMA BackInd == BackInv /\ IInv /\ [Next]_vars => BackInv'
<1> SUFFICES ASSUME BackInv, IInv, [Next]_vars PROVE BackInv'
  OBVIOUS
<1>1. CASE UNCHANGED vars
  BY <1>1 DEF vars, BackInv, SyncOpen, Quiet
<1>2. CASE Next
  <2>1. StepShape
    BY <1>2, LockShape, HarvShape, OtherShape DEF Next
  <2>2. disk' \subseteq ever' /\ ever \subseteq ever' /\ (Quiet' => Quiet)
    <3>1. ever \subseteq ever'
      BY <2>1 DEF StepShape, FileKept
    <3> QED
      BY <2>1, <3>1 DEF StepShape, FileKept, BackInv, Quiet
  <2>3. lock'.pc = "syncing" => lock'.mem \subseteq ever'
    <3>1. CASE LockNext
      <4>1. CASE LockClose
        <5>1. PICK copy \in {disk, {}}, misread \in BOOLEAN :
                lock' = [LockOff EXCEPT !.pc = "syncing", !.mem = copy, !.misread = misread]
          BY <4>1 DEF LockClose
        <5>2. lock'.mem = copy
          BY <5>1 DEF LockOff
        <5> QED
          BY <2>2, <5>2 DEF BackInv
      <4>2. CASE LockStandDown
        BY <2>2, <4>2 DEF LockStandDown, BackInv
      <4>3. CASE ~LockClose /\ ~LockStandDown
        <5>1. DOMAIN lock = {"pc", "day", "mem", "probe", "released", "misread"}
          BY DEF IInv, Fields
        <5>2. ASSUME LockStart \/ LockDefer \/ LockSynced \/ LockCrash
              PROVE  lock'.pc # "syncing"
          <6>1. lock' = [LockOff EXCEPT !.pc = "held", !.day = today] \/ lock' = LockOff
            BY <5>2 DEF LockStart, LockDefer, LockSynced, LockCrash, LockExit
          <6>2. LockOff.pc = "off" /\ [LockOff EXCEPT !.pc = "held", !.day = today].pc = "held"
            BY DEF LockOff
          <6> QED
            BY <6>1, <6>2
        <5>3. ASSUME LockLoad PROVE lock'.pc # "syncing"
          BY <5>1, <5>3 DEF LockLoad
        <5>4. ASSUME LockDecide PROVE lock'.pc # "syncing"
          BY <5>1, <5>4 DEF LockDecide, LockExit, LockOff
        <5>5. ASSUME LockProbe PROVE lock'.pc # "syncing"
          <6>1. \/ lock' = LockOff
                \/ \E answer : lock' = [lock EXCEPT !.pc = "arming", !.mem = {}, !.probe = answer]
            BY <5>5 DEF LockProbe, LockExit
          <6>2. /\ LockOff.pc = "off"
                /\ \A answer :
                     [lock EXCEPT !.pc = "arming", !.mem = {}, !.probe = answer].pc = "arming"
            BY <5>1 DEF LockOff
          <6> QED
            BY <6>1, <6>2
        <5>6. ASSUME LockArm PROVE lock'.pc # "syncing"
          BY <5>1, <5>6 DEF LockArm
        <5>7. ASSUME LockSeed PROVE lock'.pc # "syncing"
          BY <5>1, <5>7 DEF LockSeed
        <5>8. ASSUME PollFetch PROVE lock'.pc # "syncing"
          BY <5>1, <5>8 DEF PollFetch
        <5>9. ASSUME PollFold PROVE lock'.pc # "syncing"
          BY <5>1, <5>9 DEF PollFold
        <5>10. ASSUME PollDecide PROVE lock'.pc # "syncing"
          BY <5>1, <5>10 DEF PollDecide
        <5>11. ASSUME Settle PROVE lock'.pc # "syncing"
          BY <5>1, <5>11 DEF Settle
        <5> QED
          BY <3>1, <4>3, <5>2, <5>3, <5>4, <5>5, <5>6, <5>7, <5>8, <5>9, <5>10, <5>11
             DEF LockNext
      <4> QED
        BY <4>1, <4>2, <4>3
    <3>2. CASE ~LockNext
      <4>1. lock' = lock
        BY <1>2, <3>2 DEF Next, Solve, Midnight, SyncStart, SyncMerge, PeerPicksUp, HarvestNext,
           HarvestStart, Peek, Unpeek, HarvestFetch, HarvestUnanswered, HarvestLoad,
           HarvestCommit, HarvestSettle, HarvestCrash
      <4> QED
        BY <2>2, <4>1 DEF BackInv
    <3> QED
      BY <3>1, <3>2
  <2>4. SyncOpen' => sync'.mem \subseteq ever'
    <3>1. CASE SyncStart
      <4>1. PICK copy \in {disk, {}} : sync' = [pc |-> "syncing", mem |-> copy]
        BY <3>1 DEF SyncStart
      <4> QED
        BY <2>2, <4>1 DEF BackInv
    <3>2. CASE SyncMerge
      BY <3>2 DEF SyncMerge, SyncOff, SyncOpen
    <3>3. CASE ~SyncStart /\ ~SyncMerge
      <4>1. sync' = sync
        BY <1>2, <3>3 DEF Next, Solve, Midnight, PeerPicksUp, LockNext, LockStart, LockStandDown,
           LockDefer, LockLoad, LockDecide, LockProbe, LockArm, LockSeed, PollFetch, PollFold,
           PollDecide, Settle, LockClose, LockSynced, LockCrash, HarvestNext,
           HarvestStart, Peek, Unpeek, HarvestFetch, HarvestUnanswered, HarvestLoad,
           HarvestCommit, HarvestSettle, HarvestCrash
      <4> QED
        BY <2>2, <4>1 DEF BackInv, SyncOpen
    <3> QED
      BY <3>1, <3>2, <3>3
  <2>5. published' \subseteq ever' /\ (Quiet' => returned' \subseteq Cloud)
    <3>1. CASE LockSynced
      <4>1. Quiet' => ever \subseteq lock.mem
        BY <2>2, <3>1 DEF LockSynced, LockOpen, IInv, CopiesCover
      <4> QED
        BY <2>2, <3>1, <4>1, MergeBringsNothingBack DEF LockSynced, Merge, BackInv
    <3>2. CASE SyncMerge
      <4>1. Quiet' => ever \subseteq sync.mem
        BY <2>2, <3>2 DEF SyncMerge, SyncOpen, IInv, CopiesCover
      <4> QED
        BY <2>2, <3>2, <4>1, MergeBringsNothingBack DEF SyncMerge, Merge, BackInv
    <3>3. CASE PeerPicksUp
      BY <2>2, <3>3 DEF PeerPicksUp, BackInv
    <3>4. CASE ~LockSynced /\ ~SyncMerge /\ ~PeerPicksUp
      <4>1. UNCHANGED <<published, returned>>
        BY <1>2, <3>4 DEF Next, Solve, Midnight, SyncStart, LockNext, LockStart, LockStandDown,
           LockDefer, LockLoad, LockDecide, LockProbe, LockArm, LockSeed, PollFetch, PollFold,
           PollDecide, Settle, LockClose, LockCrash, HarvestNext,
           HarvestStart, Peek, Unpeek, HarvestFetch, HarvestUnanswered, HarvestLoad,
           HarvestCommit, HarvestSettle, HarvestCrash
      <4> QED
        BY <2>2, <4>1 DEF BackInv
    <3> QED
      BY <3>1, <3>2, <3>3, <3>4
  <2> QED
    BY <2>2, <2>3, <2>4, <2>5 DEF BackInv
<1> QED
  BY <1>1, <1>2

(* What reached ledger.json stays there, and no merge brings back a charge  *)
(* this device has made, unless one of the three named overlaps happened,   *)
(* for any number of harvests, crashes and failed saves (lock_is_up,        *)
(* _instance_lock.acquire, save_ledger, sync_ledger).                       *)
THEOREM NoEntryIsLost == Spec => []LossNeedsOverlap
<1>1. Init => BackInv
  BY DEF Init, BackInv, LockOff, SyncOff, SyncOpen
<1>2. BackInv /\ IInv /\ [Next]_vars => BackInv' /\ IInv'
  BY StepInd, BackInd
<1>3. BackInv /\ IInv => LossNeedsOverlap
  BY DEF BackInv, IInv, LossNeedsOverlap, CopiesCover, Quiet
<1> QED
  BY InitInd, <1>1, <1>2, <1>3, PTL DEF Spec

-----------------------------------------------------------------------------
(* A day that was let through on a charge has the charge on file.  Nothing  *)
(* is lost (LossNeedsOverlap), so it is enough that the charge got there.   *)

PaidInv ==
  /\ disk \subseteq ever
  /\ budget \in [Faults -> Nat] /\ budget.save <= MaxSaveFail
  /\ PaidDayIsOnDiskUnlessRaced

LEMMA ChargeForCharges ==
  ASSUME NEW L, NEW day, NEW e \in ChargeFor(L, day)
  PROVE  e.id = <<"charge", e.day>>
<1>1. \A source, surcharge, key :
        ChargeEntry(day, source, surcharge, key).id
          = <<"charge", ChargeEntry(day, source, surcharge, key).day>>
  BY DEF ChargeEntry
<1> QED
  BY <1>1 DEF ChargeFor, DecideCharge

LEMMA PaidInd == PaidInv /\ IInv /\ IInv' /\ [Next]_vars => PaidInv'
<1> SUFFICES ASSUME PaidInv, IInv, IInv', [Next]_vars PROVE PaidInv'
  OBVIOUS
<1>1. CASE UNCHANGED vars
  BY <1>1 DEF vars, PaidInv, PaidDayIsOnDiskUnlessRaced, PaidDayIsOnDisk, Has
<1>2. CASE Next
  <2>1. StepShape
    BY <1>2, LockShape, HarvShape, OtherShape DEF Next
  <2>2. disk' \subseteq ever'
    BY <2>1 DEF StepShape, FileKept, PaidInv
  <2>3. budget' \in [Faults -> Nat] /\ budget'.save <= budget.save
    BY <2>1 DEF StepShape, BudgetKept, Spend, PaidInv, Faults
  <2>4. budget'.save <= MaxSaveFail
    BY <2>3, RunsAssumption DEF RunsAssumption, PaidInv, Faults
  <2>5. ASSUME causes' = {}, budget'.save = MaxSaveFail, NEW d \in through'
        PROVE  Has(disk', <<"charge", d>>)
    <3>1. causes = {} /\ budget.save = MaxSaveFail
      BY <2>1, <2>3, <2>5, RunsAssumption DEF StepShape, RunsAssumption, PaidInv, Faults
    <3>2. disk \subseteq disk'
      BY <2>1, <2>5 DEF StepShape, FileKept, PaidInv, IInv, Quiet, CopiesCover
    <3>3. CASE d \in through
      BY <3>1, <3>2, <3>3 DEF PaidInv, PaidDayIsOnDiskUnlessRaced, PaidDayIsOnDisk, Has
    <3>4. CASE d \notin through
      <4>1. PICK L, day :
              /\ through' = through \cup {e.day : e \in ChargeFor(L, day)}
              /\ IF ChargeFor(L, day) = {} THEN NoSave ELSE Save(L \cup ChargeFor(L, day))
        BY <2>1, <2>5, <3>4 DEF StepShape, LetsThrough
      <4>2. PICK e \in ChargeFor(L, day) : e.day = d
        BY <2>5, <3>4, <4>1
      <4>3. ~Spend("save")
        BY <2>5, <3>1, RunsAssumption DEF RunsAssumption, Spend, PaidInv, Faults
      <4>4. disk' = L \cup ChargeFor(L, day)
        BY <4>1, <4>2, <4>3 DEF Save
      <4> QED
        BY <4>2, <4>4, ChargeForCharges DEF Has
    <3> QED
      BY <3>3, <3>4
  <2> QED
    BY <2>2, <2>3, <2>4, <2>5 DEF PaidInv, PaidDayIsOnDiskUnlessRaced, PaidDayIsOnDisk
<1> QED
  BY <1>1, <1>2

(* "A day paid from banked credit is only settled once the charge is on     *)
(* disk": in every behaviour without an overlap and without a failed save,  *)
(* for any number of harvests and crashes (_run_lock, apply_decision,       *)
(* _on_poll_result, _harvest_once).                                         *)
THEOREM PaidDaysAreOnDisk == Spec => []PaidDayIsOnDiskUnlessRaced
<1>1. Init => PaidInv
  BY RunsAssumption
     DEF RunsAssumption, Init, PaidInv, PaidDayIsOnDiskUnlessRaced, PaidDayIsOnDisk, Faults
<1>2. PaidInv /\ IInv /\ [Next]_vars => PaidInv' /\ IInv'
  BY StepInd, PaidInd
<1>3. PaidInv => PaidDayIsOnDiskUnlessRaced
  BY DEF PaidInv
<1> QED
  BY InitInd, <1>1, <1>2, <1>3, PTL DEF Spec

-----------------------------------------------------------------------------
(* Solvency.  Every copy of the ledger, in a process or on disk, is paid    *)
(* for by the solves in that very copy: processes read and write whole      *)
(* copies, so no overlap can part a charge from the credit that paid it;    *)
(* only a merge can bring in a charge that nothing in the copy pays for.    *)
Excused(e, R) == e.source \in ForgivenSources \/ e.device # ThisDevice \/ e \in R
ExcusedIn(L, R) == {e \in L : Excused(e, R)}
Sound(L, R) ==
  FiniteLedger(L) /\ UnitCredits(L) /\ Worth(L) + Charged(ExcusedIn(L, R)) >= Charged(L)

FiniteFeeds ==
  /\ IsFiniteSet(solved) /\ IsFiniteSet(UNION lock.probe)
  /\ \A h \in Harvesters : IsFiniteSet(harv[h].feed)
  /\ IsFiniteSet(published) /\ UnitCredits(published)

SoundCopies ==
  /\ Sound(disk, returned) /\ Sound(lock.mem, returned) /\ Sound(sync.mem, returned)
  /\ \A h \in Harvesters : Sound(harv[h].mem, returned)

SolventInv == TypeOK /\ FiniteFeeds /\ SoundCopies

(* Rows that are no charge, or one that is forgiven or another device's,    *)
(* leave a copy sound.                                                      *)
LEMMA GrowingIsSound ==
  ASSUME NEW R, NEW L, Sound(L, R), NEW N, FiniteLedger(L \cup N), Apart(L, N),
         \A e \in N : /\ e.kind = "credit" => e.amount = 1
                      /\ e.kind = "charge" => Excused(e, R)
  PROVE  Sound(L \cup N, R)
<1> DEFINE M == L \cup N
<1>1. UnitCredits(M)
  BY DEF Sound, UnitCredits, OfKind
<1>2. L \in SUBSET M /\ N \in SUBSET M /\ ExcusedIn(N, R) \in SUBSET N
      /\ ExcusedIn(M, R) \in SUBSET M /\ ExcusedIn(L, R) \in SUBSET M
  BY DEF ExcusedIn
<1>3. Charged(M) = Charged(L) + Charged(N)
  BY ChargedJoins
<1>4. Charged(ExcusedIn(M, R)) = Charged(ExcusedIn(L, R)) + Charged(ExcusedIn(N, R))
  <2>1. /\ ExcusedIn(M, R) = ExcusedIn(L, R) \cup ExcusedIn(N, R)
        /\ Apart(ExcusedIn(L, R), ExcusedIn(N, R))
    BY DEF ExcusedIn, Apart
  <2> HIDE DEF M
  <2>2. FiniteLedger(ExcusedIn(M, R))
    BY <1>2, PartIsFinite DEF M
  <2>3. FiniteLedger(ExcusedIn(L, R) \cup ExcusedIn(N, R))
    BY <2>1, <2>2
  <2>4. Charged(ExcusedIn(L, R) \cup ExcusedIn(N, R))
          = Charged(ExcusedIn(L, R)) + Charged(ExcusedIn(N, R))
    BY <2>1, <2>3, ChargedJoins
  <2> QED
    BY <2>1, <2>4
<1>5. Charged(ExcusedIn(N, R)) = Charged(N)
  <2>1. OfKind(ExcusedIn(N, R), "charge") = OfKind(N, "charge")
    BY DEF OfKind, ExcusedIn
  <2> QED
    BY <2>1, ChargedIgnores
<1> HIDE DEF M
<1>6. Worth(L) \in Nat /\ Worth(M) \in Nat /\ Worth(L) <= Worth(M)
  BY <1>2, WorthGrows DEF M
<1>7. Charged(L) \in Nat /\ Charged(N) \in Nat /\ Charged(ExcusedIn(L, R)) \in Nat
  BY <1>2, PartIsFinite, ChargedIsNat DEF M
<1>8. Worth(L) + Charged(ExcusedIn(L, R)) >= Charged(L)
  BY DEF Sound, ExcusedIn, Excused
<1>9. Worth(M) + Charged(ExcusedIn(M, R)) >= Charged(M)
  BY <1>3, <1>4, <1>5, <1>6, <1>7, <1>8
<1> QED
  BY <1>1, <1>9 DEF Sound, ExcusedIn, Excused, M

\* Excusing more keeps a copy sound.
LEMMA MoreExcused ==
  ASSUME NEW R, NEW S, R \subseteq S, NEW L, Sound(L, R)
  PROVE  Sound(L, S)
<1> DEFINE A == ExcusedIn(L, R)
           B == ExcusedIn(L, S) \ A
<1>1. ExcusedIn(L, S) = A \cup B /\ Apart(A, B)
  BY DEF ExcusedIn, Excused, Apart
<1>2. A \in SUBSET L /\ B \in SUBSET L /\ A \cup B \in SUBSET L /\ L \in SUBSET L
  BY DEF ExcusedIn
<1> HIDE DEF A, B
<1>3. FiniteLedger(A \cup B) /\ FiniteLedger(L)
  BY <1>2, PartIsFinite DEF Sound
<1>4. Charged(A \cup B) = Charged(A) + Charged(B)
  BY <1>1, <1>3, ChargedJoins
<1>5. Charged(A) \in Nat /\ Charged(B) \in Nat /\ Charged(L) \in Nat /\ Worth(L) \in Nat
  BY <1>2, <1>3, PartIsFinite, ChargedIsNat, WorthGrows DEF Sound
<1>6. Worth(L) + Charged(A) >= Charged(L)
  BY DEF Sound, A
<1> QED
  BY <1>1, <1>4, <1>5, <1>6 DEF Sound

LEMMA EmptyIsSound ==
  ASSUME NEW R
  PROVE  Sound({}, R)
<1>1. FiniteLedger({}) /\ UnitCredits({})
  BY FS_EmptySet, EmptyIsLedger DEF FiniteLedger, UnitCredits, OfKind
<1>2. ExcusedIn({}, R) = {}
  BY DEF ExcusedIn
<1>3. {} \in SUBSET {}
  OBVIOUS
<1>4. Charged({}) \in Nat /\ Worth({}) \in Nat
  BY <1>1, <1>3, ChargedIsNat, WorthGrows
<1>5. Worth({}) + Charged(ExcusedIn({}, R)) >= Charged({})
  BY <1>2, <1>4
<1> QED
  BY <1>1, <1>5 DEF Sound, ExcusedIn, Excused

\* What a merge or a minting appends, apart from what is there already.
LEMMA AppendIsSound ==
  ASSUME NEW R, NEW L, Sound(L, R), NEW new, FiniteLedger(new),
         \A e \in new : /\ e.kind = "credit" => e.amount = 1
                        /\ e.kind = "charge" => Excused(e, R)
  PROVE  Sound(Append(L, new), R)
<1> DEFINE N == {e \in new : ~Has(L, e.id)}
<1>1. Append(L, new) = L \cup N /\ Apart(L, N) /\ N \subseteq new
  BY DEF Append, Apart, Has
<1>2. IsFiniteSet(Append(L, new))
  BY <1>1, FS_Subset, FS_Union DEF Sound, FiniteLedger
<1>3. FiniteLedger(Append(L, new))
  BY <1>2, AppendIsLedger DEF Sound, FiniteLedger
<1> HIDE DEF N
<1>4. FiniteLedger(L \cup N)
  BY <1>1, <1>3
<1> QED
  BY <1>1, <1>4, GrowingIsSound

LEMMA HarvestIsSound ==
  ASSUME NEW R, NEW L, Sound(L, R), NEW feed, feed \subseteq Subs, IsFiniteSet(feed),
         NEW d \in Days
  PROVE  Sound(Append(L, Fresh(L, feed, d, TRUE)), R)
<1> DEFINE new == Fresh(L, feed, d, TRUE)
<1>1. FiniteLedger(new)
  BY FreshIsLedger, FreshIsFinite DEF FiniteLedger
<1>2. \A e \in new : e.kind = "credit" /\ e.amount = 1
  <2>1. \A s : CreditEntry(s, d, TRUE).kind = "credit" /\ CreditEntry(s, d, TRUE).amount = 1
    BY DEF CreditEntry
  <2> QED
    BY <2>1 DEF Fresh
<1> HIDE DEF new
<1> QED
  BY <1>1, <1>2, AppendIsSound DEF new

LEMMA SeedingIsSound ==
  ASSUME NEW R, NEW L, Sound(L, R), NEW feed, feed \subseteq Subs, IsFiniteSet(feed),
         NEW d \in Days
  PROVE  Sound(Append(L, SeedMarkers(feed, d, TRUE)), R)
<1> DEFINE new == SeedMarkers(feed, d, TRUE)
<1>1. FiniteLedger(new)
  BY SeedMarkersAreLedger, SeedMarkersAreFinite DEF FiniteLedger
<1>2. \A e \in new : e.kind # "credit" /\ e.kind # "charge"
  <2>1. BootstrapEntry(d, TRUE).kind = "bootstrap" /\ \A s : SeenEntry(s, d, TRUE).kind = "seen"
    BY DEF SeenEntry, BootstrapEntry
  <2> QED
    BY <2>1 DEF SeedMarkers
<1> HIDE DEF new
<1> QED
  BY <1>1, <1>2, AppendIsSound DEF new

LEMMA SaveIsSound ==
  ASSUME NEW R, NEW copy, Sound(copy, R), Sound(disk, R), Save(copy) \/ NoSave
  PROVE  Sound(disk', R)
BY DEF Save, NoSave

\* A charge a merge brings in is another device's, forgiven or noted.
LEMMA MergeIsSound ==
  ASSUME NEW copy, Merge(copy), Sound(copy, returned'), Sound(disk, returned'),
         IsFiniteSet(published), UnitCredits(published)
  PROVE  Sound(disk', returned')
<1>1. PICK got \in SUBSET (Cloud \cup published) :
        /\ IsLedger(got)
        /\ Save(Append(copy, got)) \/ NoSave
        /\ returned' = returned \cup {e \in Append(copy, got) \ copy : PaidHere(e)}
  BY DEF Merge
<1> DEFINE N == {e \in got : ~Has(copy, e.id)}
<1>2. Append(copy, got) = copy \cup N /\ Apart(copy, N) /\ N = Append(copy, got) \ copy
  BY DEF Append, Apart, Has
<1>3. FiniteLedger(Append(copy, got))
  <2>1. IsFiniteSet(got)
    BY FS_Union, FS_Subset, RunsAssumption DEF RunsAssumption
  <2>2. IsFiniteSet(copy \cup N) /\ IsLedger(Append(copy, got))
    BY <1>1, <2>1, FS_Union, FS_Subset, AppendIsLedger DEF Sound, FiniteLedger
  <2> QED
    BY <1>2, <2>2 DEF FiniteLedger
<1>4. \A e \in N : e.kind = "credit" => e.amount = 1
  BY <1>1, RunsAssumption DEF RunsAssumption, UnitCredits, OfKind
<1>5. \A e \in N : e.kind = "charge" => Excused(e, returned')
  BY <1>1, <1>2 DEF Excused, PaidHere
<1> HIDE DEF N
<1>6. Sound(copy \cup N, returned')
  BY <1>2, <1>3, <1>4, <1>5, GrowingIsSound
<1> QED
  BY <1>1, <1>2, <1>6, SaveIsSound

(* The charge of a verdict spends what that copy holds (decide).            *)
LEMMA DecidingIsSound ==
  ASSUME NEW R, NEW L, Sound(L, R), NEW d \in Days
  PROVE  Sound(L \cup ChargeFor(L, d), R)
<1> DEFINE yes == TRUE
           s == SurchargeOn(L, yes, d, OffDays(NoPools))
           e == ChargeEntry(d, "leetcode", s, yes)
           M == L \cup {e}
           credits == Credits(L, yes, Slugs)
<1>0. yes \in BOOLEAN
  OBVIOUS
<1>1. CASE DecideState(L, yes, d, NoPools, Slugs) = "charged-now"
  <2> HIDE DEF yes
  <2>1. /\ DecideCharge(L, yes, d, NoPools, Slugs, yes) = {e}
        /\ e \notin L /\ e.kind = "charge" /\ FiniteLedger(L \cup {e})
        /\ Charged(L \cup {e}) <= Credits(L, yes, Slugs)
    BY <1>0, <1>1, ChargedNowIsAfforded DEF Sound
  <2> HIDE DEF e, s
  <2>2. UnitCredits(M) /\ OfKind(M, "credit") = OfKind(L, "credit")
    BY <2>1 DEF Sound, UnitCredits, OfKind
  <2>3. Worth(M) = Worth(L)
    BY <2>2 DEF Worth
  <2>4. credits \in Nat /\ credits <= Worth(L) /\ Charged(M) <= credits
    BY <2>1, CreditsAreWorthIt DEF Sound
  <2> HIDE DEF credits
  <2>5. Worth(L) \in Nat
    <3>1. L \in SUBSET L
      OBVIOUS
    <3> QED
      BY <3>1, WorthGrows DEF Sound
  <2>6. Charged(M) \in Nat /\ Charged(ExcusedIn(M, R)) \in Nat
    <3>1. ExcusedIn(M, R) \in SUBSET M /\ M \in SUBSET M
      BY DEF ExcusedIn
    <3> HIDE DEF M
    <3> QED
      BY <2>1, <3>1, PartIsFinite, ChargedIsNat DEF M
  <2>7. Worth(M) + Charged(ExcusedIn(M, R)) >= Charged(M)
    <3> HIDE DEF M
    <3> QED
      BY <2>3, <2>4, <2>5, <2>6
  <2> QED
    BY <2>1, <2>2, <2>7 DEF Sound, ExcusedIn, Excused, ChargeFor, yes
<1>2. CASE DecideState(L, yes, d, NoPools, Slugs) # "charged-now"
  BY <1>2 DEF ChargeFor, DecideCharge
<1> QED
  BY <1>1, <1>2

LEMMA SettlingIsSound ==
  ASSUME NEW R, NEW L, Sound(L, R), NEW d \in Days
  PROVE  Sound(L \cup SettleEntries(L, d, "escape", TRUE), R)
<1> DEFINE yes == TRUE
           e == ChargeEntry(d, "escape", 0, yes)
<1>0. yes \in BOOLEAN
  OBVIOUS
<1> HIDE DEF yes
<1>1. \/ SettleEntries(L, d, "escape", yes) = {}
      \/ /\ SettleEntries(L, d, "escape", yes) = {e}
         /\ e \notin L /\ e.kind = "charge" /\ FiniteLedger(L \cup {e})
         /\ e.amount = DayCost(d) /\ e.source = "escape"
  BY <1>0, SettledIsThePrice DEF Sound
<1> HIDE DEF e
<1>2. CASE SettleEntries(L, d, "escape", yes) = {}
  BY <1>2 DEF yes
<1>3. CASE /\ SettleEntries(L, d, "escape", yes) = {e}
           /\ e \notin L /\ e.kind = "charge" /\ FiniteLedger(L \cup {e})
           /\ e.amount = DayCost(d) /\ e.source = "escape"
  <2>1. Apart(L, {e}) /\ Excused(e, R)
    BY <1>3 DEF Apart, Excused, ForgivenSources
  <2>2. Sound(L \cup {e}, R)
    BY <1>3, <2>1, GrowingIsSound
  <2> QED
    BY <1>3, <2>2 DEF yes
<1> QED
  BY <1>1, <1>2, <1>3

LockSound(l, R) == Sound(l.mem, R) /\ IsFiniteSet(UNION l.probe)
HarvSound(r, R) == Sound(r.mem, R) /\ IsFiniteSet(r.feed)

LEMMA OffSound ==
  ASSUME NEW R
  PROVE  LockSound(LockOff, R) /\ HarvSound(HarvOff, R) /\ Sound(SyncOff.mem, R)
<1>1. UNION {} = {}
  OBVIOUS
<1> QED
  BY <1>1, EmptyIsSound, FS_EmptySet DEF LockSound, HarvSound, LockOff, HarvOff, SyncOff

LEMMA ReturnedGrows == [Next]_vars => returned \subseteq returned'
BY DEF vars, Next, Solve, Midnight, SyncStart, SyncMerge, PeerPicksUp, LockNext, LockStart,
   LockStandDown, LockDefer, LockLoad, LockDecide, LockProbe, LockArm, LockSeed, PollFetch,
   PollFold, PollDecide, Settle, LockClose, LockSynced, LockCrash, Merge, HarvestNext,
   HarvestStart, Peek, Unpeek, HarvestFetch, HarvestUnanswered, HarvestLoad,
   HarvestCommit, HarvestSettle, HarvestCrash

\* What was sound before a step is so by what is excused after it.
LEMMA StillSound ==
  ASSUME SolventInv, [Next]_vars
  PROVE  /\ Sound(disk, returned') /\ Sound(lock.mem, returned') /\ Sound(sync.mem, returned')
         /\ \A h \in Harvesters : Sound(harv[h].mem, returned')
<1>1. returned \subseteq returned'
  BY ReturnedGrows
<1>2. ASSUME NEW L, Sound(L, returned) PROVE Sound(L, returned')
  BY <1>1, <1>2, MoreExcused
<1> QED
  BY <1>2 DEF SolventInv, SoundCopies

LEMMA LockLoadsSound ==
  ASSUME SolventInv, IInv, [Next]_vars, LockStart \/ LockLoad \/ LockArm \/ LockClose
  PROVE  Sound(disk', returned') /\ LockSound(lock', returned')
<1> USE DEF LockSound
<1>1. Sound(disk', returned') /\ LockSound(lock, returned')
  BY StillSound DEF SolventInv, FiniteFeeds, LockSound, LockStart, LockLoad, LockArm, LockClose
<1>2. ASSUME NEW copy \in {disk, {}} PROVE Sound(copy, returned')
  BY <1>2, StillSound, EmptyIsSound
<1>3. IsFiniteSet(UNION {})
  BY OffSound DEF LockOff
<1>4. CASE LockStart
  <2>1. lock'.mem = {} /\ lock'.probe = {}
    BY <1>4 DEF LockStart, LockOff
  <2> QED
    BY <1>1, <1>3, <2>1, EmptyIsSound
<1>5. CASE LockLoad
  <2>1. PICK copy \in {disk, {}}, misread \in BOOLEAN :
          lock' = [lock EXCEPT !.pc = "deciding", !.mem = copy, !.misread = misread]
    BY <1>5 DEF LockLoad
  <2>2. lock'.mem = copy /\ lock'.probe = lock.probe
    BY <2>1 DEF IInv, Fields
  <2> QED
    BY <1>1, <1>2, <2>2
<1>6. CASE LockArm
  <2>1. PICK copy \in {disk, {}}, misread \in BOOLEAN :
          lock' = IF NeedsSeeding(copy) /\ lock.probe # {}
                  THEN [lock EXCEPT !.pc = "seeding", !.mem = copy, !.misread = misread]
                  ELSE [lock EXCEPT !.pc = "armed", !.mem = copy, !.misread = misread,
                                    !.probe = {}]
    BY <1>6 DEF LockArm
  <2>2. lock'.mem = copy /\ lock'.probe \in {lock.probe, {}}
    BY <2>1 DEF IInv, Fields
  <2> QED
    BY <1>1, <1>2, <1>3, <2>2
<1>7. CASE LockClose
  <2>1. PICK copy \in {disk, {}}, misread \in BOOLEAN :
          lock' = [LockOff EXCEPT !.pc = "syncing", !.mem = copy, !.misread = misread]
    BY <1>7 DEF LockClose
  <2>2. lock'.mem = copy /\ lock'.probe = {}
    BY <2>1 DEF LockOff
  <2> QED
    BY <1>1, <1>2, <1>3, <2>2
<1> QED
  BY <1>4, <1>5, <1>6, <1>7

LEMMA LockSavesSound ==
  ASSUME SolventInv, IInv, [Next]_vars,
         LockDecide \/ LockProbe \/ LockSeed \/ PollFetch \/ PollFold \/ PollDecide \/ Settle
           \/ LockDefer \/ LockSynced \/ LockCrash
  PROVE  Sound(disk', returned') /\ LockSound(lock', returned')
<1>1. /\ Sound(disk, returned') /\ Sound(lock.mem, returned') /\ IsFiniteSet(UNION lock.probe)
      /\ UNION lock.probe \subseteq Subs /\ lock.day \in Days /\ today \in Days
      /\ Feed \subseteq Subs /\ IsFiniteSet(Feed)
  BY StillSound DEF SolventInv, FiniteFeeds, TypeOK, Feed
<1>2. DOMAIN lock = {"pc", "day", "mem", "probe", "released", "misread"}
  BY DEF IInv, Fields
<1>3. ASSUME NEW mem, Sound(mem, returned'), lock'.mem = mem, lock'.probe \in {lock.probe, {}},
             Save(mem) \/ NoSave
      PROVE  Sound(disk', returned') /\ LockSound(lock', returned')
  <2>1. IsFiniteSet(UNION {})
    BY OffSound DEF LockSound, LockOff
  <2> QED
    BY <1>1, <1>3, <2>1, SaveIsSound DEF LockSound
<1>4. CASE LockDecide
  <2>1. Sound(lock.mem \cup ChargeFor(lock.mem, lock.day), returned')
    BY <1>1, DecidingIsSound
  <2>2. Sound(disk', returned')
    BY <1>1, <1>4, <2>1, SaveIsSound DEF LockDecide
  <2>3. lock' = LockOff \/ (lock'.mem = lock.mem /\ lock'.probe = lock.probe)
    BY <1>2, <1>4 DEF LockDecide, LockExit
  <2> QED
    BY <1>1, <2>2, <2>3, OffSound DEF LockSound
<1>5. CASE LockProbe
  <2>1. PICK answer \in {{}, {Feed}} :
          IF NeedsSeeding(lock.mem) /\ answer # {}
          THEN Save(Append(lock.mem, SeedMarkers(Feed, lock.day, TRUE))) /\ LockExit
          ELSE /\ lock' = [lock EXCEPT !.pc = "arming", !.mem = {}, !.probe = answer]
               /\ NoSave /\ UNCHANGED instance
    BY <1>5 DEF LockProbe
  <2>2. Sound(Append(lock.mem, SeedMarkers(Feed, lock.day, TRUE)), returned')
    BY <1>1, SeedingIsSound
  <2>3. Sound(disk', returned')
    BY <1>1, <2>1, <2>2, SaveIsSound
  <2>4. lock' = LockOff \/ (lock'.mem = {} /\ lock'.probe = answer)
    BY <1>2, <2>1 DEF LockExit
  <2>5. IsFiniteSet(UNION answer)
    <3>1. UNION answer = {} \/ UNION answer = Feed
      BY <2>1
    <3> QED
      BY <1>1, <3>1, FS_EmptySet
  <2> QED
    BY <2>3, <2>4, <2>5, OffSound, EmptyIsSound DEF LockSound
<1>6. CASE LockSeed
  <2> DEFINE mem == Append(lock.mem, SeedMarkers(UNION lock.probe, today, TRUE))
  <2>1. Sound(mem, returned')
    BY <1>1, SeedingIsSound
  <2>2. lock'.mem = mem /\ lock'.probe = {} /\ Save(mem)
    BY <1>2, <1>6 DEF LockSeed
  <2> HIDE DEF mem
  <2> QED
    BY <1>3, <2>1, <2>2
<1>7. CASE PollFetch
  <2>1. lock'.mem = lock.mem /\ UNION lock'.probe = Feed /\ disk' = disk
    BY <1>2, <1>7 DEF PollFetch
  <2> QED
    BY <1>1, <2>1 DEF LockSound
<1>8. CASE PollFold
  <2> DEFINE mem == Append(lock.mem, Fresh(lock.mem, UNION lock.probe, today, TRUE))
  <2>1. Sound(mem, returned')
    BY <1>1, HarvestIsSound
  <2>2. lock'.mem = mem /\ lock'.probe = {} /\ (Save(mem) \/ NoSave)
    BY <1>2, <1>8 DEF PollFold
  <2> HIDE DEF mem
  <2> QED
    BY <1>3, <2>1, <2>2
<1>9. CASE PollDecide
  <2> DEFINE mem == lock.mem \cup ChargeFor(lock.mem, today)
  <2>1. Sound(mem, returned')
    BY <1>1, DecidingIsSound
  <2>2. lock'.mem = mem /\ lock'.probe = lock.probe /\ (Save(mem) \/ NoSave)
    BY <1>2, <1>9 DEF PollDecide
  <2> HIDE DEF mem
  <2> QED
    BY <1>3, <2>1, <2>2
<1>10. CASE Settle
  <2> DEFINE mem == lock.mem \cup SettleEntries(lock.mem, today, "escape", TRUE)
  <2>1. Sound(mem, returned')
    BY <1>1, SettlingIsSound
  <2>2. lock'.mem = mem /\ lock'.probe = lock.probe /\ (Save(mem) \/ NoSave)
    BY <1>2, <1>10 DEF Settle
  <2> HIDE DEF mem
  <2> QED
    BY <1>3, <2>1, <2>2
<1>11. CASE LockSynced
  <2>1. Sound(disk', returned')
    BY <1>1, <1>11, MergeIsSound DEF LockSynced, SolventInv, FiniteFeeds
  <2> QED
    BY <1>11, <2>1, OffSound DEF LockSynced, LockExit
<1>12. CASE LockDefer \/ LockCrash
  BY <1>1, <1>12, OffSound DEF LockDefer, LockCrash, LockExit
<1> QED
  BY <1>4, <1>5, <1>6, <1>7, <1>8, <1>9, <1>10, <1>11, <1>12

LEMMA HarvestsSound ==
  ASSUME SolventInv, IInv, [Next]_vars, NEW h \in Harvesters, HarvestNext(h)
  PROVE  Sound(disk', returned') /\ HarvSound(harv'[h], returned')
<1> USE DEF HarvSound
<1>1. /\ Sound(disk, returned') /\ HarvSound(harv[h], returned') /\ IsFiniteSet(Feed)
      /\ harv[h].feed \subseteq Subs /\ harv[h].day \in Days
  BY StillSound DEF SolventInv, FiniteFeeds, TypeOK, Feed
<1>2. DOMAIN harv = Harvesters /\ DOMAIN harv[h] = {"pc", "day", "feed", "mem"}
  BY DEF IInv, Fields
<1>3. ASSUME harv'[h] = HarvOff PROVE HarvSound(harv'[h], returned')
  BY <1>3, OffSound
<1>4. CASE HarvestStart(h) \/ Peek(h) \/ Unpeek(h)
  <2>1. disk' = disk
    BY <1>4 DEF HarvestStart, Peek, Unpeek
  <2>2. \/ harv'[h] = HarvOff
        \/ harv'[h].mem = harv[h].mem /\ harv'[h].feed = harv[h].feed
    BY <1>2, <1>4 DEF HarvestStart, Peek, Unpeek, HarvExit
  <2> QED
    BY <1>1, <1>3, <2>1, <2>2
<1>5. CASE HarvestFetch(h)
  <2>1. harv'[h].mem = harv[h].mem /\ harv'[h].feed = Feed /\ disk' = disk
    BY <1>2, <1>5 DEF HarvestFetch
  <2> QED
    BY <1>1, <2>1
<1>6. CASE HarvestUnanswered(h) \/ HarvestCrash(h)
  BY <1>1, <1>2, <1>3, <1>6 DEF HarvestUnanswered, HarvestCrash, HarvExit
<1>7. CASE HarvestLoad(h)
  <2>1. PICK copy \in {disk, {}} :
          \/ HarvExit(h)
          \/ harv' = [harv EXCEPT ![h].pc = "loaded", ![h].mem = copy]
    BY <1>7 DEF HarvestLoad
  <2>2. \/ harv'[h] = HarvOff
        \/ harv'[h].mem = copy /\ harv'[h].feed = harv[h].feed
    BY <1>2, <2>1 DEF HarvExit
  <2>3. Sound(copy, returned') /\ disk' = disk
    BY <1>1, <1>7, EmptyIsSound DEF HarvestLoad
  <2> QED
    BY <1>1, <1>3, <2>2, <2>3
<1>8. CASE HarvestCommit(h)
  <2> DEFINE mem == Append(harv[h].mem, Fresh(harv[h].mem, harv[h].feed, harv[h].day, TRUE))
  <2>1. Sound(mem, returned')
    BY <1>1, HarvestIsSound
  <2>2. harv'[h] = HarvOff \/ (harv'[h].mem = mem /\ harv'[h].feed = harv[h].feed)
    <3>1. \/ harv' = [harv EXCEPT ![h] = HarvOff]
          \/ harv' = [harv EXCEPT ![h].pc = "committed", ![h].mem = mem]
      BY <1>8 DEF HarvestCommit, HarvExit
    <3> HIDE DEF mem
    <3> QED
      BY <1>2, <3>1
  <2>3. Save(mem) \/ NoSave
    BY <1>8 DEF HarvestCommit
  <2> HIDE DEF mem
  <2> QED
    BY <1>1, <1>3, <2>1, <2>2, <2>3, SaveIsSound
<1>9. CASE HarvestSettle(h)
  <2>1. Sound(harv[h].mem \cup ChargeFor(harv[h].mem, harv[h].day), returned')
    BY <1>1, DecidingIsSound
  <2>2. Sound(disk', returned')
    BY <1>1, <1>9, <2>1, SaveIsSound DEF HarvestSettle
  <2> QED
    BY <1>2, <1>3, <1>9, <2>2 DEF HarvestSettle, HarvExit
<1> QED
  BY <1>4, <1>5, <1>6, <1>7, <1>8, <1>9 DEF HarvestNext

LEMMA SolventStep == SolventInv /\ IInv /\ IInv' /\ [Next]_vars => SolventInv'
<1> SUFFICES ASSUME SolventInv, IInv, IInv', [Next]_vars PROVE SolventInv'
  OBVIOUS
<1> USE DEF LockSound, HarvSound
<1>1. TypeOK'
  BY TypeInd DEF SolventInv
<1>2. CASE LockNext
  <2>1. UNCHANGED <<solved, harv, sync, published>>
    BY <1>2 DEF LockNext, LockStart, LockStandDown, LockDefer, LockLoad, LockDecide, LockProbe,
         LockArm, LockSeed, PollFetch, PollFold, PollDecide, Settle, LockClose,
         LockSynced, Merge, LockCrash
  <2>2. Sound(disk', returned') /\ LockSound(lock', returned')
    <3>1. CASE LockStandDown
      BY <3>1, StillSound DEF LockStandDown, SolventInv, FiniteFeeds
    <3> QED
      BY <1>2, <3>1, LockLoadsSound, LockSavesSound DEF LockNext
  <2> QED
    BY <1>1, <2>1, <2>2, StillSound DEF SolventInv, SoundCopies, FiniteFeeds
<1>3. ASSUME NEW h \in Harvesters, HarvestNext(h) PROVE SolventInv'
  <2>1. Sound(disk', returned') /\ HarvSound(harv'[h], returned')
    BY <1>3, HarvestsSound
  <2>2. UNCHANGED <<solved, lock, sync, published>>
    BY <1>3 DEF HarvestNext, HarvestStart, Peek, Unpeek, HarvestFetch, HarvestUnanswered,
       HarvestLoad, HarvestCommit, HarvestSettle, HarvestCrash
  <2>3. \A g \in Harvesters \ {h} : harv'[g] = harv[g]
    BY <1>3 DEF HarvestNext, HarvestStart, Peek, Unpeek, HarvestFetch, HarvestUnanswered,
       HarvestLoad, HarvestCommit, HarvestSettle, HarvestCrash, HarvExit, IInv, Fields
  <2>4. \A g \in Harvesters : HarvSound(harv'[g], returned')
    BY <2>1, <2>3, StillSound DEF SolventInv, FiniteFeeds
  <2> QED
    BY <1>1, <2>1, <2>2, <2>4, StillSound DEF SolventInv, SoundCopies, FiniteFeeds
<1>4. CASE SyncStart
  <2>1. PICK copy \in {disk, {}} : sync' = [pc |-> "syncing", mem |-> copy]
    BY <1>4 DEF SyncStart
  <2>2. Sound(sync'.mem, returned')
    BY <2>1, EmptyIsSound, StillSound
  <2>3. UNCHANGED <<solved, disk, lock, harv, published>>
    BY <1>4 DEF SyncStart
  <2> QED
    BY <1>1, <2>2, <2>3, StillSound DEF SolventInv, SoundCopies, FiniteFeeds
<1>5. CASE SyncMerge
  <2>1. Sound(disk', returned')
    BY <1>5, StillSound, MergeIsSound DEF SyncMerge, SolventInv, FiniteFeeds
  <2>2. UNCHANGED <<solved, lock, harv, published>> /\ sync' = SyncOff
    BY <1>5 DEF SyncMerge, Merge
  <2> QED
    BY <1>1, <2>1, <2>2, OffSound, StillSound DEF SolventInv, SoundCopies, FiniteFeeds
<1>6. CASE Solve \/ Midnight
  <2>1. IsFiniteSet(solved')
    BY <1>6, FS_AddElement DEF Solve, Midnight, SolventInv, FiniteFeeds
  <2>2. UNCHANGED <<disk, lock, harv, sync, published>>
    BY <1>6 DEF Solve, Midnight
  <2> QED
    BY <1>1, <2>1, <2>2, StillSound DEF SolventInv, SoundCopies, FiniteFeeds
<1>7. CASE PeerPicksUp
  <2>1. PICK mem \in {lock.mem, sync.mem} : published' = published \cup mem
    BY <1>7 DEF PeerPicksUp
  <2>2. IsFiniteSet(mem) /\ UnitCredits(mem)
    BY DEF SolventInv, SoundCopies, Sound, FiniteLedger
  <2>3. IsFiniteSet(published') /\ UnitCredits(published')
    BY <2>1, <2>2, FS_Union DEF SolventInv, FiniteFeeds, UnitCredits, OfKind
  <2>4. UNCHANGED <<solved, disk, lock, harv, sync>>
    BY <1>7 DEF PeerPicksUp
  <2> QED
    BY <1>1, <2>3, <2>4, StillSound DEF SolventInv, SoundCopies, FiniteFeeds
<1>8. CASE UNCHANGED vars
  BY <1>1, <1>8 DEF vars, SolventInv, SoundCopies, FiniteFeeds
<1> QED
  BY <1>2, <1>3, <1>4, <1>5, <1>6, <1>7, <1>8 DEF Next

(* Whatever overlaps, fails, is killed, read as empty or merged in, every   *)
(* file left behind is paid for by the solves in it, but for the charges a  *)
(* merge brought back (save_ledger writes one whole copy, decide spends     *)
(* what that copy holds).  Peers may publish anything they were ever sent.  *)
THEOREM EveryFileIsSolvent == Spec => []Solvent
<1>1. Init => SolventInv
  <2> SUFFICES ASSUME Init PROVE SolventInv
    OBVIOUS
  <2> DEFINE marker == BootstrapEntry(0, TRUE)
  <2>1. Sound({marker}, returned)
    <3>1. 0 \in Days
      BY CalendarAssumption DEF CalendarAssumption, Days
    <3>2. IsEntry(marker) /\ marker.kind = "bootstrap"
      BY <3>1, WorldAssumption DEF WorldAssumption, IsEntry, BootstrapEntry
    <3> HIDE DEF marker
    <3>3. FiniteLedger({} \cup {marker}) /\ Apart({}, {marker})
      <4>1. {} \cup {marker} = {marker} /\ IsLedger({marker})
        BY <3>2 DEF IsLedger
      <4>2. IsFiniteSet({marker})
        BY FS_Singleton
      <4> QED
        BY <4>1, <4>2 DEF FiniteLedger, Apart
    <3>4. Sound({} \cup {marker}, returned)
      BY <3>2, <3>3, EmptyIsSound, GrowingIsSound
    <3> QED
      BY <3>4
  <2>2. /\ disk = {marker} /\ solved = {} /\ lock = LockOff /\ sync = SyncOff
        /\ harv = [h \in Harvesters |-> HarvOff] /\ published = {}
    BY DEF Init
  <2>3. FiniteFeeds /\ SoundCopies
    BY <2>1, <2>2, OffSound, FS_EmptySet 
       DEF UnitCredits, OfKind, FiniteFeeds, SoundCopies, LockSound, HarvSound
  <2> QED
    BY <2>3, InitTyped DEF SolventInv
<1>2. SolventInv /\ IInv /\ [Next]_vars => SolventInv' /\ IInv'
  BY StepInd, SolventStep
<1>3. SolventInv => Solvent
  BY DEF SolventInv, SoundCopies, Sound, ExcusedIn, Excused, PaidFor, Solvent
<1> QED
  BY InitInd, <1>1, <1>2, <1>3, PTL DEF Spec

=============================================================================
