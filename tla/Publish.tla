------------------------------- MODULE Publish -------------------------------
(***************************************************************************)
(* The status snapshot on its way to the phone, and the phone's errors on  *)
(* their way back.  The timer's harvest pushes every minute; every save of *)
(* the production ledger also spawns a push of its own, which waits for    *)
(* nobody.  Content is a version number; a push may fail, or be killed, at *)
(* any of its writes, and a write may land although its reply does not.    *)
(***************************************************************************)
EXTENDS Integers, FiniteSets

CONSTANTS
  Detached,   \* pushes a save can have spawned and not yet seen end
  Siblings,   \* apps of the same account with a Firebase session of their own
  Errors,     \* the errors a phone can report (device and first-seen)
  Published,  \* whether version 0 is published already
  MaxChanges, \* bound: the last version of what the snapshot is made of
  MaxFaults,  \* bound: failed writes, replies and readings, kills, revocations
  Repeats     \* whether the sources can return to what they showed before

ASSUME PublishAssumption ==
  /\ MaxChanges \in Nat \ {0} /\ MaxFaults \in Nat
  /\ Published \in BOOLEAN /\ Repeats \in BOOLEAN
  /\ "tick" \notin Detached /\ "own" \notin Siblings

Pushers == {"tick"} \cup Detached
Versions == 0..MaxChanges
None == -1
Before == IF Published THEN 0 ELSE None

VARIABLES
  content, \* the version the sources now show
  pusher,  \* each push: where it is, what it gathered, whether that is news
  local,   \* snapshot.json, the desktop's copy
  node,    \* status, status_hash and heartbeat in the database
  pushed,  \* snapshot_push_state.json
  live,    \* whose Firebase session is live, "own" or a sibling's
  phone,   \* the hash being polled, the hash and the body the app holds
  app,     \* app_errors: which errors the phone reports, or has dropped
  mirror,  \* phone_errors.json, as keys
  news,    \* what the harvest is about to announce
  told,    \* how often each error was announced
  faults,  \* faults left
  raced,   \* history: two pushes were under way at once
  misread, \* history: the mirror could not be read
  unrecorded, \* history: the status that landed last was not recorded as pushed
  crossed  \* history: a phone may have taken a status for the one its poll was of

vars == <<content, pusher, local, node, pushed, live, phone, app, mirror, news,
          told, faults, raced, misread, unrecorded, crossed>>
errorVars == <<app, mirror, news, told, misread>>
lapses == <<unrecorded, crossed>>

\* content_hash: everything but the moment it was generated.
Digest(v) == IF v = None THEN None ELSE IF Repeats THEN v % 2 ELSE v

Fail == faults > 0 /\ faults' = faults - 1
Works == UNCHANGED faults
At(p, step) == pusher[p].pc = step
Goto(p, step) == pusher' = [pusher EXCEPT ![p].pc = step]

Init ==
  /\ content = Before + 1
  /\ pusher = [p \in Pushers |-> [pc |-> "idle", snap |-> None, news |-> FALSE]]
  /\ local = Before /\ node = [status |-> Before, hash |-> Digest(Before), beat |-> Before]
  /\ pushed = Digest(Before) /\ live = {"own"} \cup Siblings
  /\ phone = [poll |-> None, hash |-> None, body |-> None]
  /\ app = [e \in Errors |-> "unseen"] /\ mirror = {} /\ news = {} /\ told = [e \in Errors |-> 0]
  /\ faults = MaxFaults /\ raced = FALSE /\ misread = FALSE
  /\ unrecorded = FALSE /\ crossed = FALSE

-----------------------------------------------------------------------------
(* The sources: save_ledger and everything that is merely read *)

\* Started or not, a push is never waited for.
Start(p) ==
  /\ At(p, "idle") /\ Goto(p, "gather")
  /\ raced' = (raced \/ \E q \in Pushers : ~At(q, "idle"))

\* request_push after a save; a spawn that fails, a date that rolls over and a
\* cache that ages change the content and start nothing.
Change ==
  /\ content < MaxChanges /\ content' = content + 1
  /\ \/ \E p \in Detached : Start(p)
     \/ UNCHANGED <<pusher, raced>>
  /\ UNCHANGED <<local, node, pushed, live, phone, errorVars, faults, lapses>>

\* The timer, every minute, once the last harvest has ended.
Minute ==
  /\ Start("tick")
  /\ UNCHANGED <<content, local, node, pushed, live, phone, errorVars, faults, lapses>>

-----------------------------------------------------------------------------
(* push_quietly *)

\* The harvest goes on to the phone's errors; a detached push is done.
AfterPush(p) == IF p = "tick" THEN "errors" ELSE "idle"

\* gather_snapshot, build_snapshot.
Gather(p) ==
  /\ At(p, "gather")
  /\ pusher' = [pusher EXCEPT ![p] = [pc |-> "local", snap |-> content, news |-> FALSE]]
  /\ UNCHANGED <<content, local, node, pushed, live, phone, errorVars, faults, raced, lapses>>

\* Mutant: the desktop's copy is refreshed by a push that has news.
WriteLocalIfNews(p) ==
  /\ At(p, "local") /\ Goto(p, "compare")
  /\ \/ /\ Works
        /\ local' = IF Digest(pusher[p].snap) # pushed THEN pusher[p].snap ELSE local
     \/ Fail /\ UNCHANGED local
  /\ UNCHANGED <<content, node, pushed, live, phone, errorVars, raced, lapses>>

\* The local copy first, whatever the network does.
WriteLocal(p) ==
  /\ At(p, "local") /\ Goto(p, "compare")
  /\ \/ Works /\ local' = pusher[p].snap
     \/ Fail /\ UNCHANGED local
  /\ UNCHANGED <<content, node, pushed, live, phone, errorVars, raced, lapses>>

\* An unreadable state file forces a full write.
Compare(p) ==
  /\ At(p, "compare")
  /\ \E read \in {pushed, None} :
       /\ IF read # pushed THEN Fail ELSE Works
       /\ pusher' = [pusher EXCEPT ![p].pc = "sign in",
                                   ![p].news = Digest(pusher[p].snap) # read]
  /\ UNCHANGED <<content, local, node, pushed, live, phone, errorVars, raced, lapses>>

\* connect, adopt_sibling_session: a dead session is rebuilt from the first
\* sibling whose token still works.
Connect == live # {} /\ live' = live \cup {"own"}

SignIn(p) ==
  /\ At(p, "sign in")
  /\ \/ /\ Works /\ Connect
        /\ Goto(p, IF pusher[p].news THEN "put status" ELSE "put beat")
     \/ /\ IF live = {} THEN Works ELSE Fail
        /\ Goto(p, AfterPush(p)) /\ UNCHANGED live
  /\ UNCHANGED <<content, local, node, pushed, phone, errorVars, raced, lapses>>

\* History only: what a status that lands is to its record and to the phone.
NoteStatus ==
  /\ unrecorded' = (unrecorded \/ node'.status # node.status)
  /\ crossed' = (crossed \/ (phone.poll # None /\ node'.status # node.status))

\* Mutant: a failed snapshot write is no reason to skip the heartbeat.
PutAndBeat(p, at, leaf, value, next) ==
  /\ At(p, at)
  /\ \/ Works /\ node' = [node EXCEPT ![leaf] = value] /\ Goto(p, next)
     \/ /\ Fail /\ node' \in {node, [node EXCEPT ![leaf] = value]}
        /\ IF leaf = "beat" THEN Goto(p, AfterPush(p)) ELSE Goto(p, "put beat")
  /\ NoteStatus
  /\ UNCHANGED <<content, local, pushed, live, phone, errorVars, raced>>

\* One write to the database: it lands and the push goes on, or it is the last.
Put(p, at, leaf, value, next) ==
  /\ At(p, at)
  /\ \/ Works /\ node' = [node EXCEPT ![leaf] = value] /\ Goto(p, next)
     \/ Fail /\ node' \in {node, [node EXCEPT ![leaf] = value]} /\ Goto(p, AfterPush(p))
  /\ NoteStatus
  /\ UNCHANGED <<content, local, pushed, live, phone, errorVars, raced>>

\* Mutant: the hash leads.
PutSnapshotHashFirst(p) ==
  \/ Put(p, "put status", "hash", Digest(pusher[p].snap), "put hash")
  \/ Put(p, "put hash", "status", pusher[p].snap, "record")

\* The hash follows the snapshot.
PutSnapshot(p) ==
  \/ Put(p, "put status", "status", pusher[p].snap, "put hash")
  \/ Put(p, "put hash", "hash", Digest(pusher[p].snap), "record")

\* write_pushed_hash never raises.
Record(p) ==
  /\ At(p, "record") /\ Goto(p, "put beat")
  /\ \/ Works /\ pushed' = Digest(pusher[p].snap) /\ unrecorded' = FALSE
     \/ Fail /\ UNCHANGED <<pushed, unrecorded>>
  /\ UNCHANGED <<content, local, node, live, phone, errorVars, raced, crossed>>

\* The heartbeat follows a snapshot that is there.
PutBeat(p) ==
  Put(p, "put beat", "beat", pusher[p].snap, AfterPush(p))

Killed(p) ==
  /\ ~At(p, "idle") /\ Fail /\ Goto(p, "idle") /\ news' = IF p = "tick" THEN {} ELSE news
  /\ UNCHANGED <<content, local, node, pushed, live, phone, app, mirror, told, raced, misread, lapses>>

SessionRevoked ==
  /\ Fail /\ \E a \in live : live' = live \ {a}
  /\ UNCHANGED <<content, pusher, local, node, pushed, phone, errorVars, raced, lapses>>
-----------------------------------------------------------------------------
(* sync_phone_errors: the harvest's last step *)

otherVars == <<content, local, node, pushed, phone, raced, lapses>>

Fetched == {e \in Errors : app[e] = "shown"}

\* Fetch, and read what was announced before; the first announcements are
\* decided here.
FetchErrors ==
  /\ At("tick", "errors")
  /\ \/ /\ Connect /\ Goto("tick", "mirror")
        /\ \/ Works /\ news' = Fetched \ mirror /\ UNCHANGED misread
           \/ Fail /\ news' = Fetched /\ misread' = TRUE
     \/ /\ IF live = {} THEN Works ELSE Fail
        /\ Goto("tick", "idle") /\ UNCHANGED <<live, news, misread>>
  /\ UNCHANGED <<app, mirror, told, otherVars>>

\* Mutant: what cannot be mirrored is announced all the same.
WriteMirrorAndGoOn ==
  /\ At("tick", "mirror") /\ Goto("tick", "notify")
  /\ \/ Works /\ mirror' = Fetched
     \/ Fail /\ UNCHANGED mirror
  /\ UNCHANGED <<app, news, told, misread, live, otherVars>>

\* The mirror is written first: what cannot be mirrored is not announced.
WriteMirror ==
  /\ At("tick", "mirror")
  /\ \/ Works /\ mirror' = Fetched /\ Goto("tick", "notify") /\ UNCHANGED news
     \/ Fail /\ Goto("tick", "idle") /\ news' = {} /\ UNCHANGED mirror
  /\ UNCHANGED <<app, told, misread, live, otherVars>>

\* notify-send: an announcement that fails is not tried again.
Notify ==
  /\ At("tick", "notify") /\ Goto("tick", "idle") /\ news' = {}
  /\ \/ Works /\ told' = [e \in Errors |-> told[e] + IF e \in news THEN 1 ELSE 0]
     \/ Fail /\ UNCHANGED told
  /\ UNCHANGED <<app, mirror, misread, live, otherVars>>

-----------------------------------------------------------------------------
(* The phone: HashGatedSource, and its own last few errors *)

\* Every poll reads the hash ...
PhonePolls ==
  /\ phone.poll = None /\ node.hash # None
  /\ \/ /\ phone' = [phone EXCEPT !.poll = node.hash] /\ node.hash # phone.hash
        /\ crossed' = (crossed \/ unrecorded)
     \/ phone' = phone /\ node.hash = phone.hash /\ UNCHANGED crossed
  /\ UNCHANGED <<content, pusher, local, node, pushed, live, errorVars, faults, raced,
                 unrecorded>>

\* ... and downloads the status when it moved, remembering the two together; a
\* poll that found no hash downloads what there is.
PhoneDownloads ==
  /\ \/ /\ phone.poll # None
        /\ \/ Works /\ phone' = [poll |-> None, hash |-> phone.poll, body |-> node.status]
           \/ Fail /\ phone' = [phone EXCEPT !.poll = None]
     \/ /\ phone.poll = None /\ phone.hash = None /\ node.status # None
        /\ Works /\ phone' = [phone EXCEPT !.body = node.status]
  /\ UNCHANGED <<content, pusher, local, node, pushed, live, errorVars, raced, lapses>>

\* An error is shown, and later crowded out for good: one that comes again is
\* first seen anew.
PhoneErrs ==
  /\ \E e \in Errors :
       \/ app[e] = "unseen" /\ app' = [app EXCEPT ![e] = "shown"]
       \/ app[e] = "shown" /\ app' = [app EXCEPT ![e] = "dropped"]
  /\ UNCHANGED <<content, pusher, local, node, pushed, live, phone, mirror, news,
                 told, misread, faults, raced, lapses>>

Push(p) ==
  \/ Gather(p) \/ WriteLocal(p) \/ Compare(p) \/ SignIn(p)
  \/ PutSnapshot(p) \/ Record(p) \/ PutBeat(p)
PhoneErrors == FetchErrors \/ WriteMirror \/ Notify

Next ==
  \/ Change \/ Minute \/ (\E p \in Pushers : Push(p) \/ Killed(p)) \/ PhoneErrors
  \/ SessionRevoked \/ PhonePolls \/ PhoneDownloads \/ PhoneErrs

Spec == Init /\ [][Next]_vars

\* The timer fires every minute, a process runs to its end unless it is killed,
\* and the app polls.
FairSpec ==
  /\ Spec /\ WF_vars(Minute) /\ WF_vars(PhoneErrors)
  /\ \A p \in Pushers : WF_vars(Push(p))
  /\ WF_vars(PhonePolls) /\ WF_vars(PhoneDownloads)

-----------------------------------------------------------------------------
(* Properties *)

Steps == {"idle", "gather", "local", "compare", "sign in", "put status", "put hash",
          "record", "put beat"}
TickSteps == {"errors", "mirror", "notify"}
Leaf == Versions \cup {None}
TypeOK ==
  /\ content \in Versions
  /\ pusher \in [Pushers -> [pc : Steps \cup TickSteps, snap : Leaf, news : BOOLEAN]]
  /\ \A p \in Detached : pusher[p].pc \in Steps
  /\ local \in Leaf /\ node \in [status : Leaf, hash : Leaf, beat : Leaf]
  /\ pushed \in Leaf /\ live \subseteq {"own"} \cup Siblings
  /\ phone \in [poll : Leaf, hash : Leaf, body : Leaf]
  /\ app \in [Errors -> {"unseen", "shown", "dropped"}]
  /\ mirror \subseteq Errors /\ news \subseteq Errors /\ told \in [Errors -> Nat]
  /\ faults \in 0..MaxFaults /\ raced \in BOOLEAN /\ misread \in BOOLEAN
  /\ unrecorded \in BOOLEAN /\ crossed \in BOOLEAN

BeatIsCovered ==
  node.status >= node.beat \/ Digest(node.status) = Digest(node.beat)

\* "a fresh heartbeat over stale content would tell the app everything is
\* current": a heartbeat that lands finds at least the content it stands for.
FreshBeatMeansFreshStatus == [][node'.beat # node.beat => BeatIsCovered']_vars

\* The same of pushes that have not overlapped, whatever failed among them: but
\* for content that returns to what was recorded, over a status that landed in
\* between and was not.
LoneBeatMeansFreshStatus ==
  [][node'.beat # node.beat /\ ~raced' => BeatIsCovered' \/ unrecorded]_vars

\* Once the sources rest, the desktop's copy shows what they show: no slow push
\* leaves an older one behind for good.
LocalCatchesUp == <>[](content = MaxChanges => local = MaxChanges)

\* And so does the phone, through lost writes, lost replies, kills and revoked
\* sessions, as long as no two pushes overlapped and one sibling is signed in;
\* where content returns to what it was, also only if what landed in between
\* was recorded, and did not land inside a poll.
PhoneCatchesUp ==
  <>[](content = MaxChanges =>
         \/ Digest(phone.body) = Digest(content)
         \/ raced \/ live = {} \/ (Repeats /\ (unrecorded \/ crossed)))

\* Each error is announced at most once, whatever fails between the fetch and
\* the announcement, unless the record of it could not be read.
ToldOnce == \A e \in Errors : told[e] <= 1 \/ misread
=============================================================================
