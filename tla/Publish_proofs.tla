---------------------------- MODULE Publish_proofs ----------------------------
(***************************************************************************)
(* Proofs about Publish, for any number of pushes under way, of siblings,  *)
(* of errors, of changes and of faults.                                    *)
(***************************************************************************)
EXTENDS Publish, TLAPS

Records ==
  /\ DOMAIN pusher = Pushers
  /\ \A p \in Pushers : DOMAIN pusher[p] = {"pc", "snap", "news"}

(* What a step of one push leaves alone, and where it may lead.             *)
PushSteps == {"local", "compare", "sign in", "put status", "put hash", "record",
              "put beat", "errors", "idle", "gather"}

LEMMA PushFrame ==
  ASSUME Records, NEW p \in Pushers, Push(p)
  PROVE  /\ UNCHANGED <<errorVars, content, raced>>
         /\ pusher'[p].pc \in PushSteps /\ ~At(p, "idle")
         /\ \A q \in Pushers : q # p => pusher'[q] = pusher[q]
         /\ Records'
<1> USE DEF Records, Goto, At, PushSteps, AfterPush
<1>1. CASE Gather(p)
  BY <1>1 DEF Gather
<1>2. CASE WriteLocal(p)
  BY <1>2 DEF WriteLocal
<1>3. CASE Compare(p)
  BY <1>3 DEF Compare
<1>4. CASE SignIn(p)
  BY <1>4 DEF SignIn
<1>5. ASSUME NEW at \in {"put status", "put hash", "put beat"}, NEW leaf, NEW value,
             NEW next \in PushSteps, Put(p, at, leaf, value, next)
      PROVE  /\ UNCHANGED <<errorVars, content, raced>>
             /\ pusher'[p].pc \in PushSteps /\ ~At(p, "idle")
             /\ \A q \in Pushers : q # p => pusher'[q] = pusher[q]
             /\ Records'
  BY <1>5 DEF Put
<1>6. CASE PutSnapshot(p) \/ PutBeat(p)
  BY <1>5, <1>6 DEF PutSnapshot, PutBeat
<1>7. CASE Record(p)
  BY <1>7 DEF Record
<1> QED
  BY <1>1, <1>2, <1>3, <1>4, <1>6, <1>7 DEF Push

LEMMA StartFrame ==
  ASSUME Records, NEW p \in Pushers, Start(p)
  PROVE  /\ At(p, "idle") /\ pusher'[p].pc = "gather"
         /\ \A q \in Pushers : q # p => pusher'[q] = pusher[q]
         /\ Records'
         /\ ~raced' => ~raced /\ \A q \in Pushers : At(q, "idle")
BY DEF Start, Records, Goto, At

LEMMA KillFrame ==
  ASSUME Records, NEW p \in Pushers, Killed(p)
  PROVE  /\ pusher'[p].pc = "idle"
         /\ \A q \in Pushers : q # p => pusher'[q] = pusher[q]
         /\ Records'
BY DEF Killed, Records, Goto, At

LEMMA ErrorsFrame ==
  ASSUME Records, PhoneErrors
  PROVE  /\ pusher'["tick"].pc \in {"mirror", "notify", "idle"} /\ ~At("tick", "idle")
         /\ \A q \in Pushers : q # "tick" => pusher'[q] = pusher[q]
         /\ Records'
         /\ UNCHANGED otherVars
BY DEF PhoneErrors, FetchErrors, WriteMirror, Notify, Records, Goto, At, Pushers, otherVars

-----------------------------------------------------------------------------
(* What is about to be announced was never announced, and what was          *)
(* announced is in the mirror for as long as the phone shows it.            *)
Announced(e) ==
  /\ told[e] \in {0, 1}
  /\ told[e] = 1 => app[e] = "dropped" \/ (app[e] = "shown" /\ e \in mirror)
  /\ e \in news /\ At("tick", "mirror") => told[e] = 0 /\ app[e] # "unseen"
  /\ e \in news /\ At("tick", "notify") =>
       told[e] = 0 /\ (app[e] = "dropped" \/ (app[e] = "shown" /\ e \in mirror))

Phones ==
  /\ DOMAIN app = Errors /\ \A e \in Errors : app[e] \in {"unseen", "shown", "dropped"}

TInv == Records /\ Phones /\ (~misread => \A e \in Errors : Announced(e))

LEMMA InitTInv == Init => TInv
BY DEF Init, TInv, Records, Phones, Announced, At, Pushers

(* A step that announces nothing and prepares no announcement.              *)
LEMMA StepQuiet ==
  ASSUME TInv, Records', UNCHANGED <<app, mirror, told, misread>>, news' \in {news, {}},
         At("tick", "mirror")' => At("tick", "mirror") /\ news' = news,
         At("tick", "notify")' => At("tick", "notify") /\ news' = news
  PROVE  TInv'
BY DEF TInv, Phones, Announced

LEMMA StepErrors ==
  ASSUME TInv, PhoneErrors
  PROVE  TInv'
<1>1. Records' /\ "tick" \in Pushers
  BY ErrorsFrame DEF TInv, Pushers
<1>2. Phones'
  BY DEF PhoneErrors, FetchErrors, WriteMirror, Notify, TInv, Phones
<1>3. CASE FetchErrors
  <2>1. CASE news' = Fetched \ mirror /\ UNCHANGED misread /\ pusher'["tick"].pc = "mirror"
    <3>1. UNCHANGED <<app, mirror, told>>
      BY <1>3 DEF FetchErrors
    <3>2. ASSUME ~misread, NEW e \in Errors PROVE Announced(e)'
      BY <2>1, <3>1, <3>2 DEF TInv, Announced, Fetched, At
    <3> QED
      BY <1>1, <1>2, <2>1, <3>2 DEF TInv
  <2>2. CASE misread'
    BY <1>1, <1>2, <2>2 DEF TInv
  <2>3. CASE pusher'["tick"].pc = "idle" /\ UNCHANGED <<news, misread>>
    <3>1. UNCHANGED <<app, mirror, told>>
      BY <1>3 DEF FetchErrors
    <3> QED
      BY <1>1, <2>3, <3>1, StepQuiet DEF At
  <2> QED
    BY <1>1, <1>3, <2>1, <2>2, <2>3 DEF FetchErrors, Goto, TInv, Records
<1>4. CASE WriteMirror
  <2>1. UNCHANGED <<app, told, misread>> /\ At("tick", "mirror")
    BY <1>4 DEF WriteMirror
  <2>2. CASE mirror' = Fetched /\ UNCHANGED news /\ pusher'["tick"].pc = "notify"
    <3>1. ASSUME ~misread, NEW e \in Errors PROVE Announced(e)'
      BY <2>1, <2>2, <3>1 DEF TInv, Phones, Announced, Fetched, At
    <3> QED
      BY <1>1, <1>2, <2>1, <3>1 DEF TInv
  <2>3. CASE pusher'["tick"].pc = "idle" /\ news' = {} /\ UNCHANGED mirror
    BY <1>1, <2>1, <2>3, StepQuiet DEF At
  <2> QED
    BY <1>1, <1>4, <2>2, <2>3 DEF WriteMirror, Goto, TInv, Records
<1>5. CASE Notify
  <2>1. /\ UNCHANGED <<app, mirror, misread>> /\ At("tick", "notify") /\ news' = {}
        /\ pusher'["tick"].pc = "idle"
    BY <1>1, <1>5 DEF Notify, Goto, TInv, Records
  <2>2. CASE told' = [e \in Errors |-> told[e] + IF e \in news THEN 1 ELSE 0]
    <3>1. ASSUME ~misread, NEW e \in Errors PROVE Announced(e)'
      <4>1. told'[e] = told[e] + IF e \in news THEN 1 ELSE 0
        BY <2>2
      <4>2. Announced(e)
        BY <3>1 DEF TInv
      <4> QED
        BY <2>1, <4>1, <4>2 DEF Announced, At
    <3> QED
      BY <1>1, <1>2, <2>1, <3>1 DEF TInv
  <2>3. CASE UNCHANGED told
    BY <1>1, <2>1, <2>3, StepQuiet DEF At
  <2> QED
    BY <1>5, <2>2, <2>3 DEF Notify
<1> QED
  BY <1>3, <1>4, <1>5 DEF PhoneErrors

LEMMA StepTInv == TInv /\ [Next]_vars => TInv'
<1> SUFFICES ASSUME TInv, [Next]_vars PROVE TInv'
  OBVIOUS
<1>1. "tick" \in Pushers /\ Records
  BY DEF Pushers, TInv
<1>2. CASE UNCHANGED vars \/ SessionRevoked \/ PhonePolls \/ PhoneDownloads
  <2>1. UNCHANGED <<pusher, errorVars>>
    BY <1>2 DEF vars, errorVars, SessionRevoked, PhonePolls, PhoneDownloads
  <2> QED
    BY <1>1, <2>1, StepQuiet DEF errorVars, At, Records
<1>3. ASSUME NEW p \in Pushers, Start(p), UNCHANGED errorVars
      PROVE  TInv'
  BY <1>1, <1>3, StartFrame, StepQuiet DEF errorVars, At
<1>4. CASE Change
  <2>1. UNCHANGED errorVars
    BY <1>4 DEF Change
  <2>2. CASE UNCHANGED pusher
    BY <1>1, <2>1, <2>2, StepQuiet DEF errorVars, At, Records
  <2> QED
    BY <1>3, <1>4, <2>1, <2>2 DEF Change, Pushers
<1>5. CASE Minute
  BY <1>1, <1>3, <1>5 DEF Minute
<1>6. ASSUME NEW p \in Pushers, Push(p)
      PROVE  TInv'
  BY <1>1, <1>6, PushFrame, StepQuiet DEF errorVars, At, PushSteps
<1>7. ASSUME NEW p \in Pushers, Killed(p)
      PROVE  TInv'
  <2>1. UNCHANGED <<app, mirror, told, misread>> /\ news' = IF p = "tick" THEN {} ELSE news
    BY <1>7 DEF Killed
  <2> QED
    BY <1>1, <1>7, <2>1, KillFrame, StepQuiet DEF At
<1>8. CASE PhoneErrs
  <2>1. UNCHANGED <<pusher, mirror, news, told, misread>>
    BY <1>8 DEF PhoneErrs
  <2>2. PICK c \in Errors :
          \/ app[c] = "unseen" /\ app' = [app EXCEPT ![c] = "shown"]
          \/ app[c] = "shown" /\ app' = [app EXCEPT ![c] = "dropped"]
    BY <1>8 DEF PhoneErrs
  <2>3. ASSUME ~misread, NEW e \in Errors PROVE Announced(e)'
    BY <2>1, <2>2, <2>3 DEF TInv, Phones, Announced, At
  <2>4. Phones'
    BY <2>2 DEF TInv, Phones
  <2> QED
    BY <2>1, <2>3, <2>4 DEF TInv, Records
<1> QED
  BY <1>2, <1>4, <1>5, <1>6, <1>7, <1>8, StepErrors DEF Next

(* An error of the phone's is announced once at most, whatever is killed or *)
(* fails between the fetch, the mirror and the announcement                 *)
(* (sync_phone_errors), as long as the mirror could be read.                *)
THEOREM ErrorsAreToldOnce == Spec => []ToldOnce
<1>1. TInv => ToldOnce
  BY DEF TInv, Announced, ToldOnce
<1> QED
  BY InitTInv, StepTInv, <1>1, PTL DEF Spec

-----------------------------------------------------------------------------
(* What is recorded as pushed is what is there, unless a status that landed  *)
(* was not recorded.  While no two pushes are under way at once, a push that *)
(* has news has its status there when it writes the hash, and one without    *)
(* found its own content recorded.                                           *)
Recorded == ~unrecorded => pushed = Digest(node.status)

PushInOrder(p) ==
  /\ At(p, "local") \/ At(p, "compare") => pusher[p].snap \in Nat
  /\ At(p, "sign in") => pusher[p].news \/ pushed = Digest(pusher[p].snap)
  /\ At(p, "put hash") \/ At(p, "record") => node.status = pusher[p].snap
  /\ At(p, "put beat") => node.status = pusher[p].snap \/ pushed = Digest(pusher[p].snap)

Lone ==
  /\ \A p, q \in Pushers : p # q => At(p, "idle") \/ At(q, "idle")
  /\ \A p \in Pushers : PushInOrder(p)

Shapes == Records /\ content \in Nat /\ DOMAIN node = {"status", "hash", "beat"}

LInv == Shapes /\ (~raced => Recorded /\ Lone)

LEMMA InitLInv == Init => LInv
<1> SUFFICES ASSUME Init PROVE LInv
  OBVIOUS
<1>1. Shapes
  BY PublishAssumption DEF Init, Shapes, Records, PublishAssumption, Before, None
<1>2. Recorded
  BY DEF Init, Recorded
<1>3. \A p \in Pushers : pusher[p].pc = "idle"
  BY DEF Init
<1>4. Lone
  BY <1>3 DEF Lone, PushInOrder, At
<1> QED
  BY <1>1, <1>2, <1>4 DEF LInv

LEMMA DigestOfContent == ASSUME NEW v \in Nat PROVE Digest(v) # None
BY DEF Digest, None

(* One write to the database: a leaf takes its value or stays as it was.    *)
LEMMA PutShape ==
  ASSUME Records, NEW p \in Pushers, NEW at, NEW leaf, NEW value, NEW next,
         Put(p, at, leaf, value, next)
  PROVE  /\ UNCHANGED <<content, pushed, raced>> /\ pusher[p].pc = at
         /\ pusher'[p].snap = pusher[p].snap
         /\ pusher'[p].pc \in {next, "errors", "idle"}
         /\ node' \in {node, [node EXCEPT ![leaf] = value]}
         /\ pusher'[p].pc = next /\ next \notin {"errors", "idle"} =>
              node' = [node EXCEPT ![leaf] = value]
         /\ ~unrecorded' => ~unrecorded /\ node'.status = node.status
BY DEF Put, NoteStatus, Records, At, Goto, AfterPush

(* One push's step keeps what is recorded and its own order, and puts no     *)
(* heartbeat over another status than its own.                               *)
LEMMA PushKeepsOrder ==
  ASSUME Shapes, Recorded, NEW p \in Pushers, PushInOrder(p), Push(p)
  PROVE  /\ Shapes' /\ Recorded' /\ PushInOrder(p)'
         /\ node'.beat # node.beat => BeatIsCovered' \/ unrecorded
<1> USE DEF At
<1>a. Records
  BY DEF Shapes
<1>0. Records' /\ UNCHANGED content
  BY <1>a, PushFrame
<1>1. CASE Gather(p)
  BY <1>0, <1>1 DEF Gather, Shapes, Records, Recorded, PushInOrder, lapses
<1>2. CASE WriteLocal(p)
  BY <1>0, <1>2 DEF WriteLocal, Goto, Shapes, Records, Recorded, PushInOrder, lapses
<1>3. CASE Compare(p)
  <2>1. PICK read \in {pushed, None} :
          pusher' = [pusher EXCEPT ![p].pc = "sign in",
                                   ![p].news = Digest(pusher[p].snap) # read]
    BY <1>3 DEF Compare
  <2>2. UNCHANGED <<node, pushed, unrecorded>> /\ pusher[p].pc = "compare"
    BY <1>3 DEF Compare, lapses
  <2>3. Digest(pusher[p].snap) # None
    BY <2>2, DigestOfContent DEF PushInOrder
  <2>4. /\ pusher'[p].pc = "sign in" /\ pusher'[p].snap = pusher[p].snap
        /\ ~pusher'[p].news => Digest(pusher[p].snap) = read
    BY <2>1 DEF Shapes, Records
  <2>5. PushInOrder(p)'
    BY <2>2, <2>3, <2>4 DEF PushInOrder, Digest
  <2> QED
    BY <1>0, <2>2, <2>5 DEF Shapes, Recorded, Digest
<1>4. CASE SignIn(p)
  <2>1. UNCHANGED <<node, pushed, unrecorded>> /\ pusher[p].pc = "sign in"
    BY <1>4 DEF SignIn, lapses
  <2>2. \/ Goto(p, "put status")
        \/ Goto(p, "put beat") /\ ~pusher[p].news
        \/ Goto(p, AfterPush(p))
    BY <1>4 DEF SignIn
  <2>3. /\ pusher'[p].snap = pusher[p].snap
        /\ \/ pusher'[p].pc \in {"put status", "errors", "idle"}
           \/ pusher'[p].pc = "put beat" /\ ~pusher[p].news
    <3>1. CASE Goto(p, "put status")
      BY <1>a, <3>1 DEF Goto, Records
    <3>2. CASE Goto(p, "put beat") /\ ~pusher[p].news
      BY <1>a, <3>2 DEF Goto, Records
    <3>3. CASE Goto(p, AfterPush(p))
      BY <1>a, <3>3 DEF Goto, Records, AfterPush
    <3> QED
      BY <2>2, <3>1, <3>2, <3>3
  <2> QED
    BY <1>0, <2>1, <2>3 DEF Shapes, Recorded, PushInOrder, Digest
<1>5. CASE Put(p, "put status", "status", pusher[p].snap, "put hash")
  <2>1. /\ UNCHANGED pushed /\ pusher'[p].snap = pusher[p].snap
        /\ pusher'[p].pc \in {"put hash", "errors", "idle"}
        /\ ~unrecorded' => ~unrecorded /\ node'.status = node.status
    BY <1>a, <1>5, PutShape
  <2>2. \/ UNCHANGED node /\ pusher'[p].pc # "put hash"
        \/ node' = [node EXCEPT !["status"] = pusher[p].snap]
    BY <1>a, <1>5 DEF Put, Records, Goto, AfterPush
  <2>3. /\ node'.beat = node.beat /\ DOMAIN node' = DOMAIN node
        /\ pusher'[p].pc = "put hash" => node'.status = pusher[p].snap
    BY <2>2 DEF Shapes
  <2> QED
    BY <1>0, <2>1, <2>3 DEF Shapes, Recorded, PushInOrder, Digest
<1>6. CASE Put(p, "put hash", "hash", Digest(pusher[p].snap), "record")
  <2>1. /\ UNCHANGED pushed /\ pusher'[p].snap = pusher[p].snap /\ pusher[p].pc = "put hash"
        /\ pusher'[p].pc \in {"record", "errors", "idle"}
        /\ node' \in {node, [node EXCEPT !["hash"] = Digest(pusher[p].snap)]}
        /\ ~unrecorded' => ~unrecorded
    BY <1>a, <1>6, PutShape
  <2>2. node'.beat = node.beat /\ node'.status = node.status /\ DOMAIN node' = DOMAIN node
    BY <2>1 DEF Shapes
  <2> QED
    BY <1>0, <2>1, <2>2 DEF Shapes, Recorded, PushInOrder, Digest
<1>7. CASE Record(p)
  <2>1. /\ UNCHANGED node /\ pusher[p].pc = "record"
        /\ pusher'[p].snap = pusher[p].snap /\ pusher'[p].pc = "put beat"
        /\ \/ pushed' = Digest(pusher[p].snap)
           \/ UNCHANGED <<pushed, unrecorded>>
    BY <1>7 DEF Record, Shapes, Records, Goto
  <2>2. node.status = pusher[p].snap
    BY <2>1 DEF PushInOrder
  <2> QED
    BY <1>0, <2>1, <2>2 DEF Shapes, Recorded, PushInOrder, Digest
<1>8. CASE PutBeat(p)
  <2>0. Put(p, "put beat", "beat", pusher[p].snap, AfterPush(p))
    BY <1>8 DEF PutBeat
  <2>1. /\ UNCHANGED pushed /\ pusher'[p].snap = pusher[p].snap /\ pusher[p].pc = "put beat"
        /\ pusher'[p].pc \in {AfterPush(p), "errors", "idle"}
        /\ node' \in {node, [node EXCEPT !["beat"] = pusher[p].snap]}
        /\ ~unrecorded' => ~unrecorded
    BY <1>a, <2>0, PutShape
  <2>5. /\ node'.status = node.status /\ DOMAIN node' = DOMAIN node
        /\ node'.beat \in {node.beat, pusher[p].snap}
    BY <2>1 DEF Shapes
  <2>2. pusher'[p].pc \in {"errors", "idle"}
    BY <2>1 DEF AfterPush
  <2>3. node.status = pusher[p].snap \/ unrecorded \/ Digest(node.status) = Digest(pusher[p].snap)
    BY <2>1 DEF PushInOrder, Recorded
  <2>4. node'.beat # node.beat => BeatIsCovered' \/ unrecorded
    BY <2>3, <2>5 DEF BeatIsCovered, Digest
  <2> QED
    BY <1>0, <2>1, <2>2, <2>4, <2>5 DEF Shapes, Recorded, PushInOrder, Digest
<1> QED
  BY <1>1, <1>2, <1>3, <1>4, <1>5, <1>6, <1>7, <1>8 DEF Push, PutSnapshot, lapses

(* A step that writes nothing of a push's and lets at most p move.          *)
LEMMA OthersKeepOrder ==
  ASSUME Lone, Recorded, UNCHANGED <<pushed, node, unrecorded>>,
         NEW p \in Pushers, \A q \in Pushers : q # p => pusher'[q] = pusher[q],
         UNCHANGED pusher \/ pusher'[p].pc \in {"idle", "gather", "mirror", "notify"},
         At(p, "idle") => (UNCHANGED pusher \/ \A q \in Pushers : At(q, "idle"))
  PROVE  Recorded' /\ Lone'
<1>1. Recorded'
  BY DEF Recorded, Digest
<1>2. ASSUME NEW q \in Pushers PROVE PushInOrder(q)'
  <2>1. PushInOrder(q)
    BY DEF Lone
  <2>2. CASE q # p \/ UNCHANGED pusher
    BY <2>1, <2>2 DEF PushInOrder, At, Digest
  <2>3. CASE pusher'[q].pc \in {"idle", "gather", "mirror", "notify"}
    BY <2>3 DEF PushInOrder, At
  <2> QED
    BY <2>2, <2>3
<1>3. ASSUME NEW q \in Pushers, NEW r \in Pushers, q # r
      PROVE  At(q, "idle")' \/ At(r, "idle")'
  BY <1>3 DEF Lone, At
<1> QED
  BY <1>1, <1>2, <1>3 DEF Lone

(* A push's step, when no other is under way.                               *)
LEMMA LonePush ==
  ASSUME Shapes, Recorded, Lone, NEW p \in Pushers, Push(p)
  PROVE  Shapes' /\ Recorded' /\ Lone'
<1>1. PushInOrder(p) /\ ~At(p, "idle")
  BY PushFrame DEF Lone, Shapes
<1>2. Shapes' /\ Recorded' /\ PushInOrder(p)'
  BY <1>1, PushKeepsOrder
<1>3. \A q \in Pushers : q # p => pusher'[q] = pusher[q]
  BY PushFrame DEF Shapes
<1>4. \A q \in Pushers : q # p => At(q, "idle")
  BY <1>1 DEF Lone
<1>5. ASSUME NEW q \in Pushers, q # p PROVE PushInOrder(q)'
  BY <1>3, <1>4, <1>5 DEF PushInOrder, At
<1>6. ASSUME NEW q \in Pushers, NEW r \in Pushers, q # r
      PROVE  At(q, "idle")' \/ At(r, "idle")'
  BY <1>3, <1>4, <1>6 DEF At
<1> QED
  BY <1>2, <1>5, <1>6 DEF Lone

(* The shapes do not depend on who else is under way.                       *)
LEMMA PushKeepsShapes ==
  ASSUME Shapes, NEW p \in Pushers, Push(p)
  PROVE  Shapes' /\ UNCHANGED raced
<1>1. Records' /\ UNCHANGED <<content, raced>>
  BY PushFrame DEF Shapes
<1>2. DOMAIN node' = DOMAIN node
  <2>0. ASSUME NEW at, NEW leaf, NEW value, NEW next, Put(p, at, leaf, value, next)
        PROVE  DOMAIN node' = DOMAIN node
    BY <2>0 DEF Put
  <2>1. CASE PutSnapshot(p)
    BY <2>0, <2>1 DEF PutSnapshot
  <2>2. CASE PutBeat(p)
    BY <2>0, <2>2 DEF PutBeat
  <2>3. CASE Gather(p) \/ WriteLocal(p) \/ Compare(p) \/ SignIn(p) \/ Record(p)
    BY <2>3 DEF Gather, WriteLocal, Compare, SignIn, Record
  <2> QED
    BY <2>1, <2>2, <2>3 DEF Push
<1> QED
  BY <1>1, <1>2 DEF Shapes

(* A heartbeat of a lone push stands for the status there is, or for less.  *)
LEMMA StepLInv ==
  ASSUME LInv, Next
  PROVE  LInv' /\ (node'.beat # node.beat /\ ~raced' => BeatIsCovered' \/ unrecorded)
<1>1. Shapes /\ Records /\ (~raced => Recorded /\ Lone)
  BY DEF LInv, Shapes
<1>2. "tick" \in Pushers
  BY DEF Pushers
<1>3. CASE UNCHANGED <<pusher, content, pushed, node, raced, unrecorded>>
  BY <1>3 DEF LInv, Shapes, Records, Recorded, Lone, PushInOrder, At, Digest
<1>4. ASSUME NEW p \in Pushers, Push(p)
      PROVE  LInv' /\ (node'.beat # node.beat /\ ~raced' => BeatIsCovered' \/ unrecorded)
  <2>1. UNCHANGED raced /\ Shapes'
    BY <1>1, <1>4, PushKeepsShapes
  <2>2. CASE raced
    BY <2>1, <2>2 DEF LInv
  <2>3. CASE ~raced
    <3>1. LInv'
      BY <1>1, <1>4, <2>1, <2>3, LonePush DEF LInv
    <3>2. node'.beat # node.beat => BeatIsCovered' \/ unrecorded
      BY <1>1, <1>4, <2>3, PushKeepsOrder DEF Lone
    <3> QED
      BY <3>1, <3>2
  <2> QED
    BY <2>2, <2>3
<1>5. ASSUME UNCHANGED <<pushed, node, unrecorded>>, content' \in {content, content + 1}, Records',
             raced => raced',
             NEW p \in Pushers, \A q \in Pushers : q # p => pusher'[q] = pusher[q],
             UNCHANGED pusher \/ pusher'[p].pc \in {"idle", "gather", "mirror", "notify"},
             At(p, "idle") /\ ~raced' => (UNCHANGED pusher \/ \A q \in Pushers : At(q, "idle"))
      PROVE  LInv' /\ (node'.beat # node.beat /\ ~raced' => BeatIsCovered' \/ unrecorded)
  <2>0. Shapes'
    BY <1>1, <1>5 DEF Shapes
  <2>1. CASE raced'
    BY <1>5, <2>0, <2>1 DEF LInv
  <2>2. CASE ~raced'
    <3>2. Recorded' /\ Lone'
      BY <1>1, <1>5, <2>2, OthersKeepOrder
    <3> QED
      BY <1>5, <2>0, <3>2 DEF LInv
  <2> QED
    BY <2>1, <2>2
<1>6. ASSUME NEW p \in Pushers, Start(p), UNCHANGED <<pushed, node, unrecorded>>,
             content' \in {content, content + 1}
      PROVE  LInv' /\ (node'.beat # node.beat /\ ~raced' => BeatIsCovered' \/ unrecorded)
  <2>1. raced => raced'
    BY <1>6 DEF Start
  <2> QED
    BY <1>1, <1>5, <1>6, <2>1, StartFrame
<1>7. CASE Minute
  BY <1>2, <1>6, <1>7 DEF Minute, lapses
<1>8. CASE Change
  <2>1. UNCHANGED <<pushed, node, unrecorded>> /\ content' = content + 1
    BY <1>8 DEF Change, lapses
  <2>2. CASE UNCHANGED <<pusher, raced>>
    BY <1>1, <1>2, <1>5, <2>1, <2>2 DEF Records
  <2> QED
    BY <1>6, <1>8, <2>1, <2>2 DEF Change, Pushers
<1>9. ASSUME NEW p \in Pushers, Killed(p)
      PROVE  LInv' /\ (node'.beat # node.beat /\ ~raced' => BeatIsCovered' \/ unrecorded)
  <2>1. UNCHANGED <<content, pushed, node, raced, unrecorded>> /\ ~At(p, "idle")
    BY <1>9 DEF Killed, lapses
  <2> QED
    BY <1>1, <1>5, <1>9, <2>1, KillFrame
<1>10. CASE PhoneErrors
  <2>1. UNCHANGED <<content, pushed, node, raced, unrecorded>>
    BY <1>1, <1>10, ErrorsFrame DEF otherVars, lapses
  <2> QED
    BY <1>1, <1>2, <1>5, <1>10, <2>1, ErrorsFrame
<1>11. CASE SessionRevoked \/ PhonePolls \/ PhoneDownloads \/ PhoneErrs
  BY <1>3, <1>11 DEF SessionRevoked, PhonePolls, PhoneDownloads, PhoneErrs, lapses
<1> QED
  BY <1>4, <1>7, <1>8, <1>9, <1>10, <1>11 DEF Next

(* A fresh heartbeat is not put over a stale status: while no two pushes    *)
(* were under way at once, no lost write, lost reply, kill, unreadable or   *)
(* unwritable state file or revoked session makes a heartbeat land over     *)
(* less than the content it stands for (push_snapshot), whether content     *)
(* returns to what it was or not, but for the one step the comment there    *)
(* leaves out: a status that landed and could not be recorded.              *)
THEOREM LoneBeatStandsForItsStatus == Spec => LoneBeatMeansFreshStatus
<1>1. LInv /\ [Next]_vars => LInv'
  <2> SUFFICES ASSUME LInv, [Next]_vars PROVE LInv'
    OBVIOUS
  <2>1. CASE UNCHANGED vars
    BY <2>1 DEF LInv, Shapes, Records, Recorded, Lone, PushInOrder, At, Digest, vars
  <2> QED
    BY <2>1, StepLInv
<1>2. LInv /\ [Next]_vars =>
        [node'.beat # node.beat /\ ~raced' => BeatIsCovered' \/ unrecorded]_vars
  BY StepLInv
<1> QED
  BY InitLInv, <1>1, <1>2, PTL DEF Spec, LoneBeatMeansFreshStatus
=============================================================================
