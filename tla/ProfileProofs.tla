---------------------------- MODULE ProfileProofs ---------------------------
(***************************************************************************)
(* Safety of module Profile for any accounts, names, slots and bounds.     *)
(* The bound on the stream needs the room that GETs in flight have         *)
(* reserved (Room); a touch is recorded because the step that takes its    *)
(* slot to the read of the profile is the one that records it, and what is *)
(* recorded stays so while other slots only delete rows.                   *)
(***************************************************************************)
EXTENDS Profile, FiniteSetTheorems, TLAPS

(* Slots that may still enqueue a job. *)
Pending == {p \in Proc : pc[p] \in {"touch", "enqueue"}}

Room == Len(stream) + Cardinality(Pending) <= MaxJobs

(* A handler at work acts for an account. *)
Busy == \A p \in Proc : pc[p] # "idle" => req[p].uid \in Account

IInv == TypeOK /\ Room /\ Busy

(* Slot p alone moves; at keeps what a slot remembers. *)
Alone(p) == \A q \in Proc \ {p} : pc'[q] = pc[q] /\ req'[q] = req[q]

-----------------------------------------------------------------------------
LEMMA PendingIsFinite == IsFiniteSet(Pending) /\ Cardinality(Pending) \in Nat
<1>1. IsFiniteSet(Pending)
  BY ProfileAssumption, FS_Subset DEF Pending
<1> QED BY <1>1, FS_CardinalityType

(* Room after a step of slot p that leaves the stream alone. *)
LEMMA RoomIsLeft ==
  ASSUME IInv, NEW p \in Proc, Alone(p), stream' = stream,
         pc[p] \in {"touch", "enqueue"} \/ pc'[p] \notin {"touch", "enqueue"}
  PROVE  Room'
<1>1. Pending' \subseteq Pending
  BY DEF Pending, Alone
<1>2. Cardinality(Pending') <= Cardinality(Pending) /\ Cardinality(Pending') \in Nat
  BY <1>1, PendingIsFinite, FS_Subset, FS_CardinalityType
<1>3. Len(stream) \in Nat
  BY DEF IInv, TypeOK
<1> QED BY <1>2, <1>3, PendingIsFinite, ProfileAssumption DEF IInv, Room

LEMMA NoRequestTyped == NoRequest \in Request /\ 0 \in Time
BY ProfileAssumption DEF NoRequest, Request, Time

(* How a step of slot p ends. *)
LEMMA Continues ==
  ASSUME IInv, NEW p \in Proc, Continue(p, "apply") \/ Continue(p, "enqueue") \/ Continue(p, "fetch"),
         Stamp(p) \/ UNCHANGED req, pc[p] # "idle", UNCHANGED now
  PROVE  /\ Alone(p) /\ answer' = 0
         /\ pc' \in [Proc -> {"idle", "touch", "enqueue", "apply", "fetch", "update", "delete"}]
         /\ req' \in [Proc -> Request] /\ Busy'
         /\ req'[p].uid = req[p].uid
<1>1. /\ pc \in [Proc -> {"idle", "touch", "enqueue", "apply", "fetch", "update", "delete"}]
      /\ req \in [Proc -> Request] /\ now \in Time
  BY DEF IInv, TypeOK
<1>2. req' \in [Proc -> Request] /\ \A q \in Proc : req'[q].uid = req[q].uid
  BY <1>1 DEF Stamp, Request
<1>3. \A q \in Proc \ {p} : req'[q] = req[q]
  BY <1>1 DEF Stamp
<1>4. /\ \A q \in Proc \ {p} : pc'[q] = pc[q]
      /\ pc' \in [Proc -> {"idle", "touch", "enqueue", "apply", "fetch", "update", "delete"}]
      /\ answer' = 0
  BY <1>1 DEF Continue
<1>5. Busy'
  BY <1>2, <1>4 DEF IInv, Busy
<1> QED BY <1>2, <1>3, <1>4, <1>5 DEF Alone

LEMMA Answers ==
  ASSUME IInv, NEW p \in Proc, NEW status \in {200, 500}, Answer(p, status)
  PROVE  /\ Alone(p) /\ answer' \in {200, 500} /\ pc'[p] = "idle"
         /\ pc' \in [Proc -> {"idle", "touch", "enqueue", "apply", "fetch", "update", "delete"}]
         /\ req' \in [Proc -> Request] /\ Busy'
<1>1. /\ pc \in [Proc -> {"idle", "touch", "enqueue", "apply", "fetch", "update", "delete"}]
      /\ req \in [Proc -> Request]
  BY DEF IInv, TypeOK
<1>2. /\ pc' = [pc EXCEPT ![p] = "idle"] /\ req' = [req EXCEPT ![p] = NoRequest] /\ answer' = status
  BY DEF Answer
<1>3. /\ Alone(p) /\ pc'[p] = "idle"
      /\ pc' \in [Proc -> {"idle", "touch", "enqueue", "apply", "fetch", "update", "delete"}]
      /\ req' \in [Proc -> Request]
  BY <1>1, <1>2, NoRequestTyped DEF Alone
<1> QED BY <1>2, <1>3 DEF IInv, Busy, Alone

(* What a touch writes. *)
LEMMA TouchTyped ==
  ASSUME IInv, NEW u \in Account, NEW t \in Time, SetLastActive(u, t)
  PROVE  /\ DOMAIN profiles' = DOMAIN profiles
         /\ profiles' \in [DOMAIN profiles' -> Row]
         /\ \A v \in DOMAIN profiles : profiles'[v].name = profiles[v].name
         /\ applied \subseteq applied' /\ applied' \subseteq applied \cup Job
         /\ Exists(u) => [user_id |-> u, last_active_at |-> t] \in applied'
<1>1. profiles \in [DOMAIN profiles -> Row]
  BY DEF IInv, TypeOK
<1>2. [user_id |-> u, last_active_at |-> t] \in Job
  BY DEF Job
<1>3. CASE Exists(u)
  <2>1. /\ profiles' = [profiles EXCEPT ![u].last_active_at = t]
        /\ applied' = applied \cup {[user_id |-> u, last_active_at |-> t]}
    BY <1>3 DEF SetLastActive
  <2> QED BY <1>1, <1>2, <1>3, <2>1 DEF Row, Exists
<1>4. CASE ~Exists(u)
  BY <1>1, <1>4 DEF SetLastActive
<1> QED BY <1>3, <1>4

LEMMA RenameTyped ==
  ASSUME IInv, NEW u \in DOMAIN profiles, NEW n \in Name \cup {None}, SetName(u, n)
  PROVE  /\ DOMAIN profiles' = DOMAIN profiles
         /\ profiles' \in [DOMAIN profiles' -> Row]
         /\ \A v \in DOMAIN profiles : profiles'[v].name # profiles[v].name =>
              v = u /\ n # None /\ profiles'[v].name = n
<1>1. profiles \in [DOMAIN profiles -> Row]
  BY DEF IInv, TypeOK
<1> QED BY <1>1 DEF SetName, Row
-----------------------------------------------------------------------------
(* What was recorded stays so, and rows only go. *)
Monotone ==
  /\ enqueued \subseteq enqueued' /\ applied \subseteq applied'
  /\ DOMAIN profiles' \subseteq DOMAIN profiles

Recorded(p) == pc[p] = "fetch" /\ Exists(req[p].uid) => JobOf(p) \in enqueued \cup applied

(* What each action of slot p does. *)
Keeps(p) == IInv' /\ Alone(p) /\ Monotone /\ ("error" \notin Faults => Recorded(p)')

LEMMA AcceptKeeps ==
  ASSUME IInv, NEW p \in Proc, pc[p] = "idle", NEW u \in DOMAIN profiles,
         NEW n \in Name \cup {None}, NEW step \in {"touch", "update", "delete"},
         Accept(p, step, u, n), step = "touch" => RoomForJob
  PROVE  Keeps(p)
<1>1. /\ pc \in [Proc -> {"idle", "touch", "enqueue", "apply", "fetch", "update", "delete"}]
      /\ req \in [Proc -> Request] /\ u \in Account
  BY DEF IInv, TypeOK
<1>2. /\ pc' = [pc EXCEPT ![p] = step] /\ req' = [req EXCEPT ![p] = [uid |-> u, name |-> n, at |-> 0]]
      /\ answer' = 0 /\ UNCHANGED <<profiles, stream, syncMode, now, enqueued, applied>>
  BY DEF Accept
<1>3. [uid |-> u, name |-> n, at |-> 0] \in Request
  BY <1>1, NoRequestTyped DEF Request
<1>4. /\ pc' \in [Proc -> {"idle", "touch", "enqueue", "apply", "fetch", "update", "delete"}]
      /\ req' \in [Proc -> Request] /\ pc'[p] = step /\ req'[p].uid = u /\ Alone(p)
  BY <1>1, <1>2, <1>3 DEF Alone
<1>5. TypeOK'
  BY <1>2, <1>4 DEF IInv, TypeOK
<1>6. Busy'
  BY <1>1, <1>4 DEF IInv, Busy, Alone
<1>7. Room'
  <2>1. CASE step # "touch"
    BY <1>2, <1>4, <2>1, RoomIsLeft
  <2>2. CASE step = "touch"
    <3>1. Pending' = Pending \cup {p} /\ p \notin Pending
      BY <1>4, <2>2 DEF Pending, Alone
    <3>2. Cardinality(Pending') = Cardinality(Pending) + 1
      BY <3>1, PendingIsFinite, FS_AddElement
    <3>3. Len(stream) \in Nat /\ Len(stream) + Cardinality(Pending) < MaxJobs
      BY <2>2 DEF IInv, TypeOK, RoomForJob, Pending
    <3> QED BY <1>2, <3>2, <3>3, PendingIsFinite, ProfileAssumption DEF Room
  <2> QED BY <2>1, <2>2
<1>8. Monotone /\ Recorded(p)'
  BY <1>2, <1>4 DEF Monotone, Recorded
<1> QED BY <1>4, <1>5, <1>6, <1>7, <1>8 DEF Keeps, IInv

LEMMA ArriveKeeps ==
  ASSUME IInv, NEW p \in Proc, Arrive(p)
  PROVE  Keeps(p)
<1>1. pc[p] = "idle"
  BY DEF Arrive
<1>2. PICK u \in DOMAIN profiles :
        \/ RoomForJob /\ Accept(p, "touch", u, None)
        \/ \E n \in Name \cup {None} : Accept(p, "update", u, n)
        \/ Accept(p, "delete", u, None)
  BY DEF Arrive
<1>3. CASE RoomForJob /\ Accept(p, "touch", u, None)
  BY <1>1, <1>3, AcceptKeeps
<1>4. ASSUME NEW n \in Name \cup {None}, Accept(p, "update", u, n) PROVE Keeps(p)
  BY <1>1, <1>4, AcceptKeeps
<1>5. CASE Accept(p, "delete", u, None)
  BY <1>1, <1>5, AcceptKeeps
<1> QED BY <1>2, <1>3, <1>4, <1>5

LEMMA TouchKeeps ==
  ASSUME IInv, NEW p \in Proc, Touch(p)
  PROVE  Keeps(p)
<1>1. /\ pc[p] = "touch" /\ Stamp(p)
      /\ Continue(p, "apply") \/ Continue(p, "enqueue")
      /\ UNCHANGED <<profiles, stream, syncMode, now, enqueued, applied>>
  BY DEF Touch
<1>2. /\ Alone(p) /\ answer' = 0
      /\ pc' \in [Proc -> {"idle", "touch", "enqueue", "apply", "fetch", "update", "delete"}]
      /\ req' \in [Proc -> Request] /\ Busy'
  BY <1>1, Continues
<1>3. TypeOK'
  BY <1>1, <1>2 DEF IInv, TypeOK
<1>4. Room'
  BY <1>1, <1>2, RoomIsLeft
<1>5. Monotone /\ Recorded(p)'
  <2>1. pc'[p] # "fetch"
    BY <1>1, <1>2 DEF Continue, IInv, TypeOK
  <2> QED BY <1>1, <2>1 DEF Monotone, Recorded
<1> QED BY <1>2, <1>3, <1>4, <1>5 DEF Keeps, IInv

LEMMA EnqueueKeeps ==
  ASSUME IInv, NEW p \in Proc, Enqueue(p)
  PROVE  Keeps(p)
<1>1. PICK o \in XAddOutcome :
        /\ XAdd(o, JobOf(p))
        /\ \/ o = "ok" /\ Continue(p, "fetch") /\ UNCHANGED req
           \/ o # "ok" /\ Continue(p, "apply") /\ Stamp(p)
  BY DEF Enqueue
<1>2. pc[p] = "enqueue" /\ UNCHANGED <<profiles, syncMode, now, applied>>
  BY DEF Enqueue
<1>3. /\ Alone(p) /\ answer' = 0
      /\ pc' \in [Proc -> {"idle", "touch", "enqueue", "apply", "fetch", "update", "delete"}]
      /\ req' \in [Proc -> Request] /\ Busy'
  BY <1>1, <1>2, Continues
<1>4. pc'[p] \in {"fetch", "apply"} /\ (pc'[p] = "fetch" => o = "ok" /\ UNCHANGED req)
  BY <1>1 DEF Continue, IInv, TypeOK
<1>5. JobOf(p) \in Job
  BY <1>2 DEF IInv, TypeOK, Busy, JobOf, Job, Request
<1>6. /\ stream' \in Seq(Job) /\ Len(stream') \in Nat /\ Len(stream') <= Len(stream) + 1
      /\ enqueued \subseteq enqueued' /\ enqueued' \subseteq enqueued \cup {JobOf(p)}
      /\ o = "ok" => JobOf(p) \in enqueued'
  BY <1>1, <1>5 DEF XAdd, IInv, TypeOK
<1>7. Room' /\ Len(stream') <= MaxJobs
  <2>1. Pending' = Pending \ {p} /\ p \in Pending
    BY <1>2, <1>3, <1>4 DEF Pending, Alone
  <2>2. Cardinality(Pending') = Cardinality(Pending) - 1 /\ Cardinality(Pending') \in Nat
    BY <2>1, PendingIsFinite, FS_RemoveElement, FS_CardinalityType
  <2>3. Len(stream) \in Nat
    BY DEF IInv, TypeOK
  <2> QED BY <1>6, <2>2, <2>3, PendingIsFinite, ProfileAssumption DEF Room, IInv
<1>8. TypeOK'
  BY <1>2, <1>3, <1>5, <1>6, <1>7 DEF IInv, TypeOK
<1>9. Monotone /\ Recorded(p)'
  BY <1>2, <1>4, <1>6 DEF Monotone, Recorded, JobOf
<1> QED BY <1>3, <1>7, <1>8, <1>9 DEF Keeps, IInv

LEMMA ApplyKeeps ==
  ASSUME IInv, NEW p \in Proc, Apply(p)
  PROVE  Keeps(p)
<1>1. /\ pc[p] = "apply" /\ Continue(p, "fetch") /\ UNCHANGED <<req, stream, syncMode, now, enqueued>>
  BY DEF Apply
<1>2. PICK o \in SqlOutcome :
        IF o = "error" THEN UNCHANGED <<profiles, applied>>
        ELSE SetLastActive(req[p].uid, req[p].at)
  BY DEF Apply
<1>3. /\ Alone(p) /\ answer' = 0 /\ req' = req
      /\ pc' \in [Proc -> {"idle", "touch", "enqueue", "apply", "fetch", "update", "delete"}]
      /\ req' \in [Proc -> Request] /\ Busy'
  BY <1>1, Continues
<1>4. req[p].uid \in Account /\ req[p].at \in Time
  BY <1>1 DEF IInv, TypeOK, Busy, Request
<1>5. /\ DOMAIN profiles' = DOMAIN profiles /\ profiles' \in [DOMAIN profiles' -> Row]
      /\ applied \subseteq applied' /\ applied' \subseteq applied \cup Job
      /\ o # "error" /\ Exists(req[p].uid) => JobOf(p) \in applied'
  <2>1. CASE o = "error"
    BY <1>2, <2>1 DEF IInv, TypeOK
  <2>2. CASE o # "error"
    BY <1>2, <1>4, <2>2, TouchTyped DEF JobOf
  <2> QED BY <2>1, <2>2
<1>6. TypeOK'
  BY <1>1, <1>3, <1>5 DEF IInv, TypeOK
<1>7. Room'
  <2>1. pc'[p] = "fetch"
    BY <1>1 DEF Continue, IInv, TypeOK
  <2> QED BY <1>1, <1>3, <2>1, RoomIsLeft
<1>8. Monotone
  BY <1>1, <1>5 DEF Monotone
<1>9. "error" \notin Faults => Recorded(p)'
  <2>1. "error" \notin Faults => o # "error"
    BY DEF SqlOutcome
  <2> QED BY <1>3, <1>5, <2>1 DEF Recorded, Exists, JobOf
<1> QED BY <1>3, <1>6, <1>7, <1>8, <1>9 DEF Keeps, IInv

LEMMA FetchKeeps ==
  ASSUME IInv, NEW p \in Proc, Fetch(p)
  PROVE  Keeps(p)
<1>1. /\ \E status \in {200, 500} : Answer(p, status)
      /\ UNCHANGED <<profiles, stream, syncMode, now, enqueued, applied>>
  BY DEF Fetch
<1>2. /\ Alone(p) /\ answer' \in {200, 500} /\ pc'[p] = "idle"
      /\ pc' \in [Proc -> {"idle", "touch", "enqueue", "apply", "fetch", "update", "delete"}]
      /\ req' \in [Proc -> Request] /\ Busy'
  BY <1>1, Answers
<1>3. TypeOK'
  BY <1>1, <1>2 DEF IInv, TypeOK
<1>4. Room'
  BY <1>1, <1>2, RoomIsLeft
<1>5. Monotone /\ Recorded(p)'
  BY <1>1, <1>2 DEF Monotone, Recorded
<1> QED BY <1>2, <1>3, <1>4, <1>5 DEF Keeps, IInv

LEMMA UpdateMeKeeps ==
  ASSUME IInv, NEW p \in Proc, UpdateMe(p)
  PROVE  Keeps(p)
<1>1. /\ pc[p] = "update" /\ \E status \in {200, 500} : Answer(p, status)
      /\ \/ Exists(req[p].uid) /\ SetName(req[p].uid, req[p].name)
         \/ UNCHANGED profiles
      /\ UNCHANGED <<stream, syncMode, now, enqueued, applied>>
  BY DEF UpdateMe
<1>2. /\ Alone(p) /\ answer' \in {200, 500} /\ pc'[p] = "idle"
      /\ pc' \in [Proc -> {"idle", "touch", "enqueue", "apply", "fetch", "update", "delete"}]
      /\ req' \in [Proc -> Request] /\ Busy'
  BY <1>1, Answers
<1>3. DOMAIN profiles' = DOMAIN profiles /\ profiles' \in [DOMAIN profiles' -> Row]
  <2>1. req[p].name \in Name \cup {None}
    BY DEF IInv, TypeOK, Request
  <2>2. CASE Exists(req[p].uid) /\ SetName(req[p].uid, req[p].name)
    BY <2>1, <2>2, RenameTyped DEF Exists
  <2>3. CASE UNCHANGED profiles
    BY <2>3 DEF IInv, TypeOK
  <2> QED BY <1>1, <2>2, <2>3
<1>4. TypeOK'
  BY <1>1, <1>2, <1>3 DEF IInv, TypeOK
<1>5. Room'
  BY <1>1, <1>2, RoomIsLeft
<1>6. Monotone /\ Recorded(p)'
  BY <1>1, <1>2, <1>3 DEF Monotone, Recorded
<1> QED BY <1>2, <1>4, <1>5, <1>6 DEF Keeps, IInv

LEMMA DeleteMeKeeps ==
  ASSUME IInv, NEW p \in Proc, DeleteMe(p)
  PROVE  Keeps(p)
<1>1. /\ pc[p] = "delete" /\ \E status \in {200, 500} : Answer(p, status)
      /\ profiles' = profiles \/ profiles' = [u \in DOMAIN profiles \ {req[p].uid} |-> profiles[u]]
      /\ UNCHANGED <<stream, syncMode, now, enqueued, applied>>
  BY DEF DeleteMe
<1>2. /\ Alone(p) /\ answer' \in {200, 500} /\ pc'[p] = "idle"
      /\ pc' \in [Proc -> {"idle", "touch", "enqueue", "apply", "fetch", "update", "delete"}]
      /\ req' \in [Proc -> Request] /\ Busy'
  BY <1>1, Answers
<1>3. DOMAIN profiles' \subseteq DOMAIN profiles /\ profiles' \in [DOMAIN profiles' -> Row]
  BY <1>1 DEF IInv, TypeOK
<1>4. TypeOK'
  BY <1>1, <1>2, <1>3 DEF IInv, TypeOK
<1>5. Room'
  BY <1>1, <1>2, RoomIsLeft
<1>6. Monotone /\ Recorded(p)'
  BY <1>1, <1>2, <1>3 DEF Monotone, Recorded
<1> QED BY <1>2, <1>4, <1>5, <1>6 DEF Keeps, IInv

LEMMA SlotStepKeeps ==
  ASSUME IInv, NEW p \in Proc, Arrive(p) \/ Handle(p)
  PROVE  Keeps(p)
BY ArriveKeeps, TouchKeeps, EnqueueKeeps, ApplyKeeps, FetchKeeps, UpdateMeKeeps, DeleteMeKeeps
   DEF Handle

(* Deaths, restarts of Redis and time. *)
LEMMA WorldKeeps ==
  ASSUME IInv, Crash \/ RedisRestart \/ Tick \/ UNCHANGED vars
  PROVE  IInv' /\ Monotone /\ \A p \in Proc : Recorded(p) => Recorded(p)'
<1>1. CASE Crash
  <2>1. /\ pc' = [p \in Proc |-> "idle"] /\ req' = [p \in Proc |-> NoRequest] /\ answer' = 0
        /\ UNCHANGED <<profiles, stream, syncMode, now, enqueued, applied>>
    BY <1>1 DEF Crash
  <2>2. TypeOK'
    BY <2>1, NoRequestTyped DEF IInv, TypeOK
  <2>3. Room'
    <3>1. Pending' = {}
      BY <2>1 DEF Pending
    <3>2. Cardinality(Pending') = 0
      BY <3>1, FS_EmptySet
    <3> QED BY <2>2, <3>2, ProfileAssumption DEF Room, TypeOK
  <2>4. Busy' /\ Monotone /\ \A p \in Proc : Recorded(p)'
    BY <2>1 DEF Busy, Monotone, Recorded
  <2> QED BY <2>2, <2>3, <2>4 DEF IInv
<1>2. CASE RedisRestart
  <2>1. stream' = <<>> /\ answer' = 0 /\ UNCHANGED <<profiles, syncMode, now, pc, req, enqueued, applied>>
    BY <1>2 DEF RedisRestart
  <2>2. stream' \in Seq(Job) /\ Len(stream') = 0
    BY <2>1
  <2>3. TypeOK'
    BY <2>1, <2>2, ProfileAssumption DEF IInv, TypeOK
  <2>4. Room'
    <3>1. Pending' = Pending
      BY <2>1 DEF Pending
    <3>2. Len(stream) \in Nat
      BY DEF IInv, TypeOK
    <3> QED BY <2>2, <3>1, <3>2, PendingIsFinite, ProfileAssumption DEF IInv, Room
  <2>5. Busy' /\ Monotone /\ \A p \in Proc : Recorded(p) => Recorded(p)'
    BY <2>1 DEF IInv, Busy, Monotone, Recorded, Exists, JobOf
  <2> QED BY <2>3, <2>4, <2>5 DEF IInv
<1>3. CASE Tick \/ UNCHANGED vars
  <2>1. UNCHANGED <<profiles, stream, syncMode, pc, req, enqueued, applied>>
    BY <1>3 DEF Tick, vars
  <2>2. now' \in Time /\ answer' \in {0, 200, 500}
    BY <1>3, ProfileAssumption DEF Tick, vars, IInv, TypeOK, Time
  <2>3. TypeOK' /\ Room' /\ Busy'
    BY <2>1, <2>2 DEF IInv, TypeOK, Room, Pending, Busy
  <2>4. Monotone /\ \A p \in Proc : Recorded(p) => Recorded(p)'
    BY <2>1 DEF Monotone, Recorded, Exists, JobOf
  <2> QED BY <2>3, <2>4 DEF IInv
<1> QED BY <1>1, <1>2, <1>3

LEMMA InitHolds == Init => IInv /\ \A p \in Proc : Recorded(p)
<1> SUFFICES ASSUME Init PROVE IInv /\ \A p \in Proc : Recorded(p)
  OBVIOUS
<1>1. /\ profiles \in [Account -> [name : Name \cup {None}, last_active_at : {None}]]
      /\ stream = <<>> /\ syncMode \in SyncModes /\ now = 0 /\ answer = 0
      /\ pc = [p \in Proc |-> "idle"] /\ req = [p \in Proc |-> NoRequest]
      /\ enqueued = {} /\ applied = {}
  BY DEF Init
<1>2. stream \in Seq(Job) /\ Len(stream) = 0
  BY <1>1
<1>3. DOMAIN profiles = Account /\ profiles \in [Account -> Row]
  BY <1>1 DEF Row
<1>4. TypeOK
  BY <1>1, <1>2, <1>3, NoRequestTyped, ProfileAssumption DEF TypeOK
<1>5. Room
  <2>1. Pending = {}
    BY <1>1 DEF Pending
  <2> QED BY <1>2, <2>1, FS_EmptySet, ProfileAssumption DEF Room
<1>6. Busy /\ \A p \in Proc : Recorded(p)
  BY <1>1 DEF Busy, Recorded
<1> QED BY <1>4, <1>5, <1>6 DEF IInv

LEMMA NextKeeps == IInv /\ [Next]_vars => IInv'
BY SlotStepKeeps, WorldKeeps DEF Next, Keeps
-----------------------------------------------------------------------------
(* The inductive invariant holds throughout. *)
THEOREM Invariance == Spec => []IInv
<1>1. Init => IInv
  BY InitHolds
<1> QED BY <1>1, NextKeeps, PTL DEF Spec

(* Every variable holds a value the code can produce. *)
THEOREM ProfileTypeCorrect == Spec => []TypeOK
<1>1. IInv => TypeOK
  BY DEF IInv
<1> QED BY <1>1, Invariance, PTL

(* No touch is dropped while UPDATEs take effect, whatever Redis does, in  *)
(* either mode and across restarts.                                        *)
THEOREM NoTouchIsDropped ==
  ASSUME "error" \notin Faults
  PROVE  Spec => []TouchRecorded
<1>1. TouchRecorded <=> \A p \in Proc : Recorded(p)
  BY DEF TouchRecorded, Recorded
<1>2. Init => TouchRecorded
  BY <1>1, InitHolds
<1>3. IInv /\ TouchRecorded /\ [Next]_vars => TouchRecorded'
  <2> SUFFICES ASSUME IInv, TouchRecorded, [Next]_vars, NEW q \in Proc
               PROVE  Recorded(q)'
    BY DEF TouchRecorded, Recorded
  <2>1. Recorded(q)
    BY <1>1
  <2>2. CASE Crash \/ RedisRestart \/ Tick \/ UNCHANGED vars
    BY <2>1, <2>2, WorldKeeps
  <2>3. ASSUME NEW p \in Proc, Arrive(p) \/ Handle(p) PROVE Recorded(q)'
    <3>1. Keeps(p)
      BY <2>3, SlotStepKeeps
    <3>2. CASE q = p
      BY <3>1, <3>2 DEF Keeps
    <3>3. CASE q # p
      BY <2>1, <3>1, <3>3 DEF Keeps, Alone, Monotone, Recorded, Exists, JobOf
    <3> QED BY <3>2, <3>3
  <2> QED BY <2>2, <2>3 DEF Next
<1> QED BY <1>2, <1>3, Invariance, PTL DEF Spec

(* Nothing that was still under way recreates a deleted account. *)
THEOREM DeletionIsFinal == Spec => DeletedStaysDeleted
<1>1. IInv /\ [Next]_vars => [DOMAIN profiles' \subseteq DOMAIN profiles]_vars
  BY SlotStepKeeps, WorldKeeps DEF Next, Keeps, Monotone
<1> QED BY <1>1, Invariance, PTL DEF Spec, DeletedStaysDeleted

(* Only an answered PUT with a name changes a name, and to that name. *)
THEOREM NamesChangeOnPurpose == Spec => RenamedOnPurpose
<1>1. ASSUME IInv, [Next]_vars, NEW u \in DOMAIN profiles \cap DOMAIN profiles',
             profiles'[u].name # profiles[u].name
      PROVE  \E p \in Proc : /\ pc[p] = "update" /\ pc'[p] = "idle" /\ req[p].uid = u
                             /\ req[p].name = profiles'[u].name /\ req[p].name # None
  <2>1. profiles' # profiles
    BY <1>1
  <2>2. PICK p \in Proc : Arrive(p) \/ Handle(p)
    BY <1>1, <2>1 DEF Next, Crash, RedisRestart, Tick, vars
  <2>3. Apply(p) \/ UpdateMe(p) \/ DeleteMe(p)
    BY <2>1, <2>2 DEF Handle, Arrive, Accept, Touch, Enqueue, Fetch
  <2>4. CASE Apply(p)
    <3>1. req[p].uid \in Account /\ req[p].at \in Time
      BY <1>1, <2>4 DEF IInv, TypeOK, Busy, Request, Apply
    <3>2. SetLastActive(req[p].uid, req[p].at)
      BY <2>1, <2>4 DEF Apply
    <3> QED BY <1>1, <3>1, <3>2, TouchTyped
  <2>5. CASE DeleteMe(p)
    BY <1>1, <2>5 DEF DeleteMe
  <2>6. CASE UpdateMe(p)
    <3>1. /\ pc[p] = "update" /\ \E status \in {200, 500} : Answer(p, status)
          /\ Exists(req[p].uid) /\ SetName(req[p].uid, req[p].name)
      BY <2>1, <2>6 DEF UpdateMe
    <3>2. pc'[p] = "idle" /\ req[p].name \in Name \cup {None}
      BY <1>1, <3>1, Answers DEF IInv, TypeOK, Request
    <3>3. u = req[p].uid /\ req[p].name # None /\ profiles'[u].name = req[p].name
      BY <1>1, <3>1, <3>2, RenameTyped DEF Exists
    <3> QED BY <3>1, <3>2, <3>3
  <2> QED BY <2>3, <2>4, <2>5, <2>6
<1>2. IInv /\ [Next]_vars =>
        [\A u \in DOMAIN profiles \cap DOMAIN profiles' :
           profiles'[u].name # profiles[u].name =>
             \E p \in Proc : /\ pc[p] = "update" /\ pc'[p] = "idle"
                             /\ req[p].uid = u
                             /\ req[p].name = profiles'[u].name /\ req[p].name # None]_vars
  BY <1>1
<1> QED BY <1>2, Invariance, PTL DEF Spec, RenamedOnPurpose
=============================================================================
