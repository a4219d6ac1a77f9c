------------------------------ MODULE Profile ------------------------------
(***************************************************************************)
(* GET, PUT and DELETE /users/me (services/users.go) behind the            *)
(* middleware, with the last-active job of core/jobs: SmartExecutor, the   *)
(* Redis stream it enqueues to and JobExecutor, its synchronous fallback.  *)
(*                                                                         *)
(* The middleware has already mapped the token to an account; the account  *)
(* may be deleted by another slot at any step after that.  Each handler is *)
(* cut at its calls to PostgreSQL and to Redis and where it reads the      *)
(* clock.                                                                  *)
(*                                                                         *)
(* Faults, outside the handlers' control:                                  *)
(*   "redis"     XADD fails and adds nothing                               *)
(*   "redisLost" XADD adds the entry but the reply is lost                 *)
(*   "flush"     Redis restarts (k8s/redis.yaml gives it no persistence)   *)
(*   "error"     an SQL statement fails and has no effect                  *)
(*   "lost"      an SQL statement takes effect but the reply is lost       *)
(*   "crash"     the server dies and is restarted                          *)
(***************************************************************************)
EXTENDS Naturals, Sequences, FiniteSets

CONSTANTS
  Account,    \* ids of the accounts that exist at the start
  Name,       \* display names
  None,       \* SQL NULL; an absent or empty name in a request
  Proc,       \* request slots
  SyncModes,  \* values IsTestMode() && !IsAsyncMode() may have
  Faults,     \* see above
  MaxTime,    \* bound on the clock
  MaxJobs     \* bound on the stream

ASSUME ProfileAssumption ==
  /\ SyncModes \subseteq BOOLEAN
  /\ Faults \subseteq {"redis", "redisLost", "flush", "error", "lost", "crash"}
  /\ MaxTime \in Nat /\ MaxJobs \in Nat /\ IsFiniteSet(Proc)
  /\ None \notin Name \cup Nat

VARIABLES
  profiles,   \* table users, the columns name and last_active_at
  stream,     \* last_active_stream in Redis
  syncMode,   \* IsTestMode() && !IsAsyncMode(), fixed by the environment
  now,        \* time.Now()
  pc,         \* per slot: the step its handler takes next
  req,        \* per slot: account, body and the time it stamped
  answer,     \* HTTP status the last step answered, 0 if none
  \* history variables
  enqueued,   \* touches Redis accepted
  applied     \* touches UpdateUserLastActive wrote to a row

vars == <<profiles, stream, syncMode, now, pc, req, answer, enqueued, applied>>

Time == 0..MaxTime
Row == [name : Name \cup {None}, last_active_at : Time \cup {None}]
Job == [user_id : Account, last_active_at : Time]
Request == [uid : Account \cup {None}, name : Name \cup {None}, at : Time]
NoRequest == [uid |-> None, name |-> None, at |-> 0]

Init ==
  /\ profiles \in [Account -> [name : Name \cup {None}, last_active_at : {None}]]
  /\ stream = <<>>
  /\ syncMode \in SyncModes
  /\ now = 0
  /\ pc = [p \in Proc |-> "idle"]
  /\ req = [p \in Proc |-> NoRequest]
  /\ answer = 0
  /\ enqueued = {}
  /\ applied = {}

-----------------------------------------------------------------------------
(* What the driver reports, and how a step ends. *)

SqlOutcome == {"ok"} \cup (Faults \cap {"error", "lost"})
XAddOutcome == {"ok"} \cup (Faults \cap {"redis", "redisLost"})

Continue(p, step) ==
  /\ pc' = [pc EXCEPT ![p] = step]
  /\ answer' = 0

Stamp(p) == req' = [req EXCEPT ![p].at = now]

Answer(p, status) ==
  /\ pc' = [pc EXCEPT ![p] = "idle"]
  /\ req' = [req EXCEPT ![p] = NoRequest]
  /\ answer' = status

Exists(u) == u \in DOMAIN profiles

(* Broken variant: the user id is not set. *)
AnonymousJobOf(p) == [user_id |-> None, last_active_at |-> req[p].at]

(* The job a touch is: EnqueueLastActive's entry and the UPDATE's arguments. *)
JobOf(p) == [user_id |-> req[p].uid, last_active_at |-> req[p].at]

(* Broken variant: INSERT ... ON CONFLICT DO UPDATE. *)
UpsertLastActive(u, t) ==
  /\ profiles' = [v \in DOMAIN profiles \cup {u} |->
                    IF v # u THEN profiles[v]
                    ELSE [name |-> IF Exists(u) THEN profiles[u].name ELSE None,
                          last_active_at |-> t]]
  /\ applied' = applied \cup {[user_id |-> u, last_active_at |-> t]}

(* UpdateUserLastActive: a missing row is an error that writes nothing. *)
SetLastActive(u, t) ==
  IF Exists(u)
  THEN /\ profiles' = [profiles EXCEPT ![u].last_active_at = t]
       /\ applied' = applied \cup {[user_id |-> u, last_active_at |-> t]}
  ELSE UNCHANGED <<profiles, applied>>

(* Broken variant: SET name = $2. *)
OverwriteName(u, n) == profiles' = [profiles EXCEPT ![u].name = n]

(* UpdateUser: COALESCE keeps the name when none is given. *)
SetName(u, n) ==
  profiles' = [profiles EXCEPT ![u].name = IF n = None THEN @ ELSE n]

-----------------------------------------------------------------------------
Accept(p, step, u, n) ==
  /\ pc' = [pc EXCEPT ![p] = step]
  /\ req' = [req EXCEPT ![p] = [uid |-> u, name |-> n, at |-> 0]]
  /\ answer' = 0
  /\ UNCHANGED <<profiles, stream, syncMode, now, enqueued, applied>>

(* Bound: every accepted GET still has room to enqueue its job. *)
RoomForJob ==
  Len(stream) + Cardinality({p \in Proc : pc[p] \in {"touch", "enqueue"}}) < MaxJobs

Arrive(p) ==
  /\ pc[p] = "idle"
  /\ \E u \in DOMAIN profiles :
       \/ RoomForJob /\ Accept(p, "touch", u, None)
       \/ \E n \in Name \cup {None} : Accept(p, "update", u, n)
       \/ Accept(p, "delete", u, None)

(* GetMe: SmartExecutor.UpdateUserLastActive reads the clock, ... *)
Touch(p) ==
  /\ pc[p] = "touch"
  /\ Stamp(p)
  /\ Continue(p, IF syncMode THEN "apply" ELSE "enqueue")
  /\ UNCHANGED <<profiles, stream, syncMode, now, enqueued, applied>>

(* XADD, whose entry may be added although the reply is lost. *)
XAdd(o, job) ==
  IF o = "redis" THEN UNCHANGED <<stream, enqueued>>
  ELSE stream' = Append(stream, job) /\ enqueued' = enqueued \cup {job}

(* Broken variant: no fallback when Redis fails. *)
EnqueueOrForget(p) ==
  /\ pc[p] = "enqueue"
  /\ \E o \in XAddOutcome : XAdd(o, JobOf(p))
  /\ Continue(p, "fetch")
  /\ UNCHANGED <<req, profiles, syncMode, now, applied>>

(* ... enqueues, and falls back to the database with a new timestamp, ... *)
Enqueue(p) ==
  /\ pc[p] = "enqueue"
  /\ \E o \in XAddOutcome :
       /\ XAdd(o, JobOf(p))
       /\ \/ o = "ok" /\ Continue(p, "fetch") /\ UNCHANGED req
          \/ o # "ok" /\ Continue(p, "apply") /\ Stamp(p)
  /\ UNCHANGED <<profiles, syncMode, now, applied>>

(* ... whose error GetMe ignores. *)
Apply(p) ==
  /\ pc[p] = "apply"
  /\ \E o \in SqlOutcome :
       IF o = "error" THEN UNCHANGED <<profiles, applied>>
       ELSE SetLastActive(req[p].uid, req[p].at)
  /\ Continue(p, "fetch")
  /\ UNCHANGED <<req, stream, syncMode, now, enqueued>>

(* GetUserByID: no row is a 500, like any other error. *)
Fetch(p) ==
  /\ pc[p] = "fetch"
  /\ \E o \in SqlOutcome :
       Answer(p, IF o = "ok" /\ Exists(req[p].uid) THEN 200 ELSE 500)
  /\ UNCHANGED <<profiles, stream, syncMode, now, enqueued, applied>>

UpdateMe(p) ==
  /\ pc[p] = "update"
  /\ \E o \in SqlOutcome :
       \/ /\ o # "error" /\ Exists(req[p].uid)
          /\ SetName(req[p].uid, req[p].name)
          /\ Answer(p, IF o = "ok" THEN 200 ELSE 500)
       \/ /\ o = "error" \/ ~Exists(req[p].uid)
          /\ UNCHANGED profiles
          /\ Answer(p, 500)
  /\ UNCHANGED <<stream, syncMode, now, enqueued, applied>>

DeleteMe(p) ==
  /\ pc[p] = "delete"
  /\ \E o \in SqlOutcome :
       /\ profiles' = IF o = "error" THEN profiles
                      ELSE [u \in DOMAIN profiles \ {req[p].uid} |-> profiles[u]]
       /\ Answer(p, IF o = "ok" THEN 200 ELSE 500)
  /\ UNCHANGED <<stream, syncMode, now, enqueued, applied>>

Handle(p) ==
  Touch(p) \/ Enqueue(p) \/ Apply(p) \/ Fetch(p) \/ UpdateMe(p) \/ DeleteMe(p)

(* Everything in the server's memory is lost; a job in Redis is not. *)
Crash ==
  /\ "crash" \in Faults
  /\ pc' = [p \in Proc |-> "idle"]
  /\ req' = [p \in Proc |-> NoRequest]
  /\ answer' = 0
  /\ UNCHANGED <<profiles, stream, syncMode, now, enqueued, applied>>

RedisRestart ==
  /\ "flush" \in Faults
  /\ stream' = <<>>
  /\ answer' = 0
  /\ UNCHANGED <<profiles, syncMode, now, pc, req, enqueued, applied>>

Tick ==
  /\ now < MaxTime
  /\ now' = now + 1
  /\ answer' = 0
  /\ UNCHANGED <<profiles, stream, syncMode, pc, req, enqueued, applied>>

Next ==
  \/ \E p \in Proc : Arrive(p) \/ Handle(p)
  \/ Crash
  \/ RedisRestart
  \/ Tick

Spec == Init /\ [][Next]_vars

(* Each handler's next step is taken: both drivers return or time out. *)
FairSpec == Spec /\ \A p \in Proc : WF_vars(Handle(p))

-----------------------------------------------------------------------------
(* Type invariant: every variable holds a value the code can produce. *)
TypeOK ==
  /\ DOMAIN profiles \subseteq Account
  /\ profiles \in [DOMAIN profiles -> Row]
  /\ stream \in Seq(Job) /\ Len(stream) <= MaxJobs
  /\ syncMode \in SyncModes
  /\ now \in Time
  /\ pc \in [Proc -> {"idle", "touch", "enqueue", "apply", "fetch", "update", "delete"}]
  /\ req \in [Proc -> Request]
  /\ answer \in {0, 200, 500}
  /\ enqueued \cup applied \subseteq Job

(* A deleted account does not come back: neither a late rename nor a late  *)
(* last-active update of a request that was authorised before the deletion *)
(* recreates its row.                                                      *)
DeletedStaysDeleted == [][DOMAIN profiles' \subseteq DOMAIN profiles]_vars

(* A name changes only when a PUT of the same account is answered, and to  *)
(* the name in its body: neither the touch of a GET nor a PUT without a    *)
(* name, racing it or not, disturbs it (users.go:68-76).                   *)
RenamedOnPurpose ==
  [][\A u \in DOMAIN profiles \cap DOMAIN profiles' :
       profiles'[u].name # profiles[u].name =>
         \E p \in Proc : /\ pc[p] = "update" /\ pc'[p] = "idle"
                         /\ req[p].uid = u
                         /\ req[p].name = profiles'[u].name /\ req[p].name # None]_vars

(* smart_executor.go:21-22: while UPDATEs take effect, no touch is dropped, *)
(* whatever Redis does and in either mode: before GetMe reads the profile, *)
(* Redis accepted the touch or it was written to the row, unless the       *)
(* account is gone.                                                        *)
TouchRecorded ==
  \A p \in Proc : pc[p] = "fetch" /\ Exists(req[p].uid) => JobOf(p) \in enqueued \cup applied

(* executor.go:11-12 and smart_executor.go:10-11: what GetMe enqueues for  *)
(* asynchronous execution, the background consumer executes.               *)
JobsAreExecuted ==
  \A u \in Account, t \in Time :
    LET job == [user_id |-> u, last_active_at |-> t]
    IN  (\E i \in DOMAIN stream : stream[i] = job) ~> (job \in applied \/ ~Exists(u))
=============================================================================
