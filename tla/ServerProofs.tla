---------------------------- MODULE ServerProofs ----------------------------
(***************************************************************************)
(* Safety of module Server for any number of slots, any deployments and    *)
(* .env files and any pool sizes.  The mode is read again at every step,   *)
(* so the argument is about what a re-read may change: a variable that has *)
(* a value keeps it, hence test mode, once read, is read for ever, and     *)
(* what a step skipped because of it is not missed later: StartApp leaves. *)
(***************************************************************************)
EXTENDS Server, TLAPS

(* A variable of the deployment keeps its value, and any other one has a   *)
(* value some .env gave it.                                                *)
Inherits ==
  \A k \in Key :
    /\ deployed[k] # Unset => environ[k] = deployed[k]
    /\ environ[k] \in {deployed[k]} \cup {f[k] : f \in Files}

(* What each start-up step has left behind for the following ones. *)
Prepared ==
  /\ stage = "pingRedis" => client
  /\ stage \in {"skipRedis", "fiber", "logging", "newDB", "openPool", "connected", "ping",
                "routes", "startApp"} => client \/ IsTestMode(environ)
  /\ stage \in {"newDB", "openPool", "connected", "ping", "routes", "startApp"} =>
       logging \/ IsTestMode(environ)
  /\ stage = "openPool" => opts = Options(environ)
  /\ stage \in {"connected", "ping", "routes", "startApp", "serving"} => maxConns >= 1
  /\ stage = "serving" => client /\ logging /\ deployed["BACKEND_ENV"] # "test"

(* Requests are served, and the pool is used, by a serving process only.   *)
Quiet ==
  stage # "serving" => waiting = <<>> /\ holding = {} /\ \A p \in Proc : pc[p] = "idle"

(* The mode SmartExecutor read for a touch it did not execute: it stays    *)
(* the mode unless an edit turns .env meanwhile.                           *)
StillAsync ==
  \A p \in Proc : pc[p] = "enqueue" /\ p \notin turned =>
    /\ ~SyncTest(environ)
    /\ environ["BACKEND_ENV"] = Unset => dotenv["BACKEND_ENV"] # "test"

IInv == TypeOK /\ Inherits /\ Prepared /\ NoLeak /\ Quiet /\ StillAsync

Place == {"idle", "cleanup", "touch", "enqueue", "next"} \cup Waits \cup Running

-----------------------------------------------------------------------------
(* A load keeps what has a value, in particular a mode that was test.      *)
LEMMA LoadKeeps ==
  ASSUME IInv, LoadEnv, UNCHANGED outside
  PROVE  /\ Inherits' /\ StillAsync
         /\ DOMAIN environ' = Key
         /\ IsTestMode(environ) => IsTestMode(environ')
         /\ \A k \in Key : environ'[k] = IF environ[k] = Unset THEN dotenv[k] ELSE environ[k]
<1>1. \A k \in Key : environ'[k] = IF environ[k] = Unset THEN dotenv[k] ELSE environ[k]
  BY DEF LoadEnv, Loaded
<1>2. dotenv \in Files /\ deployed' = deployed
  BY DEF IInv, TypeOK, outside
<1>3. Inherits'
  BY <1>1, <1>2 DEF IInv, Inherits
<1>4. IsTestMode(environ) => IsTestMode(environ')
  BY <1>1 DEF IsTestMode, GetApplicationEnv, Key
<1>5. DOMAIN environ' = Key
  BY DEF LoadEnv, Loaded
<1> QED BY <1>1, <1>3, <1>4, <1>5 DEF IInv

(* Whoever loads .env, a touch under way finds no other mode than the one  *)
(* it was sent out with, unless .env was turned.                           *)
LEMMA LoadKeepsMode ==
  ASSUME IInv, LoadEnv, UNCHANGED outside, NEW p \in Proc, pc[p] = "enqueue", p \notin turned
  PROVE  /\ ~SyncTest(environ')
         /\ environ'["BACKEND_ENV"] = Unset => dotenv'["BACKEND_ENV"] # "test"
<1>1. \A k \in Key : environ'[k] = IF environ[k] = Unset THEN dotenv[k] ELSE environ[k]
  BY LoadKeeps
<1>2. /\ ~SyncTest(environ)
      /\ environ["BACKEND_ENV"] = Unset => dotenv["BACKEND_ENV"] # "test"
  BY DEF IInv, StillAsync
<1>3. "true" # Unset /\ "test" # Unset
  BY EnvironmentAssumption DEF AppEnvironment
<1>4. dotenv' = dotenv
  BY DEF outside
<1> QED BY <1>1, <1>2, <1>3, <1>4
        DEF SyncTest, IsTestMode, IsAsyncMode, GetApplicationEnv, Key

(* The size NewDBWithOptions computes is an integer, whatever it reads.    *)
LEMMA SizeIsInt ==
  ASSUME IInv, Inherits', UNCHANGED deployed
  PROVE  PoolSize(0, environ') \in Int
<1> DEFINE v == environ'["DB_MAX_OPEN_CONNS"]
           n == GetEnvInt(v, DefaultConns)
<1>1. v \in {Unset, Junk} \/ v \in Int
  BY EnvironsAssumption DEF Inherits, Key, IInv, TypeOK
<1>2. n \in Int
  BY <1>1, PoolAssumption DEF GetEnvInt
<1>3. n % Modulus \in Int
  BY <1>2, PoolAssumption
<1>4. Int32(n) \in Int
  BY <1>3, PoolAssumption DEF Int32
<1>5. PoolSize(0, environ') = Int32(n)
  BY DEF PoolSize
<1> QED BY <1>4, <1>5
-----------------------------------------------------------------------------
LEMMA InitHolds == Init => IInv
<1> SUFFICES ASSUME Init PROVE IInv
  OBVIOUS
<1>1. TypeOK
  <2>1. <<>> \in Seq(Proc)
    OBVIOUS
  <2>2. deployed \in Environs /\ dotenv \in Files /\ DOMAIN environ = Key
    BY EnvironsAssumption DEF Init
  <2>3. DOMAIN opts = {"postgres", "size"} /\ opts.size \in Int
    BY DEF Init, NoOptions
  <2>4. pc \in [Proc -> {"idle", "cleanup", "touch", "enqueue", "next"} \cup Waits \cup Running]
    BY DEF Init, AllIdle
  <2> QED BY <2>1, <2>2, <2>3, <2>4 DEF Init, PoolInit, TypeOK, StartUp
<1>2. Inherits
  BY DEF Init, Inherits
<1>3. Prepared /\ NoLeak /\ Quiet /\ StillAsync
  BY DEF Init, PoolInit, AllIdle, Prepared, NoLeak, Quiet, StillAsync, Running
<1> QED BY <1>1, <1>2, <1>3 DEF IInv

(* The end of the process leaves nothing to be wrong. *)
LEMMA ExitKeeps ==
  ASSUME IInv, Exit, UNCHANGED outside, LoadEnv \/ UNCHANGED environ
  PROVE  IInv'
<1>1. Inherits' /\ DOMAIN environ' = Key
  <2>1. CASE LoadEnv
    BY <2>1, LoadKeeps
  <2>2. CASE UNCHANGED environ
    BY <2>2 DEF IInv, Inherits, TypeOK, outside
  <2> QED BY <2>1, <2>2
<1>2. <<>> \in Seq(Proc)
  OBVIOUS
<1>3. AllIdle \in [Proc -> {"idle", "cleanup", "touch", "enqueue", "next"} \cup Waits \cup Running]
  BY DEF AllIdle
<1>4. DOMAIN opts' = {"postgres", "size"} /\ opts'.size \in Int
  BY DEF Exit, NoOptions
<1>5. TypeOK'
  BY <1>1, <1>2, <1>3, <1>4 DEF IInv, TypeOK, Exit, PoolGone, outside
<1>6. Prepared' /\ NoLeak' /\ Quiet' /\ StillAsync'
  BY DEF Exit, PoolGone, AllIdle, Prepared, NoLeak, Quiet, StillAsync, Running
<1> QED BY <1>1, <1>5, <1>6 DEF IInv

(* A start-up step that goes on leaves slots and queue as empty as they    *)
(* were: what remains to be shown is what it prepares.                     *)
LEMMA StartUpGoesOn ==
  ASSUME IInv, stage # "serving", LoadEnv \/ UNCHANGED environ, UNCHANGED outside,
         NEW next \in StartUp \cup {"serving"}, Proceed(next),
         client' \in BOOLEAN, logging' \in BOOLEAN,
         DOMAIN opts' = {"postgres", "size"}, opts'.size \in Int,
         maxConns' \in Nat, UNCHANGED <<waiting, holding>>,
         Prepared'
  PROVE  IInv'
<1>1. Inherits' /\ DOMAIN environ' = Key
  <2>1. CASE LoadEnv
    BY <2>1, LoadKeeps
  <2>2. CASE UNCHANGED environ
    BY <2>2 DEF IInv, Inherits, TypeOK, outside
  <2> QED BY <2>1, <2>2
<1>2. UNCHANGED <<pc, turned>> /\ stage' = next
  BY DEF Proceed
<1>3. TypeOK'
  BY <1>1, <1>2 DEF IInv, TypeOK, outside
<1>4. \A p \in Proc : pc[p] = "idle"
  BY DEF IInv, Quiet
<1>5. NoLeak' /\ Quiet' /\ StillAsync'
  BY <1>2, <1>4 DEF IInv, NoLeak, Quiet, StillAsync
<1> QED BY <1>1, <1>3, <1>5 DEF IInv

(* A mode read that decides nothing. *)
LEMMA ReadModeKeeps ==
  ASSUME IInv,
         NEW from \in {"skipRedis", "fiber", "connected", "routes"},
         NEW to \in {"fiber", "logging", "ping", "startApp"},
         ReadMode(from, to),
         from \in {"skipRedis", "fiber"} => to \in {"fiber", "logging"}
  PROVE  IInv'
<1>1. LoadEnv /\ UNCHANGED outside /\ stage = from
  BY DEF ReadMode
<1>2. IsTestMode(environ) => IsTestMode(environ')
  BY <1>1, LoadKeeps
<1>3. CASE Exit
  BY <1>1, <1>3, ExitKeeps
<1>4. CASE Proceed(to) /\ UNCHANGED setUp
  <2>1. stage' = to /\ UNCHANGED setUp
    BY <1>4 DEF Proceed
  <2>2. Prepared'
    BY <1>1, <1>2, <2>1 DEF IInv, Prepared, setUp, poolVars
  <2>3. /\ client' \in BOOLEAN /\ logging' \in BOOLEAN /\ maxConns' \in Nat
        /\ DOMAIN opts' = {"postgres", "size"} /\ opts'.size \in Int
        /\ UNCHANGED <<waiting, holding>>
    BY <2>1 DEF IInv, TypeOK, setUp, poolVars
  <2>4. to \in StartUp /\ stage # "serving"
    BY <1>1 DEF StartUp
  <2> QED BY <1>1, <1>4, <2>2, <2>3, <2>4, StartUpGoesOn
<1> QED BY <1>3, <1>4 DEF ReadMode

(* Every start-up step loads .env, or leaves the environment alone. *)
LEMMA BootKeeps ==
  ASSUME IInv, Boot
  PROVE  IInv'
<1>1. /\ client \in BOOLEAN /\ logging \in BOOLEAN /\ maxConns \in Nat
      /\ DOMAIN opts = {"postgres", "size"} /\ opts.size \in Int
  BY DEF IInv, TypeOK
<1>2. Prepared
  BY DEF IInv
<1>3. CASE Setup
  <2>1. /\ LoadEnv /\ UNCHANGED outside /\ stage = "setup"
        /\ Proceed("initRedis") /\ UNCHANGED setUp
    BY <1>3 DEF Setup
  <2>2. Prepared'
    BY <2>1 DEF Prepared, Proceed
  <2> QED BY <1>1, <2>1, <2>2, StartUpGoesOn DEF setUp, poolVars, StartUp
<1>4. CASE InitRedis
  <2>1. LoadEnv /\ UNCHANGED outside /\ stage = "initRedis"
    BY <1>4 DEF InitRedis
  <2>2. CASE Exit
    BY <2>1, <2>2, ExitKeeps
  <2>3. CASE ~Exit
    <3> DEFINE next == IF SyncTest(environ') THEN "skipRedis" ELSE "pingRedis"
    <3>1. /\ client' = ~SyncTest(environ') /\ Proceed(next)
          /\ UNCHANGED <<logging, opts, poolVars>>
      BY <1>4, <2>3 DEF InitRedis
    <3>2. Prepared'
      BY <3>1 DEF Prepared, Proceed, SyncTest
    <3>3. client' \in BOOLEAN
      BY <3>1 DEF SyncTest, IsTestMode, IsAsyncMode
    <3>4. next \in StartUp
      BY DEF StartUp
    <3> QED BY <1>1, <2>1, <3>1, <3>2, <3>3, <3>4, StartUpGoesOn DEF poolVars
  <2> QED BY <2>2, <2>3
<1>5. CASE SkipRedis
  BY <1>5, ReadModeKeeps DEF SkipRedis
<1>6. CASE PingRedis
  <2>1. /\ LoadEnv \/ UNCHANGED environ
        /\ UNCHANGED outside /\ stage = "pingRedis"
    BY <1>6 DEF PingRedis
  <2>2. CASE Exit
    BY <2>1, <2>2, ExitKeeps
  <2>3. CASE ~Exit
    <3>1. Proceed("fiber") /\ UNCHANGED setUp
      BY <1>6, <2>3 DEF PingRedis
    <3>2. Prepared'
      BY <1>2, <2>1, <3>1 DEF Prepared, Proceed, setUp
    <3> QED BY <1>1, <2>1, <3>1, <3>2, StartUpGoesOn DEF setUp, poolVars, StartUp
  <2> QED BY <2>2, <2>3
<1>7. CASE Fiber
  BY <1>7, ReadModeKeeps DEF Fiber
<1>8. CASE Logging
  <2>1. LoadEnv /\ UNCHANGED outside /\ stage = "logging"
    BY <1>8 DEF Logging
  <2>2. IsTestMode(environ) => IsTestMode(environ')
    BY <2>1, LoadKeeps
  <2>3. CASE Exit
    BY <2>1, <2>3, ExitKeeps
  <2>4. CASE ~Exit
    <3>1. /\ logging' = ~IsTestMode(environ') /\ Proceed("newDB")
          /\ UNCHANGED <<client, opts, poolVars>>
      BY <1>8, <2>4 DEF Logging
    <3>2. Prepared'
      BY <1>2, <2>1, <2>2, <3>1 DEF Prepared, Proceed
    <3>3. logging' \in BOOLEAN
      BY <3>1 DEF IsTestMode
    <3> QED BY <1>1, <2>1, <3>1, <3>2, <3>3, StartUpGoesOn DEF poolVars, StartUp
  <2> QED BY <2>3, <2>4
<1>9. CASE NewDB
  <2>1. /\ LoadEnv /\ UNCHANGED outside /\ stage = "newDB"
        /\ opts' = Options(environ') /\ Proceed("openPool")
        /\ UNCHANGED <<client, logging, poolVars>>
    BY <1>9 DEF NewDB
  <2>2. Inherits' /\ (IsTestMode(environ) => IsTestMode(environ'))
    BY <2>1, LoadKeeps
  <2>3. PoolSize(0, environ') \in Int
    BY <2>1, <2>2, SizeIsInt DEF outside
  <2>4. DOMAIN opts' = {"postgres", "size"} /\ opts'.size \in Int
    BY <2>1, <2>3 DEF Options
  <2>5. Prepared'
    BY <1>2, <2>1, <2>2 DEF Prepared, Proceed
  <2> QED BY <1>1, <2>1, <2>4, <2>5, StartUpGoesOn DEF poolVars, StartUp
<1>10. CASE OpenPool
  <2>1. LoadEnv /\ UNCHANGED outside /\ stage = "openPool"
    BY <1>10 DEF OpenPool
  <2>2. IsTestMode(environ) => IsTestMode(environ')
    BY <2>1, LoadKeeps
  <2>3. CASE Exit
    BY <2>1, <2>3, ExitKeeps
  <2>4. CASE ~Exit
    <3>1. /\ NewPool(opts.size) /\ opts' = NoOptions /\ Proceed("connected")
          /\ UNCHANGED <<client, logging>>
      BY <1>10, <2>4 DEF OpenPool
    <3>2. maxConns' \in Nat /\ maxConns' >= 1 /\ UNCHANGED <<waiting, holding>>
      BY <1>1, <3>1 DEF NewPool, Creatable
    <3>3. DOMAIN opts' = {"postgres", "size"} /\ opts'.size \in Int
      BY <3>1 DEF NoOptions
    <3>4. Prepared'
      BY <1>2, <2>1, <2>2, <3>1, <3>2 DEF Prepared, Proceed
    <3> QED BY <1>1, <2>1, <3>1, <3>2, <3>3, <3>4, StartUpGoesOn DEF StartUp
  <2> QED BY <2>3, <2>4
<1>11. CASE Connected
  BY <1>11, ReadModeKeeps DEF Connected
<1>12. CASE Ping
  <2>1. LoadEnv /\ UNCHANGED outside /\ stage = "ping"
    BY <1>12 DEF Ping
  <2>2. IsTestMode(environ) => IsTestMode(environ')
    BY <2>1, LoadKeeps
  <2>3. CASE Exit
    BY <2>1, <2>3, ExitKeeps
  <2>4. CASE ~Exit
    <3>1. Proceed("routes") /\ UNCHANGED setUp
      BY <1>12, <2>4 DEF Ping
    <3>2. Prepared'
      BY <1>2, <2>1, <2>2, <3>1 DEF Prepared, Proceed, setUp, poolVars
    <3> QED BY <1>1, <2>1, <3>1, <3>2, StartUpGoesOn DEF setUp, poolVars, StartUp
  <2> QED BY <2>3, <2>4
<1>13. CASE Routes
  BY <1>13, ReadModeKeeps DEF Routes
<1>14. CASE StartApp
  <2>1. LoadEnv /\ UNCHANGED outside /\ stage = "startApp"
    BY <1>14 DEF StartApp
  <2>2. /\ Inherits'
        /\ IsTestMode(environ) => IsTestMode(environ')
    BY <2>1, LoadKeeps
  <2>3. CASE Exit
    BY <2>1, <2>3, ExitKeeps
  <2>4. CASE ~Exit
    <3>1. ~IsTestMode(environ') /\ Proceed("serving") /\ UNCHANGED setUp
      BY <1>14, <2>4 DEF StartApp
    <3>2. deployed'["BACKEND_ENV"] # "test"
      BY <2>2, <3>1, EnvironmentAssumption
         DEF Inherits, IsTestMode, GetApplicationEnv, Key, AppEnvironment
    <3>3. Prepared'
      BY <1>2, <2>1, <2>2, <3>1, <3>2 DEF Prepared, Proceed, setUp, poolVars
    <3> QED BY <1>1, <2>1, <3>1, <3>3, StartUpGoesOn DEF setUp, poolVars
  <2> QED BY <2>3, <2>4
<1> QED BY <1>3, <1>4, <1>5, <1>6, <1>7, <1>8, <1>9, <1>10, <1>11, <1>12, <1>13, <1>14 DEF Boot
-----------------------------------------------------------------------------
(* Requests. *)

(* A step that goes on leaves the process as prepared as it was, and every *)
(* touch under way in the mode it was sent out with.                       *)
LEMMA GoOn ==
  ASSUME IInv, stage = "serving", NEW p \in Proc, NEW step \in Place, Goto(p, step),
         LoadEnv \/ UNCHANGED environ, UNCHANGED outside,
         step = "enqueue" => LoadEnv /\ ~SyncTest(environ'),
         UNCHANGED maxConns, waiting' \in Seq(Proc), holding' \subseteq Proc, NoLeak'
  PROVE  IInv'
<1>1. /\ pc' = [pc EXCEPT ![p] = step] /\ turned' = turned \ {p}
      /\ UNCHANGED <<stage, client, logging, opts>>
  BY DEF Goto
<1>2. Inherits' /\ DOMAIN environ' = Key
  <2>1. CASE LoadEnv
    BY <2>1, LoadKeeps
  <2>2. CASE UNCHANGED environ
    BY <2>2 DEF IInv, Inherits, TypeOK, outside
  <2> QED BY <2>1, <2>2
<1>3. pc \in [Proc -> Place]
  BY DEF IInv, TypeOK, Place
<1>4. TypeOK'
  BY <1>1, <1>2, <1>3 DEF IInv, TypeOK, outside, Place
<1>5. Prepared' /\ Quiet'
  BY <1>1 DEF IInv, Prepared, Quiet, outside
<1>6. ASSUME NEW q \in Proc, pc'[q] = "enqueue", q \notin turned'
      PROVE  /\ ~SyncTest(environ')
             /\ environ'["BACKEND_ENV"] = Unset => dotenv'["BACKEND_ENV"] # "test"
  <2>1. CASE q = p
    <3>1. step = "enqueue" /\ LoadEnv /\ ~SyncTest(environ') /\ dotenv' = dotenv
      BY <1>1, <1>3, <1>6, <2>1 DEF outside
    <3>2. environ'["BACKEND_ENV"] =
            IF environ["BACKEND_ENV"] = Unset THEN dotenv["BACKEND_ENV"] ELSE environ["BACKEND_ENV"]
      BY <3>1, LoadKeeps DEF Key
    <3>3. "test" # Unset
      BY EnvironmentAssumption DEF AppEnvironment
    <3> QED BY <3>1, <3>2, <3>3
  <2>2. CASE q # p
    <3>1. pc[q] = "enqueue" /\ q \notin turned
      BY <1>1, <1>3, <1>6, <2>2
    <3>2. CASE LoadEnv
      BY <3>1, <3>2, LoadKeepsMode
    <3>3. CASE UNCHANGED environ
      BY <3>1, <3>3 DEF IInv, StillAsync, outside
    <3> QED BY <3>2, <3>3
  <2> QED BY <2>1, <2>2
<1>7. StillAsync'
  BY <1>6 DEF StillAsync
<1> QED BY <1>2, <1>4, <1>5, <1>7 DEF IInv

(* What a step of a slot leaves of the pool. *)
PoolSound == UNCHANGED maxConns /\ waiting' \in Seq(Proc) /\ holding' \subseteq Proc /\ NoLeak'

(* The four ways a step may treat the pool. *)
LEMMA PoolKeeps ==
  ASSUME IInv, NEW p \in Proc, NEW step \in Place, Goto(p, step)
  PROVE  /\ UNCHANGED poolVars /\ pc[p] \notin Running /\ step \notin Running => PoolSound
         /\ Enqueue(p) /\ pc[p] \notin Running /\ step \notin Running => PoolSound
         /\ Acquire(p) /\ step \in Running => PoolSound
         /\ Release(p) /\ step \notin Running => PoolSound
<1>1. pc' = [pc EXCEPT ![p] = step] /\ pc \in [Proc -> Place]
  BY DEF Goto, IInv, TypeOK, Place
<1>2. waiting \in Seq(Proc) /\ holding \subseteq Proc /\ NoLeak
  BY DEF IInv, TypeOK
<1>3. ASSUME UNCHANGED poolVars, pc[p] \notin Running, step \notin Running PROVE PoolSound
  BY <1>1, <1>2, <1>3 DEF poolVars, NoLeak, PoolSound
<1>4. ASSUME Enqueue(p), pc[p] \notin Running, step \notin Running PROVE PoolSound
  BY <1>1, <1>2, <1>4 DEF Enqueue, NoLeak, PoolSound
<1>5. ASSUME Acquire(p), step \in Running PROVE PoolSound
  <2>1. NoLeak'
    BY <1>1, <1>2, <1>5 DEF Acquire, NoLeak
  <2>2. waiting' \in Seq(Proc) /\ UNCHANGED maxConns /\ holding' = holding \cup {p}
    BY <1>2, <1>5 DEF Acquire
  <2> QED BY <1>2, <2>1, <2>2 DEF PoolSound
<1>6. ASSUME Release(p), step \notin Running PROVE PoolSound
  BY <1>1, <1>2, <1>6 DEF Release, NoLeak, PoolSound
<1> QED BY <1>3, <1>4, <1>5, <1>6

LEMMA RequestKeeps ==
  ASSUME IInv, NEW p \in Proc, Arrive(p) \/ Handle(p) \/ Start(p)
  PROVE  IInv'
<1> USE DEF PoolSound, Place, Waits, Running
<1>0. pc[p] # "idle" => stage = "serving"
  BY DEF IInv, Quiet
<1>1. CASE Arrive(p)
  <2>1. UNCHANGED outside /\ UNCHANGED environ /\ pc[p] = "idle" /\ stage = "serving"
    BY <1>1 DEF Arrive
  <2>2. PICK step \in {"waitAuth", "wait"} : Goto(p, step) /\ Enqueue(p)
    BY <1>1 DEF Arrive
  <2> QED BY <2>1, <2>2, PoolKeeps, GoOn
<1>2. CASE Authorize(p)
  <2>1. UNCHANGED outside /\ UNCHANGED environ /\ stage = "serving"
    BY <1>0, <1>2 DEF Authorize
  <2>2. PICK step \in {"idle", "cleanup", "touch", "next"} : Goto(p, step) /\ Release(p)
    BY <1>2 DEF Authorize
  <2> QED BY <2>1, <2>2, PoolKeeps, GoOn
<1>3. CASE Cleanup(p)
  <2>1. /\ UNCHANGED outside /\ UNCHANGED environ /\ pc[p] = "cleanup" /\ stage = "serving"
        /\ Goto(p, "waitCleanup") /\ Enqueue(p)
    BY <1>0, <1>3 DEF Cleanup
  <2> QED BY <2>1, PoolKeeps, GoOn
<1>4. CASE Panic(p)
  BY <1>4, ExitKeeps DEF Panic
<1>5. CASE Touch(p)
  <2>1. UNCHANGED outside /\ LoadEnv /\ pc[p] = "touch" /\ stage = "serving"
    BY <1>0, <1>5 DEF Touch
  <2>2. CASE Exit
    BY <2>1, <2>2, ExitKeeps
  <2>3. CASE Goto(p, "waitTouch") /\ Enqueue(p)
    BY <2>1, <2>3, PoolKeeps, GoOn
  <2>4. CASE ~SyncTest(environ') /\ Goto(p, "enqueue") /\ UNCHANGED poolVars
    BY <2>1, <2>4, PoolKeeps, GoOn
  <2> QED BY <1>5, <2>2, <2>3, <2>4 DEF Touch
<1>6. CASE EnqueueLastActive(p)
  <2>1. UNCHANGED outside /\ LoadEnv /\ pc[p] = "enqueue" /\ stage = "serving"
    BY <1>0, <1>6 DEF EnqueueLastActive
  <2>2. CASE Exit
    BY <2>1, <2>2, ExitKeeps
  <2>3. CASE Goto(p, "next") /\ UNCHANGED poolVars
    BY <2>1, <2>3, PoolKeeps, GoOn
  <2>4. CASE Goto(p, "waitTouch") /\ Enqueue(p)
    BY <2>1, <2>4, PoolKeeps, GoOn
  <2> QED BY <1>6, <2>2, <2>3, <2>4 DEF EnqueueLastActive
<1>7. CASE Apply(p)
  <2>1. UNCHANGED outside /\ (LoadEnv \/ UNCHANGED environ) /\ stage = "serving"
    BY <1>0, <1>7 DEF Apply
  <2>2. CASE LoadEnv /\ Exit
    BY <2>1, <2>2, ExitKeeps
  <2>3. CASE Release(p) /\ Goto(p, "next")
    BY <2>1, <2>3, PoolKeeps, GoOn
  <2> QED BY <1>7, <2>2, <2>3 DEF Apply
<1>8. CASE Continue(p)
  <2>1. /\ UNCHANGED outside /\ UNCHANGED environ /\ pc[p] = "next" /\ stage = "serving"
        /\ Goto(p, "wait") /\ Enqueue(p)
    BY <1>0, <1>8 DEF Continue
  <2> QED BY <2>1, PoolKeeps, GoOn
<1>9. CASE Finish(p)
  <2>1. UNCHANGED outside /\ UNCHANGED environ /\ stage = "serving" /\ Release(p)
    BY <1>0, <1>9 DEF Finish
  <2>2. PICK step \in {"idle", "next"} : Goto(p, step)
    BY <1>9 DEF Finish
  <2> QED BY <2>1, <2>2, PoolKeeps, GoOn
<1>10. CASE Start(p)
  <2>1. UNCHANGED outside /\ UNCHANGED environ /\ Acquire(p) /\ pc[p] \in Waits /\ stage = "serving"
    BY <1>0, <1>10 DEF Start
  <2>2. Runs[pc[p]] \in Running /\ Goto(p, Runs[pc[p]])
    BY <1>10, <2>1 DEF Start, Runs
  <2> QED BY <2>1, <2>2, PoolKeeps, GoOn
<1> QED BY <1>1, <1>2, <1>3, <1>4, <1>5, <1>6, <1>7, <1>8, <1>9, <1>10 DEF Handle

LEMMA NextKeeps ==
  ASSUME IInv, [Next]_vars
  PROVE  IInv'
<1> USE DEF IInv
<1>1. CASE Boot
  BY <1>1, BootKeeps
<1>2. CASE Restart
  <2>1. /\ environ' = deployed /\ stage = "exited" /\ stage' = "setup"
        /\ UNCHANGED <<outside, setUp, pc, turned>>
    BY <1>2 DEF Restart
  <2>2. Inherits'
    BY <2>1 DEF Inherits, outside
  <2>3. TypeOK'
    BY <2>1, EnvironsAssumption DEF TypeOK, StartUp, outside, setUp, poolVars
  <2>4. Prepared'
    BY <2>1 DEF Prepared
  <2>5. NoLeak' /\ Quiet' /\ StillAsync'
    BY <2>1 DEF NoLeak, Quiet, StillAsync, setUp, poolVars
  <2> QED BY <2>2, <2>3, <2>4, <2>5
<1>3. CASE \E p \in Proc : Arrive(p) \/ Handle(p) \/ Start(p)
  BY <1>3, RequestKeeps
<1>4. CASE Edit
  <2>1. /\ dotenv' \in Files /\ turned \subseteq turned' /\ turned' \subseteq Proc
        /\ UNCHANGED <<environ, deployed, up, stage, client, logging, opts, maxConns, waiting,
                       holding, pc>>
    BY <1>4 DEF Edit, setUp, poolVars, TypeOK
  <2>2. TypeOK' /\ Inherits'
    BY <2>1 DEF TypeOK, Inherits
  <2>3. Prepared'
    BY <2>1 DEF Prepared
  <2>4. NoLeak' /\ Quiet'
    BY <2>1 DEF NoLeak, Quiet
  <2>5. StillAsync'
    BY <1>4, <2>1 DEF StillAsync, Edit
  <2> QED BY <2>2, <2>3, <2>4, <2>5
<1>5. CASE Outage
  <2>1. /\ up' \subseteq Service
        /\ UNCHANGED <<environ, dotenv, deployed, stage, client, logging, opts, maxConns, waiting,
                       holding, pc, turned>>
    BY <1>5 DEF Outage, TypeOK, setUp, poolVars
  <2>2. TypeOK' /\ Inherits' /\ Prepared'
    BY <2>1 DEF TypeOK, Inherits, Prepared
  <2>3. NoLeak' /\ Quiet' /\ StillAsync'
    BY <2>1 DEF NoLeak, Quiet, StillAsync
  <2> QED BY <2>2, <2>3
<1>6. CASE UNCHANGED vars
  <2>1. UNCHANGED <<environ, dotenv, deployed, up, stage, client, logging, opts, maxConns, waiting,
                    holding, pc, turned>>
    BY <1>6 DEF vars, outside, setUp, poolVars
  <2>2. TypeOK' /\ Inherits' /\ Prepared'
    BY <2>1 DEF TypeOK, Inherits, Prepared
  <2>3. NoLeak' /\ Quiet' /\ StillAsync'
    BY <2>1 DEF NoLeak, Quiet, StillAsync
  <2> QED BY <2>2, <2>3
<1> QED BY <1>1, <1>2, <1>3, <1>4, <1>5, <1>6 DEF Next
-----------------------------------------------------------------------------
(* The inductive invariant: the environment only fills up, each start-up   *)
(* step has left what the following ones rely on, connections are held     *)
(* exactly by running statements, and a touch under way keeps the mode it  *)
(* was sent out with until .env is turned (setup.go:21-104, redis.go:57).  *)
THEOREM Invariance == Spec => []IInv
<1>1. Init => IInv
  BY InitHolds
<1>2. IInv /\ [Next]_vars => IInv'
  BY NextKeeps
<1> QED BY <1>1, <1>2, PTL DEF Spec

(* Every reachable state is well typed. *)
THEOREM ServerTypeCorrect == Spec => []TypeOK
<1>1. IInv => TypeOK
  BY DEF IInv
<1> QED BY <1>1, Invariance, PTL

(* setup.go:21-104: a serving process has its pool, its Redis client and   *)
(* its logging middleware, whatever happened to .env during start-up.      *)
THEOREM ServesOnlyPrepared == Spec => []ServesPrepared
<1>1. IInv => ServesPrepared
  BY DEF IInv, Prepared, ServesPrepared
<1> QED BY <1>1, Invariance, PTL

(* smart_executor.go:22-31: no handler holds a connection while it waits   *)
(* for another one.                                                        *)
THEOREM ConnectionsAreReturned == Spec => []NoLeak
<1>1. IInv => NoLeak
  BY DEF IInv
<1> QED BY <1>1, Invariance, PTL

(* env.go:44, middlewares/auth.go:37: a serving process ends only when a   *)
(* request meets an invalid BACKEND_ENV or a clean-up goroutine panics on  *)
(* a released context; the nil client EnqueueLastActive would panic on is  *)
(* never met, and no outage ends it.                                       *)
THEOREM ServingContinues == Spec => StaysUp
<1> DEFINE Excused == ~ValidEnv(environ') \/ \E p \in Proc : Panic(p)
           Stays == stage = "serving" /\ stage' # "serving" => Excused
<1>1. IInv /\ [Next]_vars => [Stays]_vars
  <2> SUFFICES ASSUME IInv, Next, stage = "serving", stage' # "serving"
               PROVE  Excused
    OBVIOUS
  <2>1. client
    BY DEF IInv, Prepared
  <2>2. PICK p \in Proc : Arrive(p) \/ Handle(p) \/ Start(p)
    BY DEF Next, Boot, Setup, InitRedis, SkipRedis, PingRedis, Fiber, Logging, NewDB, OpenPool,
       Connected, Ping, Routes, StartApp, ReadMode, Restart, Edit, Outage
  <2>3. CASE Panic(p)
    BY <2>3
  <2>4. CASE Touch(p)
    BY <2>4 DEF Touch, Goto
  <2>5. CASE EnqueueLastActive(p)
    BY <2>1, <2>5 DEF EnqueueLastActive, Goto
  <2>6. CASE Apply(p)
    BY <2>6 DEF Apply, Goto
  <2>7. CASE Arrive(p) \/ Authorize(p) \/ Cleanup(p) \/ Continue(p) \/ Finish(p) \/ Start(p)
    BY <2>7 DEF Arrive, Authorize, Cleanup, Continue, Finish, Start, Goto
  <2> QED BY <2>2, <2>3, <2>4, <2>5, <2>6, <2>7 DEF Handle
<1>2. Spec => [][Next]_vars
  BY DEF Spec
<1> QED BY <1>1, <1>2, Invariance, PTL DEF StaysUp

(* smart_executor.go:24, redis.go:57: a touch is lost between the two mode *)
(* reads of its request only when an edit turned .env to test mode between *)
(* them, and only where .env, not the deployment, decides the mode.        *)
THEOREM TouchesAreDroppedByEditsOnly == Spec => DropsNeedAnEdit
<1> DEFINE Excused(p) == /\ p \in turned
                         /\ deployed["BACKEND_ENV"] = Unset /\ deployed["ASYNC_MODE"] # "true"
           Edited == \A p \in Proc : Drops(p) => Excused(p)
<1>1. IInv /\ [Next]_vars => [Edited]_vars
  <2> SUFFICES ASSUME IInv, Next, NEW p \in Proc, Drops(p)
               PROVE  Excused(p)
    OBVIOUS
  <2>1. pc[p] = "enqueue" /\ pc'[p] = "next" /\ pc \in [Proc -> Place] /\ stage = "serving"
    BY DEF Drops, IInv, Quiet, TypeOK, Place
  <2>2. PICK q \in Proc : Arrive(q) \/ Handle(q) \/ Start(q)
    BY <2>1 DEF Next, Boot, Setup, InitRedis, SkipRedis, PingRedis, Fiber, Logging, NewDB, OpenPool,
       Connected, Ping, Routes, StartApp, ReadMode, Restart, Edit, Outage
  <2>3. EnqueueLastActive(p)
    <3>1. ~Exit
      BY <2>1 DEF Exit, AllIdle
    <3>2. q = p
      BY <2>1, <2>2, <3>1 DEF Handle, Arrive, Authorize, Cleanup, Panic, Touch, EnqueueLastActive,
         Apply, Continue, Finish, Start, Goto
    <3> QED BY <2>1, <2>2, <3>2 DEF Handle, Arrive, Authorize, Cleanup, Panic, Touch, Apply,
            Continue, Finish, Start, Waits
  <2>4. LoadEnv /\ UNCHANGED outside /\ SyncTest(environ')
    BY <2>1, <2>3 DEF Drops, EnqueueLastActive, Exit, AllIdle, Goto
  <2>5. p \in turned
    BY <2>1, <2>4, LoadKeepsMode
  <2>6. deployed["BACKEND_ENV"] # "test"
    BY <2>1 DEF IInv, Prepared
  <2>7. environ'["BACKEND_ENV"] = "test" /\ environ'["ASYNC_MODE"] # "true"
    BY <2>4 DEF SyncTest, IsTestMode, IsAsyncMode, GetApplicationEnv
  <2>8. \A k \in Key : deployed[k] # Unset => environ'[k] = deployed[k]
    BY <2>4, LoadKeeps DEF Inherits, outside
  <2> QED BY <2>5, <2>6, <2>7, <2>8, EnvironmentAssumption DEF Key, AppEnvironment
<1>2. Spec => [][Next]_vars
  BY DEF Spec
<1> QED BY <1>1, <1>2, Invariance, PTL DEF DropsNeedAnEdit

(* A fresh process reads the same environment at every start-up step.      *)
LEMMA LoadsTheSame ==
  ASSUME TypeOK, Untainted, LoadEnv
  PROVE  environ' = Loaded(deployed, dotenv)
<1>1. DOMAIN deployed = Key
  BY EnvironsAssumption DEF TypeOK
<1>2. Loaded(Loaded(deployed, dotenv), dotenv) = Loaded(deployed, dotenv)
  BY DEF Loaded
<1> QED BY <1>2 DEF Untainted, LoadEnv

(* The size a complete configuration gives is one pgxpool accepts.         *)
LEMMA ConfiguredSize ==
  ASSUME Configured
  PROVE  Creatable(PoolSize(0, Loaded(deployed, dotenv)))
<1> DEFINE v == Loaded(deployed, dotenv)["DB_MAX_OPEN_CONNS"]
<1>1. PoolSize(0, Loaded(deployed, dotenv)) = Int32(GetEnvInt(v, DefaultConns))
  BY DEF PoolSize
<1>2. CASE v \in {Unset, Junk}
  <2>1. DefaultConns % Modulus = DefaultConns
    BY PoolAssumption
  <2>2. Int32(DefaultConns) = DefaultConns
    BY <2>1, PoolAssumption DEF Int32
  <2> QED BY <1>1, <1>2, <2>2, PoolAssumption DEF GetEnvInt, Creatable
<1>3. CASE v \notin {Unset, Junk}
  BY <1>1, <1>3 DEF Configured, GetEnvInt
<1> QED BY <1>2, <1>3

(* setup.go:21-104: a start-up that finds what it needs, and has read what *)
(* it would read now, takes no fatal exit, for every deployment and file.  *)
(* The locals of NewDB count as read: no load comes between the one they   *)
(* are from (connection_pool.go:37) and the one at :67.                    *)
THEOREM ConfiguredStartUpSucceeds == Spec => ConfiguredStartsUp
<1> DEFINE Succeeds == Configured /\ Untainted /\ stage \in StartUp /\ stage' # stage =>
                         stage' # "exited" /\ Untainted'
<1>1. IInv /\ [Next]_vars => [Succeeds]_vars
  <2> SUFFICES ASSUME IInv, Next, Configured, Untainted, stage \in StartUp, stage' # stage
               PROVE  stage' # "exited" /\ Untainted'
    OBVIOUS
  <2> DEFINE e == Loaded(deployed, dotenv)
  <2>1. Boot
    <3>1. stage \notin {"serving", "exited"} /\ \A p \in Proc : pc[p] = "idle"
      BY DEF StartUp, IInv, Quiet
    <3> QED BY <3>1 DEF Next, Restart, Arrive, Handle, Authorize, Cleanup, Panic, Touch,
          EnqueueLastActive, Apply, Continue, Finish, Start, Edit, Outage, Waits
  <2>2. UNCHANGED <<deployed, dotenv>>
    BY <2>1 DEF Boot, Setup, InitRedis, SkipRedis, PingRedis, Fiber, Logging, NewDB, OpenPool,
       Connected, Ping, Routes, StartApp, ReadMode, outside
  <2>3. LoadEnv => environ' = e
    BY LoadsTheSame DEF IInv
  <2>4. (environ' = environ /\ stage = "pingRedis") \/ environ' = e
    BY <2>1, <2>3 DEF Boot, Setup, InitRedis, SkipRedis, PingRedis, Fiber, Logging, NewDB, OpenPool,
       Connected, Ping, Routes, StartApp, ReadMode
  <2>5. environ' = e
    BY <2>4 DEF Untainted
  <2>6. /\ ValidEnv(e) /\ ~IsTestMode(e) /\ e["REDIS"] # Unset /\ e["POSTGRES"] \notin {Unset, Junk}
        /\ {"postgres", "port"} \subseteq up
        /\ "redis" \in up \/ IsLocalDevMode(e)
        /\ Creatable(PoolSize(0, e))
    BY ConfiguredSize DEF Configured
  <2>7. stage = "openPool" => opts.postgres = e["POSTGRES"] /\ opts.size = PoolSize(0, e)
    BY DEF IInv, Prepared, Options, Untainted
  <2> HIDE DEF e
  <2>8. stage' \in StartUp \cup {"serving"} /\ stage' # "setup"
    <3>1. CASE Setup
      BY <3>1 DEF Setup, Proceed, StartUp
    <3>2. CASE InitRedis
      BY <2>5, <2>6, <3>2 DEF InitRedis, Proceed, StartUp
    <3>3. CASE PingRedis
      BY <2>5, <2>6, <3>3 DEF PingRedis, Proceed, StartUp
    <3>4. CASE SkipRedis \/ Fiber \/ Connected \/ Routes
      BY <2>5, <2>6, <3>4 DEF SkipRedis, Fiber, Connected, Routes, ReadMode, Proceed, StartUp
    <3>5. CASE Logging
      BY <2>5, <2>6, <3>5 DEF Logging, Proceed, StartUp
    <3>6. CASE NewDB
      BY <3>6 DEF NewDB, Proceed, StartUp
    <3>7. CASE OpenPool
      BY <2>5, <2>6, <2>7, <3>7 DEF OpenPool, Proceed, StartUp
    <3>8. CASE Ping
      BY <2>5, <2>6, <3>8 DEF Ping, Proceed, StartUp
    <3>9. CASE StartApp
      BY <2>5, <2>6, <3>9 DEF StartApp, Proceed, StartUp
    <3> QED BY <2>1, <3>1, <3>2, <3>3, <3>4, <3>5, <3>6, <3>7, <3>8, <3>9 DEF Boot
  <2>9. Untainted'
    BY <2>2, <2>5, <2>8 DEF Untainted, e
  <2> QED BY <2>8, <2>9 DEF StartUp
<1>2. Spec => [][Next]_vars
  BY DEF Spec
<1> QED BY <1>1, <1>2, Invariance, PTL DEF ConfiguredStartsUp
=============================================================================
