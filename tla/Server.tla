------------------------------- MODULE Server -------------------------------
(***************************************************************************)
(* One server process over its life: SetupApp and StartApp (setup.go) with *)
(* their fatal exits, then requests that read the mode (core/jobs) and     *)
(* share the connection pool, then its end and its restart.  Meanwhile     *)
(* PostgreSQL, Redis and port 3000 come and go and the .env file is        *)
(* edited.                                                                 *)
(*                                                                         *)
(* Start-up is cut before every load of .env, so that an edit or an outage *)
(* may come between any two of them; a call of Redis or PostgreSQL shares  *)
(* the step of the load next to it, which it does not affect.  log.Fatal,  *)
(* an unrecovered panic and a return from main all end the process: Exit.  *)
(* A slot is a request, and after the middleware found an expired token,   *)
(* the clean-up goroutine it started.  Of a handler only its mode reads,   *)
(* its calls of Redis and its turns in the pool matter here.               *)
(***************************************************************************)
EXTENDS Pool

CONSTANTS
  Proc,       \* request slots
  Environs,   \* environments the process may be deployed with
  Files       \* contents the .env file may have; all Unset when it is absent

ASSUME EnvironsAssumption ==
  \A f \in Environs \cup Files :
    /\ DOMAIN f = Key
    /\ f["DB_MAX_OPEN_CONNS"] \in {Unset, Junk} \/ f["DB_MAX_OPEN_CONNS"] \in Int

VARIABLES
  deployed,   \* the environment every incarnation of the process starts with
  stage,      \* what the process does next: a start-up step, or "serving", "exited"
  client,     \* RedisClient # nil
  logging,    \* LoggingMiddleware is installed
  opts,       \* NewDBWithOptions' locals: POSTGRES as read, and the pool's size
  up,         \* services that are reachable; port 3000 is one when it is free
  pc,         \* per slot: the step its handler takes next
  turned      \* history: slots at EnqueueLastActive since whose mode read an
              \* edit turned BACKEND_ENV of .env to test

outside == <<dotenv, deployed, up>>
setUp == <<client, logging, opts, poolVars>>
vars == <<environ, outside, stage, setUp, pc, turned>>

Service == {"postgres", "redis", "port"}

StartUp ==
  {"setup", "initRedis", "skipRedis", "pingRedis", "fiber", "logging", "newDB", "openPool",
   "connected", "ping", "routes", "startApp"}

(* The four kinds of statements: while a slot waits for a connection, and  *)
(* while it has it.                                                        *)
Runs == [waitAuth |-> "runAuth", waitTouch |-> "runTouch", waitCleanup |-> "runCleanup",
         wait |-> "run"]

Waits == {"waitAuth", "waitTouch", "waitCleanup", "wait"}
Running == {"runAuth", "runTouch", "runCleanup", "run"}

AllIdle == [p \in Proc |-> "idle"]
NoOptions == [postgres |-> Unset, size |-> 0]

Init ==
  /\ deployed \in Environs /\ environ = deployed
  /\ dotenv \in Files
  /\ stage = "setup"
  /\ client = FALSE /\ logging = FALSE /\ opts = NoOptions
  /\ up \in SUBSET Service
  /\ PoolInit
  /\ pc = AllIdle /\ turned = {}

(* The process ends and everything in its memory is gone. *)
Exit ==
  /\ stage' = "exited"
  /\ client' = FALSE /\ logging' = FALSE /\ opts' = NoOptions
  /\ PoolGone
  /\ pc' = AllIdle /\ turned' = {}

Proceed(next) == stage' = next /\ UNCHANGED <<pc, turned>>

-----------------------------------------------------------------------------
(* SetupApp and StartApp.  IsTestMode() and IsLocalDevMode() load .env and *)
(* end the process when BACKEND_ENV is not a mode.                         *)

Setup ==
  /\ stage = "setup"
  /\ LoadEnv /\ Proceed("initRedis") /\ UNCHANGED setUp
  /\ UNCHANGED outside

(* A mode read that decides only what is printed or displayed. *)
ReadMode(from, to) ==
  /\ stage = from
  /\ LoadEnv
  /\ IF ValidEnv(environ') THEN Proceed(to) /\ UNCHANGED setUp ELSE Exit
  /\ UNCHANGED outside

InitRedis ==
  /\ stage = "initRedis"
  /\ LoadEnv
  /\ IF ~ValidEnv(environ') \/ (~SyncTest(environ') /\ environ'["REDIS"] = Unset)
     THEN Exit
     ELSE /\ client' = ~SyncTest(environ')
          /\ Proceed(IF SyncTest(environ') THEN "skipRedis" ELSE "pingRedis")
          /\ UNCHANGED <<logging, opts, poolVars>>
  /\ UNCHANGED outside

SkipRedis == ReadMode("skipRedis", "fiber")   \* LogDebug's

(* Broken variant: Redis is required in every mode. *)
PingRedisAlways ==
  /\ stage = "pingRedis"
  /\ LoadEnv
  /\ IF "redis" \in up THEN Proceed("fiber") /\ UNCHANGED setUp ELSE Exit
  /\ UNCHANGED outside

(* Only local-dev goes on without Redis. *)
PingRedis ==
  /\ stage = "pingRedis"
  /\ \/ "redis" \in up /\ UNCHANGED environ
     \/ "redis" \notin up /\ LoadEnv
  /\ IF "redis" \in up \/ IsLocalDevMode(environ')
     THEN Proceed("fiber") /\ UNCHANGED setUp
     ELSE Exit
  /\ UNCHANGED outside

Fiber == ReadMode("fiber", "logging")

Logging ==
  /\ stage = "logging"
  /\ LoadEnv
  /\ IF ValidEnv(environ')
     THEN logging' = ~IsTestMode(environ') /\ Proceed("newDB") /\ UNCHANGED <<client, opts, poolVars>>
     ELSE Exit
  /\ UNCHANGED outside

Options(e) == [postgres |-> e["POSTGRES"], size |-> PoolSize(0, e)]

(* NewDB loads .env, reads its variables into locals, ... *)
NewDB ==
  /\ stage = "newDB"
  /\ LoadEnv
  /\ opts' = Options(environ')
  /\ Proceed("openPool") /\ UNCHANGED <<client, logging, poolVars>>
  /\ UNCHANGED outside

(* ... and then the mode: test mode has defaults for what was not set.  A  *)
(* pool that is created but whose ping fails is closed again.              *)
OpenPool ==
  /\ stage = "openPool"
  /\ LoadEnv
  /\ IF /\ ValidEnv(environ')
        /\ opts.postgres # Junk /\ (opts.postgres # Unset \/ IsTestMode(environ'))
        /\ Creatable(opts.size) /\ "postgres" \in up
     THEN NewPool(opts.size) /\ opts' = NoOptions
          /\ Proceed("connected") /\ UNCHANGED <<client, logging>>
     ELSE Exit
  /\ UNCHANGED outside

Connected == ReadMode("connected", "ping")

(* SetupApp pings once more, ... *)
Ping ==
  /\ stage = "ping"
  /\ LoadEnv
  /\ IF "postgres" \in up /\ ValidEnv(environ')
     THEN Proceed("routes") /\ UNCHANGED setUp
     ELSE Exit
  /\ UNCHANGED outside

(* ... and registers probes and routes. *)
Routes == ReadMode("routes", "startApp")

(* Broken variant: test mode listens like the others. *)
StartAppAlways ==
  /\ stage = "startApp"
  /\ LoadEnv
  /\ IF ValidEnv(environ') /\ "port" \in up
     THEN Proceed("serving") /\ UNCHANGED setUp
     ELSE Exit
  /\ UNCHANGED outside

(* In test mode Listen runs in a goroutine and main returns at once. *)
StartApp ==
  /\ stage = "startApp"
  /\ LoadEnv
  /\ IF ValidEnv(environ') /\ ~IsTestMode(environ') /\ "port" \in up
     THEN Proceed("serving") /\ UNCHANGED setUp
     ELSE Exit
  /\ UNCHANGED outside

Boot ==
  \/ Setup \/ InitRedis \/ SkipRedis \/ PingRedis \/ Fiber \/ Logging
  \/ NewDB \/ OpenPool \/ Connected \/ Ping \/ Routes \/ StartApp

(* The supervisor starts the process again; /healthz asks only for the    *)
(* listener, so no serving process is killed for an outage.                *)
Restart ==
  /\ stage = "exited"
  /\ environ' = deployed
  /\ stage' = "setup"
  /\ UNCHANGED <<outside, setUp, pc, turned>>

-----------------------------------------------------------------------------
(* Requests. *)

Goto(p, step) ==
  /\ pc' = [pc EXCEPT ![p] = step] /\ turned' = turned \ {p}
  /\ UNCHANGED <<stage, client, logging, opts>>

(* On a protected route the middleware looks the token up first; /readyz   *)
(* and the other handlers go straight to a statement of their own.         *)
Arrive(p) ==
  /\ stage = "serving" /\ pc[p] = "idle"
  /\ \E step \in {"waitAuth", "wait"} : Goto(p, step) /\ Enqueue(p)
  /\ UNCHANGED <<environ, outside>>

(* The token is unknown, expired, or that of a GET /users/me or of another *)
(* handler's request.                                                      *)
Authorize(p) ==
  /\ pc[p] = "runAuth"
  /\ \E step \in {"idle", "cleanup", "touch", "next"} : Goto(p, step) /\ Release(p)
  /\ UNCHANGED <<environ, outside>>

(* The request of the expired token has been answered; its goroutine runs  *)
(* an UPDATE of its own, ...                                               *)
Cleanup(p) ==
  /\ pc[p] = "cleanup"
  /\ Goto(p, "waitCleanup") /\ Enqueue(p)
  /\ UNCHANGED <<environ, outside>>

(* ... or finds the context of that request released, and pgxpool panics   *)
(* on its nil RequestCtx.  Nobody recovers a goroutine of the middleware.  *)
Panic(p) == pc[p] = "cleanup" /\ Exit /\ UNCHANGED <<environ, outside>>

(* SmartExecutor.UpdateUserLastActive chooses by the mode of the moment, ... *)
Touch(p) ==
  /\ pc[p] = "touch"
  /\ LoadEnv
  /\ \/ ~ValidEnv(environ') /\ Exit
     \/ ValidEnv(environ') /\ SyncTest(environ') /\ Goto(p, "waitTouch") /\ Enqueue(p)
     \/ ValidEnv(environ') /\ ~SyncTest(environ') /\ Goto(p, "enqueue") /\ UNCHANGED poolVars
  /\ UNCHANGED outside

(* Broken variant: a failed XADD is fatal. *)
EnqueueOrDie(p) ==
  /\ pc[p] = "enqueue"
  /\ LoadEnv
  /\ \/ "redis" \notin up /\ Exit
     \/ "redis" \in up /\ Goto(p, "next") /\ UNCHANGED poolVars
  /\ UNCHANGED outside

(* Broken variant: the error of a failed XADD is not looked at. *)
EnqueueUnchecked(p) ==
  /\ pc[p] = "enqueue"
  /\ LoadEnv
  /\ \/ ValidEnv(environ') /\ Goto(p, "next") /\ UNCHANGED poolVars
     \/ ~ValidEnv(environ') /\ Exit
  /\ UNCHANGED outside

(* ... and EnqueueLastActive reads the mode again: when it has become the  *)
(* synchronous one, the touch is neither enqueued nor executed.            *)
EnqueueLastActive(p) ==
  /\ pc[p] = "enqueue"
  /\ LoadEnv
  /\ LET skipped == ValidEnv(environ') /\ SyncTest(environ')
         sent == ValidEnv(environ') /\ ~SyncTest(environ') /\ client
     IN  \/ ~skipped /\ ~sent /\ Exit      \* a nil client panics
         \/ skipped /\ Goto(p, "next") /\ UNCHANGED poolVars
         \/ sent /\ "redis" \in up /\ Goto(p, "next") /\ UNCHANGED poolVars
         \/ sent /\ "redis" \notin up /\ Goto(p, "waitTouch") /\ Enqueue(p)
  /\ UNCHANGED outside

(* Broken variant: the touch keeps its connection for the next statement. *)
ApplyKeeping(p) ==
  /\ pc[p] = "runTouch"
  /\ Goto(p, "next")
  /\ UNCHANGED <<environ, outside, poolVars>>

(* JobExecutor.UpdateUserLastActive: only a failure is logged, and logging *)
(* reads the mode.  GetMe goes on in either case.                          *)
Apply(p) ==
  /\ pc[p] = "runTouch"
  /\ \/ UNCHANGED environ /\ Release(p) /\ Goto(p, "next")
     \/ LoadEnv /\ ValidEnv(environ') /\ Release(p) /\ Goto(p, "next")
     \/ LoadEnv /\ ~ValidEnv(environ') /\ Exit
  /\ UNCHANGED outside

(* The handler's next statement. *)
Continue(p) ==
  /\ pc[p] = "next"
  /\ Goto(p, "wait") /\ Enqueue(p)
  /\ UNCHANGED <<environ, outside>>

(* A connection becomes free for the slot, ... *)
Start(p) ==
  /\ pc[p] \in Waits /\ Acquire(p)
  /\ Goto(p, Runs[pc[p]])
  /\ UNCHANGED <<environ, outside>>

(* ... and a statement returns, with a result or an error: the request is  *)
(* answered, or the handler has another statement to run.                  *)
Finish(p) ==
  /\ \/ pc[p] = "run" /\ (\E step \in {"idle", "next"} : Goto(p, step))
     \/ pc[p] = "runCleanup" /\ Goto(p, "idle")
  /\ Release(p)
  /\ UNCHANGED <<environ, outside>>

Handle(p) ==
  \/ Authorize(p) \/ Cleanup(p) \/ Panic(p)
  \/ Touch(p) \/ EnqueueLastActive(p) \/ Apply(p) \/ Continue(p) \/ Finish(p)

-----------------------------------------------------------------------------
(* The world around the process. *)

Edit ==
  /\ dotenv' \in Files
  /\ turned' = turned \cup {p \in Proc : /\ pc[p] = "enqueue"
                                         /\ dotenv["BACKEND_ENV"] # "test"
                                         /\ dotenv'["BACKEND_ENV"] = "test"}
  /\ UNCHANGED <<environ, deployed, up, stage, setUp, pc>>

Outage ==
  /\ \E s \in Service : up' \in {up \cup {s}, up \ {s}}
  /\ UNCHANGED <<environ, dotenv, deployed, stage, setUp, pc, turned>>

Next ==
  \/ Boot
  \/ Restart
  \/ \E p \in Proc : Arrive(p) \/ Handle(p) \/ Start(p)
  \/ Edit
  \/ Outage

Spec == Init /\ [][Next]_vars

(* The Go scheduler runs the start-up code and every handler,              *)
(* statement_timeout ends every statement, a free connection is handed to  *)
(* the first waiter, and the supervisor restarts the process.              *)
Fairness ==
  /\ WF_vars(Boot) /\ WF_vars(Restart)
  /\ \A p \in Proc : WF_vars(Handle(p)) /\ WF_vars(Start(p))

FairSpec == Spec /\ Fairness

-----------------------------------------------------------------------------
(* Type invariant: every variable holds a value the code can produce. *)
TypeOK ==
  /\ deployed \in Environs /\ dotenv \in Files
  /\ DOMAIN environ = Key
  /\ stage \in StartUp \cup {"serving", "exited"}
  /\ client \in BOOLEAN /\ logging \in BOOLEAN
  /\ DOMAIN opts = {"postgres", "size"} /\ opts.size \in Int
  /\ up \subseteq Service
  /\ maxConns \in Nat
  /\ waiting \in Seq(Proc) /\ holding \subseteq Proc
  /\ pc \in [Proc -> {"idle", "cleanup", "touch", "enqueue", "next"} \cup Waits \cup Running]
  /\ turned \subseteq Proc

(* A process that serves has a pool, the Redis client EnqueueLastActive    *)
(* dereferences and the logging middleware, although each was decided by a *)
(* mode read of its own while .env changed (redis.go:22, setup.go:48, :91). *)
ServesPrepared ==
  stage = "serving" => maxConns >= 1 /\ client /\ logging

(* A slot holds a connection only while its statement runs, and none while *)
(* it waits for one: the pool cannot lock itself up.                       *)
NoLeak == holding = {p \in Proc : pc[p] \in Running}

(* Once it serves, the process ends for two reasons only: an invalid       *)
(* BACKEND_ENV met by a request (env.go:44), and the panic of a clean-up   *)
(* goroutine on a released context (middlewares/auth.go:37).  No outage of *)
(* PostgreSQL or Redis, no nil client and no exhausted pool ends it        *)
(* (smart_executor.go:24, redis.go:61).                                    *)
StaysUp ==
  [][stage = "serving" /\ stage' # "serving" =>
       ~ValidEnv(environ') \/ \E p \in Proc : Panic(p)]_vars

(* Handler p goes on to the profile although its touch was neither         *)
(* accepted by Redis nor handed to the fallback.                           *)
Drops(p) == pc[p] = "enqueue" /\ pc'[p] = "next" /\ (SyncTest(environ') \/ "redis" \notin up)

(* redis.go:57 against smart_executor.go:24: a touch is dropped only if,   *)
(* between the two mode reads of this very request, an edit turned .env to *)
(* test mode, and only in a deployment that leaves BACKEND_ENV to .env and *)
(* does not ask for ASYNC_MODE.                                            *)
DropsNeedAnEdit ==
  [][\A p \in Proc : Drops(p) =>
       /\ p \in turned
       /\ deployed["BACKEND_ENV"] = Unset /\ deployed["ASYNC_MODE"] # "true"]_vars

(* What a fresh process finds, and what it needs. *)
Configured ==
  LET e == Loaded(deployed, dotenv)
  IN  /\ ValidEnv(e) /\ ~IsTestMode(e)
      /\ e["REDIS"] # Unset /\ e["POSTGRES"] \notin {Unset, Junk}
      /\ \/ e["DB_MAX_OPEN_CONNS"] \in {Unset, Junk}
         \/ Creatable(Int32(e["DB_MAX_OPEN_CONNS"]))
      /\ {"postgres", "port"} \subseteq up
      /\ "redis" \in up \/ IsLocalDevMode(e)

(* What the process has read so far is what it would read now: .env has    *)
(* not given it anything an edit took back, nor withheld what it now has.  *)
Untainted == environ = IF stage = "setup" THEN deployed ELSE Loaded(deployed, dotenv)

(* setup.go:21-104: a start-up that finds its configuration complete and   *)
(* its services reachable takes none of the fatal exits, whichever steps   *)
(* its mode makes it skip, and what it read remains what it would read.    *)
(* This is lost when an edit comes between two loads: a variable that .env *)
(* gains after connection_pool.go:37 is missed at :87.                     *)
ConfiguredStartsUp ==
  [][Configured /\ Untainted /\ stage \in StartUp /\ stage' # stage =>
       stage' # "exited" /\ Untainted']_vars

(* README.md:60 and redis.go:48: once configuration and services settle,   *)
(* the server serves again and again, from whatever half-started state,    *)
(* and if no clean-up goroutine panics any more (middlewares/auth.go:37)   *)
(* it ends up serving for good.  Local-dev does not need Redis for it.     *)
EventuallyServes ==
  <>[]Configured =>
    /\ []<>(stage = "serving")
    /\ <>[](stage = "serving") \/ []<><<\E p \in Proc : Panic(p)>>_vars

(* Every slot that asks for a connection gets one, or its process ends,    *)
(* although requests keep arriving and take several turns each.            *)
NoStarvation == \A p \in Proc : pc[p] \in Waits ~> pc[p] \notin Waits
=============================================================================
