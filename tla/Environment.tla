---------------------------- MODULE Environment ----------------------------
(***************************************************************************)
(* Process environment, .env file and mode switches (env/env.go).  The     *)
(* mode is not cached: every IsTestMode(), IsLocalDevMode(), ... loads the *)
(* .env file again and then reads the process environment.                 *)
(*                                                                         *)
(* REDIS stands for REDIS_HOST and REDIS_PORT, POSTGRES for the five       *)
(* POSTGRES_* variables NewDB requires: each group is needed as a whole.   *)
(***************************************************************************)
EXTENDS Integers

CONSTANTS
  Unset,      \* a variable that is absent, or a line the file does not have
  Junk        \* a value strconv.Atoi rejects

VARIABLES
  environ,    \* os.Environ() of the running process
  dotenv      \* contents of the .env file

Key == {"BACKEND_ENV", "ASYNC_MODE", "REDIS", "POSTGRES", "DB_MAX_OPEN_CONNS"}

AppEnvironment == {"local-dev", "dev", "staging", "prod", "test"}

(* To be absent is not a value. *)
ASSUME EnvironmentAssumption == Unset \notin AppEnvironment \cup {"true"}

(* godotenv.Load: a variable that is already set is never overridden. *)
Loaded(e, file) == [k \in Key |-> IF e[k] = Unset THEN file[k] ELSE e[k]]

GetApplicationEnv(e) == IF e["BACKEND_ENV"] = Unset THEN "local-dev" ELSE e["BACKEND_ENV"]

ValidEnv(e) == GetApplicationEnv(e) \in AppEnvironment

IsTestMode(e) == GetApplicationEnv(e) = "test"
IsLocalDevMode(e) == GetApplicationEnv(e) = "local-dev"
IsAsyncMode(e) == e["ASYNC_MODE"] = "true"

(* The test that decides whether Redis is used at all. *)
SyncTest(e) == IsTestMode(e) /\ ~IsAsyncMode(e)

LoadEnv == environ' = Loaded(environ, dotenv)
=============================================================================
