------------------------------ MODULE MCServer ------------------------------
(* Server on small instances: deployments with and without variables of    *)
(* their own, and the .env files that complete, break or change them.      *)
EXTENDS Server

CONSTANT Small, Wrapped   \* values of DB_MAX_OPEN_CONNS

Nothing == [k \in Key |-> Unset]

Complete == [Nothing EXCEPT !["REDIS"] = "set", !["POSTGRES"] = "set"]

(* A deployment that leaves PostgreSQL to .env, one that leaves the mode   *)
(* and has an unreadable pool size, one that leaves everything, and the    *)
(* asynchronous test mode.                                                 *)
MCEnvirons ==
  {[Complete EXCEPT !["BACKEND_ENV"] = "prod", !["POSTGRES"] = Unset],
   [Complete EXCEPT !["DB_MAX_OPEN_CONNS"] = Junk],
   Nothing,
   [Nothing EXCEPT !["BACKEND_ENV"] = "test", !["ASYNC_MODE"] = "true"]}

(* No file, the local one, one that asks for test mode, a misspelt mode,   *)
(* and one whose pool size wraps to a negative number.                     *)
MCFiles ==
  {Nothing,
   [Complete EXCEPT !["DB_MAX_OPEN_CONNS"] = Small],
   [Nothing EXCEPT !["BACKEND_ENV"] = "test"],
   [Complete EXCEPT !["BACKEND_ENV"] = "production"],
   [Complete EXCEPT !["DB_MAX_OPEN_CONNS"] = Wrapped]}
=============================================================================
