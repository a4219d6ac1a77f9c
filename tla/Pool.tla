-------------------------------- MODULE Pool --------------------------------
(***************************************************************************)
(* db/sqlc/connection_pool.go: how NewDBWithOptions sizes the pool, and    *)
(* pgxpool as the handlers use it: a statement takes a connection, first   *)
(* come first served and without a deadline, and gives it back when it     *)
(* ends.  No handler runs a statement while another one of its own is open.*)
(***************************************************************************)
EXTENDS Environment, FiniteSets, Sequences

CONSTANTS
  DefaultConns,   \* default of DB_MAX_OPEN_CONNS
  Modulus         \* 2^32: the conversion int32(maxConns) wraps

ASSUME PoolAssumption ==
  /\ DefaultConns \in Nat \ {0} /\ Modulus \in Nat \ {0}
  /\ 2 * DefaultConns < Modulus      \* the default fits an int32

VARIABLES
  maxConns,   \* size of the open pool, 0 when there is none
  waiting,    \* slots waiting for a connection
  holding     \* slots whose statement runs

poolVars == <<maxConns, waiting, holding>>

Int32(n) == LET m == n % Modulus IN IF 2 * m < Modulus THEN m ELSE m - Modulus

(* Broken variant: an unreadable value is read as 0. *)
GetEnvIntOrZero(v, default) == IF v = Unset THEN default ELSE IF v = Junk THEN 0 ELSE v

(* getEnvInt: an absent or unreadable value leaves the default. *)
GetEnvInt(v, default) == IF v \in {Unset, Junk} THEN default ELSE v

(* The size for the caller's override, 0 or less when it gives none. *)
PoolSize(override, e) ==
  Int32(IF override > 0 THEN override ELSE GetEnvInt(e["DB_MAX_OPEN_CONNS"], DefaultConns))

PoolInit == maxConns = 0 /\ waiting = <<>> /\ holding = {}

(* Broken variant: only 0 is refused. *)
CreatableUnless0(size) == size # 0

(* pgxpool refuses a pool without connections. *)
Creatable(size) == size >= 1

NewPool(size) == Creatable(size) /\ maxConns' = size /\ UNCHANGED <<waiting, holding>>

(* Everything in memory is lost with the process. *)
PoolGone == maxConns' = 0 /\ waiting' = <<>> /\ holding' = {}

Enqueue(p) == waiting' = Append(waiting, p) /\ UNCHANGED <<maxConns, holding>>

Acquire(p) ==
  /\ waiting # <<>> /\ p = Head(waiting)
  /\ Cardinality(holding) < maxConns
  /\ waiting' = Tail(waiting)
  /\ holding' = holding \cup {p}
  /\ UNCHANGED maxConns

Release(p) == p \in holding /\ holding' = holding \ {p} /\ UNCHANGED <<maxConns, waiting>>
=============================================================================
