------------------------------ MODULE Requests ------------------------------
(***************************************************************************)
(* The life of an HTTP request in one server process: its arrival on a     *)
(* route, UserAuthMiddleware (middlewares/auth.go) in front of the         *)
(* protected routes, its answer, and the loss of everything in memory when *)
(* the process dies.                                                       *)
(*                                                                         *)
(* A slot p \in Proc is one reusable request context: fasthttp serves the  *)
(* requests of a connection one after the other with the same RequestCtx,  *)
(* whose header buffer the next request overwrites.  Between two database  *)
(* statements any other slot may run, so each handler is cut into one step *)
(* per statement; the program-counter values name the step that is next.   *)
(*                                                                         *)
(* Faults selects which outcomes outside the handlers' control a run of    *)
(* the system exhibits:                                                    *)
(*   "error"  a statement fails and has no effect                          *)
(*   "lost"   a statement takes effect but the reply is lost (an error)    *)
(*   "crash"  the process dies and is restarted                            *)
(*   "panic"  the clean-up goroutine runs on a released fiber.Ctx, whose   *)
(*            Context() is nil: the unrecovered panic ends the process     *)
(*   "reuse"  the clean-up goroutine's token string aliases the header     *)
(*            buffer of its slot, which a later request overwrites         *)
(***************************************************************************)
EXTENDS Store, FiniteSets

CONSTANTS
  Proc,         \* request slots
  None,         \* no token, no e-mail, no password
  Faults,       \* see above
  AccessTTL,    \* accessTokenTTL
  RefreshTTL,   \* refreshTokenTTL
  MaxTime       \* bound on the clock

ASSUME FaultsAssumption == Faults \subseteq {"error", "lost", "crash", "panic", "reuse"}
ASSUME TTLAssumption == AccessTTL \in Nat /\ RefreshTTL \in Nat /\ AccessTTL <= RefreshTTL
ASSUME MaxTimeAssumption == MaxTime \in Nat
ASSUME NoneAssumption == None \notin Pair \cup Email \cup Password

VARIABLES
  now,        \* time.Now()
  pc,         \* per slot: the step its handler takes next
  req,        \* per slot: the request and the handler's local variables
  answer,     \* HTTP status the last step answered, 0 if it answered none
  cleanup,    \* goroutines started for expired tokens that have not run
  \* history variables, read only by guards on inputs and by properties
  minted,     \* every pair ever issued: its account and the pair it replaced
  delivered,  \* pairs a client has received in an answer
  loggedOut   \* pairs covered by a logout that was answered 200

historyVars == <<minted, delivered, loggedOut>>

(* routers/auth.go, routers/users.go: the first step of each route. *)
Route == [register |-> "checkEmail", login |-> "checkPassword", refresh |-> "findToken",
          logout |-> "authorize", delete |-> "authorize"]

Steps == {"checkEmail", "insertUser", "checkPassword", "findToken", "expire", "rotate",
          "issue", "authorize", "handle"}

Request == [op : DOMAIN Route \cup {None}, email : Email \cup {None},
            password : Password \cup {None}, tok : Pair \cup {None},
            uid : UserId \cup {0},   \* c.Locals("userID"), user.ID or tokenRecord.UserID
            live : BOOLEAN]          \* history: the token was active on arrival

NoRequest == [op |-> None, email |-> None, password |-> None, tok |-> None,
              uid |-> 0, live |-> FALSE]

RequestsTypeOK ==
  /\ now \in 0..MaxTime
  /\ pc \in [Proc -> Steps \cup {"idle"}]
  /\ req \in [Proc -> Request]
  /\ answer \in {0, 200, 201, 401, 409, 500}
  /\ cleanup \subseteq [slot : Proc, tok : Pair \cup {None}]
  /\ DOMAIN minted \subseteq Pair
  /\ minted \in [DOMAIN minted -> [user : UserId, parent : Pair \cup {None}]]
  /\ delivered \subseteq Pair
  /\ loggedOut \subseteq Pair

RequestsInit ==
  /\ now = 0
  /\ pc = [p \in Proc |-> "idle"]
  /\ req = [p \in Proc |-> NoRequest]
  /\ answer = 0
  /\ cleanup = {}
  /\ minted = [t \in {} |-> 0]
  /\ delivered = {}
  /\ loggedOut = {}

-----------------------------------------------------------------------------
(* How a step ends: the handler goes on, or it answers and is forgotten.   *)

Continue(p, step, u) ==
  /\ pc' = [pc EXCEPT ![p] = step]
  /\ req' = [req EXCEPT ![p].uid = u]
  /\ answer' = 0

Answer(p, status) ==
  /\ pc' = [pc EXCEPT ![p] = "idle"]
  /\ req' = [req EXCEPT ![p] = NoRequest]
  /\ answer' = status

(* What pgx reports for one statement. *)
Outcome == {"ok"} \cup (Faults \cap {"error", "lost"})

Rows(outcome, found) == IF outcome = "ok" THEN found ELSE {}

Live(t) == t \in DOMAIN tokens /\ tokens[t].is_active

-----------------------------------------------------------------------------
(* A request arrives.  Clients present tokens they were given, or none     *)
(* (a missing, malformed or invented token matches no row either way).     *)
(* The header buffer of the slot is overwritten with the request's bearer  *)
(* token, or with other bytes when it has none; a goroutine whose string   *)
(* aliases that part of the buffer sees the new contents.                  *)
Overwrite(p, bearer) ==
  \/ UNCHANGED cleanup
  \/ /\ "reuse" \in Faults
     /\ cleanup' = {IF g.slot = p THEN [g EXCEPT !.tok = bearer] ELSE g : g \in cleanup}

Accept(p, op, e, w, t, bearer) ==
  /\ pc[p] = "idle"
  /\ pc' = [pc EXCEPT ![p] = Route[op]]
  /\ req' = [req EXCEPT ![p] = [op |-> op, email |-> e, password |-> w, tok |-> t,
                                uid |-> 0, live |-> Live(t)]]
  /\ answer' = 0
  /\ Overwrite(p, bearer)
  /\ UNCHANGED <<storeVars, now, historyVars>>

(* Bounds: a request that inserts a row is accepted only while enough      *)
(* token pairs and user ids are left for all such requests in flight.      *)
Inserting == {p \in Proc : req[p].op \in {"register", "login", "refresh"}}
Registering == {p \in Proc : req[p].op = "register"}
PairsLeft == Cardinality(DOMAIN minted) + Cardinality(Inserting) < Cardinality(Pair)
IdsLeft == users_id_seq + Cardinality(Registering) < MaxUsers

Arrive(p) ==
  \/ /\ PairsLeft /\ IdsLeft
     /\ \E e \in Email, w \in Password : Accept(p, "register", e, w, None, None)
  \/ /\ PairsLeft
     /\ \E e \in Email, w \in Password : Accept(p, "login", e, w, None, None)
  \/ /\ PairsLeft
     /\ \E t \in delivered : Accept(p, "refresh", None, None, t, None)
  \/ \E op \in {"logout", "delete"}, t \in delivered \cup {None} :
       Accept(p, op, None, None, t, t)

(* UserAuthMiddleware: a failed lookup and a failed database both answer   *)
(* 401; an expired token starts a goroutine to deactivate it; otherwise    *)
(* the user id of the row is what the handler will act on.                 *)
Authorize(p) ==
  /\ pc[p] = "authorize"
  /\ \E o \in Outcome :
       LET found == Rows(o, GetUserTokenByAccessToken(req[p].tok))
           Expired(t) == now > tokens[t].access_token_expires_at
       IN  \/ /\ found = {}
              /\ Answer(p, 401)
              /\ UNCHANGED cleanup
           \/ \E t \in found :
                /\ Expired(t)
                /\ cleanup' = cleanup \cup {[slot |-> p, tok |-> t]}
                /\ Answer(p, 401)
           \/ \E t \in found :
                /\ ~Expired(t)
                /\ Continue(p, "handle", tokens[t].user_id)
                /\ UNCHANGED cleanup
  /\ UNCHANGED <<storeVars, now, historyVars>>

-----------------------------------------------------------------------------
(* The process dies: the database keeps its rows, memory is lost.          *)
Restart ==
  /\ pc' = [p \in Proc |-> "idle"]
  /\ req' = [p \in Proc |-> NoRequest]
  /\ answer' = 0
  /\ cleanup' = {}
  /\ UNCHANGED <<storeVars, now, historyVars>>

Crash == "crash" \in Faults /\ Restart

(* Broken variant: the request's context is already cancelled. *)
RunCleanupCancelled(g) ==
  /\ cleanup' = cleanup \ {g}
  /\ answer' = 0
  /\ UNCHANGED <<storeVars, now, pc, req, historyVars>>

(* The goroutine started by UserAuthMiddleware, after the handler has      *)
(* returned and the slot may have gone on to other requests.               *)
RunCleanup(g) ==
  \/ /\ \E o \in Outcome :
          IF o = "error" THEN UNCHANGED storeVars ELSE DeactivateToken(g.tok)
     /\ cleanup' = cleanup \ {g}
     /\ answer' = 0
     /\ UNCHANGED <<now, pc, req, historyVars>>
  \/ "panic" \in Faults /\ Restart

Tick ==
  /\ now < MaxTime
  /\ now' = now + 1
  /\ answer' = 0
  /\ UNCHANGED <<storeVars, pc, req, cleanup, historyVars>>
=============================================================================
