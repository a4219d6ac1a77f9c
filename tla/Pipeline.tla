------------------------------ MODULE Pipeline ------------------------------
(***************************************************************************)
(* A request on its way through the handlers SetupApp installs: CORS,      *)
(* LoggingMiddleware, UserAuthMiddleware, ValidateBody, the handler, then  *)
(* back through the log line to the answer.  Module Api follows the        *)
(* sessions; here it is the body, the status and the log that are          *)
(* followed, over the same users table.                                    *)
(*                                                                         *)
(* Passwords are compared as sent and e-mails as they reach the statement: *)
(* Email and Password are the texts clients may send.                      *)
(***************************************************************************)
EXTENDS Validation, Store

CONSTANTS
  Proc,     \* request slots
  Names,    \* display names clients may send, Plain(Empty) for none
  Faults    \* {"error"}: statements may fail; {}: they do not

ASSUME TextAssumption ==
  /\ Email \cup Password \cup Names \subseteq Text
  /\ Nil \notin [email : Email, password : Password]
ASSUME MailboxAssumption ==      \* the normal form of a mailbox may be typed as well
  \A t \in Email : t.word \in Mailbox => Plain(t.word) \in Email
ASSUME PipelineFaults == Faults \subseteq {"error"}

VARIABLES
  logging,    \* LoggingMiddleware is installed: not in test mode
  pc,         \* per slot: what runs next
  ctx,        \* per slot: the fiber.Ctx
  answer      \* the status the last step sent, 0 if it sent none

vars == <<storeVars, logging, pc, ctx, answer>>

(* Where each route starts behind CORS and LoggingMiddleware. *)
Entry == [register |-> "validate", login |-> "validate", refresh |-> "validate",
          logout |-> "auth", get |-> "auth", put |-> "auth", delete |-> "auth",
          probe |-> "handle", unknown |-> "log", preflight |-> "send"]

Struct == [register |-> RegisterRequest, login |-> LoginRequest,
           refresh |-> RefreshRequest, put |-> UpdateUserRequest]

(* Request bodies; Nil is one that does not parse, or none on a route that *)
(* takes none.  A field the client omits and an empty body leave the zero  *)
(* value.                                                                  *)
Wires(route) ==
  {Nil} \cup
  CASE route = "register" -> [email : Email, password : Password, name : Names]
    [] route = "login" -> [email : Email, password : Password]
    [] route = "refresh" -> {ZeroOf(RefreshRequest)} \cup [refresh_token : Password]
    [] route = "put" -> [name : Names \cup {Nil}]
    [] OTHER -> {}

NoLine == [level |-> "none", status |-> 0, err |-> FALSE]

Fresh(route, wire) ==
  [route |-> route, wire |-> wire,
   body |-> Nil,              \* c.Locals("body")
   uid |-> 0,                 \* c.Locals("userID"), user.ID or tokenRecord.UserID
   status |-> 200,            \* c.Response().StatusCode()
   err |-> FALSE,             \* c.Locals("_err") is set
   returned |-> IF route = "unknown" THEN 404 ELSE 0,   \* the *fiber.Error of the chain
   line |-> NoLine,           \* history: the line logged for it
   failed |-> FALSE,          \* history: one of its statements failed
   since |-> users_id_seq]    \* history: accounts created before it arrived

NoRequest == [Fresh("probe", Nil) EXCEPT !.since = 0]

Init ==
  /\ StoreInit
  /\ logging \in BOOLEAN
  /\ pc = [p \in Proc |-> "idle"]
  /\ ctx = [p \in Proc |-> NoRequest]
  /\ answer = 0

-----------------------------------------------------------------------------
(* Bound: every registration in flight still finds an id. *)
IdsLeft ==
  users_id_seq + Cardinality({q \in Proc : ctx[q].route = "register" /\ pc[q] # "idle"}) < MaxUsers

(* CORS answers a preflight itself, before anything else runs. *)
Arrive(p) ==
  /\ pc[p] = "idle"
  /\ \E route \in DOMAIN Entry :
       /\ route = "register" => IdsLeft
       /\ \E wire \in Wires(route) :
            ctx' = [ctx EXCEPT ![p] =
                      [Fresh(route, wire) EXCEPT !.status = IF route = "preflight" THEN 204 ELSE @]]
       /\ pc' = [pc EXCEPT ![p] = IF Entry[route] = "log" /\ ~logging THEN "send" ELSE Entry[route]]
  /\ answer' = 0
  /\ UNCHANGED <<storeVars, logging>>

Goto(p, step, c) ==
  /\ pc' = [pc EXCEPT ![p] = step]
  /\ ctx' = [ctx EXCEPT ![p] = c]
  /\ answer' = 0

(* c.Status(status).JSON(...), and the way back up to the log line. *)
Respond(p, status, c) ==
  Goto(p, IF logging THEN "log" ELSE "send", [c EXCEPT !.status = status, !.wire = Nil, !.body = Nil])

(* Broken variant: the error is not stored. *)
ErrorResponseOnly(p, status, c) == Respond(p, status, c)

(* core.ErrorResponse with an error: SetError records it for the log. *)
ErrorResponse(p, status, c) == Respond(p, status, [c EXCEPT !.err = TRUE])

(* A statement may fail; that it did is remembered. *)
Outcome == {"ok"} \cup Faults
Note(c, o) == [c EXCEPT !.failed = @ \/ o = "error"]

Authorize(p) ==
  /\ pc[p] = "auth"
  /\ \/ Respond(p, 401, ctx[p])
     \/ \E u \in DOMAIN users :
          Goto(p, IF ctx[p].route = "put" THEN "validate" ELSE "handle", [ctx[p] EXCEPT !.uid = u])
  /\ UNCHANGED <<storeVars, logging>>

(* Broken variant: the struct given at registration of the route is reused. *)
ValidateShared(p) ==
  LET route == ctx[p].route
      req == Prepared(Struct[route], ctx[p].wire)
      valid == ctx[p].wire # Nil /\ ValidStruct(Struct[route], req)
      Shared(q) == q = p \/ (ctx[q].route = route /\ ctx[q].body # Nil)
  IN  /\ pc[p] = "validate"
      /\ \/ ~valid /\ Respond(p, 400, ctx[p])
         \/ /\ valid
            /\ pc' = [pc EXCEPT ![p] = "handle"]
            /\ ctx' = [q \in Proc |-> IF Shared(q) THEN [ctx[q] EXCEPT !.body = req] ELSE ctx[q]]
            /\ answer' = 0
      /\ UNCHANGED <<storeVars, logging>>

(* Broken variant: a refusal is returned to Fiber as an error. *)
ValidateReturning(p) ==
  LET struct == Struct[ctx[p].route]
      req == Prepared(struct, ctx[p].wire)
      valid == ctx[p].wire # Nil /\ ValidStruct(struct, req)
  IN  /\ pc[p] = "validate"
      /\ \/ ~valid /\ Respond(p, 200, [ctx[p] EXCEPT !.returned = 400])
         \/ valid /\ Goto(p, "handle", [ctx[p] EXCEPT !.body = req])
      /\ UNCHANGED <<storeVars, logging>>

ValidateBody(p) ==
  LET struct == Struct[ctx[p].route]
      req == Prepared(struct, ctx[p].wire)
      valid == ctx[p].wire # Nil /\ ValidStruct(struct, req)
  IN  /\ pc[p] = "validate"
      /\ \/ ~valid /\ Respond(p, 400, ctx[p])
         \/ valid /\ Goto(p, "handle", [ctx[p] EXCEPT !.body = req])
      /\ UNCHANGED <<storeVars, logging>>

-----------------------------------------------------------------------------
(* The handlers.  issueTokens ends register, login and refresh alike. *)

At(p, step, route) == pc[p] = step /\ ctx[p].route = route

TooLong(t) == ByteCount(t) > 72

(* Broken variant: the e-mail is not looked up first. *)
RegisterUnseen(p) ==
  /\ At(p, "handle", "register")
  /\ IF TooLong(ctx[p].body.password) THEN ErrorResponse(p, 500, ctx[p])
     ELSE Goto(p, "insert", ctx[p])
  /\ UNCHANGED <<storeVars, logging>>

Register(p) ==
  /\ At(p, "handle", "register")
  /\ \E o \in Outcome :
       LET c == Note(ctx[p], o)
           taken == o = "ok" /\ ~EmailFree(c.body.email)
       IN  \/ taken /\ Respond(p, 409, c)
           \/ ~taken /\ TooLong(c.body.password) /\ ErrorResponse(p, 500, c)
           \/ ~taken /\ ~TooLong(c.body.password) /\ Goto(p, "insert", c)
  /\ UNCHANGED <<storeVars, logging>>

(* Broken variant: the id of the new row is not read back. *)
InsertUserOnly(p) ==
  /\ At(p, "insert", "register")
  /\ RegisterUser(ctx[p].body.email, ctx[p].body.password)
  /\ Goto(p, "issue", ctx[p])
  /\ UNCHANGED logging

InsertUser(p) ==
  /\ At(p, "insert", "register")
  /\ \E o \in Outcome :
       \/ /\ o = "ok" /\ RegisterUser(ctx[p].body.email, ctx[p].body.password)
          /\ Goto(p, "issue", [ctx[p] EXCEPT !.uid = users_id_seq'])
       \/ /\ o = "error" \/ ~EmailFree(ctx[p].body.email)
          /\ ErrorResponse(p, 500, Note(ctx[p], o))
          /\ UNCHANGED storeVars
  /\ UNCHANGED logging

Login(p) ==
  /\ At(p, "handle", "login")
  /\ \E o \in Outcome :
       LET c == Note(ctx[p], o)
           matching == {u \in GetUserByEmail(c.body.email) :
                          o = "ok" /\ users[u].hashed_password = c.body.password}
       IN  \/ matching = {} /\ Respond(p, 401, c)
           \/ \E u \in matching : Goto(p, "issue", [c EXCEPT !.uid = u])
  /\ UNCHANGED <<storeVars, logging>>

(* Which tokens are found, and what becomes of them, is in module Api. *)
Refresh(p) ==
  /\ At(p, "handle", "refresh")
  /\ \/ Respond(p, 401, ctx[p])
     \/ \E u \in DOMAIN users : Goto(p, "issue", [ctx[p] EXCEPT !.uid = u])
  /\ UNCHANGED <<storeVars, logging>>

IssueTokens(p) ==
  /\ pc[p] = "issue"
  /\ \E o \in Outcome :
       LET issued == o = "ok" /\ UserExists(ctx[p].uid)
       IN  \/ ~issued /\ ErrorResponse(p, 500, Note(ctx[p], o))
           \/ issued /\ Respond(p, IF ctx[p].route = "register" THEN 201 ELSE 200, ctx[p])
  /\ UNCHANGED <<storeVars, logging>>

Logout(p) ==
  /\ At(p, "handle", "logout")
  /\ Respond(p, 200, ctx[p])
  /\ UNCHANGED <<storeVars, logging>>

(* GetMe and UpdateMe: no row is an error like any other. *)
ReadOrWriteMe(p) ==
  /\ At(p, "handle", "get") \/ At(p, "handle", "put")
  /\ \E o \in Outcome :
       IF o = "ok" /\ UserExists(ctx[p].uid) THEN Respond(p, 200, ctx[p])
       ELSE ErrorResponse(p, 500, Note(ctx[p], o))
  /\ UNCHANGED <<storeVars, logging>>

DeleteMe(p) ==
  /\ At(p, "handle", "delete")
  /\ \/ DeleteUser(ctx[p].uid) /\ Respond(p, 200, ctx[p])
     \/ "error" \in Outcome /\ ErrorResponse(p, 500, Note(ctx[p], "error")) /\ UNCHANGED storeVars
  /\ UNCHANGED logging

(* /healthz, /healthcheck and /readyz. *)
Probe(p) ==
  /\ At(p, "handle", "probe")
  /\ \E status \in {200, 503} : Respond(p, status, ctx[p])
  /\ UNCHANGED <<storeVars, logging>>

Handle(p) ==
  \/ Authorize(p) \/ ValidateBody(p)
  \/ Register(p) \/ InsertUser(p) \/ Login(p) \/ Refresh(p) \/ IssueTokens(p)
  \/ Logout(p) \/ ReadOrWriteMe(p) \/ DeleteMe(p) \/ Probe(p)

-----------------------------------------------------------------------------
Level(status) == IF status >= 500 THEN "ERROR" ELSE IF status >= 400 THEN "WARN" ELSE "INFO"

(* LoggingMiddleware once c.Next() has returned; probes are excluded. *)
Log(p) ==
  LET c == ctx[p]
      line == IF c.route = "probe" THEN NoLine
              ELSE [level |-> Level(c.status), status |-> c.status, err |-> c.err]
  IN  /\ pc[p] = "log"
      /\ Goto(p, "send", [c EXCEPT !.line = line])
      /\ UNCHANGED <<storeVars, logging>>

(* Fiber: an error the chain returned decides the status; then the answer  *)
(* is sent and the context released.                                       *)
SentStatus(c) == IF c.returned # 0 THEN c.returned ELSE c.status

Send(p) ==
  /\ pc[p] = "send"
  /\ pc' = [pc EXCEPT ![p] = "idle"]
  /\ ctx' = [ctx EXCEPT ![p] = NoRequest]
  /\ answer' = SentStatus(ctx[p])
  /\ UNCHANGED <<storeVars, logging>>

Next == \E p \in Proc : Arrive(p) \/ Handle(p) \/ Log(p) \/ Send(p)

Spec == Init /\ [][Next]_vars

-----------------------------------------------------------------------------
(* Type invariant: every variable holds a value the code can produce. *)
TypeOK ==
  /\ StoreTypeOK
  /\ logging \in BOOLEAN
  /\ pc \in [Proc -> {"idle", "auth", "validate", "handle", "insert", "issue", "log", "send"}]
  /\ \A p \in Proc :
       /\ ctx[p].route \in DOMAIN Entry
       /\ ctx[p].uid \in UserId \cup {0} /\ ctx[p].since \in 0..MaxUsers
       /\ pc[p] = "issue" => ctx[p].uid # 0
       /\ ctx[p].status \in {200, 201, 204, 400, 401, 409, 500, 503}
       /\ ctx[p].returned \in {0, 400, 404}
       /\ ctx[p].err \in BOOLEAN /\ ctx[p].failed \in BOOLEAN
  /\ answer \in {0, 200, 201, 204, 400, 401, 404, 409, 500, 503}

(* One mailbox has one account and one stored spelling, however clients    *)
(* type it and whoever registers at the same time: the UNIQUE constraint   *)
(* compares bytes, so it needs ValidateBody's normal form (validator.go:77). *)
OneAccountPerMailbox ==
  /\ \A u, v \in DOMAIN users : users[u].email.word = users[v].email.word => u = v
  /\ \A u \in DOMAIN users : users[u].email = Plain(users[u].email.word)

(* A handler sees the body of its own request, with the e-mail in normal   *)
(* form and everything else as it was sent: one struct per request, not    *)
(* the one given to ValidateBody (validator.go:29).                        *)
BodyIsOwn ==
  \A p \in Proc :
    pc[p] \in {"handle", "insert"} /\ ctx[p].route \in DOMAIN Struct =>
      ctx[p].body = [f \in DOMAIN Struct[ctx[p].route] |->
                       IF f = "email" THEN Plain(ctx[p].wire.email.word) ELSE ctx[p].wire[f]]

(* Slot p takes a step that decides its status. *)
Decides(p, status) ==
  /\ pc[p] \in {"handle", "insert", "issue"}
  /\ pc'[p] \in {"log", "send"}
  /\ ctx'[p].status = status

(* Slot p is refused a log-in whose body parses, by ValidateBody or by the *)
(* handler.                                                                *)
RefusesLogin(p) ==
  /\ ctx[p].route = "login" /\ ctx[p].wire # Nil
  /\ pc[p] \in {"validate", "handle"} /\ pc'[p] \in {"log", "send"}

(* Whoever types the mailbox and password of an account is let in, in any  *)
(* spelling of the mailbox, unless the look-up fails: what Register let    *)
(* pass and stored, Login lets pass and finds (auth.go:93, models/auth.go). *)
OwnersCanLogIn ==
  [][\A p \in Proc :
       RefusesLogin(p) =>
         \/ ctx'[p].failed
         \/ ~\E u \in DOMAIN users : /\ users[u].email.word = ctx[p].wire.email.word
                                     /\ users[u].hashed_password = ctx[p].wire.password]_vars

(* While statements succeed, a 500 takes a password bcrypt refuses or      *)
(* another request: one that registered the mailbox after this one         *)
(* arrived, or that deleted the account it acts for (auth.go:50, :60).     *)
No500Alone ==
  [][\A p \in Proc :
       Decides(p, 500) =>
         \/ ctx'[p].failed
         \/ ctx[p].route = "register" /\ TooLong(ctx[p].wire.password)
         \/ \E u \in DOMAIN users : /\ ctx[p].route = "register" /\ u > ctx[p].since
                                    /\ users[u].email.word = ctx[p].wire.email.word
         \/ ctx[p].uid # 0 /\ ctx[p].uid \notin DOMAIN users]_vars

Sends(p) == pc[p] = "send" /\ pc'[p] = "idle"

(* Outside test mode the log has the status the client got, for every      *)
(* request to a route of the application (logging.go:27): no handler       *)
(* leaves the status to Fiber's error handler, which runs after the log.   *)
LogsTheAnswer ==
  [][\A p \in Proc :
       Sends(p) /\ logging /\ ctx[p].route \notin {"probe", "preflight", "unknown"} =>
         ctx[p].line.status = answer']_vars

(* No failure of the server goes unnoticed: a 5xx, probes apart, is logged *)
(* as an ERROR with the error that caused it (errors.go:89, logging.go:48). *)
NoSilent5xx ==
  [][\A p \in Proc :
       Sends(p) /\ logging /\ ctx[p].route # "probe" /\ answer' >= 500 =>
         ctx[p].line.level = "ERROR" /\ ctx[p].line.err]_vars
=============================================================================
