--------------------------- MODULE PipelineProofs ---------------------------
(***************************************************************************)
(* Safety of module Pipeline for any number of slots and any texts.  What  *)
(* a handler reads of its body, and what the log line says of its answer,  *)
(* was established by earlier steps of the same request: SlotInv(p) is     *)
(* what the request in slot p has established so far.  Other slots touch   *)
(* only the table, which they change as Monotone says.                     *)
(***************************************************************************)
EXTENDS Pipeline, ValidationProofs

Working == {"auth", "validate", "handle", "insert", "issue"}
Behind == {"handle", "insert"}    \* steps that have a body
Step == {"idle", "log", "send"} \cup Working

(* Table users: ids lie below the sequence, e-mails are in normal form,    *)
(* and every row is one that RegisterRequest let pass.                     *)
Admitted ==
  \A u \in DOMAIN users : /\ users[u].email.word \in Mailbox
                          /\ RuneCount(users[u].hashed_password) >= 8

StoreInv ==
  /\ StoreTypeOK
  /\ \A u \in DOMAIN users : u <= users_id_seq
  /\ Admitted
  /\ OneAccountPerMailbox

(* A context; what it holds of the client's data is left open. *)
IsContext(c) ==
  c \in [route : {c.route}, wire : {c.wire}, body : {c.body}, uid : Nat, status : Nat,
         err : BOOLEAN, returned : Nat, line : {c.line}, failed : BOOLEAN, since : Nat]

Status == {200, 201, 204, 400, 401, 409, 500, 503}

ContextInv(p) ==
  LET c == ctx[p]
  IN  /\ IsContext(c)
      /\ c.route \in DOMAIN Entry
      /\ c.status \in Status
      /\ c.uid <= MaxUsers /\ c.since <= users_id_seq
      /\ c.returned = IF c.route = "unknown" THEN 404 ELSE 0

OwnBody(p) ==
  ctx[p].body = [f \in DOMAIN Struct[ctx[p].route] |->
                   IF f = "email" THEN Plain(ctx[p].wire.email.word) ELSE ctx[p].wire[f]]

(* The body a request still has to have validated, or has. *)
BodyInv(p) ==
  LET c == ctx[p]
  IN  /\ pc[p] \in {"auth", "validate"} \cup Behind /\ c.route \in DOMAIN Struct =>
           c.wire \in Wires(c.route)
      /\ pc[p] \in Behind /\ c.route \in DOMAIN Struct => c.wire # Nil /\ OwnBody(p)
      /\ pc[p] \in Behind /\ c.route = "register" =>
           c.wire.email.word \in Mailbox /\ RuneCount(c.wire.password) >= 8
      /\ pc[p] = "insert" /\ ~c.failed =>
           \A u \in DOMAIN users : users[u].email.word = c.wire.email.word => u > c.since

(* Which routes a step belongs to, and for which account it acts. *)
RouteInv(p) ==
  LET c == ctx[p]
  IN  /\ pc[p] = "auth" => c.route \in {"logout", "get", "put", "delete"}
      /\ pc[p] = "validate" => c.route \in DOMAIN Struct
      /\ pc[p] = "insert" => c.route = "register"
      /\ pc[p] = "issue" => c.route \in {"register", "login", "refresh"}
      /\ pc[p] \in Working => c.route \notin {"preflight", "unknown"}
      /\ pc[p] = "issue" => c.uid # 0
      /\ pc[p] \in {"validate", "handle"} /\ c.route \in {"get", "put", "delete"} => c.uid # 0

(* What the answer and the log line will be, or are. *)
AnswerInv(p) ==
  LET c == ctx[p]
  IN  /\ pc[p] \in Working => c.status = 200
      /\ c.route = "preflight" => c.status = 204 /\ pc[p] = "send"
      /\ pc[p] = "log" => logging
      /\ pc[p] \in {"log", "send"} /\ c.status >= 500 /\ c.route # "probe" => c.err
      /\ pc[p] = "send" /\ logging /\ c.route \notin {"probe", "preflight"} =>
           c.line = [level |-> Level(c.status), status |-> c.status, err |-> c.err]

SlotInv(p) == ContextInv(p) /\ BodyInv(p) /\ RouteInv(p) /\ AnswerInv(p)

IInv ==
  /\ StoreInv
  /\ logging \in BOOLEAN
  /\ pc \in [Proc -> Step]
  /\ ctx = [p \in Proc |-> ctx[p]]
  /\ \A p \in Proc : SlotInv(p)
  /\ answer \in {0, 200, 201, 204, 400, 401, 404, 409, 500, 503}

(* What any step may do to the table, as another slot sees it. *)
Monotone ==
  /\ UNCHANGED logging
  /\ users_id_seq' \in Nat /\ users_id_seq <= users_id_seq'
  /\ \A u \in DOMAIN users' :
       /\ u \in Nat
       /\ \/ u \in DOMAIN users /\ users'[u] = users[u]
          \/ u > users_id_seq

(* Slot p alone takes a step. *)
Alone(p) == \A q \in Proc \ {p} : pc'[q] = pc[q] /\ ctx'[q] = ctx[q]

-----------------------------------------------------------------------------
LEMMA OthersKeep ==
  ASSUME IInv, Monotone, NEW p \in Proc, Alone(p)
  PROVE  \A q \in Proc \ {p} : SlotInv(q)'
<1> SUFFICES ASSUME NEW q \in Proc \ {p} PROVE SlotInv(q)'
  OBVIOUS
<1>1. pc'[q] = pc[q] /\ ctx'[q] = ctx[q] /\ SlotInv(q)
  BY DEF Alone, IInv
<1>2. users_id_seq \in Nat
  BY MaxUsersAssumption DEF IInv, StoreInv, StoreTypeOK
<1>3. ContextInv(q)'
  BY <1>1, <1>2 DEF SlotInv, ContextInv, IsContext, Monotone
<1>4. BodyInv(q)'
  <2>1. OwnBody(q)' = OwnBody(q)
    BY <1>1 DEF OwnBody
  <2>2. ctx[q].since \in Nat /\ ctx[q].since <= users_id_seq
    BY <1>1 DEF SlotInv, ContextInv, IsContext
  <2>3. ASSUME pc[q] = "insert", ~ctx[q].failed, NEW u \in DOMAIN users',
               users'[u].email.word = ctx[q].wire.email.word
        PROVE  u > ctx[q].since
    <3>1. CASE u \in DOMAIN users /\ users'[u] = users[u]
      BY <1>1, <2>3, <3>1 DEF SlotInv, BodyInv
    <3>2. CASE u \in Nat /\ u > users_id_seq
      BY <1>2, <2>2, <3>2
    <3> QED BY <3>1, <3>2 DEF Monotone
  <2> QED BY <1>1, <2>1, <2>3 DEF SlotInv, BodyInv
<1>5. RouteInv(q)'
  BY <1>1 DEF SlotInv, RouteInv
<1>6. AnswerInv(q)'
  BY <1>1 DEF SlotInv, AnswerInv, Monotone
<1> QED BY <1>3, <1>4, <1>5, <1>6 DEF SlotInv

(* What remains to be shown of a step of slot p. *)
LEMMA StepKeeps ==
  ASSUME IInv, Monotone, StoreInv', NEW p \in Proc, Alone(p), SlotInv(p)',
         pc' \in [Proc -> Step], ctx' = [q \in Proc |-> ctx'[q]],
         answer' \in {0, 200, 201, 204, 400, 401, 404, 409, 500, 503}
  PROVE  IInv'
<1>1. \A q \in Proc \ {p} : SlotInv(q)'
  BY OthersKeep
<1>2. \A q \in Proc : SlotInv(q)'
  BY <1>1
<1> QED BY <1>2 DEF IInv, Monotone

LEMMA SameStore ==
  ASSUME IInv, UNCHANGED <<storeVars, logging>>
  PROVE  Monotone /\ StoreInv'
<1>1. users' = users /\ users_id_seq' = users_id_seq /\ tokens' = tokens /\ logging' = logging
  BY DEF storeVars
<1>2. StoreInv'
  BY <1>1 DEF IInv, StoreInv, StoreTypeOK, OneAccountPerMailbox, Admitted
<1>3. users_id_seq \in Nat /\ DOMAIN users \subseteq Nat
  BY MaxUsersAssumption DEF IInv, StoreInv, StoreTypeOK, UserId
<1> QED BY <1>1, <1>2, <1>3 DEF Monotone

LEMMA GotoMoves ==
  ASSUME IInv, NEW p \in Proc, NEW s \in Step, NEW c, Goto(p, s, c)
  PROVE  /\ pc'[p] = s /\ ctx'[p] = c /\ Alone(p)
         /\ pc' \in [Proc -> Step] /\ ctx' = [q \in Proc |-> ctx'[q]]
         /\ answer' = 0
<1>1. pc \in [Proc -> Step] /\ ctx = [q \in Proc |-> ctx[q]]
  BY DEF IInv
<1>2. pc' = [pc EXCEPT ![p] = s] /\ ctx' = [ctx EXCEPT ![p] = c] /\ answer' = 0
  BY DEF Goto
<1> QED BY <1>1, <1>2 DEF Alone

(* c is the request of slot p, with what a statement may have added to it. *)
SameRequest(p, c) ==
  /\ IsContext(c)
  /\ c.route = ctx[p].route /\ c.uid = ctx[p].uid
  /\ c.returned = ctx[p].returned /\ c.since = ctx[p].since

(* How a context reads after a statement, an error and an answer. *)
LEMMA ContextNoted ==
  ASSUME IInv, NEW p \in Proc, NEW o
  PROVE  /\ SameRequest(p, ctx[p]) /\ SameRequest(p, Note(ctx[p], o))
         /\ Note(ctx[p], o).wire = ctx[p].wire /\ Note(ctx[p], o).body = ctx[p].body
         /\ Note(ctx[p], o).status = ctx[p].status /\ Note(ctx[p], o).err = ctx[p].err
         /\ Note(ctx[p], o).failed = (ctx[p].failed \/ o = "error")
<1>1. IsContext(ctx[p])
  BY DEF IInv, SlotInv, ContextInv
<1> QED BY <1>1 DEF IsContext, Note, SameRequest

Erred(c) == [c EXCEPT !.err = TRUE]
Answered(c, status) == [c EXCEPT !.status = status, !.wire = Nil, !.body = Nil]

LEMMA ContextErred ==
  ASSUME NEW p \in Proc, NEW c, SameRequest(p, c)
  PROVE  SameRequest(p, Erred(c)) /\ Erred(c).err = TRUE
BY DEF IsContext, Erred, SameRequest

LEMMA ContextAnswered ==
  ASSUME NEW c, IsContext(c), NEW status \in Nat
  PROVE  LET d == Answered(c, status)
         IN  /\ IsContext(d)
             /\ d.route = c.route /\ d.uid = c.uid /\ d.status = status /\ d.err = c.err
             /\ d.returned = c.returned /\ d.line = c.line
             /\ d.failed = c.failed /\ d.since = c.since
BY DEF IsContext, Answered

(* An answer is an answer at whatever step it is given. *)
LEMMA RespondKeeps ==
  ASSUME IInv, Monotone, StoreInv', NEW p \in Proc, pc[p] \in Working,
         NEW status \in {200, 201, 400, 401, 409, 500, 503}, NEW c, SameRequest(p, c),
         status >= 500 /\ c.route # "probe" => c.err,
         Respond(p, status, c)
  PROVE  IInv'
<1> DEFINE s == IF logging THEN "log" ELSE "send"
           d == [c EXCEPT !.status = status, !.wire = Nil, !.body = Nil]
<1>1. Goto(p, s, d) /\ s \in Step
  BY DEF Respond, Step
<1>2. /\ pc'[p] = s /\ ctx'[p] = d /\ Alone(p)
      /\ pc' \in [Proc -> Step] /\ ctx' = [q \in Proc |-> ctx'[q]]
      /\ answer' = 0
  <2> HIDE DEF s, d
  <2> QED BY <1>1, GotoMoves
<1>3. ContextInv(p) /\ RouteInv(p)
  BY DEF IInv, SlotInv
<1>5. /\ IsContext(c)
      /\ c.route = ctx[p].route /\ c.uid = ctx[p].uid
      /\ c.returned = ctx[p].returned /\ c.since = ctx[p].since
  BY DEF SameRequest
<1>6. /\ IsContext(ctx'[p])
      /\ ctx'[p].route = ctx[p].route /\ ctx'[p].uid = ctx[p].uid
      /\ ctx'[p].returned = ctx[p].returned /\ ctx'[p].since = ctx[p].since
      /\ ctx'[p].status = status /\ ctx'[p].err = c.err
  <2>1. ctx'[p] = Answered(c, status)
    BY <1>2 DEF Answered
  <2> QED BY <1>5, <2>1, ContextAnswered
<1>7. ContextInv(p)'
  <2>1. users_id_seq \in Nat /\ users_id_seq' \in Nat /\ users_id_seq <= users_id_seq'
    BY MaxUsersAssumption DEF IInv, StoreInv, StoreTypeOK, Monotone
  <2>2. ctx[p].since \in Nat
    BY <1>3 DEF ContextInv, IsContext
  <2> QED BY <1>3, <1>6, <2>1, <2>2 DEF ContextInv, Status
<1>8. BodyInv(p)' /\ RouteInv(p)'
  BY <1>2 DEF BodyInv, RouteInv, Working, Behind
<1>9. AnswerInv(p)'
  <2>1. ctx[p].route \notin {"preflight", "unknown"}
    BY <1>3 DEF RouteInv
  <2>2. logging' = logging
    BY DEF Monotone
  <2>3. pc'[p] \in {"log", "send"} /\ (pc'[p] = "log" <=> logging)
    BY <1>2
  <2>4. pc'[p] \notin Working /\ ~(pc'[p] = "send" /\ logging')
    BY <2>2, <2>3 DEF Working
  <2> QED BY <1>5, <1>6, <2>1, <2>2, <2>3, <2>4 DEF AnswerInv
<1> QED BY <1>2, <1>7, <1>8, <1>9, StepKeeps DEF SlotInv

LEMMA ErrorResponseKeeps ==
  ASSUME IInv, Monotone, StoreInv', NEW p \in Proc, pc[p] \in Working,
         NEW c, SameRequest(p, c), ErrorResponse(p, 500, c)
  PROVE  IInv'
<1>1. Respond(p, 500, Erred(c))
  BY DEF ErrorResponse, Erred
<1>2. SameRequest(p, Erred(c)) /\ Erred(c).err = TRUE
  BY ContextErred
<1> QED BY <1>1, <1>2, RespondKeeps

(* A request goes on to another step before its answer. *)
LEMMA AdvanceKeeps ==
  ASSUME IInv, Monotone, StoreInv', NEW p \in Proc, pc[p] \in Working,
         NEW s \in Working, NEW c, Goto(p, s, c),
         IsContext(c), c.uid <= MaxUsers, c.route = ctx[p].route, c.status = 200,
         c.returned = ctx[p].returned, c.since = ctx[p].since,
         BodyInv(p)', RouteInv(p)'
  PROVE  IInv'
<1>1. /\ pc'[p] = s /\ ctx'[p] = c /\ Alone(p)
      /\ pc' \in [Proc -> Step] /\ ctx' = [q \in Proc |-> ctx'[q]]
      /\ answer' = 0
  BY GotoMoves DEF Step
<1>2. ContextInv(p) /\ RouteInv(p)
  BY DEF IInv, SlotInv
<1>3. users_id_seq \in Nat /\ users_id_seq' \in Nat /\ users_id_seq <= users_id_seq'
  BY MaxUsersAssumption DEF IInv, StoreInv, StoreTypeOK, Monotone
<1>4. ctx[p].since \in Nat
  BY <1>2 DEF ContextInv, IsContext
<1>5. ContextInv(p)'
  BY <1>1, <1>2, <1>3, <1>4 DEF ContextInv, Status
<1>6. AnswerInv(p)'
  <2>1. c.route \notin {"preflight", "unknown"}
    BY <1>2 DEF RouteInv
  <2> QED BY <1>1, <2>1 DEF AnswerInv, Working
<1> QED BY <1>1, <1>5, <1>6, StepKeeps DEF SlotInv
-----------------------------------------------------------------------------
(* The statements that change the table. *)

LEMMA RegisterKeeps ==
  ASSUME IInv, NEW e \in Email, NEW w \in Password, e = Plain(e.word),
         e.word \in Mailbox, RuneCount(w) >= 8,
         RegisterUser(e, w), UNCHANGED logging
  PROVE  /\ Monotone /\ StoreInv'
         /\ users_id_seq' \in 1..MaxUsers
<1> DEFINE id == users_id_seq + 1
           row == [email |-> e, hashed_password |-> w]
<1>1. /\ EmailFree(e) /\ users_id_seq < MaxUsers /\ users_id_seq' = id
      /\ users' = [u \in DOMAIN users \cup {id} |-> IF u = id THEN row ELSE users[u]]
      /\ tokens' = tokens
  BY DEF RegisterUser
<1>2. /\ StoreTypeOK /\ OneAccountPerMailbox
      /\ \A u \in DOMAIN users : u \in Nat /\ u <= users_id_seq
      /\ users_id_seq \in Nat
  BY MaxUsersAssumption DEF IInv, StoreInv, StoreTypeOK, UserId
<1>3. id \notin DOMAIN users /\ id \in UserId /\ id \in Nat /\ users_id_seq < id
  BY <1>1, <1>2, MaxUsersAssumption DEF UserId
<1>4. /\ DOMAIN users' = DOMAIN users \cup {id} /\ users'[id] = row
      /\ \A u \in DOMAIN users : users'[u] = users[u]
  BY <1>1, <1>3
<1>5. StoreTypeOK'
  <2>1. row \in User
    BY DEF User
  <2>2. users' \in [DOMAIN users' -> User]
    BY <1>1, <1>2, <2>1 DEF StoreTypeOK
  <2> QED BY <1>1, <1>2, <1>3, <1>4, <2>2 DEF StoreTypeOK, UserId
<1>6. OneAccountPerMailbox'
  <2>1. \A u \in DOMAIN users : users[u].email # e
    BY <1>1 DEF EmailFree, GetUserByEmail
  <2>2. \A u \in DOMAIN users : users[u].email = Plain(users[u].email.word)
    BY <1>2 DEF OneAccountPerMailbox
  <2>3. \A u \in DOMAIN users : users[u].email.word # e.word
    BY <2>1, <2>2
  <2>4. users'[id].email = e
    BY <1>4
  <2> QED BY <1>2, <1>4, <2>2, <2>3, <2>4 DEF OneAccountPerMailbox
<1>7. \A u \in DOMAIN users' : u <= users_id_seq'
  BY <1>1, <1>2, <1>3, <1>4
<1>8. Admitted'
  <2>1. Admitted /\ row.email = e /\ row.hashed_password = w
    BY DEF IInv, StoreInv
  <2> HIDE DEF row
  <2> QED BY <1>4, <2>1 DEF Admitted
<1> QED BY <1>1, <1>2, <1>3, <1>4, <1>5, <1>6, <1>7, <1>8 DEF Monotone, StoreInv, UserId

LEMMA DeleteKeeps ==
  ASSUME IInv, NEW u, DeleteUser(u), UNCHANGED logging
  PROVE  Monotone /\ StoreInv'
<1>1. /\ users' = [v \in DOMAIN users \ {u} |-> users[v]]
      /\ tokens' = [a \in {b \in DOMAIN tokens : tokens[b].user_id # u} |-> tokens[a]]
      /\ users_id_seq' = users_id_seq
  BY DEF DeleteUser
<1>2. StoreTypeOK /\ OneAccountPerMailbox /\ \A v \in DOMAIN users : v <= users_id_seq
  BY DEF IInv, StoreInv
<1>3. users_id_seq \in Nat /\ DOMAIN users \subseteq Nat
  BY <1>2, MaxUsersAssumption DEF StoreTypeOK, UserId
<1>4. /\ DOMAIN users' = DOMAIN users \ {u}
      /\ \A v \in DOMAIN users' : users'[v] = users[v]
  BY <1>1
<1>5. StoreTypeOK'
  BY <1>1, <1>2 DEF StoreTypeOK
<1>6. OneAccountPerMailbox'
  BY <1>2, <1>4 DEF OneAccountPerMailbox
<1>7. Admitted'
  BY <1>4 DEF IInv, StoreInv, Admitted
<1> QED BY <1>1, <1>2, <1>3, <1>4, <1>5, <1>6, <1>7 DEF Monotone, StoreInv
-----------------------------------------------------------------------------
(* ValidateBody: what passes it has its e-mail in normal form. *)
LEMMA PreparedIsOwn ==
  ASSUME NEW r \in DOMAIN Struct, NEW w \in Wires(r), w # Nil,
         ValidStruct(Struct[r], Prepared(Struct[r], w))
  PROVE  /\ Prepared(Struct[r], w) =
              [f \in DOMAIN Struct[r] |-> IF f = "email" THEN Plain(w.email.word) ELSE w[f]]
         /\ r = "register" => w.email.word \in Mailbox /\ RuneCount(w.password) >= 8
<1> DEFINE struct == Struct[r]
           req == Prepared(struct, w)
<1>1. r \in {"register", "login", "refresh", "put"}
  BY DEF Struct
<1>2. \A f \in DOMAIN struct :
        /\ struct[f].default = Nil
        /\ struct[f].normalize = IF f = "email" THEN {"email"} ELSE {}
        /\ f = "email" => r \in {"register", "login"} /\ struct[f].validate = {"required", "email"}
  <2>1. CASE r = "register"
    BY <2>1 DEF Struct, RegisterRequest, Field
  <2>2. CASE r = "login"
    BY <2>2 DEF Struct, LoginRequest, Field
  <2>3. CASE r = "refresh"
    BY <2>3 DEF Struct, RefreshRequest, Field
  <2>4. CASE r = "put"
    BY <2>4 DEF Struct, UpdateUserRequest, Field
  <2> QED BY <1>1, <2>1, <2>2, <2>3, <2>4
<1>3. req = [f \in DOMAIN struct |-> Transform(w[f], struct[f].normalize)]
  BY <1>2 DEF Prepared, NormalizeFields, ApplyDefaults
<1>4. \A f \in DOMAIN struct : f # "email" => Transform(w[f], struct[f].normalize) = w[f]
  BY <1>2 DEF Transform
<1>5. ASSUME "email" \in DOMAIN struct
      PROVE  Transform(w.email, {"email"}) = Plain(w.email.word) /\ w.email.word \in Mailbox
  <2>1. w.email \in Text
    <3>1. r \in {"register", "login"}
      BY <1>2, <1>5
    <3>2. w.email \in Email
      BY <3>1 DEF Wires
    <3> QED BY <3>2, TextAssumption
  <2>2. req.email = Transform(w.email, {"email"})
    BY <1>2, <1>3, <1>5
  <2>3. Satisfies(req.email, "required") /\ Satisfies(req.email, "email")
    <3> HIDE DEF req
    <3>1. struct["email"].validate = {"required", "email"}
      BY <1>2, <1>5
    <3>2. ValidStruct(struct, req)
      BY DEF req
    <3>3. \A rule \in struct["email"].validate : Satisfies(req["email"], rule)
      BY <1>5, <3>1, <3>2 DEF ValidStruct
    <3> QED BY <3>1, <3>3
  <2> QED BY <2>1, <2>2, <2>3, EmailTransform, NormalForm
<1>6. r = "register" => "email" \in DOMAIN struct /\ RuneCount(w.password) >= 8
  <2> SUFFICES ASSUME r = "register" PROVE "email" \in DOMAIN struct /\ RuneCount(w.password) >= 8
    OBVIOUS
  <2>1. struct = RegisterRequest /\ "email" \in DOMAIN struct
    BY DEF Struct, RegisterRequest
  <2>2. w.email \in Text /\ w.password \in Text
    BY TextAssumption DEF Wires
  <2> QED BY <2>1, <2>2, RegisterAccepts
<1> QED BY <1>2, <1>3, <1>4, <1>5, <1>6
-----------------------------------------------------------------------------
(* One lemma per action. *)

LEMMA EntryFacts ==
  ASSUME NEW r \in DOMAIN Entry
  PROVE  /\ Entry[r] \in {"auth", "validate", "handle", "log", "send"}
         /\ Entry[r] = "auth" => r \in {"logout", "get", "put", "delete"}
         /\ Entry[r] = "validate" => r \in DOMAIN Struct \ {"put"}
         /\ Entry[r] = "handle" => r = "probe"
         /\ Entry[r] = "log" => r = "unknown"
         /\ Entry[r] = "send" <=> r = "preflight"
         /\ DOMAIN Struct = {"register", "login", "refresh", "put"}
BY DEF Entry, Struct

LEMMA ArriveKeeps ==
  ASSUME IInv, NEW p \in Proc, Arrive(p)
  PROVE  IInv'
<1>0. PICK route \in DOMAIN Entry : \E wire \in Wires(route) :
        /\ ctx' = [ctx EXCEPT ![p] =
                     [Fresh(route, wire) EXCEPT !.status = IF route = "preflight" THEN 204 ELSE @]]
        /\ pc' = [pc EXCEPT ![p] = IF Entry[route] = "log" /\ ~logging THEN "send" ELSE Entry[route]]
  BY DEF Arrive
<1>1. PICK wire \in Wires(route) :
        /\ ctx' = [ctx EXCEPT ![p] =
                     [Fresh(route, wire) EXCEPT !.status = IF route = "preflight" THEN 204 ELSE @]]
        /\ pc' = [pc EXCEPT ![p] = IF Entry[route] = "log" /\ ~logging THEN "send" ELSE Entry[route]]
  BY <1>0
<1> DEFINE c == [Fresh(route, wire) EXCEPT !.status = IF route = "preflight" THEN 204 ELSE @]
           s == IF Entry[route] = "log" /\ ~logging THEN "send" ELSE Entry[route]
<1>2. answer' = 0 /\ UNCHANGED <<storeVars, logging>>
  BY DEF Arrive
<1>3. Monotone /\ StoreInv'
  BY <1>2, SameStore
<1>4. users_id_seq \in Nat /\ users_id_seq' = users_id_seq /\ logging' = logging
  BY <1>2, MaxUsersAssumption DEF IInv, StoreInv, StoreTypeOK, storeVars
<1>5. /\ IsContext(c)
      /\ c.route = route /\ c.wire = wire /\ c.uid = 0 /\ c.since = users_id_seq
      /\ c.status = IF route = "preflight" THEN 204 ELSE 200
      /\ c.returned = IF route = "unknown" THEN 404 ELSE 0
  <2>1. Fresh(route, wire).status = 200
    BY DEF Fresh
  <2>2. c = [Fresh(route, wire) EXCEPT !.status = IF route = "preflight" THEN 204 ELSE 200]
    BY <2>1
  <2>3. /\ IsContext(Fresh(route, wire))
        /\ Fresh(route, wire).route = route /\ Fresh(route, wire).wire = wire
        /\ Fresh(route, wire).uid = 0 /\ Fresh(route, wire).since = users_id_seq
        /\ Fresh(route, wire).returned = IF route = "unknown" THEN 404 ELSE 0
    BY <1>4 DEF Fresh, IsContext
  <2> QED BY <2>2, <2>3 DEF IsContext
<1>6. s \in {"auth", "validate", "handle", "log", "send"} /\ s \in Step
  BY EntryFacts DEF Step, Working
<1> HIDE DEF c
<1>7. /\ pc'[p] = s /\ ctx'[p] = c /\ Alone(p)
      /\ pc' \in [Proc -> Step] /\ ctx' = [q \in Proc |-> ctx'[q]]
  <2>1. pc \in [Proc -> Step] /\ ctx = [q \in Proc |-> ctx[q]]
    BY DEF IInv
  <2>2. pc' = [pc EXCEPT ![p] = s] /\ ctx' = [ctx EXCEPT ![p] = c]
    BY <1>1 DEF c
  <2> HIDE DEF s
  <2> QED BY <1>6, <2>1, <2>2 DEF Alone
<1>8. ContextInv(p)'
  <2>1. c.status \in Status
    BY <1>5 DEF Status
  <2> QED BY <1>4, <1>5, <1>7, <2>1, MaxUsersAssumption DEF ContextInv
<1>9. BodyInv(p)'
  <2>1. s \in Behind => route = "probe"
    BY EntryFacts DEF Behind
  <2>2. s # "insert" /\ "probe" \notin DOMAIN Struct
    BY <1>6, EntryFacts
  <2> HIDE DEF s
  <2> QED BY <1>5, <1>7, <2>1, <2>2 DEF BodyInv
<1>10. RouteInv(p)' /\ AnswerInv(p)'
  <2>1. /\ s = "auth" => route \in {"logout", "get", "put", "delete"}
        /\ s = "validate" => route \in DOMAIN Struct \ {"put"}
        /\ s = "handle" => route = "probe"
        /\ s = "log" => route = "unknown" /\ logging
        /\ s = "send" => route = "preflight" \/ (route = "unknown" /\ ~logging)
        /\ route = "preflight" => s = "send"
        /\ DOMAIN Struct = {"register", "login", "refresh", "put"}
    BY EntryFacts
  <2> HIDE DEF s
  <2>2. RouteInv(p)'
    BY <1>5, <1>6, <1>7, <2>1 DEF RouteInv, Working
  <2>3. AnswerInv(p)'
    BY <1>4, <1>5, <1>6, <1>7, <2>1 DEF AnswerInv, Working
  <2> QED BY <2>2, <2>3
<1> QED BY <1>2, <1>3, <1>7, <1>8, <1>9, <1>10, StepKeeps DEF SlotInv

(* What slot p has established, and what a step on the request may use. *)
LEMMA Slot ==
  ASSUME IInv, NEW p \in Proc
  PROVE  /\ ContextInv(p) /\ BodyInv(p) /\ RouteInv(p) /\ AnswerInv(p)
         /\ IsContext(ctx[p]) /\ ctx[p].uid <= MaxUsers
         /\ SameRequest(p, ctx[p])
         /\ DOMAIN users \subseteq 1..MaxUsers
<1>1. ContextInv(p) /\ BodyInv(p) /\ RouteInv(p) /\ AnswerInv(p)
  BY DEF IInv, SlotInv
<1>2. IsContext(ctx[p]) /\ ctx[p].uid <= MaxUsers
  BY <1>1 DEF ContextInv
<1>3. SameRequest(p, ctx[p])
  BY ContextNoted
<1>4. DOMAIN users \subseteq 1..MaxUsers
  BY DEF IInv, StoreInv, StoreTypeOK, UserId
<1> QED BY <1>1, <1>2, <1>3, <1>4

LEMMA AuthorizeKeeps ==
  ASSUME IInv, NEW p \in Proc, Authorize(p)
  PROVE  IInv'
<1>1. pc[p] = "auth" /\ pc[p] \in Working /\ UNCHANGED <<storeVars, logging>>
  BY DEF Authorize, Working
<1>2. Monotone /\ StoreInv'
  BY <1>1, SameStore
<1>3. CASE Respond(p, 401, ctx[p])
  BY <1>1, <1>2, <1>3, Slot, RespondKeeps
<1>4. ASSUME NEW u \in DOMAIN users, NEW s \in {"validate", "handle"},
             s = IF ctx[p].route = "put" THEN "validate" ELSE "handle",
             Goto(p, s, [ctx[p] EXCEPT !.uid = u])
      PROVE  IInv'
  <2> DEFINE c == [ctx[p] EXCEPT !.uid = u]
  <2>1. u \in Nat /\ u <= MaxUsers /\ u # 0
    BY Slot, MaxUsersAssumption
  <2>2. /\ IsContext(c) /\ c.uid = u /\ c.route = ctx[p].route /\ c.wire = ctx[p].wire
        /\ c.status = ctx[p].status /\ c.returned = ctx[p].returned /\ c.since = ctx[p].since
    BY <2>1, Slot DEF IsContext
  <2>3. Goto(p, s, c)
    BY <1>4
  <2> HIDE DEF c
  <2>4. pc'[p] = s /\ ctx'[p] = c
    BY <2>3, GotoMoves DEF Step, Working
  <2>5. ctx[p].route \in {"logout", "get", "put", "delete"} /\ ctx[p].status = 200
    BY <1>1, Slot DEF RouteInv, AnswerInv
  <2>6. BodyInv(p)'
    <3>1. ctx[p].route \in DOMAIN Struct => ctx[p].route = "put" /\ ctx[p].wire \in Wires(ctx[p].route)
      BY <1>1, <2>5, Slot DEF BodyInv, Struct
    <3>2. s = "handle" => ctx[p].route \notin DOMAIN Struct \cup {"register"}
      BY <1>4, <2>5, <3>1
    <3> QED BY <2>2, <2>4, <3>1, <3>2 DEF BodyInv, Behind
  <2>7. RouteInv(p)'
    BY <1>4, <2>1, <2>2, <2>4, <2>5 DEF RouteInv, Working, Struct
  <2> QED BY <1>1, <1>2, <2>1, <2>2, <2>3, <2>5, <2>6, <2>7, AdvanceKeeps DEF Working
<1> QED BY <1>3, <1>4 DEF Authorize

LEMMA ValidateBodyKeeps ==
  ASSUME IInv, NEW p \in Proc, ValidateBody(p)
  PROVE  IInv'
<1> DEFINE struct == Struct[ctx[p].route]
           req == Prepared(struct, ctx[p].wire)
<1>1. pc[p] = "validate" /\ pc[p] \in Working /\ UNCHANGED <<storeVars, logging>>
  BY DEF ValidateBody, Working
<1>2. Monotone /\ StoreInv'
  BY <1>1, SameStore
<1>3. CASE Respond(p, 400, ctx[p])
  BY <1>1, <1>2, <1>3, Slot, RespondKeeps
<1>4. ASSUME ctx[p].wire # Nil, ValidStruct(struct, req),
             Goto(p, "handle", [ctx[p] EXCEPT !.body = req])
      PROVE  IInv'
  <2> DEFINE c == [ctx[p] EXCEPT !.body = req]
  <2>1. ctx[p].route \in DOMAIN Struct /\ ctx[p].wire \in Wires(ctx[p].route) /\ ctx[p].status = 200
    BY <1>1, Slot DEF RouteInv, BodyInv, AnswerInv
  <2>2. /\ req = [f \in DOMAIN struct |->
                    IF f = "email" THEN Plain(ctx[p].wire.email.word) ELSE ctx[p].wire[f]]
        /\ ctx[p].route = "register" =>
             ctx[p].wire.email.word \in Mailbox /\ RuneCount(ctx[p].wire.password) >= 8
    BY <1>4, <2>1, PreparedIsOwn
  <2> HIDE DEF req
  <2>3. /\ IsContext(c) /\ c.body = req /\ c.route = ctx[p].route /\ c.wire = ctx[p].wire
        /\ c.uid = ctx[p].uid /\ c.failed = ctx[p].failed
        /\ c.status = ctx[p].status /\ c.returned = ctx[p].returned /\ c.since = ctx[p].since
    BY Slot DEF IsContext
  <2>4. Goto(p, "handle", c)
    BY <1>4 DEF req
  <2> HIDE DEF c
  <2>5. pc'[p] = "handle" /\ ctx'[p] = c
    BY <2>4, GotoMoves DEF Step, Working
  <2>6. BodyInv(p)'
    BY <1>4, <2>1, <2>2, <2>3, <2>5 DEF BodyInv, Behind, OwnBody
  <2>7. RouteInv(p)'
    BY <1>1, <2>3, <2>5, Slot DEF RouteInv, Working
  <2> QED BY <1>1, <1>2, <2>1, <2>3, <2>4, <2>6, <2>7, Slot, AdvanceKeeps DEF Working
<1> QED BY <1>3, <1>4 DEF ValidateBody

(* A handler that has its answer, or goes on to issueTokens. *)
LEMMA IssueNext ==
  ASSUME IInv, Monotone, StoreInv', NEW p \in Proc, pc[p] \in Working,
         ctx[p].route \in {"register", "login", "refresh"},
         NEW u \in 1..MaxUsers, NEW c, SameRequest(p, c), c.status = 200,
         Goto(p, "issue", [c EXCEPT !.uid = u])
  PROVE  IInv'
<1> DEFINE d == [c EXCEPT !.uid = u]
<1>1. /\ IsContext(d) /\ d.uid = u /\ d.route = c.route /\ d.status = c.status
      /\ d.returned = c.returned /\ d.since = c.since
  BY MaxUsersAssumption DEF SameRequest, IsContext
<1>2. Goto(p, "issue", d)
  OBVIOUS
<1> HIDE DEF d
<1>3. pc'[p] = "issue" /\ ctx'[p] = d
  BY <1>2, GotoMoves DEF Step, Working
<1>4. BodyInv(p)' /\ RouteInv(p)'
  BY <1>1, <1>3 DEF BodyInv, RouteInv, Behind, SameRequest
<1>5. d.uid <= MaxUsers
  BY <1>1, MaxUsersAssumption
<1> QED BY <1>1, <1>2, <1>4, <1>5, AdvanceKeeps DEF Working, SameRequest

(* The texts a registration works with. *)
LEMMA RegisterBody ==
  ASSUME IInv, NEW p \in Proc, pc[p] \in Behind, ctx[p].route = "register"
  PROVE  /\ ctx[p].body.email = Plain(ctx[p].wire.email.word)
         /\ ctx[p].body.password = ctx[p].wire.password
         /\ ctx[p].body.email \in Email /\ ctx[p].body.password \in Password
         /\ ctx[p].wire.email.word \in Mailbox /\ RuneCount(ctx[p].wire.password) >= 8
<1>1. "register" \in DOMAIN Struct /\ DOMAIN Struct["register"] = {"email", "password", "name"}
  BY DEF Struct, RegisterRequest
<1>2. /\ ctx[p].wire \in Wires("register") /\ ctx[p].wire # Nil
      /\ OwnBody(p) /\ ctx[p].wire.email.word \in Mailbox
      /\ RuneCount(ctx[p].wire.password) >= 8
  BY <1>1, Slot DEF BodyInv
<1>3. ctx[p].wire \in [email : Email, password : Password, name : Names]
  BY <1>2 DEF Wires
<1>4. ctx[p].body = [f \in {"email", "password", "name"} |->
                       IF f = "email" THEN Plain(ctx[p].wire.email.word) ELSE ctx[p].wire[f]]
  BY <1>1, <1>2 DEF OwnBody
<1>5. Plain(ctx[p].wire.email.word) \in Email
  BY <1>2, <1>3, MailboxAssumption
<1> QED BY <1>2, <1>3, <1>4, <1>5

LEMMA RegisterStepKeeps ==
  ASSUME IInv, NEW p \in Proc, Register(p)
  PROVE  IInv'
<1>1. /\ pc[p] = "handle" /\ pc[p] \in Working /\ pc[p] \in Behind
      /\ ctx[p].route = "register" /\ UNCHANGED <<storeVars, logging>>
  BY DEF Register, At, Working, Behind
<1>2. Monotone /\ StoreInv' /\ users' = users
  BY <1>1, SameStore DEF storeVars
<1>3. PICK o \in Outcome :
        LET c == Note(ctx[p], o)
            taken == o = "ok" /\ ~EmailFree(c.body.email)
        IN  \/ taken /\ Respond(p, 409, c)
            \/ ~taken /\ TooLong(c.body.password) /\ ErrorResponse(p, 500, c)
            \/ ~taken /\ ~TooLong(c.body.password) /\ Goto(p, "insert", c)
  BY DEF Register
<1> DEFINE c == Note(ctx[p], o)
<1>4. /\ SameRequest(p, c) /\ c.wire = ctx[p].wire /\ c.body = ctx[p].body
      /\ c.status = ctx[p].status /\ c.failed = (ctx[p].failed \/ o = "error")
  BY ContextNoted
<1> HIDE DEF c
<1>5. CASE Respond(p, 409, c)
  BY <1>1, <1>2, <1>4, <1>5, RespondKeeps
<1>6. CASE ErrorResponse(p, 500, c)
  BY <1>1, <1>2, <1>4, <1>6, ErrorResponseKeeps
<1>7. ASSUME ~(o = "ok" /\ ~EmailFree(c.body.email)), Goto(p, "insert", c)
      PROVE  IInv'
  <2>1. pc'[p] = "insert" /\ ctx'[p] = c
    BY <1>7, GotoMoves DEF Step, Working
  <2>2. /\ ctx[p].wire \in Wires("register") /\ ctx[p].wire # Nil
        /\ OwnBody(p) /\ ctx[p].wire.email.word \in Mailbox /\ ctx[p].status = 200
        /\ RuneCount(ctx[p].wire.password) >= 8
    <3>1. "register" \in DOMAIN Struct
      BY DEF Struct
    <3>2. BodyInv(p) /\ AnswerInv(p)
      BY Slot
    <3> QED BY <1>1, <3>1, <3>2 DEF BodyInv, AnswerInv
  <2>3. OwnBody(p)'
    BY <1>4, <2>1, <2>2 DEF OwnBody, SameRequest
  <2>4. ~c.failed => \A u \in DOMAIN users : users[u].email.word # ctx[p].wire.email.word
    <3> SUFFICES ASSUME ~c.failed PROVE \A u \in DOMAIN users : users[u].email.word # ctx[p].wire.email.word
      OBVIOUS
    <3>1. o = "ok"
      BY <1>4, PipelineFaults DEF Outcome
    <3>2. \A u \in DOMAIN users : users[u].email # Plain(ctx[p].wire.email.word)
      BY <1>1, <1>4, <1>7, <3>1, RegisterBody DEF EmailFree, GetUserByEmail
    <3>3. \A u \in DOMAIN users : users[u].email = Plain(users[u].email.word)
      BY DEF IInv, StoreInv, OneAccountPerMailbox
    <3> QED BY <3>2, <3>3
  <2>5. BodyInv(p)'
    BY <1>1, <1>2, <1>4, <2>1, <2>2, <2>3, <2>4 DEF BodyInv, Behind, SameRequest
  <2>6. RouteInv(p)'
    BY <1>1, <1>4, <2>1 DEF RouteInv, Working, SameRequest
  <2>7. IsContext(c) /\ c.uid <= MaxUsers /\ c.status = 200
    BY <1>4, <2>2, Slot DEF SameRequest
  <2> QED BY <1>1, <1>2, <1>4, <1>7, <2>5, <2>6, <2>7, AdvanceKeeps DEF Working, SameRequest
<1> QED BY <1>3, <1>5, <1>6, <1>7 DEF c

LEMMA InsertUserKeeps ==
  ASSUME IInv, NEW p \in Proc, InsertUser(p)
  PROVE  IInv'
<1>1. /\ pc[p] = "insert" /\ pc[p] \in Working /\ pc[p] \in Behind
      /\ ctx[p].route = "register" /\ UNCHANGED logging
  BY DEF InsertUser, At, Working, Behind
<1>2. CASE /\ RegisterUser(ctx[p].body.email, ctx[p].body.password)
           /\ Goto(p, "issue", [ctx[p] EXCEPT !.uid = users_id_seq'])
  <2>1. Monotone /\ StoreInv' /\ users_id_seq' \in 1..MaxUsers
    <3>1. ctx[p].body.email \in Email /\ ctx[p].body.password \in Password
      BY <1>1, RegisterBody
    <3>2. /\ ctx[p].body.email = Plain(ctx[p].body.email.word)
          /\ ctx[p].body.email.word \in Mailbox /\ RuneCount(ctx[p].body.password) >= 8
      <4>1. Plain(ctx[p].wire.email.word).word = ctx[p].wire.email.word
        BY DEF Plain
      <4> QED BY <1>1, <4>1, RegisterBody
    <3> QED BY <1>1, <1>2, <3>1, <3>2, RegisterKeeps
  <2>2. PICK u \in 1..MaxUsers : u = users_id_seq'
    BY <2>1
  <2>3. Goto(p, "issue", [ctx[p] EXCEPT !.uid = u])
    BY <1>2, <2>2
  <2>4. ctx[p].status = 200
    BY <1>1, Slot DEF AnswerInv
  <2> QED BY <1>1, <2>1, <2>3, <2>4, Slot, IssueNext
<1>3. ASSUME NEW o \in Outcome, ErrorResponse(p, 500, Note(ctx[p], o)), UNCHANGED storeVars
      PROVE  IInv'
  BY <1>1, <1>3, SameStore, ContextNoted, ErrorResponseKeeps
<1> QED BY <1>2, <1>3 DEF InsertUser

LEMMA LoginKeeps ==
  ASSUME IInv, NEW p \in Proc, Login(p)
  PROVE  IInv'
<1>1. /\ pc[p] \in Working /\ ctx[p].route = "login" /\ UNCHANGED <<storeVars, logging>>
  BY DEF Login, At, Working
<1>2. Monotone /\ StoreInv'
  BY <1>1, SameStore
<1>3. PICK o \in Outcome :
        \/ Respond(p, 401, Note(ctx[p], o))
        \/ \E u \in DOMAIN users : Goto(p, "issue", [Note(ctx[p], o) EXCEPT !.uid = u])
  BY DEF Login, GetUserByEmail
<1>4. SameRequest(p, Note(ctx[p], o)) /\ Note(ctx[p], o).status = ctx[p].status
  BY ContextNoted
<1>5. CASE Respond(p, 401, Note(ctx[p], o))
  BY <1>1, <1>2, <1>4, <1>5, RespondKeeps
<1>6. ASSUME NEW u \in DOMAIN users, Goto(p, "issue", [Note(ctx[p], o) EXCEPT !.uid = u])
      PROVE  IInv'
  <2>1. ctx[p].status = 200 /\ u \in 1..MaxUsers
    BY <1>1, Slot DEF AnswerInv
  <2> QED BY <1>1, <1>2, <1>4, <1>6, <2>1, IssueNext
<1> QED BY <1>3, <1>5, <1>6

LEMMA RefreshKeeps ==
  ASSUME IInv, NEW p \in Proc, Refresh(p)
  PROVE  IInv'
<1>1. /\ pc[p] \in Working /\ ctx[p].route = "refresh" /\ UNCHANGED <<storeVars, logging>>
  BY DEF Refresh, At, Working
<1>2. Monotone /\ StoreInv'
  BY <1>1, SameStore
<1>3. CASE Respond(p, 401, ctx[p])
  BY <1>1, <1>2, <1>3, Slot, RespondKeeps
<1>4. ASSUME NEW u \in DOMAIN users, Goto(p, "issue", [ctx[p] EXCEPT !.uid = u])
      PROVE  IInv'
  <2>1. ctx[p].status = 200 /\ u \in 1..MaxUsers
    BY <1>1, Slot DEF AnswerInv
  <2> QED BY <1>1, <1>2, <1>4, <2>1, Slot, IssueNext
<1> QED BY <1>3, <1>4 DEF Refresh

(* The handlers whose step is their answer and leaves the table alone. *)
LEMMA AnswerKeeps ==
  ASSUME IInv, NEW p \in Proc, IssueTokens(p) \/ Logout(p) \/ ReadOrWriteMe(p) \/ Probe(p)
  PROVE  IInv'
<1>1. pc[p] \in Working /\ UNCHANGED <<storeVars, logging>>
  BY DEF IssueTokens, Logout, ReadOrWriteMe, Probe, At, Working
<1>2. Monotone /\ StoreInv'
  BY <1>1, SameStore
<1>3. \/ \E o \in Outcome : ErrorResponse(p, 500, Note(ctx[p], o))
      \/ \E status \in {200, 201} : Respond(p, status, ctx[p])
      \/ ctx[p].route = "probe" /\ Respond(p, 503, ctx[p])
  BY DEF IssueTokens, Logout, ReadOrWriteMe, Probe, At
<1>4. ASSUME NEW o \in Outcome, ErrorResponse(p, 500, Note(ctx[p], o))
      PROVE  IInv'
  BY <1>1, <1>2, <1>4, ContextNoted, ErrorResponseKeeps
<1>5. ASSUME NEW status \in {200, 201}, Respond(p, status, ctx[p])
      PROVE  IInv'
  BY <1>1, <1>2, <1>5, Slot, RespondKeeps
<1>6. CASE ctx[p].route = "probe" /\ Respond(p, 503, ctx[p])
  BY <1>1, <1>2, <1>6, Slot, RespondKeeps
<1> QED BY <1>3, <1>4, <1>5, <1>6

LEMMA DeleteMeKeeps ==
  ASSUME IInv, NEW p \in Proc, DeleteMe(p)
  PROVE  IInv'
<1>1. pc[p] \in Working /\ UNCHANGED logging
  BY DEF DeleteMe, At, Working
<1>2. CASE DeleteUser(ctx[p].uid) /\ Respond(p, 200, ctx[p])
  BY <1>1, <1>2, DeleteKeeps, Slot, RespondKeeps
<1>3. CASE ErrorResponse(p, 500, Note(ctx[p], "error")) /\ UNCHANGED storeVars
  BY <1>1, <1>3, SameStore, ContextNoted, ErrorResponseKeeps
<1> QED BY <1>2, <1>3 DEF DeleteMe

LEMMA LogKeeps ==
  ASSUME IInv, NEW p \in Proc, Log(p)
  PROVE  IInv'
<1> DEFINE line == IF ctx[p].route = "probe" THEN NoLine
                   ELSE [level |-> Level(ctx[p].status), status |-> ctx[p].status, err |-> ctx[p].err]
           c == [ctx[p] EXCEPT !.line = line]
<1>1. pc[p] = "log" /\ Goto(p, "send", c) /\ UNCHANGED <<storeVars, logging>>
  BY DEF Log
<1>2. Monotone /\ StoreInv' /\ users_id_seq' = users_id_seq /\ logging' = logging
  BY <1>1, SameStore DEF storeVars
<1> HIDE DEF line
<1>3. /\ IsContext(c) /\ c.route = ctx[p].route /\ c.status = ctx[p].status
      /\ c.err = ctx[p].err /\ c.line = line /\ c.uid = ctx[p].uid
      /\ c.returned = ctx[p].returned /\ c.since = ctx[p].since
  BY Slot DEF IsContext
<1> HIDE DEF c
<1>4. /\ pc'[p] = "send" /\ ctx'[p] = c /\ Alone(p)
      /\ pc' \in [Proc -> Step] /\ ctx' = [q \in Proc |-> ctx'[q]]
      /\ answer' = 0
  BY <1>1, GotoMoves DEF Step
<1>5. ContextInv(p)'
  BY <1>2, <1>3, <1>4, Slot DEF ContextInv
<1>6. BodyInv(p)' /\ RouteInv(p)'
  BY <1>4 DEF BodyInv, RouteInv, Behind, Working
<1>7. AnswerInv(p)'
  <2>1. /\ ctx[p].route # "preflight"
        /\ ctx[p].status >= 500 /\ ctx[p].route # "probe" => ctx[p].err
    BY <1>1, Slot DEF AnswerInv
  <2> QED BY <1>3, <1>4, <2>1 DEF AnswerInv, Working, line
<1> QED BY <1>2, <1>4, <1>5, <1>6, <1>7, StepKeeps DEF SlotInv

LEMMA SendKeeps ==
  ASSUME IInv, NEW p \in Proc, Send(p)
  PROVE  IInv'
<1>1. /\ pc' = [pc EXCEPT ![p] = "idle"] /\ ctx' = [ctx EXCEPT ![p] = NoRequest]
      /\ answer' = SentStatus(ctx[p]) /\ UNCHANGED <<storeVars, logging>>
  BY DEF Send
<1>2. Monotone /\ StoreInv'
  BY <1>1, SameStore
<1>3. /\ pc'[p] = "idle" /\ ctx'[p] = NoRequest /\ Alone(p)
      /\ pc' \in [Proc -> Step] /\ ctx' = [q \in Proc |-> ctx'[q]]
  BY <1>1 DEF IInv, Alone, Step
<1>4. /\ IsContext(NoRequest) /\ NoRequest.route = "probe" /\ NoRequest.status = 200
      /\ NoRequest.uid = 0 /\ NoRequest.since = 0 /\ NoRequest.returned = 0
  <2>1. users_id_seq \in Nat
    BY MaxUsersAssumption DEF IInv, StoreInv, StoreTypeOK
  <2>2. /\ IsContext(Fresh("probe", Nil)) /\ Fresh("probe", Nil).route = "probe"
        /\ Fresh("probe", Nil).status = 200 /\ Fresh("probe", Nil).uid = 0
        /\ Fresh("probe", Nil).returned = 0
    BY <2>1 DEF Fresh, IsContext
  <2> QED BY <2>2 DEF NoRequest, IsContext
<1>5. ContextInv(p)'
  <2>1. users_id_seq' \in Nat
    BY <1>2 DEF Monotone
  <2>2. "probe" \in DOMAIN Entry
    BY DEF Entry
  <2> QED BY <1>3, <1>4, <2>1, <2>2, MaxUsersAssumption DEF ContextInv, Status
<1>6. BodyInv(p)' /\ RouteInv(p)' /\ AnswerInv(p)'
  BY <1>3, <1>4 DEF BodyInv, RouteInv, AnswerInv, Behind, Working
<1>7. answer' \in {0, 200, 201, 204, 400, 401, 404, 409, 500, 503}
  BY <1>1, Slot DEF ContextInv, Status, SentStatus
<1> QED BY <1>2, <1>3, <1>5, <1>6, <1>7, StepKeeps DEF SlotInv
-----------------------------------------------------------------------------
LEMMA InitHolds == Init => IInv
<1> SUFFICES ASSUME Init PROVE IInv
  OBVIOUS
<1>1. users_id_seq = 0 /\ DOMAIN users = {} /\ DOMAIN tokens = {}
  BY DEF Init, StoreInit
<1>2. StoreInv
  <2>1. users \in [{} -> User] /\ tokens \in [{} -> UserToken]
    BY DEF Init, StoreInit
  <2> QED BY <1>1, <2>1, MaxUsersAssumption DEF StoreInv, StoreTypeOK, OneAccountPerMailbox, Admitted
<1>3. /\ pc = [p \in Proc |-> "idle"] /\ ctx = [p \in Proc |-> NoRequest]
      /\ logging \in BOOLEAN /\ answer = 0
  BY DEF Init
<1>4. /\ IsContext(NoRequest) /\ NoRequest.route = "probe" /\ NoRequest.status = 200
      /\ NoRequest.uid = 0 /\ NoRequest.since = 0 /\ NoRequest.returned = 0
  <2>1. /\ IsContext(Fresh("probe", Nil)) /\ Fresh("probe", Nil).route = "probe"
        /\ Fresh("probe", Nil).status = 200 /\ Fresh("probe", Nil).uid = 0
        /\ Fresh("probe", Nil).returned = 0
    BY <1>1 DEF Fresh, IsContext
  <2> QED BY <2>1 DEF NoRequest, IsContext
<1>5. ASSUME NEW p \in Proc PROVE SlotInv(p)
  <2>1. pc[p] = "idle" /\ ctx[p] = NoRequest
    BY <1>3
  <2>2. "probe" \in DOMAIN Entry
    BY DEF Entry
  <2>3. ContextInv(p)
    BY <1>1, <1>4, <2>1, <2>2, MaxUsersAssumption DEF ContextInv, Status
  <2>4. BodyInv(p) /\ RouteInv(p) /\ AnswerInv(p)
    BY <1>4, <2>1 DEF BodyInv, RouteInv, AnswerInv, Behind, Working
  <2> QED BY <2>3, <2>4 DEF SlotInv
<1> QED BY <1>2, <1>3, <1>5 DEF IInv, Step

LEMMA NextKeeps == IInv /\ [Next]_vars => IInv'
<1> SUFFICES ASSUME IInv, [Next]_vars PROVE IInv'
  OBVIOUS
<1>1. CASE UNCHANGED vars
  <2>1. /\ UNCHANGED <<storeVars, logging>> /\ pc' = pc /\ ctx' = ctx /\ answer' = answer
    BY <1>1 DEF vars
  <2>2. Monotone /\ StoreInv'
    BY <2>1, SameStore
  <2>3. CASE Proc = {}
    BY <2>1, <2>2, <2>3 DEF IInv, Monotone
  <2>4. ASSUME NEW p \in Proc PROVE IInv'
    <3>1. Alone(p) /\ users_id_seq' = users_id_seq /\ logging' = logging /\ users' = users
      BY <2>1 DEF Alone, storeVars
    <3>2. ContextInv(p)' /\ RouteInv(p)' /\ AnswerInv(p)'
      BY <2>1, <3>1, Slot DEF ContextInv, RouteInv, AnswerInv
    <3>3. BodyInv(p)'
      BY <2>1, <3>1, Slot DEF BodyInv, OwnBody
    <3> QED BY <2>1, <2>2, <3>1, <3>2, <3>3, StepKeeps DEF IInv, SlotInv
  <2> QED BY <2>3, <2>4
<1>2. ASSUME NEW p \in Proc, Arrive(p) \/ Handle(p) \/ Log(p) \/ Send(p)
      PROVE  IInv'
  BY <1>2, ArriveKeeps, AuthorizeKeeps, ValidateBodyKeeps, RegisterStepKeeps, InsertUserKeeps,
     LoginKeeps, RefreshKeeps, AnswerKeeps, DeleteMeKeeps, LogKeeps, SendKeeps DEF Handle
<1> QED BY <1>1, <1>2 DEF Next

(* The inductive invariant holds throughout. *)
THEOREM Invariance == Spec => []IInv
BY InitHolds, NextKeeps, PTL DEF Spec

(* Every variable holds a value the code can produce. *)
THEOREM PipelineTypeCorrect == Spec => []TypeOK
<1>1. IInv => TypeOK
  <2> SUFFICES ASSUME IInv PROVE TypeOK
    OBVIOUS
  <2>1. ASSUME NEW p \in Proc
        PROVE  /\ ctx[p].route \in DOMAIN Entry
               /\ ctx[p].uid \in UserId \cup {0} /\ ctx[p].since \in 0..MaxUsers
               /\ pc[p] = "issue" => ctx[p].uid # 0
               /\ ctx[p].status \in {200, 201, 204, 400, 401, 409, 500, 503}
               /\ ctx[p].returned \in {0, 400, 404}
               /\ ctx[p].err \in BOOLEAN /\ ctx[p].failed \in BOOLEAN
    <3>1. ctx[p].uid \in Nat /\ ctx[p].since \in Nat /\ ctx[p].err \in BOOLEAN /\ ctx[p].failed \in BOOLEAN
      BY Slot DEF IsContext
    <3>2. users_id_seq \in 0..MaxUsers
      BY DEF IInv, StoreInv, StoreTypeOK
    <3>3. ctx[p].uid \in UserId \cup {0} /\ ctx[p].since \in 0..MaxUsers
      BY <3>1, <3>2, MaxUsersAssumption, Slot DEF ContextInv, UserId
    <3> QED BY <3>1, <3>3, Slot DEF ContextInv, RouteInv, Status
  <2> QED BY <2>1 DEF IInv, StoreInv, TypeOK, Step, Working
<1> QED BY <1>1, Invariance, PTL

(* However clients spell a mailbox, it has one account, in normal form. *)
THEOREM MailboxesHaveOneAccount == Spec => []OneAccountPerMailbox
<1>1. IInv => OneAccountPerMailbox
  BY DEF IInv, StoreInv
<1> QED BY <1>1, Invariance, PTL

(* A handler's body is the one its own client sent, normalised. *)
THEOREM BodiesAreOwn == Spec => []BodyIsOwn
<1>1. IInv => BodyIsOwn
  BY Slot DEF BodyIsOwn, BodyInv, OwnBody, Behind
<1> QED BY <1>1, Invariance, PTL
-----------------------------------------------------------------------------
(* A step of slot p moves no other slot. *)
Moves(p) == \E s, c : pc' = [pc EXCEPT ![p] = s] /\ ctx' = [ctx EXCEPT ![p] = c]

LEMMA StepMoves ==
  ASSUME NEW p \in Proc, Arrive(p) \/ Handle(p) \/ Log(p) \/ Send(p)
  PROVE  Moves(p)
<1>1. ASSUME NEW s, NEW c, Goto(p, s, c) PROVE Moves(p)
  BY <1>1 DEF Goto, Moves
<1>2. ASSUME NEW status, NEW c, Respond(p, status, c) PROVE Moves(p)
  BY <1>1, <1>2 DEF Respond
<1>3. ASSUME NEW status, NEW c, ErrorResponse(p, status, c) PROVE Moves(p)
  BY <1>2, <1>3 DEF ErrorResponse
<1>4. CASE Arrive(p)
  <2>1. PICK route \in DOMAIN Entry : \E wire \in Wires(route) :
          ctx' = [ctx EXCEPT ![p] =
                    [Fresh(route, wire) EXCEPT !.status = IF route = "preflight" THEN 204 ELSE @]]
          /\ pc' = [pc EXCEPT ![p] = IF Entry[route] = "log" /\ ~logging THEN "send" ELSE Entry[route]]
    BY <1>4 DEF Arrive
  <2> QED BY <2>1 DEF Moves
<1>5. CASE Send(p)
  BY <1>5 DEF Send, Moves
<1>6. CASE Log(p)
  BY <1>1, <1>6 DEF Log
<1>7. CASE Authorize(p) \/ ValidateBody(p)
  BY <1>1, <1>2, <1>7 DEF Authorize, ValidateBody
<1>8. CASE Register(p)
  BY <1>1, <1>2, <1>3, <1>8 DEF Register
<1>9. CASE InsertUser(p)
  BY <1>1, <1>3, <1>9 DEF InsertUser
<1>10. CASE Login(p) \/ Refresh(p)
  BY <1>1, <1>2, <1>10 DEF Login, Refresh
<1>11. CASE IssueTokens(p) \/ Logout(p)
  BY <1>2, <1>3, <1>11 DEF IssueTokens, Logout
<1>12. CASE ReadOrWriteMe(p) \/ DeleteMe(p) \/ Probe(p)
  BY <1>2, <1>3, <1>12 DEF ReadOrWriteMe, DeleteMe, Probe
<1> QED BY <1>4, <1>5, <1>6, <1>7, <1>8, <1>9, <1>10, <1>11, <1>12 DEF Handle

(* Whose step it is when slot p decides or sends. *)
LEMMA OwnStep ==
  ASSUME IInv, [Next]_vars, NEW p \in Proc, pc'[p] # pc[p]
  PROVE  Arrive(p) \/ Handle(p) \/ Log(p) \/ Send(p)
<1>1. PICK q \in Proc : Arrive(q) \/ Handle(q) \/ Log(q) \/ Send(q)
  BY DEF Next, vars
<1>2. PICK s, c : pc' = [pc EXCEPT ![q] = s] /\ ctx' = [ctx EXCEPT ![q] = c]
  BY <1>1, StepMoves DEF Moves
<1>3. q = p
  BY <1>2 DEF IInv
<1> QED BY <1>1, <1>3

LEMMA Decided ==
  ASSUME IInv, NEW p \in Proc, NEW status \in Nat, NEW c, SameRequest(p, c), Respond(p, status, c)
  PROVE  ctx'[p].status = status /\ ctx'[p].failed = c.failed
<1> DEFINE s == IF logging THEN "log" ELSE "send"
<1>1. Goto(p, s, Answered(c, status)) /\ s \in Step
  BY DEF Respond, Answered, Step
<1>2. ctx'[p] = Answered(c, status)
  BY <1>1, GotoMoves
<1> QED BY <1>2, ContextAnswered DEF SameRequest

LEMMA DecidedError ==
  ASSUME IInv, NEW p \in Proc, NEW c, SameRequest(p, c), ErrorResponse(p, 500, c)
  PROVE  ctx'[p].status = 500 /\ ctx'[p].failed = c.failed
<1>1. SameRequest(p, Erred(c)) /\ Erred(c).failed = c.failed
  <2>1. Erred(c).failed = c.failed
    BY DEF SameRequest, IsContext, Erred
  <2> QED BY <2>1, ContextErred
<1>2. Respond(p, 500, Erred(c))
  BY DEF ErrorResponse, Erred
<1> QED BY <1>1, <1>2, Decided

(* A slot that goes on does not decide. *)
LEMMA GoingOn ==
  ASSUME IInv, NEW p \in Proc, NEW s \in Working, NEW c, Goto(p, s, c), NEW status
  PROVE  ~Decides(p, status)
BY GotoMoves DEF Decides, Working, Step

(* The action of a slot that decides, by the handler it runs. *)
LEMMA Deciding ==
  ASSUME IInv, [Next]_vars, NEW p \in Proc, NEW status, Decides(p, status)
  PROVE  \/ Register(p) \/ InsertUser(p) \/ Login(p) \/ Refresh(p) \/ IssueTokens(p)
         \/ Logout(p) \/ ReadOrWriteMe(p) \/ DeleteMe(p) \/ Probe(p)
<1>1. pc[p] \in {"handle", "insert", "issue"} /\ pc'[p] # pc[p]
  BY DEF Decides
<1>2. Arrive(p) \/ Handle(p) \/ Log(p) \/ Send(p)
  BY <1>1, OwnStep
<1> QED BY <1>1, <1>2 DEF Handle, Arrive, Log, Send, Authorize, ValidateBody

(* A row was admitted by RegisterRequest, hence what its owner types in a  *)
(* log-in is a body that LoginRequest lets pass.                           *)
LEMMA OwnersPass ==
  ASSUME IInv, NEW p \in Proc, pc[p] = "validate", ctx[p].route = "login", ctx[p].wire # Nil,
         NEW u \in DOMAIN users,
         users[u].email.word = ctx[p].wire.email.word,
         users[u].hashed_password = ctx[p].wire.password
  PROVE  ctx[p].wire # Nil /\ ValidStruct(Struct["login"], Prepared(Struct["login"], ctx[p].wire))
<1> DEFINE w == ctx[p].wire
<1>1. "login" \in DOMAIN Struct /\ Struct["login"] = LoginRequest
  BY DEF Struct
<1>2. w \in Wires("login")
  BY <1>1, Slot DEF BodyInv
<1>3. w \in [email : Email, password : Password]
  BY <1>2 DEF Wires
<1>4. w \in [email : Text, password : Text]
  BY <1>3, TextAssumption
<1>5. w.email.word \in Mailbox /\ w.password # Plain(Empty)
  <2>1. users[u].email.word \in Mailbox /\ RuneCount(users[u].hashed_password) >= 8
    BY DEF IInv, StoreInv, Admitted
  <2> QED BY <2>1, LongIsNotEmpty
<1>6. ValidStruct(LoginRequest, Prepared(LoginRequest, w))
  <2> HIDE DEF w
  <2> QED BY <1>4, <1>5, LoginAccepts
<1> QED BY <1>1, <1>3, <1>6, TextAssumption

(* The handler compares what it stored with what ValidateBody made of the  *)
(* log-in: the same normal form of the mailbox, the same password.         *)
LEMMA OwnersMatch ==
  ASSUME IInv, NEW p \in Proc, Login(p), pc'[p] \in {"log", "send"}, ~ctx'[p].failed,
         NEW u \in DOMAIN users,
         users[u].email.word = ctx[p].wire.email.word,
         users[u].hashed_password = ctx[p].wire.password
  PROVE  FALSE
<1>1. PICK o \in Outcome :
        LET c == Note(ctx[p], o)
            matching == {v \in GetUserByEmail(c.body.email) :
                           o = "ok" /\ users[v].hashed_password = c.body.password}
        IN  \/ matching = {} /\ Respond(p, 401, c)
            \/ \E v \in matching : Goto(p, "issue", [c EXCEPT !.uid = v])
  BY DEF Login
<1> DEFINE c == Note(ctx[p], o)
           matching == {v \in GetUserByEmail(c.body.email) :
                          o = "ok" /\ users[v].hashed_password = c.body.password}
<1>2. SameRequest(p, c) /\ c.body = ctx[p].body /\ c.failed = (ctx[p].failed \/ o = "error")
  BY ContextNoted
<1>3. matching = {} /\ Respond(p, 401, c)
  <2>1. ASSUME NEW v, Goto(p, "issue", [c EXCEPT !.uid = v]) PROVE FALSE
    BY <2>1, GotoMoves DEF Step, Working
  <2> HIDE DEF c
  <2> QED BY <1>1, <2>1 DEF c
<1>4. ctx'[p].failed = c.failed
  BY <1>2, <1>3, Decided
<1>5. o = "ok"
  BY <1>2, <1>4, PipelineFaults DEF Outcome
<1>6. pc[p] \in Behind /\ ctx[p].route = "login"
  BY DEF Login, At, Behind
<1>7. "login" \in DOMAIN Struct /\ DOMAIN Struct["login"] = {"email", "password"}
  BY DEF Struct, LoginRequest
<1>8. OwnBody(p)
  BY <1>6, <1>7, Slot DEF BodyInv
<1>9. /\ ctx[p].body.email = Plain(ctx[p].wire.email.word)
      /\ ctx[p].body.password = ctx[p].wire.password
  BY <1>6, <1>7, <1>8 DEF OwnBody
<1>10. users[u].email = Plain(users[u].email.word)
  BY DEF IInv, StoreInv, OneAccountPerMailbox
<1>11. u \in matching
  <2> HIDE DEF c
  <2> QED BY <1>2, <1>5, <1>9, <1>10 DEF GetUserByEmail
<1> QED BY <1>3, <1>11

(* Whoever has the mailbox and the password of an account is let in,       *)
(* however the mailbox is typed: a 400 would take a row RegisterRequest    *)
(* did not admit, a 401 one in another normal form (auth.go:93).           *)
THEOREM OwnersLogIn == Spec => OwnersCanLogIn
<1>1. ASSUME IInv, [Next]_vars, NEW p \in Proc, RefusesLogin(p), ~ctx'[p].failed,
             NEW u \in DOMAIN users,
             users[u].email.word = ctx[p].wire.email.word,
             users[u].hashed_password = ctx[p].wire.password
      PROVE  FALSE
  <2>1. Arrive(p) \/ Handle(p) \/ Log(p) \/ Send(p)
    BY <1>1, OwnStep DEF RefusesLogin
  <2>2. ValidateBody(p) \/ Login(p)
    BY <1>1, <2>1 DEF RefusesLogin, Handle, Arrive, Log, Send, Authorize, Register, InsertUser,
       Refresh, IssueTokens, Logout, ReadOrWriteMe, DeleteMe, Probe, At
  <2>3. CASE ValidateBody(p)
    <3>1. pc[p] = "validate" /\ ctx[p].route = "login"
      BY <1>1, <2>3 DEF ValidateBody, RefusesLogin
    <3> DEFINE req == Prepared(Struct["login"], ctx[p].wire)
               valid == ctx[p].wire # Nil /\ ValidStruct(Struct["login"], req)
    <3>2. valid
      BY <1>1, <3>1, OwnersPass DEF RefusesLogin
    <3>3. Goto(p, "handle", [ctx[p] EXCEPT !.body = req])
      BY <2>3, <3>1, <3>2 DEF ValidateBody
    <3>4. pc'[p] = "handle"
      BY <1>1, <3>3, GotoMoves DEF Step, Working
    <3> QED BY <1>1, <3>4 DEF RefusesLogin
  <2>4. CASE Login(p)
    BY <1>1, <2>4, OwnersMatch DEF RefusesLogin
  <2> QED BY <2>2, <2>3, <2>4
<1>2. IInv /\ [Next]_vars =>
        [\A p \in Proc :
           RefusesLogin(p) =>
             \/ ctx'[p].failed
             \/ ~\E u \in DOMAIN users : /\ users[u].email.word = ctx[p].wire.email.word
                                         /\ users[u].hashed_password = ctx[p].wire.password]_vars
  BY <1>1
<1> QED BY <1>2, Invariance, PTL DEF Spec, OwnersCanLogIn

(* Why slot p may answer 500. *)
Excused(p) ==
  \/ ctx'[p].failed
  \/ ctx[p].route = "register" /\ TooLong(ctx[p].wire.password)
  \/ \E u \in DOMAIN users : /\ ctx[p].route = "register" /\ u > ctx[p].since
                             /\ users[u].email.word = ctx[p].wire.email.word
  \/ ctx[p].uid # 0 /\ ctx[p].uid \notin DOMAIN users

(* A request alone in the system gets no 500 unless a statement fails or   *)
(* its password is too long for bcrypt.                                    *)
THEOREM FiveHundredsAreExcused == Spec => No500Alone
<1>1. ASSUME IInv, [Next]_vars, NEW p \in Proc, Decides(p, 500)
      PROVE  Excused(p)
  <2>1. ASSUME NEW status \in {200, 201, 401, 409, 503}, NEW c, SameRequest(p, c), Respond(p, status, c)
        PROVE  FALSE
    <3>1. ctx'[p].status = status
      BY <1>1, <2>1, Decided
    <3> QED BY <1>1, <2>1, <3>1 DEF Decides
  <2>2. ASSUME NEW s \in Working, NEW c, Goto(p, s, c) PROVE FALSE
    BY <1>1, <2>2, GoingOn
  <2>3. ASSUME NEW o, ErrorResponse(p, 500, Note(ctx[p], o))
        PROVE  ctx'[p].failed = (ctx[p].failed \/ o = "error")
    BY <1>1, <2>3, ContextNoted, DecidedError
  <2>4. SameRequest(p, ctx[p]) /\ \A o : SameRequest(p, Note(ctx[p], o))
    BY <1>1, ContextNoted
  <2>5. Outcome \subseteq {"ok", "error"}
    BY PipelineFaults DEF Outcome
  <2>6. CASE Register(p)
    <3>1. PICK o \in Outcome :
            \/ Respond(p, 409, Note(ctx[p], o))
            \/ TooLong(Note(ctx[p], o).body.password) /\ ErrorResponse(p, 500, Note(ctx[p], o))
            \/ Goto(p, "insert", Note(ctx[p], o))
      BY <2>6 DEF Register
    <3>2. TooLong(Note(ctx[p], o).body.password)
      BY <2>1, <2>2, <2>4, <3>1 DEF Working
    <3>3. pc[p] \in Behind /\ ctx[p].route = "register"
      BY <2>6 DEF Register, At, Behind
    <3>4. Note(ctx[p], o).body.password = ctx[p].wire.password
      BY <1>1, <3>3, ContextNoted, RegisterBody
    <3> QED BY <3>2, <3>3, <3>4 DEF Excused
  <2>7. CASE InsertUser(p)
    <3>1. PICK o \in Outcome :
            /\ o = "error" \/ ~EmailFree(ctx[p].body.email)
            /\ ErrorResponse(p, 500, Note(ctx[p], o))
      <4>1. ~Goto(p, "issue", [ctx[p] EXCEPT !.uid = users_id_seq'])
        BY <2>2 DEF Working
      <4> QED BY <2>7, <4>1 DEF InsertUser
    <3>2. pc[p] = "insert" /\ pc[p] \in Behind /\ ctx[p].route = "register"
      BY <2>7 DEF InsertUser, At, Behind
    <3>3. CASE o = "error" \/ ctx[p].failed
      BY <2>3, <3>1, <3>3 DEF Excused
    <3>4. CASE o # "error" /\ ~ctx[p].failed
      <4>1. PICK u \in DOMAIN users : users[u].email = ctx[p].body.email
        BY <3>1, <3>4 DEF EmailFree, GetUserByEmail
      <4>2. users[u].email.word = ctx[p].wire.email.word
        <5>1. users[u].email = Plain(ctx[p].wire.email.word)
          BY <1>1, <3>2, <4>1, RegisterBody
        <5>2. Plain(ctx[p].wire.email.word).word = ctx[p].wire.email.word
          BY DEF Plain
        <5> QED BY <5>1, <5>2
      <4>3. u > ctx[p].since
        BY <1>1, <3>2, <3>4, <4>2, Slot DEF BodyInv
      <4> QED BY <3>2, <4>2, <4>3 DEF Excused
    <3> QED BY <3>3, <3>4
  <2>8. CASE Login(p) \/ Refresh(p) \/ Logout(p) \/ Probe(p)
    <3>1. CASE Login(p)
      <4>1. PICK o \in Outcome :
              \/ Respond(p, 401, Note(ctx[p], o))
              \/ \E u \in DOMAIN users : Goto(p, "issue", [Note(ctx[p], o) EXCEPT !.uid = u])
        BY <3>1 DEF Login, GetUserByEmail
      <4>2. ASSUME NEW u, Goto(p, "issue", [Note(ctx[p], o) EXCEPT !.uid = u]) PROVE FALSE
        BY <2>2, <4>2 DEF Working
      <4>3. ~Respond(p, 401, Note(ctx[p], o))
        BY <2>1, <2>4
      <4> QED BY <4>1, <4>2, <4>3
    <3>2. CASE Refresh(p)
      <4>1. \/ Respond(p, 401, ctx[p])
            \/ \E u \in DOMAIN users : Goto(p, "issue", [ctx[p] EXCEPT !.uid = u])
        BY <3>2 DEF Refresh
      <4>2. ASSUME NEW u, Goto(p, "issue", [ctx[p] EXCEPT !.uid = u]) PROVE FALSE
        BY <2>2, <4>2 DEF Working
      <4>3. ~Respond(p, 401, ctx[p])
        BY <2>1, <2>4
      <4> QED BY <4>1, <4>2, <4>3
    <3>3. CASE Logout(p)
      BY <2>1, <2>4, <3>3 DEF Logout
    <3>4. CASE Probe(p)
      BY <2>1, <2>4, <3>4 DEF Probe
    <3> QED BY <2>8, <3>1, <3>2, <3>3, <3>4
  <2>9. CASE IssueTokens(p) \/ ReadOrWriteMe(p)
    <3>1. PICK o \in Outcome : /\ o = "error" \/ ~UserExists(ctx[p].uid)
                               /\ ErrorResponse(p, 500, Note(ctx[p], o))
      <4>1. \A status \in {200, 201} : ~Respond(p, status, ctx[p])
        BY <2>1, <2>4
      <4> QED BY <2>5, <2>9, <4>1 DEF IssueTokens, ReadOrWriteMe
    <3>2. ctx[p].uid # 0
      BY <1>1, <2>9, Slot DEF IssueTokens, ReadOrWriteMe, At, RouteInv
    <3> QED BY <2>3, <3>1, <3>2 DEF Excused, UserExists
  <2>10. CASE DeleteMe(p)
    <3>1. ErrorResponse(p, 500, Note(ctx[p], "error"))
      BY <2>1, <2>4, <2>10 DEF DeleteMe
    <3> QED BY <2>3, <3>1 DEF Excused
  <2> QED BY <1>1, <2>6, <2>7, <2>8, <2>9, <2>10, Deciding
<1>2. IInv /\ [Next]_vars =>
        [\A p \in Proc :
           Decides(p, 500) =>
             \/ ctx'[p].failed
             \/ ctx[p].route = "register" /\ TooLong(ctx[p].wire.password)
             \/ \E u \in DOMAIN users : /\ ctx[p].route = "register" /\ u > ctx[p].since
                                        /\ users[u].email.word = ctx[p].wire.email.word
             \/ ctx[p].uid # 0 /\ ctx[p].uid \notin DOMAIN users]_vars
  BY <1>1 DEF Excused
<1> QED BY <1>2, Invariance, PTL DEF Spec, No500Alone
-----------------------------------------------------------------------------
LEMMA Sending ==
  ASSUME IInv, [Next]_vars, NEW p \in Proc, Sends(p), logging
  PROVE  /\ answer' = SentStatus(ctx[p])
         /\ AnswerInv(p) /\ ContextInv(p) /\ pc[p] = "send"
<1>1. pc[p] = "send" /\ pc'[p] = "idle" /\ pc'[p] # pc[p]
  BY DEF Sends
<1>2. Arrive(p) \/ Handle(p) \/ Log(p) \/ Send(p)
  BY <1>1, OwnStep
<1>3. Send(p)
  BY <1>1, <1>2 DEF Handle, Arrive, Log, Authorize, ValidateBody, Register, InsertUser, Login,
     Refresh, IssueTokens, Logout, ReadOrWriteMe, DeleteMe, Probe, At
<1> QED BY <1>1, <1>3, Slot DEF Send

(* The log says what the client was told. *)
THEOREM LogIsTrue == Spec => LogsTheAnswer
<1>1. ASSUME IInv, [Next]_vars, NEW p \in Proc, Sends(p), logging,
             ctx[p].route \notin {"probe", "preflight", "unknown"}
      PROVE  ctx[p].line.status = answer'
  <2>1. ctx[p].returned = 0 /\ answer' = ctx[p].status
    BY <1>1, Sending DEF ContextInv, SentStatus
  <2>2. ctx[p].line = [level |-> Level(ctx[p].status), status |-> ctx[p].status, err |-> ctx[p].err]
    BY <1>1, Sending DEF AnswerInv
  <2> QED BY <2>1, <2>2
<1>2. IInv /\ [Next]_vars =>
        [\A p \in Proc :
           Sends(p) /\ logging /\ ctx[p].route \notin {"probe", "preflight", "unknown"} =>
             ctx[p].line.status = answer']_vars
  BY <1>1
<1> QED BY <1>2, Invariance, PTL DEF Spec, LogsTheAnswer

(* Every failure of the server is logged as one, with its error. *)
THEOREM FailuresAreLogged == Spec => NoSilent5xx
<1>1. ASSUME IInv, [Next]_vars, NEW p \in Proc, Sends(p), logging,
             ctx[p].route # "probe", answer' >= 500
      PROVE  ctx[p].line.level = "ERROR" /\ ctx[p].line.err
  <2>1. ctx[p].route \notin {"preflight", "unknown"} /\ ctx[p].status >= 500
    <3>1. /\ answer' = SentStatus(ctx[p])
          /\ ctx[p].returned = IF ctx[p].route = "unknown" THEN 404 ELSE 0
          /\ ctx[p].route = "preflight" => ctx[p].status = 204
      <4>1. answer' = SentStatus(ctx[p]) /\ AnswerInv(p) /\ ContextInv(p)
        BY <1>1, Sending
      <4>2. ctx[p].returned = IF ctx[p].route = "unknown" THEN 404 ELSE 0
        BY <4>1 DEF ContextInv
      <4>3. ctx[p].route = "preflight" => ctx[p].status = 204
        BY <4>1 DEF AnswerInv
      <4> QED BY <4>1, <4>2, <4>3
    <3>2. ctx[p].route # "unknown"
      BY <1>1, <3>1 DEF SentStatus
    <3>3. answer' = ctx[p].status
      BY <3>1, <3>2 DEF SentStatus
    <3> QED BY <1>1, <3>1, <3>2, <3>3
  <2>2. ctx[p].err
    BY <1>1, <2>1, Sending DEF AnswerInv
  <2>3. ctx[p].line = [level |-> Level(ctx[p].status), status |-> ctx[p].status, err |-> ctx[p].err]
    BY <1>1, <2>1, Sending DEF AnswerInv
  <2> QED BY <2>1, <2>2, <2>3 DEF Level
<1>2. IInv /\ [Next]_vars =>
        [\A p \in Proc :
           Sends(p) /\ logging /\ ctx[p].route # "probe" /\ answer' >= 500 =>
             ctx[p].line.level = "ERROR" /\ ctx[p].line.err]_vars
  BY <1>1
<1> QED BY <1>2, Invariance, PTL DEF Spec, NoSilent5xx
=============================================================================
