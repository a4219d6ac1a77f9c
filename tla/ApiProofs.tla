------------------------------ MODULE ApiProofs -----------------------------
(***************************************************************************)
(* Proofs about module Api, for every set of e-mails, passwords, pairs and *)
(* slots, every bound and every choice of Faults.                          *)
(*                                                                         *)
(* The argument is rely/guarantee.  Every step is Monotone; what a handler *)
(* knows between two of its statements (SlotInv) is preserved by any       *)
(* Monotone step of another slot; and each step of the handler itself      *)
(* establishes what the next one needs.                                    *)
(***************************************************************************)
EXTENDS Api, TLAPS

(* What a slot knows survives any Monotone step that leaves the slot alone. *)
LEMMA OthersKeep ==
  ASSUME Inv, Monotone, TypeOK', NEW q \in Proc, pc'[q] = pc[q], req'[q] = req[q]
  PROVE  SlotInv(q)'
<1>1. /\ SlotInv(q)
      /\ req[q] \in Request
      /\ req[q].uid \in 0..users_id_seq
      /\ users_id_seq \in Nat /\ users_id_seq' \in Nat
      /\ DOMAIN users' \subseteq UserId
  BY DEF Inv, TypeOK, StoreTypeOK, RequestsTypeOK, SlotInv, UserId
<1>2. req'[q].uid \in 0..users_id_seq'
  BY <1>1 DEF Monotone
<1>3. req[q].uid \in DOMAIN users' => req[q].uid \in DOMAIN users /\ users'[req[q].uid] = users[req[q].uid]
  BY <1>1 DEF Monotone
<1>4. \A t \in DOMAIN minted : t \in DOMAIN minted' /\ minted'[t] = minted[t]
  BY DEF Monotone
<1>5. pc[q] \in {"authorize", "findToken"} => (Live(req[q].tok)' => req[q].live)
  <2>1. SUFFICES ASSUME pc[q] \in {"authorize", "findToken"}, Live(req[q].tok)' PROVE req[q].live
    OBVIOUS
  <2>2. req[q].tok \in DOMAIN minted
    <3>1. req[q].tok \in DOMAIN minted \cup {None}
      BY <1>1, <2>1 DEF SlotInv
    <3>2. req[q].tok \in Pair
      BY <2>1 DEF Live, TypeOK, StoreTypeOK
    <3> QED BY <3>1, <3>2, NoneAssumption
  <2> QED BY <1>1, <2>1, <2>2 DEF Monotone, SlotInv
<1> QED BY <1>1, <1>2, <1>3, <1>4, <1>5 DEF SlotInv, UserExists
-----------------------------------------------------------------------------
(* The statements: each keeps the tables consistent and is Monotone. *)

(* The part of the invariant that is about the tables and the history. *)
Ledger == StoreTypeOK /\ UniqueEmails /\ NoOrphanSessions /\ StoreInv

(* A step that writes neither the tables nor the history. *)
LEMMA NoWriteKeeps ==
  ASSUME Inv, UNCHANGED <<storeVars, minted, delivered>>
  PROVE  Ledger' /\ Monotone
<1>1. users_id_seq \in Nat
  BY MaxUsersAssumption DEF Inv, TypeOK, StoreTypeOK
<1> QED BY <1>1 DEF Inv, Ledger, TypeOK, StoreTypeOK, UniqueEmails, NoOrphanSessions, StoreInv,
                    Monotone, Live, storeVars

(* The UPDATEs of user_tokens only ever clear is_active. *)
LEMMA DeactivateKeeps ==
  ASSUME Inv, NEW S, Deactivate(S), UNCHANGED <<minted, delivered>>
  PROVE  Ledger' /\ Monotone
<1>1. users_id_seq \in Nat
  BY MaxUsersAssumption DEF Inv, TypeOK, StoreTypeOK
<1>2. /\ DOMAIN tokens' = DOMAIN tokens
      /\ \A a \in DOMAIN tokens :
           /\ tokens'[a] \in UserToken
           /\ tokens'[a].user_id = tokens[a].user_id
           /\ tokens'[a].is_active => tokens[a].is_active
  BY DEF Deactivate, Inv, TypeOK, StoreTypeOK, UserToken
<1>3. StoreTypeOK'
  BY <1>2 DEF Deactivate, Inv, TypeOK, StoreTypeOK
<1>4. UniqueEmails' /\ NoOrphanSessions' /\ StoreInv'
  BY <1>2 DEF Deactivate, Inv, UniqueEmails, NoOrphanSessions, StoreInv
<1>5. Monotone
  BY <1>1, <1>2 DEF Deactivate, Monotone, Live
<1> QED BY <1>3, <1>4, <1>5 DEF Ledger

(* A registration takes an id no row and no handler has seen. *)
LEMMA RegisterUserKeeps ==
  ASSUME Inv, NEW e \in Email, NEW w \in Password, RegisterUser(e, w),
         UNCHANGED <<minted, delivered>>
  PROVE  Ledger' /\ Monotone /\ users_id_seq' = users_id_seq + 1
         /\ users'[users_id_seq'] = [email |-> e, hashed_password |-> w]
<1>1. /\ users_id_seq \in Nat /\ MaxUsers \in Nat
      /\ users_id_seq' = users_id_seq + 1
      /\ users_id_seq < MaxUsers
      /\ DOMAIN users \subseteq 1..users_id_seq
  BY MaxUsersAssumption DEF Inv, TypeOK, StoreTypeOK, StoreInv, RegisterUser
<1>2. /\ DOMAIN users' = DOMAIN users \cup {users_id_seq'}
      /\ users'[users_id_seq'] = [email |-> e, hashed_password |-> w]
      /\ users_id_seq' \notin DOMAIN users
      /\ \A u \in DOMAIN users : users'[u] = users[u]
  BY <1>1 DEF RegisterUser
<1>3. StoreTypeOK'
  <2>1. users_id_seq' \in 1..MaxUsers
    BY <1>1
  <2>2. \A u \in DOMAIN users' : u \in UserId /\ users'[u] \in User
    BY <1>2, <2>1 DEF Inv, TypeOK, StoreTypeOK, UserId, User
  <2>3. users' = [u \in DOMAIN users' |-> users'[u]]
    BY DEF RegisterUser
  <2>4. users_id_seq' \in 0..MaxUsers
    BY <1>1
  <2>5. users' \in [DOMAIN users' -> User] /\ DOMAIN users' \subseteq UserId
    BY <2>2, <2>3
  <2>6. tokens' = tokens
    BY DEF RegisterUser
  <2> QED BY <2>4, <2>5, <2>6 DEF Inv, TypeOK, StoreTypeOK
<1>4. UniqueEmails'
  <2>1. \A u \in DOMAIN users : users[u].email # e
    BY DEF RegisterUser, EmailFree, GetUserByEmail
  <2> QED BY <1>2, <2>1 DEF Inv, UniqueEmails
<1>5. NoOrphanSessions' /\ StoreInv'
  BY <1>1, <1>2 DEF RegisterUser, Inv, NoOrphanSessions, StoreInv
<1>6. Monotone
  BY <1>1, <1>2 DEF RegisterUser, Monotone, Live
<1> QED BY <1>1, <1>2, <1>3, <1>4, <1>5, <1>6 DEF Ledger

(* A deletion takes the sessions of the account with it. *)
LEMMA DeleteUserKeeps ==
  ASSUME Inv, NEW u, DeleteUser(u), UNCHANGED <<minted, delivered>>
  PROVE  Ledger' /\ Monotone
<1>1. users_id_seq \in Nat
  BY MaxUsersAssumption DEF Inv, TypeOK, StoreTypeOK
<1>2. /\ DOMAIN users' = DOMAIN users \ {u}
      /\ \A v \in DOMAIN users' : users'[v] = users[v]
      /\ DOMAIN tokens' = {a \in DOMAIN tokens : tokens[a].user_id # u}
      /\ \A a \in DOMAIN tokens' : tokens'[a] = tokens[a]
  BY DEF DeleteUser
<1>3. StoreTypeOK'
  <2>1. users' = [v \in DOMAIN users' |-> users'[v]] /\ tokens' = [a \in DOMAIN tokens' |-> tokens'[a]]
    BY DEF DeleteUser
  <2> QED BY <1>2, <2>1 DEF DeleteUser, Inv, TypeOK, StoreTypeOK
<1>4. UniqueEmails' /\ NoOrphanSessions' /\ StoreInv'
  BY <1>2 DEF DeleteUser, Inv, UniqueEmails, NoOrphanSessions, StoreInv
<1>5. Monotone
  BY <1>1, <1>2 DEF DeleteUser, Monotone, Live
<1> QED BY <1>3, <1>4, <1>5 DEF Ledger

(* issueTokens inserts a row under a pair that was never issued before. *)
LEMMA MintKeeps ==
  ASSUME Inv, NEW t \in Pair \ DOMAIN minted, NEW u, NEW old \in Pair \cup {None},
         Mint(t, u, old),
         delivered' \subseteq delivered \cup {t}
  PROVE  /\ Ledger' /\ Monotone
         /\ minted' \in [DOMAIN minted' -> [user : UserId, parent : Pair \cup {None}]]
         /\ DOMAIN minted' \subseteq Pair
<1>1. /\ users_id_seq \in Nat
      /\ u \in DOMAIN users /\ u \in UserId
      /\ now + AccessTTL \in Nat /\ now + RefreshTTL \in Nat
  BY MaxUsersAssumption, TTLAssumption, MaxTimeAssumption
     DEF Inv, TypeOK, StoreTypeOK, RequestsTypeOK, Mint, CreateUserToken, UserExists
<1>2. /\ DOMAIN tokens' = DOMAIN tokens \cup {t}
      /\ tokens'[t] \in UserToken /\ tokens'[t].user_id = u
      /\ \A a \in DOMAIN tokens : a # t => tokens'[a] = tokens[a]
      /\ t \notin DOMAIN tokens
      /\ tokens' = [a \in DOMAIN tokens' |-> tokens'[a]]
  BY <1>1 DEF Mint, CreateUserToken, UserToken, Inv, StoreInv
<1>3. /\ DOMAIN minted' = DOMAIN minted \cup {t}
      /\ minted'[t] = [user |-> u, parent |-> old]
      /\ \A a \in DOMAIN minted : minted'[a] = minted[a]
  BY DEF Mint
<1>4. StoreTypeOK'
  BY <1>2 DEF Mint, CreateUserToken, Inv, TypeOK, StoreTypeOK
<1>5. UniqueEmails' /\ NoOrphanSessions'
  BY <1>1, <1>2 DEF Mint, CreateUserToken, Inv, UniqueEmails, NoOrphanSessions
<1>6. StoreInv'
  BY <1>2, <1>3 DEF Mint, CreateUserToken, Inv, StoreInv
<1>7. Monotone
  BY <1>1, <1>2, <1>3 DEF Mint, CreateUserToken, Monotone, Live
<1>8. /\ minted' \in [DOMAIN minted' -> [user : UserId, parent : Pair \cup {None}]]
      /\ DOMAIN minted' \subseteq Pair
  BY <1>1, <1>3 DEF Mint, Inv, TypeOK, RequestsTypeOK
<1> QED BY <1>4, <1>5, <1>6, <1>7, <1>8 DEF Ledger
-----------------------------------------------------------------------------
(* The two ways a handler's step ends, and the steps outside any handler.   *)

(* The variables Continue and Answer do not assign have their types. *)
RestTypeOK ==
  /\ now \in 0..MaxTime
  /\ cleanup \subseteq [slot : Proc, tok : Pair \cup {None}]
  /\ DOMAIN minted \subseteq Pair
  /\ minted \in [DOMAIN minted -> [user : UserId, parent : Pair \cup {None}]]
  /\ delivered \subseteq Pair
  /\ loggedOut \subseteq Pair

(* A step of slot p that is Monotone and leaves p in order keeps Inv. *)
LEMMA SlotStep ==
  ASSUME Inv, Ledger', Monotone, RequestsTypeOK', NEW p \in Proc, SlotInv(p)',
         \A q \in Proc \ {p} : pc'[q] = pc[q] /\ req'[q] = req[q]
  PROVE  Inv'
<1>1. TypeOK'
  BY DEF Ledger, TypeOK
<1>2. ASSUME NEW q \in Proc PROVE SlotInv(q)'
  <2>1. CASE q = p
    BY <2>1
  <2>2. CASE q # p
    BY <1>1, <2>2, OthersKeep
  <2> QED BY <2>1, <2>2
<1> QED BY <1>1, <1>2 DEF Inv, Ledger

(* An answer clears the slot. *)
LEMMA AnswerKeeps ==
  ASSUME Inv, NEW p \in Proc, NEW status \in {0, 200, 201, 401, 409, 500}, Answer(p, status),
         Ledger', Monotone, RestTypeOK'
  PROVE  Inv'
<1>1. /\ pc' \in [Proc -> Steps \cup {"idle"}] /\ pc'[p] = "idle"
      /\ req'[p] = NoRequest
      /\ \A q \in Proc \ {p} : pc'[q] = pc[q] /\ req'[q] = req[q]
      /\ answer' \in {0, 200, 201, 401, 409, 500}
  BY DEF Answer, Inv, TypeOK, RequestsTypeOK
<1>2. NoRequest \in Request /\ NoRequest.uid = 0
  BY DEF NoRequest, Request
<1>3. req' \in [Proc -> Request]
  BY <1>2 DEF Answer, Inv, TypeOK, RequestsTypeOK
<1>4. RequestsTypeOK'
  BY <1>1, <1>3 DEF RestTypeOK, RequestsTypeOK
<1>5. users_id_seq' \in Nat
  BY MaxUsersAssumption DEF Ledger, StoreTypeOK
<1>6. SlotInv(p)'
  BY <1>1, <1>2, <1>5 DEF SlotInv
<1> QED BY <1>1, <1>4, <1>6, SlotStep

(* A handler that goes on keeps its request, up to the user id it found. *)
LEMMA ContinueKeeps ==
  ASSUME Inv, NEW p \in Proc, NEW step \in Steps, NEW u \in UserId \cup {0}, Continue(p, step, u),
         Ledger', Monotone, RestTypeOK', SlotInv(p)'
  PROVE  Inv'
<1>1. /\ pc' \in [Proc -> Steps \cup {"idle"}]
      /\ req' \in [Proc -> Request]
      /\ \A q \in Proc \ {p} : pc'[q] = pc[q] /\ req'[q] = req[q]
      /\ answer' \in {0, 200, 201, 401, 409, 500}
  BY DEF Continue, Inv, TypeOK, RequestsTypeOK, Request
<1>2. RequestsTypeOK'
  BY <1>1 DEF RestTypeOK, RequestsTypeOK
<1> QED BY <1>1, <1>2, SlotStep

(* What Continue leaves in the slot. *)
LEMMA ContinueSlot ==
  ASSUME TypeOK, NEW p \in Proc, NEW step, NEW u, Continue(p, step, u)
  PROVE  /\ pc'[p] = step /\ req'[p].uid = u
         /\ req'[p].op = req[p].op /\ req'[p].email = req[p].email
         /\ req'[p].password = req[p].password /\ req'[p].tok = req[p].tok
         /\ req'[p].live = req[p].live
BY DEF Continue, TypeOK, RequestsTypeOK, Request

(* The server restarts with empty slots. *)
LEMMA RestartKeeps ==
  ASSUME Inv, Restart
  PROVE  Inv' /\ Monotone
<1>1. Ledger' /\ Monotone
  BY NoWriteKeeps DEF Restart, historyVars
<1>2. NoRequest \in Request /\ NoRequest.uid = 0
  BY DEF NoRequest, Request
<1>3. RequestsTypeOK'
  BY <1>2 DEF Restart, RequestsTypeOK, Inv, TypeOK, historyVars
<1>4. users_id_seq' \in Nat
  BY <1>1, MaxUsersAssumption DEF Ledger, StoreTypeOK
<1>5. \A p \in Proc : SlotInv(p)'
  BY <1>2, <1>4 DEF Restart, SlotInv
<1> QED BY <1>1, <1>3, <1>5 DEF Inv, Ledger, TypeOK

(* A step that leaves every slot alone. *)
LEMMA BackgroundKeeps ==
  ASSUME Inv, Ledger', Monotone, UNCHANGED <<pc, req>>, RestTypeOK', answer' = 0
  PROVE  Inv'
<1>1. RequestsTypeOK'
  BY DEF RestTypeOK, RequestsTypeOK, Inv, TypeOK
<1>2. TypeOK'
  BY <1>1 DEF Ledger, TypeOK
<1>3. \A p \in Proc : SlotInv(p)'
  BY <1>2, OthersKeep
<1> QED BY <1>2, <1>3 DEF Inv, Ledger

-----------------------------------------------------------------------------
(* One lemma per action. *)

LEMMA CrashKeeps == Inv /\ Crash => Inv' /\ Monotone
BY RestartKeeps DEF Crash

LEMMA TickKeeps == Inv /\ Tick => Inv' /\ Monotone
<1> SUFFICES ASSUME Inv, Tick PROVE Inv' /\ Monotone
  OBVIOUS
<1>1. Ledger' /\ Monotone
  BY NoWriteKeeps DEF Tick, historyVars
<1>2. (now + 1) \in 0..MaxTime
  BY MaxTimeAssumption DEF Tick, Inv, TypeOK, RequestsTypeOK
<1>3. RestTypeOK'
  BY <1>2 DEF Tick, Inv, TypeOK, RequestsTypeOK, RestTypeOK, historyVars
<1> QED BY <1>1, <1>3, BackgroundKeeps DEF Tick

LEMMA RunCleanupKeeps ==
  ASSUME Inv, NEW g \in cleanup, RunCleanup(g)
  PROVE  Inv' /\ Monotone
<1>1. CASE Restart
  BY <1>1, RestartKeeps
<1>2. CASE /\ UNCHANGED storeVars \/ DeactivateToken(g.tok)
           /\ cleanup' = cleanup \ {g}
           /\ answer' = 0
           /\ UNCHANGED <<now, pc, req, historyVars>>
  <2>1. Ledger' /\ Monotone
    BY <1>2, NoWriteKeeps, DeactivateKeeps DEF DeactivateToken, historyVars
  <2>2. RestTypeOK'
    BY <1>2 DEF Inv, TypeOK, RequestsTypeOK, RestTypeOK, historyVars
  <2> QED BY <1>2, <2>1, <2>2, BackgroundKeeps
<1> QED BY <1>1, <1>2 DEF RunCleanup
(* A request that is accepted knows whether its token is active now. *)
LEMMA AcceptKeeps ==
  ASSUME Inv, NEW p \in Proc, NEW op \in DOMAIN Route,
         NEW e \in Email \cup {None}, NEW w \in Password \cup {None},
         NEW t \in delivered \cup {None}, NEW bearer \in Pair \cup {None},
         op \in {"register", "login"} => e \in Email /\ w \in Password,
         op = "refresh" => t \in delivered,
         Accept(p, op, e, w, t, bearer)
  PROVE  Inv' /\ Monotone
<1> DEFINE r == [op |-> op, email |-> e, password |-> w, tok |-> t, uid |-> 0, live |-> Live(t)]
<1>1. Ledger' /\ Monotone
  BY NoWriteKeeps DEF Accept, historyVars
<1>2. /\ t \in DOMAIN minted \cup {None}
      /\ t \in Pair \cup {None}
      /\ Live(t) \in BOOLEAN
      /\ users_id_seq \in Nat
      /\ op = "refresh" => t \in DOMAIN minted
  BY MaxUsersAssumption
     DEF Inv, StoreInv, TypeOK, StoreTypeOK, RequestsTypeOK, Live, UserToken
<1>3. r \in Request
  BY <1>2 DEF Request
<1>4. Route[op] \in Steps
      /\ (op \in {"register", "login"} <=> Route[op] \in {"checkEmail", "checkPassword"})
      /\ (op = "refresh" <=> Route[op] = "findToken")
      /\ Route[op] \in {"checkEmail", "checkPassword", "findToken", "authorize"}
  BY DEF Route, Steps
<1>5. /\ pc' \in [Proc -> Steps \cup {"idle"}] /\ pc'[p] = Route[op]
      /\ req' \in [Proc -> Request] /\ req'[p] = r
      /\ \A q \in Proc \ {p} : pc'[q] = pc[q] /\ req'[q] = req[q]
      /\ answer' = 0
  BY <1>3, <1>4 DEF Accept, Inv, TypeOK, RequestsTypeOK
<1>6. cleanup' \subseteq [slot : Proc, tok : Pair \cup {None}]
  <2>1. cleanup \subseteq [slot : Proc, tok : Pair \cup {None}]
    BY DEF Inv, TypeOK, RequestsTypeOK
  <2> QED BY <2>1 DEF Accept, Overwrite
<1>7. RequestsTypeOK'
  BY <1>5, <1>6 DEF Accept, RequestsTypeOK, Inv, TypeOK, historyVars
<1>8. SlotInv(p)'
  <2>1. /\ req'[p].op = op /\ req'[p].email = e /\ req'[p].password = w
        /\ req'[p].tok = t /\ req'[p].uid = 0 /\ req'[p].live = Live(t)
    BY <1>5
  <2>2. Live(t)' = Live(t) /\ minted' = minted /\ users_id_seq' = users_id_seq
    BY DEF Accept, Live, storeVars, historyVars
  <2> HIDE DEF r
  <2> QED BY <2>1, <2>2, <1>2, <1>4, <1>5 DEF SlotInv
<1> QED BY <1>1, <1>5, <1>7, <1>8, SlotStep

LEMMA ArriveKeeps ==
  ASSUME Inv, NEW p \in Proc, Arrive(p)
  PROVE  Inv' /\ Monotone
<1>1. delivered \subseteq Pair
  BY DEF Inv, TypeOK, RequestsTypeOK
<1>2. DOMAIN Route = {"register", "login", "refresh", "logout", "delete"}
  BY DEF Route
<1>3. CASE \E e \in Email, w \in Password : Accept(p, "register", e, w, None, None)
  BY <1>2, <1>3, AcceptKeeps
<1>4. CASE \E e \in Email, w \in Password : Accept(p, "login", e, w, None, None)
  BY <1>2, <1>4, AcceptKeeps
<1>5. CASE \E t \in delivered : Accept(p, "refresh", None, None, t, None)
  BY <1>2, <1>5, AcceptKeeps
<1>6. CASE \E op \in {"logout", "delete"}, t \in delivered \cup {None} :
             Accept(p, op, None, None, t, t)
  BY <1>1, <1>2, <1>6, AcceptKeeps
<1> QED BY <1>3, <1>4, <1>5, <1>6 DEF Arrive

(* The statuses, the facts about one slot and the row of a live token that  *)
(* the handlers' lemmas start from.                                         *)
LEMMA SlotFacts ==
  ASSUME Inv, NEW p \in Proc
  PROVE  /\ req[p] \in Request /\ SlotInv(p) /\ RestTypeOK
         /\ users_id_seq \in Nat /\ DOMAIN users \subseteq 1..users_id_seq
         /\ \A t \in DOMAIN tokens :
              /\ t \in Pair /\ t \in DOMAIN minted
              /\ tokens[t].user_id = minted[t].user
              /\ tokens[t].user_id \in UserId
              /\ tokens[t].user_id \in DOMAIN users
BY MaxUsersAssumption
   DEF Inv, TypeOK, StoreTypeOK, RequestsTypeOK, RestTypeOK, StoreInv, NoOrphanSessions, UserToken

LEMMA AuthorizeKeeps ==
  ASSUME Inv, NEW p \in Proc, Authorize(p)
  PROVE  Inv' /\ Monotone
<1>1. Ledger' /\ Monotone
  BY NoWriteKeeps DEF Authorize, historyVars
<1>2. UNCHANGED <<storeVars, now, historyVars>> /\ pc[p] = "authorize"
  BY DEF Authorize
<1>3. CASE Answer(p, 401) /\ UNCHANGED cleanup
  <2>1. RestTypeOK'
    BY <1>2, <1>3, SlotFacts DEF RestTypeOK, historyVars
  <2> QED BY <1>1, <1>3, <2>1, AnswerKeeps
<1>4. CASE /\ Answer(p, 401)
           /\ \E t \in DOMAIN tokens : cleanup' = cleanup \cup {[slot |-> p, tok |-> t]}
  <2>1. RestTypeOK'
    BY <1>2, <1>4, SlotFacts DEF RestTypeOK, historyVars
  <2> QED BY <1>1, <1>4, <2>1, AnswerKeeps
<1>5. CASE /\ UNCHANGED cleanup
           /\ req[p].tok \in DOMAIN tokens
           /\ tokens[req[p].tok].is_active
           /\ Continue(p, "handle", tokens[req[p].tok].user_id)
  <2>1. RestTypeOK'
    BY <1>2, <1>5, SlotFacts DEF RestTypeOK, historyVars
  <2>2. SlotInv(p)'
    <3>1. req[p].live /\ req[p].tok \in DOMAIN minted
      BY <1>2, <1>5, SlotFacts DEF SlotInv, Live
    <3>2. /\ tokens[req[p].tok].user_id = minted[req[p].tok].user
          /\ tokens[req[p].tok].user_id \in 0..users_id_seq
      BY <1>5, SlotFacts
    <3> QED BY <1>2, <1>5, <3>1, <3>2, ContinueSlot DEF SlotInv, Inv, storeVars, historyVars
  <2>3. "handle" \in Steps /\ tokens[req[p].tok].user_id \in UserId
    BY <1>5, SlotFacts DEF Steps
  <2> QED BY <1>1, <1>5, <2>1, <2>2, <2>3, ContinueKeeps
<1> QED BY <1>3, <1>4, <1>5 DEF Authorize, Rows, GetUserTokenByAccessToken

LEMMA CheckEmailKeeps ==
  ASSUME Inv, NEW p \in Proc, CheckEmail(p)
  PROVE  Inv' /\ Monotone
<1>1. Ledger' /\ Monotone
  BY NoWriteKeeps DEF CheckEmail, historyVars
<1>2. UNCHANGED <<storeVars, now, historyVars, cleanup>> /\ pc[p] = "checkEmail"
  BY DEF CheckEmail
<1>3. RestTypeOK'
  BY <1>2, SlotFacts DEF RestTypeOK, historyVars
<1>4. CASE Answer(p, 409) \/ Answer(p, 500)
  BY <1>1, <1>3, <1>4, AnswerKeeps
<1>5. CASE Continue(p, "insertUser", 0)
  <2>1. SlotInv(p)'
    BY <1>2, <1>5, SlotFacts, ContinueSlot DEF SlotInv, Inv, storeVars
  <2> QED BY <1>1, <1>3, <1>5, <2>1, ContinueKeeps DEF Steps
<1> QED BY <1>4, <1>5 DEF CheckEmail

LEMMA InsertUserKeeps ==
  ASSUME Inv, NEW p \in Proc, InsertUser(p)
  PROVE  Inv' /\ Monotone
<1>1. UNCHANGED <<now, historyVars, cleanup>> /\ pc[p] = "insertUser"
  BY DEF InsertUser
<1>2. RestTypeOK'
  BY <1>1, SlotFacts DEF RestTypeOK, historyVars
<1>3. CASE Answer(p, 500) /\ UNCHANGED storeVars
  BY <1>1, <1>2, <1>3, NoWriteKeeps, AnswerKeeps DEF historyVars
<1>4. CASE /\ RegisterUser(req[p].email, req[p].password)
           /\ Continue(p, "issue", users_id_seq') \/ Answer(p, 500)
  <2>1. req[p].email \in Email /\ req[p].password \in Password /\ req[p].op # "refresh"
    BY <1>1, SlotFacts DEF SlotInv
  <2>2. /\ Ledger' /\ Monotone /\ users_id_seq' = users_id_seq + 1
        /\ users'[users_id_seq'] = [email |-> req[p].email, hashed_password |-> req[p].password]
    BY <1>1, <1>4, <2>1, RegisterUserKeeps DEF historyVars
  <2>3. CASE Answer(p, 500)
    BY <1>2, <2>2, <2>3, AnswerKeeps
  <2>4. CASE Continue(p, "issue", users_id_seq')
    <3>1. users_id_seq' \in UserId /\ users_id_seq' \in 0..users_id_seq'
      BY <2>2, SlotFacts, MaxUsersAssumption DEF Ledger, StoreTypeOK, UserId
    <3>2. SlotInv(p)'
      BY <2>1, <2>2, <2>4, <3>1, ContinueSlot DEF SlotInv, Inv
    <3> QED BY <1>2, <2>2, <2>4, <3>1, <3>2, ContinueKeeps DEF Steps
  <2> QED BY <1>4, <2>3, <2>4
<1> QED BY <1>3, <1>4 DEF InsertUser

LEMMA CheckPasswordKeeps ==
  ASSUME Inv, NEW p \in Proc, CheckPassword(p)
  PROVE  Inv' /\ Monotone
<1>1. Ledger' /\ Monotone
  BY NoWriteKeeps DEF CheckPassword, historyVars
<1>2. UNCHANGED <<storeVars, now, historyVars, cleanup>> /\ pc[p] = "checkPassword"
  BY DEF CheckPassword
<1>3. RestTypeOK'
  BY <1>2, SlotFacts DEF RestTypeOK, historyVars
<1>4. CASE Answer(p, 401)
  BY <1>1, <1>3, <1>4, AnswerKeeps
<1>5. ASSUME NEW u \in DOMAIN users, users[u].email = req[p].email,
             users[u].hashed_password = req[p].password, Continue(p, "issue", u)
      PROVE  Inv'
  <2>1. u \in UserId /\ u \in 0..users_id_seq
        /\ users[u] = [email |-> req[p].email, hashed_password |-> req[p].password]
    BY <1>5, SlotFacts DEF Inv, TypeOK, StoreTypeOK, User
  <2>2. SlotInv(p)'
    BY <1>2, <1>5, <2>1, SlotFacts, ContinueSlot DEF SlotInv, Inv, storeVars
  <2> QED BY <1>1, <1>3, <1>5, <2>1, <2>2, ContinueKeeps DEF Steps
<1> QED BY <1>1, <1>4, <1>5 DEF CheckPassword, Rows, GetUserByEmail

LEMMA FindTokenKeeps ==
  ASSUME Inv, NEW p \in Proc, FindToken(p)
  PROVE  Inv' /\ Monotone
<1>1. Ledger' /\ Monotone
  BY NoWriteKeeps DEF FindToken, historyVars
<1>2. UNCHANGED <<storeVars, now, historyVars, cleanup>> /\ pc[p] = "findToken"
  BY DEF FindToken
<1>3. RestTypeOK'
  BY <1>2, SlotFacts DEF RestTypeOK, historyVars
<1>4. CASE Answer(p, 401)
  BY <1>1, <1>3, <1>4, AnswerKeeps
<1>5. ASSUME req[p].tok \in DOMAIN tokens, tokens[req[p].tok].is_active,
             NEW step \in {"rotate", "expire"},
             Continue(p, step, tokens[req[p].tok].user_id)
      PROVE  Inv'
  <2>1. /\ tokens[req[p].tok].user_id = minted[req[p].tok].user
        /\ tokens[req[p].tok].user_id \in UserId
        /\ tokens[req[p].tok].user_id \in 0..users_id_seq
    BY <1>5, SlotFacts
  <2>2. req[p].live
    BY <1>2, <1>5, SlotFacts DEF SlotInv, Live
  <2>3. SlotInv(p)'
    <3>1. /\ pc'[p] = step /\ req'[p].uid = tokens[req[p].tok].user_id
          /\ req'[p].op = req[p].op /\ req'[p].tok = req[p].tok /\ req'[p].live = req[p].live
      BY <1>5, ContinueSlot DEF Inv
    <3>2. /\ req[p].op = "refresh" /\ req[p].tok \in DOMAIN minted
          /\ minted' = minted /\ users_id_seq' = users_id_seq
      BY <1>2, SlotFacts DEF SlotInv, storeVars, historyVars
    <3> QED BY <2>1, <2>2, <3>1, <3>2 DEF SlotInv
  <2>4. step \in Steps
    BY DEF Steps
  <2> QED BY <1>1, <1>3, <1>5, <2>1, <2>3, <2>4, ContinueKeeps
<1> QED BY <1>1, <1>4, <1>5 DEF FindToken, Rows, GetUserTokenByRefreshToken

LEMMA RotateKeeps ==
  ASSUME Inv, NEW p \in Proc, Rotate(p)
  PROVE  Inv' /\ Monotone
<1>1. /\ UNCHANGED <<now, historyVars, cleanup>>
      /\ pc[p] \in {"expire", "rotate"}
      /\ UNCHANGED storeVars \/ Deactivate({req[p].tok})
  BY DEF Rotate, DeactivateToken
<1>2. Ledger' /\ Monotone
  BY <1>1, NoWriteKeeps, DeactivateKeeps DEF historyVars
<1>3. RestTypeOK'
  BY <1>1, SlotFacts DEF RestTypeOK, historyVars
<1>4. CASE Answer(p, 401)
  BY <1>2, <1>3, <1>4, AnswerKeeps
<1>5. CASE Continue(p, "issue", req[p].uid)
  <2>1. users_id_seq' = users_id_seq
    BY <1>1 DEF Deactivate, storeVars
  <2>2. SlotInv(p)'
    BY <1>1, <1>5, <2>1, SlotFacts, ContinueSlot DEF SlotInv, Inv, historyVars
  <2> QED BY <1>2, <1>3, <1>5, <2>2, SlotFacts, ContinueKeeps DEF Steps, Request
<1> QED BY <1>2, <1>4, <1>5 DEF Rotate

LEMMA IssueTokensKeeps ==
  ASSUME Inv, NEW p \in Proc, IssueTokens(p)
  PROVE  Inv' /\ Monotone
<1>1. UNCHANGED <<now, cleanup, loggedOut>>
  BY DEF IssueTokens
<1>2. CASE Answer(p, 500) /\ UNCHANGED <<storeVars, minted, delivered>>
  <2>1. RestTypeOK'
    BY <1>1, <1>2, SlotFacts DEF RestTypeOK
  <2> QED BY <1>2, <2>1, NoWriteKeeps, AnswerKeeps
<1>3. ASSUME NEW t \in Pair \ DOMAIN minted, NEW status \in {200, 201, 500},
             Mint(t, req[p].uid, req[p].tok),
             delivered' \subseteq delivered \cup {t},
             Answer(p, status)
      PROVE  Inv' /\ Monotone
  <2>1. req[p].tok \in Pair \cup {None}
    BY SlotFacts DEF Request
  <2>2. /\ Ledger' /\ Monotone
        /\ minted' \in [DOMAIN minted' -> [user : UserId, parent : Pair \cup {None}]]
        /\ DOMAIN minted' \subseteq Pair
    BY <1>3, <2>1, MintKeeps
  <2>3. RestTypeOK'
    BY <1>1, <1>3, <2>2, SlotFacts DEF RestTypeOK
  <2> QED BY <1>3, <2>2, <2>3, AnswerKeeps
<1>4. CASE \E t \in Pair \ DOMAIN minted :
             /\ Mint(t, req[p].uid, req[p].tok)
             /\ delivered' \subseteq delivered \cup {t}
             /\ Answer(p, 200) \/ Answer(p, 201) \/ Answer(p, 500)
  BY <1>3, <1>4
<1> QED BY <1>2, <1>4 DEF IssueTokens

LEMMA LogoutKeeps ==
  ASSUME Inv, NEW p \in Proc, Logout(p)
  PROVE  Inv' /\ Monotone
<1>1. /\ UNCHANGED <<now, cleanup, minted, delivered>>
      /\ Answer(p, 200)
      /\ loggedOut' \subseteq loggedOut \cup DOMAIN tokens
      /\ UNCHANGED storeVars
         \/ Deactivate({a \in DOMAIN tokens : tokens[a].user_id = req[p].uid})
  BY DEF Logout, DeactivateAllUserTokens
<1>2. Ledger' /\ Monotone
  BY <1>1, NoWriteKeeps, DeactivateKeeps
<1>3. RestTypeOK'
  BY <1>1, SlotFacts DEF RestTypeOK
<1> QED BY <1>1, <1>2, <1>3, AnswerKeeps

LEMMA DeleteMeKeeps ==
  ASSUME Inv, NEW p \in Proc, DeleteMe(p)
  PROVE  Inv' /\ Monotone
<1>1. /\ UNCHANGED <<now, cleanup, historyVars>>
      /\ Answer(p, 200) \/ Answer(p, 500)
      /\ UNCHANGED storeVars \/ DeleteUser(req[p].uid)
  BY DEF DeleteMe
<1>2. Ledger' /\ Monotone
  BY <1>1, NoWriteKeeps, DeleteUserKeeps DEF historyVars
<1>3. RestTypeOK'
  BY <1>1, SlotFacts DEF RestTypeOK, historyVars
<1> QED BY <1>1, <1>2, <1>3, AnswerKeeps

-----------------------------------------------------------------------------
(* The theorems. *)

LEMMA InitInv == Init => Inv
<1> SUFFICES ASSUME Init PROVE Inv
  OBVIOUS
<1>1. NoRequest \in Request /\ NoRequest.uid = 0
  BY DEF NoRequest, Request
<1>2. StoreTypeOK /\ UniqueEmails /\ NoOrphanSessions /\ StoreInv
  BY MaxUsersAssumption
     DEF Init, StoreInit, RequestsInit, StoreTypeOK, UniqueEmails, NoOrphanSessions, StoreInv
<1>3. RequestsTypeOK
  BY <1>1, MaxTimeAssumption DEF Init, RequestsInit, RequestsTypeOK
<1>4. \A p \in Proc : SlotInv(p)
  BY <1>1 DEF Init, StoreInit, RequestsInit, SlotInv
<1> QED BY <1>2, <1>3, <1>4 DEF Inv, TypeOK

LEMMA NextKeeps == Inv /\ [Next]_vars => Inv' /\ Monotone
<1> SUFFICES ASSUME Inv, [Next]_vars PROVE Inv' /\ Monotone
  OBVIOUS
<1>1. ASSUME NEW p \in Proc, Arrive(p) PROVE Inv' /\ Monotone
  BY <1>1, ArriveKeeps
<1>2. ASSUME NEW p \in Proc, Handle(p) PROVE Inv' /\ Monotone
  BY <1>2, AuthorizeKeeps, CheckEmailKeeps, InsertUserKeeps, CheckPasswordKeeps, FindTokenKeeps,
     RotateKeeps, IssueTokensKeeps, LogoutKeeps, DeleteMeKeeps DEF Handle
<1>3. ASSUME NEW g \in cleanup, RunCleanup(g) PROVE Inv' /\ Monotone
  BY <1>3, RunCleanupKeeps
<1>4. CASE Crash
  BY <1>4, CrashKeeps
<1>5. CASE Tick
  BY <1>5, TickKeeps
<1>6. CASE UNCHANGED vars
  <2>1. Ledger' /\ Monotone
    BY <1>6, NoWriteKeeps DEF vars, historyVars
  <2>2. TypeOK'
    BY <1>6 DEF vars, storeVars, historyVars, Inv, TypeOK, StoreTypeOK, RequestsTypeOK
  <2>3. \A p \in Proc : SlotInv(p)'
    BY <1>6, <2>1, <2>2, OthersKeep DEF vars
  <2> QED BY <2>1, <2>2, <2>3 DEF Inv, Ledger
<1> QED BY <1>1, <1>2, <1>3, <1>4, <1>5, <1>6 DEF Next

THEOREM Invariance == Spec => []Inv
<1>1. Init => Inv
  BY InitInv
<1>2. Inv /\ [Next]_vars => Inv'
  BY NextKeeps
<1> QED BY <1>1, <1>2, PTL DEF Spec

(* Every reachable state is well typed. *)
THEOREM TypeCorrect == Spec => []TypeOK
<1>1. Inv => TypeOK
  BY DEF Inv
<1> QED BY <1>1, Invariance, PTL

(* No two accounts share an e-mail, whatever registrations race. *)
THEOREM EmailsAreUnique == Spec => []UniqueEmails
<1>1. Inv => UniqueEmails
  BY DEF Inv
<1> QED BY <1>1, Invariance, PTL

(* Every session row belongs to an account that exists. *)
THEOREM SessionsHaveOwners == Spec => []NoOrphanSessions
<1>1. Inv => NoOrphanSessions
  BY DEF Inv
<1> QED BY <1>1, Invariance, PTL

(* issueTokens acts for the account the caller proved to own. *)
THEOREM IssuesToTheProvenAccount == Spec => []IssueMatchesCredentials
<1>1. Inv => IssueMatchesCredentials
  BY DEF Inv, SlotInv, IssueMatchesCredentials
<1> QED BY <1>1, Invariance, PTL

(* A protected handler runs only for a token active on arrival and for its *)
(* own account.                                                            *)
THEOREM ServesTheTokensOwner == Spec => []ServedOnlyIfLive
<1>1. Inv => ServedOnlyIfLive
  BY DEF Inv, SlotInv, ServedOnlyIfLive
<1> QED BY <1>1, Invariance, PTL

(* Only a refresh token active on arrival is exchanged. *)
THEOREM ExchangesLiveTokens == Spec => []ExchangedOnlyIfLive
<1>1. Inv => ExchangedOnlyIfLive
  BY DEF Inv, SlotInv, ExchangedOnlyIfLive
<1> QED BY <1>1, Invariance, PTL

(* An ended session never comes back. *)
THEOREM EndedIsFinal == Spec => DeadStaysDead
<1>1. Inv /\ [Next]_vars => [\A t \in DOMAIN minted : Live(t)' => Live(t)]_vars
  BY NextKeeps DEF Monotone
<1> QED BY <1>1, Invariance, PTL DEF Spec, DeadStaysDead

(* Logged-out pairs were issued and are dead. *)
LogoutInv == \A t \in loggedOut : t \in DOMAIN minted /\ ~Live(t)

LEMMA LogoutInvariance ==
  ASSUME "error" \notin Faults
  PROVE  Spec => []LogoutInv
<1>1. Init => LogoutInv
  BY DEF Init, RequestsInit, LogoutInv
<1>2. Inv /\ LogoutInv /\ [Next]_vars => LogoutInv'
  <2> SUFFICES ASSUME Inv, LogoutInv, [Next]_vars PROVE LogoutInv'
    OBVIOUS
  <2>1. Monotone
    BY NextKeeps
  <2>2. CASE loggedOut' = loggedOut
    BY <2>1, <2>2 DEF LogoutInv, Monotone
  <2>3. ASSUME NEW p \in Proc, Logout(p) PROVE LogoutInv'
    <3>1. DOMAIN tokens \subseteq DOMAIN minted /\ minted' = minted
      BY <2>3 DEF Inv, StoreInv, Logout
    <3>2. Deactivate({a \in DOMAIN tokens : tokens[a].user_id = req[p].uid})
      BY <2>3 DEF Logout, Outcome, DeactivateAllUserTokens
    <3>3. \A t \in DOMAIN tokens : tokens[t].user_id = req[p].uid => ~Live(t)'
      BY <3>2 DEF Deactivate, Live, Inv, TypeOK, StoreTypeOK, UserToken
    <3>4. \A t \in loggedOut : ~Live(t)'
      BY <2>1 DEF LogoutInv, Monotone
    <3> QED BY <2>3, <3>1, <3>3, <3>4 DEF LogoutInv, Logout
  <2>4. loggedOut' = loggedOut \/ \E p \in Proc : Logout(p)
    BY DEF Next, vars, historyVars, Arrive, Accept, Handle, Authorize, CheckEmail, InsertUser,
           CheckPassword, FindToken, Rotate, IssueTokens, DeleteMe, RunCleanup, Restart, Crash,
           Tick
  <2> QED BY <2>2, <2>3, <2>4
<1> QED BY <1>1, <1>2, Invariance, PTL DEF Spec

(* If no statement fails, a logout leaves only dead pairs behind; a lost   *)
(* reply, a crash or a mistaken clean-up does not revive them.             *)
THEOREM LogoutEndsSessions ==
  ASSUME "error" \notin Faults
  PROVE  Spec => []LogoutIsFinal
<1>1. LogoutInv => LogoutIsFinal
  BY DEF LogoutInv, LogoutIsFinal
<1> QED BY <1>1, LogoutInvariance, PTL
=============================================================================
