--------------------------------- MODULE Api --------------------------------
(***************************************************************************)
(* The account and session part of the API: every route that reads or      *)
(* writes user_tokens or creates or deletes users, run concurrently in     *)
(* the slots of one server process over one database.                      *)
(***************************************************************************)
EXTENDS AuthService, UserService

vars == <<storeVars, now, pc, req, answer, cleanup, historyVars>>

Init == StoreInit /\ RequestsInit

(* The next step of the handler running in slot p. *)
Handle(p) ==
  \/ Authorize(p)
  \/ CheckEmail(p)
  \/ InsertUser(p)
  \/ CheckPassword(p)
  \/ FindToken(p)
  \/ Rotate(p)
  \/ IssueTokens(p)
  \/ Logout(p)
  \/ DeleteMe(p)

Next ==
  \/ \E p \in Proc : Arrive(p) \/ Handle(p)
  \/ \E g \in cleanup : RunCleanup(g)
  \/ Crash
  \/ Tick

Spec == Init /\ [][Next]_vars

(* The Go scheduler runs every runnable goroutine, and each statement      *)
(* returns (statement_timeout bounds it); clients owe nothing.             *)
Fairness ==
  /\ \A p \in Proc : WF_vars(Handle(p))
  /\ \A g \in [slot : Proc, tok : Pair] : WF_vars(g \in cleanup /\ RunCleanup(g))

FairSpec == Spec /\ Fairness

-----------------------------------------------------------------------------
(* Type invariant: every variable holds a value the code can produce. *)
TypeOK == StoreTypeOK /\ RequestsTypeOK

(* Two registrations that both saw the e-mail free (auth.go:46) never both *)
(* create an account for it: the UNIQUE constraint decides the race.       *)
UniqueEmails ==
  \A u, v \in DOMAIN users : users[u].email = users[v].email => u = v

(* No session outlives or precedes its account, although Login, Refresh    *)
(* and Register insert the row long after they read the user and DeleteMe  *)
(* may run in between (foreign key with ON DELETE CASCADE).                *)
NoOrphanSessions ==
  \A t \in DOMAIN tokens : tokens[t].user_id \in DOMAIN users

(* When issueTokens runs, the account it acts for is still the one the     *)
(* caller proved to own: the stored row is the registered or logged-in     *)
(* e-mail and password, and a refresh stays with the owner of its pair.    *)
IssueMatchesCredentials ==
  \A p \in Proc : pc[p] = "issue" =>
    IF req[p].op = "refresh"
    THEN req[p].uid = minted[req[p].tok].user
    ELSE UserExists(req[p].uid) =>
           users[req[p].uid] = [email |-> req[p].email, hashed_password |-> req[p].password]

(* A handler behind UserAuthMiddleware runs only for a token that was      *)
(* already active when the request arrived, and acts for the account that  *)
(* token was minted for, whatever ran since (auth.go:28-45 of middlewares).*)
ServedOnlyIfLive ==
  \A p \in Proc : pc[p] = "handle" =>
    req[p].live /\ req[p].uid = minted[req[p].tok].user

(* A refresh goes on past its look-up only for a token that was already    *)
(* active when the request arrived: once a pair has been exchanged or      *)
(* logged out, no later request can exchange it (auth.go:126-139).         *)
ExchangedOnlyIfLive ==
  \A p \in Proc : pc[p] \in {"rotate", "issue"} /\ req[p].op = "refresh" => req[p].live

(* A pair that was issued and is no longer usable never becomes usable     *)
(* again, across rotations, logouts, deletions, lost replies and restarts. *)
DeadStaysDead ==
  [][\A t \in DOMAIN minted : Live(t)' => Live(t)]_vars

(* A step that may end the session of t: its own refresh token is being    *)
(* exchanged, or a handler of its own account ends all the account has, by *)
(* a logout or the deletion.  The doc of Logout (auth.go:150, "Invalidates *)
(* the current session token") speaks of one session; the code (auth.go:   *)
(* 158, and the comment at :147) ends those of all the account's devices,  *)
(* and the property follows the code.                                      *)
EndedByRequest(t) ==
  \E p \in Proc :
    /\ pc'[p] # pc[p]
    /\ \/ pc[p] \in {"rotate", "expire"} /\ req[p].tok = t
       \/ pc[p] = "handle" /\ minted[req[p].tok].user = minted[t].user

(* A session ends only by such a step or once its access token has expired *)
(* (middlewares/auth.go:35): neither another session's rotation or         *)
(* clean-up ends it, even of the same account, nor anything another        *)
(* account does.  A logout of the same account does end it.                *)
EndsForCause ==
  [][\A t \in DOMAIN tokens : Live(t) /\ ~Live(t)' =>
       EndedByRequest(t) \/ now > tokens[t].access_token_expires_at]_vars

(* tests/users_test.go:160: after a logout answered 200, the tokens the    *)
(* account had no longer work.                                             *)
LogoutIsFinal == \A t \in loggedOut : ~Live(t)

(* The tables and the history of issued pairs seen as abstract sessions:   *)
(* a pair is live while a SELECT ... AND is_active = TRUE finds it.        *)
SessionOf(t) ==
  IF t \notin DOMAIN minted THEN "unused" ELSE IF Live(t) THEN "live" ELSE "ended"

OwnerOf(t) == IF t \in DOMAIN minted THEN minted[t].user ELSE 0

Abstract == INSTANCE Sessions WITH
  Account <- UserId,
  Nobody <- 0,
  accounts <- DOMAIN users,
  known <- 1..users_id_seq,
  session <- [t \in Pair |-> SessionOf(t)],
  owner <- [t \in Pair |-> OwnerOf(t)]

(* The handlers implement module Sessions: whatever interleaves, fails or  *)
(* is repeated, one step of one handler or goroutine opens one session,    *)
(* ends one, or ends those of one account, alone or with the account.      *)
ImplementsSessions == Abstract!Spec

(* auth.go:147: a logout ends every session of the user; none that grew    *)
(* out of a logged-out one by a refresh is usable.                         *)
NoSessionSurvivesLogout ==
  \A t \in DOMAIN minted : Live(t) => minted[t].parent \notin loggedOut

(* auth.go:136, "Rotate": a refresh token is exchanged for one new pair.   *)
RefreshIsSingleUse ==
  \A s, t \in DOMAIN minted :
    minted[s].parent = minted[t].parent /\ minted[s].parent # None => s = t

(* auth.go:113 with refreshTokenTTL (auth.go:18): until it expires, a      *)
(* refresh token obtains a new pair; it dies only by such a step.          *)
RefreshOutlivesAccess ==
  [][\A t \in DOMAIN tokens : Live(t) /\ ~Live(t)' =>
       EndedByRequest(t) \/ now > tokens[t].refresh_token_expires_at]_vars

(* Every accepted request is answered, or its process dies. *)
Answered == \A p \in Proc : pc[p] # "idle" ~> pc[p] = "idle"

(* middlewares/auth.go:35-38: from some time on, a token whose expiry was  *)
(* noticed becomes unusable, although nobody waits for the goroutine,      *)
(* unless the process dies again and again with the goroutine pending (by  *)
(* a crash or by its panic): a restart forgets it, and the token stays     *)
(* usable until it is presented again.  The same happens when the UPDATE   *)
(* fails, whose error is dropped at :37; the property does not hold with   *)
(* the fault "error".                                                      *)
Noticed(t) == \E g \in cleanup : g.tok = t

ExpiredTokenEnds ==
  \A t \in Pair :
    <>[](Noticed(t) => <>~Live(t)) \/ []<><<Noticed(t) /\ Restart>>_vars
-----------------------------------------------------------------------------
(* The inductive invariant behind the properties above. *)

(* What the tables and the history of the issued pairs owe each other. *)
StoreInv ==
  /\ DOMAIN users \subseteq 1..users_id_seq
  /\ DOMAIN tokens \cup delivered \subseteq DOMAIN minted
  /\ \A t \in DOMAIN tokens : tokens[t].user_id = minted[t].user

(* What the earlier steps of the handler in slot p established for the     *)
(* next one, whatever other handlers did in between.                       *)
SlotInv(p) ==
  /\ req[p].uid \in 0..users_id_seq
  /\ pc[p] \in {"checkEmail", "insertUser", "checkPassword"} =>
       req[p].op # "refresh" /\ req[p].email \in Email /\ req[p].password \in Password
  /\ pc[p] \in {"findToken", "rotate", "expire"} =>
       req[p].op = "refresh" /\ req[p].tok \in DOMAIN minted
  /\ pc[p] \in {"rotate", "expire"} =>
       req[p].live /\ req[p].uid = minted[req[p].tok].user
  /\ pc[p] \in {"authorize", "findToken"} => (Live(req[p].tok) => req[p].live)
  /\ pc[p] \in {"authorize", "handle"} => req[p].tok \in DOMAIN minted \cup {None}
  /\ pc[p] = "handle" =>
       /\ req[p].tok \in DOMAIN minted
       /\ req[p].live
       /\ req[p].uid = minted[req[p].tok].user
  /\ pc[p] = "issue" =>
       \/ /\ req[p].op = "refresh"
          /\ req[p].live
          /\ req[p].tok \in DOMAIN minted
          /\ req[p].uid = minted[req[p].tok].user
       \/ /\ req[p].op # "refresh"
          /\ UserExists(req[p].uid) =>
               users[req[p].uid] = [email |-> req[p].email, hashed_password |-> req[p].password]

(* The tables, the history and every handler in flight agree. *)
Inv ==
  /\ TypeOK
  /\ UniqueEmails
  /\ NoOrphanSessions
  /\ StoreInv
  /\ \A p \in Proc : SlotInv(p)

(* What any one step, of whichever slot, leaves true for all the others:   *)
(* ids are not reused, accounts and issued pairs do not change hands, and  *)
(* no dead pair comes back.                                                *)
Monotone ==
  /\ users_id_seq <= users_id_seq'
  /\ \A u \in DOMAIN users' : u <= users_id_seq => u \in DOMAIN users /\ users'[u] = users[u]
  /\ \A t \in DOMAIN minted : t \in DOMAIN minted' /\ minted'[t] = minted[t]
  /\ \A t \in DOMAIN minted : Live(t)' => Live(t)
=============================================================================
