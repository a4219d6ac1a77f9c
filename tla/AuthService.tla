----------------------------- MODULE AuthService ----------------------------
(***************************************************************************)
(* services/auth.go: Register, Login, Refresh and Logout, one action per   *)
(* database statement of each handler.                                     *)
(***************************************************************************)
EXTENDS Requests

CONSTANT TooLong   \* passwords bcrypt refuses (more than 72 bytes)

ASSUME TooLongAssumption == TooLong \subseteq Password

(* Register, up to the hash: only a row that is found stops it, an error   *)
(* of the look-up does not; the body's password has no upper bound but     *)
(* GenerateFromPassword has.                                               *)
CheckEmail(p) ==
  /\ pc[p] = "checkEmail"
  /\ \E o \in Outcome :
       LET found == Rows(o, GetUserByEmail(req[p].email))
       IN  \/ found # {} /\ Answer(p, 409)
           \/ found = {} /\ req[p].password \in TooLong /\ Answer(p, 500)
           \/ found = {} /\ req[p].password \notin TooLong /\ Continue(p, "insertUser", 0)
  /\ UNCHANGED <<storeVars, now, cleanup, historyVars>>

InsertUser(p) ==
  /\ pc[p] = "insertUser"
  /\ \E o \in Outcome :
       \/ /\ o # "error"
          /\ RegisterUser(req[p].email, req[p].password)
          /\ IF o = "ok" THEN Continue(p, "issue", users_id_seq') ELSE Answer(p, 500)
       \/ /\ o = "error" \/ ~EmailFree(req[p].email)
          /\ Answer(p, 500)
          /\ UNCHANGED storeVars
  /\ UNCHANGED <<now, cleanup, historyVars>>

(* Login, up to the password comparison. *)
CheckPassword(p) ==
  /\ pc[p] = "checkPassword"
  /\ \E o \in Outcome :
       LET matching == {u \in Rows(o, GetUserByEmail(req[p].email)) :
                          users[u].hashed_password = req[p].password}
       IN  \/ matching = {} /\ Answer(p, 401)
           \/ \E u \in matching : Continue(p, "issue", u)
  /\ UNCHANGED <<storeVars, now, cleanup, historyVars>>

(* Refresh: look the row up, then deactivate it whatever its age; only an  *)
(* unexpired one is replaced.  The error of the UPDATE is dropped.         *)
FindToken(p) ==
  /\ pc[p] = "findToken"
  /\ \E o \in Outcome :
       LET found == Rows(o, GetUserTokenByRefreshToken(req[p].tok))
           Expired(t) == now > tokens[t].refresh_token_expires_at
       IN  \/ found = {} /\ Answer(p, 401)
           \/ \E t \in found :
                Continue(p, IF Expired(t) THEN "expire" ELSE "rotate", tokens[t].user_id)
  /\ UNCHANGED <<storeVars, now, cleanup, historyVars>>

Rotate(p) ==
  /\ pc[p] \in {"expire", "rotate"}
  /\ \E o \in Outcome :
       IF o = "error" THEN UNCHANGED storeVars ELSE DeactivateToken(req[p].tok)
  /\ IF pc[p] = "expire" THEN Answer(p, 401) ELSE Continue(p, "issue", req[p].uid)
  /\ UNCHANGED <<now, cleanup, historyVars>>

(* The row issueTokens inserts for account u, in exchange for pair old. *)
Mint(t, u, old) ==
  /\ CreateUserToken(t, u, now + AccessTTL, now + RefreshTTL)
  /\ minted' = [a \in DOMAIN minted \cup {t} |->
                  IF a = t THEN [user |-> u, parent |-> old] ELSE minted[a]]

(* Broken variant: a refused INSERT is retried for ever. *)
IssueTokensRetrying(p) ==
  /\ pc[p] = "issue"
  /\ \E t \in Pair \ DOMAIN minted : Mint(t, req[p].uid, req[p].tok)
  /\ delivered' = DOMAIN minted'
  /\ Answer(p, 200)
  /\ UNCHANGED <<now, cleanup, loggedOut>>

(* issueTokens, the last statement of Register, Login and Refresh. *)
IssueTokens(p) ==
  /\ pc[p] = "issue"
  /\ \E o \in Outcome :
       \/ /\ o # "error"
          /\ \E t \in Pair \ DOMAIN minted :
               /\ Mint(t, req[p].uid, req[p].tok)
               /\ delivered' = IF o = "ok" THEN delivered \cup {t} ELSE delivered
          /\ Answer(p, IF o # "ok" THEN 500 ELSE IF req[p].op = "register" THEN 201 ELSE 200)
       \/ /\ o = "error" \/ ~UserExists(req[p].uid)
          /\ Answer(p, 500)
          /\ UNCHANGED <<storeVars, minted, delivered>>
  /\ UNCHANGED <<now, cleanup, loggedOut>>

(* Broken variant: only the presented token is deactivated. *)
LogoutHere(p) ==
  /\ pc[p] = "handle"
  /\ req[p].op = "logout"
  /\ DeactivateToken(req[p].tok)
  /\ Answer(p, 200)
  /\ loggedOut' = loggedOut \cup {t \in DOMAIN tokens : tokens[t].user_id = req[p].uid}
  /\ UNCHANGED <<now, cleanup, minted, delivered>>

(* Logout answers 200 whatever the UPDATE reports. *)
Logout(p) ==
  /\ pc[p] = "handle"
  /\ req[p].op = "logout"
  /\ \E o \in Outcome :
       IF o = "error" THEN UNCHANGED storeVars ELSE DeactivateAllUserTokens(req[p].uid)
  /\ Answer(p, 200)
  /\ loggedOut' = loggedOut \cup {t \in DOMAIN tokens : tokens[t].user_id = req[p].uid}
  /\ UNCHANGED <<now, cleanup, minted, delivered>>
=============================================================================
