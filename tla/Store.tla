------------------------------- MODULE Store -------------------------------
(***************************************************************************)
(* The PostgreSQL schema (db/sqitch/deploy) and the sqlc statements over   *)
(* it (db/sqlc).  Every statement is one autocommitted SQL statement, so   *)
(* it is one atomic step; no handler opens a transaction (WithTx is never  *)
(* called).                                                                *)
(*                                                                         *)
(* A token pair minted by issueTokens is one element of Pair: it stands    *)
(* for the access token and the refresh token of its row, which are minted *)
(* together, are each UNIQUE and are never compared with one another.      *)
(* A bcrypt hash is represented by the one password it verifies: that      *)
(* CompareHashAndPassword ignores what a presented password has beyond 72  *)
(* bytes is left out.                                                      *)
(***************************************************************************)
EXTENDS Naturals

CONSTANTS
  Email,      \* e-mail addresses, normalised by ValidateBody
  Password,   \* passwords
  Pair,       \* token pairs crypto/rand can produce
  MaxUsers    \* bound on the identity column users.id

ASSUME MaxUsersAssumption == MaxUsers \in Nat

VARIABLES
  users,          \* table users: id -> row
  users_id_seq,   \* last value the identity column handed out
  tokens          \* table user_tokens, keyed by its token pair

storeVars == <<users, users_id_seq, tokens>>

UserId == 1..MaxUsers

User == [email : Email, hashed_password : Password]

UserToken == [user_id : UserId, is_active : BOOLEAN,
              access_token_expires_at : Nat, refresh_token_expires_at : Nat]

StoreTypeOK ==
  /\ DOMAIN users \subseteq UserId
  /\ users \in [DOMAIN users -> User]
  /\ users_id_seq \in 0..MaxUsers
  /\ DOMAIN tokens \subseteq Pair
  /\ tokens \in [DOMAIN tokens -> UserToken]

StoreInit ==
  /\ users = [u \in {} |-> 0]
  /\ users_id_seq = 0
  /\ tokens = [t \in {} |-> 0]

-----------------------------------------------------------------------------
(* Queries: the set of keys of the rows a SELECT returns. *)

GetUserByEmail(e) == {u \in DOMAIN users : users[u].email = e}

(* Broken variant: the SELECT forgets AND is_active = TRUE. *)
AccessTokenInAnyState(t) == {a \in DOMAIN tokens : a = t}

GetUserTokenByAccessToken(t) ==
  {a \in DOMAIN tokens : a = t /\ tokens[a].is_active}

(* Broken variant: the SELECT forgets AND is_active = TRUE. *)
RefreshTokenInAnyState(t) == {a \in DOMAIN tokens : a = t}

GetUserTokenByRefreshToken(t) ==
  {a \in DOMAIN tokens : a = t /\ tokens[a].is_active}

-----------------------------------------------------------------------------
(* Statements.  The two INSERTs are guarded by the constraint that makes   *)
(* PostgreSQL refuse them.  Ids a refused INSERT skips are left out: ids   *)
(* are only compared for equality and never handed out twice.              *)

EmailFree(e) == GetUserByEmail(e) = {}            \* users.email UNIQUE

UserExists(u) == u \in DOMAIN users               \* user_tokens.user_id REFERENCES users

(* Broken variant: users.email is not UNIQUE. *)
RegisterUserTwice(e, w) ==
  LET id == users_id_seq + 1
      row == [email |-> e, hashed_password |-> w]
  IN  /\ users_id_seq < MaxUsers
      /\ users_id_seq' = id
      /\ users' = [u \in DOMAIN users \cup {id} |-> IF u = id THEN row ELSE users[u]]
      /\ UNCHANGED tokens

(* Broken variant: ON CONFLICT (email) DO UPDATE SET hashed_password. *)
RegisterUserUpsert(e, w) ==
  \/ RegisterUserTwice(e, w) /\ EmailFree(e)
  \/ /\ ~EmailFree(e)
     /\ users' = [u \in DOMAIN users |->
                    IF users[u].email = e THEN [users[u] EXCEPT !.hashed_password = w]
                    ELSE users[u]]
     /\ UNCHANGED <<users_id_seq, tokens>>

RegisterUser(e, w) ==
  LET id == users_id_seq + 1
      row == [email |-> e, hashed_password |-> w]
  IN  /\ EmailFree(e)
      /\ users_id_seq < MaxUsers
      /\ users_id_seq' = id
      /\ users' = [u \in DOMAIN users \cup {id} |-> IF u = id THEN row ELSE users[u]]
      /\ UNCHANGED tokens

(* Broken variant: the row is inserted for GetUserID's default, 0. *)
CreateAnonymousToken(t, u, accessExp, refreshExp) ==
  /\ tokens' = [a \in DOMAIN tokens \cup {t} |->
                  IF a # t THEN tokens[a]
                  ELSE [user_id |-> 0, is_active |-> TRUE,
                        access_token_expires_at |-> accessExp,
                        refresh_token_expires_at |-> refreshExp]]
  /\ UNCHANGED <<users, users_id_seq>>

CreateUserToken(t, u, accessExp, refreshExp) ==
  LET row == [user_id |-> u, is_active |-> TRUE,
              access_token_expires_at |-> accessExp,
              refresh_token_expires_at |-> refreshExp]
  IN  /\ UserExists(u)
      /\ tokens' = [a \in DOMAIN tokens \cup {t} |-> IF a = t THEN row ELSE tokens[a]]
      /\ UNCHANGED <<users, users_id_seq>>

(* Broken variant: SET is_active = (... NOT IN S), without a WHERE. *)
SetActiveAgain(S) ==
  /\ tokens' = [a \in DOMAIN tokens |-> [tokens[a] EXCEPT !.is_active = a \notin S]]
  /\ UNCHANGED <<users, users_id_seq>>

Deactivate(S) ==
  /\ tokens' = [a \in DOMAIN tokens |->
                  [tokens[a] EXCEPT !.is_active = @ /\ a \notin S]]
  /\ UNCHANGED <<users, users_id_seq>>

(* Broken variant: the UPDATE is keyed by the owner, not by the token. *)
DeactivateSiblings(t) ==
  Deactivate({a \in DOMAIN tokens :
                t \in DOMAIN tokens /\ tokens[a].user_id = tokens[t].user_id})

DeactivateToken(t) == Deactivate({t})

(* Broken variant: the UPDATE has no WHERE. *)
DeactivateAllTokens(u) == Deactivate(DOMAIN tokens)

DeactivateAllUserTokens(u) == Deactivate({a \in DOMAIN tokens : tokens[a].user_id = u})

(* Broken variant: no ON DELETE CASCADE and no foreign key. *)
DeleteUserOnly(u) ==
  /\ users' = [v \in DOMAIN users \ {u} |-> users[v]]
  /\ UNCHANGED <<users_id_seq, tokens>>

DeleteUser(u) ==
  /\ users' = [v \in DOMAIN users \ {u} |-> users[v]]
  /\ tokens' = [a \in {b \in DOMAIN tokens : tokens[b].user_id # u} |-> tokens[a]]  \* CASCADE
  /\ UNCHANGED users_id_seq
=============================================================================
