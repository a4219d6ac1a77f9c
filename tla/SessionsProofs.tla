--------------------------- MODULE SessionsProofs ---------------------------
(***************************************************************************)
(* Module Api implements module Sessions, for every value of the constants *)
(* and every choice of Faults; and what Sessions promises.                 *)
(***************************************************************************)
EXTENDS ApiProofs

(* The only ways a step of the system writes the tables and the history. *)
Writes ==
  \/ UNCHANGED <<storeVars, minted>>
  \/ /\ UNCHANGED minted
     /\ \/ \E e \in Email, w \in Password : RegisterUser(e, w)
        \/ \E t \in Pair \cup {None} : DeactivateToken(t)
        \/ \E u \in UserId : DeactivateAllUserTokens(u) \/ DeleteUser(u)
  \/ \E t \in Pair \ DOMAIN minted, u \in UserId, old \in Pair \cup {None} : Mint(t, u, old)

LEMMA StepWrites ==
  ASSUME Inv, [Next]_vars
  PROVE  Writes
<1>1. ASSUME NEW p \in Proc, Arrive(p) PROVE UNCHANGED <<storeVars, minted>>
  BY <1>1 DEF Arrive, Accept, historyVars
<1>2. ASSUME NEW p \in Proc, Handle(p) PROVE Writes
  <2>1. CASE Authorize(p) \/ CheckEmail(p) \/ CheckPassword(p) \/ FindToken(p)
    BY <2>1 DEF Authorize, CheckEmail, CheckPassword, FindToken, historyVars, Writes
  <2>2. CASE InsertUser(p)
    <3>1. req[p].email \in Email /\ req[p].password \in Password
      BY <2>2, SlotFacts DEF InsertUser, SlotInv
    <3> QED BY <2>2, <3>1 DEF InsertUser, historyVars, Writes
  <2>3. CASE Rotate(p)
    <3>1. req[p].tok \in Pair \cup {None}
      BY SlotFacts DEF Request
    <3> QED BY <2>3, <3>1 DEF Rotate, historyVars, Writes
  <2>4. CASE IssueTokens(p)
    <3>1. req[p].tok \in Pair \cup {None}
      BY SlotFacts DEF Request
    <3>2. ASSUME NEW t, Mint(t, req[p].uid, req[p].tok) PROVE req[p].uid \in UserId
      BY <3>2 DEF Mint, CreateUserToken, UserExists, Inv, TypeOK, StoreTypeOK
    <3> QED BY <2>4, <3>1, <3>2 DEF IssueTokens, Writes
  <2>5. CASE Logout(p) \/ DeleteMe(p)
    <3>1. pc[p] = "handle"
      BY <2>5 DEF Logout, DeleteMe
    <3>2. req[p].tok \in DOMAIN minted /\ req[p].uid = minted[req[p].tok].user
      BY <3>1, SlotFacts DEF SlotInv
    <3>3. minted[req[p].tok].user \in UserId
      BY <3>2, SlotFacts DEF RestTypeOK
    <3> QED BY <2>5, <3>2, <3>3 DEF Logout, DeleteMe, historyVars, Writes
  <2> QED BY <1>2, <2>1, <2>2, <2>3, <2>4, <2>5 DEF Handle
<1>3. ASSUME NEW g \in cleanup, RunCleanup(g) PROVE Writes
  <2>1. g.tok \in Pair \cup {None}
    BY DEF Inv, TypeOK, RequestsTypeOK
  <2> QED BY <1>3, <2>1 DEF RunCleanup, Restart, historyVars, Writes
<1>4. CASE Crash \/ Tick \/ UNCHANGED vars
  BY <1>4 DEF Crash, Restart, Tick, vars, historyVars, Writes
<1> QED BY <1>1, <1>2, <1>3, <1>4 DEF Next, Writes

-----------------------------------------------------------------------------
(* Each way of writing is a step of Sessions, or none. *)

LEMMA NoWriteSimulates ==
  ASSUME UNCHANGED <<storeVars, minted>>
  PROVE  UNCHANGED Abstract!vars
BY DEF Abstract!vars, storeVars, SessionOf, OwnerOf, Live

LEMMA RegisterUserSimulates ==
  ASSUME Inv, NEW e \in Email, NEW w \in Password, RegisterUser(e, w), UNCHANGED minted
  PROVE  Abstract!Next
<1>1. /\ users_id_seq \in Nat /\ users_id_seq' = users_id_seq + 1
      /\ users_id_seq' \in UserId
  BY MaxUsersAssumption DEF Inv, TypeOK, StoreTypeOK, RegisterUser, UserId
<1>2. /\ users_id_seq' \notin 1..users_id_seq
      /\ DOMAIN users' = DOMAIN users \cup {users_id_seq'}
      /\ 1..users_id_seq' = 1..users_id_seq \cup {users_id_seq'}
  BY <1>1 DEF RegisterUser
<1>3. UNCHANGED <<[t \in Pair |-> SessionOf(t)], [t \in Pair |-> OwnerOf(t)]>>
  BY DEF RegisterUser, SessionOf, OwnerOf, Live
<1>4. Abstract!OpenAccount(users_id_seq')
  BY <1>2, <1>3 DEF Abstract!OpenAccount
<1> QED BY <1>1, <1>4 DEF Abstract!Next

(* An UPDATE that clears is_active ends exactly the sessions it matches. *)
LEMMA DeactivateEnds ==
  ASSUME Inv, NEW S, Deactivate(S), UNCHANGED minted
  PROVE  /\ \A t \in Pair : SessionOf(t)' = IF SessionOf(t) = "live" /\ t \in S THEN "ended"
                                            ELSE SessionOf(t)
         /\ UNCHANGED <<DOMAIN users, 1..users_id_seq, [t \in Pair |-> OwnerOf(t)]>>
<1>1. \A t \in Pair : Live(t)' <=> Live(t) /\ t \notin S
  BY DEF Deactivate, Live, Inv, TypeOK, StoreTypeOK, UserToken
<1>2. \A t \in Pair : Live(t) => t \in DOMAIN minted
  BY DEF Live, Inv, StoreInv
<1> QED BY <1>1, <1>2 DEF Deactivate, SessionOf, OwnerOf

LEMMA DeactivateTokenSimulates ==
  ASSUME Inv, NEW t \in Pair \cup {None}, DeactivateToken(t), UNCHANGED minted
  PROVE  Abstract!Next \/ UNCHANGED Abstract!vars
<1>1. /\ \A a \in Pair : SessionOf(a)' = IF SessionOf(a) = "live" /\ a = t THEN "ended"
                                         ELSE SessionOf(a)
      /\ UNCHANGED <<DOMAIN users, 1..users_id_seq, [a \in Pair |-> OwnerOf(a)]>>
  BY DeactivateEnds DEF DeactivateToken
<1>2. CASE t \in Pair /\ SessionOf(t) = "live"
  <2>1. Abstract!EndSession(t)
    BY <1>1, <1>2 DEF Abstract!EndSession, Abstract!End
  <2> QED BY <1>2, <2>1 DEF Abstract!Next
<1>3. CASE ~(t \in Pair /\ SessionOf(t) = "live")
  BY <1>1, <1>3 DEF Abstract!vars
<1> QED BY <1>2, <1>3

(* The sessions of an account are those whose row names it. *)
LEMMA SessionsOfAccount ==
  ASSUME Inv, NEW u \in UserId
  PROVE  \A t \in Pair : t \in Abstract!LiveOf(u) <=>
           SessionOf(t) = "live" /\ t \in {a \in DOMAIN tokens : tokens[a].user_id = u}
<1>1. \A t \in Pair : SessionOf(t) = "live" =>
         t \in DOMAIN tokens /\ t \in DOMAIN minted /\ minted[t].user = tokens[t].user_id
  BY DEF SessionOf, Live, Inv, StoreInv
<1> QED BY <1>1 DEF Abstract!LiveOf, OwnerOf

LEMMA DeactivateAllSimulates ==
  ASSUME Inv, NEW u \in UserId, DeactivateAllUserTokens(u), UNCHANGED minted
  PROVE  Abstract!Next
<1>1. Abstract!EndAllSessions(u)
  BY DeactivateEnds, SessionsOfAccount
     DEF DeactivateAllUserTokens, Abstract!EndAllSessions, Abstract!End
<1> QED BY <1>1 DEF Abstract!Next

LEMMA DeleteUserSimulates ==
  ASSUME Inv, NEW u \in UserId, DeleteUser(u), UNCHANGED minted
  PROVE  Abstract!Next \/ UNCHANGED Abstract!vars
<1> DEFINE S == {a \in DOMAIN tokens : tokens[a].user_id = u}
<1>1. \A t \in Pair : Live(t)' <=> Live(t) /\ t \notin S
  BY DEF DeleteUser, Live
<1>2. \A t \in Pair : Live(t) => t \in DOMAIN minted
  BY DEF Live, Inv, StoreInv
<1>3. /\ \A t \in Pair : SessionOf(t)' = IF SessionOf(t) = "live" /\ t \in S THEN "ended"
                                         ELSE SessionOf(t)
      /\ UNCHANGED <<1..users_id_seq, [t \in Pair |-> OwnerOf(t)]>>
      /\ DOMAIN users' = DOMAIN users \ {u}
  BY <1>1, <1>2 DEF DeleteUser, SessionOf, OwnerOf
<1>4. CASE u \in DOMAIN users
  <2>1. Abstract!CloseAccount(u)
    BY <1>3, <1>4, SessionsOfAccount DEF Abstract!CloseAccount, Abstract!End
  <2> QED BY <2>1 DEF Abstract!Next
<1>5. CASE u \notin DOMAIN users
  <2>1. S = {}
    BY <1>5 DEF Inv, NoOrphanSessions
  <2> QED BY <1>3, <1>5, <2>1 DEF Abstract!vars
<1> QED BY <1>4, <1>5

LEMMA MintSimulates ==
  ASSUME Inv, NEW t \in Pair \ DOMAIN minted, NEW u \in UserId, NEW old, Mint(t, u, old)
  PROVE  Abstract!Next
<1>1. t \notin DOMAIN tokens
  BY DEF Inv, StoreInv
<1>2. \A a \in Pair : Live(a)' <=> Live(a) \/ a = t
  BY <1>1 DEF Mint, CreateUserToken, Live
<1>3. /\ DOMAIN minted' = DOMAIN minted \cup {t}
      /\ minted'[t].user = u
      /\ \A a \in DOMAIN minted : minted'[a] = minted[a]
  BY DEF Mint
<1>4. \A a \in Pair : /\ SessionOf(a)' = IF a = t THEN "live" ELSE SessionOf(a)
                      /\ OwnerOf(a)' = IF a = t THEN u ELSE OwnerOf(a)
  BY <1>2, <1>3 DEF SessionOf, OwnerOf
<1>5. /\ u \in DOMAIN users /\ SessionOf(t) = "unused"
      /\ UNCHANGED <<DOMAIN users, 1..users_id_seq>>
  BY DEF Mint, CreateUserToken, UserExists, SessionOf
<1>6. Abstract!OpenSession(t, u)
  BY <1>4, <1>5 DEF Abstract!OpenSession
<1> QED BY <1>6 DEF Abstract!Next

LEMMA InitSimulates == Init => Abstract!Init
BY DEF Init, StoreInit, RequestsInit, Abstract!Init, SessionOf, OwnerOf

LEMMA NextSimulates ==
  ASSUME Inv, [Next]_vars
  PROVE  Abstract!Next \/ UNCHANGED Abstract!vars
<1>1. Writes
  BY StepWrites
<1> QED BY <1>1, NoWriteSimulates, RegisterUserSimulates, DeactivateTokenSimulates,
           DeactivateAllSimulates, DeleteUserSimulates, MintSimulates DEF Writes

(* Refinement: for every number of slots, accounts and pairs and any       *)
(* faults, each step of the handlers is one step of Sessions, or none.     *)
THEOREM ApiImplementsSessions == Spec => ImplementsSessions
<1>1. Init => Abstract!Init
  BY InitSimulates
<1>2. Inv /\ [Next]_vars => [Abstract!Next]_(Abstract!vars)
  BY NextSimulates
<1> QED BY <1>1, <1>2, Invariance, PTL DEF Spec, ImplementsSessions, Abstract!Spec
=============================================================================
