---------------------------- MODULE CauseProofs -----------------------------
(***************************************************************************)
(* Why a session of module Api may end, for every value of the constants,  *)
(* as long as the clean-up goroutine sees the token it was started for;    *)
(* and, as long as the UPDATE that deactivates a token does not fail, how  *)
(* many sessions a refresh token may start and what is left of them after  *)
(* a logout.                                                               *)
(***************************************************************************)
EXTENDS ApiProofs, FiniteSetTheorems

(* A goroutine carries a token whose row, as long as it exists, had        *)
(* expired when the goroutine was started and has ever since.              *)
CleanupInv ==
  \A g \in cleanup :
    /\ g.tok \in DOMAIN minted
    /\ g.tok \in DOMAIN tokens => now > tokens[g.tok].access_token_expires_at

(* A goroutine is started for a row whose access token has expired. *)
Starts ==
  \E p \in Proc, t \in DOMAIN tokens :
    /\ cleanup' = cleanup \cup {[slot |-> p, tok |-> t]}
    /\ now > tokens[t].access_token_expires_at

(* Rows that survive a step keep their expiry, and an issued pair whose    *)
(* row is gone gets no new one.                                            *)
RowsAge ==
  /\ now' >= now
  /\ \A t \in DOMAIN minted :
       /\ t \in DOMAIN minted'
       /\ t \in DOMAIN tokens' =>
            /\ t \in DOMAIN tokens
            /\ tokens'[t].access_token_expires_at = tokens[t].access_token_expires_at

LEMMA DeactivateAges ==
  ASSUME NEW S, Deactivate(S), StoreTypeOK
  PROVE  DOMAIN tokens' = DOMAIN tokens
         /\ \A t \in DOMAIN tokens :
              tokens'[t].access_token_expires_at = tokens[t].access_token_expires_at
BY DEF Deactivate, StoreTypeOK, UserToken

LEMMA StepAges ==
  ASSUME Inv, [Next]_vars
  PROVE  RowsAge
<1> USE DEF RowsAge
<1>1. now \in Nat /\ StoreTypeOK /\ DOMAIN tokens \subseteq DOMAIN minted
  BY MaxTimeAssumption DEF Inv, TypeOK, RequestsTypeOK, StoreInv
<1>2. ASSUME NEW p \in Proc, Arrive(p) PROVE RowsAge
  BY <1>1, <1>2 DEF Arrive, Accept, storeVars, historyVars
<1>3. ASSUME NEW p \in Proc, Handle(p) PROVE RowsAge
  <2>1. CASE Authorize(p) \/ CheckEmail(p) \/ CheckPassword(p) \/ FindToken(p)
    BY <1>1, <2>1 DEF Authorize, CheckEmail, CheckPassword, FindToken, storeVars, historyVars
  <2>2. CASE InsertUser(p)
    BY <1>1, <2>2 DEF InsertUser, RegisterUser, storeVars, historyVars
  <2>3. CASE Rotate(p)
    BY <1>1, <2>3, DeactivateAges DEF Rotate, DeactivateToken, storeVars, historyVars
  <2>4. CASE IssueTokens(p)
    <3>1. CASE UNCHANGED <<storeVars, minted, now>>
      BY <1>1, <3>1 DEF storeVars
    <3>2. ASSUME NEW t \in Pair \ DOMAIN minted, Mint(t, req[p].uid, req[p].tok), UNCHANGED now
          PROVE  RowsAge
      BY <1>1, <3>2 DEF Mint, CreateUserToken
    <3> QED BY <2>4, <3>1, <3>2 DEF IssueTokens
  <2>5. CASE Logout(p)
    BY <1>1, <2>5, DeactivateAges DEF Logout, DeactivateAllUserTokens, storeVars
  <2>6. CASE DeleteMe(p)
    BY <1>1, <2>6 DEF DeleteMe, DeleteUser, storeVars, historyVars
  <2> QED BY <1>3, <2>1, <2>2, <2>3, <2>4, <2>5, <2>6 DEF Handle
<1>4. ASSUME NEW g \in cleanup, RunCleanup(g) PROVE RowsAge
  BY <1>1, <1>4, DeactivateAges DEF RunCleanup, DeactivateToken, Restart, storeVars, historyVars
<1>5. CASE Crash \/ Tick \/ UNCHANGED vars
  BY <1>1, <1>5 DEF Crash, Restart, Tick, vars, storeVars, historyVars
<1> QED BY <1>2, <1>3, <1>4, <1>5 DEF Next

LEMMA CleanupKept ==
  ASSUME "reuse" \notin Faults, Inv, CleanupInv, [Next]_vars
  PROVE  CleanupInv'
<1>1. RowsAge
  BY StepAges
<1>2. /\ now \in Nat /\ now' \in Nat
      /\ \A t \in DOMAIN tokens : tokens[t].access_token_expires_at \in Nat
  BY NextKeeps, MaxTimeAssumption DEF Inv, TypeOK, RequestsTypeOK, StoreTypeOK, UserToken
<1>3. CASE cleanup' \subseteq cleanup
  BY <1>1, <1>2, <1>3 DEF CleanupInv, RowsAge
<1>4. CASE Starts
  <2>1. DOMAIN tokens \subseteq DOMAIN minted
    BY DEF Inv, StoreInv
  <2> QED BY <1>1, <1>2, <1>4, <2>1 DEF CleanupInv, RowsAge, Starts
<1>5. cleanup' \subseteq cleanup \/ Starts
  <2>1. ASSUME NEW p \in Proc, Authorize(p) PROVE cleanup' \subseteq cleanup \/ Starts
    BY <2>1 DEF Authorize, Rows, GetUserTokenByAccessToken, Starts
  <2>2. ASSUME NEW p \in Proc, Arrive(p) PROVE cleanup' \subseteq cleanup
    BY <2>2 DEF Arrive, Accept, Overwrite
  <2>3. ASSUME NEW g \in cleanup, RunCleanup(g) PROVE cleanup' \subseteq cleanup
    BY <2>3 DEF RunCleanup, Restart
  <2>4. ASSUME NEW p \in Proc,
               CheckEmail(p) \/ InsertUser(p) \/ CheckPassword(p) \/ FindToken(p) \/ Rotate(p)
               \/ IssueTokens(p) \/ Logout(p) \/ DeleteMe(p)
        PROVE  cleanup' \subseteq cleanup
    BY <2>4 DEF CheckEmail, InsertUser, CheckPassword, FindToken, Rotate, IssueTokens, Logout,
                DeleteMe
  <2>5. CASE Crash \/ Tick \/ UNCHANGED vars
    BY <2>5 DEF Crash, Restart, Tick, vars
  <2> QED BY <2>1, <2>2, <2>3, <2>4, <2>5 DEF Next, Handle
<1> QED BY <1>3, <1>4, <1>5
-----------------------------------------------------------------------------
(* A session of t ends for one of the two causes of EndsForCause. *)
Cause(t) == EndedByRequest(t) \/ now > tokens[t].access_token_expires_at

LEMMA StepHasCause ==
  ASSUME "reuse" \notin Faults, Inv, CleanupInv, [Next]_vars,
         NEW t \in DOMAIN tokens, Live(t), ~Live(t)'
  PROVE  Cause(t)
<1>1. /\ t \in DOMAIN minted /\ tokens[t].user_id = minted[t].user
      /\ tokens' # tokens
  BY DEF Inv, StoreInv, Live
<1>2. ASSUME NEW p \in Proc, Rotate(p) PROVE Cause(t)
  <2>1. req[p].tok = t
    BY <1>1, <1>2 DEF Rotate, DeactivateToken, Deactivate, Live, Inv, TypeOK, StoreTypeOK, UserToken,
                      storeVars
  <2>2. pc'[p] # pc[p]
    BY <1>2 DEF Rotate, Answer, Continue, Inv, TypeOK, RequestsTypeOK
  <2> QED BY <1>2, <2>1, <2>2 DEF Rotate, Cause, EndedByRequest
<1>3. ASSUME NEW p \in Proc, Logout(p) \/ DeleteMe(p) PROVE Cause(t)
  <2>1. pc[p] = "handle" /\ pc'[p] # pc[p]
    BY <1>3 DEF Logout, DeleteMe, Answer, Inv, TypeOK, RequestsTypeOK
  <2>2. req[p].uid = minted[req[p].tok].user
    BY <2>1, SlotFacts DEF SlotInv
  <2>3. tokens[t].user_id = req[p].uid
    <3>1. CASE DeactivateAllUserTokens(req[p].uid)
      BY <3>1 DEF DeactivateAllUserTokens, Deactivate, Live, Inv, TypeOK, StoreTypeOK, UserToken
    <3>2. CASE DeleteUser(req[p].uid)
      BY <3>2 DEF DeleteUser, Live
    <3> QED BY <1>1, <1>3, <3>1, <3>2 DEF Logout, DeleteMe, storeVars
  <2> QED BY <1>1, <2>1, <2>2, <2>3 DEF Cause, EndedByRequest
<1>4. ASSUME NEW g \in cleanup, RunCleanup(g) PROVE Cause(t)
  <2>1. g.tok = t
    BY <1>1, <1>4 DEF RunCleanup, Restart, DeactivateToken, Deactivate, Live, Inv, TypeOK,
                      StoreTypeOK, UserToken, storeVars
  <2> QED BY <2>1 DEF CleanupInv, Cause
<1>5. ASSUME NEW p \in Proc, IssueTokens(p) PROVE FALSE
  <2>1. ASSUME NEW a \in Pair \ DOMAIN minted, Mint(a, req[p].uid, req[p].tok) PROVE FALSE
    BY <1>1, <2>1 DEF Mint, CreateUserToken, Live
  <2> QED BY <1>1, <1>5, <2>1 DEF IssueTokens, storeVars
<1>6. \/ \E p \in Proc : Rotate(p) \/ Logout(p) \/ DeleteMe(p) \/ IssueTokens(p)
      \/ \E g \in cleanup : RunCleanup(g)
  BY <1>1 DEF Next, Handle, Arrive, Accept, Authorize, CheckEmail, InsertUser, RegisterUser,
              CheckPassword, FindToken, Crash, Restart, Tick, vars, storeVars
<1> QED BY <1>2, <1>3, <1>4, <1>5, <1>6

(* While the goroutine keeps its own token, a session ends only by its own *)
(* exchange, by a logout or the deletion of its account, or after its      *)
(* access token has expired: no other session's rotation or clean-up, and  *)
(* no request of another account, ends it (auth.go:137 and :158, users.go: *)
(* 97, middlewares/auth.go:37).                                            *)
THEOREM SessionsEndForCause ==
  ASSUME "reuse" \notin Faults
  PROVE  Spec => EndsForCause
<1>1. Init => CleanupInv
  BY DEF Init, RequestsInit, CleanupInv
<1>2. Inv /\ CleanupInv /\ [Next]_vars => CleanupInv'
  BY CleanupKept
<1>3. Inv /\ CleanupInv /\ [Next]_vars =>
        [\A t \in DOMAIN tokens : Live(t) /\ ~Live(t)' =>
           EndedByRequest(t) \/ now > tokens[t].access_token_expires_at]_vars
  BY StepHasCause DEF Cause
<1> QED BY <1>1, <1>2, <1>3, Invariance, PTL DEF Spec, EndsForCause
-----------------------------------------------------------------------------
(* What a refresh token buys.                                              *)

Kids(t) == {s \in DOMAIN minted : minted[s].parent = t}

(* Slot p found its refresh token active and has not answered yet. *)
Buying(p) == req[p].op = "refresh" /\ pc[p] \in {"rotate", "issue"}
Buyers(t) == {p \in Proc : Buying(p) /\ req[p].tok = t}

(* A request with credentials presents no token. *)
NoToken(p) ==
  \/ pc[p] \in {"checkEmail", "insertUser", "checkPassword"}
  \/ pc[p] = "issue" /\ req[p].op # "refresh"
  => req[p].tok = None

(* While a pair is live nothing was bought with it: the slots that found   *)
(* it so still have to deactivate it.  Afterwards no slot can join them.   *)
Account(t) ==
  /\ IsFiniteSet(Kids(t))
  /\ Cardinality(Kids(t)) + Cardinality(Buyers(t)) <= Cardinality(Proc)
  /\ Live(t) => Kids(t) = {} /\ \A p \in Buyers(t) : pc[p] = "rotate"

Purchases ==
  /\ \A s \in DOMAIN minted : minted[s].parent \in DOMAIN minted \cup {None}
  /\ \A p \in Proc : NoToken(p)
  /\ \A t \in Pair : Account(t)

LEMMA BuyersAreFinite ==
  ASSUME IsFiniteSet(Proc), NEW B \in SUBSET Proc
  PROVE  IsFiniteSet(B) /\ Cardinality(B) \in Nat /\ Cardinality(B) <= Cardinality(Proc)
         /\ Cardinality(Proc) \in Nat
BY FS_Subset, FS_CardinalityType

LEMMA KidsAreCounted ==
  ASSUME Purchases, NEW t \in Pair
  PROVE  IsFiniteSet(Kids(t)) /\ Cardinality(Kids(t)) \in Nat
BY FS_CardinalityType DEF Purchases, Account

(* A step that issues nothing and after which nobody new is buying. *)
LEMMA CalmKeeps ==
  ASSUME IsFiniteSet(Proc), Inv, Inv', Monotone, Purchases, UNCHANGED minted,
         \A q \in Proc : NoToken(q)',
         \A q \in Proc : Buying(q)' => Buying(q) /\ req'[q].tok = req[q].tok /\ pc'[q] = pc[q]
  PROVE  Purchases'
<1>1. ASSUME NEW t \in Pair PROVE Account(t)'
  <2>1. Kids(t)' = Kids(t)
    BY DEF Kids
  <2>2. Buyers(t)' \subseteq Buyers(t) /\ Buyers(t) \subseteq Proc
    BY DEF Buyers
  <2>3. /\ IsFiniteSet(Buyers(t)) /\ Cardinality(Buyers(t)) \in Nat
        /\ Cardinality(Proc) \in Nat /\ Cardinality(Buyers(t)') \in Nat
    BY <2>2, BuyersAreFinite
  <2>4. Cardinality(Buyers(t)') <= Cardinality(Buyers(t))
    BY <2>2, <2>3, FS_Subset
  <2>5. Live(t)' => Live(t)
    BY DEF Monotone, Inv, StoreInv, Live
  <2>6. \A q \in Buyers(t)' : q \in Buyers(t) /\ pc'[q] = pc[q]
    BY DEF Buyers
  <2>7. Cardinality(Kids(t)') + Cardinality(Buyers(t)') <= Cardinality(Proc)
    BY <2>1, <2>3, <2>4, KidsAreCounted DEF Purchases, Account
  <2>8. Live(t)' => Kids(t)' = {} /\ \A p \in Buyers(t)' : pc'[p] = "rotate"
    BY <2>1, <2>5, <2>6 DEF Purchases, Account
  <2> QED BY <2>1, <2>7, <2>8, KidsAreCounted DEF Account
<1> QED BY <1>1 DEF Purchases

(* The look-up: the pair is still live, so nothing has been bought yet. *)
LEMMA FoundKeeps ==
  ASSUME IsFiniteSet(Proc), Inv, Purchases, NEW p \in Proc, pc[p] = "findToken",
         Live(req[p].tok), NEW u, Continue(p, "rotate", u), UNCHANGED <<storeVars, minted>>
  PROVE  Purchases'
<1>1. req[p].op = "refresh" /\ req[p].tok \in DOMAIN minted
  BY SlotFacts DEF SlotInv
<1>2. /\ pc'[p] = "rotate" /\ req'[p].tok = req[p].tok /\ req'[p].op = req[p].op
      /\ \A q \in Proc \ {p} : pc'[q] = pc[q] /\ req'[q] = req[q]
  BY ContinueSlot DEF Continue, Inv, TypeOK, RequestsTypeOK
<1>3. \A q \in Proc : NoToken(q)'
  BY <1>2 DEF NoToken, Purchases
<1>4. \A t \in Pair : Kids(t)' = Kids(t) /\ Live(t)' = Live(t)
  BY DEF Kids, Live, storeVars
<1>5. \A q \in Proc \ {p} : Buying(q)' = Buying(q)
  BY <1>2 DEF Buying
<1>6. ASSUME NEW t \in Pair, t # req[p].tok PROVE Account(t)'
  <2>1. Buyers(t)' = Buyers(t) /\ p \notin Buyers(t)
    BY <1>2, <1>5, <1>6 DEF Buyers
  <2> QED BY <1>2, <1>4, <2>1 DEF Account, Purchases, Buyers
<1>7. ASSUME NEW t \in Pair, t = req[p].tok PROVE Account(t)'
  <2>1. Kids(t)' = {} /\ \A q \in Buyers(t) : pc[q] = "rotate"
    BY <1>4, <1>7 DEF Account, Purchases
  <2>2. Cardinality(Kids(t)') = 0 /\ IsFiniteSet(Kids(t)')
    BY <2>1, FS_EmptySet
  <2>3. Buyers(t)' \in SUBSET Proc
    BY DEF Buyers
  <2>4. Cardinality(Buyers(t)') <= Cardinality(Proc) /\ Cardinality(Buyers(t)') \in Nat
    BY <2>3, BuyersAreFinite
  <2>5. \A q \in Buyers(t)' : pc'[q] = "rotate"
    BY <1>2, <1>5, <2>1 DEF Buyers
  <2> QED BY <2>1, <2>2, <2>4, <2>5 DEF Account
<1> QED BY <1>3, <1>6, <1>7 DEF Purchases

(* The UPDATE: from now on the pair is dead. *)
LEMMA RotatedKeeps ==
  ASSUME Inv, Inv', Monotone, Purchases, NEW p \in Proc, pc[p] = "rotate",
         NEW t0, t0 = req[p].tok, ~Live(t0)', NEW u, Continue(p, "issue", u), UNCHANGED minted
  PROVE  Purchases'
<1>1. req[p].op = "refresh"
  BY SlotFacts DEF SlotInv
<1>2. /\ pc'[p] = "issue" /\ req'[p].tok = req[p].tok /\ req'[p].op = req[p].op
      /\ \A q \in Proc \ {p} : pc'[q] = pc[q] /\ req'[q] = req[q]
  BY ContinueSlot DEF Continue, Inv, TypeOK, RequestsTypeOK
<1>3. \A q \in Proc : NoToken(q)'
  BY <1>1, <1>2 DEF NoToken, Purchases
<1>4. ASSUME NEW t \in Pair PROVE Account(t)'
  <2>1. Kids(t)' = Kids(t)
    BY DEF Kids
  <2>2. Buyers(t)' = Buyers(t)
    BY <1>1, <1>2 DEF Buyers, Buying
  <2>3. Live(t)' => Live(t) /\ t # t0
    BY DEF Monotone, Inv, StoreInv, Live
  <2>4. t # t0 => \A q \in Buyers(t) : pc'[q] = pc[q]
    BY <1>2 DEF Buyers
  <2>5. Account(t)
    BY DEF Purchases
  <2>6. Live(t)' => Kids(t)' = {} /\ \A q \in Buyers(t)' : pc'[q] = "rotate"
    BY <2>1, <2>2, <2>3, <2>4, <2>5 DEF Account
  <2> QED BY <2>1, <2>2, <2>5, <2>6 DEF Account
<1> QED BY <1>3, <1>4 DEF Purchases

(* The INSERT: one slot fewer is buying, one pair more was bought. *)
LEMMA MintedKeeps ==
  ASSUME IsFiniteSet(Proc), Inv, Inv', Monotone, Purchases, NEW p \in Proc, pc[p] = "issue",
         NEW s \in Pair \ DOMAIN minted, Mint(s, req[p].uid, req[p].tok),
         NEW status, Answer(p, status)
  PROVE  Purchases'
<1>t. PICK t0 : t0 = req[p].tok
  OBVIOUS
<1>1. /\ DOMAIN minted' = DOMAIN minted \cup {s} /\ minted'[s].parent = t0
      /\ \A a \in DOMAIN minted : minted'[a] = minted[a]
  BY <1>t DEF Mint
<1>2. /\ pc'[p] = "idle"
      /\ \A q \in Proc \ {p} : pc'[q] = pc[q] /\ req'[q] = req[q]
  BY DEF Answer, Inv, TypeOK, RequestsTypeOK
<1>3. (req[p].op = "refresh" /\ t0 \in DOMAIN minted) \/ (req[p].op # "refresh" /\ t0 = None)
  <2>1. NoToken(p) /\ SlotInv(p)
    BY DEF Purchases, Inv
  <2> QED BY <1>t, <2>1 DEF SlotInv, NoToken
<1>4. \A a \in DOMAIN minted' : minted'[a].parent \in DOMAIN minted \cup {None}
  BY <1>1, <1>3 DEF Purchases
<1>5. \A q \in Proc : NoToken(q)'
  BY <1>2 DEF NoToken, Purchases
<1>6. /\ ~Buying(p)'
      /\ \A q \in Proc \ {p} : Buying(q)' = Buying(q)
  BY <1>2 DEF Buying
<1>7. \A q \in Proc : Buying(q) => req[q].tok \in DOMAIN minted
  BY SlotFacts DEF Buying, SlotInv
<1>8. DOMAIN minted \subseteq Pair /\ None \notin Pair
  BY NoneAssumption DEF Inv, TypeOK, RequestsTypeOK
<1>9. \A t \in DOMAIN minted : Live(t)' => Live(t)
  BY DEF Monotone
<1>10. ASSUME NEW t \in Pair, t \notin DOMAIN minted PROVE Account(t)'
  <2>1. Kids(t)' = {}
    BY <1>4, <1>8, <1>10 DEF Kids
  <2>2. Buyers(t)' = {}
    BY <1>2, <1>6, <1>7, <1>10 DEF Buyers
  <2>3. Cardinality({}) = 0 /\ IsFiniteSet({}) /\ Cardinality(Proc) \in Nat
    BY FS_EmptySet, FS_CardinalityType
  <2> QED BY <2>1, <2>2, <2>3 DEF Account
<1>11. ASSUME NEW t \in DOMAIN minted, t # t0 PROVE Account(t)'
  <2>1. Kids(t)' = Kids(t)
    BY <1>1, <1>11 DEF Kids
  <2>2. Buyers(t)' = Buyers(t) /\ p \notin Buyers(t)
    BY <1>t, <1>2, <1>6, <1>11 DEF Buyers
  <2>3. \A q \in Buyers(t) : pc'[q] = pc[q]
    BY <1>2, <2>2 DEF Buyers
  <2> QED BY <1>8, <1>9, <2>1, <2>2, <2>3 DEF Account, Purchases
<1>12. ASSUME t0 \in DOMAIN minted PROVE Account(t0)'
  <2>1. req[p].op = "refresh" /\ p \in Buyers(t0) /\ Account(t0)
    BY <1>t, <1>3, <1>8, <1>12 DEF Buyers, Buying, Purchases
  <2>2. ~Live(t0)'
    BY <1>9, <1>12, <2>1 DEF Account
  <2>3. Kids(t0)' = Kids(t0) \cup {s} /\ s \notin Kids(t0)
    BY <1>1 DEF Kids
  <2>4. Buyers(t0)' = Buyers(t0) \ {p}
    BY <1>2, <1>6 DEF Buyers
  <2>5. Buyers(t0) \in SUBSET Proc
    BY DEF Buyers
  <2>6. /\ IsFiniteSet(Kids(t0)) /\ Cardinality(Kids(t0)) \in Nat
        /\ IsFiniteSet(Buyers(t0)) /\ Cardinality(Buyers(t0)) \in Nat /\ Cardinality(Proc) \in Nat
    BY <1>8, <1>12, <2>5, KidsAreCounted, BuyersAreFinite
  <2>7. IsFiniteSet(Kids(t0)') /\ Cardinality(Kids(t0)') = Cardinality(Kids(t0)) + 1
    BY <2>3, <2>6, FS_AddElement
  <2>8. Cardinality(Buyers(t0)') = Cardinality(Buyers(t0)) - 1
    BY <2>1, <2>4, <2>6, FS_RemoveElement
  <2>9. Cardinality(Kids(t0)') + Cardinality(Buyers(t0)') <= Cardinality(Proc)
    <3>1. Cardinality(Kids(t0)) + Cardinality(Buyers(t0)) <= Cardinality(Proc)
      BY <2>1 DEF Account
    <3> QED BY <2>6, <2>7, <2>8, <3>1
  <2> QED BY <2>2, <2>7, <2>9 DEF Account
<1> QED BY <1>1, <1>4, <1>5, <1>10, <1>11, <1>12 DEF Purchases

(* A slot whose step ends in an answer, or goes on to a step that buys     *)
(* nothing, while the others stand still.                                  *)
LEMMA QuietStep ==
  ASSUME Inv, Purchases, NEW p \in Proc,
         \/ \E status : Answer(p, status)
         \/ \E step \in {"insertUser", "handle", "expire"} : \E u : Continue(p, step, u)
         \/ \E u : Continue(p, "issue", u) /\ req[p].op # "refresh",
         pc[p] \in {"checkEmail", "insertUser", "checkPassword"} \/
           ~\E u : Continue(p, "insertUser", u) \/ Continue(p, "issue", u)
  PROVE  /\ \A q \in Proc : NoToken(q)'
         /\ \A q \in Proc :
              Buying(q)' => Buying(q) /\ req'[q].tok = req[q].tok /\ pc'[q] = pc[q]
<1>1. \A q \in Proc : NoToken(q)
  BY DEF Purchases
<1>2. CASE \E status : Answer(p, status)
  <2>1. pc'[p] = "idle" /\ \A q \in Proc \ {p} : pc'[q] = pc[q] /\ req'[q] = req[q]
    BY <1>2 DEF Answer, Inv, TypeOK, RequestsTypeOK
  <2> QED BY <1>1, <2>1 DEF NoToken, Buying
<1>3. ASSUME NEW step \in {"insertUser", "handle", "expire", "issue"}, NEW u, Continue(p, step, u),
             step = "issue" => req[p].op # "refresh"
      PROVE  /\ \A q \in Proc : NoToken(q)'
             /\ \A q \in Proc :
                  Buying(q)' => Buying(q) /\ req'[q].tok = req[q].tok /\ pc'[q] = pc[q]
  <2>1. /\ pc'[p] = step /\ req'[p].tok = req[p].tok /\ req'[p].op = req[p].op
        /\ \A q \in Proc \ {p} : pc'[q] = pc[q] /\ req'[q] = req[q]
    BY <1>3, ContinueSlot DEF Continue, Inv, TypeOK, RequestsTypeOK
  <2>2. step \in {"insertUser", "issue"} => req[p].tok = None
    BY <1>1, <1>3 DEF NoToken
  <2>3. \A q \in Proc : NoToken(q)'
    BY <1>1, <2>1, <2>2 DEF NoToken
  <2>4. ~Buying(p)' /\ \A q \in Proc \ {p} : Buying(q)' = Buying(q)
    BY <1>3, <2>1 DEF Buying
  <2> QED BY <2>1, <2>3, <2>4
<1> QED BY <1>2, <1>3

LEMMA PurchasesKept ==
  ASSUME "error" \notin Faults, IsFiniteSet(Proc), Inv, Purchases, [Next]_vars
  PROVE  Purchases'
<1>1. Inv' /\ Monotone
  BY NextKeeps
<1>2. \A q \in Proc : NoToken(q)
  BY DEF Purchases
<1>3. ASSUME NEW p \in Proc, Arrive(p) PROVE Purchases'
  <2>1. PICK op, e, w, t, bearer :
          /\ op \in DOMAIN Route
          /\ Accept(p, op, e, w, t, bearer)
          /\ op \in {"register", "login"} => t = None
    <3>1. DOMAIN Route = {"register", "login", "refresh", "logout", "delete"}
      BY DEF Route
    <3>2. CASE \E e, w : Accept(p, "register", e, w, None, None) \/ Accept(p, "login", e, w, None, None)
      BY <3>1, <3>2
    <3>3. CASE \E t : Accept(p, "refresh", None, None, t, None)
      BY <3>1, <3>3
    <3>4. CASE \E op \in {"logout", "delete"} : \E t : Accept(p, op, None, None, t, t)
      BY <3>1, <3>4
    <3> QED BY <1>3, <3>2, <3>3, <3>4 DEF Arrive
  <2>2. /\ pc'[p] = Route[op] /\ req'[p].op = op /\ req'[p].tok = t
        /\ \A q \in Proc \ {p} : pc'[q] = pc[q] /\ req'[q] = req[q]
        /\ UNCHANGED minted
    BY <2>1 DEF Accept, Inv, TypeOK, RequestsTypeOK, historyVars
  <2>3. /\ Route[op] \in {"checkEmail", "checkPassword", "findToken", "authorize"}
        /\ Route[op] \in {"checkEmail", "checkPassword"} => op \in {"register", "login"}
    BY <2>1 DEF Route
  <2>4. \A q \in Proc : NoToken(q)'
    BY <1>2, <2>1, <2>2, <2>3 DEF NoToken
  <2>5. \A q \in Proc : Buying(q)' => Buying(q) /\ req'[q].tok = req[q].tok /\ pc'[q] = pc[q]
    BY <2>2, <2>3 DEF Buying
  <2> QED BY <1>1, <2>2, <2>4, <2>5, CalmKeeps
<1>4. ASSUME NEW p \in Proc, Authorize(p) \/ CheckEmail(p) \/ InsertUser(p) \/ CheckPassword(p)
                             \/ Logout(p) \/ DeleteMe(p)
      PROVE  Purchases'
  <2>1. UNCHANGED minted
    BY <1>4 DEF Authorize, CheckEmail, InsertUser, CheckPassword, Logout, DeleteMe, historyVars
  <2>2. CASE Authorize(p) \/ Logout(p) \/ DeleteMe(p)
    <3>1. (\E status : Answer(p, status)) \/ (\E u : Continue(p, "handle", u))
      BY <2>2 DEF Authorize, Logout, DeleteMe
    <3>2. pc'[p] \in {"idle", "handle"}
      BY <3>1 DEF Answer, Continue, Inv, TypeOK, RequestsTypeOK
    <3>3. ~\E u : Continue(p, "insertUser", u) \/ Continue(p, "issue", u)
      BY <3>2 DEF Continue, Inv, TypeOK, RequestsTypeOK
    <3> QED BY <1>1, <2>1, <3>1, <3>3, QuietStep, CalmKeeps
  <2>3. CASE CheckEmail(p) \/ InsertUser(p) \/ CheckPassword(p)
    <3>1. pc[p] \in {"checkEmail", "insertUser", "checkPassword"} /\ req[p].op # "refresh"
      BY <2>3, SlotFacts DEF CheckEmail, InsertUser, CheckPassword, SlotInv
    <3>2. \/ \E status : Answer(p, status)
          \/ \E u : Continue(p, "insertUser", u)
          \/ \E u : Continue(p, "issue", u)
      BY <2>3 DEF CheckEmail, InsertUser, CheckPassword
    <3> QED BY <1>1, <2>1, <3>1, <3>2, QuietStep, CalmKeeps
  <2> QED BY <1>4, <2>2, <2>3
<1>5. ASSUME NEW p \in Proc, FindToken(p) PROVE Purchases'
  <2>1. pc[p] = "findToken" /\ UNCHANGED <<storeVars, minted>>
    BY <1>5 DEF FindToken, historyVars
  <2>2. CASE Answer(p, 401)
    <3>1. pc'[p] = "idle"
      BY <2>2 DEF Answer, Inv, TypeOK, RequestsTypeOK
    <3>2. ~\E u : Continue(p, "insertUser", u) \/ Continue(p, "issue", u)
      BY <3>1 DEF Continue, Inv, TypeOK, RequestsTypeOK
    <3> QED BY <1>1, <2>1, <2>2, <3>2, QuietStep, CalmKeeps
  <2>3. ASSUME NEW u, Continue(p, "expire", u) PROVE Purchases'
    <3>1. pc'[p] = "expire"
      BY <2>3 DEF Continue, Inv, TypeOK, RequestsTypeOK
    <3>2. ~\E v : Continue(p, "insertUser", v) \/ Continue(p, "issue", v)
      BY <3>1 DEF Continue, Inv, TypeOK, RequestsTypeOK
    <3> QED BY <1>1, <2>1, <2>3, <3>2, QuietStep, CalmKeeps
  <2>4. ASSUME Live(req[p].tok), NEW u, Continue(p, "rotate", u) PROVE Purchases'
    BY <2>1, <2>4, FoundKeeps
  <2>5. \/ Answer(p, 401)
        \/ Live(req[p].tok) /\ \E u : Continue(p, "expire", u) \/ Continue(p, "rotate", u)
    BY <1>5 DEF FindToken, Rows, GetUserTokenByRefreshToken, Live
  <2> QED BY <2>2, <2>3, <2>4, <2>5
<1>6. ASSUME NEW p \in Proc, Rotate(p) PROVE Purchases'
  <2>1. UNCHANGED minted /\ Deactivate({req[p].tok})
    BY <1>6 DEF Rotate, Outcome, DeactivateToken, historyVars
  <2>t. PICK t0 : t0 = req[p].tok
    OBVIOUS
  <2>2. ~Live(t0)'
    BY <2>t, <2>1 DEF Deactivate, Live, Inv, TypeOK, StoreTypeOK, UserToken
  <2>3. CASE pc[p] = "expire"
    <3>1. Answer(p, 401)
      BY <1>6, <2>3 DEF Rotate
    <3>2. pc'[p] = "idle"
      BY <3>1 DEF Answer, Inv, TypeOK, RequestsTypeOK
    <3>3. ~\E u : Continue(p, "insertUser", u) \/ Continue(p, "issue", u)
      BY <3>2 DEF Continue, Inv, TypeOK, RequestsTypeOK
    <3> QED BY <1>1, <2>1, <3>1, <3>3, QuietStep, CalmKeeps
  <2>4. CASE pc[p] = "rotate"
    BY <1>1, <1>6, <2>t, <2>1, <2>2, <2>4, RotatedKeeps DEF Rotate
  <2> QED BY <1>6, <2>3, <2>4 DEF Rotate
<1>7. ASSUME NEW p \in Proc, IssueTokens(p) PROVE Purchases'
  <2>1. pc[p] = "issue"
    BY <1>7 DEF IssueTokens
  <2>2. CASE Answer(p, 500) /\ UNCHANGED minted
    <3>1. pc'[p] = "idle"
      BY <2>2 DEF Answer, Inv, TypeOK, RequestsTypeOK
    <3>2. ~\E u : Continue(p, "insertUser", u) \/ Continue(p, "issue", u)
      BY <3>1 DEF Continue, Inv, TypeOK, RequestsTypeOK
    <3> QED BY <1>1, <2>2, <3>2, QuietStep, CalmKeeps
  <2>3. ASSUME NEW s \in Pair \ DOMAIN minted, Mint(s, req[p].uid, req[p].tok),
               NEW status, Answer(p, status)
        PROVE  Purchases'
    BY <1>1, <2>1, <2>3, MintedKeeps
  <2> QED BY <1>7, <2>2, <2>3 DEF IssueTokens
<1>8. ASSUME UNCHANGED <<minted, pc, req>> PROVE Purchases'
  <2>1. \A q \in Proc : NoToken(q)'
    BY <1>2, <1>8 DEF NoToken
  <2>2. \A q \in Proc : Buying(q)' => Buying(q) /\ req'[q].tok = req[q].tok /\ pc'[q] = pc[q]
    BY <1>8 DEF Buying
  <2> QED BY <1>1, <1>8, <2>1, <2>2, CalmKeeps
<1>9. CASE Restart
  <2>1. UNCHANGED minted /\ \A q \in Proc : pc'[q] = "idle"
    BY <1>9 DEF Restart, historyVars
  <2>2. \A q \in Proc : NoToken(q)' /\ ~Buying(q)'
    BY <2>1 DEF NoToken, Buying
  <2> QED BY <1>1, <2>1, <2>2, CalmKeeps
<1>10. CASE (\E g \in cleanup : RunCleanup(g)) \/ Crash \/ Tick \/ UNCHANGED vars
  BY <1>8, <1>9, <1>10 DEF RunCleanup, Crash, Tick, vars, historyVars
<1> QED BY <1>3, <1>4, <1>5, <1>6, <1>7, <1>10 DEF Next, Handle

LEMMA PurchasesInvariance ==
  ASSUME "error" \notin Faults, IsFiniteSet(Proc)
  PROVE  Spec => []Purchases
<1>1. Init => Purchases
  <2> SUFFICES ASSUME Init PROVE Purchases
    OBVIOUS
  <2>1. DOMAIN minted = {} /\ \A p \in Proc : pc[p] = "idle"
    BY DEF Init, RequestsInit
  <2>2. \A t \in Pair : Kids(t) = {} /\ Buyers(t) = {}
    BY <2>1 DEF Kids, Buyers, Buying
  <2>3. Cardinality({}) = 0 /\ IsFiniteSet({}) /\ Cardinality(Proc) \in Nat
    BY FS_EmptySet, FS_CardinalityType
  <2>4. \A t \in Pair : Account(t)
    BY <2>2, <2>3 DEF Account
  <2> QED BY <2>1, <2>4 DEF Purchases, NoToken
<1>2. Inv /\ Purchases /\ [Next]_vars => Purchases'
  BY PurchasesKept
<1> QED BY <1>1, <1>2, Invariance, PTL DEF Spec

(* A refresh token buys no more pairs than requests can be in flight. *)
ReplaysBounded == \A t \in Pair : Cardinality(Kids(t)) <= Cardinality(Proc)

LEMMA PurchasesBound ==
  ASSUME IsFiniteSet(Proc), Purchases
  PROVE  ReplaysBounded
<1> SUFFICES ASSUME NEW t \in Pair PROVE Cardinality(Kids(t)) <= Cardinality(Proc)
  BY DEF ReplaysBounded
<1>1. Buyers(t) \in SUBSET Proc
  BY DEF Buyers
<1>2. /\ Cardinality(Buyers(t)) \in Nat /\ Cardinality(Proc) \in Nat
      /\ Cardinality(Kids(t)) \in Nat
  BY <1>1, BuyersAreFinite, KidsAreCounted
<1> QED BY <1>2 DEF Purchases, Account

(* auth.go:113-145: as long as no statement fails outright, a refresh      *)
(* token that is presented again and again, across crashes and lost        *)
(* replies, is exchanged at most once per request slot: only requests that *)
(* looked it up before the first of them deactivated it get a pair.        *)
THEOREM ReplaysAreBounded ==
  ASSUME "error" \notin Faults, IsFiniteSet(Proc)
  PROVE  Spec => []ReplaysBounded
BY PurchasesInvariance, PurchasesBound, PTL
-----------------------------------------------------------------------------
(* With one request slot, where requests follow one another.               *)

(* auth.go:136: one request after the other, a refresh token is exchanged  *)
(* for one new pair, whatever clean-ups, crashes and lost replies come in  *)
(* between; two exchanges of one token are always a race of two requests.  *)
THEOREM SequentialRefreshIsSingleUse ==
  ASSUME "error" \notin Faults, NEW p, Proc = {p}
  PROVE  Spec => []RefreshIsSingleUse
<1>1. IsFiniteSet(Proc) /\ Cardinality(Proc) = 1
  BY FS_Singleton
<1>2. Inv /\ Purchases => RefreshIsSingleUse
  <2> SUFFICES ASSUME Inv, Purchases, NEW s \in DOMAIN minted, NEW t \in DOMAIN minted,
                      minted[s].parent = minted[t].parent, minted[s].parent # None
               PROVE  s = t
    BY DEF RefreshIsSingleUse
  <2>1. PICK a \in Pair : a = minted[s].parent
    BY DEF Purchases, Inv, TypeOK, RequestsTypeOK
  <2>2. s \in Kids(a) /\ t \in Kids(a)
    BY <2>1 DEF Kids
  <2>3. IsFiniteSet(Kids(a)) /\ Cardinality(Kids(a)) \in Nat
    BY KidsAreCounted
  <2>4. Cardinality(Kids(a)) <= 1
    BY <1>1, PurchasesBound DEF ReplaysBounded
  <2>5. Cardinality(Kids(a)) # 0
    BY <2>2, <2>3, FS_EmptySet
  <2>6. Cardinality(Kids(a)) = 1
    BY <2>3, <2>4, <2>5
  <2>7. \E x : Kids(a) = {x}
    BY <2>3, <2>6, FS_Singleton
  <2> QED BY <2>2, <2>7
<1> QED BY <1>1, <1>2, Invariance, PurchasesInvariance, PTL

(* Every exchange stays within one account, and no exchange of a           *)
(* logged-out pair is under way or has left a usable one.                  *)
HeirsInv ==
  /\ NoSessionSurvivesLogout
  /\ \A t \in DOMAIN minted :
       minted[t].parent # None => minted[minted[t].parent].user = minted[t].user
  /\ \A q \in Proc : Buying(q) => req[q].tok \notin loggedOut

LEMMA BuyersFoundItLive ==
  ASSUME Inv, [Next]_vars, NEW q \in Proc, Buying(q)'
  PROVE  req'[q].tok = req[q].tok /\ (Buying(q) \/ Live(req[q].tok))
<1> DEFINE Goal == req'[q].tok = req[q].tok /\ (Buying(q) \/ Live(req[q].tok))
<1>1. pc'[q] \in {"rotate", "issue"} /\ req'[q].op = "refresh"
  BY DEF Buying
<1>2. CASE pc'[q] = pc[q] /\ req'[q] = req[q]
  BY <1>1, <1>2 DEF Buying
<1>3. ASSUME NEW p \in Proc, Arrive(p) PROVE Goal
  <2>1. PICK op, e, w, t, bearer : op \in DOMAIN Route /\ Accept(p, op, e, w, t, bearer)
    BY <1>3 DEF Arrive, Route
  <2>2. pc'[p] \notin {"rotate", "issue"} /\ \A a \in Proc \ {p} : pc'[a] = pc[a] /\ req'[a] = req[a]
    BY <2>1 DEF Accept, Route, Inv, TypeOK, RequestsTypeOK
  <2> QED BY <1>1, <1>2, <2>2
<1>4. ASSUME NEW p \in Proc, NEW status, Answer(p, status) PROVE Goal
  <2>1. pc'[p] = "idle" /\ \A a \in Proc \ {p} : pc'[a] = pc[a] /\ req'[a] = req[a]
    BY <1>4 DEF Answer, Inv, TypeOK, RequestsTypeOK
  <2> QED BY <1>1, <1>2, <2>1
<1>5. ASSUME NEW p \in Proc, NEW step, NEW u, Continue(p, step, u),
             \/ step \notin {"rotate", "issue"}
             \/ req[p].op = "refresh" => Buying(p) \/ Live(req[p].tok)
      PROVE  Goal
  <2>1. /\ pc'[p] = step /\ req'[p].tok = req[p].tok /\ req'[p].op = req[p].op
        /\ \A a \in Proc \ {p} : pc'[a] = pc[a] /\ req'[a] = req[a]
    BY <1>5, ContinueSlot DEF Continue, Inv, TypeOK, RequestsTypeOK
  <2> QED BY <1>1, <1>2, <1>5, <2>1
<1>6. ASSUME NEW p \in Proc, Handle(p) PROVE Goal
  <2>1. CASE Authorize(p) \/ Logout(p) \/ DeleteMe(p) \/ IssueTokens(p)
    BY <1>4, <1>5, <2>1 DEF Authorize, Logout, DeleteMe, IssueTokens
  <2>2. CASE CheckEmail(p) \/ InsertUser(p) \/ CheckPassword(p)
    <3>1. req[p].op # "refresh"
      BY <2>2, SlotFacts DEF SlotInv, CheckEmail, InsertUser, CheckPassword
    <3> QED BY <1>4, <1>5, <2>2, <3>1 DEF CheckEmail, InsertUser, CheckPassword
  <2>3. CASE FindToken(p)
    <3>1. \/ Answer(p, 401)
          \/ Live(req[p].tok) /\ \E u : Continue(p, "expire", u) \/ Continue(p, "rotate", u)
      BY <2>3 DEF FindToken, Rows, GetUserTokenByRefreshToken, Live
    <3> QED BY <1>4, <1>5, <3>1
  <2>4. CASE Rotate(p)
    <3>1. pc[p] = "rotate" => Buying(p)
      BY SlotFacts DEF SlotInv, Buying
    <3> QED BY <1>4, <1>5, <2>4, <3>1 DEF Rotate
  <2> QED BY <1>6, <2>1, <2>2, <2>3, <2>4 DEF Handle
<1>7. CASE Restart
  <2>1. pc'[q] = "idle"
    BY <1>7 DEF Restart
  <2> QED BY <1>1, <2>1
<1>8. CASE (\E g \in cleanup : RunCleanup(g)) \/ Crash \/ Tick \/ UNCHANGED vars
  BY <1>2, <1>7, <1>8 DEF RunCleanup, Crash, Tick, vars
<1> QED BY <1>3, <1>6, <1>8 DEF Next

LEMMA HeirsKept ==
  ASSUME "error" \notin Faults, NEW p, Proc = {p},
         Inv, LogoutInv, Purchases, HeirsInv, [Next]_vars
  PROVE  HeirsInv'
<1>1. Inv' /\ Monotone
  BY NextKeeps
<1>2. /\ None \notin loggedOut
      /\ \A t \in DOMAIN minted : minted[t].parent \in DOMAIN minted \cup {None}
      /\ NoToken(p)
  BY NoneAssumption DEF Inv, TypeOK, RequestsTypeOK, Purchases
<1>3. ASSUME loggedOut' = loggedOut PROVE \A q \in Proc : Buying(q)' => req'[q].tok \notin loggedOut'
  BY <1>3, BuyersFoundItLive DEF HeirsInv, LogoutInv
<1>4. ASSUME loggedOut' = loggedOut, minted' = minted PROVE HeirsInv'
  BY <1>1, <1>3, <1>4 DEF HeirsInv, NoSessionSurvivesLogout, Monotone
<1>5. CASE IssueTokens(p)
  <2>1. ASSUME NEW s \in Pair \ DOMAIN minted, Mint(s, req[p].uid, req[p].tok), loggedOut' = loggedOut
        PROVE  HeirsInv'
    <3>1. PICK t0 : t0 = req[p].tok
      OBVIOUS
    <3>2. /\ DOMAIN minted' = DOMAIN minted \cup {s}
          /\ minted'[s] = [user |-> req[p].uid, parent |-> t0]
          /\ \A a \in DOMAIN minted : minted'[a] = minted[a]
      BY <2>1, <3>1 DEF Mint
    <3>3. \/ t0 = None
          \/ t0 \in DOMAIN minted /\ t0 \notin loggedOut /\ minted[t0].user = req[p].uid
      BY <1>2, <1>5, <3>1, SlotFacts DEF IssueTokens, SlotInv, NoToken, HeirsInv, Buying
    <3>4. NoSessionSurvivesLogout'
      BY <1>1, <1>2, <2>1, <3>2, <3>3 DEF HeirsInv, NoSessionSurvivesLogout, Monotone
    <3>5. \A t \in DOMAIN minted' :
            minted'[t].parent # None => minted'[minted'[t].parent].user = minted'[t].user
      BY <1>2, <3>2, <3>3 DEF HeirsInv
    <3> QED BY <1>3, <2>1, <3>4, <3>5 DEF HeirsInv
  <2> QED BY <1>4, <1>5, <2>1 DEF IssueTokens
<1>6. CASE Logout(p)
  <2>1. /\ minted' = minted
        /\ loggedOut' = loggedOut \cup {t \in DOMAIN tokens : tokens[t].user_id = req[p].uid}
        /\ pc'[p] = "idle"
    BY <1>6 DEF Logout, Answer, Inv, TypeOK, RequestsTypeOK
  <2>2. Deactivate({a \in DOMAIN tokens : tokens[a].user_id = req[p].uid})
    BY <1>6 DEF Logout, Outcome, DeactivateAllUserTokens
  <2>3. \A t \in DOMAIN tokens : tokens[t].user_id = req[p].uid => ~Live(t)'
    BY <2>2 DEF Deactivate, Live, Inv, TypeOK, StoreTypeOK, UserToken
  <2>4. \A t \in DOMAIN tokens : t \in DOMAIN minted /\ tokens[t].user_id = minted[t].user
    BY DEF Inv, StoreInv
  <2>5. ASSUME NEW t \in DOMAIN minted, Live(t)' PROVE minted[t].parent \notin loggedOut'
    <3>1. Live(t)
      BY <1>1, <2>5 DEF Monotone
    <3>2. t \in DOMAIN tokens /\ minted[t].user # req[p].uid
      BY <2>3, <2>4, <2>5, <3>1 DEF Live
    <3>3. minted[t].parent \notin loggedOut
      BY <3>1 DEF HeirsInv, NoSessionSurvivesLogout
    <3>4. minted[t].parent \in DOMAIN tokens => tokens[minted[t].parent].user_id # req[p].uid
      <4>1. CASE minted[t].parent = None
        BY <4>1, <2>4, NoneAssumption DEF Inv, TypeOK, StoreTypeOK
      <4>2. CASE minted[t].parent # None
        BY <4>2, <2>4, <3>2 DEF HeirsInv
      <4> QED BY <4>1, <4>2
    <3> QED BY <2>1, <3>3, <3>4
  <2> QED BY <2>1, <2>5 DEF HeirsInv, NoSessionSurvivesLogout, Buying
<1>7. (loggedOut' = loggedOut /\ minted' = minted) \/ IssueTokens(p) \/ Logout(p)
  BY DEF Next, vars, historyVars, Arrive, Accept, Handle, Authorize, CheckEmail, InsertUser,
         CheckPassword, FindToken, Rotate, DeleteMe, RunCleanup, Restart, Crash, Tick
<1> QED BY <1>4, <1>5, <1>6, <1>7

(* auth.go:147: one request after the other, a logout also ends every      *)
(* session that grew out of the ended ones; one that survives it comes of  *)
(* a refresh that was in flight.                                           *)
THEOREM SequentialLogoutEndsHeirs ==
  ASSUME "error" \notin Faults, NEW p, Proc = {p}
  PROVE  Spec => []NoSessionSurvivesLogout
<1>1. Init => HeirsInv
  BY DEF Init, RequestsInit, HeirsInv, NoSessionSurvivesLogout, Buying
<1>2. Inv /\ LogoutInv /\ Purchases /\ HeirsInv /\ [Next]_vars => HeirsInv'
  BY HeirsKept
<1>3. HeirsInv => NoSessionSurvivesLogout
  BY DEF HeirsInv
<1>4. Spec => []Purchases
  <2>1. IsFiniteSet(Proc)
    BY FS_Singleton
  <2> QED BY <2>1, PurchasesInvariance
<1> QED BY <1>1, <1>2, <1>3, <1>4, Invariance, LogoutInvariance, PTL DEF Spec
=============================================================================
