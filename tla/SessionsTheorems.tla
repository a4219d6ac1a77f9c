-------------------------- MODULE SessionsTheorems --------------------------
(***************************************************************************)
(* What module Sessions, the abstract specification of the API's sessions, *)
(* promises.  ApiImplementsSessions (SessionsProofs) makes every statement *)
(* here one about the handlers, read through the mapping of module Api.    *)
(***************************************************************************)
EXTENDS Sessions, TLAPS

LEMMA InitOK == Init => TypeOK /\ LiveNeedsAccount
BY DEF Init, TypeOK, LiveNeedsAccount

LEMMA NextOK == TypeOK /\ LiveNeedsAccount /\ [Next]_vars => TypeOK' /\ LiveNeedsAccount'
<1> SUFFICES ASSUME TypeOK, LiveNeedsAccount, [Next]_vars PROVE TypeOK' /\ LiveNeedsAccount'
  OBVIOUS
<1> USE DEF TypeOK, LiveNeedsAccount
<1>1. ASSUME NEW u \in Account, OpenAccount(u) PROVE TypeOK' /\ LiveNeedsAccount'
  BY <1>1 DEF OpenAccount
<1>2. ASSUME NEW u \in Account, EndAllSessions(u) PROVE TypeOK' /\ LiveNeedsAccount'
  BY <1>2 DEF EndAllSessions, End
<1>3. ASSUME NEW u \in Account, CloseAccount(u) PROVE TypeOK' /\ LiveNeedsAccount'
  BY <1>3 DEF CloseAccount, End, LiveOf
<1>4. ASSUME NEW t \in Pair, NEW u \in Account, OpenSession(t, u)
      PROVE  TypeOK' /\ LiveNeedsAccount'
  BY <1>4 DEF OpenSession
<1>5. ASSUME NEW t \in Pair, EndSession(t) PROVE TypeOK' /\ LiveNeedsAccount'
  BY <1>5 DEF EndSession, End
<1>6. CASE UNCHANGED vars
  BY <1>6 DEF vars
<1> QED BY <1>1, <1>2, <1>3, <1>4, <1>5, <1>6 DEF Next

(* No session is live without its account. *)
THEOREM LiveSessionsHaveAccounts == Spec => [](TypeOK /\ LiveNeedsAccount)
BY InitOK, NextOK, PTL DEF Spec

(* Neither a session nor an account comes back or changes hands. *)
THEOREM NothingComesBack == Spec => NothingReturns
<1>1. TypeOK /\ [Next]_vars =>
        [/\ \A t \in Pair : session[t] # "unused" =>
             /\ owner'[t] = owner[t]
             /\ session'[t] # "unused"
             /\ session'[t] = "live" => session[t] = "live"
         /\ accounts' \cap known \subseteq accounts]_vars
  BY DEF TypeOK, Next, OpenAccount, OpenSession, EndSession, EndAllSessions, CloseAccount, End
<1> QED BY <1>1, LiveSessionsHaveAccounts, PTL DEF Spec, NothingReturns
=============================================================================
