------------------------------ MODULE Sessions ------------------------------
(***************************************************************************)
(* What the API promises about accounts and sessions, without requests,    *)
(* statements, clocks or goroutines.  A token pair is unused, then live    *)
(* for one account for ever, then ended; an account is opened once and     *)
(* closed once.  One step touches one pair, or every session of one        *)
(* account.                                                                *)
(***************************************************************************)
CONSTANTS
  Account,    \* ids an account can be given
  Pair,       \* token pairs
  Nobody      \* owner of an unused pair

VARIABLES
  accounts,   \* accounts that are open
  known,      \* accounts that were ever opened
  session,    \* "unused", "live" or "ended", per pair
  owner       \* account of a pair that was ever live

vars == <<accounts, known, session, owner>>

LiveOf(u) == {t \in Pair : session[t] = "live" /\ owner[t] = u}

Init ==
  /\ accounts = {}
  /\ known = {}
  /\ session = [t \in Pair |-> "unused"]
  /\ owner = [t \in Pair |-> Nobody]

OpenAccount(u) ==
  /\ u \notin known
  /\ accounts' = accounts \cup {u}
  /\ known' = known \cup {u}
  /\ UNCHANGED <<session, owner>>

OpenSession(t, u) ==
  /\ session[t] = "unused" /\ u \in accounts
  /\ session' = [session EXCEPT ![t] = "live"]
  /\ owner' = [owner EXCEPT ![t] = u]
  /\ UNCHANGED <<accounts, known>>

End(S) == session' = [t \in Pair |-> IF t \in S THEN "ended" ELSE session[t]]

EndSession(t) ==
  /\ session[t] = "live"
  /\ End({t})
  /\ UNCHANGED <<accounts, known, owner>>

EndAllSessions(u) ==
  /\ End(LiveOf(u))
  /\ UNCHANGED <<accounts, known, owner>>

CloseAccount(u) ==
  /\ u \in accounts
  /\ accounts' = accounts \ {u}
  /\ End(LiveOf(u))
  /\ UNCHANGED <<known, owner>>

Next ==
  \/ \E u \in Account : OpenAccount(u) \/ EndAllSessions(u) \/ CloseAccount(u)
  \/ \E t \in Pair, u \in Account : OpenSession(t, u)
  \/ \E t \in Pair : EndSession(t)

Spec == Init /\ [][Next]_vars
-----------------------------------------------------------------------------
(* Type invariant: every variable holds a value of its kind. *)
TypeOK ==
  /\ accounts \subseteq known /\ known \subseteq Account
  /\ session \in [Pair -> {"unused", "live", "ended"}]
  /\ owner \in [Pair -> Account \cup {Nobody}]

(* A live session belongs to an open account (the abstract form of the     *)
(* foreign key with ON DELETE CASCADE).                                    *)
LiveNeedsAccount == \A t \in Pair : session[t] = "live" => owner[t] \in accounts

(* Neither a session nor an account comes back, and neither changes hands. *)
NothingReturns ==
  [][/\ \A t \in Pair : session[t] # "unused" =>
          /\ owner'[t] = owner[t]
          /\ session'[t] # "unused"
          /\ session'[t] = "live" => session[t] = "live"
     /\ accounts' \cap known \subseteq accounts]_vars
=============================================================================
