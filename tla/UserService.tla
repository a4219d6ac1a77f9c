----------------------------- MODULE UserService ----------------------------
(***************************************************************************)
(* services/users.go as far as accounts and sessions are concerned:        *)
(* DELETE /users/me.                                                       *)
(***************************************************************************)
EXTENDS Requests

(* DeleteMe: deleting no row is not an error. *)
DeleteMe(p) ==
  /\ pc[p] = "handle"
  /\ req[p].op = "delete"
  /\ \E o \in Outcome :
       /\ IF o = "error" THEN UNCHANGED storeVars ELSE DeleteUser(req[p].uid)
       /\ Answer(p, IF o = "ok" THEN 200 ELSE 500)
  /\ UNCHANGED <<now, cleanup, historyVars>>
=============================================================================
