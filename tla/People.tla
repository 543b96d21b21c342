--------------------------------- MODULE People ---------------------------------
(***************************************************************************)
(* The accounts as the components that only consult them see them: a role  *)
(* and a status, which other requests change between any two of theirs.    *)
(* Who may send those requests is in module Access.                        *)
(***************************************************************************)
EXTENDS Naturals

CONSTANTS
  Users, Admins,
  Granted,  \* bound: the roles that staff grants
  NoUser

ASSUME PeopleConstants ==
  /\ Admins \subseteq Users /\ NoUser \notin Users
  /\ Granted \subseteq {"user", "moderator", "guest", "admin"}

VARIABLES role, status  \* of users; status "absent" stands for no row

people == <<role, status>>

PeopleInit ==
  /\ role = [u \in Users |-> IF u \in Admins THEN "admin" ELSE "user"]
  /\ status = [u \in Users |-> IF u \in Admins THEN "active" ELSE "absent"]

Active(u) == status[u] = "active"
IsAdmin(u) == role[u] = "admin"
CanAccessAdminFeatures(u) == Active(u) /\ role[u] \in {"admin", "moderator"}
Exists(u) == u \in Users /\ status[u] # "absent"

Appear(u) ==
  /\ status[u] = "absent" /\ u \notin Admins
  /\ status' = [status EXCEPT ![u] = "active"]
  /\ \E new \in {"user", "guest"} : role' = [role EXCEPT ![u] = new]
BlockOrBan(u) ==
  /\ status[u] # "absent"
  /\ status' = [status EXCEPT ![u] = IF @ = "active" THEN "off" ELSE "active"]
  /\ UNCHANGED role
SetRole(u, new) ==
  /\ status[u] # "absent"
  /\ role' = [role EXCEPT ![u] = new]
  /\ UNCHANGED status
Leave(u) ==
  /\ status[u] # "absent"
  /\ status' = [status EXCEPT ![u] = "absent"]
  /\ role' = [role EXCEPT ![u] = "user"]

PeopleStep ==
  \E u \in Users : Appear(u) \/ BlockOrBan(u) \/ \E new \in Granted : SetRole(u, new)

PeopleNext == PeopleStep \/ \E u \in Users : Leave(u)

PeopleOK ==
  /\ role \in [Users -> {"admin", "moderator", "user", "guest"}]
  /\ status \in [Users -> {"absent", "active", "off"}]
=============================================================================
