-------------------------------- MODULE Access --------------------------------
(***************************************************************************)
(* Accounts, restrictions, sessions, pairings and the access mode, as the  *)
(* HTTP handlers change them: AuthService (server/app/services/auth.py),   *)
(* RegistrationService (registration.py), AdminUsersService                *)
(* (admin_users.py), ModeService (mode.py), the bulk deletions of          *)
(* ChatService (chat.py), and the handlers that call them.                 *)
(*                                                                         *)
(* Every handler here runs without awaiting, so a request is one step.     *)
(* Its transactions are several: the one of get_session, which may lift a  *)
(* block, comes first.  A crash between two of them leaves what a shorter  *)
(* request leaves (GetSession, or SetMode for a SetAdminMode cut short),   *)
(* so crashes add no state.  Request tokens of refused requests change     *)
(* nothing and are not steps.                                              *)
(***************************************************************************)
EXTENDS Naturals, FiniteSets

CONSTANTS
  Users,        \* rows of users that exist at one time or another
  Admins,       \* those created directly in the database
  Tokens,       \* bound: sessions valid at one time
  Devices,      \* device ids: of registrations, pairings and the blacklist
  Granted,      \* bound: roles that staff grants, of user, moderator, guest
  NoUser, NoDevice

ASSUME AccessConstants ==
  /\ IsFiniteSet(Users) /\ Admins \subseteq Users
  /\ NoUser \notin Users /\ NoDevice \notin Devices
  /\ Granted \subseteq {"user", "moderator", "guest"}

VARIABLES
  role, status,  \* of users; status "absent" stands for no row
  until,         \* user_restrictions.blocked_until_ms against the clock
  device,        \* users.registration_device_id
  session,       \* unrevoked sessions: user (NoUser: none) and expiry
  mode,          \* mode_state.access_mode
  pairing,       \* device_pairings by device
  blacklist,     \* device_blacklist: who listed the device, or NoUser
  overdue        \* this step refused a device session to a user whose
                 \* temporary block was over

accounts == <<role, status, until, device>>
tables == <<accounts, session, mode, pairing, blacklist>>
vars == <<tables, overdue>>

Staff == {"admin", "moderator"}
Roles == Staff \cup {"user", "guest"}
Existing == {u \in Users : status[u] # "absent"}
NoSession == [user |-> NoUser, expired |-> FALSE]

Init ==
  /\ role = [u \in Users |-> IF u \in Admins THEN "admin" ELSE "user"]
  /\ status = [u \in Users |-> IF u \in Admins THEN "active" ELSE "absent"]
  /\ until = [u \in Users |-> "none"]
  /\ device \in [Users -> Devices \cup {NoDevice}]
  /\ \A u, v \in Users : device[u] # NoDevice => u \in Admins /\ (device[v] = device[u] => v = u)
  /\ session = [t \in Tokens |-> NoSession]
  /\ mode = "closed"
  /\ pairing = [d \in Devices |-> [user |-> NoUser, active |-> FALSE]]
  /\ blacklist = [d \in Devices |-> NoUser]
  /\ overdue = FALSE

-----------------------------------------------------------------------------
(* _refresh_temporary_block_if_needed: the block of u is due to be lifted. *)
Due(u) == status[u] = "blocked" /\ until[u] = "over"

(* can_authenticate, after the refresh. *)
CanAuthenticate(u) == status[u] = "active" \/ Due(u)

(* get_session accepts the token.  Mutant: without can_authenticate. *)
AcceptsToken(t) == session[t].user # NoUser /\ ~session[t].expired
Accepts(t) ==
  /\ session[t].user # NoUser /\ ~session[t].expired
  /\ CanAuthenticate(session[t].user)

(* Status and deadline after authenticating u: a due block is lifted. *)
Lifted(u) == [v \in Users |-> IF v = u /\ Due(v) THEN "active" ELSE status[v]]
LiftedUntil(u) == [v \in Users |-> IF v = u /\ Due(v) THEN "none" ELSE until[v]]
ActorLifted(t) ==
  status' = Lifted(session[t].user) /\ until' = LiftedUntil(session[t].user)

(* The request carries the token of an account with one of these roles. *)
By(t, roles) == Accepts(t) /\ role[session[t].user] \in roles

(* _create_session: t becomes a session of u.  A session that is revoked   *)
(* never comes back, so its token stands for a fresh one.                  *)
Opened(t, u) == [session EXCEPT ![t] = [user |-> u, expired |-> FALSE]]
Unused(t) == session[t].user = NoUser

(* The sessions of users in S are revoked, or deleted in cascade. *)
Ended(S) == [t \in Tokens |-> IF session[t].user \in S THEN NoSession ELSE session[t]]

-----------------------------------------------------------------------------
(* POST /auth/login with the right password. *)
Login(u, t) ==
  /\ u \in Existing /\ CanAuthenticate(u) /\ Unused(t)
  /\ status' = Lifted(u) /\ until' = LiftedUntil(u)
  /\ session' = Opened(t, u)
  /\ UNCHANGED <<role, device, mode, pairing, blacklist>>

(* GET /auth/session, and get_session in every handler that writes none of *)
(* these tables.  (An expired session is marked revoked, but the exception *)
(* raised next rolls that back.)                                           *)
GetSession(t) ==
  /\ Accepts(t)
  /\ ActorLifted(t)
  /\ UNCHANGED <<role, device, session, mode, pairing, blacklist>>

Logout(t) ==
  /\ Accepts(t)
  /\ ActorLifted(t)
  /\ session' = [session EXCEPT ![t] = NoSession]
  /\ UNCHANGED <<role, device, mode, pairing, blacklist>>

(* POST /auth/device-session, login_by_user_id: it lifts no block. *)
DeviceSession(d, t) ==
  /\ pairing[d].active /\ Unused(t)
  /\ status[pairing[d].user] = "active"
  /\ session' = Opened(t, pairing[d].user)
  /\ UNCHANGED <<accounts, mode, pairing, blacklist>>

RefuseDevice(d) ==
  /\ pairing[d].active
  /\ status[pairing[d].user] # "active"
  /\ overdue' = Due(pairing[d].user)
  /\ UNCHANGED tables

(* The device has no account yet.  Mutant: looks at active accounts only. *)
DeviceUnclaimed(d) == \A u \in Users : status[u] = "active" => device[u] # d
DeviceFree(d) == \A u \in Existing : device[u] # d

(* POST /auth/register: the mode is read for the answer only. *)
Register(u, d, t) ==
  /\ u \notin Existing \cup Admins /\ Unused(t)
  /\ blacklist[d] = NoUser /\ DeviceFree(d)
  /\ role' = [role EXCEPT ![u] = "user"]
  /\ status' = [status EXCEPT ![u] = "active"]
  /\ device' = [device EXCEPT ![u] = d]
  /\ session' = Opened(t, u)
  /\ UNCHANGED <<until, mode, pairing, blacklist>>

(* POST /auth/guest from a web client. *)
CreateGuest(u, t) ==
  /\ u \notin Existing \cup Admins /\ Unused(t) /\ mode = "open"
  /\ role' = [role EXCEPT ![u] = "guest"]
  /\ status' = [status EXCEPT ![u] = "active"]
  /\ session' = Opened(t, u)
  /\ UNCHANGED <<until, device, mode, pairing, blacklist>>

-----------------------------------------------------------------------------
(* _ensure_target_allowed.  Mutant: without the look for the account. *)
AllowedUnseen(t, u) == u # session[t].user
Allowed(t, u) == u \in Existing /\ u # session[t].user

(* ban_user: the call that should revoke the sessions of u names a method  *)
(* that AuthService lacks, and the exception is swallowed.                 *)
BanKeepsDeadline(t, u) ==
  /\ By(t, Staff) /\ Allowed(t, u)
  /\ status' = [Lifted(session[t].user) EXCEPT ![u] = "banned"]
  /\ until' = LiftedUntil(session[t].user)
  /\ UNCHANGED <<role, device, session, mode, pairing, blacklist>>
BanUser(t, u) ==
  /\ By(t, Staff) /\ Allowed(t, u)
  /\ status' = [Lifted(session[t].user) EXCEPT ![u] = "banned"]
  /\ until' = [LiftedUntil(session[t].user) EXCEPT ![u] = "none"]
  /\ UNCHANGED <<role, device, session, mode, pairing, blacklist>>

(* temporary_block_user, with the same swallowed exception. *)
TemporaryBlockUser(t, u) ==
  /\ By(t, Staff) /\ Allowed(t, u)
  /\ status' = [Lifted(session[t].user) EXCEPT ![u] = "blocked"]
  /\ until' = [LiftedUntil(session[t].user) EXCEPT ![u] = "pending"]
  /\ UNCHANGED <<role, device, session, mode, pairing, blacklist>>

UnbanUser(t, u) ==
  /\ By(t, Staff) /\ u \in Existing
  /\ status' = [Lifted(session[t].user) EXCEPT ![u] = "active"]
  /\ until' = [LiftedUntil(session[t].user) EXCEPT ![u] = "none"]
  /\ UNCHANGED <<role, device, session, mode, pairing, blacklist>>

(* set_role: moderators may, and the admin role is never granted. *)
SetRole(t, u, r) ==
  /\ By(t, Staff) /\ Allowed(t, u) /\ r \in Granted
  /\ role' = [role EXCEPT ![u] = r]
  /\ ActorLifted(t)
  /\ UNCHANGED <<device, session, mode, pairing, blacklist>>

(* blacklist_device and unblacklist_device, for a device id the request    *)
(* names or the one the target registered with.                            *)
BlacklistDevice(t, d) ==
  /\ By(t, {"admin"})
  /\ blacklist' = [blacklist EXCEPT ![d] = session[t].user]
  /\ ActorLifted(t)
  /\ UNCHANGED <<role, device, session, mode, pairing>>

UnblacklistDevice(t, d) ==
  /\ By(t, {"admin"}) /\ blacklist[d] # NoUser
  /\ blacklist' = [blacklist EXCEPT ![d] = NoUser]
  /\ ActorLifted(t)
  /\ UNCHANGED <<role, device, session, mode, pairing>>

-----------------------------------------------------------------------------
(* Rows of other tables whose foreign key keeps a user from being deleted: *)
(* pairings, revoked ones too (no action), and blacklist entries           *)
(* (restrict).  Mutant: revoked pairings are overlooked.                   *)
InUse(u) == \E d \in Devices : \/ pairing[d].user = u /\ pairing[d].active
                               \/ blacklist[d] = u
Referenced(u) == \E d \in Devices : pairing[d].user = u \/ blacklist[d] = u

(* DELETE FROM users for all of S: sessions and restrictions go along. *)
Deleted(S, now, deadlines) ==
  /\ status' = [u \in Users |-> IF u \in S THEN "absent" ELSE now[u]]
  /\ until' = [u \in Users |-> IF u \in S THEN "none" ELSE deadlines[u]]
  /\ role' = [u \in Users |-> IF u \in S THEN "user" ELSE role[u]]
  /\ device' = [u \in Users |-> IF u \in S THEN NoDevice ELSE device[u]]

(* Who delete_user may delete.  Mutant: without the look at the actor. *)
MayDeleteAny(t, u) ==
  /\ By(t, {"admin"}) /\ u \in Existing
  /\ role[u] = "admin" => Cardinality({v \in Existing : role[v] = "admin"}) > 1
MayDelete(t, u) ==
  /\ By(t, {"admin"}) /\ Allowed(t, u)
  /\ role[u] = "admin" => Cardinality({v \in Existing : role[v] = "admin"}) > 1

DeleteUser(t, u) ==
  /\ MayDelete(t, u) /\ ~Referenced(u)
  /\ Deleted({u}, Lifted(session[t].user), LiftedUntil(session[t].user))
  /\ session' = Ended({u})
  /\ UNCHANGED <<mode, pairing, blacklist>>

(* full_reset: users go before their pairings do, so one pairing or one    *)
(* blacklist entry of a user that is no admin makes it fail as a whole.    *)
FullReset(t) ==
  LET S == {u \in Existing : role[u] # "admin"} IN
  /\ By(t, {"admin"}) /\ \A u \in S : ~Referenced(u)
  /\ Deleted(S, Lifted(session[t].user), LiftedUntil(session[t].user))
  /\ session' = Ended(Users)
  /\ pairing' = [d \in Devices |-> [user |-> NoUser, active |-> FALSE]]
  /\ UNCHANGED <<mode, blacklist>>

(* delete_all_users: everyone but the actor, in the same order. *)
DeleteAllUsers(t) ==
  LET S == Existing \ {session[t].user} IN
  /\ By(t, {"admin"}) /\ \A u \in S : ~Referenced(u)
  /\ Deleted(S, Lifted(session[t].user), LiftedUntil(session[t].user))
  /\ session' = Ended(S)
  /\ UNCHANGED <<mode, pairing, blacklist>>

-----------------------------------------------------------------------------
(* POST /mode *)
SetMode(t, m) ==
  /\ By(t, {"admin"})
  /\ mode' = m
  /\ ActorLifted(t)
  /\ UNCHANGED <<role, device, session, pairing, blacklist>>

(* POST /admin/mode/set: closing also revokes the sessions of all others. *)
SetAdminMode(t, m) ==
  /\ By(t, {"admin"})
  /\ mode' = m
  /\ session' = IF m = "closed" THEN Ended(Users \ {session[t].user})
                                ELSE session
  /\ ActorLifted(t)
  /\ UNCHANGED <<role, device, pairing, blacklist>>

(* switch_mode_by_card: an RFID card instead of a session. *)
SwitchModeByCard(m) ==
  /\ mode' = m
  /\ UNCHANGED <<accounts, session, pairing, blacklist>>

(* POST /devices/api/pair: INSERT OR REPLACE, whoever had the device. *)
PairDevice(t, d) ==
  /\ By(t, Roles \ {"guest"})
  /\ pairing' = [pairing EXCEPT ![d] = [user |-> session[t].user, active |-> TRUE]]
  /\ ActorLifted(t)
  /\ UNCHANGED <<role, device, session, mode, blacklist>>

(* POST /devices/api/unpair, by any user. *)
UnpairDevice(t, d) ==
  /\ Accepts(t)
  /\ pairing' = [pairing EXCEPT ![d].active = FALSE]
  /\ ActorLifted(t)
  /\ UNCHANGED <<role, device, session, mode, blacklist>>

(* Time passes the end of a block, or of a session. *)
BlockEnds(u) ==
  /\ until[u] = "pending"
  /\ until' = [until EXCEPT ![u] = "over"]
  /\ UNCHANGED <<role, status, device, session, mode, pairing, blacklist>>

SessionExpires(t) ==
  /\ session[t].user # NoUser
  /\ session' = [session EXCEPT ![t].expired = TRUE]
  /\ UNCHANGED <<accounts, mode, pairing, blacklist>>

-----------------------------------------------------------------------------
AuthStep(t) ==
  \/ \E u \in Users : Login(u, t) \/ CreateGuest(u, t)
  \/ \E u \in Users, d \in Devices : Register(u, d, t)
  \/ \E d \in Devices : DeviceSession(d, t) \/ PairDevice(t, d) \/ UnpairDevice(t, d)
  \/ GetSession(t) \/ Logout(t) \/ SessionExpires(t)

AdminStep(t) ==
  \/ \E u \in Users : \/ BanUser(t, u) \/ UnbanUser(t, u) \/ TemporaryBlockUser(t, u)
                      \/ DeleteUser(t, u)
                      \/ \E r \in Granted : SetRole(t, u, r)
  \/ \E d \in Devices : BlacklistDevice(t, d) \/ UnblacklistDevice(t, d)
  \/ \E m \in {"open", "closed"} : SetMode(t, m) \/ SetAdminMode(t, m)
  \/ FullReset(t) \/ DeleteAllUsers(t)

OtherStep ==
  \/ \E u \in Users : BlockEnds(u)
  \/ \E m \in {"open", "closed"} : SwitchModeByCard(m)

Next ==
  \/ \E t \in Tokens : AuthStep(t) /\ overdue' = FALSE
  \/ \E t \in Tokens : AdminStep(t) /\ overdue' = FALSE
  \/ OtherStep /\ overdue' = FALSE
  \/ \E d \in Devices : RefuseDevice(d)

Spec == Init /\ [][Next]_vars

-----------------------------------------------------------------------------
(* The columns hold the values that the enumerations in the code allow. *)
TypeOK ==
  /\ role \in [Users -> Roles]
  /\ status \in [Users -> {"absent", "active", "blocked", "banned"}]
  /\ until \in [Users -> {"none", "pending", "over"}]
  /\ device \in [Users -> Devices \cup {NoDevice}]
  /\ session \in [Tokens -> [user : Users \cup {NoUser}, expired : BOOLEAN]]
  /\ mode \in {"open", "closed"}
  /\ pairing \in [Devices -> [user : Users \cup {NoUser}, active : BOOLEAN]]
  /\ blacklist \in [Devices -> Users \cup {NoUser}]
  /\ overdue \in BOOLEAN

(* users.status and user_restrictions agree: a user is blocked exactly     *)
(* while a deadline is stored, so that every block ends by itself and no   *)
(* ban does, in whatever order bans, blocks and their undoing come.        *)
BlockedHasDeadline ==
  \A u \in Users : status[u] = "blocked" <=> until[u] # "none"

(* No two accounts registered with one device: migration 0021 dropped the  *)
(* unique index, and registration alone checks.                            *)
OneAccountPerDevice ==
  \A u, v \in Existing : device[u] = device[v] /\ device[u] # NoDevice => u = v

(* Whatever refers to an account finds it: sessions go with it, and one    *)
(* with a pairing or a blacklist entry is not deleted, although pairing    *)
(* writes through a connection that enforces no foreign key.               *)
ReferencesIntact ==
  /\ \A t \in Tokens : session[t].user \in Existing \cup {NoUser}
  /\ \A d \in Devices : {pairing[d].user, blacklist[d]} \subseteq Existing \cup {NoUser}

(* What the other modules are told of accounts: a role, and whether the    *)
(* account is active, off or absent.  Seen one account at a time, because  *)
(* a request may change several, every request does what People says       *)
(* others may do to an account, or nothing.                                *)
Seen(u) == IF status[u] \in {"blocked", "banned"} THEN "off" ELSE status[u]
Account(u) ==
  INSTANCE People WITH Users <- {u}, Admins <- Admins \cap {u},
                       role <- [v \in {u} |-> role[v]], status <- [v \in {u} |-> Seen(v)]
ImplementsPeople ==
  /\ \A u \in Users : Account(u)!PeopleInit
  /\ [][\A u \in Users : Account(u)!PeopleNext \/ UNCHANGED Account(u)!people]_vars

(* Nobody gets out of a ban or a running block alone, although a ban       *)
(* leaves the sessions of the banned as they were: what ends it is the     *)
(* unban request of another account, which is staff, and not restricted    *)
(* itself.                                                                 *)
OtherStaff(t, u) ==
  LET actor == session[t].user IN
  actor \notin {u, NoUser} /\ CanAuthenticate(actor) /\ role[actor] \in Staff
NoSelfRelease ==
  [][\A u \in Users : status[u] \in {"blocked", "banned"} /\ status'[u] = "active" =>
       Due(u) \/ \E t \in Tokens : OtherStaff(t, u) /\ UnbanUser(t, u)]_vars

(* Deleting an administrator leaves another one who can act: the count in  *)
(* delete_user includes administrators who are banned.                     *)
DeletionKeepsAdmin ==
  [][\A u \in Existing : role[u] = "admin" /\ status'[u] = "absent" =>
       \E v \in Users : status'[v] = "active" /\ role'[v] = "admin"]_vars

(* "Revoke all sessions for banned user" (services/admin_users.py:130) *)
BanEndsSessions ==
  \A t \in Tokens, u \in Users : status[u] = "banned" => session[t].user # u

(* "expired temporary block is lifted automatically on next auth/session   *)
(* check" (server/README.md)                                               *)
ExpiredBlockIsLifted == ~overdue
=============================================================================
