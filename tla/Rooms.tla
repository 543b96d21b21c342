--------------------------------- MODULE Rooms ---------------------------------
(***************************************************************************)
(* Chat rooms and who belongs to them: the tables chats and chat_members   *)
(* as ChatService (server/app/services/chat.py), ChatLimitsService         *)
(* (chat_limits.py) and the handlers of api/chat.py and api/chat_private   *)
(* .py change them, and what deleting or changing an account does to them. *)
(*                                                                         *)
(* Every handler calls one service method, which is one transaction and    *)
(* awaits nothing: a request is one step.  Refused requests change nothing *)
(* and are not steps.  Messages are in module Realtime.                    *)
(***************************************************************************)
EXTENDS Naturals, FiniteSets

CONSTANTS
  Users, Admins,
  Granted,    \* bound: the roles that staff grants
  Codes, NoCode, NoUser,
  MaxCustom,  \* ChatLimitsService.max_user_custom_chats
  MaxRooms    \* bound: room ids given out

ASSUME RoomsConstants ==
  /\ IsFiniteSet(Users) /\ Admins \subseteq Users
  /\ Granted \subseteq {"user", "moderator", "guest"}
  /\ NoUser \notin Users /\ NoCode \notin Codes
  /\ MaxCustom \in Nat /\ MaxRooms \in Nat \ {0}

VARIABLES
  role, status,  \* of users; status "absent" stands for no row
  room,          \* chats, by id
  member,        \* chat_members.role, "none" without a row
  lastId         \* the AUTOINCREMENT counter of chats

vars == <<role, status, room, member, lastId>>

Ids == 1..MaxRooms
Staff == {"admin", "moderator"}
Roles == Staff \cup {"user", "guest"}

(* A row of chats.  pair and made are not columns: the two participants a  *)
(* direct room was created for, and the role its creator then had.         *)
RoomRows == [kind : {"none", "common", "custom"}, owner : Users \cup {NoUser},
             private : BOOLEAN, code : Codes \cup {NoCode},
             pair : SUBSET Users, made : Roles]
NoRoom == [kind |-> "none", owner |-> NoUser, private |-> FALSE, code |-> NoCode,
           pair |-> {}, made |-> "admin"]
General == [kind |-> "common", owner |-> NoUser, private |-> FALSE, code |-> NoCode,
            pair |-> {}, made |-> "admin"]

Init ==
  /\ role = [u \in Users |-> IF u \in Admins THEN "admin" ELSE "user"]
  /\ status = [u \in Users |-> IF u \in Admins THEN "active" ELSE "absent"]
  /\ room = [r \in Ids |-> IF r = 1 THEN General ELSE NoRoom]
  /\ member = [r \in Ids |-> [u \in Users |-> "none"]]
  /\ lastId = 1

-----------------------------------------------------------------------------
(* _require_active_user, _is_admin, _is_owner, and rows of each kind. *)
Active(u) == status[u] = "active"
IsAdmin(u) == role[u] = "admin"
IsOwner(u, r) == member[r][u] = "owner"
Live == {r \in Ids : room[r].kind # "none"}
Custom == {r \in Ids : room[r].kind = "custom"}
Members(r) == {u \in Users : member[r][u] # "none"}

(* _can_access_chat, and the rooms that list_user_chats returns. *)
CanAccess(u, r) ==
  \/ IsAdmin(u)
  \/ room[r].kind = "common"
  \/ room[r].owner = u
  \/ member[r][u] # "none"
Listed(u) ==
  IF IsAdmin(u) THEN Live
  ELSE {r \in Live : room[r].kind = "common" \/ member[r][u] # "none"}

(* INSERT OR IGNORE INTO chat_members: rows that are there stay. *)
Joined(r, S) ==
  [member EXCEPT ![r] = [u \in Users |->
     IF u \in S /\ @[u] = "none" THEN "member" ELSE @[u]]]

(* A new row of chats takes the next id. *)
Insert(row) ==
  /\ lastId < MaxRooms
  /\ lastId' = lastId + 1
  /\ room' = [room EXCEPT ![lastId + 1] = row]

-----------------------------------------------------------------------------
(* evaluate_custom_chat_creation counts every custom room u owns, direct   *)
(* ones included.  Mutant: the limit is off by one.                        *)
OwnedBy(u) == {r \in Custom : room[r].owner = u}
MayCreateOver(u) ==
  /\ Active(u) /\ role[u] # "guest"
  /\ role[u] \in Staff \/ Cardinality(OwnedBy(u)) <= MaxCustom
MayCreate(u) ==
  /\ Active(u) /\ role[u] # "guest"
  /\ role[u] \in Staff \/ Cardinality(OwnedBy(u)) < MaxCustom

NewRoom(u, private, code) ==
  [kind |-> "custom", owner |-> u, private |-> private \/ code # NoCode,
   code |-> code, pair |-> {}, made |-> role[u]]

(* POST /chat/api/chats and /chat/api/private.  Mutant: the creator gets   *)
(* no row of chat_members.                                                 *)
CreateCustomUnlisted(u, private, code) ==
  /\ MayCreate(u)
  /\ Insert(NewRoom(u, private, code))
  /\ UNCHANGED <<role, status, member>>
CreateCustom(u, private, code) ==
  /\ MayCreate(u)
  /\ Insert(NewRoom(u, private, code))
  /\ member' = [member EXCEPT ![lastId + 1][u] = "owner"]
  /\ UNCHANGED <<role, status>>

(* get_or_create_dm: what its query finds, and the room it makes when that *)
(* is nothing.  It asks neither the limit nor the role of its caller.      *)
DirectRooms(u, v) == {r \in Custom : room[r].private /\ {u, v} \subseteq Members(r)}
DirectRoom(u, v) ==
  [kind |-> "custom", owner |-> u, private |-> TRUE, code |-> NoCode,
   pair |-> {u, v}, made |-> role[u]]
CreateDirect(u, v) ==
  /\ u # v /\ Active(u) /\ Active(v)
  /\ DirectRooms(u, v) = {}
  /\ Insert(DirectRoom(u, v))
  /\ member' = Joined(lastId + 1, {u, v})
  /\ UNCHANGED <<role, status>>

AddMember(u, v, r) ==
  /\ Active(u) /\ Active(v) /\ r \in Custom
  /\ IsAdmin(u) \/ IsOwner(u, r)
  /\ member' = Joined(r, {v})
  /\ UNCHANGED <<role, status, room, lastId>>

(* POST members/bulk: add_member for each active account but the caller. *)
BulkAdd(u, r) ==
  /\ Active(u) /\ IsAdmin(u) /\ r \in Custom
  /\ member' = Joined(r, {v \in Users \ {u} : Active(v)})
  /\ UNCHANGED <<role, status, room, lastId>>

(* join_private_chat: only a private room with a code asks for it. *)
Join(u, r, code) ==
  /\ Active(u) /\ r \in Custom
  /\ \/ member[r][u] # "none"
     \/ IsAdmin(u)
     \/ ~room[r].private
     \/ room[r].code \in {NoCode, code}
  /\ member' = Joined(r, {u})
  /\ UNCHANGED <<role, status, room, lastId>>

(* configure_private_room: code and private are what the request says of   *)
(* them, "keep" when it says nothing, NoCode when it clears the code.      *)
(* Mutants: silence is stored as a code, opening a room keeps its code.    *)
NextCodeVerbatim(r, code) == code
NextCode(r, code) == IF code = "keep" THEN room[r].code ELSE code
NextPrivate(r, code, private) ==
  \/ private = "yes"
  \/ private = "keep" /\ (room[r].private \/ NextCode(r, code) # NoCode)
ReconfiguredKeepingCode(r, code, private) ==
  [room[r] EXCEPT !.private = NextPrivate(r, code, private), !.code = NextCode(r, code)]
Reconfigured(r, code, private) ==
  [room[r] EXCEPT !.private = NextPrivate(r, code, private),
                  !.code = IF private = "no" THEN NoCode ELSE NextCode(r, code)]
Configure(u, r, code, private) ==
  /\ Active(u) /\ r \in Custom
  /\ IsAdmin(u) \/ IsOwner(u, r)
  /\ room' = [room EXCEPT ![r] = Reconfigured(r, code, private)]
  /\ UNCHANGED <<role, status, member, lastId>>

-----------------------------------------------------------------------------
(* The rooms of S go, with their members. *)
RoomsGo(S) ==
  /\ room' = [r \in Ids |-> IF r \in S THEN NoRoom ELSE room[r]]
  /\ member' = [r \in Ids |-> IF r \in S THEN [u \in Users |-> "none"] ELSE member[r]]

DeleteChat(u, r) ==
  /\ Active(u) /\ IsAdmin(u) /\ r \in Live
  /\ RoomsGo({r})
  /\ UNCHANGED <<role, status, lastId>>

DeleteAllChats(u) ==
  /\ Active(u) /\ IsAdmin(u)
  /\ RoomsGo(Custom)
  /\ UNCHANGED <<role, status, lastId>>

-----------------------------------------------------------------------------
(* What the accounts' handlers do, whoever may call them (module Access):  *)
(* registration, bans and blocks and their end, roles.  User ids are never *)
(* given out twice: an account that appears again stands for a new one.    *)
Appear(u) ==
  /\ status[u] = "absent" /\ u \notin Admins
  /\ status' = [status EXCEPT ![u] = "active"]
  /\ \E new \in {"user", "guest"} : role' = [role EXCEPT ![u] = new]
  /\ UNCHANGED <<room, member, lastId>>

Suspend(u) ==
  /\ Active(u) /\ status' = [status EXCEPT ![u] = "off"]
  /\ UNCHANGED <<role, room, member, lastId>>

Release(u) ==
  /\ status[u] = "off" /\ status' = [status EXCEPT ![u] = "active"]
  /\ UNCHANGED <<role, room, member, lastId>>

SetRole(u, new) ==
  /\ status[u] # "absent" /\ role' = [role EXCEPT ![u] = new]
  /\ UNCHANGED <<status, room, member, lastId>>

(* The rows of S go: chats.owner_user_id is ON DELETE SET NULL, the rows   *)
(* of chat_members ON DELETE CASCADE.  Mutant: the owner's id stays.       *)
OwnersLeaveIds(S) == room
OwnersLeave(S) == [r \in Ids |-> [room[r] EXCEPT !.owner = IF @ \in S THEN NoUser ELSE @]]
UsersGo(S) ==
  /\ status' = [u \in Users |-> IF u \in S THEN "absent" ELSE status[u]]
  /\ room' = OwnersLeave(S)
  /\ member' = [r \in Ids |-> [u \in Users |-> IF u \in S THEN "none" ELSE member[r][u]]]
  /\ UNCHANGED <<role, lastId>>

(* delete_user, whoever calls it, and delete_all_users: all but the caller.*)
DeleteUser(u) == status[u] # "absent" /\ UsersGo({u})
DeleteAllUsers(u) == Active(u) /\ IsAdmin(u) /\ UsersGo(Users \ {u})

(* full_reset: all custom rooms, all that are not private, and every       *)
(* account that is no admin's.                                             *)
FullReset(u) ==
  /\ Active(u) /\ IsAdmin(u)
  /\ RoomsGo({r \in Live : ~room[r].private \/ r \in Custom})
  /\ status' = [v \in Users |-> IF IsAdmin(v) THEN status[v] ELSE "absent"]
  /\ UNCHANGED <<role, lastId>>

(* A start of the server: ensure_default_common_chat. *)
Restart ==
  /\ \A r \in Ids : room[r].kind # "common"
  /\ Insert(General)
  /\ UNCHANGED <<role, status, member>>

-----------------------------------------------------------------------------
RoomStep(u, r) ==
  \/ \E v \in Users : AddMember(u, v, r)
  \/ BulkAdd(u, r)
  \/ \E code \in Codes \cup {NoCode} : Join(u, r, code)
  \/ \E code \in Codes \cup {NoCode, "keep"}, private \in {"keep", "yes", "no"} :
       Configure(u, r, code, private)
  \/ DeleteChat(u, r)

ChatStep(u) ==
  \/ CreateCustom(u, FALSE, NoCode)
  \/ \E code \in Codes \cup {NoCode} : CreateCustom(u, TRUE, code)
  \/ \E v \in Users : CreateDirect(u, v)
  \/ DeleteAllChats(u) \/ DeleteAllUsers(u) \/ FullReset(u)
  \/ \E r \in Ids : RoomStep(u, r)

AccountStep(u) ==
  \/ Appear(u) \/ Suspend(u) \/ Release(u) \/ DeleteUser(u)
  \/ \E new \in Granted : SetRole(u, new)

Next == Restart \/ \E u \in Users : ChatStep(u) \/ AccountStep(u)

Spec == Init /\ [][Next]_vars

-----------------------------------------------------------------------------
(* The types of the tables; ids above the counter have no row. *)
TypeOK ==
  /\ role \in [Users -> Roles]
  /\ status \in [Users -> {"absent", "active", "off"}]
  /\ room \in [Ids -> RoomRows]
  /\ member \in [Ids -> [Users -> {"none", "owner", "member"}]]
  /\ lastId \in Ids
  /\ \A r \in Ids : r > lastId => room[r] = NoRoom

(* The two tables name the same owner: chats.owner_user_id, which gives    *)
(* access, and the owner row of chat_members, which gives the right to     *)
(* add members and to configure.  Direct rooms have an owner_user_id only. *)
OwnersAgree ==
  \A r \in Ids, u \in Users :
    /\ member[r][u] = "owner" => room[r].owner = u
    /\ room[r].owner = u /\ room[r].pair = {} => member[r][u] = "owner"

(* What list_user_chats shows an account is what _can_access_chat lets it  *)
(* into, although one asks chat_members only and the other also the owner. *)
ListMatchesAccess ==
  \A u \in Users : status[u] # "absent" =>
    Listed(u) = {r \in Live : CanAccess(u, r)}

(* A room with a code is private: join_private_chat asks for the code of   *)
(* private rooms only, so a code on another room would guard nothing.      *)
CodeGuards == \A r \in Ids : room[r].code # NoCode => room[r].private

(* README.md, "user: up to 5 custom chats", of the rooms created through   *)
(* create_custom_chat by an account that was a plain user then.            *)
RoomLimit ==
  \A u \in Users :
    Cardinality({r \in OwnedBy(u) : room[r].pair = {} /\ room[r].made = "user"}) <= MaxCustom

(* The rooms that get_or_create_dm takes for the "existing 1-on-1 chat" of *)
(* two accounts (its comment) have these two members and no other.         *)
DirectIsForTwo ==
  \A u, v \in Users : u # v => \A r \in DirectRooms(u, v) : Members(r) = {u, v}
=============================================================================
