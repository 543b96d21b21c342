------------------------------ MODULE RoomsProofs ------------------------------
(***************************************************************************)
(* Proofs about Rooms, for any finite set of accounts, any codes, any      *)
(* limit and any number of rooms.                                          *)
(***************************************************************************)
EXTENDS Rooms, FiniteSetTheorems, TLAPS

(* A room that is gone, or not there yet, has no members; and the owner of *)
(* any room, a direct one too, is among its members.                       *)
EmptyIfGone == \A r \in Ids, u \in Users : room[r].kind = "none" => member[r][u] = "none"
OwnerIsMember == \A r \in Ids, u \in Users : room[r].owner = u => member[r][u] # "none"

IInv == TypeOK /\ OwnersAgree /\ EmptyIfGone /\ OwnerIsMember

(* The rooms that RoomLimit counts. *)
Counted(u) == {r \in OwnedBy(u) : room[r].pair = {} /\ room[r].made = "user"}

(* What a step that creates no custom room may do to a row of chats: it    *)
(* goes, or keeps its kind, pair and made, and at most loses its owner.    *)
RowsKept ==
  \A r \in Ids : \/ room'[r].kind # "custom"
                 \/ room'[r].pair # {}
                 \/ /\ room[r].kind = "custom"
                    /\ room'[r].owner \in {room[r].owner, NoUser}
                    /\ room'[r].pair = room[r].pair
                    /\ room'[r].made = room[r].made

-----------------------------------------------------------------------------
LEMMA RowTypes ==
  /\ NoRoom \in RoomRows /\ General \in RoomRows
  /\ role \in [Users -> Roles] => \A u, v \in Users, p \in BOOLEAN, c \in Codes \cup {NoCode} :
       NewRoom(u, p, c) \in RoomRows /\ DirectRoom(u, v) \in RoomRows
  BY DEF NoRoom, General, NewRoom, DirectRoom, RoomRows, Roles, Staff

(* Configure changes two columns of a row, UsersGo one. *)
LEMMA OwnerOnly ==
  ASSUME NEW x \in RoomRows, NEW o
  PROVE  [x EXCEPT !.owner = o] =
           [kind |-> x.kind, owner |-> o, private |-> x.private, code |-> x.code,
            pair |-> x.pair, made |-> x.made]
  BY DEF RoomRows

LEMMA PrivateOnly ==
  ASSUME NEW x \in RoomRows, NEW b \in BOOLEAN
  PROVE  [x EXCEPT !.private = b] =
           [kind |-> x.kind, owner |-> x.owner, private |-> b, code |-> x.code,
            pair |-> x.pair, made |-> x.made]
  BY DEF RoomRows

LEMMA CodeOnly ==
  ASSUME NEW x \in RoomRows, NEW c
  PROVE  [x EXCEPT !.code = c] =
           [kind |-> x.kind, owner |-> x.owner, private |-> x.private, code |-> c,
            pair |-> x.pair, made |-> x.made]
  BY DEF RoomRows

LEMMA ConfiguredRow ==
  ASSUME TypeOK, NEW r \in Ids, NEW c, NEW p
  PROVE  Reconfigured(r, c, p) =
           [kind |-> room[r].kind, owner |-> room[r].owner,
            private |-> NextPrivate(r, c, p),
            code |-> IF p = "no" THEN NoCode ELSE NextCode(r, c),
            pair |-> room[r].pair, made |-> room[r].made]
<1> DEFINE b == NextPrivate(r, c, p)
           d == IF p = "no" THEN NoCode ELSE NextCode(r, c)
           y == [room[r] EXCEPT !.private = b]
           z == [kind |-> room[r].kind, owner |-> room[r].owner, private |-> b,
                 code |-> room[r].code, pair |-> room[r].pair, made |-> room[r].made]
<1>1. room[r] \in RoomRows /\ b \in BOOLEAN
  BY DEF TypeOK, NextPrivate
<1>2. y = z
  <2> HIDE DEF b
  <2> QED BY <1>1, PrivateOnly, Zenon
<1>3. z \in RoomRows
  <2> HIDE DEF b
  <2> QED BY <1>1 DEF RoomRows
<1>4. [z EXCEPT !.code = d] =
        [kind |-> z.kind, owner |-> z.owner, private |-> z.private, code |-> d,
         pair |-> z.pair, made |-> z.made]
  <2> HIDE DEF z, d
  <2> QED BY <1>3, CodeOnly, Zenon
<1>5. Reconfigured(r, c, p) = [y EXCEPT !.code = d]
  BY Zenon DEF Reconfigured
<1> HIDE DEF b, d, y
<1> QED BY <1>2, <1>4, <1>5 DEF b, d

LEMMA OwnerlessRow ==
  ASSUME TypeOK, NEW S, NEW r \in Ids, NEW z, z = OwnersLeave(S)[r]
  PROVE  /\ z \in RoomRows
         /\ z.owner = IF room[r].owner \in S THEN NoUser ELSE room[r].owner
         /\ z.kind = room[r].kind /\ z.pair = room[r].pair /\ z.made = room[r].made
         /\ z.private = room[r].private /\ z.code = room[r].code
<1> DEFINE o == IF room[r].owner \in S THEN NoUser ELSE room[r].owner
<1>1. room[r] \in RoomRows
  BY DEF TypeOK
<1>2. z = [room[r] EXCEPT !.owner = o]
  BY Zenon DEF OwnersLeave
<1>3. o \in Users \cup {NoUser}
  BY <1>1 DEF RoomRows
<1> HIDE DEF o
<1>4. z = [kind |-> room[r].kind, owner |-> o, private |-> room[r].private,
           code |-> room[r].code, pair |-> room[r].pair, made |-> room[r].made]
  BY <1>1, <1>2, OwnerOnly, Zenon
<1> QED BY <1>1, <1>3, <1>4 DEF o, RoomRows

LEMMA TypeInit == ASSUME Init PROVE TypeOK
  BY RoomsConstants, RowTypes DEF Init, TypeOK, RoomsConstants, Ids, Roles, Staff

LEMMA InsertType ==
  ASSUME TypeOK, NEW row \in RoomRows, Insert(row)
  PROVE  /\ room' \in [Ids -> RoomRows] /\ lastId' \in Ids
         /\ \A r \in Ids : r > lastId' => room'[r] = NoRoom
  BY RoomsConstants DEF RoomsConstants, TypeOK, Insert, Ids

LEMMA TypeStep == ASSUME TypeOK, [Next]_vars PROVE TypeOK'
<1> USE RoomsConstants DEF RoomsConstants, Ids
<1>1. ASSUME NEW u \in Users, NEW p \in BOOLEAN, NEW c \in Codes \cup {NoCode},
             CreateCustom(u, p, c)
      PROVE TypeOK'
  <2>1. NewRoom(u, p, c) \in RoomRows
    BY RowTypes DEF TypeOK
  <2>2. lastId + 1 \in Ids
    BY <1>1 DEF TypeOK, CreateCustom, Insert
  <2> QED BY <1>1, <2>1, <2>2, InsertType DEF TypeOK, CreateCustom
<1>2. ASSUME NEW u \in Users, NEW v \in Users, CreateDirect(u, v) PROVE TypeOK'
  <2>1. DirectRoom(u, v) \in RoomRows
    BY RowTypes DEF TypeOK
  <2>2. member' \in [Ids -> [Users -> {"none", "owner", "member"}]]
    BY <1>2 DEF TypeOK, CreateDirect, Joined
  <2> QED BY <1>2, <2>1, <2>2, InsertType DEF TypeOK, CreateDirect
<1>3. ASSUME NEW r \in Ids, NEW S, member' = Joined(r, S),
             UNCHANGED <<role, status, room, lastId>>
      PROVE TypeOK'
  BY <1>3 DEF TypeOK, Joined
<1>4. ASSUME NEW u \in Users, NEW r \in Ids, NEW c \in Codes \cup {NoCode, "keep"},
             NEW p \in {"keep", "yes", "no"}, Configure(u, r, c, p)
      PROVE TypeOK'
  <2>1. NextCode(r, c) \in Codes \cup {NoCode}
    BY DEF TypeOK, RoomRows, NextCode
  <2>2. Reconfigured(r, c, p) \in RoomRows
    <3>1. NextPrivate(r, c, p) \in BOOLEAN
      BY DEF NextPrivate
    <3> HIDE DEF Ids
    <3> QED BY <2>1, <3>1, ConfiguredRow DEF TypeOK, RoomRows
  <2>3. room[r].kind = "custom" => r <= lastId
    BY DEF TypeOK, NoRoom
  <2> QED BY <1>4, <2>2, <2>3 DEF TypeOK, Configure, Custom
<1>5. ASSUME NEW S, RoomsGo(S), lastId' = lastId, role' = role,
             status' \in [Users -> {"absent", "active", "off"}]
      PROVE TypeOK'
  BY <1>5, RowTypes DEF TypeOK, RoomsGo
<1>10. ASSUME NEW S, UsersGo(S) PROVE TypeOK'
  <2>1. \A r \in Ids : OwnersLeave(S)[r] \in RoomRows
    BY OwnerlessRow
  <2>2. ASSUME NEW r \in Ids, room[r] = NoRoom PROVE OwnersLeave(S)[r] = NoRoom
    <3> DEFINE z == OwnersLeave(S)[r]
    <3>1. /\ z \in RoomRows /\ z.owner = NoUser /\ z.kind = "none" /\ z.pair = {}
          /\ z.made = "admin" /\ z.private = FALSE /\ z.code = NoCode
      BY <2>2, OwnerlessRow DEF NoRoom
    <3> HIDE DEF z
    <3>2. z = NoRoom
      BY <3>1 DEF RoomRows, NoRoom
    <3> QED BY <3>2 DEF z
  <2>3. OwnersLeave(S) \in [Ids -> RoomRows]
    BY <2>1 DEF OwnersLeave
  <2> QED BY <1>10, <2>2, <2>3 DEF TypeOK, UsersGo
<1>6. ASSUME NEW u \in Users, AccountStep(u) PROVE TypeOK'
  <2>1. CASE DeleteUser(u)
    BY <2>1, <1>10 DEF DeleteUser
  <2>2. CASE Appear(u)
    BY <2>2 DEF TypeOK, Appear, Roles
  <2>3. CASE Suspend(u) \/ Release(u)
    BY <2>3 DEF TypeOK, Suspend, Release
  <2>4. ASSUME NEW new \in Granted, SetRole(u, new) PROVE TypeOK'
    BY <2>4 DEF TypeOK, SetRole, Roles, Staff
  <2> QED BY <1>6, <2>1, <2>2, <2>3, <2>4 DEF AccountStep
<1>7. CASE Restart
  BY <1>7, RowTypes, InsertType DEF TypeOK, Restart
<1>8. CASE UNCHANGED vars
  BY <1>8 DEF TypeOK, vars
<1>9. ASSUME NEW u \in Users, NEW r \in Ids, RoomStep(u, r) PROVE TypeOK'
  <2>1. CASE DeleteChat(u, r)
    BY <2>1, <1>5 DEF DeleteChat, TypeOK
  <2>2. ASSUME NEW v \in Users, AddMember(u, v, r) PROVE TypeOK'
    BY <2>2, <1>3 DEF AddMember
  <2>3. CASE BulkAdd(u, r)
    BY <2>3, <1>3 DEF BulkAdd
  <2>4. ASSUME NEW c, Join(u, r, c) PROVE TypeOK'
    BY <2>4, <1>3 DEF Join
  <2> QED BY <1>4, <1>9, <2>1, <2>2, <2>3, <2>4 DEF RoomStep
<1>11. ASSUME NEW u \in Users, ChatStep(u) PROVE TypeOK'
  <2>1. CASE DeleteAllChats(u)
    BY <2>1, <1>5 DEF DeleteAllChats, TypeOK
  <2>2. CASE FullReset(u)
    BY <2>2, <1>5 DEF FullReset, TypeOK
  <2>3. CASE DeleteAllUsers(u)
    BY <2>3, <1>10 DEF DeleteAllUsers
  <2>4. CASE CreateCustom(u, FALSE, NoCode)
    BY <2>4, <1>1
  <2>5. ASSUME NEW c \in Codes \cup {NoCode}, CreateCustom(u, TRUE, c) PROVE TypeOK'
    BY <2>5, <1>1
  <2> QED BY <1>2, <1>9, <1>11, <2>1, <2>2, <2>3, <2>4, <2>5 DEF ChatStep
<1> QED BY <1>6, <1>7, <1>8, <1>11 DEF Next

(* Every behaviour of Rooms keeps the types of its tables. *)
THEOREM TypeCorrect == Spec => []TypeOK
<1>1. Init => TypeOK BY TypeInit
<1>2. TypeOK /\ [Next]_vars => TypeOK' BY TypeStep
<1> QED BY <1>1, <1>2, PTL DEF Spec


-----------------------------------------------------------------------------
(* Owners and members, row by row. *)
Sound(r, u) ==
  /\ member[r][u] = "owner" => room[r].owner = u
  /\ room[r].owner = u /\ room[r].pair = {} => member[r][u] = "owner"
  /\ room[r].kind = "none" => member[r][u] = "none"
  /\ room[r].owner = u => member[r][u] # "none"

LEMMA IInvBySound == IInv <=> TypeOK /\ \A r \in Ids, u \in Users : Sound(r, u)
  BY DEF IInv, OwnersAgree, EmptyIfGone, OwnerIsMember, Sound

LEMMA InitSound == ASSUME Init PROVE IInv
<1>1. TypeOK
  BY TypeInit
<1>2. ASSUME NEW r \in Ids, NEW u \in Users PROVE Sound(r, u)
  <2>1. member[r][u] = "none" /\ room[r].owner = NoUser
    BY DEF Init, General, NoRoom, Ids
  <2> QED BY <2>1, RoomsConstants DEF Sound, RoomsConstants
<1> QED BY <1>1, <1>2, IInvBySound

(* The id that the next room gets belongs to no room and has no members. *)
LEMMA NextRowIsFree ==
  ASSUME IInv, NEW row, Insert(row)
  PROVE  /\ lastId + 1 \in Ids
         /\ \A u \in Users : member[lastId + 1][u] = "none"
         /\ room'[lastId + 1] = row
         /\ \A r \in Ids : r # lastId + 1 => room'[r] = room[r]
         /\ room[lastId + 1].kind = "none"
<1>1. lastId + 1 \in Ids /\ lastId + 1 > lastId
  BY RoomsConstants DEF IInv, TypeOK, Insert, Ids, RoomsConstants
<1>2. room[lastId + 1].kind = "none"
  BY <1>1 DEF IInv, TypeOK, NoRoom
<1> QED BY <1>1, <1>2 DEF IInv, EmptyIfGone, TypeOK, Insert

LEMMA SoundStep == ASSUME IInv, [Next]_vars PROVE IInv'
<1> USE RoomsConstants DEF RoomsConstants
<1> SUFFICES ASSUME NEW r \in Ids, NEW w \in Users PROVE Sound(r, w)'
  <2>1. TypeOK'
    BY TypeStep DEF IInv
  <2> QED BY <2>1 DEF IInv, OwnersAgree, EmptyIfGone, OwnerIsMember, Sound
<1>0. TypeOK /\ Sound(r, w)
  BY IInvBySound
<1>1. ASSUME NEW u \in Users, NEW p \in BOOLEAN, NEW c \in Codes \cup {NoCode},
             CreateCustom(u, p, c)
      PROVE Sound(r, w)'
  <2>1. Insert(NewRoom(u, p, c))
    BY <1>1 DEF CreateCustom
  <2>2. CASE r = lastId + 1
    <3>1. room'[r].owner = u /\ room'[r].kind = "custom"
      BY <2>1, <2>2, NextRowIsFree DEF NewRoom
    <3>2. member'[r][w] = IF w = u THEN "owner" ELSE "none"
      BY <1>1, <2>1, <2>2, <1>0, NextRowIsFree DEF CreateCustom, TypeOK
    <3> QED BY <3>1, <3>2 DEF Sound
  <2>3. CASE r # lastId + 1
    <3>1. room'[r] = room[r] /\ member'[r] = member[r]
      BY <1>1, <2>1, <2>3, <1>0, NextRowIsFree DEF CreateCustom, TypeOK
    <3> QED BY <1>0, <3>1 DEF Sound
  <2> QED BY <2>2, <2>3
<1>2. ASSUME NEW u \in Users, NEW v \in Users, CreateDirect(u, v) PROVE Sound(r, w)'
  <2>1. Insert(DirectRoom(u, v))
    BY <1>2 DEF CreateDirect
  <2>2. CASE r = lastId + 1
    <3>1. room'[r].owner = u /\ room'[r].kind = "custom" /\ u \in room'[r].pair
      BY <2>1, <2>2, NextRowIsFree DEF DirectRoom
    <3>2. member'[r][w] = IF w \in {u, v} THEN "member" ELSE "none"
      BY <1>2, <2>1, <2>2, <1>0, NextRowIsFree DEF CreateDirect, Joined, TypeOK
    <3> QED BY <3>1, <3>2 DEF Sound
  <2>3. CASE r # lastId + 1
    <3>1. room'[r] = room[r] /\ member'[r] = member[r]
      BY <1>2, <2>1, <2>3, <1>0, NextRowIsFree DEF CreateDirect, Joined, TypeOK
    <3> QED BY <1>0, <3>1 DEF Sound
  <2> QED BY <2>2, <2>3
<1>3. ASSUME NEW q \in Custom, NEW S, member' = Joined(q, S), room' = room
      PROVE Sound(r, w)'
  <2>1. CASE r = q
    <3>1. room[r].kind = "custom"
      BY <1>3, <2>1 DEF Custom
    <3>2. member'[r][w] = IF w \in S /\ member[r][w] = "none" THEN "member" ELSE member[r][w]
      BY <1>0, <1>3, <2>1 DEF TypeOK, Joined
    <3> QED BY <1>0, <1>3, <3>1, <3>2 DEF Sound
  <2>2. CASE r # q
    BY <1>0, <1>3, <2>2 DEF TypeOK, Joined, Sound
  <2> QED BY <2>1, <2>2
<1>4. ASSUME NEW u \in Users, NEW q \in Ids, NEW c \in Codes \cup {NoCode, "keep"},
             NEW p \in {"keep", "yes", "no"}, Configure(u, q, c, p)
      PROVE Sound(r, w)'
  <2>1. /\ room'[r].kind = room[r].kind /\ room'[r].owner = room[r].owner
        /\ room'[r].pair = room[r].pair
    BY <1>0, <1>4, ConfiguredRow DEF Configure, TypeOK
  <2> QED BY <1>0, <1>4, <2>1 DEF Sound, Configure
<1>5. ASSUME NEW S, RoomsGo(S) PROVE Sound(r, w)'
  <2>1. CASE r \in S
    BY <1>0, <1>5, <2>1 DEF TypeOK, RoomsGo, Sound, NoRoom
  <2>2. CASE r \notin S
    BY <1>0, <1>5, <2>2 DEF TypeOK, RoomsGo, Sound
  <2> QED BY <2>1, <2>2
<1>10. ASSUME NEW S, UsersGo(S) PROVE Sound(r, w)'
  <2>1. /\ room'[r].kind = room[r].kind /\ room'[r].pair = room[r].pair
        /\ room'[r].owner = IF room[r].owner \in S THEN NoUser ELSE room[r].owner
    <3>1. room'[r] = OwnersLeave(S)[r]
      BY <1>10 DEF UsersGo
    <3> QED BY <1>0, <3>1, OwnerlessRow
  <2>2. member'[r][w] = IF w \in S THEN "none" ELSE member[r][w]
    BY <1>0, <1>10 DEF UsersGo, TypeOK
  <2> QED BY <1>0, <2>1, <2>2 DEF Sound
<1>6. ASSUME NEW u \in Users, AccountStep(u) PROVE Sound(r, w)'
  <2>1. CASE DeleteUser(u)
    BY <2>1, <1>10 DEF DeleteUser
  <2>2. CASE UNCHANGED <<room, member>>
    BY <1>0, <2>2 DEF Sound
  <2> QED BY <1>6, <2>1, <2>2 DEF AccountStep, Appear, Suspend, Release, SetRole
<1>7. CASE Restart
  <2>1. Insert(General) /\ member' = member
    BY <1>7 DEF Restart
  <2>2. CASE r = lastId + 1
    <3>1. room'[r] = General /\ member'[r][w] = "none"
      BY <2>1, <2>2, NextRowIsFree
    <3> QED BY <3>1 DEF Sound, General
  <2>3. CASE r # lastId + 1
    <3>1. room'[r] = room[r]
      BY <2>1, <2>3, NextRowIsFree
    <3> QED BY <1>0, <2>1, <3>1 DEF Sound
  <2> QED BY <2>2, <2>3
<1>8. CASE UNCHANGED vars
  BY <1>0, <1>8 DEF Sound, vars
<1>9. ASSUME NEW u \in Users, NEW q \in Ids, RoomStep(u, q) PROVE Sound(r, w)'
  <2>1. CASE DeleteChat(u, q)
    BY <2>1, <1>5 DEF DeleteChat
  <2>2. ASSUME NEW v \in Users, AddMember(u, v, q) PROVE Sound(r, w)'
    BY <2>2, <1>3 DEF AddMember
  <2>3. CASE BulkAdd(u, q)
    BY <2>3, <1>3 DEF BulkAdd
  <2>4. ASSUME NEW c, Join(u, q, c) PROVE Sound(r, w)'
    BY <2>4, <1>3 DEF Join
  <2> QED BY <1>4, <1>9, <2>1, <2>2, <2>3, <2>4 DEF RoomStep
<1>11. ASSUME NEW u \in Users, ChatStep(u) PROVE Sound(r, w)'
  <2>1. CASE DeleteAllChats(u)
    BY <2>1, <1>5 DEF DeleteAllChats
  <2>2. CASE FullReset(u)
    BY <2>2, <1>5 DEF FullReset
  <2>3. CASE DeleteAllUsers(u)
    BY <2>3, <1>10 DEF DeleteAllUsers
  <2>4. CASE CreateCustom(u, FALSE, NoCode)
    BY <2>4, <1>1
  <2>5. ASSUME NEW c \in Codes \cup {NoCode}, CreateCustom(u, TRUE, c) PROVE Sound(r, w)'
    BY <2>5, <1>1
  <2> QED BY <1>2, <1>9, <1>11, <2>1, <2>2, <2>3, <2>4, <2>5 DEF ChatStep
<1> QED BY <1>6, <1>7, <1>8, <1>11 DEF Next

(* Every behaviour keeps the inductive invariant: the two tables name the   *)
(* same owner, an owner is a member, and no member belongs to a room that  *)
(* is gone, although the foreign keys of both tables act on every deletion. *)
THEOREM OwnersCorrect == Spec => [](OwnersAgree /\ IInv)
<1>1. Init => IInv BY InitSound
<1>2. IInv /\ [Next]_vars => IInv' BY SoundStep
<1>3. IInv => OwnersAgree BY DEF IInv
<1> QED BY <1>1, <1>2, <1>3, PTL DEF Spec

(* list_user_chats shows an account the rooms that _can_access_chat lets   *)
(* it into: an owner is a member, so that the two conditions agree.        *)
LEMMA OwnersAreListed == ASSUME IInv PROVE ListMatchesAccess
<1> SUFFICES ASSUME NEW u \in Users, NEW r \in Live
             PROVE r \in Listed(u) <=> CanAccess(u, r)
  BY DEF ListMatchesAccess, Listed, Live
<1>1. room[r].owner = u => member[r][u] # "none"
  BY DEF IInv, OwnerIsMember, Live
<1> QED BY <1>1 DEF Listed, CanAccess

THEOREM ListCorrect == Spec => []ListMatchesAccess
<1>1. IInv => ListMatchesAccess BY OwnersAreListed
<1> QED BY <1>1, OwnersCorrect, PTL

-----------------------------------------------------------------------------
LEMMA CodeStep == ASSUME IInv, CodeGuards, [Next]_vars PROVE CodeGuards'
<1> SUFFICES ASSUME NEW r \in Ids, room'[r].code # NoCode PROVE room'[r].private
  BY DEF CodeGuards
<1>0. TypeOK /\ (room[r].code # NoCode => room[r].private)
  BY DEF IInv, CodeGuards
<1>1. CASE room'[r] = room[r]
  BY <1>0, <1>1
<1>2. ASSUME NEW row, Insert(row), row.code # NoCode => row.private
      PROVE room'[r].private
  BY <1>0, <1>2, NextRowIsFree
<1>3. ASSUME NEW S, RoomsGo(S) PROVE room'[r].private
  BY <1>0, <1>3 DEF RoomsGo, NoRoom
<1>4. ASSUME NEW u \in Users, NEW p \in BOOLEAN, NEW c \in Codes \cup {NoCode},
             CreateCustom(u, p, c)
      PROVE room'[r].private
  BY <1>2, <1>4 DEF CreateCustom, NewRoom
<1>5. ASSUME NEW u \in Users, NEW v \in Users, CreateDirect(u, v)
      PROVE room'[r].private
  BY <1>2, <1>5 DEF CreateDirect, DirectRoom
<1>6. ASSUME NEW u \in Users, NEW q \in Ids, NEW c \in Codes \cup {NoCode, "keep"},
             NEW p \in {"keep", "yes", "no"}, Configure(u, q, c, p)
      PROVE room'[r].private
  <2>1. CASE q = r
    <3>1. room'[r] = Reconfigured(r, c, p)
      BY <1>0, <1>6, <2>1 DEF Configure, TypeOK
    <3>2. /\ room'[r].private = NextPrivate(r, c, p)
          /\ room'[r].code = IF p = "no" THEN NoCode ELSE NextCode(r, c)
      BY <1>0, <3>1, ConfiguredRow
    <3> QED BY <1>6, <3>2 DEF NextPrivate
  <2>2. CASE q # r
    BY <1>0, <1>1, <1>6, <2>2 DEF Configure, TypeOK
  <2> QED BY <2>1, <2>2
<1>7. ASSUME NEW S, UsersGo(S) PROVE room'[r].private
  <2>1. room'[r] = OwnersLeave(S)[r]
    BY <1>7 DEF UsersGo
  <2> QED BY <1>0, <2>1, OwnerlessRow
<1>8. CASE Restart
  BY <1>2, <1>8 DEF Restart, General
<1> QED BY <1>1, <1>3, <1>4, <1>5, <1>6, <1>7, <1>8
  DEF Next, vars, ChatStep, RoomStep, AccountStep, DeleteAllChats, DeleteUser, DeleteAllUsers, FullReset, DeleteChat, AddMember,
      BulkAdd, Join, Appear, Suspend, Release, SetRole

(* Whatever creates, opens, closes or reconfigures a room, a code is never *)
(* left on a room that join_private_chat lets anybody into.                *)
THEOREM CodeCorrect == Spec => []CodeGuards
<1>1. Init => CodeGuards BY DEF Init, CodeGuards, General, NoRoom
<1>2. IInv /\ CodeGuards /\ [Next]_vars => CodeGuards' BY CodeStep
<1> QED BY <1>1, <1>2, OwnersCorrect, PTL DEF Spec

-----------------------------------------------------------------------------
(* A step that creates no custom room with create_custom_chat adds nothing *)
(* to what RoomLimit counts. *)
LEMMA KeptCounts == ASSUME RowsKept, NEW u \in Users PROVE Counted(u)' \subseteq Counted(u)
  BY RoomsConstants DEF RoomsConstants, RowsKept, Counted, OwnedBy, Custom

LEMMA OthersKeepRows ==
  ASSUME IInv, [Next]_vars,
         \A u \in Users, p \in BOOLEAN, c \in Codes \cup {NoCode} : ~CreateCustom(u, p, c)
  PROVE  RowsKept
<1>0. TypeOK
  BY DEF IInv
<1>1. CASE room' = room
  BY <1>1 DEF RowsKept
<1>2. ASSUME NEW row, Insert(row), row.kind # "custom" \/ row.pair # {} PROVE RowsKept
  BY <1>2, NextRowIsFree DEF RowsKept
<1>3. ASSUME NEW S, RoomsGo(S) PROVE RowsKept
  BY <1>0, <1>3 DEF RoomsGo, NoRoom, RowsKept
<1>4. ASSUME NEW u \in Users, NEW v \in Users, CreateDirect(u, v) PROVE RowsKept
  BY <1>2, <1>4 DEF CreateDirect, DirectRoom
<1>5. ASSUME NEW u \in Users, NEW q \in Ids, NEW c \in Codes \cup {NoCode, "keep"},
             NEW p \in {"keep", "yes", "no"}, Configure(u, q, c, p)
      PROVE RowsKept
  <2>1. ASSUME NEW r \in Ids PROVE r = q \/ room'[r] = room[r]
    BY <1>0, <1>5 DEF Configure, TypeOK
  <2>2. room'[q] = Reconfigured(q, c, p)
    BY <1>0, <1>5 DEF Configure, TypeOK
  <2>3. /\ room'[q].kind = room[q].kind /\ room'[q].owner = room[q].owner
        /\ room'[q].pair = room[q].pair /\ room'[q].made = room[q].made
    BY <1>0, <2>2, ConfiguredRow
  <2> QED BY <2>1, <2>3 DEF RowsKept
<1>6. ASSUME NEW S, UsersGo(S) PROVE RowsKept
  <2>1. ASSUME NEW r \in Ids
        PROVE  /\ room'[r].kind = room[r].kind /\ room'[r].owner \in {room[r].owner, NoUser}
               /\ room'[r].pair = room[r].pair /\ room'[r].made = room[r].made
    <3>1. room'[r] = OwnersLeave(S)[r]
      BY <1>6 DEF UsersGo
    <3> QED BY <1>0, <3>1, OwnerlessRow
  <2> QED BY <2>1 DEF RowsKept
<1>7. CASE Restart
  BY <1>2, <1>7 DEF Restart, General
<1> QED BY <1>1, <1>3, <1>4, <1>5, <1>6, <1>7
  DEF Next, vars, ChatStep, RoomStep, AccountStep, DeleteAllChats, DeleteUser, DeleteAllUsers, FullReset, DeleteChat, AddMember,
      BulkAdd, Join, Appear, Suspend, Release, SetRole

LEMMA CountedIsFinite ==
  ASSUME NEW u
  PROVE  /\ IsFiniteSet(OwnedBy(u)) /\ IsFiniteSet(Counted(u))
         /\ Cardinality(OwnedBy(u)) \in Nat /\ Cardinality(Counted(u)) \in Nat
         /\ Cardinality(Counted(u)) <= Cardinality(OwnedBy(u))
<1>1. IsFiniteSet(Ids)
  BY RoomsConstants, FS_Interval DEF Ids, RoomsConstants
<1>2. OwnedBy(u) \subseteq Ids /\ Counted(u) \subseteq OwnedBy(u)
  BY DEF OwnedBy, Custom, Counted
<1>3. IsFiniteSet(OwnedBy(u))
  BY <1>1, <1>2, FS_Subset
<1> QED BY <1>2, <1>3, FS_Subset, FS_CardinalityType

LEMMA LimitIsCounted == RoomLimit <=> \A u \in Users : Cardinality(Counted(u)) <= MaxCustom
  BY DEF RoomLimit, Counted

LEMMA LimitStep == ASSUME IInv, RoomLimit, [Next]_vars PROVE RoomLimit'
<1> SUFFICES ASSUME NEW u \in Users PROVE Cardinality(Counted(u)') <= MaxCustom
  BY DEF RoomLimit, Counted
<1>0. MaxCustom \in Nat
  BY RoomsConstants DEF RoomsConstants
<1>1. CASE Counted(u)' \subseteq Counted(u)
  <2>1. Cardinality(Counted(u)') \in Nat /\ Cardinality(Counted(u)') <= Cardinality(Counted(u))
    BY <1>1, CountedIsFinite, FS_Subset, FS_CardinalityType
  <2> QED BY <1>0, <2>1, LimitIsCounted, CountedIsFinite
<1>2. ASSUME NEW v \in Users, NEW p \in BOOLEAN, NEW c \in Codes \cup {NoCode},
             CreateCustom(v, p, c)
      PROVE  Cardinality(Counted(u)') <= MaxCustom
  <2>1. /\ lastId + 1 \in Ids /\ room'[lastId + 1] = NewRoom(v, p, c)
        /\ \A r \in Ids : r # lastId + 1 => room'[r] = room[r]
    BY <1>2, NextRowIsFree DEF CreateCustom
  <2>2. CASE v # u \/ role[v] # "user"
    BY <1>1, <2>1, <2>2 DEF Counted, OwnedBy, Custom, NewRoom
  <2>3. CASE v = u /\ role[v] = "user"
    <3>1. Counted(u)' \subseteq Counted(u) \cup {lastId + 1}
      BY <2>1 DEF Counted, OwnedBy, Custom
    <3>2. Cardinality(OwnedBy(u)) < MaxCustom
      BY <1>2, <2>3 DEF CreateCustom, MayCreate, Staff
    <3>3. /\ Cardinality(Counted(u) \cup {lastId + 1}) <= Cardinality(Counted(u)) + 1
          /\ IsFiniteSet(Counted(u) \cup {lastId + 1})
      <4> DEFINE S == Counted(u)
                 T == S \cup {lastId + 1}
      <4>1. IsFiniteSet(S) /\ Cardinality(S) \in Nat
        BY CountedIsFinite
      <4> HIDE DEF S
      <4>2. IsFiniteSet(T) /\ Cardinality(T) \in {Cardinality(S), Cardinality(S) + 1}
        BY <4>1, FS_AddElement
      <4> QED BY <4>1, <4>2 DEF S
    <3>4. /\ Cardinality(Counted(u)') <= Cardinality(Counted(u) \cup {lastId + 1})
          /\ Cardinality(Counted(u)') \in Nat
          /\ Cardinality(Counted(u) \cup {lastId + 1}) \in Nat
      BY <3>1, <3>3, FS_Subset, FS_CardinalityType
    <3> QED BY <1>0, <3>2, <3>3, <3>4, CountedIsFinite
  <2> QED BY <2>2, <2>3
<1>3. CASE \A v \in Users, p \in BOOLEAN, c \in Codes \cup {NoCode} : ~CreateCustom(v, p, c)
  BY <1>1, <1>3, OthersKeepRows, KeptCounts
<1> QED BY <1>2, <1>3

(* However many rooms are created, deleted, reconfigured or orphaned, and  *)
(* whatever happens to roles between, no account owns more rooms that it   *)
(* created as a user through create_custom_chat than the limit.            *)
THEOREM LimitCorrect == Spec => []RoomLimit
<1>1. Init => RoomLimit
  <2> SUFFICES ASSUME Init, NEW u \in Users PROVE Cardinality(Counted(u)) <= MaxCustom
    BY LimitIsCounted
  <2>1. Counted(u) = {}
    BY RoomsConstants DEF Init, Counted, OwnedBy, Custom, General, NoRoom, RoomsConstants
  <2> QED BY <2>1, FS_EmptySet, RoomsConstants DEF RoomsConstants
<1>2. IInv /\ RoomLimit /\ [Next]_vars => RoomLimit' BY LimitStep
<1> QED BY <1>1, <1>2, OwnersCorrect, PTL DEF Spec
=============================================================================
