----------------------------- MODULE AccessProofs -----------------------------
(***************************************************************************)
(* Proofs about Access, for any finite set of accounts, any number of      *)
(* sessions and any devices.                                               *)
(***************************************************************************)
EXTENDS Access, TLAPS

(* A deleted account leaves no device behind for the next one to inherit. *)
AbsentIsBlank == \A u \in Users \ Existing : device[u] = NoDevice

IInv == /\ TypeOK /\ BlockedHasDeadline /\ AbsentIsBlank
        /\ OneAccountPerDevice /\ ReferencesIntact

(* What a step can do to the rows of users: nothing that counts here, one  *)
(* more row, whose device no other row has, or the rows of S less.         *)
KeepsRows == Existing' = Existing /\ device' = device
AddsRow(u) ==
  /\ u \in Users \ Existing /\ Existing' = Existing \cup {u}
  /\ \/ device' = device
     \/ \E d \in Devices : DeviceFree(d) /\ device' = [device EXCEPT ![u] = d]
RemovesRows(S) ==
  /\ Existing' = Existing \ S
  /\ device' = [u \in Users |-> IF u \in S THEN NoDevice ELSE device[u]]
RowsChange ==
  \/ KeepsRows
  \/ \E u \in Users : AddsRow(u)
  \/ \E S \in SUBSET Users : RemovesRows(S)

-----------------------------------------------------------------------------
(* The two halves of what authenticating an account does to its row. *)
LEMMA LiftedType ==
  ASSUME TypeOK, NEW u
  PROVE  /\ Lifted(u) \in [Users -> {"absent", "active", "blocked", "banned"}]
         /\ LiftedUntil(u) \in [Users -> {"none", "pending", "over"}]
  BY DEF TypeOK, Lifted, LiftedUntil

(* Who passes authentication is an existing, unrestricted account. *)
LEMMA ActorFacts ==
  ASSUME TypeOK, NEW t \in Tokens, Accepts(t)
  PROVE  /\ session[t].user \in Users
         /\ CanAuthenticate(session[t].user)
         /\ Lifted(session[t].user)[session[t].user] = "active"
  BY DEF TypeOK, Accepts, CanAuthenticate, Due, Lifted

LEMMA TypeInit == ASSUME Init PROVE TypeOK
  BY AccessConstants DEF Init, TypeOK, NoSession, Roles, Staff, AccessConstants

LEMMA TypeStep == ASSUME TypeOK, [Next]_vars PROVE TypeOK'
<1>1. ASSUME NEW t \in Tokens, AuthStep(t), overdue' = FALSE PROVE TypeOK'
  <2>1. ASSUME NEW u \in Users, Login(u, t) PROVE TypeOK'
    BY <1>1, <2>1, LiftedType DEF TypeOK, Login, Opened
  <2>2. ASSUME NEW u \in Users, CreateGuest(u, t) PROVE TypeOK'
    BY <1>1, <2>2 DEF TypeOK, CreateGuest, Opened, Roles
  <2>3. ASSUME NEW u \in Users, NEW d \in Devices, Register(u, d, t) PROVE TypeOK'
    BY <1>1, <2>3 DEF TypeOK, Register, Opened, Roles
  <2>4. ASSUME NEW d \in Devices, DeviceSession(d, t) PROVE TypeOK'
    BY <1>1, <2>4 DEF TypeOK, DeviceSession, Opened, accounts
  <2>5. ASSUME NEW d \in Devices, PairDevice(t, d) PROVE TypeOK'
    BY <1>1, <2>5, ActorFacts, LiftedType DEF TypeOK, PairDevice, By, ActorLifted
  <2>6. ASSUME NEW d \in Devices, UnpairDevice(t, d) PROVE TypeOK'
    BY <1>1, <2>6, LiftedType DEF TypeOK, UnpairDevice, ActorLifted
  <2>7. CASE GetSession(t)
    BY <1>1, <2>7, LiftedType DEF TypeOK, GetSession, ActorLifted
  <2>8. CASE Logout(t)
    BY <1>1, <2>8, LiftedType DEF TypeOK, Logout, ActorLifted, NoSession
  <2>9. CASE SessionExpires(t)
    BY <1>1, <2>9 DEF TypeOK, SessionExpires, accounts
  <2> QED BY <1>1, <2>1, <2>2, <2>3, <2>4, <2>5, <2>6, <2>7, <2>8, <2>9 DEF AuthStep
<1>2. ASSUME NEW t \in Tokens, AdminStep(t), overdue' = FALSE PROVE TypeOK'
  <2>1. ASSUME NEW u \in Users, BanUser(t, u) PROVE TypeOK'
    BY <1>2, <2>1, LiftedType DEF TypeOK, BanUser
  <2>2. ASSUME NEW u \in Users, UnbanUser(t, u) PROVE TypeOK'
    BY <1>2, <2>2, LiftedType DEF TypeOK, UnbanUser
  <2>3. ASSUME NEW u \in Users, TemporaryBlockUser(t, u) PROVE TypeOK'
    BY <1>2, <2>3, LiftedType DEF TypeOK, TemporaryBlockUser
  <2>4. ASSUME NEW S, NEW now \in [Users -> {"absent", "active", "blocked", "banned"}],
               NEW deadlines \in [Users -> {"none", "pending", "over"}],
               Deleted(S, now, deadlines)
        PROVE  /\ role' \in [Users -> Roles]
               /\ status' \in [Users -> {"absent", "active", "blocked", "banned"}]
               /\ until' \in [Users -> {"none", "pending", "over"}]
               /\ device' \in [Users -> Devices \cup {NoDevice}]
    BY <2>4 DEF TypeOK, Deleted, Roles
  <2>5. ASSUME NEW S PROVE Ended(S) \in [Tokens -> [user : Users \cup {NoUser}, expired : BOOLEAN]]
    BY DEF TypeOK, Ended, NoSession
  <2>6. ASSUME NEW u \in Users, DeleteUser(t, u) PROVE TypeOK'
    BY <1>2, <2>6, <2>4, <2>5, LiftedType DEF TypeOK, DeleteUser
  <2>7. ASSUME NEW u \in Users, NEW r \in Granted, SetRole(t, u, r) PROVE TypeOK'
    BY <1>2, <2>7, LiftedType, AccessConstants
    DEF TypeOK, SetRole, ActorLifted, Roles, Staff, AccessConstants
  <2>8. ASSUME NEW d \in Devices, BlacklistDevice(t, d) PROVE TypeOK'
    BY <1>2, <2>8, LiftedType, ActorFacts DEF TypeOK, BlacklistDevice, ActorLifted, By
  <2>9. ASSUME NEW d \in Devices, UnblacklistDevice(t, d) PROVE TypeOK'
    BY <1>2, <2>9, LiftedType DEF TypeOK, UnblacklistDevice, ActorLifted
  <2>10. ASSUME NEW m \in {"open", "closed"}, SetMode(t, m) PROVE TypeOK'
    BY <1>2, <2>10, LiftedType DEF TypeOK, SetMode, ActorLifted
  <2>11. ASSUME NEW m \in {"open", "closed"}, SetAdminMode(t, m) PROVE TypeOK'
    BY <1>2, <2>11, <2>5, LiftedType DEF TypeOK, SetAdminMode, ActorLifted
  <2>12. CASE FullReset(t)
    BY <1>2, <2>12, <2>4, <2>5, LiftedType DEF TypeOK, FullReset
  <2>13. CASE DeleteAllUsers(t)
    BY <1>2, <2>13, <2>4, <2>5, LiftedType DEF TypeOK, DeleteAllUsers
  <2> QED BY <1>2, <2>1, <2>2, <2>3, <2>6, <2>7, <2>8, <2>9, <2>10, <2>11, <2>12, <2>13
          DEF AdminStep
<1>3. CASE OtherStep /\ overdue' = FALSE
  <2>1. ASSUME NEW u \in Users, BlockEnds(u) PROVE TypeOK'
    BY <1>3, <2>1 DEF TypeOK, BlockEnds
  <2>2. ASSUME NEW m \in {"open", "closed"}, SwitchModeByCard(m) PROVE TypeOK'
    BY <1>3, <2>2 DEF TypeOK, SwitchModeByCard, accounts
  <2> QED BY <1>3, <2>1, <2>2 DEF OtherStep
<1>4. ASSUME NEW d \in Devices, RefuseDevice(d) PROVE TypeOK'
  BY <1>4 DEF TypeOK, RefuseDevice, Due, tables, accounts
<1>5. CASE UNCHANGED vars
  BY <1>5 DEF TypeOK, vars, tables, accounts
<1> QED BY <1>1, <1>2, <1>3, <1>4, <1>5 DEF Next

(* Every column holds a value of its enumeration. *)
THEOREM TypeCorrect == Spec => []TypeOK
<1>1. Init => TypeOK BY TypeInit
<1>2. TypeOK /\ [Next]_vars => TypeOK' BY TypeStep
<1> QED BY <1>1, <1>2, PTL DEF Spec

-----------------------------------------------------------------------------
(* Lifting a due block changes a status and its deadline together. *)
LEMMA LiftedAgree ==
  ASSUME TypeOK, BlockedHasDeadline, NEW a, NEW u \in Users
  PROVE  /\ Lifted(a)[u] = "blocked" <=> LiftedUntil(a)[u] # "none"
         /\ Lifted(a)[u] = "absent" <=> status[u] = "absent"
  BY DEF TypeOK, BlockedHasDeadline, Lifted, LiftedUntil, Due

(* A step of the actor that changes no other row, nor references. *)
LEMMA ActorOnly ==
  ASSUME IInv, NEW t \in Tokens, ActorLifted(t), device' = device
  PROVE  BlockedHasDeadline' /\ KeepsRows
  BY LiftedAgree, LiftedType DEF IInv, ActorLifted, BlockedHasDeadline, KeepsRows, Existing, TypeOK

(* Deleting rows keeps statuses and deadlines in step. *)
LEMMA DeletedRows ==
  ASSUME IInv, NEW t \in Tokens, NEW S \in SUBSET Users,
         Deleted(S, Lifted(session[t].user), LiftedUntil(session[t].user))
  PROVE  BlockedHasDeadline' /\ RemovesRows(S)
<1> DEFINE a == session[t].user
<1>1. \A u \in Users : status'[u] = IF u \in S THEN "absent" ELSE Lifted(a)[u]
  BY DEF Deleted
<1>2. \A u \in Users : until'[u] = IF u \in S THEN "none" ELSE LiftedUntil(a)[u]
  BY DEF Deleted
<1>3. BlockedHasDeadline'
  BY <1>1, <1>2, LiftedAgree DEF IInv, BlockedHasDeadline
<1>4. Existing' = Existing \ S
  BY <1>1, LiftedAgree DEF IInv, Existing
<1> QED BY <1>3, <1>4 DEF RemovesRows, Deleted

(* Every step keeps statuses and deadlines in step and the references      *)
(* intact, and changes the rows in one of the three ways.                  *)
LEMMA StepEffect ==
  ASSUME IInv, Next
  PROVE  BlockedHasDeadline' /\ ReferencesIntact' /\ RowsChange
<1> USE DEF IInv
<1> DEFINE Goal == BlockedHasDeadline' /\ ReferencesIntact' /\ RowsChange
<1>0. TypeOK'
  BY TypeStep
<1>1. ASSUME NEW t \in Tokens, AuthStep(t) PROVE Goal
  <2>1. ASSUME NEW u \in Users, Login(u, t) PROVE Goal
    <3>1. BlockedHasDeadline' /\ KeepsRows
      BY <2>1, LiftedAgree, LiftedType DEF Login, BlockedHasDeadline, KeepsRows, Existing, TypeOK
    <3> QED BY <2>1, <3>1 DEF Login, Opened, ReferencesIntact, KeepsRows, RowsChange, TypeOK
  <2>2. ASSUME NEW u \in Users, CreateGuest(u, t) PROVE Goal
    <3>1. BlockedHasDeadline' /\ AddsRow(u)
      BY <2>2 DEF CreateGuest, BlockedHasDeadline, AddsRow, Existing, TypeOK
    <3> QED BY <2>2, <3>1 DEF CreateGuest, Opened, ReferencesIntact, AddsRow, RowsChange, TypeOK
  <2>3. ASSUME NEW u \in Users, NEW d \in Devices, Register(u, d, t) PROVE Goal
    <3>1. BlockedHasDeadline'
      BY <2>3 DEF Register, BlockedHasDeadline, Existing, TypeOK
    <3>2. Existing' = Existing \cup {u}
      BY <2>3 DEF Register, Existing, TypeOK
    <3>3. AddsRow(u)
      BY <2>3, <3>2 DEF Register, AddsRow
    <3>4. ReferencesIntact'
      BY <2>3, <3>2 DEF Register, Opened, ReferencesIntact, TypeOK
    <3> QED BY <3>1, <3>3, <3>4 DEF RowsChange
  <2>4. ASSUME NEW d \in Devices, DeviceSession(d, t) PROVE Goal
    BY <2>4 DEF DeviceSession, Opened, accounts, BlockedHasDeadline, ReferencesIntact,
                KeepsRows, Existing, RowsChange, TypeOK
  <2>5. ASSUME NEW d \in Devices, PairDevice(t, d) PROVE Goal
    <3>1. BlockedHasDeadline' /\ KeepsRows
      BY <2>5, ActorOnly DEF PairDevice
    <3> QED BY <2>5, <3>1, ActorFacts
            DEF PairDevice, By, ReferencesIntact, KeepsRows, RowsChange, TypeOK
  <2>6. ASSUME NEW d \in Devices, UnpairDevice(t, d) PROVE Goal
    <3>1. BlockedHasDeadline' /\ KeepsRows
      BY <2>6, ActorOnly DEF UnpairDevice
    <3> QED BY <2>6, <3>1 DEF UnpairDevice, ReferencesIntact, KeepsRows, RowsChange, TypeOK
  <2>7. CASE GetSession(t)
    BY <2>7, ActorOnly DEF GetSession, ReferencesIntact, KeepsRows, RowsChange
  <2>8. CASE Logout(t)
    <3>1. BlockedHasDeadline' /\ KeepsRows
      BY <2>8, ActorOnly DEF Logout
    <3> QED BY <2>8, <3>1 DEF Logout, NoSession, ReferencesIntact, KeepsRows, RowsChange, TypeOK
  <2>9. CASE SessionExpires(t)
    BY <2>9 DEF SessionExpires, accounts, BlockedHasDeadline, ReferencesIntact,
                KeepsRows, Existing, RowsChange, TypeOK
  <2> QED BY <1>1, <2>1, <2>2, <2>3, <2>4, <2>5, <2>6, <2>7, <2>8, <2>9 DEF AuthStep
<1>2. ASSUME NEW t \in Tokens, AdminStep(t) PROVE Goal
  <2>0. ASSUME NEW u \in Users, NEW s \in {"active", "banned", "blocked"}, NEW l,
               status' = [Lifted(session[t].user) EXCEPT ![u] = s],
               until' = [LiftedUntil(session[t].user) EXCEPT ![u] = l],
               s = "blocked" <=> l # "none",
               u \in Existing, UNCHANGED <<device, session, pairing, blacklist>>
        PROVE Goal
    <3>1. BlockedHasDeadline' /\ KeepsRows
      BY <2>0, LiftedAgree, LiftedType DEF BlockedHasDeadline, KeepsRows, Existing, TypeOK
    <3> QED BY <2>0, <3>1 DEF ReferencesIntact, KeepsRows, RowsChange
  <2>1. ASSUME NEW u \in Users, BanUser(t, u) PROVE Goal
    BY <2>0, <2>1 DEF BanUser, Allowed
  <2>2. ASSUME NEW u \in Users, UnbanUser(t, u) PROVE Goal
    BY <2>0, <2>2 DEF UnbanUser
  <2>3. ASSUME NEW u \in Users, TemporaryBlockUser(t, u) PROVE Goal
    BY <2>0, <2>3 DEF TemporaryBlockUser, Allowed
  <2>4. ASSUME NEW S \in SUBSET Users,
               Deleted(S, Lifted(session[t].user), LiftedUntil(session[t].user)),
               \A u \in S : ~Referenced(u),
               session' = Ended(S) \/ session' = Ended(Users),
               blacklist' = blacklist,
               pairing' = pairing \/ \A d \in Devices : pairing'[d].user = NoUser
        PROVE Goal
    <3>1. BlockedHasDeadline' /\ RemovesRows(S)
      BY <2>4, DeletedRows
    <3>2. \A tt \in Tokens : session'[tt].user \in Existing' \cup {NoUser}
      BY <2>4, <3>1 DEF Ended, NoSession, RemovesRows, ReferencesIntact, TypeOK
    <3>3. \A d \in Devices : {pairing'[d].user, blacklist'[d]} \subseteq Existing' \cup {NoUser}
      BY <2>4, <3>1 DEF Referenced, RemovesRows, ReferencesIntact, TypeOK
    <3> QED BY <3>1, <3>2, <3>3 DEF ReferencesIntact, RowsChange
  <2>5. ASSUME NEW u \in Users, DeleteUser(t, u) PROVE Goal
    BY <2>4, <2>5 DEF DeleteUser
  <2>6. CASE FullReset(t)
    BY <2>4, <2>6 DEF FullReset, Existing
  <2>7. CASE DeleteAllUsers(t)
    BY <2>4, <2>7 DEF DeleteAllUsers, Existing
  <2>8. ASSUME NEW u \in Users, NEW r \in Granted, SetRole(t, u, r) PROVE Goal
    BY <2>8, ActorOnly DEF SetRole, ReferencesIntact, KeepsRows, RowsChange
  <2>9. ASSUME NEW d \in Devices, BlacklistDevice(t, d) PROVE Goal
    <3>1. BlockedHasDeadline' /\ KeepsRows
      BY <2>9, ActorOnly DEF BlacklistDevice
    <3> QED BY <2>9, <3>1, ActorFacts
            DEF BlacklistDevice, By, ReferencesIntact, KeepsRows, RowsChange, TypeOK
  <2>10. ASSUME NEW d \in Devices, UnblacklistDevice(t, d) PROVE Goal
    <3>1. BlockedHasDeadline' /\ KeepsRows
      BY <2>10, ActorOnly DEF UnblacklistDevice
    <3> QED BY <2>10, <3>1
            DEF UnblacklistDevice, ReferencesIntact, KeepsRows, RowsChange, TypeOK
  <2>11. ASSUME NEW m \in {"open", "closed"}, SetMode(t, m) PROVE Goal
    BY <2>11, ActorOnly DEF SetMode, ReferencesIntact, KeepsRows, RowsChange
  <2>12. ASSUME NEW m \in {"open", "closed"}, SetAdminMode(t, m) PROVE Goal
    <3>1. BlockedHasDeadline' /\ KeepsRows
      BY <2>12, ActorOnly DEF SetAdminMode
    <3> QED BY <2>12, <3>1
            DEF SetAdminMode, Ended, NoSession, ReferencesIntact, KeepsRows, RowsChange, TypeOK
  <2> QED BY <1>2, <2>1, <2>2, <2>3, <2>5, <2>6, <2>7, <2>8, <2>9, <2>10, <2>11, <2>12
          DEF AdminStep
<1>3. CASE OtherStep
  <2>1. ASSUME NEW u \in Users, BlockEnds(u) PROVE Goal
    BY <2>1 DEF BlockEnds, BlockedHasDeadline, ReferencesIntact, KeepsRows, Existing,
                RowsChange, TypeOK
  <2>2. ASSUME NEW m \in {"open", "closed"}, SwitchModeByCard(m) PROVE Goal
    BY <2>2 DEF SwitchModeByCard, accounts, BlockedHasDeadline, ReferencesIntact, KeepsRows,
                Existing, RowsChange
  <2> QED BY <1>3, <2>1, <2>2 DEF OtherStep
<1>4. ASSUME NEW d \in Devices, RefuseDevice(d) PROVE Goal
  BY <1>4 DEF RefuseDevice, tables, accounts, BlockedHasDeadline, ReferencesIntact, KeepsRows,
              Existing, RowsChange
<1> QED BY <1>1, <1>2, <1>3, <1>4 DEF Next

LEMMA Inductive == IInv /\ [Next]_vars => IInv'
<1> SUFFICES ASSUME IInv, [Next]_vars PROVE IInv'
  OBVIOUS
<1>1. TypeOK'
  BY TypeStep DEF IInv
<1>2. CASE UNCHANGED vars
  BY <1>1, <1>2 DEF IInv, vars, tables, accounts, BlockedHasDeadline, AbsentIsBlank, Existing,
                    OneAccountPerDevice, ReferencesIntact
<1>3. CASE Next
  <2>1. BlockedHasDeadline' /\ ReferencesIntact' /\ RowsChange
    BY <1>3, StepEffect
  <2>2. CASE KeepsRows
    BY <1>1, <2>1, <2>2 DEF IInv, KeepsRows, AbsentIsBlank, OneAccountPerDevice
  <2>3. ASSUME NEW u \in Users, AddsRow(u) PROVE IInv'
    <3>1. AbsentIsBlank'
      BY <2>3 DEF IInv, AddsRow, AbsentIsBlank, TypeOK
    <3>2. OneAccountPerDevice'
      BY <2>3 DEF IInv, AddsRow, AbsentIsBlank, OneAccountPerDevice, DeviceFree, Existing, TypeOK
    <3> QED BY <1>1, <2>1, <3>1, <3>2 DEF IInv
  <2>4. ASSUME NEW S \in SUBSET Users, RemovesRows(S) PROVE IInv'
    <3>1. AbsentIsBlank'
      BY <2>4 DEF IInv, RemovesRows, AbsentIsBlank, TypeOK
    <3>2. OneAccountPerDevice'
      BY <2>4 DEF IInv, RemovesRows, OneAccountPerDevice, Existing, TypeOK
    <3> QED BY <1>1, <2>1, <3>1, <3>2 DEF IInv
  <2> QED BY <2>1, <2>2, <2>3, <2>4 DEF RowsChange
<1> QED BY <1>2, <1>3

(* The database starts with administrators only, none of them restricted. *)
LEMMA Initially == Init => IInv
<1> SUFFICES ASSUME Init PROVE IInv
  OBVIOUS
<1>1. TypeOK
  BY TypeInit
<1>2. BlockedHasDeadline /\ AbsentIsBlank /\ OneAccountPerDevice
  BY DEF Init, BlockedHasDeadline, AbsentIsBlank, OneAccountPerDevice, Existing
<1>3. ReferencesIntact
  BY DEF Init, NoSession, ReferencesIntact
<1> QED BY <1>1, <1>2, <1>3 DEF IInv

LEMMA Invariant == Spec => []IInv
<1> QED BY Initially, Inductive, PTL DEF Spec

(* A block always has its deadline and a ban never has one, in whatever    *)
(* order staff bans, blocks, releases and deletes.                         *)
THEOREM BlockedCorrect == Spec => []BlockedHasDeadline
<1>1. IInv => BlockedHasDeadline
  BY DEF IInv
<1> QED BY <1>1, Invariant, PTL

(* The check in register_user alone keeps registrations one per device.    *)
THEOREM DeviceCorrect == Spec => []OneAccountPerDevice
<1>1. IInv => OneAccountPerDevice
  BY DEF IInv
<1> QED BY <1>1, Invariant, PTL

(* No session, pairing or blacklist entry outlives its account. *)
THEOREM ReferencesCorrect == Spec => []ReferencesIntact
<1>1. IInv => ReferencesIntact
  BY DEF IInv
<1> QED BY <1>1, Invariant, PTL

-----------------------------------------------------------------------------
(* What lifts a restriction: the account itself when its block is due, or  *)
(* the unban request of somebody else, who passed authentication as staff. *)
LEMMA Release ==
  ASSUME TypeOK, Next, NEW u \in Users, status[u] \in {"blocked", "banned"},
         status'[u] = "active"
  PROVE  Due(u) \/ \E t \in Tokens : OtherStaff(t, u) /\ UnbanUser(t, u)
<1> DEFINE Goal == Due(u) \/ \E t \in Tokens : OtherStaff(t, u) /\ UnbanUser(t, u)
<1>1. ASSUME NEW a, Lifted(a)[u] = "active" PROVE Due(u)
  BY <1>1 DEF Lifted
<1>2. ASSUME NEW t \in Tokens, AuthStep(t) PROVE Goal
  <2>1. ASSUME NEW v \in Users, Login(v, t) \/ CreateGuest(v, t) PROVE Goal
    BY <1>1, <2>1 DEF Login, CreateGuest, Existing, TypeOK
  <2>2. ASSUME NEW v \in Users, NEW d \in Devices, Register(v, d, t) PROVE Goal
    BY <2>2 DEF Register, Existing, TypeOK
  <2>3. ASSUME NEW d \in Devices, DeviceSession(d, t) \/ PairDevice(t, d) \/ UnpairDevice(t, d)
        PROVE Goal
    BY <1>1, <2>3 DEF DeviceSession, PairDevice, UnpairDevice, ActorLifted, accounts
  <2>4. CASE GetSession(t) \/ Logout(t) \/ SessionExpires(t)
    BY <1>1, <2>4 DEF GetSession, Logout, SessionExpires, ActorLifted, accounts
  <2> QED BY <1>2, <2>1, <2>2, <2>3, <2>4 DEF AuthStep
<1>3. ASSUME NEW t \in Tokens, AdminStep(t) PROVE Goal
  <2>1. ASSUME NEW v \in Users, BanUser(t, v) \/ TemporaryBlockUser(t, v) PROVE Goal
    <3>1. v # u
      BY <2>1 DEF BanUser, TemporaryBlockUser, Lifted, TypeOK
    <3> QED BY <1>1, <2>1, <3>1 DEF BanUser, TemporaryBlockUser, Lifted
  <2>2. ASSUME NEW v \in Users, UnbanUser(t, v) PROVE Goal
    <3>1. session[t].user \in Users /\ CanAuthenticate(session[t].user) /\ NoUser \notin Users
      BY <2>2, ActorFacts, AccessConstants DEF UnbanUser, By
    <3>2. CASE session[t].user = u
      BY <3>1, <3>2 DEF CanAuthenticate
    <3>3. CASE v = u /\ session[t].user # u
      BY <2>2, <3>1, <3>3 DEF UnbanUser, OtherStaff, By
    <3>4. CASE v # u
      BY <1>1, <2>2, <3>4 DEF UnbanUser, Lifted
    <3> QED BY <3>2, <3>3, <3>4
  <2>3. ASSUME NEW v \in Users, DeleteUser(t, v) PROVE Goal
    BY <1>1, <2>3 DEF DeleteUser, Deleted
  <2>4. CASE FullReset(t) \/ DeleteAllUsers(t)
    BY <1>1, <2>4 DEF FullReset, DeleteAllUsers, Deleted
  <2>5. ASSUME NEW v \in Users, NEW r \in Granted, SetRole(t, v, r) PROVE Goal
    BY <1>1, <2>5 DEF SetRole, ActorLifted
  <2>6. ASSUME NEW d \in Devices, BlacklistDevice(t, d) \/ UnblacklistDevice(t, d) PROVE Goal
    BY <1>1, <2>6 DEF BlacklistDevice, UnblacklistDevice, ActorLifted
  <2>7. ASSUME NEW m \in {"open", "closed"}, SetMode(t, m) \/ SetAdminMode(t, m) PROVE Goal
    BY <1>1, <2>7 DEF SetMode, SetAdminMode, ActorLifted
  <2> QED BY <1>3, <2>1, <2>2, <2>3, <2>4, <2>5, <2>6, <2>7 DEF AdminStep
<1>4. CASE OtherStep
  BY <1>4 DEF OtherStep, BlockEnds, SwitchModeByCard, accounts
<1>5. ASSUME NEW d \in Devices, RefuseDevice(d) PROVE Goal
  BY <1>5 DEF RefuseDevice, tables, accounts
<1> QED BY <1>2, <1>3, <1>4, <1>5 DEF Next

(* Nobody ends a ban or a running block alone: an unban request of another *)
(* account does, which is staff and not restricted.                        *)
THEOREM ReleaseCorrect == Spec => NoSelfRelease
<1>1. TypeOK /\ [Next]_vars =>
        [\A u \in Users : status[u] \in {"blocked", "banned"} /\ status'[u] = "active" =>
           Due(u) \/ \E t \in Tokens : OtherStaff(t, u) /\ UnbanUser(t, u)]_vars
  BY Release DEF vars, tables, accounts
<1> QED BY <1>1, TypeCorrect, PTL DEF Spec, NoSelfRelease

(* A row that a step deletes is never the only administrator's.            *)
THEOREM DeletionCorrect == Spec => DeletionKeepsAdmin
<1> DEFINE Kept == \A u \in Existing : role[u] = "admin" /\ status'[u] = "absent" =>
                     \E v \in Users : status'[v] = "active" /\ role'[v] = "admin"
<1>1. ASSUME TypeOK, Next PROVE Kept
  <2> SUFFICES ASSUME NEW u \in Existing, role[u] = "admin", status'[u] = "absent"
               PROVE  \E v \in Users : status'[v] = "active" /\ role'[v] = "admin"
    OBVIOUS
  <2> DEFINE Goal == \E v \in Users : status'[v] = "active" /\ role'[v] = "admin"
  <2>0. ASSUME NEW a PROVE Lifted(a)[u] # "absent"
    BY <2>0 DEF Lifted, Existing
  <2>1. ASSUME NEW t \in Tokens, AuthStep(t) PROVE FALSE
    <3>1. ASSUME NEW v \in Users, CreateGuest(v, t) PROVE FALSE
      BY <3>1 DEF CreateGuest, Existing, TypeOK
    <3>2. ASSUME NEW v \in Users, NEW d \in Devices, Register(v, d, t) PROVE FALSE
      BY <3>2 DEF Register, Existing, TypeOK
    <3> QED
      BY <2>0, <2>1, <3>1, <3>2
      DEF AuthStep, Login, DeviceSession, PairDevice, UnpairDevice,
          GetSession, Logout, SessionExpires, ActorLifted, accounts, Existing
  <2>2. ASSUME NEW t \in Tokens, NEW S \in SUBSET Users,
               Deleted(S, Lifted(session[t].user), LiftedUntil(session[t].user)),
               By(t, {"admin"}), session[t].user \notin S
        PROVE  Goal
    <3>1. /\ session[t].user \in Users
          /\ Lifted(session[t].user)[session[t].user] = "active"
      BY <1>1, <2>2, ActorFacts DEF By
    <3> QED BY <2>2, <3>1 DEF Deleted, By
  <2>3. ASSUME NEW t \in Tokens, AdminStep(t) PROVE Goal
    <3>1. ASSUME NEW v \in Users, DeleteUser(t, v) PROVE Goal
      <4>1. /\ Deleted({v}, Lifted(session[t].user), LiftedUntil(session[t].user))
            /\ By(t, {"admin"}) /\ session[t].user \notin {v} /\ {v} \in SUBSET Users
        BY <3>1 DEF DeleteUser, MayDelete, Allowed
      <4> QED BY ONLY <2>2, <4>1, t \in Tokens
    <3>2. CASE DeleteAllUsers(t)
      BY <2>2, <3>2 DEF DeleteAllUsers, Existing
    <3>3. CASE FullReset(t)
      BY <2>0, <3>3 DEF FullReset, Deleted, Existing
    <3>4. ASSUME NEW v \in Users, BanUser(t, v) \/ UnbanUser(t, v) \/ TemporaryBlockUser(t, v)
          PROVE FALSE
      BY <2>0, <3>4 DEF BanUser, UnbanUser, TemporaryBlockUser, Lifted, Existing
    <3> QED
      BY <2>0, <2>3, <3>1, <3>2, <3>3, <3>4
      DEF AdminStep, SetRole, BlacklistDevice, UnblacklistDevice, SetMode, SetAdminMode,
          ActorLifted
  <2>4. CASE OtherStep
    BY <2>4 DEF OtherStep, BlockEnds, SwitchModeByCard, accounts, Existing
  <2>5. ASSUME NEW d \in Devices, RefuseDevice(d) PROVE Goal
    BY <2>5 DEF RefuseDevice, tables, accounts, Existing
  <2> QED BY <1>1, <2>1, <2>3, <2>4, <2>5 DEF Next
<1>2. TypeOK /\ [Next]_vars => [Kept]_vars
  BY <1>1
<1> QED BY <1>2, TypeCorrect, PTL DEF Spec, DeletionKeepsAdmin

-----------------------------------------------------------------------------
(* What a request does to one account, told by its values before and after.*)
Keeps(u) == Seen(u)' = Seen(u) /\ role'[u] = role[u]
Appears(u) ==
  /\ Seen(u) = "absent" /\ u \notin Admins
  /\ Seen(u)' = "active" /\ role'[u] \in {"user", "guest"}
Switches(u) ==
  /\ Seen(u) # "absent" /\ role'[u] = role[u]
  /\ Seen(u)' = IF Seen(u) = "active" THEN "off" ELSE "active"
ChangesRole(u) == Seen(u) # "absent" /\ Seen(u)' = Seen(u) /\ role'[u] \in Granted
Leaves(u) == Seen(u) # "absent" /\ Seen(u)' = "absent" /\ role'[u] = "user"
Moves(u) == Keeps(u) \/ Appears(u) \/ Switches(u) \/ ChangesRole(u) \/ Leaves(u)

(* These are the steps of People with this one account. *)
LEMMA MovesArePeople ==
  ASSUME NEW u \in Users, Moves(u)
  PROVE  Account(u)!PeopleNext \/ UNCHANGED Account(u)!people
<1>1. CASE Keeps(u)
  BY <1>1 DEF Keeps, Account!people
<1>2. CASE Appears(u)
  <2>1. Account(u)!Appear(u)
    BY <1>2 DEF Appears, Account!Appear
  <2> QED BY <2>1 DEF Account!PeopleNext, Account!PeopleStep
<1>3. CASE Switches(u)
  <2>1. Account(u)!BlockOrBan(u)
    BY <1>3 DEF Switches, Account!BlockOrBan
  <2> QED BY <2>1 DEF Account!PeopleNext, Account!PeopleStep
<1>4. CASE ChangesRole(u)
  <2>1. PICK new \in Granted : new = role'[u]
    BY <1>4 DEF ChangesRole
  <2>2. Account(u)!SetRole(u, new)
    BY <1>4, <2>1 DEF ChangesRole, Account!SetRole
  <2> QED BY <2>2 DEF Account!PeopleNext, Account!PeopleStep
<1>5. CASE Leaves(u)
  <2>1. Account(u)!Leave(u)
    BY <1>5 DEF Leaves, Account!Leave
  <2> QED BY <2>1 DEF Account!PeopleNext
<1> QED BY <1>1, <1>2, <1>3, <1>4, <1>5 DEF Moves

(* The requests of an actor that leave the row of u to authentication.     *)
LEMMA LiftedMoves ==
  ASSUME TypeOK, NEW u \in Users, NEW a, status'[u] = Lifted(a)[u], role'[u] = role[u]
  PROVE  Moves(u)
<1>1. CASE u = a /\ Due(u)
  BY <1>1 DEF Lifted, Due, Seen, Moves, Switches
<1>2. CASE ~(u = a /\ Due(u))
  BY <1>2 DEF Lifted, Seen, Moves, Keeps
<1> QED BY <1>1, <1>2

LEMMA MovesOnly ==
  ASSUME TypeOK, Next, NEW u \in Users
  PROVE  Moves(u)
<1>1. ASSUME NEW t \in Tokens, AuthStep(t) PROVE Moves(u)
  <2>1. ASSUME NEW v \in Users, Login(v, t) PROVE Moves(u)
    BY <2>1, LiftedMoves DEF Login
  <2>2. ASSUME NEW v \in Users, CreateGuest(v, t) PROVE Moves(u)
    <3>1. CASE u = v
      BY <2>2, <3>1 DEF CreateGuest, Existing, TypeOK, Seen, Moves, Appears
    <3>2. CASE u # v
      BY <2>2, <3>2 DEF CreateGuest, TypeOK, Seen, Moves, Keeps
    <3> QED BY <3>1, <3>2
  <2>3. ASSUME NEW v \in Users, NEW d \in Devices, Register(v, d, t) PROVE Moves(u)
    <3>1. CASE u = v
      BY <2>3, <3>1 DEF Register, Existing, TypeOK, Seen, Moves, Appears
    <3>2. CASE u # v
      BY <2>3, <3>2 DEF Register, TypeOK, Seen, Moves, Keeps
    <3> QED BY <3>1, <3>2
  <2>4. CASE UNCHANGED accounts
    BY <2>4 DEF accounts, Seen, Moves, Keeps
  <2>5. CASE ActorLifted(t) /\ UNCHANGED role
    BY <2>5, LiftedMoves DEF ActorLifted
  <2> QED
    BY <1>1, <2>1, <2>2, <2>3, <2>4, <2>5
    DEF AuthStep, DeviceSession, PairDevice, UnpairDevice, GetSession, Logout, SessionExpires
<1>2. ASSUME NEW t \in Tokens, AdminStep(t) PROVE Moves(u)
  <2> DEFINE a == session[t].user
  <2>1. ASSUME NEW v \in Users, NEW s \in {"active", "banned", "blocked"}, v \in Existing,
               status' = [Lifted(a) EXCEPT ![v] = s], UNCHANGED role
        PROVE  Moves(u)
    <3>1. CASE u = v
      BY <2>1, <3>1, LiftedType DEF Existing, TypeOK, Seen, Moves, Keeps, Switches
    <3>2. CASE u # v
      BY <2>1, <3>2, LiftedType, LiftedMoves
    <3> QED BY <3>1, <3>2
  <2>2. ASSUME NEW v \in Users, BanUser(t, v) \/ UnbanUser(t, v) \/ TemporaryBlockUser(t, v)
        PROVE  Moves(u)
    BY <2>1, <2>2 DEF BanUser, UnbanUser, TemporaryBlockUser, Allowed
  <2>3. ASSUME NEW v \in Users, NEW r \in Granted, SetRole(t, v, r) PROVE Moves(u)
    <3>1. CASE u = v
      BY <2>3, <3>1 DEF SetRole, Allowed, ActorLifted, Lifted, Existing, TypeOK,
                        Seen, Moves, ChangesRole
    <3>2. CASE u # v
      BY <2>3, <3>2, LiftedMoves DEF SetRole, ActorLifted, TypeOK
    <3> QED BY <3>1, <3>2
  <2>4. ASSUME NEW S \in SUBSET Existing, Deleted(S, Lifted(a), LiftedUntil(a)) PROVE Moves(u)
    <3>1. CASE u \in S
      BY <2>4, <3>1 DEF Deleted, Existing, TypeOK, Seen, Moves, Leaves
    <3>2. CASE u \notin S
      BY <2>4, <3>2, LiftedMoves DEF Deleted
    <3> QED BY <3>1, <3>2
  <2>5. ASSUME NEW v \in Users, DeleteUser(t, v) PROVE Moves(u)
    BY <2>4, <2>5 DEF DeleteUser, MayDelete, Allowed
  <2>6. CASE FullReset(t) \/ DeleteAllUsers(t)
    BY <2>4, <2>6 DEF FullReset, DeleteAllUsers
  <2>7. CASE ActorLifted(t) /\ UNCHANGED role
    BY <2>7, LiftedMoves DEF ActorLifted
  <2> QED
    BY <1>2, <2>2, <2>3, <2>5, <2>6, <2>7
    DEF AdminStep, BlacklistDevice, UnblacklistDevice, SetMode, SetAdminMode
<1>3. CASE OtherStep
  BY <1>3 DEF OtherStep, BlockEnds, SwitchModeByCard, accounts, Seen, Moves, Keeps
<1>4. ASSUME NEW d \in Devices, RefuseDevice(d) PROVE Moves(u)
  BY <1>4 DEF RefuseDevice, tables, accounts, Seen, Moves, Keeps
<1> QED BY <1>1, <1>2, <1>3, <1>4 DEF Next

(* Login, the restrictions and their end, roles and deletions, several of  *)
(* which change more than one account: each account goes the ways that     *)
(* the modules about rooms, tickets and devices allow it, and starts where *)
(* they let it start.                                                      *)
THEOREM PeopleCorrect == Spec => ImplementsPeople
<1>1. ASSUME Init, NEW u \in Users PROVE Account(u)!PeopleInit
  BY <1>1 DEF Init, Seen, Account!PeopleInit
<1>2. Init => \A u \in Users : Account(u)!PeopleInit
  BY <1>1
<1>3. ASSUME TypeOK, [Next]_vars
      PROVE  [\A u \in Users : Account(u)!PeopleNext \/ UNCHANGED Account(u)!people]_vars
  BY <1>3, MovesOnly, MovesArePeople
<1> QED BY <1>2, <1>3, TypeCorrect, PTL DEF Spec, ImplementsPeople
=============================================================================
