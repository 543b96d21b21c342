------------------------------- MODULE MediaProofs -------------------------------
(***************************************************************************)
(* Proofs about Media, for any accounts, files, chats and tickets, and any *)
(* number of messages.                                                     *)
(***************************************************************************)
EXTENDS Media, TLAPS

-----------------------------------------------------------------------------
(* The kinds of step that a request can be, on the files and their tables. *)
Unmoved ==
  UNCHANGED <<message, attached, lastId, media, avatar, disk, torn>>
Typed ==
  /\ role' \in [Users -> {"admin", "moderator", "user", "guest"}]
  /\ status' \in [Users -> {"absent", "active", "off"}]
  /\ reads' \in [Places -> SUBSET Users]
Uploaded(u, f) ==
  /\ disk[f] = "new" /\ disk' = [disk EXCEPT ![f] = "there"]
  /\ media' \in {media, [media EXCEPT ![f] = u]}
  /\ UNCHANGED <<message, attached, lastId, avatar, torn>>
Pictured(u, f) ==
  /\ disk[f] = "new"
  /\ UNCHANGED <<message, attached, lastId, media>>
  /\ \/ /\ disk' = Written(f, {avatar[u]})
        /\ avatar' = [avatar EXCEPT ![u] = f] /\ torn' = torn \ {u}
     \/ /\ \E gone \in {{}, {avatar[u]}} : disk' = Written(f, gone)
        /\ torn' = torn \cup {u} /\ avatar' = avatar
Sent(k, u, p, S) ==
  /\ NewMessage(k, u, p, S)
  /\ UNCHANGED <<media, avatar, disk, torn>>
Dropped(k, M) ==
  /\ MessagesGo(k, M)
  /\ UNCHANGED <<media, avatar, disk, torn>>
Cleared ==
  /\ message' = [message EXCEPT !["support"] = [m \in Ids |-> NoMessage]]
  /\ UNCHANGED <<attached, lastId, media, avatar, disk, torn>>
Gone(S, M, rows) ==
  /\ UsersGo(S, M, rows)
  /\ \A k \in Tables : rows[k] \subseteq attached[k]
  /\ UNCHANGED <<lastId, disk, torn>>

Change ==
  /\ Typed
  /\ \/ Unmoved \/ Cleared
     \/ \E u \in Users, f \in Files : Uploaded(u, f) \/ Pictured(u, f)
     \/ \E k \in Tables, u \in Users, p \in Places, S \in SUBSET Files : Sent(k, u, p, S)
     \/ \E k \in Tables, M \in SUBSET Ids : Dropped(k, M)
     \/ \E S \in SUBSET Users, M \in [Tables -> SUBSET Ids],
           rows \in [Tables -> SUBSET (Ids \X Files)] : Gone(S, M, rows)

LEMMA Kinds ==
  /\ "chat" \in Tables /\ "support" \in Tables
  /\ Chats \subseteq Places /\ Tickets \subseteq Places /\ General \in Chats
  /\ Granted \subseteq {"user", "moderator", "guest", "admin"}
  BY MediaConstants DEF MediaConstants, Tables, Places

LEMMA FileChange ==
  ASSUME TypeOK, NEW u \in Users, FileStep(u)
  PROVE  Change
<1>1. PICK f \in Files : UploadRoute(u, f) \/ AvatarRoute(u, f)
  BY Zenon DEF FileStep
<1>2. CASE UploadRoute(u, f)
  <2>1. Uploaded(u, f) /\ UNCHANGED <<role, status, reads>>
    BY <1>2, Zenon DEF UploadRoute, Upload, UploadCut, Uploaded
  <2> QED BY <2>1 DEF Change, Typed, TypeOK
<1>3. CASE AvatarRoute(u, f)
  <2>1. Pictured(u, f) /\ UNCHANGED <<role, status, reads>>
    BY <1>3, Zenon DEF AvatarRoute, SetAvatar, SetAvatarCut, Pictured
  <2> QED BY <2>1 DEF Change, Typed, TypeOK
<1> QED BY <1>1, <1>2, <1>3

LEMMA SendChange ==
  ASSUME TypeOK, NEW u \in Users, SendStep(u)
  PROVE  Change
<1>1. PICK S \in SUBSET Files :
        \/ \E c \in Chats : PostRoute(u, c, S)
        \/ \E t \in Tickets : OpenTicket(u, t, S) \/ SendInTicket(u, t, S)
  BY Zenon DEF SendStep
<1>2. ASSUME NEW c \in Chats, PostRoute(u, c, S)
      PROVE  Change
  <2>1. Sent("chat", u, c, S) /\ UNCHANGED <<role, status, reads>>
    BY <1>2, Zenon DEF PostRoute, SendInChat, Sent
  <2> QED BY <2>1, Kinds DEF Change, Typed, TypeOK
<1>3. ASSUME NEW t \in Tickets, OpenTicket(u, t, S) \/ SendInTicket(u, t, S)
      PROVE  Change
  <2>1. Sent("support", u, t, S) /\ UNCHANGED <<role, status>>
    BY <1>3, Zenon DEF OpenTicket, SendInTicket, Sent
  <2>2. reads' \in [Places -> SUBSET Users]
    BY <1>3 DEF OpenTicket, SendInTicket, TypeOK
  <2> QED BY <2>1, <2>2, Kinds DEF Change, Typed, TypeOK
<1> QED BY <1>1, <1>2, <1>3

LEMMA DropChange ==
  ASSUME TypeOK, NEW M \in SUBSET Ids, MessagesGo("chat", M),
         UNCHANGED <<role, status, media, avatar, disk, torn>>,
         reads' = reads \/ \E C \in SUBSET Chats : ChatsGo(C)
  PROVE  Change
<1>1. Dropped("chat", M)
  BY DEF Dropped
<1>2. Typed
  BY DEF Typed, TypeOK, ChatsGo
<1> QED BY <1>1, <1>2, Kinds DEF Change

LEMMA GoneChange ==
  ASSUME TypeOK, NEW S \in SUBSET Users, NEW M \in [Tables -> SUBSET Ids],
         NEW rows \in [Tables -> SUBSET (Ids \X Files)],
         \A k \in Tables : rows[k] \subseteq attached[k],
         UsersGo(S, M, rows), UNCHANGED <<role, lastId, disk, torn>>,
         reads' \in [Places -> SUBSET Users]
  PROVE  Change
<1>1. Gone(S, M, rows)
  BY DEF Gone
<1>2. Typed
  BY DEF Typed, TypeOK, UsersGo
<1> QED BY <1>1, <1>2, Zenon DEF Change

LEMMA DeleteChange ==
  ASSUME TypeOK, NEW u \in Users, DeleteStep(u)
  PROVE  Change
<1>1. ASSUME NEW m \in Ids, DeleteRoute(u, m)
      PROVE  Change
  <2>1. {m} \in SUBSET Ids
    OBVIOUS
  <2> QED BY <1>1, <2>1, DropChange, Zenon DEF DeleteRoute, DeleteMessage
<1>2. ASSUME NEW c \in Chats, ClearChat(u, c)
      PROVE  Change
  <2>1. In("chat", {c}) \in SUBSET Ids
    BY DEF In
  <2> QED BY <1>2, <2>1, DropChange, Zenon DEF ClearChat
<1>3. ASSUME NEW c \in Chats, DeleteChat(u, c)
      PROVE  Change
  <2>1. In("chat", {c}) \in SUBSET Ids /\ {c} \in SUBSET Chats
    BY DEF In
  <2> QED BY <1>3, <2>1, DropChange, Zenon DEF DeleteChat
<1>4. ASSUME NEW c \in Chats, NEW M \in SUBSET Ids, ClearRange(u, c, M)
      PROVE  Change
  <2>1. (M \cap In("chat", {c})) \in SUBSET Ids
    OBVIOUS
  <2> QED BY <1>4, <2>1, DropChange, Zenon DEF ClearRange
<1>5. CASE ClearGlobal(u)
  BY <1>2, <1>5, Kinds, Zenon DEF ClearGlobal
<1>6. CASE DeleteAllChats(u)
  <2>1. Ids \in SUBSET Ids /\ Chats \ {General} \in SUBSET Chats
    OBVIOUS
  <2> QED BY <1>6, <2>1, DropChange, Zenon DEF DeleteAllChats
<1>7. CASE ClearSupport(u)
  <2>1. Cleared
    BY <1>7, Zenon DEF ClearSupport, Cleared
  <2>2. Typed
    BY <1>7 DEF ClearSupport, Typed, TypeOK
  <2> QED BY <2>1, <2>2, Zenon DEF Change
<1>8. None \in [Tables -> SUBSET Ids] /\ attached \in [Tables -> SUBSET (Ids \X Files)]
  BY DEF None, TypeOK
<1>9. CASE DeleteUser(u)
  <2>1. {u} \in SUBSET Users
    OBVIOUS
  <2>2. reads' \in [Places -> SUBSET Users]
    BY <1>9 DEF DeleteUser, TypeOK
  <2>3. UsersGo({u}, None, attached) /\ UNCHANGED <<role, lastId, disk, torn>>
    BY <1>9, Zenon DEF DeleteUser
  <2> QED BY <1>8, <2>1, <2>2, <2>3, GoneChange
<1>10. CASE DeleteAllUsers(u)
  <2>1. Users \ {u} \in SUBSET Users
    OBVIOUS
  <2>2. reads' \in [Places -> SUBSET Users]
    BY <1>10 DEF DeleteAllUsers, TypeOK
  <2>3. UsersGo(Users \ {u}, None, attached) /\ UNCHANGED <<role, lastId, disk, torn>>
    BY <1>10, Zenon DEF DeleteAllUsers
  <2> QED BY <1>8, <2>1, <2>2, <2>3, GoneChange
<1>11. CASE FullReset(u)
  <2> DEFINE S == {v \in Users : ~IsAdmin(v)}
             M == [None EXCEPT !["chat"] = Ids]
             rows == [attached EXCEPT !["chat"] = {}]
  <2>1. S \in SUBSET Users
    OBVIOUS
  <2>2. reads' \in [Places -> SUBSET Users]
    BY <1>11 DEF FullReset, TypeOK
  <2>3. UsersGo(S, M, rows) /\ UNCHANGED <<role, lastId, disk, torn>>
    BY <1>11, Zenon DEF FullReset
  <2>4. M \in [Tables -> SUBSET Ids]
    BY <1>8
  <2>5. rows \in [Tables -> SUBSET (Ids \X Files)] /\ \A k \in Tables : rows[k] \subseteq attached[k]
    BY <1>8
  <2> HIDE DEF S, M, rows
  <2> QED BY <2>1, <2>2, <2>3, <2>4, <2>5, GoneChange
<1> QED BY <1>1, <1>2, <1>3, <1>4, <1>5, <1>6, <1>7, <1>9, <1>10, <1>11, Zenon DEF DeleteStep

LEMMA OtherChange ==
  ASSUME TypeOK, NEW u \in Users, OtherStep(u)
  PROVE  Change
<1>1. Unmoved
  BY Zenon DEF OtherStep, ChangeReaders, Appear, Restrict, SetRole, Unmoved
<1>2. Typed => Change
  BY <1>1, Zenon DEF Change
<1>3. ASSUME NEW c \in Chats, ChangeReaders(c, u)
      PROVE  Typed
  <2>1. reads' \in [Places -> SUBSET Users]
    BY <1>3, Kinds DEF ChangeReaders, TypeOK
  <2> QED BY <1>3, <2>1 DEF ChangeReaders, Typed, TypeOK
<1>4. ASSUME Appear(u) \/ Restrict(u)
      PROVE  Typed
  <2>1. CASE Appear(u)
    BY <2>1 DEF Appear, Typed, TypeOK
  <2>2. CASE Restrict(u)
    <3>1. PICK new \in {"active", "off"} : status' = [status EXCEPT ![u] = new]
      BY <2>2 DEF Restrict
    <3>2. role' = role /\ reads' = reads
      BY <2>2 DEF Restrict
    <3> QED BY <3>1, <3>2 DEF Typed, TypeOK
  <2> QED BY <1>4, <2>1, <2>2
<1>5. ASSUME NEW new \in Granted, SetRole(u, new)
      PROVE  Typed
  BY <1>5, Kinds DEF SetRole, Typed, TypeOK
<1> QED BY <1>2, <1>3, <1>4, <1>5, Zenon DEF OtherStep

LEMMA NextChange ==
  ASSUME TypeOK, Next
  PROVE  Change
  BY FileChange, SendChange, DeleteChange, OtherChange, Zenon DEF Next

-----------------------------------------------------------------------------
(* Types. *)
LEMMA RowTypes ==
  /\ NoMessage \in MessageRows
  /\ \A p \in Places, u \in Users : [place |-> p, author |-> u] \in MessageRows
  BY DEF NoMessage, MessageRows

LEMMA TypeInit == ASSUME Init PROVE TypeOK
<1>1. /\ role \in [Users -> {"admin", "moderator", "user", "guest"}]
      /\ status \in [Users -> {"absent", "active", "off"}]
      /\ reads \in [Places -> SUBSET Users]
  BY DEF Init
<1>2. message \in [Tables -> [Ids -> MessageRows]]
  BY RowTypes DEF Init
<1>3. /\ attached \in [Tables -> SUBSET (Ids \X Files)]
      /\ lastId \in [Tables -> 0..MaxMessages]
  BY MediaConstants DEF MediaConstants, Init
<1>4. /\ media \in [Files -> Users \cup {NoUser}] /\ avatar \in [Users -> Files \cup {NoFile}]
      /\ disk \in [Files -> {"new", "there", "gone"}] /\ torn \subseteq Users
  BY DEF Init
<1> QED BY <1>1, <1>2, <1>3, <1>4 DEF TypeOK

(* What a new message is, by columns. *)
LEMMA SentEffect ==
  ASSUME TypeOK, NEW k \in Tables, NEW u \in Users, NEW p \in Places, NEW S \in SUBSET Files,
         Sent(k, u, p, S)
  PROVE  \E m \in Ids :
           /\ m = lastId[k] + 1
           /\ lastId' = [lastId EXCEPT ![k] = m] /\ m \in 0..MaxMessages
           /\ message' = [message EXCEPT ![k] =
                [message[k] EXCEPT ![m] = [place |-> p, author |-> u]]]
           /\ attached' = [attached EXCEPT ![k] = attached[k] \cup {<<m, f>> : f \in S}]
           /\ \A f \in S : media[f] = u
           /\ UNCHANGED <<media, avatar, disk, torn>>
<1>1. lastId[k] \in 0..MaxMessages /\ lastId[k] < MaxMessages
  BY DEF TypeOK, Sent, NewMessage
<1>2. lastId[k] + 1 \in Ids /\ lastId[k] + 1 \in 0..MaxMessages
  BY <1>1, MediaConstants DEF MediaConstants, Ids
<1> QED BY <1>2 DEF Sent, NewMessage, MayAttach

LEMMA TypeNext ==
  ASSUME TypeOK, [Next]_vars
  PROVE  TypeOK'
<1> DEFINE Files1 == /\ message \in [Tables -> [Ids -> MessageRows]]
                     /\ attached \in [Tables -> SUBSET (Ids \X Files)]
                     /\ lastId \in [Tables -> 0..MaxMessages]
           Files2 == /\ media \in [Files -> Users \cup {NoUser}]
                     /\ avatar \in [Users -> Files \cup {NoFile}]
                     /\ disk \in [Files -> {"new", "there", "gone"}]
                     /\ torn \subseteq Users
<1>1. Files1 /\ Files2
  BY DEF TypeOK
<1>2. (Typed /\ Files1' /\ Files2') => TypeOK'
  BY DEF Typed, TypeOK
<1>3. CASE UNCHANGED vars
  BY <1>3 DEF vars, TypeOK
<1>4. UNCHANGED <<message, attached, lastId>> => Files1'
  BY <1>1
<1>5. UNCHANGED <<media, avatar, disk, torn>> => Files2'
  BY <1>1
<1>6. ASSUME NEW u \in Users, NEW f \in Files, Uploaded(u, f)
      PROVE  Files1' /\ Files2'
  BY <1>1, <1>6 DEF Uploaded
<1>7. ASSUME NEW u \in Users, NEW f \in Files, Pictured(u, f)
      PROVE  Files1' /\ Files2'
  <2>1. disk' \in [Files -> {"new", "there", "gone"}]
    BY <1>1, <1>7 DEF Pictured, Written
  <2> QED BY <1>1, <1>4, <1>7, <2>1 DEF Pictured
<1>8. ASSUME NEW k \in Tables, NEW u \in Users, NEW p \in Places, NEW S \in SUBSET Files,
             Sent(k, u, p, S)
      PROVE  Files1' /\ Files2'
  <2>1. PICK m \in Ids :
           /\ lastId' = [lastId EXCEPT ![k] = m] /\ m \in 0..MaxMessages
           /\ message' = [message EXCEPT ![k] =
                [message[k] EXCEPT ![m] = [place |-> p, author |-> u]]]
           /\ attached' = [attached EXCEPT ![k] = attached[k] \cup {<<m, f>> : f \in S}]
           /\ UNCHANGED <<media, avatar, disk, torn>>
    BY <1>8, SentEffect
  <2>2. [message[k] EXCEPT ![m] = [place |-> p, author |-> u]] \in [Ids -> MessageRows]
    BY <1>1, RowTypes
  <2>3. attached[k] \cup {<<m, f>> : f \in S} \in SUBSET (Ids \X Files)
    BY <1>1
  <2>4. message' \in [Tables -> [Ids -> MessageRows]]
    BY <1>1, <2>1, <2>2, Zenon
  <2>5. attached' \in [Tables -> SUBSET (Ids \X Files)] /\ lastId' \in [Tables -> 0..MaxMessages]
    BY <1>1, <2>1, <2>3
  <2> QED BY <1>5, <2>1, <2>4, <2>5
<1>9. ASSUME NEW k \in Tables, NEW M \in SUBSET Ids, Dropped(k, M)
      PROVE  Files1' /\ Files2'
  <2>1. [m \in Ids |-> IF m \in M THEN NoMessage ELSE message[k][m]] \in [Ids -> MessageRows]
    BY <1>1, RowTypes
  <2>2. message' \in [Tables -> [Ids -> MessageRows]]
    BY <1>1, <1>9, <2>1 DEF Dropped, MessagesGo
  <2>3. attached' \in [Tables -> SUBSET (Ids \X Files)]
    BY <1>1, <1>9 DEF Dropped, MessagesGo
  <2> QED BY <1>1, <1>5, <1>9, <2>2, <2>3 DEF Dropped, MessagesGo
<1>10. ASSUME Cleared
       PROVE  Files1' /\ Files2'
  <2>1. [m \in Ids |-> NoMessage] \in [Ids -> MessageRows]
    BY RowTypes
  <2>2. message' \in [Tables -> [Ids -> MessageRows]]
    BY <1>1, <1>10, <2>1 DEF Cleared
  <2> QED BY <1>1, <1>5, <1>10, <2>2 DEF Cleared
<1>11. ASSUME NEW S \in SUBSET Users, NEW M \in [Tables -> SUBSET Ids],
              NEW rows \in [Tables -> SUBSET (Ids \X Files)], Gone(S, M, rows)
       PROVE  Files1' /\ Files2'
  <2>1. message' \in [Tables -> [Ids -> MessageRows]]
    BY <1>1, <1>11, RowTypes DEF Gone, UsersGo
  <2>2. attached' \in [Tables -> SUBSET (Ids \X Files)]
    BY <1>1, <1>11 DEF Gone, UsersGo
  <2>3. Files2'
    BY <1>1, <1>11 DEF Gone, UsersGo
  <2> QED BY <1>1, <1>11, <2>1, <2>2, <2>3 DEF Gone
<1> HIDE DEF Files1, Files2
<1>12. CASE Next
  <2>1. Typed
    BY <1>12, NextChange, Zenon DEF Change
  <2>2. Unmoved => Files1' /\ Files2'
    BY <1>4, <1>5 DEF Unmoved
  <2>3. Files1' /\ Files2'
    BY <1>6, <1>7, <1>8, <1>9, <1>10, <1>11, <1>12, <2>2, NextChange, Zenon DEF Change
  <2> QED BY <1>2, <2>1, <2>3
<1> QED BY <1>3, <1>12

(* The tables keep their types, whatever the bounds. *)
THEOREM TypeCorrect == Spec => []TypeOK
<1>1. Init => TypeOK
  BY TypeInit
<1>2. TypeOK /\ [Next]_vars => TypeOK'
  BY TypeNext
<1> QED BY <1>1, <1>2, PTL DEF Spec

-----------------------------------------------------------------------------
(* Why the files are there: a name is used once, for an upload or for one  *)
(* account's avatar, so that no change of an avatar unlinks another's.     *)
Kept ==
  /\ \A f \in Files : media[f] # NoUser => disk[f] = "there"
  /\ \A u \in Users : avatar[u] # NoFile =>
       /\ media[avatar[u]] = NoUser /\ disk[avatar[u]] # "new"
       /\ u \notin torn => disk[avatar[u]] = "there"
  /\ \A u, v \in Users : avatar[u] = avatar[v] /\ avatar[u] # NoFile => u = v

(* Why a row is its message's: AUTOINCREMENT gives no id twice, so that a  *)
(* row that outlived its message stays behind the counter.                 *)
Rows ==
  \A k \in Tables : \A a \in attached[k] :
    /\ a[1] <= lastId[k] /\ media[a[2]] # NoUser
    /\ message[k][a[1]].place # NoPlace => media[a[2]] = message[k][a[1]].author

LEMMA ColumnTypes ==
  ASSUME TypeOK
  PROVE  /\ NoUser \notin Users /\ NoFile \notin Files
         /\ media \in [Files -> Users \cup {NoUser}]
         /\ avatar \in [Users -> Files \cup {NoFile}]
         /\ disk \in [Files -> {"new", "there", "gone"}] /\ torn \subseteq Users
         /\ \A k \in Tables : attached[k] \subseteq Ids \X Files /\ lastId[k] \in Nat
         /\ Ids \subseteq Nat
  BY MediaConstants DEF MediaConstants, TypeOK, Ids

LEMMA KeptNext ==
  ASSUME TypeOK, Kept, Change
  PROVE  Kept'
<1>1. ASSUME UNCHANGED <<media, avatar, disk, torn>>
      PROVE  Kept'
  BY <1>1 DEF Kept
<1>2. ASSUME NEW u \in Users, NEW f \in Files, Uploaded(u, f)
      PROVE  Kept'
  <2>1. \A v \in Users : avatar[v] # f
    BY <1>2, ColumnTypes DEF Uploaded, Kept
  <2> QED BY <1>2, <2>1, ColumnTypes DEF Uploaded, Kept
<1>3. ASSUME NEW u \in Users, NEW f \in Files, Pictured(u, f)
      PROVE  Kept'
  <2>1. /\ \A v \in Users : avatar[v] # f
        /\ media[f] = NoUser /\ media' = media
    BY <1>3, ColumnTypes DEF Pictured, Kept
  <2>2. PICK gone \in {{}, {avatar[u]}} : disk' = Written(f, gone)
    BY <1>3 DEF Pictured
  <2>3. disk'[f] = "there" /\ \A g \in Files : g # f /\ g # avatar[u] => disk'[g] = disk[g]
    BY <2>2 DEF Written
  <2>4. avatar[u] # NoFile => disk'[avatar[u]] # "new"
    BY <2>1, <2>2, ColumnTypes DEF Written, Kept
  <2>5. \A g \in Files : media[g] # NoUser => disk'[g] = "there"
    <3> SUFFICES ASSUME NEW g \in Files, media[g] # NoUser
                 PROVE  disk'[g] = "there"
      OBVIOUS
    <3>1. g # f /\ g # avatar[u]
      BY <2>1, ColumnTypes DEF Kept
    <3> QED BY <2>3, <3>1 DEF Kept
  <2>6. \A v \in Users : v # u /\ avatar[v] # NoFile => disk'[avatar[v]] = disk[avatar[v]]
    BY <2>1, <2>3, ColumnTypes DEF Kept
  <2>7. CASE avatar' = [avatar EXCEPT ![u] = f] /\ torn' = torn \ {u}
    BY <2>1, <2>3, <2>5, <2>6, <2>7, ColumnTypes DEF Kept
  <2>8. CASE avatar' = avatar /\ torn' = torn \cup {u}
    BY <2>1, <2>4, <2>5, <2>6, <2>8, ColumnTypes DEF Kept
  <2> QED BY <1>3, <2>7, <2>8 DEF Pictured
<1>4. ASSUME NEW k \in Tables, NEW u \in Users, NEW p \in Places, NEW S \in SUBSET Files,
             Sent(k, u, p, S)
      PROVE  Kept'
  BY <1>1, <1>4, Zenon DEF Sent
<1>5. ASSUME NEW k \in Tables, NEW M \in SUBSET Ids, Dropped(k, M)
      PROVE  Kept'
  BY <1>1, <1>5, Zenon DEF Dropped
<1>6. Unmoved \/ Cleared => Kept'
  BY <1>1, Zenon DEF Unmoved, Cleared
<1>7. ASSUME NEW S \in SUBSET Users, NEW M \in [Tables -> SUBSET Ids],
             NEW rows \in [Tables -> SUBSET (Ids \X Files)], Gone(S, M, rows)
      PROVE  Kept'
  <2>1. /\ media' = [f \in Files |-> IF media[f] \in S THEN NoUser ELSE media[f]]
        /\ avatar' = [u \in Users |-> IF u \in S THEN NoFile ELSE avatar[u]]
        /\ disk' = disk /\ torn' = torn
    BY <1>7, Zenon DEF Gone, UsersGo
  <2> QED BY <2>1, ColumnTypes DEF Kept
<1> QED BY <1>2, <1>3, <1>4, <1>5, <1>6, <1>7, Zenon DEF Change

LEMMA RowsNext ==
  ASSUME TypeOK, Kept, Rows, Change
  PROVE  Rows'
<1>1. ASSUME UNCHANGED <<message, attached, lastId, media>>
      PROVE  Rows'
  BY <1>1 DEF Rows
<1>2. ASSUME NEW u \in Users, NEW f \in Files, Uploaded(u, f)
      PROVE  Rows'
  <2>1. media[f] = NoUser
    BY <1>2, ColumnTypes DEF Uploaded, Kept
  <2>2. \A k \in Tables : \A a \in attached[k] : a[2] # f /\ a[2] \in Files
    BY <2>1, ColumnTypes DEF Rows
  <2>3. \A k \in Tables : \A a \in attached[k] : media'[a[2]] = media[a[2]]
    BY <1>2, <2>2, ColumnTypes DEF Uploaded
  <2>4. UNCHANGED <<message, attached, lastId>>
    BY <1>2 DEF Uploaded
  <2> QED BY <2>3, <2>4 DEF Rows
<1>3. ASSUME NEW u \in Users, NEW f \in Files, Pictured(u, f)
      PROVE  Rows'
  BY <1>1, <1>3 DEF Pictured
<1>4. ASSUME NEW k \in Tables, NEW u \in Users, NEW p \in Places, NEW S \in SUBSET Files,
             Sent(k, u, p, S)
      PROVE  Rows'
  <2>1. PICK m \in Ids :
          /\ m = lastId[k] + 1 /\ lastId' = [lastId EXCEPT ![k] = m]
          /\ message' = [message EXCEPT ![k] =
               [message[k] EXCEPT ![m] = [place |-> p, author |-> u]]]
          /\ attached' = [attached EXCEPT ![k] = attached[k] \cup {<<m, f>> : f \in S}]
          /\ (\A f \in S : media[f] = u) /\ media' = media
    BY <1>4, SentEffect
  <2>2. ASSUME NEW j \in Tables, NEW a \in attached'[j]
        PROVE  /\ a[1] <= lastId'[j] /\ media'[a[2]] # NoUser
               /\ message'[j][a[1]].place # NoPlace => media'[a[2]] = message'[j][a[1]].author
    <3>1. CASE j # k
      <4>1. /\ attached'[j] = attached[j] /\ lastId'[j] = lastId[j] /\ message'[j] = message[j]
        BY <2>1, <3>1 DEF TypeOK
      <4> QED BY <2>1, <2>2, <4>1 DEF Rows
    <3>2. CASE j = k /\ a \in attached[k]
      <4>1. a[1] \in Ids /\ a[1] <= lastId[k]
        BY <3>2, ColumnTypes DEF Rows
      <4>2. a[1] # m /\ lastId'[k] = m /\ a[1] <= m
        <5>1. lastId'[k] = m
          BY <2>1 DEF TypeOK
        <5>2. a[1] \in Nat /\ lastId[k] \in Nat /\ m = lastId[k] + 1
          BY <2>1, <4>1, ColumnTypes
        <5> QED BY <4>1, <5>1, <5>2
      <4>3. message'[k][a[1]] = message[k][a[1]]
        BY <2>1, <4>1, <4>2 DEF TypeOK
      <4> QED BY <2>1, <3>2, <4>2, <4>3 DEF Rows
    <3>3. CASE j = k /\ a \in {<<m, f>> : f \in S}
      <4>1. PICK f \in S : a = <<m, f>>
        BY <3>3
      <4>2. message'[k][m] = [place |-> p, author |-> u] /\ lastId'[k] = m
        BY <2>1 DEF TypeOK
      <4>3. m <= m
        BY <2>1, ColumnTypes
      <4> QED BY <2>1, <3>3, <4>1, <4>2, <4>3, ColumnTypes
    <3>4. attached'[k] = attached[k] \cup {<<m, f>> : f \in S}
      BY <2>1 DEF TypeOK
    <3> QED BY <2>2, <3>1, <3>2, <3>3, <3>4
  <2> QED BY <2>2 DEF Rows, Tables
<1>5. ASSUME NEW k \in Tables, NEW M \in SUBSET Ids, Dropped(k, M)
      PROVE  Rows'
  <2>1. /\ lastId' = lastId /\ media' = media
        /\ \A j \in Tables : j # k => attached'[j] = attached[j] /\ message'[j] = message[j]
        /\ attached'[k] = {a \in attached[k] : a[1] \notin M}
    BY <1>5 DEF Dropped, MessagesGo, TypeOK
  <2>2. \A m \in Ids : m \notin M => message'[k][m] = message[k][m]
    BY <1>5 DEF Dropped, MessagesGo, TypeOK
  <2>3. \A a \in attached[k] : a[1] \in Ids
    BY ColumnTypes
  <2> QED BY <2>1, <2>2, <2>3 DEF Rows, Tables
<1>6. ASSUME Cleared
      PROVE  Rows'
  <2>1. UNCHANGED <<attached, lastId, media>>
    BY <1>6 DEF Cleared
  <2>2. \A k \in Tables, m \in Ids : message'[k][m].place # NoPlace => message'[k][m] = message[k][m]
    BY <1>6 DEF Cleared, TypeOK, NoMessage
  <2>3. \A k \in Tables : \A a \in attached[k] : a[1] \in Ids
    BY ColumnTypes
  <2> QED BY <2>1, <2>2, <2>3 DEF Rows, Tables
<1>7. ASSUME NEW S \in SUBSET Users, NEW M \in [Tables -> SUBSET Ids],
             NEW rows \in [Tables -> SUBSET (Ids \X Files)], Gone(S, M, rows)
      PROVE  Rows'
  <2>1. lastId' = lastId
    BY <1>7 DEF Gone
  <2>2. \A k \in Tables : \A a \in attached'[k] : a \in attached[k] /\ a \in rows[k]
    BY <1>7 DEF Gone, UsersGo
  <2>3. \A k \in Tables : \A a \in attached'[k] : a[2] \in Files /\ media[a[2]] \notin S
    BY <1>7, <2>2, ColumnTypes DEF Gone, UsersGo, FreeOfAttachments, FilesOf
  <2>4. \A k \in Tables : \A a \in attached'[k] : media'[a[2]] = media[a[2]]
    BY <1>7, <2>3 DEF Gone, UsersGo
  <2>5. \A k \in Tables, m \in Ids : message'[k][m].place # NoPlace => message'[k][m] = message[k][m]
    BY <1>7 DEF Gone, UsersGo, NoMessage
  <2>6. \A k \in Tables : \A a \in attached[k] : a[1] \in Ids
    BY ColumnTypes
  <2> QED BY <2>1, <2>2, <2>4, <2>5, <2>6 DEF Rows, Tables
<1>8. Unmoved => Rows'
  BY <1>1, Zenon DEF Unmoved
<1> QED BY <1>2, <1>3, <1>4, <1>5, <1>6, <1>7, <1>8, Zenon DEF Change

LEMMA IndInit ==
  ASSUME Init
  PROVE  TypeOK /\ Kept /\ Rows
  BY TypeInit DEF Init, Kept, Rows

LEMMA IndNext ==
  ASSUME TypeOK, Kept, Rows, [Next]_vars
  PROVE  TypeOK' /\ Kept' /\ Rows'
<1>1. TypeOK'
  BY TypeNext
<1>2. CASE Next
  BY <1>1, <1>2, NextChange, KeptNext, RowsNext
<1>3. CASE UNCHANGED vars
  BY <1>1, <1>3 DEF vars, Kept, Rows
<1> QED BY <1>2, <1>3

(* Every file that a row names is there, whichever requests were cut       *)
(* short, but for the avatars whose own change was.                        *)
THEOREM FilesCorrect == Spec => []FilesExist
<1>1. Init => TypeOK /\ Kept /\ Rows
  BY IndInit
<1>2. TypeOK /\ Kept /\ Rows /\ [Next]_vars => TypeOK' /\ Kept' /\ Rows'
  BY IndNext
<1>3. Kept /\ Rows => FilesExist
  BY DEF Kept, Rows, FilesExist
<1> QED BY <1>1, <1>2, <1>3, PTL DEF Spec

LEMMA RowsShare ==
  ASSUME TypeOK, Rows
  PROVE  DownloadsAreShared
<1>1. ASSUME NEW k \in Tables, NEW m \in Live(k), NEW f \in Files, <<m, f>> \in attached[k]
      PROVE  media[f] = message[k][m].author
  <2>1. message[k][m].place # NoPlace
    BY DEF Live
  <2> QED BY <1>1, <2>1 DEF Rows
<1>2. \A k \in Tables : \A m \in Live(k) : \A f \in Attachments(k, m) :
        media[f] = message[k][m].author
  BY <1>1 DEF Attachments
<1>3. ASSUME NEW u \in Users, NEW f \in Files, NEW k \in Tables, Shown(k, u, f)
      PROVE  \E j \in Tables : \E m \in Live(j) :
               /\ message[j][m].author = media[f] /\ u \in reads[message[j][m].place]
               /\ <<m, f>> \in attached[j]
  BY <1>1, <1>3 DEF Shown
<1> QED BY <1>2, <1>3, Kinds DEF DownloadsAreShared, MayDownload

(* A file is handed out, or shown at a message, where its owner put it:    *)
(* the rows that clear_support leaves behind are nobody else's later.      *)
THEOREM DownloadsCorrect == Spec => []DownloadsAreShared
<1>1. Init => TypeOK /\ Kept /\ Rows
  BY IndInit
<1>2. TypeOK /\ Kept /\ Rows /\ [Next]_vars => TypeOK' /\ Kept' /\ Rows'
  BY IndNext
<1>3. TypeOK /\ Rows => DownloadsAreShared
  BY RowsShare
<1> QED BY <1>1, <1>2, <1>3, PTL DEF Spec
=============================================================================
