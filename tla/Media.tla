---------------------------------- MODULE Media ---------------------------------
(***************************************************************************)
(* Uploaded files: the tables media_attachments, chat_message_attachments  *)
(* and support_message_attachments, the avatars of users, and the files    *)
(* themselves, as MediaService, AccountService and the attaching parts of  *)
(* ChatService and SupportService change them, and the deletions of chat   *)
(* messages that take attachments along.                                   *)
(*                                                                         *)
(* A file and the row that names it are written one after the other, and a *)
(* crash may come in between: an action whose name ends in Cut is a        *)
(* request that the process did not survive, or whose transaction did not  *)
(* commit.  All other requests are one step.                               *)
(***************************************************************************)
EXTENDS Naturals, FiniteSets

CONSTANTS
  Users, Admins,
  Granted,        \* bound: the roles that staff grants
  Chats, General, \* chats, and the common one
  Tickets,
  Files, NoFile,  \* names on disk: uuid4 or token_hex makes them unique
  NoUser, NoPlace,
  MaxPerMessage,  \* MAX_ATTACHMENTS_PER_MESSAGE
  MaxMessages     \* bound: message ids given out in each table

ASSUME MediaConstants ==
  /\ Admins \subseteq Users /\ NoUser \notin Users
  /\ Granted \subseteq {"user", "moderator", "guest", "admin"}
  /\ General \in Chats /\ Chats \cap Tickets = {} /\ NoPlace \notin Chats \cup Tickets
  /\ NoFile \notin Files
  /\ MaxPerMessage \in Nat /\ MaxMessages \in Nat

VARIABLES
  role, status,  \* of users; status "absent" stands for no row
  reads,         \* by chat and ticket: who sees it without being an admin
  message,       \* chat_messages and support_messages, by table and id
  attached,      \* the two tables of attachments: pairs of message id and file
  lastId,        \* the AUTOINCREMENT counters of the two tables of messages
  media,         \* media_attachments.owner_user_id, by file
  avatar,        \* users.avatar_path
  disk,          \* by name: not written yet, there, or unlinked
  torn           \* no column: accounts whose change of avatar was cut short

vars == <<role, status, reads, message, attached, lastId, media, avatar, disk, torn>>

Places == Chats \cup Tickets
Ids == 1..MaxMessages
Tables == {"chat", "support"}
PlacesOf(k) == IF k = "chat" THEN Chats ELSE Tickets
MessageRows == [place : Places \cup {NoPlace}, author : Users \cup {NoUser}]
NoMessage == [place |-> NoPlace, author |-> NoUser]

Init ==
  /\ role = [u \in Users |-> IF u \in Admins THEN "admin" ELSE "user"]
  /\ status = [u \in Users |-> "active"]
  /\ reads = [p \in Places |-> IF p = General THEN Users ELSE {}]
  /\ message = [k \in Tables |-> [m \in Ids |-> NoMessage]]
  /\ attached = [k \in Tables |-> {}]
  /\ lastId = [k \in Tables |-> 0]
  /\ media = [f \in Files |-> NoUser]
  /\ avatar = [u \in Users |-> NoFile]
  /\ disk = [f \in Files |-> "new"]
  /\ torn = {}

-----------------------------------------------------------------------------
(* The services' own checks, and what get_session lets through. *)
Active(u) == status[u] = "active"
Signed(u) == status[u] = "active"
IsAdmin(u) == role[u] = "admin"
Live(k) == {m \in Ids : message[k][m].place # NoPlace}
In(k, P) == {m \in Ids : message[k][m].place \in P}

-----------------------------------------------------------------------------
(* create_attachment: the account is read again after the upload has been  *)
(* awaited, then the file is written and the row inserted.                 *)
(* Mutant of the cut: the row comes first.                                 *)
Upload(u, f) ==
  /\ Active(u) /\ disk[f] = "new"
  /\ disk' = [disk EXCEPT ![f] = "there"]
  /\ media' = [media EXCEPT ![f] = u]
  /\ UNCHANGED <<role, status, reads, message, attached, lastId, avatar, torn>>
UploadCutRowFirst(u, f) ==
  /\ Active(u) /\ disk[f] = "new"
  /\ media' = [media EXCEPT ![f] = u]
  /\ UNCHANGED <<role, status, reads, message, attached, lastId, avatar, torn, disk>>
UploadCut(u, f) ==
  /\ Active(u) /\ disk[f] = "new"
  /\ disk' = [disk EXCEPT ![f] = "there"]
  /\ UNCHANGED <<role, status, reads, message, attached, lastId, avatar, torn, media>>

(* upload_attachment awaits the upload between get_session and the service, *)
(* whose check alone counts.                                               *)
UploadRoute(u, f) == Upload(u, f) \/ UploadCut(u, f)

(* set_avatar: the new file, the row, and then the old file is unlinked,   *)
(* before the transaction commits.  A cut leaves the row as it was, the    *)
(* new file, and the old one or not.                                       *)
Written(f, gone) ==
  [g \in Files |-> IF g = f THEN "there" ELSE IF g \in gone THEN "gone" ELSE disk[g]]
MayChangeProfile(u) == Active(u) /\ role[u] # "guest"
SetAvatar(u, f) ==
  /\ MayChangeProfile(u) /\ disk[f] = "new"
  /\ disk' = Written(f, {avatar[u]})
  /\ avatar' = [avatar EXCEPT ![u] = f]
  /\ torn' = torn \ {u}
  /\ UNCHANGED <<role, status, reads, message, attached, lastId, media>>
SetAvatarCut(u, f) ==
  /\ MayChangeProfile(u) /\ disk[f] = "new"
  /\ \E gone \in {{}, {avatar[u]}} : disk' = Written(f, gone)
  /\ torn' = torn \cup {u}
  /\ UNCHANGED <<role, status, reads, message, attached, lastId, media, avatar>>
AvatarRoute(u, f) == Signed(u) /\ (SetAvatar(u, f) \/ SetAvatarCut(u, f))

-----------------------------------------------------------------------------
(* _attach_media_to_message of both services.  A file of another account   *)
(* refuses the message as a whole.  Mutant: any file is accepted.          *)
MayAttachAny(u, S) == \A f \in S : media[f] # NoUser
MayAttach(u, S) == \A f \in S : media[f] = u
NewMessage(k, u, p, S) ==
  /\ lastId[k] < MaxMessages
  /\ Cardinality(S) <= MaxPerMessage /\ MayAttach(u, S)
  /\ lastId' = [lastId EXCEPT ![k] = @ + 1]
  /\ message' = [message EXCEPT ![k][lastId[k] + 1] = [place |-> p, author |-> u]]
  /\ attached' = [attached EXCEPT ![k] = @ \cup {<<lastId[k] + 1, f>> : f \in S}]

SendInChat(u, c, S) ==
  /\ Active(u) /\ (IsAdmin(u) \/ u \in reads[c])
  /\ NewMessage("chat", u, c, S)
  /\ UNCHANGED <<role, status, reads, media, avatar, disk, torn>>
PostRoute(u, c, S) == Signed(u) /\ SendInChat(u, c, S)

SupportUser(u) == Active(u) /\ role[u] # "guest"
OpenTicket(u, t, S) ==
  /\ SupportUser(u) /\ reads[t] = {}
  /\ NewMessage("support", u, t, S)
  /\ reads' = [reads EXCEPT ![t] = {u}]
  /\ UNCHANGED <<role, status, media, avatar, disk, torn>>
SendInTicket(u, t, S) ==
  /\ SupportUser(u) /\ reads[t] # {} /\ (IsAdmin(u) \/ u \in reads[t])
  /\ NewMessage("support", u, t, S)
  /\ UNCHANGED <<role, status, reads, media, avatar, disk, torn>>

-----------------------------------------------------------------------------
(* The messages of M in table k go, with their rows of attachments. *)
MessagesGo(k, M) ==
  /\ message' = [message EXCEPT ![k] = [m \in Ids |-> IF m \in M THEN NoMessage ELSE @[m]]]
  /\ attached' = [attached EXCEPT ![k] = {a \in @ : a[1] \notin M}]
  /\ UNCHANGED lastId
ChatsGo(C) == reads' = [p \in Places |-> IF p \in C THEN {} ELSE reads[p]]

(* delete_message asks for staff or the author, its route for staff. *)
Staff(u) == role[u] \in {"admin", "moderator"}
DeleteMessage(u, m) ==
  /\ m \in Live("chat")
  /\ message["chat"][m].author = u \/ Staff(u)
  /\ MessagesGo("chat", {m})
  /\ UNCHANGED <<role, status, reads, media, avatar, disk, torn>>
DeleteRoute(u, m) == Signed(u) /\ Staff(u) /\ DeleteMessage(u, m)

(* _require_admin of api/chat.py, and what its cleanup routes call. *)
CleanupAdmin(u) == Active(u) /\ IsAdmin(u)
ClearChat(u, c) ==
  /\ CleanupAdmin(u)
  /\ MessagesGo("chat", In("chat", {c}))
  /\ UNCHANGED <<role, status, reads, media, avatar, disk, torn>>
(* A range of dates takes some of the chat's messages: clocks may step     *)
(* back, so that any of them can be in it.                                 *)
ClearRange(u, c, M) ==
  /\ CleanupAdmin(u)
  /\ MessagesGo("chat", M \cap In("chat", {c}))
  /\ UNCHANGED <<role, status, reads, media, avatar, disk, torn>>
ClearGlobal(u) == ClearChat(u, General)
DeleteChat(u, c) ==
  /\ CleanupAdmin(u)
  /\ MessagesGo("chat", In("chat", {c})) /\ ChatsGo({c})
  /\ UNCHANGED <<role, status, media, avatar, disk, torn>>
DeleteAllChats(u) ==
  /\ CleanupAdmin(u)
  /\ MessagesGo("chat", Ids) /\ ChatsGo(Chats \ {General})
  /\ UNCHANGED <<role, status, media, avatar, disk, torn>>

(* clear_support deletes over a connection that does not enforce foreign   *)
(* keys: the rows of support_message_attachments stay, and name messages   *)
(* that no longer exist.                                                   *)
ClearSupport(u) ==
  /\ CleanupAdmin(u)
  /\ message' = [message EXCEPT !["support"] = [m \in Ids |-> NoMessage]]
  /\ reads' = [p \in Places |-> IF p \in Tickets THEN {} ELSE reads[p]]
  /\ UNCHANGED <<role, status, attached, lastId, media, avatar, disk, torn>>

-----------------------------------------------------------------------------
(* The rows of S go.  media_attachments, messages, tickets and their       *)
(* messages go with them (ON DELETE CASCADE), but a row of attachments     *)
(* that names one of their files refuses it (ON DELETE RESTRICT), be its   *)
(* message theirs or gone.                                                 *)
FilesOf(S) == {f \in Files : media[f] \in S}
FreeOfAttachments(S, rows) == \A k \in Tables : \A a \in rows[k] : a[2] \notin FilesOf(S)
Lost(k, S) ==
  {m \in Live(k) : \/ message[k][m].author \in S
                   \/ k = "support" /\ reads[message[k][m].place] \subseteq S}
UsersGo(S, M, rows) ==
  /\ FreeOfAttachments(S, rows)
  /\ status' = [u \in Users |-> IF u \in S THEN "absent" ELSE status[u]]
  /\ media' = [f \in Files |-> IF media[f] \in S THEN NoUser ELSE media[f]]
  /\ avatar' = [u \in Users |-> IF u \in S THEN NoFile ELSE avatar[u]]
  /\ message' = [k \in Tables |-> [m \in Ids |->
       IF m \in Lost(k, S) \cup M[k] THEN NoMessage ELSE message[k][m]]]
  /\ attached' = [k \in Tables |-> {a \in rows[k] : a[1] \notin Lost(k, S)}]

(* delete_user, whoever calls it (module Access), and the two routes of    *)
(* api/chat.py.  full_reset empties the chats first.                       *)
None == [k \in Tables |-> {}]
DeleteUser(u) ==
  /\ status[u] # "absent"
  /\ UsersGo({u}, None, attached)
  /\ reads' = [p \in Places |-> reads[p] \ {u}]
  /\ UNCHANGED <<role, lastId, disk, torn>>
DeleteAllUsers(u) ==
  /\ CleanupAdmin(u)
  /\ UsersGo(Users \ {u}, None, attached)
  /\ reads' = [p \in Places |-> reads[p] \cap {u}]
  /\ UNCHANGED <<role, lastId, disk, torn>>
FullReset(u) ==
  LET S == {v \in Users : ~IsAdmin(v)} IN
  /\ CleanupAdmin(u)
  /\ UsersGo(S, [None EXCEPT !["chat"] = Ids], [attached EXCEPT !["chat"] = {}])
  /\ reads' = [p \in Places |-> IF p \in Chats THEN {} ELSE reads[p] \ S]
  /\ UNCHANGED <<role, lastId, disk, torn>>

(* What other handlers do, whoever may call them: members come and go      *)
(* (module Rooms), accounts appear, are restricted and change their role.  *)
ChangeReaders(c, u) ==
  /\ status[u] # "absent"
  /\ reads' = [reads EXCEPT ![c] = IF u \in @ THEN @ \ {u} ELSE @ \cup {u}]
  /\ UNCHANGED <<role, status, message, attached, lastId, media, avatar, disk, torn>>
Appear(u) ==
  /\ status[u] = "absent" /\ u \notin Admins
  /\ status' = [status EXCEPT ![u] = "active"]
  /\ \E new \in {"user", "guest"} : role' = [role EXCEPT ![u] = new]
  /\ UNCHANGED <<reads, message, attached, lastId, media, avatar, disk, torn>>
Restrict(u) ==
  /\ status[u] # "absent"
  /\ status' = [status EXCEPT ![u] = IF @ = "active" THEN "off" ELSE "active"]
  /\ UNCHANGED <<role, reads, message, attached, lastId, media, avatar, disk, torn>>
SetRole(u, new) ==
  /\ status[u] # "absent" /\ role' = [role EXCEPT ![u] = new]
  /\ UNCHANGED <<status, reads, message, attached, lastId, media, avatar, disk, torn>>

-----------------------------------------------------------------------------
FileStep(u) ==
  \E f \in Files : UploadRoute(u, f) \/ AvatarRoute(u, f)
SendStep(u) ==
  \E S \in SUBSET Files :
    \/ \E c \in Chats : PostRoute(u, c, S)
    \/ \E t \in Tickets : OpenTicket(u, t, S) \/ SendInTicket(u, t, S)
DeleteStep(u) ==
  \/ \E m \in Ids : DeleteRoute(u, m)
  \/ \E c \in Chats :
       \/ ClearChat(u, c) \/ DeleteChat(u, c)
       \/ \E M \in SUBSET Ids : ClearRange(u, c, M)
  \/ ClearGlobal(u) \/ DeleteAllChats(u) \/ ClearSupport(u)
  \/ DeleteUser(u) \/ DeleteAllUsers(u) \/ FullReset(u)
OtherStep(u) ==
  \/ \E c \in Chats : ChangeReaders(c, u)
  \/ Appear(u) \/ Restrict(u)
  \/ \E new \in Granted : SetRole(u, new)

Next == \E u \in Users : FileStep(u) \/ SendStep(u) \/ DeleteStep(u) \/ OtherStep(u)

Spec == Init /\ [][Next]_vars

-----------------------------------------------------------------------------
(* _can_access_attachment.  It consults one row of each table of           *)
(* attachments, whichever LIMIT 1 picks: u may be let in if some row would.*)
Shown(k, u, f) ==
  \E m \in Live(k) : <<m, f>> \in attached[k] /\ u \in reads[message[k][m].place]
MayDownload(u, f) ==
  /\ Active(u) /\ media[f] # NoUser
  /\ media[f] = u \/ IsAdmin(u) \/ Shown("chat", u, f) \/ Shown("support", u, f)

(* list_for_chat_messages and list_for_support_messages. *)
Attachments(k, m) == {f \in Files : <<m, f>> \in attached[k] /\ media[f] # NoUser}

(* The types of the tables. *)
TypeOK ==
  /\ role \in [Users -> {"admin", "moderator", "user", "guest"}]
  /\ status \in [Users -> {"absent", "active", "off"}]
  /\ reads \in [Places -> SUBSET Users]
  /\ message \in [Tables -> [Ids -> MessageRows]]
  /\ attached \in [Tables -> SUBSET (Ids \X Files)]
  /\ lastId \in [Tables -> 0..MaxMessages]
  /\ media \in [Files -> Users \cup {NoUser}]
  /\ avatar \in [Users -> Files \cup {NoFile}]
  /\ disk \in [Files -> {"new", "there", "gone"}]
  /\ torn \subseteq Users

(* Nobody but administrators is handed, or shown at a message, a file that *)
(* its owner did not put there himself, where the reader may read now;     *)
(* whatever was deleted before, with foreign keys or without: the rows     *)
(* that clear_support leaves behind are never taken for those of a later   *)
(* message.                                                                *)
DownloadsAreShared ==
  /\ \A k \in Tables : \A m \in Live(k) : \A f \in Attachments(k, m) :
       media[f] = message[k][m].author
  /\ \A u \in Users, f \in Files : MayDownload(u, f) =>
       \/ media[f] = u \/ IsAdmin(u)
       \/ \E k \in Tables : \E m \in Live(k) :
            /\ message[k][m].author = media[f] /\ u \in reads[message[k][m].place]
            /\ <<m, f>> \in attached[k]

(* What the tables name is there: a row of attachments names a row of      *)
(* media_attachments, whose file exists, and an avatar's file exists       *)
(* unless its last change was cut short (resolve_download and              *)
(* get_avatar_file answer file_missing and avatar_not_found otherwise).    *)
FilesExist ==
  /\ \A k \in Tables : \A a \in attached[k] : media[a[2]] # NoUser
  /\ \A f \in Files : media[f] # NoUser => disk[f] = "there"
  /\ \A u \in Users : avatar[u] # NoFile /\ u \notin torn => disk[avatar[u]] = "there"
=============================================================================
