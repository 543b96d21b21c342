------------------------------- MODULE Realtime -------------------------------
(***************************************************************************)
(* The realtime chat path: ChatRealtimeBroker (server/app/realtime/        *)
(* broker.py), the WebSocket handler realtime_chat (server/app/api/        *)
(* realtime.py), the HTTP handler post_chat_message (server/app/api/       *)
(* chat.py) and the part of ChatService.send_message that both call.       *)
(*                                                                         *)
(* One uvicorn worker runs every handler on one event loop, so a handler   *)
(* runs undisturbed from one suspended await to the next: each action is   *)
(* such a stretch.  The broker's asyncio.Lock never suspends, because no   *)
(* critical section awaits; connect, disconnect, the snapshot and the      *)
(* pruning of publish are therefore single steps.  publish suspends in     *)
(* every send_json, and everything else may happen there.                  *)
(***************************************************************************)
EXTENDS Naturals, FiniteSets, Sequences

CONSTANTS
  Conns,           \* WebSocket objects, each accepted at most once
  Posts,           \* HTTP requests that post one message
  Chats, Users,
  UserOf, ChatOf,  \* of a task: the user of its session, the chat in its URL
  ClientIds, NoId, \* client_message_id values, and its absence
  NoUser,          \* no entry in _ws_users
  MaxConnections,  \* ChatRealtimeBroker.MAX_CONNECTIONS
  FramesReadable,  \* whether receive_json(max_size=...) returns frames at all
  MaxMessages,     \* bound: rows stored per chat
  MaxRetries,      \* bound: sends whose client id is already stored
  MaxCrashes       \* bound: server restarts

Tasks == Conns \cup Posts

ASSUME RealtimeConstants ==
  /\ IsFiniteSet(Conns) /\ IsFiniteSet(Chats)
  /\ Conns \cap Posts = {}
  /\ UserOf \in [Tasks -> Users] /\ ChatOf \in [Tasks -> Chats]
  /\ NoUser \notin Users /\ NoId \notin ClientIds
  /\ MaxConnections \in Nat \ {0}
  /\ FramesReadable \in BOOLEAN
  /\ MaxMessages \in Nat /\ MaxRetries \in Nat /\ MaxCrashes \in Nat

VARIABLES
  rooms,    \* _rooms: chat -> registered sockets ({} stands for a missing key)
  wsUser,   \* _ws_users: socket -> user
  sock,     \* what a send on the socket meets
  pc,       \* where the handler of a connection or of a request is
  pub,      \* locals of a task's publish: message, targets, successes, dead
  since,    \* rows its chat held when a connection was admitted
  inbox,    \* rows a socket has delivered as chat.message events
  log,      \* chat_messages per chat, in id order
  access,   \* <<user, chat>> for which send_message and list_messages agree
  retries, crashes  \* counted for their bounds only

vars == <<rooms, wsUser, sock, pc, pub, since, inbox, log, access, retries, crashes>>

ConnPCs == {"new", "hello", "loop", "publishing", "ack", "done",
            "refused", "leaked", "killed"}
NoPub == [msg |-> 0, targets |-> {}, got |-> {}, dead |-> {}]

(* A handler that the broker may still call back into. *)
Alive(t) == pc[t] \in {"hello", "loop", "publishing", "ack"}

(* active_count(): the sockets in every room, counted once per room. *)
ActiveCount == Cardinality({p \in Chats \X Conns : p[2] \in rooms[p[1]]})

Init ==
  /\ rooms = [ch \in Chats |-> {}]
  /\ wsUser = [c \in Conns |-> NoUser]
  /\ sock = [c \in Conns |-> "fresh"]
  /\ pc = [t \in Tasks |-> "new"]
  /\ pub = [t \in Tasks |-> NoPub]
  /\ since = [c \in Conns |-> 0]
  /\ inbox = [c \in Conns |-> {}]
  /\ log = [ch \in Chats |-> <<>>]
  /\ access = Users \X Chats
  /\ retries = 0
  /\ crashes = 0

-----------------------------------------------------------------------------
(* MAX_CONNECTIONS bounds the sockets of all rooms together. *)
FullRoom(c) == Cardinality(rooms[ChatOf[c]]) >= MaxConnections
Full(c) == ActiveCount >= MaxConnections

(* The registering half of broker.connect; user_id has a default of 0. *)
RegisterNobody(c) ==
  /\ rooms' = [rooms EXCEPT ![ChatOf[c]] = @ \cup {c}]
  /\ wsUser' = [wsUser EXCEPT ![c] = 0]
Register(c) ==
  /\ rooms' = [rooms EXCEPT ![ChatOf[c]] = @ \cup {c}]
  /\ wsUser' = [wsUser EXCEPT ![c] = UserOf[c]]

(* broker.disconnect: nothing at all when the room is gone. *)
Unregister(c) ==
  LET ch == ChatOf[c] IN
  IF rooms[ch] = {}
  THEN UNCHANGED <<rooms, wsUser>>
  ELSE /\ rooms' = [rooms EXCEPT ![ch] = @ \ {c}]
       /\ wsUser' = [wsUser EXCEPT ![c] = NoUser]

(* The end of publish: the dead leave the room and the roster.  Mutants:   *)
(* they stay in both, they stay in the roster, the snapshot is put back.   *)
PruneNothing(t) == t \in Tasks /\ UNCHANGED <<rooms, wsUser>>
PruneRoomOnly(t) ==
  /\ rooms' = [rooms EXCEPT ![ChatOf[t]] = @ \ pub[t].dead]
  /\ UNCHANGED wsUser
PruneToSnapshot(t) ==
  /\ rooms' = [rooms EXCEPT ![ChatOf[t]] = pub[t].targets \ pub[t].dead]
  /\ wsUser' = [c \in Conns |-> IF c \in pub[t].dead THEN NoUser ELSE wsUser[c]]
Prune(t) ==
  LET ch == ChatOf[t] IN
  IF rooms[ch] = {}
  THEN UNCHANGED <<rooms, wsUser>>
  ELSE /\ rooms' = [rooms EXCEPT ![ch] = @ \ pub[t].dead]
       /\ wsUser' = [c \in Conns |-> IF c \in pub[t].dead THEN NoUser ELSE wsUser[c]]

-----------------------------------------------------------------------------
(* accept, session and access checks, then broker.connect: no other        *)
(* handler runs between the checks and the registration.                   *)
Admit(c) ==
  /\ pc[c] = "new"
  /\ <<UserOf[c], ChatOf[c]>> \in access
  /\ ~Full(c)
  /\ Register(c)
  /\ since' = [since EXCEPT ![c] = Len(log[ChatOf[c]])]
  /\ sock' = [sock EXCEPT ![c] = "open"]
  /\ pc' = [pc EXCEPT ![c] = "hello"]
  /\ UNCHANGED <<pub, inbox, log, access, retries, crashes>>

(* No access: an error and close(4403).  Full: close(4503), after which    *)
(* the greeting raises.  Neither was registered.                           *)
Refuse(c) ==
  /\ pc[c] = "new"
  /\ \/ <<UserOf[c], ChatOf[c]>> \notin access
     \/ Full(c)
  /\ sock' = [sock EXCEPT ![c] = "closed"]
  /\ pc' = [pc EXCEPT ![c] = "refused"]
  /\ UNCHANGED <<rooms, wsUser, pub, since, inbox, log, access, retries, crashes>>

(* realtime.connected is sent before the try block: when it raises, the    *)
(* handler ends and nothing unregisters the socket.                        *)
Hello(c) ==
  /\ pc[c] = "hello"
  /\ pc' = [pc EXCEPT ![c] = IF sock[c] = "open" THEN "loop" ELSE "leaked"]
  /\ UNCHANGED <<rooms, wsUser, sock, pub, since, inbox, log, access, retries, crashes>>

(* The client leaves, or the server's ping times out: sends now raise. *)
ClientGone(c) ==
  /\ sock[c] = "open"
  /\ sock' = [sock EXCEPT ![c] = "gone"]
  /\ UNCHANGED <<rooms, wsUser, pc, pub, since, inbox, log, access, retries, crashes>>

(* receive_json raises: the client left, or the call itself is rejected;   *)
(* the finally clause unregisters.                                         *)
EndLoop(c) ==
  /\ pc[c] = "loop"
  /\ sock[c] = "gone" \/ ~FramesReadable
  /\ Unregister(c)
  /\ sock' = [sock EXCEPT ![c] = IF @ = "open" THEN "closed" ELSE @]
  /\ pc' = [pc EXCEPT ![c] = "done"]
  /\ UNCHANGED <<pub, since, inbox, log, access, retries, crashes>>

-----------------------------------------------------------------------------
(* Mutant: the index is missing. *)
MatchesNothing(ch, k) == {i \in DOMAIN log[ch] : FALSE /\ k # NoId}

(* Rows of ch that the unique index on (chat_id, client_message_id) makes  *)
(* an insert with id k collide with.                                       *)
Matches(ch, k) == {i \in DOMAIN log[ch] : k # NoId /\ log[ch][i].cmid = k}

(* send_message looks at the author's status and access for every message. *)
MayPostOnceAdmitted(t) == t \in Conns \/ <<UserOf[t], ChatOf[t]>> \in access
MayPost(t) == <<UserOf[t], ChatOf[t]>> \in access

(* send_message, then the snapshot of publish: the row is inserted, or the *)
(* one already stored under k is returned, and the room as it is now       *)
(* becomes the list of targets.                                            *)
StoreAndSnapshot(t, k) ==
  LET ch == ChatOf[t] IN
  /\ MayPost(t)
  /\ \E i \in 1..(Len(log[ch]) + 1) :
       /\ \/ /\ i \in Matches(ch, k) /\ retries < MaxRetries
             /\ retries' = retries + 1
             /\ UNCHANGED log
          \/ /\ Matches(ch, k) = {} /\ i = Len(log[ch]) + 1 /\ i <= MaxMessages
             /\ log' = [log EXCEPT ![ch] = Append(@, [via |-> t, cmid |-> k])]
             /\ UNCHANGED retries
       /\ pub' = [pub EXCEPT ![t] = [msg |-> i, targets |-> rooms[ch],
                                     got |-> {}, dead |-> {}]]
  /\ pc' = [pc EXCEPT ![t] = "publishing"]
  /\ UNCHANGED <<rooms, wsUser, sock, since, inbox, access, crashes>>

(* A chat.send frame.  ping, chat.history, refused and unknown frames only *)
(* answer and leave every variable as it is.                               *)
SendFrame(c, k) ==
  /\ pc[c] = "loop" /\ sock[c] = "open" /\ FramesReadable
  /\ StoreAndSnapshot(c, k)

(* POST /chat/api/chats/{chat_id}/messages *)
PostMessage(p, k) ==
  /\ pc[p] = "new"
  /\ StoreAndSnapshot(p, k)

(* One round of publish's loop: send_json to some target not yet tried.    *)
(* Mutants: a send that fails ends the loop, a send to the gone blocks.    *)
PublishStops(t, c) ==
  /\ pc[t] = "publishing"
  /\ c \in pub[t].targets \ (pub[t].got \cup pub[t].dead)
  /\ IF sock[c] = "open"
     THEN /\ inbox' = [inbox EXCEPT ![c] = @ \cup {pub[t].msg}]
          /\ pub' = [pub EXCEPT ![t].got = @ \cup {c}]
     ELSE /\ UNCHANGED inbox
          /\ pub' = [pub EXCEPT ![t].dead = pub[t].targets \ pub[t].got]
  /\ UNCHANGED <<rooms, wsUser, sock, pc, since, log, access, retries, crashes>>
PublishBlocks(t, c) == sock[c] = "open" /\ PublishStops(t, c)
PublishTo(t, c) ==
  /\ pc[t] = "publishing"
  /\ c \in pub[t].targets \ (pub[t].got \cup pub[t].dead)
  /\ IF sock[c] = "open"
     THEN /\ inbox' = [inbox EXCEPT ![c] = @ \cup {pub[t].msg}]
          /\ pub' = [pub EXCEPT ![t].got = @ \cup {c}]
     ELSE /\ UNCHANGED inbox
          /\ pub' = [pub EXCEPT ![t].dead = @ \cup {c}]
  /\ UNCHANGED <<rooms, wsUser, sock, pc, since, log, access, retries, crashes>>

(* Every target was tried: prune, and go on to the answer. *)
PublishDone(t) ==
  /\ pc[t] = "publishing"
  /\ pub[t].targets \subseteq pub[t].got \cup pub[t].dead
  /\ Prune(t)
  /\ pc' = [pc EXCEPT ![t] = IF t \in Conns THEN "ack" ELSE "done"]
  /\ UNCHANGED <<sock, pub, since, inbox, log, access, retries, crashes>>

(* chat.ack; when it raises, the handler ends through finally. *)
Ack(c) ==
  /\ pc[c] = "ack" /\ c \in Conns
  /\ IF sock[c] = "open"
     THEN pc' = [pc EXCEPT ![c] = "loop"] /\ UNCHANGED <<rooms, wsUser>>
     ELSE pc' = [pc EXCEPT ![c] = "done"] /\ Unregister(c)
  /\ pub' = [pub EXCEPT ![c] = NoPub]
  /\ UNCHANGED <<sock, since, inbox, log, access, retries, crashes>>

-----------------------------------------------------------------------------
(* A ban, a block, a deletion or a change of membership, and its undoing,  *)
(* made by other handlers; the broker is never told.                       *)
ChangeAccess(u, ch) ==
  /\ access' = IF <<u, ch>> \in access THEN access \ {<<u, ch>>}
                                       ELSE access \cup {<<u, ch>>}
  /\ UNCHANGED <<rooms, wsUser, sock, pc, pub, since, inbox, log, retries, crashes>>

(* The process dies and systemd starts a new one: the broker is empty,     *)
(* every socket is closed and every request under way is lost.             *)
Crash ==
  /\ crashes < MaxCrashes
  /\ crashes' = crashes + 1
  /\ rooms' = [ch \in Chats |-> {}]
  /\ wsUser' = [c \in Conns |-> NoUser]
  /\ sock' = [c \in Conns |-> IF sock[c] = "open" THEN "closed" ELSE sock[c]]
  /\ pc' = [t \in Tasks |-> IF Alive(t) \/ pc[t] = "leaked" THEN "killed" ELSE pc[t]]
  /\ pub' = [t \in Tasks |-> NoPub]
  /\ UNCHANGED <<since, inbox, log, access, retries>>

ConnStep(c) ==
  \/ Admit(c) \/ Refuse(c) \/ Hello(c) \/ ClientGone(c) \/ EndLoop(c) \/ Ack(c)
  \/ \E k \in ClientIds \cup {NoId} : SendFrame(c, k)

Next ==
  \/ \E c \in Conns : ConnStep(c)
  \/ \E p \in Posts, k \in ClientIds \cup {NoId} : PostMessage(p, k)
  \/ \E t \in Tasks : \/ \E c \in Conns : PublishTo(t, c)
                      \/ PublishDone(t)
  \/ \E u \in Users, ch \in Chats : ChangeAccess(u, ch)
  \/ Crash

(* The event loop runs every task that is ready, and a send ends: either   *)
(* it goes through or the ping timeout makes it raise.                     *)
Fairness ==
  /\ \A t \in Tasks : /\ \A c \in Conns : WF_vars(PublishTo(t, c))
                      /\ WF_vars(PublishDone(t))
  /\ \A c \in Conns : WF_vars(Hello(c)) /\ WF_vars(EndLoop(c)) /\ WF_vars(Ack(c))

Spec == Init /\ [][Next]_vars
FairSpec == Spec /\ Fairness

-----------------------------------------------------------------------------
(* The types of the broker's tables and of the handlers' locals. *)
TypeOK ==
  /\ rooms \in [Chats -> SUBSET Conns]
  /\ wsUser \in [Conns -> Users \cup {NoUser}]
  /\ sock \in [Conns -> {"fresh", "open", "gone", "closed"}]
  /\ pc \in [Tasks -> ConnPCs]
  /\ pub \in [Tasks -> [msg : Nat, targets : SUBSET Conns,
                        got : SUBSET Conns, dead : SUBSET Conns]]
  /\ since \in [Conns -> Nat] /\ inbox \in [Conns -> SUBSET Nat]
  /\ log \in [Chats -> Seq([via : Tasks, cmid : ClientIds \cup {NoId}])]
  /\ access \subseteq Users \X Chats
  /\ retries \in 0..MaxRetries /\ crashes \in 0..MaxCrashes

(* connect never lets the broker hold more sockets than MAX_CONNECTIONS,   *)
(* however many handshakes interleave.                                     *)
ConnectionLimit == ActiveCount <= MaxConnections

(* online_users() reports exactly the users of the sockets in the rooms:   *)
(* _ws_users and _rooms never drift apart, although disconnect and publish *)
(* both prune them and disconnect returns early when the room is gone.     *)
RosterMatchesRooms ==
  \A c \in Conns :
    /\ \A ch \in Chats : c \in rooms[ch] => ch = ChatOf[c]
    /\ wsUser[c] = IF c \in rooms[ChatOf[c]] THEN UserOf[c] ELSE NoUser

(* A client that is connected and served is in its room: another task's    *)
(* pruning never takes it out, so it misses no later message.              *)
ServedIsRegistered ==
  \A c \in Conns : Alive(c) /\ sock[c] = "open" => c \in rooms[ChatOf[c]]

(* A connected client misses no message of its chat: every row stored      *)
(* since it was admitted has reached it, or is in a publication that still *)
(* has to try it.                                                          *)
NoGap ==
  \A c \in Conns : Alive(c) /\ sock[c] = "open" =>
    \A i \in (since[c] + 1)..Len(log[ChatOf[c]]) :
      \/ i \in inbox[c]
      \/ \E t \in Tasks : /\ pc[t] = "publishing" /\ ChatOf[t] = ChatOf[c]
                         /\ pub[t].msg = i
                         /\ c \in pub[t].targets \ (pub[t].got \cup pub[t].dead)

(* A socket that a finished publication found dead is out of the room and  *)
(* stays out, whichever of publish and disconnect came first.              *)
DeadIsPruned ==
  \A t \in Tasks : pc[t] \in {"ack", "done"} =>
    pub[t].dead \cap rooms[ChatOf[t]] = {}

(* A retry never stores a message twice, be it over the other transport,   *)
(* concurrent with the first attempt or after a restart.                   *)
OneRowPerClientId ==
  \A ch \in Chats : \A i, j \in DOMAIN log[ch] :
    log[ch][i].cmid # NoId /\ log[ch][i].cmid = log[ch][j].cmid => i = j

(* However long a socket has been open, a message is stored only for an    *)
(* author who has access when it is stored: send_message looks again.      *)
AuthorHasAccess ==
  [][\A ch \in Chats : Len(log'[ch]) > Len(log[ch]) =>
       <<UserOf[log'[ch][Len(log'[ch])].via], ch>> \in access]_vars

(* Every accepted send is answered: slow, dead or leaving receivers do not *)
(* keep the sender's handler in publish.                                   *)
SendsFinish ==
  \A t \in Tasks : pc[t] = "publishing" ~> pc[t] \in {"loop", "done", "killed"}

(* README.md lists ping, chat.history and chat.send as supported incoming  *)
(* events: the server does not end a connection its client still holds.    *)
FramesAreServed == \A c \in Conns : pc[c] = "done" => sock[c] = "gone"
=============================================================================
