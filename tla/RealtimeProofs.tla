---------------------------- MODULE RealtimeProofs ----------------------------
(***************************************************************************)
(* Proofs about Realtime, for any sockets, requests, chats and bounds.     *)
(* The safety properties need to know together what a publication's        *)
(* snapshot can hold, so one inductive invariant carries them:             *)
(* a socket in a snapshot has been admitted, to the snapshot's room, and   *)
(* one found dead is never open again.                                     *)
(***************************************************************************)
EXTENDS Realtime, FiniteSetTheorems, TLAPS

(* A handler that has not run has registered nothing. *)
NewIsAbsent ==
  \A c \in Conns : pc[c] = "new" =>
    /\ sock[c] = "fresh"
    /\ \A ch \in Chats : c \notin rooms[ch]
    /\ \A t \in Tasks : c \notin pub[t].targets

(* A snapshot holds sockets of its room; those found dead stay dead. *)
SnapshotsSound ==
  \A t \in Tasks :
    /\ \A c \in pub[t].targets : ChatOf[c] = ChatOf[t]
    /\ pub[t].dead \subseteq pub[t].targets
    /\ \A c \in pub[t].dead : sock[c] # "open"
    /\ pc[t] \notin {"publishing", "ack", "done"} => pub[t].dead = {}

IInv == /\ TypeOK /\ RosterMatchesRooms /\ NewIsAbsent /\ SnapshotsSound
        /\ ServedIsRegistered /\ DeadIsPruned

-----------------------------------------------------------------------------
(* The types, one action at a time. *)
LEMMA TypeInductive == TypeOK /\ [Next]_vars => TypeOK'
<1> SUFFICES ASSUME TypeOK, [Next]_vars PROVE TypeOK'
  OBVIOUS
<1> DEFINE Publication == [msg : Nat, targets : SUBSET Conns,
                           got : SUBSET Conns, dead : SUBSET Conns]
<1> USE RealtimeConstants DEF RealtimeConstants, TypeOK, Tasks, ConnPCs
<1>u. ASSUME NEW c \in Conns, Unregister(c)
      PROVE  /\ rooms' \in [Chats -> SUBSET Conns]
             /\ wsUser' \in [Conns -> Users \cup {NoUser}]
  <2>1. ChatOf[c] \in Chats /\ rooms[ChatOf[c]] \ {c} \in SUBSET Conns
    OBVIOUS
  <2>2. CASE rooms[ChatOf[c]] = {}
    BY <1>u, <2>2 DEF Unregister
  <2>3. CASE rooms[ChatOf[c]] # {}
    <3>1. /\ rooms' = [rooms EXCEPT ![ChatOf[c]] = rooms[ChatOf[c]] \ {c}]
          /\ wsUser' = [wsUser EXCEPT ![c] = NoUser]
      BY <1>u, <2>3 DEF Unregister
    <3> QED
      BY ONLY <2>1, <3>1, TypeOK DEF TypeOK
  <2> QED
    BY <2>2, <2>3
<1>1. ASSUME NEW c \in Conns, Admit(c) PROVE TypeOK'
  <2>1. rooms' \in [Chats -> SUBSET Conns]
    BY <1>1 DEF Admit, Register
  <2>2. wsUser' \in [Conns -> Users \cup {NoUser}]
    BY <1>1 DEF Admit, Register
  <2>3. since' \in [Conns -> Nat]
    <3>1. Len(log[ChatOf[c]]) \in Nat
      BY ONLY TypeOK, RealtimeConstants DEF TypeOK, RealtimeConstants, Tasks
    <3> QED
      BY <1>1, <3>1 DEF Admit
  <2> QED
    BY <1>1, <2>1, <2>2, <2>3 DEF Admit
<1>2. ASSUME NEW c \in Conns, Refuse(c) PROVE TypeOK'
  BY <1>2 DEF Refuse
<1>3. ASSUME NEW c \in Conns, Hello(c) PROVE TypeOK'
  BY <1>3 DEF Hello
<1>4. ASSUME NEW c \in Conns, ClientGone(c) PROVE TypeOK'
  BY <1>4 DEF ClientGone
<1>5. ASSUME NEW c \in Conns, EndLoop(c) PROVE TypeOK'
  <2>1. sock' \in [Conns -> {"fresh", "open", "gone", "closed"}]
    BY <1>5 DEF EndLoop
  <2>2. pc' \in [Tasks -> ConnPCs]
    BY <1>5 DEF EndLoop
  <2> QED
    BY <1>5, <1>u, <2>1, <2>2 DEF EndLoop
<1>6. ASSUME NEW c \in Conns, Ack(c) PROVE TypeOK'
  <2>1. rooms' \in [Chats -> SUBSET Conns] /\ wsUser' \in [Conns -> Users \cup {NoUser}]
    BY <1>6, <1>u DEF Ack
  <2>2. pc' \in [Tasks -> ConnPCs]
    BY <1>6 DEF Ack
  <2>3. pub' \in [Tasks -> Publication]
    BY <1>6 DEF Ack, NoPub
  <2> QED
    BY <1>6, <2>1, <2>2, <2>3 DEF Ack
<1>7. ASSUME NEW t \in Tasks, NEW k \in ClientIds \cup {NoId}, StoreAndSnapshot(t, k)
      PROVE TypeOK'
  <2> DEFINE ch == ChatOf[t]
             Row == [via : Tasks, cmid : ClientIds \cup {NoId}]
  <2>1. ch \in Chats
    OBVIOUS
  <2>2. PICK i \in 1..(Len(log[ch]) + 1) :
          /\ \/ retries < MaxRetries /\ retries' = retries + 1 /\ UNCHANGED log
             \/ /\ log' = [log EXCEPT ![ch] = Append(@, [via |-> t, cmid |-> k])]
                /\ UNCHANGED retries
          /\ pub' = [pub EXCEPT ![t] = [msg |-> i, targets |-> rooms[ch],
                                        got |-> {}, dead |-> {}]]
    BY <1>7 DEF StoreAndSnapshot
  <2>3. retries' \in 0..MaxRetries
    BY <2>2
  <2>4. log' \in [Chats -> Seq(Row)]
    <3>1. [via |-> t, cmid |-> k] \in Row /\ log[ch] \in Seq(Row)
      BY <2>1
    <3>2. Append(log[ch], [via |-> t, cmid |-> k]) \in Seq(Row)
      BY ONLY <3>1
    <3>3. log' = [log EXCEPT ![ch] = Append(log[ch], [via |-> t, cmid |-> k])] \/ log' = log
      BY <2>2
    <3> QED
      BY ONLY <2>1, <3>2, <3>3, log \in [Chats -> Seq(Row)]
  <2>5. i \in Nat
    BY <2>1, <2>2
  <2>6. rooms[ch] \in SUBSET Conns
    BY <2>1
  <2>7. [msg |-> i, targets |-> rooms[ch], got |-> {}, dead |-> {}] \in Publication
    BY <2>5, <2>6
  <2>8. pub' \in [Tasks -> Publication]
    BY ONLY <2>2, <2>7, pub \in [Tasks -> Publication]
  <2> QED
    BY <1>7, <2>3, <2>4, <2>8 DEF StoreAndSnapshot
<1>8. ASSUME NEW t \in Tasks, NEW c \in Conns, PublishTo(t, c) PROVE TypeOK'
  <2> DEFINE heard == [pub[t] EXCEPT !.got = @ \cup {c}]
             missed == [pub[t] EXCEPT !.dead = @ \cup {c}]
  <2>1. heard \in Publication /\ missed \in Publication
    <3>1. pub[t] \in Publication
      OBVIOUS
    <3> QED
      BY ONLY <3>1, c \in Conns
  <2>2. pub' \in [Tasks -> Publication]
    <3>1. pub' = [pub EXCEPT ![t] = heard] \/ pub' = [pub EXCEPT ![t] = missed]
      BY <1>8 DEF PublishTo
    <3> QED
      BY ONLY <2>1, <3>1, pub \in [Tasks -> Publication]
  <2>3. inbox' \in [Conns -> SUBSET Nat]
    <3>1. inbox[c] \cup {pub[t].msg} \in SUBSET Nat
      OBVIOUS
    <3>2. inbox' = [inbox EXCEPT ![c] = inbox[c] \cup {pub[t].msg}] \/ inbox' = inbox
      BY <1>8 DEF PublishTo
    <3> QED
      BY ONLY <3>1, <3>2, inbox \in [Conns -> SUBSET Nat]
  <2> QED
    BY <1>8, <2>2, <2>3 DEF PublishTo
<1>9. ASSUME NEW t \in Tasks, PublishDone(t) PROVE TypeOK'
  <2>1. rooms' \in [Chats -> SUBSET Conns] /\ wsUser' \in [Conns -> Users \cup {NoUser}]
    <3>1. ChatOf[t] \in Chats /\ rooms[ChatOf[t]] \ pub[t].dead \in SUBSET Conns
      OBVIOUS
    <3>2. CASE rooms[ChatOf[t]] = {}
      BY <1>9, <3>2 DEF PublishDone, Prune
    <3>3. CASE rooms[ChatOf[t]] # {}
      <4>1. /\ rooms' = [rooms EXCEPT ![ChatOf[t]] = rooms[ChatOf[t]] \ pub[t].dead]
            /\ wsUser' = [c \in Conns |-> IF c \in pub[t].dead THEN NoUser ELSE wsUser[c]]
        BY <1>9, <3>3 DEF PublishDone, Prune
      <4> QED
        BY ONLY <3>1, <4>1, TypeOK DEF TypeOK
    <3> QED
      BY <3>2, <3>3
  <2>2. pc' \in [Tasks -> ConnPCs]
    BY <1>9 DEF PublishDone
  <2> QED
    BY <1>9, <2>1, <2>2 DEF PublishDone
<1>10. ASSUME NEW u \in Users, NEW ch \in Chats, ChangeAccess(u, ch) PROVE TypeOK'
  <2>1. access' \subseteq Users \X Chats
    BY <1>10 DEF ChangeAccess
  <2> QED
    BY <1>10, <2>1 DEF ChangeAccess
<1>11. CASE Crash
  <2>1. pub' \in [Tasks -> Publication]
    BY <1>11 DEF Crash, NoPub
  <2>2. rooms' \in [Chats -> SUBSET Conns] /\ wsUser' \in [Conns -> Users \cup {NoUser}]
    BY <1>11 DEF Crash
  <2>3. sock' \in [Conns -> {"fresh", "open", "gone", "closed"}]
    BY <1>11 DEF Crash
  <2>4. pc' \in [Tasks -> ConnPCs]
    BY <1>11 DEF Crash
  <2>5. crashes' \in 0..MaxCrashes
    BY <1>11 DEF Crash
  <2> QED
    BY <1>11, <2>1, <2>2, <2>3, <2>4, <2>5 DEF Crash
<1>12. CASE UNCHANGED vars
  BY <1>12 DEF vars
<1> QED
  BY <1>1, <1>2, <1>3, <1>4, <1>5, <1>6, <1>7, <1>8, <1>9, <1>10, <1>11, <1>12
     DEF Next, ConnStep, SendFrame, PostMessage

-----------------------------------------------------------------------------
(* disconnect, the pruning and a round of publish, as equations.  An       *)
(* early return on a missing room changes nothing that they would.         *)
LEMMA UnregisterEffect ==
  ASSUME TypeOK, RosterMatchesRooms, NEW c \in Conns, Unregister(c)
  PROVE  /\ rooms' = [rooms EXCEPT ![ChatOf[c]] = rooms[ChatOf[c]] \ {c}]
         /\ wsUser' = [wsUser EXCEPT ![c] = NoUser]
<1> ChatOf[c] \in Chats
  BY RealtimeConstants DEF RealtimeConstants, Tasks
<1>1. CASE rooms[ChatOf[c]] = {}
  <2>1. wsUser[c] = NoUser
    BY <1>1 DEF RosterMatchesRooms
  <2> QED
    BY <1>1, <2>1 DEF Unregister, TypeOK
<1>2. CASE rooms[ChatOf[c]] # {}
  BY <1>2 DEF Unregister
<1> QED
  BY <1>1, <1>2

LEMMA PruneEffect ==
  ASSUME TypeOK, NEW t \in Tasks, Prune(t)
  PROVE  rooms' = [rooms EXCEPT ![ChatOf[t]] = rooms[ChatOf[t]] \ pub[t].dead]
<1> ChatOf[t] \in Chats
  BY RealtimeConstants DEF RealtimeConstants
<1>1. CASE rooms[ChatOf[t]] = {}
  BY <1>1 DEF Prune, TypeOK
<1>2. CASE rooms[ChatOf[t]] # {}
  BY <1>2 DEF Prune
<1> QED
  BY <1>1, <1>2

LEMMA PublishToEffect ==
  ASSUME TypeOK, NEW t \in Tasks, NEW c \in Conns, PublishTo(t, c)
  PROVE  /\ \A u \in Tasks \ {t} : pub'[u] = pub[u]
         /\ pub'[t].msg = pub[t].msg /\ pub'[t].targets = pub[t].targets
         /\ sock[c] = "open" => /\ pub'[t].got = pub[t].got \cup {c}
                                /\ pub'[t].dead = pub[t].dead
         /\ sock[c] # "open" => /\ pub'[t].got = pub[t].got
                                /\ pub'[t].dead = pub[t].dead \cup {c}
<1>1. pub[t] \in [msg : Nat, targets : SUBSET Conns, got : SUBSET Conns, dead : SUBSET Conns]
  BY DEF TypeOK
<1>2. CASE sock[c] = "open"
  <2>1. pub' = [pub EXCEPT ![t] = [pub[t] EXCEPT !.got = @ \cup {c}]]
    BY <1>2 DEF PublishTo
  <2> QED
    BY <1>1, <1>2, <2>1 DEF TypeOK
<1>3. CASE sock[c] # "open"
  <2>1. pub' = [pub EXCEPT ![t] = [pub[t] EXCEPT !.dead = @ \cup {c}]]
    BY <1>3 DEF PublishTo
  <2> QED
    BY <1>1, <1>3, <2>1 DEF TypeOK
<1> QED
  BY <1>2, <1>3

-----------------------------------------------------------------------------
(* What one step does to the rooms, the roster and the sockets. *)
LEMMA RosterInductive ==
  TypeOK /\ SnapshotsSound /\ RosterMatchesRooms /\ [Next]_vars => RosterMatchesRooms'
<1> SUFFICES ASSUME TypeOK, SnapshotsSound, RosterMatchesRooms, [Next]_vars
             PROVE RosterMatchesRooms'
  OBVIOUS
<1> USE RealtimeConstants DEF RealtimeConstants, TypeOK, Tasks, RosterMatchesRooms
<1>u. ASSUME NEW c \in Conns, Unregister(c) PROVE RosterMatchesRooms'
  <2>1. ChatOf[c] \in Chats
    OBVIOUS
  <2>2. /\ rooms' = [rooms EXCEPT ![ChatOf[c]] = rooms[ChatOf[c]] \ {c}]
        /\ wsUser' = [wsUser EXCEPT ![c] = NoUser]
    BY ONLY <1>u, UnregisterEffect, TypeOK, RosterMatchesRooms, c \in Conns
  <2> QED
    BY ONLY <2>1, <2>2, TypeOK, RosterMatchesRooms DEF TypeOK, RosterMatchesRooms
<1>1. ASSUME NEW c \in Conns, Admit(c) PROVE RosterMatchesRooms'
  BY <1>1 DEF Admit, Register
<1>2. ASSUME NEW c \in Conns, Refuse(c) \/ Hello(c) \/ ClientGone(c)
      PROVE RosterMatchesRooms'
  BY <1>2 DEF Refuse, Hello, ClientGone
<1>3. ASSUME NEW c \in Conns, EndLoop(c) \/ Ack(c) PROVE RosterMatchesRooms'
  <2>1. Unregister(c) \/ UNCHANGED <<rooms, wsUser>>
    BY <1>3 DEF EndLoop, Ack
  <2> QED
    BY <1>u, <2>1
<1>4. ASSUME NEW t \in Tasks, NEW k \in ClientIds \cup {NoId}, StoreAndSnapshot(t, k)
      PROVE RosterMatchesRooms'
  BY <1>4 DEF StoreAndSnapshot
<1>5. ASSUME NEW t \in Tasks, NEW c \in Conns, PublishTo(t, c) PROVE RosterMatchesRooms'
  BY <1>5 DEF PublishTo
<1>6. ASSUME NEW t \in Tasks, PublishDone(t) PROVE RosterMatchesRooms'
  <2>1. \A c \in pub[t].dead : c \in Conns /\ ChatOf[c] = ChatOf[t]
    BY DEF SnapshotsSound
  <2>2. CASE rooms[ChatOf[t]] = {}
    BY <1>6, <2>2 DEF PublishDone, Prune
  <2>3. CASE rooms[ChatOf[t]] # {}
    <3>1. /\ rooms' = [rooms EXCEPT ![ChatOf[t]] = rooms[ChatOf[t]] \ pub[t].dead]
          /\ wsUser' = [c \in Conns |-> IF c \in pub[t].dead THEN NoUser ELSE wsUser[c]]
      BY <1>6, <2>3 DEF PublishDone, Prune
    <3> QED
      BY <2>1, <3>1
  <2> QED
    BY <2>2, <2>3
<1>7. ASSUME NEW u \in Users, NEW ch \in Chats, ChangeAccess(u, ch)
      PROVE RosterMatchesRooms'
  BY <1>7 DEF ChangeAccess
<1>8. CASE Crash
  BY <1>8 DEF Crash
<1>9. CASE UNCHANGED vars
  BY <1>9 DEF vars
<1> QED
  BY <1>1, <1>2, <1>3, <1>4, <1>5, <1>6, <1>7, <1>8, <1>9
     DEF Next, ConnStep, SendFrame, PostMessage

LEMMA NewIsAbsentInductive ==
  TypeOK /\ RosterMatchesRooms /\ NewIsAbsent /\ [Next]_vars => NewIsAbsent'
<1> SUFFICES ASSUME TypeOK, RosterMatchesRooms, NewIsAbsent, [Next]_vars PROVE NewIsAbsent'
  OBVIOUS
<1> USE RealtimeConstants DEF RealtimeConstants, TypeOK, Tasks, NewIsAbsent
<1>1. ASSUME NEW c \in Conns, Admit(c) PROVE NewIsAbsent'
  BY <1>1 DEF Admit, Register
<1>2. ASSUME NEW c \in Conns, Refuse(c) \/ Hello(c) \/ ClientGone(c)
      PROVE NewIsAbsent'
  BY <1>2 DEF Refuse, Hello, ClientGone
<1>3. ASSUME NEW c \in Conns, EndLoop(c) PROVE NewIsAbsent'
  <2>1. rooms' = [rooms EXCEPT ![ChatOf[c]] = rooms[ChatOf[c]] \ {c}]
    BY <1>3, UnregisterEffect DEF EndLoop
  <2> QED
    BY <1>3, <2>1 DEF EndLoop
<1>4. ASSUME NEW c \in Conns, Ack(c) PROVE NewIsAbsent'
  <2>1. \A ch \in Chats : rooms'[ch] \subseteq rooms[ch]
    <3>1. CASE UNCHANGED rooms
      BY <3>1
    <3>2. CASE Unregister(c)
      <4>1. rooms' = [rooms EXCEPT ![ChatOf[c]] = rooms[ChatOf[c]] \ {c}]
        BY ONLY <3>2, UnregisterEffect, TypeOK, RosterMatchesRooms, c \in Conns
      <4> QED
        BY <4>1
    <3> QED
      BY <1>4, <3>1, <3>2 DEF Ack
  <2>2. \A t \in Tasks : pub'[t].targets \subseteq pub[t].targets
    BY <1>4 DEF Ack, NoPub
  <2>3. pc[c] # "new" /\ pc' \in {[pc EXCEPT ![c] = "loop"], [pc EXCEPT ![c] = "done"]}
    BY <1>4 DEF Ack
  <2> QED
    BY <1>4, <2>1, <2>2, <2>3 DEF Ack
<1>5. ASSUME NEW t \in Tasks, NEW k \in ClientIds \cup {NoId}, StoreAndSnapshot(t, k)
      PROVE NewIsAbsent'
  BY <1>5 DEF StoreAndSnapshot
<1>6. ASSUME NEW t \in Tasks, NEW c \in Conns, PublishTo(t, c) PROVE NewIsAbsent'
  <2>1. \A u \in Tasks : pub'[u].targets = pub[u].targets
    BY <1>6, PublishToEffect
  <2> QED
    BY <1>6, <2>1 DEF PublishTo
<1>7. ASSUME NEW t \in Tasks, PublishDone(t) PROVE NewIsAbsent'
  <2>1. rooms' = [rooms EXCEPT ![ChatOf[t]] = rooms[ChatOf[t]] \ pub[t].dead]
    BY <1>7, PruneEffect DEF PublishDone
  <2> QED
    BY <1>7, <2>1 DEF PublishDone
<1>8. ASSUME NEW u \in Users, NEW ch \in Chats, ChangeAccess(u, ch) PROVE NewIsAbsent'
  BY <1>8 DEF ChangeAccess
<1>9. CASE Crash
  BY <1>9 DEF Crash, NoPub, Alive
<1>10. CASE UNCHANGED vars
  BY <1>10 DEF vars
<1> QED
  BY <1>1, <1>2, <1>3, <1>4, <1>5, <1>6, <1>7, <1>8, <1>9, <1>10
     DEF Next, ConnStep, SendFrame, PostMessage

LEMMA SnapshotsInductive ==
  /\ TypeOK /\ RosterMatchesRooms /\ NewIsAbsent /\ SnapshotsSound /\ [Next]_vars
  => SnapshotsSound'
<1> SUFFICES ASSUME TypeOK, RosterMatchesRooms, NewIsAbsent, SnapshotsSound, [Next]_vars
             PROVE SnapshotsSound'
  OBVIOUS
<1> USE RealtimeConstants DEF RealtimeConstants, TypeOK, Tasks, SnapshotsSound
<1>1. ASSUME NEW c \in Conns, Admit(c) PROVE SnapshotsSound'
  BY <1>1 DEF Admit, NewIsAbsent
<1>2. ASSUME NEW c \in Conns, Refuse(c) \/ Hello(c) \/ ClientGone(c)
      PROVE SnapshotsSound'
  BY <1>2 DEF Refuse, Hello, ClientGone
<1>3. ASSUME NEW c \in Conns, EndLoop(c) PROVE SnapshotsSound'
  BY <1>3 DEF EndLoop
<1>4. ASSUME NEW c \in Conns, Ack(c) PROVE SnapshotsSound'
  BY <1>4 DEF Ack, NoPub
<1>5. ASSUME NEW t \in Tasks, NEW k \in ClientIds \cup {NoId}, StoreAndSnapshot(t, k)
      PROVE SnapshotsSound'
  BY <1>5 DEF StoreAndSnapshot, RosterMatchesRooms
<1>6. ASSUME NEW t \in Tasks, NEW c \in Conns, PublishTo(t, c) PROVE SnapshotsSound'
  <2>1. pc[t] = "publishing" /\ c \in pub[t].targets /\ UNCHANGED <<pc, sock>>
    BY <1>6 DEF PublishTo
  <2>2. /\ \A u \in Tasks \ {t} : pub'[u] = pub[u]
        /\ pub'[t].targets = pub[t].targets
        /\ sock[c] = "open" => pub'[t].dead = pub[t].dead
        /\ sock[c] # "open" => pub'[t].dead = pub[t].dead \cup {c}
    BY ONLY <1>6, PublishToEffect, TypeOK, t \in Tasks, c \in Conns
  <2>3. pub'[t].dead \subseteq pub'[t].targets
    BY ONLY <2>1, <2>2, SnapshotsSound, t \in Tasks DEF SnapshotsSound
  <2>4. \A d \in pub'[t].dead : sock[d] # "open"
    BY ONLY <2>2, SnapshotsSound, t \in Tasks DEF SnapshotsSound
  <2> QED
    BY ONLY <2>1, <2>2, <2>3, <2>4, SnapshotsSound DEF SnapshotsSound
<1>7. ASSUME NEW t \in Tasks, PublishDone(t) PROVE SnapshotsSound'
  BY <1>7 DEF PublishDone
<1>8. ASSUME NEW u \in Users, NEW ch \in Chats, ChangeAccess(u, ch) PROVE SnapshotsSound'
  BY <1>8 DEF ChangeAccess
<1>9. CASE Crash
  BY <1>9 DEF Crash, NoPub
<1>10. CASE UNCHANGED vars
  BY <1>10 DEF vars
<1> QED
  BY <1>1, <1>2, <1>3, <1>4, <1>5, <1>6, <1>7, <1>8, <1>9, <1>10
     DEF Next, ConnStep, SendFrame, PostMessage

LEMMA ServedInductive ==
  IInv /\ [Next]_vars => ServedIsRegistered'
<1> SUFFICES ASSUME IInv, [Next]_vars PROVE ServedIsRegistered'
  OBVIOUS
<1> USE RealtimeConstants DEF RealtimeConstants, IInv, TypeOK, Tasks, Alive, ServedIsRegistered
<1>u. ASSUME NEW c \in Conns, Unregister(c)
      PROVE  rooms' = [rooms EXCEPT ![ChatOf[c]] = rooms[ChatOf[c]] \ {c}]
  BY ONLY <1>u, UnregisterEffect, IInv, c \in Conns DEF IInv
<1>1. ASSUME NEW c \in Conns, Admit(c) PROVE ServedIsRegistered'
  BY <1>1 DEF Admit, Register
<1>2. ASSUME NEW c \in Conns, Refuse(c) \/ Hello(c) \/ ClientGone(c)
      PROVE ServedIsRegistered'
  BY <1>2 DEF Refuse, Hello, ClientGone
<1>3. ASSUME NEW c \in Conns, EndLoop(c) PROVE ServedIsRegistered'
  <2>1. rooms' = [rooms EXCEPT ![ChatOf[c]] = rooms[ChatOf[c]] \ {c}]
    BY <1>3, <1>u DEF EndLoop
  <2>2. \A d \in Conns \ {c} : sock'[d] = sock[d] /\ pc'[d] = pc[d]
    BY <1>3 DEF EndLoop
  <2>3. pc'[c] = "done"
    BY <1>3 DEF EndLoop
  <2> QED
    BY ONLY <2>1, <2>2, <2>3, RealtimeConstants, TypeOK, ServedIsRegistered
       DEF RealtimeConstants, TypeOK, Tasks, Alive, ServedIsRegistered
<1>4. ASSUME NEW c \in Conns, Ack(c) PROVE ServedIsRegistered'
  <2>1. CASE sock[c] = "open"
    BY <1>4, <2>1 DEF Ack
  <2>2. CASE sock[c] # "open"
    <3>1. rooms' = [rooms EXCEPT ![ChatOf[c]] = rooms[ChatOf[c]] \ {c}]
      BY <1>4, <1>u, <2>2 DEF Ack
    <3>2. UNCHANGED sock /\ \A d \in Conns \ {c} : pc'[d] = pc[d]
      BY <1>4 DEF Ack
    <3> QED
      BY ONLY <2>2, <3>1, <3>2, RealtimeConstants, TypeOK, ServedIsRegistered
         DEF RealtimeConstants, TypeOK, Tasks, Alive, ServedIsRegistered
  <2> QED
    BY <2>1, <2>2
<1>5. ASSUME NEW t \in Tasks, NEW k \in ClientIds \cup {NoId}, StoreAndSnapshot(t, k),
             pc[t] \in {"new", "loop"}, t \in Conns => pc[t] = "loop"
      PROVE ServedIsRegistered'
  BY <1>5 DEF StoreAndSnapshot
<1>6. ASSUME NEW t \in Tasks, NEW c \in Conns, PublishTo(t, c) PROVE ServedIsRegistered'
  BY <1>6 DEF PublishTo
<1>7. ASSUME NEW t \in Tasks, PublishDone(t) PROVE ServedIsRegistered'
  <2>1. rooms' = [rooms EXCEPT ![ChatOf[t]] = rooms[ChatOf[t]] \ pub[t].dead]
    BY <1>7, PruneEffect DEF PublishDone
  <2>2. \A c \in pub[t].dead : sock[c] # "open"
    BY DEF SnapshotsSound
  <2>3. pc[t] = "publishing" /\ UNCHANGED sock
        /\ pc' = [pc EXCEPT ![t] = IF t \in Conns THEN "ack" ELSE "done"]
    BY <1>7 DEF PublishDone
  <2> QED
    BY <2>1, <2>2, <2>3
<1>8. ASSUME NEW u \in Users, NEW ch \in Chats, ChangeAccess(u, ch)
      PROVE ServedIsRegistered'
  BY <1>8 DEF ChangeAccess
<1>9. CASE Crash
  BY <1>9 DEF Crash
<1>10. CASE UNCHANGED vars
  BY <1>10 DEF vars
<1> QED
  BY <1>1, <1>2, <1>3, <1>4, <1>5, <1>6, <1>7, <1>8, <1>9, <1>10
     DEF Next, ConnStep, SendFrame, PostMessage

LEMMA PrunedInductive ==
  IInv /\ [Next]_vars => DeadIsPruned'
<1> SUFFICES ASSUME IInv, [Next]_vars PROVE DeadIsPruned'
  OBVIOUS
<1> USE RealtimeConstants DEF RealtimeConstants, IInv, TypeOK, Tasks, DeadIsPruned
<1>u. ASSUME NEW c \in Conns, Unregister(c)
      PROVE  rooms' = [rooms EXCEPT ![ChatOf[c]] = rooms[ChatOf[c]] \ {c}]
  BY ONLY <1>u, UnregisterEffect, IInv, c \in Conns DEF IInv
<1>1. ASSUME NEW c \in Conns, Admit(c) PROVE DeadIsPruned'
  BY <1>1 DEF Admit, Register, NewIsAbsent, SnapshotsSound
<1>2. ASSUME NEW c \in Conns, Refuse(c) \/ Hello(c) \/ ClientGone(c)
      PROVE DeadIsPruned'
  BY <1>2 DEF Refuse, Hello, ClientGone
<1>3. ASSUME NEW c \in Conns, EndLoop(c) PROVE DeadIsPruned'
  <2>1. rooms' = [rooms EXCEPT ![ChatOf[c]] = rooms[ChatOf[c]] \ {c}]
    BY <1>3, <1>u DEF EndLoop
  <2>2. UNCHANGED pub /\ \A t \in Tasks \ {c} : pc'[t] = pc[t]
    BY <1>3 DEF EndLoop
  <2>3. pub[c].dead = {}
    BY <1>3 DEF EndLoop, SnapshotsSound
  <2> QED
    BY ONLY <2>1, <2>2, <2>3, RealtimeConstants, TypeOK, DeadIsPruned
       DEF RealtimeConstants, TypeOK, Tasks, DeadIsPruned
<1>4. ASSUME NEW c \in Conns, Ack(c) PROVE DeadIsPruned'
  <2>1. \A ch \in Chats : rooms'[ch] \subseteq rooms[ch]
    <3>1. CASE sock[c] = "open"
      BY <1>4, <3>1 DEF Ack
    <3>2. CASE sock[c] # "open"
      <4>1. rooms' = [rooms EXCEPT ![ChatOf[c]] = rooms[ChatOf[c]] \ {c}]
        BY <1>4, <1>u, <3>2 DEF Ack
      <4> QED
        BY ONLY <4>1, RealtimeConstants, TypeOK DEF RealtimeConstants, TypeOK, Tasks
    <3> QED
      BY <3>1, <3>2
  <2>2. \A t \in Tasks \ {c} : pc'[t] = pc[t] /\ pub'[t] = pub[t]
    BY <1>4 DEF Ack
  <2>3. pub'[c].dead = {}
    BY <1>4 DEF Ack, NoPub
  <2> QED
    BY ONLY <2>1, <2>2, <2>3, RealtimeConstants, DeadIsPruned
       DEF RealtimeConstants, DeadIsPruned
<1>5. ASSUME NEW t \in Tasks, NEW k \in ClientIds \cup {NoId}, StoreAndSnapshot(t, k)
      PROVE DeadIsPruned'
  BY <1>5 DEF StoreAndSnapshot
<1>6. ASSUME NEW t \in Tasks, NEW c \in Conns, PublishTo(t, c) PROVE DeadIsPruned'
  <2>1. pc[t] = "publishing" /\ UNCHANGED <<pc, rooms>>
    BY <1>6 DEF PublishTo
  <2>2. \A u \in Tasks \ {t} : pub'[u] = pub[u]
    BY <1>6 DEF PublishTo
  <2> QED
    BY <2>1, <2>2
<1>7. ASSUME NEW t \in Tasks, PublishDone(t) PROVE DeadIsPruned'
  <2>1. rooms' = [rooms EXCEPT ![ChatOf[t]] = rooms[ChatOf[t]] \ pub[t].dead]
    BY <1>7, PruneEffect DEF PublishDone
  <2>2. UNCHANGED pub /\ \A u \in Tasks \ {t} : pc'[u] = pc[u]
    BY <1>7 DEF PublishDone
  <2> QED
    BY <2>1, <2>2
<1>8. ASSUME NEW u \in Users, NEW ch \in Chats, ChangeAccess(u, ch) PROVE DeadIsPruned'
  BY <1>8 DEF ChangeAccess
<1>9. CASE Crash
  BY <1>9 DEF Crash
<1>10. CASE UNCHANGED vars
  BY <1>10 DEF vars
<1> QED
  BY <1>1, <1>2, <1>3, <1>4, <1>5, <1>6, <1>7, <1>8, <1>9, <1>10
     DEF Next, ConnStep, SendFrame, PostMessage

-----------------------------------------------------------------------------
(* The broker's tables have their types, whatever the interleaving. *)
THEOREM TypeCorrect == Spec => []TypeOK
<1>1. Init => TypeOK
  BY RealtimeConstants DEF RealtimeConstants, Init, TypeOK, Tasks, ConnPCs, NoPub
<1> QED
  BY <1>1, TypeInductive, PTL DEF Spec

LEMMA InvariantHolds == Spec => []IInv
<1>1. Init => IInv
  <2> SUFFICES ASSUME Init PROVE IInv
    OBVIOUS
  <2>1. TypeOK
    BY RealtimeConstants DEF RealtimeConstants, Init, TypeOK, Tasks, ConnPCs, NoPub
  <2>2. RosterMatchesRooms /\ NewIsAbsent /\ SnapshotsSound
    BY RealtimeConstants DEF RealtimeConstants, Init, RosterMatchesRooms, NewIsAbsent, SnapshotsSound, Tasks, NoPub
  <2>3. ServedIsRegistered /\ DeadIsPruned
    BY RealtimeConstants DEF RealtimeConstants, Init, ServedIsRegistered, DeadIsPruned, Alive, Tasks, NoPub
  <2> QED
    BY <2>1, <2>2, <2>3 DEF IInv
<1>2. IInv /\ [Next]_vars => IInv'
  BY TypeInductive, RosterInductive, NewIsAbsentInductive, SnapshotsInductive,
     ServedInductive, PrunedInductive DEF IInv
<1> QED
  BY <1>1, <1>2, PTL DEF Spec

(* online_users() is exactly the users of the registered sockets. *)
THEOREM RosterCorrect == Spec => []RosterMatchesRooms
<1>1. IInv => RosterMatchesRooms
  BY DEF IInv
<1> QED
  BY <1>1, InvariantHolds, PTL

(* Nothing takes a live connection out of its room. *)
THEOREM ServedCorrect == Spec => []ServedIsRegistered
<1>1. IInv => ServedIsRegistered
  BY DEF IInv
<1> QED
  BY <1>1, InvariantHolds, PTL

(* A socket found dead by a finished publication never comes back. *)
THEOREM PruneCorrect == Spec => []DeadIsPruned
<1>1. IInv => DeadIsPruned
  BY DEF IInv
<1> QED
  BY <1>1, InvariantHolds, PTL

-----------------------------------------------------------------------------
(* Only an admission adds to a room. *)
LEMMA RoomsShrink ==
  ASSUME IInv, [Next]_vars, \A c \in Conns : ~Admit(c)
  PROVE  \A ch \in Chats : rooms'[ch] \subseteq rooms[ch]
<1> USE RealtimeConstants DEF RealtimeConstants, IInv, TypeOK, Tasks
<1>u. ASSUME NEW c \in Conns, EndLoop(c) \/ Ack(c)
      PROVE  \A ch \in Chats : rooms'[ch] \subseteq rooms[ch]
  <2>1. CASE UNCHANGED rooms
    BY <2>1
  <2>2. CASE Unregister(c)
    <3>1. rooms' = [rooms EXCEPT ![ChatOf[c]] = rooms[ChatOf[c]] \ {c}]
      BY ONLY <2>2, UnregisterEffect, IInv, c \in Conns DEF IInv
    <3> QED
      BY <3>1
  <2> QED
    BY <1>u, <2>1, <2>2 DEF EndLoop, Ack
<1>1. ASSUME NEW t \in Tasks, PublishDone(t)
      PROVE  \A ch \in Chats : rooms'[ch] \subseteq rooms[ch]
  <2>1. rooms' = [rooms EXCEPT ![ChatOf[t]] = rooms[ChatOf[t]] \ pub[t].dead]
    BY <1>1, PruneEffect DEF PublishDone
  <2> QED
    BY <2>1
<1>2. CASE UNCHANGED rooms
  BY <1>2
<1>3. CASE Crash
  BY <1>3 DEF Crash
<1> QED
  BY <1>u, <1>1, <1>2, <1>3 DEF Next, ConnStep, Refuse, Hello, ClientGone, SendFrame,
     PostMessage, StoreAndSnapshot, PublishTo, ChangeAccess, vars

(* Handshakes, however they interleave, never exceed MAX_CONNECTIONS. *)
THEOREM LimitCorrect == Spec => []ConnectionLimit
<1> DEFINE Registered == {p \in Chats \X Conns : p[2] \in rooms[p[1]]}
<1> USE RealtimeConstants DEF RealtimeConstants
<1>f. IsFiniteSet(Chats \X Conns)
  BY FS_Product
<1>1. Init => ConnectionLimit
  <2> SUFFICES ASSUME Init PROVE ConnectionLimit
    OBVIOUS
  <2>1. Registered = {}
    BY DEF Init
  <2>2. Cardinality({}) = 0
    BY FS_EmptySet
  <2>3. ActiveCount = 0
    BY <2>1, <2>2 DEF ActiveCount
  <2> QED
    BY <2>3 DEF ConnectionLimit
<1>2. IInv /\ ConnectionLimit /\ [Next]_vars => ConnectionLimit'
  <2> SUFFICES ASSUME IInv, ConnectionLimit, [Next]_vars PROVE ConnectionLimit'
    OBVIOUS
  <2>1. IsFiniteSet(Registered) /\ Cardinality(Registered) \in Nat
    BY <1>f, FS_Subset, FS_CardinalityType
  <2>2. ASSUME NEW c \in Conns, Admit(c) PROVE ConnectionLimit'
    <3>1. Registered' \subseteq Registered \cup {<<ChatOf[c], c>>}
      BY <2>2 DEF Admit, Register, IInv, TypeOK, Tasks
    <3>2. Cardinality(Registered) < MaxConnections
      BY <2>1, <2>2 DEF Admit, Full, ActiveCount
    <3>3. /\ IsFiniteSet(Registered \cup {<<ChatOf[c], c>>})
          /\ Cardinality(Registered \cup {<<ChatOf[c], c>>}) \in Nat
          /\ Cardinality(Registered \cup {<<ChatOf[c], c>>}) <= Cardinality(Registered) + 1
      <4>1. /\ IsFiniteSet(Registered \cup {<<ChatOf[c], c>>})
            /\ \/ Cardinality(Registered \cup {<<ChatOf[c], c>>}) = Cardinality(Registered)
               \/ Cardinality(Registered \cup {<<ChatOf[c], c>>}) = Cardinality(Registered) + 1
        BY ONLY <2>1, FS_AddElement
      <4> QED
        BY ONLY <2>1, <4>1
    <3>4. /\ Cardinality(Registered') \in Nat
          /\ Cardinality(Registered') <= Cardinality(Registered \cup {<<ChatOf[c], c>>})
      BY <3>1, <3>3, FS_Subset, FS_CardinalityType
    <3> QED
      BY <2>1, <3>2, <3>3, <3>4 DEF ConnectionLimit, ActiveCount
  <2>3. CASE \A c \in Conns : ~Admit(c)
    <3>1. Registered' \subseteq Registered
      BY <2>3, RoomsShrink
    <3>2. /\ Cardinality(Registered') \in Nat
          /\ Cardinality(Registered') <= Cardinality(Registered)
      BY <2>1, <3>1, FS_Subset, FS_CardinalityType
    <3> QED
      BY <2>1, <3>2 DEF ConnectionLimit, ActiveCount
  <2> QED
    BY <2>2, <2>3
<1> QED
  BY <1>1, <1>2, InvariantHolds, PTL DEF Spec

-----------------------------------------------------------------------------
(* A row that publication t still has to try on c. *)
Pending(t, c, i) ==
  /\ pc[t] = "publishing" /\ ChatOf[t] = ChatOf[c]
  /\ pub[t].msg = i
  /\ c \in pub[t].targets \ (pub[t].got \cup pub[t].dead)

LEMMA NoGapInductive ==
  IInv /\ NoGap /\ [Next]_vars => NoGap'
<1> SUFFICES ASSUME IInv, NoGap, [Next]_vars,
                    NEW c \in Conns, Alive(c)', sock'[c] = "open",
                    NEW i \in ((since[c] + 1)..Len(log[ChatOf[c]]))'
             PROVE  i \in inbox'[c] \/ \E t \in Tasks : Pending(t, c, i)'
  BY DEF NoGap, Pending
<1> USE RealtimeConstants DEF RealtimeConstants, IInv, TypeOK, Tasks, Alive
<1> DEFINE Heard == i \in inbox'[c] \/ \E t \in Tasks : Pending(t, c, i)'
<1>a. ChatOf[c] \in Chats /\ since[c] \in Nat /\ Len(log[ChatOf[c]]) \in Nat
  OBVIOUS
<1>b. ASSUME Alive(c), sock[c] = "open", i \in (since[c] + 1)..Len(log[ChatOf[c]])
      PROVE  i \in inbox[c] \/ \E t \in Tasks : Pending(t, c, i)
  BY <1>b DEF NoGap, Pending
<1>0. ASSUME UNCHANGED <<since, log>>, Alive(c), sock[c] = "open",
             inbox[c] \subseteq inbox'[c],
             \A t \in Tasks : Pending(t, c, i) => Pending(t, c, i)' \/ i \in inbox'[c]
      PROVE  Heard
  BY ONLY <1>0, <1>b, i \in ((since[c] + 1)..Len(log[ChatOf[c]]))'
<1>1. ASSUME NEW d \in Conns, Admit(d) PROVE Heard
  <2>1. CASE d = c
    <3>1. since'[c] = Len(log[ChatOf[c]]) /\ log' = log
      BY <1>1, <2>1 DEF Admit
    <3> QED
      BY ONLY <1>a, <3>1, i \in ((since[c] + 1)..Len(log[ChatOf[c]]))'
  <2>2. CASE d # c
    <3>1. /\ since'[c] = since[c] /\ log' = log /\ inbox' = inbox
          /\ Alive(c) /\ sock[c] = "open"
      BY <1>1, <2>2 DEF Admit
    <3>2. \A t \in Tasks : Pending(t, c, i) => Pending(t, c, i)'
      BY <1>1 DEF Admit, Pending
    <3> QED
      BY ONLY <1>b, <3>1, <3>2, i \in ((since[c] + 1)..Len(log[ChatOf[c]]))'
  <2> QED
    BY <2>1, <2>2
<1>2. ASSUME NEW d \in Conns, Refuse(d) \/ Hello(d) \/ ClientGone(d) \/ EndLoop(d) PROVE Heard
  <2>1. UNCHANGED <<since, log, inbox, pub>> /\ Alive(c) /\ sock[c] = "open"
    BY <1>2 DEF Refuse, Hello, ClientGone, EndLoop
  <2>2. \A t \in Tasks : pc[t] = "publishing" => pc'[t] = "publishing"
    BY <1>2 DEF Refuse, Hello, ClientGone, EndLoop
  <2>3. \A t \in Tasks : Pending(t, c, i) => Pending(t, c, i)'
    BY <2>1, <2>2 DEF Pending
  <2> QED
    BY ONLY <1>0, <2>1, <2>3
<1>3. ASSUME NEW d \in Conns, Ack(d) PROVE Heard
  <2>1. UNCHANGED <<since, log, inbox, sock>> /\ Alive(c)
    BY <1>3 DEF Ack
  <2>2. \A t \in Tasks : pc[t] = "publishing" => pc'[t] = pc[t] /\ pub'[t] = pub[t]
    BY <1>3 DEF Ack
  <2>3. \A t \in Tasks : Pending(t, c, i) => Pending(t, c, i)'
    BY <2>2 DEF Pending
  <2> QED
    BY ONLY <1>0, <2>1, <2>3, sock'[c] = "open"
<1>4. ASSUME NEW t \in Tasks, NEW k \in ClientIds \cup {NoId}, StoreAndSnapshot(t, k),
             IF t \in Conns THEN pc[t] = "loop" ELSE pc[t] = "new"
      PROVE Heard
  <2>1. /\ UNCHANGED <<since, inbox, sock, rooms>>
        /\ pc' = [pc EXCEPT ![t] = "publishing"]
        /\ \A u \in Tasks \ {t} : pub'[u] = pub[u]
    BY <1>4 DEF StoreAndSnapshot
  <2>2. Alive(c) /\ sock[c] = "open"
    BY <1>4, <2>1
  <2>3. \A u \in Tasks : Pending(u, c, i) => Pending(u, c, i)'
    BY <1>4, <2>1 DEF Pending
  <2>4. PICK j \in 1..(Len(log[ChatOf[t]]) + 1) :
          /\ \/ UNCHANGED log
             \/ /\ j = Len(log[ChatOf[t]]) + 1
                /\ log' = [log EXCEPT ![ChatOf[t]] = Append(@, [via |-> t, cmid |-> k])]
          /\ pub'[t] = [msg |-> j, targets |-> rooms[ChatOf[t]], got |-> {}, dead |-> {}]
    BY <1>4 DEF StoreAndSnapshot
  <2>5. CASE i \in (since[c] + 1)..Len(log[ChatOf[c]])
    BY ONLY <1>b, <2>1, <2>2, <2>3, <2>5
  <2>6. CASE i \notin (since[c] + 1)..Len(log[ChatOf[c]])
    <3>1. log' # log
      BY ONLY <2>1, <2>6, i \in ((since[c] + 1)..Len(log[ChatOf[c]]))'
    <3>2. ChatOf[c] = ChatOf[t] /\ i = j
      <4>1. /\ ChatOf[t] \in Chats /\ log[ChatOf[t]] \in Seq([via : Tasks, cmid : ClientIds \cup {NoId}])
            /\ log \in [Chats -> Seq([via : Tasks, cmid : ClientIds \cup {NoId}])]
        BY ONLY RealtimeConstants, TypeOK DEF RealtimeConstants, TypeOK
      <4>2. CASE ChatOf[c] # ChatOf[t]
        BY ONLY <1>a, <2>1, <2>4, <2>6, <3>1, <4>1, <4>2, i \in ((since[c] + 1)..Len(log[ChatOf[c]]))'
      <4>3. CASE ChatOf[c] = ChatOf[t]
        <5>1. Len(log'[ChatOf[c]]) = Len(log[ChatOf[c]]) + 1
          BY ONLY <1>a, <2>4, <3>1, <4>1, <4>3
        <5> QED
          BY ONLY <1>a, <2>1, <2>4, <2>6, <3>1, <4>3, <5>1, i \in ((since[c] + 1)..Len(log[ChatOf[c]]))'
      <4> QED
        BY <4>2, <4>3
    <3>3. c \in rooms[ChatOf[c]]
      BY <2>2 DEF ServedIsRegistered
    <3>4. Pending(t, c, i)'
      BY <2>1, <2>4, <3>2, <3>3 DEF Pending
    <3> QED
      BY <3>4
  <2> QED
    BY <2>5, <2>6
<1>5. ASSUME NEW t \in Tasks, NEW d \in Conns, PublishTo(t, d) PROVE Heard
  <2>1. UNCHANGED <<since, log, sock, pc>> /\ inbox[c] \subseteq inbox'[c]
    <3>1. inbox' = inbox \/ inbox' = [inbox EXCEPT ![d] = inbox[d] \cup {pub[t].msg}]
      BY ONLY <1>5 DEF PublishTo
    <3>2. inbox[c] \subseteq inbox'[c]
      BY ONLY <3>1, inbox \in [Conns -> SUBSET Nat], c \in Conns, d \in Conns
    <3> QED
      BY <1>5, <3>2 DEF PublishTo
  <2>2. /\ \A u \in Tasks \ {t} : pub'[u] = pub[u]
        /\ pub'[t].msg = pub[t].msg /\ pub'[t].targets = pub[t].targets
        /\ sock[d] = "open" => /\ pub'[t].got = pub[t].got \cup {d}
                               /\ pub'[t].dead = pub[t].dead
        /\ sock[d] # "open" => /\ pub'[t].got = pub[t].got
                               /\ pub'[t].dead = pub[t].dead \cup {d}
    BY ONLY <1>5, PublishToEffect, TypeOK, t \in Tasks, d \in Conns
  <2>3. sock[d] = "open" => pub[t].msg \in inbox'[d]
    <3>1. sock[d] = "open" => inbox' = [inbox EXCEPT ![d] = inbox[d] \cup {pub[t].msg}]
      BY ONLY <1>5 DEF PublishTo
    <3> QED
      BY ONLY <3>1, inbox \in [Conns -> SUBSET Nat], d \in Conns
  <2>4. \A u \in Tasks : Pending(u, c, i) => Pending(u, c, i)' \/ i \in inbox'[c]
    BY ONLY <2>1, <2>2, <2>3, sock'[c] = "open" DEF Pending
  <2> QED
    BY ONLY <1>0, <2>1, <2>4, Alive(c)', sock'[c] = "open" DEF Alive
<1>6. ASSUME NEW t \in Tasks, PublishDone(t) PROVE Heard
  <2>1. /\ UNCHANGED <<since, log, inbox, sock, pub>> /\ pc[t] = "publishing"
        /\ \A u \in Tasks \ {t} : pc'[u] = pc[u]
        /\ pub[t].targets \subseteq pub[t].got \cup pub[t].dead
    BY <1>6 DEF PublishDone
  <2>2. Alive(c) /\ sock[c] = "open"
    BY <2>1
  <2>3. \A u \in Tasks : Pending(u, c, i) => Pending(u, c, i)'
    BY ONLY <2>1 DEF Pending
  <2> QED
    BY ONLY <1>0, <2>1, <2>2, <2>3
<1>7. CASE (\E u \in Users, ch \in Chats : ChangeAccess(u, ch)) \/ UNCHANGED vars
  <2>1. UNCHANGED <<since, log, inbox, sock, pub, pc>>
    BY <1>7 DEF ChangeAccess, vars
  <2> QED
    BY ONLY <1>0, <2>1, Alive(c)', sock'[c] = "open" DEF Alive, Pending
<1>8. CASE Crash
  BY <1>8 DEF Crash
<1> QED
  BY <1>1, <1>2, <1>3, <1>4, <1>5, <1>6, <1>7, <1>8
     DEF Next, ConnStep, SendFrame, PostMessage

(* Whatever joins, leaves, fails or retries, a connected client never has  *)
(* a gap: every row stored while it is connected reaches it.               *)
THEOREM NoGapCorrect == Spec => []NoGap
<1>1. Init => NoGap
  BY RealtimeConstants DEF RealtimeConstants, Init, NoGap, Alive, Tasks
<1> QED
  BY <1>1, NoGapInductive, InvariantHolds, PTL DEF Spec

-----------------------------------------------------------------------------
LEMMA OneRowInductive ==
  TypeOK /\ OneRowPerClientId /\ [Next]_vars => OneRowPerClientId'
<1> SUFFICES ASSUME TypeOK, OneRowPerClientId, [Next]_vars PROVE OneRowPerClientId'
  OBVIOUS
<1>1. ASSUME NEW t \in Tasks, NEW k \in ClientIds \cup {NoId}, StoreAndSnapshot(t, k)
      PROVE  OneRowPerClientId'
  <2> DEFINE ch == ChatOf[t]
             Row == [via : Tasks, cmid : ClientIds \cup {NoId}]
  <2>1. /\ ch \in Chats /\ log \in [Chats -> Seq(Row)]
        /\ [via |-> t, cmid |-> k] \in Row
    BY RealtimeConstants DEF RealtimeConstants, TypeOK
  <2>2. CASE UNCHANGED log
    BY <2>2 DEF OneRowPerClientId
  <2>3. CASE log' # log
    <3>1. /\ \A i \in DOMAIN log[ch] : k # NoId => log[ch][i].cmid # k
          /\ log' = [log EXCEPT ![ch] = Append(log[ch], [via |-> t, cmid |-> k])]
      BY <1>1, <2>3 DEF StoreAndSnapshot, Matches
    <3>2. \A d \in Chats \ {ch} : log'[d] = log[d]
      BY ONLY <2>1, <3>1
    <3>3. /\ DOMAIN log'[ch] = 1..(Len(log[ch]) + 1)
          /\ DOMAIN log[ch] = 1..Len(log[ch]) /\ Len(log[ch]) \in Nat
          /\ \A i \in 1..Len(log[ch]) : log'[ch][i] = log[ch][i]
          /\ log'[ch][Len(log[ch]) + 1] = [via |-> t, cmid |-> k]
      BY ONLY <2>1, <3>1
    <3>4. \A i, j \in DOMAIN log'[ch] :
            log'[ch][i].cmid # NoId /\ log'[ch][i].cmid = log'[ch][j].cmid => i = j
      BY ONLY <2>1, <3>1, <3>3, OneRowPerClientId DEF OneRowPerClientId
    <3> QED
      BY ONLY <3>2, <3>4, OneRowPerClientId DEF OneRowPerClientId
  <2> QED
    BY <2>2, <2>3
<1>2. CASE UNCHANGED log
  BY <1>2 DEF OneRowPerClientId
<1> QED
  BY <1>1, <1>2 DEF Next, ConnStep, Admit, Refuse, Hello, ClientGone, EndLoop, Ack,
     SendFrame, PostMessage, PublishTo, PublishDone, ChangeAccess, Crash, vars, Tasks

(* No retry stores a message twice. *)
THEOREM OneRowCorrect == Spec => []OneRowPerClientId
<1>1. Init => OneRowPerClientId
  BY DEF Init, OneRowPerClientId
<1> QED
  BY <1>1, OneRowInductive, TypeCorrect, PTL DEF Spec

(* Access is looked at for every message, not once per connection. *)
THEOREM AuthorCorrect == Spec => AuthorHasAccess
<1> DEFINE Checked == \A ch \in Chats : Len(log'[ch]) > Len(log[ch]) =>
                        <<UserOf[log'[ch][Len(log'[ch])].via], ch>> \in access
<1>1. TypeOK /\ [Next]_vars => [Checked]_vars
  <2> SUFFICES ASSUME TypeOK, [Next]_vars PROVE [Checked]_vars
    OBVIOUS
  <2>1. \A ch \in Chats : Len(log[ch]) \in Nat
    BY DEF TypeOK
  <2>2. ASSUME NEW t \in Tasks, NEW k \in ClientIds \cup {NoId}, StoreAndSnapshot(t, k)
        PROVE  Checked
    <3> DEFINE Row == [via : Tasks, cmid : ClientIds \cup {NoId}]
    <3>1. /\ ChatOf[t] \in Chats /\ log \in [Chats -> Seq(Row)]
          /\ [via |-> t, cmid |-> k] \in Row
      BY RealtimeConstants DEF RealtimeConstants, TypeOK
    <3>2. /\ log' = log \/ log' = [log EXCEPT ![ChatOf[t]] = Append(@, [via |-> t, cmid |-> k])]
          /\ <<UserOf[t], ChatOf[t]>> \in access
      BY <2>2 DEF StoreAndSnapshot, MayPost
    <3>3. CASE log' = log
      BY ONLY <2>1, <3>3
    <3>4. CASE log' = [log EXCEPT ![ChatOf[t]] = Append(@, [via |-> t, cmid |-> k])]
      <4>1. \A ch \in Chats \ {ChatOf[t]} : log'[ch] = log[ch]
        BY ONLY <3>1, <3>4
      <4>2. log'[ChatOf[t]][Len(log'[ChatOf[t]])] = [via |-> t, cmid |-> k]
        BY ONLY <3>1, <3>4
      <4> QED
        BY ONLY <2>1, <3>2, <4>1, <4>2
    <3> QED
      BY <3>2, <3>3, <3>4
  <2>3. CASE UNCHANGED log
    BY <2>1, <2>3
  <2> QED
    BY <2>2, <2>3 DEF Next, ConnStep, Admit, Refuse, Hello, ClientGone, EndLoop, Ack,
       SendFrame, PostMessage, PublishTo, PublishDone, ChangeAccess, Crash, vars, Tasks
<1> QED
  BY <1>1, TypeCorrect, PTL DEF Spec, AuthorHasAccess
=============================================================================
