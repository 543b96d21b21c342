------------------------------- MODULE DeskProofs -------------------------------
(***************************************************************************)
(* Proofs about Desk, for any accounts and any number of tickets, messages *)
(* applications and posts.                                                 *)
(***************************************************************************)
EXTENDS Desk, TLAPS

-----------------------------------------------------------------------------
(* Single columns of rows, as records.                                     *)
LEMMA StatusOnly ==
  ASSUME NEW x \in TicketRows, NEW s
  PROVE  [x EXCEPT !.status = s] = [status |-> s, owner |-> x.owner]
  BY DEF TicketRows

LEMMA ReviewerOnly ==
  ASSUME NEW x \in ApplicationRows, NEW v
  PROVE  [x EXCEPT !.reviewer = v] = [status |-> x.status, reviewer |-> v]
  BY DEF ApplicationRows

LEMMA ReviewersGoRow ==
  ASSUME TypeOK, NEW S, ReviewersGo(S), NEW a \in ApplicationIds
  PROVE  application'[a] =
           [status |-> application[a].status,
            reviewer |-> IF application[a].reviewer \in S THEN NoUser ELSE application[a].reviewer]
<1> DEFINE v == IF application[a].reviewer \in S THEN NoUser ELSE application[a].reviewer
<1>1. application[a] \in ApplicationRows
  BY DEF TypeOK
<1>2. application'[a] = [application[a] EXCEPT !.reviewer = v]
  BY Zenon DEF ReviewersGo
<1> HIDE DEF v
<1> QED BY <1>1, <1>2, ReviewerOnly DEF v

LEMMA RowTypes ==
  /\ NoTicket \in TicketRows /\ NoMessage \in MessageRows /\ NoApplication \in ApplicationRows
  /\ \A u \in Users, s \in TicketStatus : [status |-> s, owner |-> u] \in TicketRows
  /\ \A u \in Users, t \in TicketIds : [ticket |-> t, author |-> u] \in MessageRows
  BY DeskConstants DEF DeskConstants, NoTicket, TicketRows, NoMessage, MessageRows,
     NoApplication, ApplicationRows, TicketIds

(* The counters after rows were inserted. *)
Used(x, y, a, p) ==
  /\ last' \in Counters
  /\ last'["tickets"] = x /\ last'["messages"] = y
  /\ last'["applications"] = a /\ last'["posts"] = p
LEMMA InsertTypes ==
  ASSUME TypeOK
  PROVE  /\ (Insert({"tickets", "messages"})
              /\ NextId("tickets") \in TicketIds /\ NextId("messages") \in MessageIds) =>
              Used(NextId("tickets"), NextId("messages"), last["applications"], last["posts"])
         /\ (Insert({"messages"}) /\ NextId("messages") \in MessageIds) =>
              Used(last["tickets"], NextId("messages"), last["applications"], last["posts"])
         /\ (Insert({"applications"}) /\ NextId("applications") \in ApplicationIds) =>
              Used(last["tickets"], last["messages"], NextId("applications"), last["posts"])
         /\ (Insert({"posts"}) /\ NextId("posts") \in PostIds) =>
              Used(last["tickets"], last["messages"], last["applications"], NextId("posts"))
  BY DeskConstants DEF DeskConstants, TypeOK, Used, Counters, TicketIds, MessageIds,
     ApplicationIds, PostIds, NextId, Insert, Tables

-----------------------------------------------------------------------------
(* What the five methods of SupportService do to the tables. *)
LEMMA CreateEffect ==
  ASSUME TypeOK, NEW u \in Users, CreateTicket(u)
  PROVE  /\ status[u] = "active"
         /\ NextId("tickets") \in TicketIds /\ NextId("messages") \in MessageIds
         /\ \E s \in {"open", "in_progress"} :
              /\ ticket' = [ticket EXCEPT ![NextId("tickets")] = [status |-> s, owner |-> u]]
              /\ IsAdmin(u) => s = "in_progress"
         /\ message' = [message EXCEPT ![NextId("messages")] =
              [ticket |-> NextId("tickets"), author |-> u]]
         /\ Used(NextId("tickets"), NextId("messages"), last["applications"], last["posts"])
         /\ seen' = seen
<1> DEFINE s == IF IsAdmin(u) THEN "in_progress" ELSE "open"
<1>1. ticket' = [ticket EXCEPT ![NextId("tickets")] = [status |-> s, owner |-> u]]
  BY Zenon DEF CreateTicket
<1>2. s \in {"open", "in_progress"} /\ (IsAdmin(u) => s = "in_progress")
  OBVIOUS
<1>3. Used(NextId("tickets"), NextId("messages"), last["applications"], last["posts"])
  BY InsertTypes, Zenon DEF CreateTicket
<1> HIDE DEF s
<1> QED BY <1>1, <1>2, <1>3, Zenon DEF CreateTicket, SupportUser

LEMMA SendEffect ==
  ASSUME TypeOK, NEW u \in Users, NEW t \in TicketIds, SendMessage(u, t)
  PROVE  /\ status[u] = "active" /\ t \in Live /\ (IsAdmin(u) \/ ticket[t].owner = u)
         /\ NextId("messages") \in MessageIds
         /\ message' = [message EXCEPT ![NextId("messages")] = [ticket |-> t, author |-> u]]
         /\ Used(last["tickets"], NextId("messages"), last["applications"], last["posts"])
         /\ seen' = seen
         /\ ticket' = [ticket EXCEPT ![t] =
              [status |-> AfterReply(u, ticket[t].status), owner |-> ticket[t].owner]]
<1> DEFINE s == AfterReply(u, ticket[t].status)
<1>1. ticket[t] \in TicketRows
  BY DEF TypeOK
<1>2. ticket' = [ticket EXCEPT ![t] = [ticket[t] EXCEPT !.status = s]]
  BY Zenon DEF SendMessage
<1>3. [ticket[t] EXCEPT !.status = s] = [status |-> s, owner |-> ticket[t].owner]
  <2> HIDE DEF s
  <2> QED BY <1>1, StatusOnly, Zenon
<1>4. Used(last["tickets"], NextId("messages"), last["applications"], last["posts"])
  BY InsertTypes, Zenon DEF SendMessage
<1> HIDE DEF s
<1>5. ticket' = [ticket EXCEPT ![t] = [status |-> s, owner |-> ticket[t].owner]]
  BY <1>2, <1>3, Zenon
<1> QED BY <1>4, <1>5 DEF SendMessage, SupportUser, CanAccess, s

LEMMA StatusEffect ==
  ASSUME TypeOK, NEW u \in Users, NEW t \in TicketIds, NEW new \in TicketStatus,
         SetTicketStatus(u, t, new)
  PROVE  /\ t \in Live /\ MaySet(u, t, new)
         /\ ticket' = [ticket EXCEPT ![t] = [status |-> new, owner |-> ticket[t].owner]]
         /\ UNCHANGED <<message, last, seen>>
<1>1. ticket[t] \in TicketRows
  BY DEF TypeOK
<1>2. ticket' = [ticket EXCEPT ![t] = [ticket[t] EXCEPT !.status = new]]
  BY Zenon DEF SetTicketStatus
<1>3. [ticket[t] EXCEPT !.status = new] = [status |-> new, owner |-> ticket[t].owner]
  BY <1>1, StatusOnly, Zenon
<1> QED BY <1>2, <1>3 DEF SetTicketStatus

(* Both routers call the same methods. *)
SupportEffect(u) ==
  \/ CreateTicket(u) \/ ListTickets(u)
  \/ \E t \in TicketIds :
       \/ ListMessages(u, t) \/ SendMessage(u, t)
       \/ \E new \in TicketStatus : SetTicketStatus(u, t, new)
LEMMA SupportRoutes ==
  ASSUME NEW u \in Users, SupportStep(u)
  PROVE  SupportEffect(u) /\ by' = u /\ UNCHANGED <<role, status, mode, application, post>>
<1>1. UNCHANGED <<role, status, mode, application, post>> /\ by' = u
  BY Zenon DEF SupportStep
<1>2. CASE RouteCreate(u) \/ RouteTickets(u) \/ PanelTickets(u)
  BY <1>1, <1>2, Zenon DEF SupportEffect, RouteCreate, RouteTickets, PanelTickets
<1>3. ASSUME NEW t \in TicketIds,
             RouteMessages(u, t) \/ PanelMessages(u, t) \/ RouteSend(u, t) \/ PanelReply(u, t)
      PROVE SupportEffect(u)
  BY <1>3, Zenon DEF SupportEffect, RouteMessages, PanelMessages, RouteSend, PanelReply
<1>4. ASSUME NEW t \in TicketIds, NEW new \in TicketStatus,
             RouteStatus(u, t, new) \/ PanelStatus(u, t, new)
      PROVE SupportEffect(u)
  BY <1>4, Zenon DEF SupportEffect, RouteStatus, PanelStatus
<1> QED BY <1>1, <1>2, <1>3, <1>4, Zenon DEF SupportStep

-----------------------------------------------------------------------------
(* The kinds of step that a request can be, on the tables and the accounts *)
(* alone, as records and sets and without the routes.                      *)
Opened(u, s) ==
  /\ status[u] = "active" /\ s \in {"open", "in_progress"}
  /\ IsAdmin(u) => s = "in_progress"
  /\ NextId("tickets") \in TicketIds /\ NextId("messages") \in MessageIds
  /\ ticket' = [ticket EXCEPT ![NextId("tickets")] = [status |-> s, owner |-> u]]
  /\ message' = [message EXCEPT ![NextId("messages")] =
       [ticket |-> NextId("tickets"), author |-> u]]
  /\ Used(NextId("tickets"), NextId("messages"), last["applications"], last["posts"])
  /\ by' = u
  /\ UNCHANGED <<role, status, mode, application, post, seen>>
Answered(u, t) ==
  /\ status[u] = "active" /\ t \in Live
  /\ NextId("messages") \in MessageIds
  /\ ticket' = [ticket EXCEPT ![t] =
       [status |-> AfterReply(u, ticket[t].status), owner |-> ticket[t].owner]]
  /\ message' = [message EXCEPT ![NextId("messages")] = [ticket |-> t, author |-> u]]
  /\ Used(last["tickets"], NextId("messages"), last["applications"], last["posts"])
  /\ by' = u
  /\ UNCHANGED <<role, status, mode, application, post, seen>>
Moved(u, t, new) ==
  /\ t \in Live /\ MaySet(u, t, new)
  /\ ticket' = [ticket EXCEPT ![t] = [status |-> new, owner |-> ticket[t].owner]]
  /\ by' = u
  /\ UNCHANGED <<role, status, mode, message, application, post, last, seen>>
Shown(u) ==
  /\ \/ seen' = seen
     \/ /\ ~IsAdmin(u)
        /\ \E things \in SUBSET Live :
             /\ \A t \in things : ticket[t].owner = u
             /\ seen' = seen \cup {<<u, x>> : x \in things}
  /\ by' \in {u, NoUser}
  /\ UNCHANGED <<role, status, mode, ticket, message, application, post, last>>
Submitted ==
  /\ NextId("applications") \in ApplicationIds
  /\ application' = [application EXCEPT ![NextId("applications")] =
       [status |-> "pending", reviewer |-> NoUser]]
  /\ Used(last["tickets"], last["messages"], NextId("applications"), last["posts"])
  /\ by' = NoUser
  /\ UNCHANGED <<role, status, mode, ticket, message, post, seen>>
Reviewed(u, a, new) ==
  /\ status[u] = "active"
  /\ application' = [application EXCEPT ![a] = [status |-> new, reviewer |-> u]]
  /\ by' = NoUser
  /\ UNCHANGED <<role, status, mode, ticket, message, post, last, seen>>
Published(u) ==
  /\ status[u] = "active" /\ NextId("posts") \in PostIds
  /\ post' = [post EXCEPT ![NextId("posts")] = u]
  /\ Used(last["tickets"], last["messages"], last["applications"], NextId("posts"))
  /\ by' = NoUser
  /\ UNCHANGED <<role, status, mode, ticket, message, application, seen>>
DeskCleared ==
  /\ ticket' = [t \in TicketIds |-> NoTicket]
  /\ message' = [m \in MessageIds |-> NoMessage]
  /\ by' = NoUser
  /\ UNCHANGED <<role, status, mode, application, post, last, seen>>
BlogCleared ==
  /\ post' = [p \in PostIds |-> NoUser]
  /\ by' = NoUser
  /\ UNCHANGED <<role, status, mode, ticket, message, application, last, seen>>
Gone(S) ==
  /\ UsersGo(S)
  /\ \A a \in ApplicationIds :
       \/ application'[a] = NoApplication
       \/ application'[a] =
            [status |-> application[a].status,
             reviewer |-> IF application[a].reviewer \in S THEN NoUser
                          ELSE application[a].reviewer]
  /\ application' = [a \in ApplicationIds |-> application'[a]]
  /\ by' = NoUser
  /\ UNCHANGED <<role, mode, post, last, seen>>
Governed ==
  /\ \A v \in Users : Exists(v) => status'[v] # "absent"
  /\ role' \in [Users -> {"admin", "moderator", "user", "guest"}]
  /\ status' \in [Users -> {"absent", "active", "off"}]
  /\ mode' \in {"open", "closed"}
  /\ by' = NoUser
  /\ UNCHANGED <<ticket, message, application, post, last, seen>>

Change ==
  \/ \E u \in Users :
       \/ \E s \in {"open", "in_progress"} : Opened(u, s)
       \/ \E t \in TicketIds : Answered(u, t) \/ \E new \in TicketStatus : Moved(u, t, new)
       \/ Shown(u) \/ Published(u)
       \/ \E a \in ApplicationIds, new \in Reviews : Reviewed(u, a, new)
  \/ \E S \in SUBSET Users : Gone(S)
  \/ Submitted \/ DeskCleared \/ BlogCleared \/ Governed

LEMMA SupportChange ==
  ASSUME TypeOK, NEW u \in Users, SupportStep(u)
  PROVE  Change
<1>1. SupportEffect(u) /\ by' = u /\ UNCHANGED <<role, status, mode, application, post>>
  BY SupportRoutes
<1>2. CASE CreateTicket(u)
  <2>1. \E s \in {"open", "in_progress"} : Opened(u, s)
    BY <1>1, <1>2, CreateEffect, Zenon DEF Opened
  <2> QED BY <2>1 DEF Change
<1>3. CASE ListTickets(u)
  <2>1. Shown(u)
    BY <1>1, <1>3 DEF ListTickets, Shows, Queue, Shown
  <2> QED BY <2>1 DEF Change
<1>4. ASSUME NEW t \in TicketIds, ListMessages(u, t)
      PROVE Change
  <2>1. Shown(u)
    BY <1>1, <1>4 DEF ListMessages, Shows, Shown, CanAccess
  <2> QED BY <2>1 DEF Change
<1>5. ASSUME NEW t \in TicketIds, SendMessage(u, t)
      PROVE Change
  <2>1. Answered(u, t)
    BY <1>1, <1>5, SendEffect, Zenon DEF Answered
  <2> QED BY <2>1 DEF Change
<1>6. ASSUME NEW t \in TicketIds, NEW new \in TicketStatus, SetTicketStatus(u, t, new)
      PROVE Change
  <2>1. Moved(u, t, new)
    BY <1>1, <1>6, StatusEffect, Zenon DEF Moved
  <2> QED BY <2>1 DEF Change
<1> QED BY <1>1, <1>2, <1>3, <1>4, <1>5, <1>6, Zenon DEF SupportEffect

LEMMA OthersChange ==
  ASSUME TypeOK, NEW u \in Users, ApplicationStep(u) \/ BlogStep(u) \/ CleanupStep(u)
  PROVE  Change
<1>1. CASE ApplicationStep(u)
  <2>1. by' = NoUser /\ UNCHANGED <<role, status, mode, ticket, message, post, last>>
    BY <1>1, Zenon DEF ApplicationStep
  <2>2. CASE ListInQueue(u) \/ ListInPanel(u)
    <3>1. Shown(u)
      BY <2>1, <2>2 DEF ListInQueue, ListInPanel, ApplicationsAdmin, Panel, ListQueue, Shows,
         Shown
    <3> QED BY <3>1, Zenon DEF Change
  <2>3. ASSUME NEW a \in ApplicationIds, NEW new \in Reviews,
               ReviewInQueue(u, a, new) \/ ReviewInPanel(u, a, new)
        PROVE  Change
    <3>1. Reviewed(u, a, new)
      BY <2>1, <2>3, Zenon DEF ReviewInQueue, ReviewInPanel, ApplicationsAdmin, Panel,
         CanAccessAdminFeatures, Signed, SetStatus, Reviewed
    <3> QED BY <3>1, Zenon DEF Change
  <2> QED BY <1>1, <2>2, <2>3, Zenon DEF ApplicationStep
<1>2. CASE BlogStep(u)
  <2>1. PublishPost(u) /\ by' = NoUser
        /\ UNCHANGED <<role, status, mode, ticket, message, application, seen>>
    BY <1>2, Zenon DEF BlogStep, PublishOnBlog, PublishInPanel
  <2>2. Published(u)
    BY <2>1, InsertTypes, Zenon DEF PublishPost, BlogAuthor, Published
  <2> QED BY <2>2, Zenon DEF Change
<1>3. CASE CleanupStep(u)
  <2>1. by' = NoUser /\ UNCHANGED <<role, status, mode, application, last, seen>>
    BY <1>3, Zenon DEF CleanupStep
  <2>2. DeskCleared \/ BlogCleared
    BY <1>3, <2>1, Zenon DEF CleanupStep, ClearSupport, ClearBlog, DeskCleared, BlogCleared
  <2> QED BY <2>2, Zenon DEF Change
<1> QED BY <1>1, <1>2, <1>3, Zenon

LEMMA GoneChange ==
  ASSUME TypeOK, NEW S \in SUBSET Users, UsersGo(S), by' = NoUser,
         ReviewersGo(S) \/ application' = [a \in ApplicationIds |-> NoApplication],
         UNCHANGED <<role, mode, post, last, seen>>
  PROVE  Change
<1>1. application' = [a \in ApplicationIds |-> application'[a]]
  BY Zenon DEF ReviewersGo
<1>2. CASE ReviewersGo(S)
  <2>1. Gone(S)
    BY <1>1, <1>2, ReviewersGoRow, Zenon DEF Gone
  <2> QED BY <2>1, Zenon DEF Change
<1>3. CASE application' = [a \in ApplicationIds |-> NoApplication]
  <2>1. \A a \in ApplicationIds : application'[a] = NoApplication
    BY <1>3, Zenon
  <2>2. Gone(S)
    BY <1>1, <2>1, Zenon DEF Gone
  <2> QED BY <2>2, Zenon DEF Change
<1> QED BY <1>2, <1>3

LEMMA AccountChange ==
  ASSUME TypeOK, AccountStep
  PROVE  Change
<1>1. by' = NoUser /\ UNCHANGED <<post, last, seen>>
  BY Zenon DEF AccountStep
<1>2. ASSUME NEW u \in Users, Appear(u) \/ Suspend(u) \/ Release(u)
      PROVE  Change
  <2>1. Governed
    BY <1>1, <1>2 DEF TypeOK, Appear, Suspend, Release, Governed, Exists
  <2> QED BY <2>1, Zenon DEF Change
<1>3. ASSUME NEW u \in Users, NEW new \in Granted, SetRole(u, new)
      PROVE  Change
  <2>1. Governed
    BY <1>1, <1>3, DeskConstants DEF DeskConstants, TypeOK, SetRole, Governed, Exists
  <2> QED BY <2>1, Zenon DEF Change
<1>4. CASE SetMode
  <2>1. Governed
    BY <1>1, <1>4 DEF TypeOK, SetMode, Governed, Exists
  <2> QED BY <2>1, Zenon DEF Change
<1>5. ASSUME NEW u \in Users, DeleteUser(u)
      PROVE  Change
  <2>1. {u} \in SUBSET Users
    OBVIOUS
  <2> QED BY <1>1, <1>5, <2>1, GoneChange, Zenon DEF DeleteUser
<1>6. ASSUME NEW u \in Users, DeleteAllUsers(u)
      PROVE  Change
  <2>1. Users \ {u} \in SUBSET Users
    OBVIOUS
  <2> QED BY <1>1, <1>6, <2>1, GoneChange, Zenon DEF DeleteAllUsers
<1>7. ASSUME NEW u \in Users, FullReset(u)
      PROVE  Change
  <2>1. {v \in Users : ~IsAdmin(v)} \in SUBSET Users
    OBVIOUS
  <2> QED BY <1>1, <1>7, <2>1, GoneChange, Zenon DEF FullReset
<1> QED BY <1>2, <1>3, <1>4, <1>5, <1>6, <1>7, Zenon DEF AccountStep

LEMMA NextChange ==
  ASSUME TypeOK, Next
  PROVE  Change
<1>1. CASE SubmitRoute
  <2>1. Submitted
    BY <1>1, InsertTypes, Zenon DEF SubmitRoute, Submit, Submitted
  <2> QED BY <2>1, Zenon DEF Change
<1> QED BY <1>1, SupportChange, OthersChange, AccountChange, Zenon DEF Next

-----------------------------------------------------------------------------
LEMMA ReplyState ==
  ASSUME TypeOK, NEW u, NEW t \in Live
  PROVE  AfterReply(u, ticket[t].status) \in TicketStatus
  BY DEF TypeOK, Live, AfterReply, TicketRows, TicketStatus

LEMMA TypeInit == ASSUME Init PROVE TypeOK
<1>1. role \in [Users -> {"admin", "moderator", "user", "guest"}]
      /\ status \in [Users -> {"absent", "active", "off"}] /\ mode \in {"open", "closed"}
      /\ post \in [PostIds -> Users \cup {NoUser}]
      /\ by \in Users \cup {NoUser} /\ seen \subseteq Users \X (TicketIds \cup {TheQueue})
  BY DEF Init
<1>2. ticket \in [TicketIds -> TicketRows] /\ message \in [MessageIds -> MessageRows]
      /\ application \in [ApplicationIds -> ApplicationRows]
  BY RowTypes DEF Init
<1>3. last \in Counters
  BY DeskConstants DEF DeskConstants, Init, Counters, Tables
<1> QED BY <1>1, <1>2, <1>3 DEF TypeOK

LEMMA TypeNext ==
  ASSUME TypeOK, [Next]_vars
  PROVE  TypeOK'
<1>1. CASE UNCHANGED vars
  BY <1>1 DEF vars, TypeOK
<1>2. CASE Change
  <2>1. ASSUME NEW u \in Users, NEW s \in {"open", "in_progress"}, Opened(u, s)
        PROVE  TypeOK'
    <3>1. [status |-> s, owner |-> u] \in TicketRows
          /\ [ticket |-> NextId("tickets"), author |-> u] \in MessageRows
      BY <2>1, RowTypes DEF Opened, TicketStatus
    <3>2. ticket' \in [TicketIds -> TicketRows] /\ message' \in [MessageIds -> MessageRows]
      BY <2>1, <3>1 DEF Opened, TypeOK
    <3> QED BY <2>1, <3>2 DEF Opened, Used, TypeOK
  <2>2. ASSUME NEW u \in Users, NEW t \in TicketIds, Answered(u, t)
        PROVE  TypeOK'
    <3>1. AfterReply(u, ticket[t].status) \in TicketStatus
      BY <2>2, ReplyState DEF Answered
    <3>2. ticket[t].owner \in Users \cup {NoUser}
      BY DEF TypeOK, TicketRows
    <3>3. [status |-> AfterReply(u, ticket[t].status), owner |-> ticket[t].owner] \in TicketRows
          /\ [ticket |-> t, author |-> u] \in MessageRows
      BY <3>1, <3>2, RowTypes DEF TicketRows
    <3>4. ticket' \in [TicketIds -> TicketRows] /\ message' \in [MessageIds -> MessageRows]
      BY <2>2, <3>3, Zenon DEF Answered, TypeOK
    <3> QED BY <2>2, <3>4 DEF Answered, Used, TypeOK
  <2>3. ASSUME NEW u \in Users, NEW t \in TicketIds, NEW new \in TicketStatus, Moved(u, t, new)
        PROVE  TypeOK'
    <3>1. [status |-> new, owner |-> ticket[t].owner] \in TicketRows
      BY DEF TypeOK, TicketRows
    <3>2. ticket' \in [TicketIds -> TicketRows]
      BY <2>3, <3>1 DEF Moved, TypeOK
    <3> QED BY <2>3, <3>2 DEF Moved, TypeOK
  <2>4. ASSUME NEW u \in Users, Shown(u)
        PROVE  TypeOK'
    BY <2>4 DEF Shown, Live, TypeOK
  <2>5. ASSUME NEW u \in Users, Published(u)
        PROVE  TypeOK'
    BY <2>5 DEF Published, Used, TypeOK
  <2>6. ASSUME NEW u \in Users, NEW a \in ApplicationIds, NEW new \in Reviews, Reviewed(u, a, new)
        PROVE  TypeOK'
    <3>1. [status |-> new, reviewer |-> u] \in ApplicationRows
      BY DeskConstants DEF DeskConstants, ApplicationRows
    <3>2. application' \in [ApplicationIds -> ApplicationRows]
      BY <2>6, <3>1 DEF Reviewed, TypeOK
    <3> QED BY <2>6, <3>2 DEF Reviewed, TypeOK
  <2>7. ASSUME NEW S \in SUBSET Users, Gone(S)
        PROVE  TypeOK'
    <3>1. status' \in [Users -> {"absent", "active", "off"}]
      BY <2>7 DEF Gone, UsersGo, TypeOK
    <3>2. ticket' \in [TicketIds -> TicketRows]
      BY <2>7, RowTypes DEF Gone, UsersGo, TypeOK
    <3>3. message' \in [MessageIds -> MessageRows]
      BY <2>7, RowTypes DEF Gone, UsersGo, MessagesLeft, TypeOK
    <3>4. ASSUME NEW a \in ApplicationIds
          PROVE  application'[a] \in ApplicationRows
      <4>1. application[a] \in ApplicationRows
        BY DEF TypeOK
      <4>2. [status |-> application[a].status,
             reviewer |-> IF application[a].reviewer \in S THEN NoUser
                          ELSE application[a].reviewer] \in ApplicationRows
        BY <4>1 DEF ApplicationRows
      <4> QED BY <2>7, <4>2, RowTypes, Zenon DEF Gone
    <3>5. application' \in [ApplicationIds -> ApplicationRows]
      BY <2>7, <3>4 DEF Gone
    <3> QED BY <2>7, <3>1, <3>2, <3>3, <3>5 DEF Gone, TypeOK
  <2>8. CASE Submitted
    <3>1. [status |-> "pending", reviewer |-> NoUser] \in ApplicationRows
      BY DEF ApplicationRows
    <3>2. application' \in [ApplicationIds -> ApplicationRows]
      BY <2>8, <3>1 DEF Submitted, TypeOK
    <3> QED BY <2>8, <3>2 DEF Submitted, Used, TypeOK
  <2>9. CASE DeskCleared
    BY <2>9, RowTypes DEF DeskCleared, TypeOK
  <2>10. CASE BlogCleared
    BY <2>10 DEF BlogCleared, TypeOK
  <2>11. CASE Governed
    BY <2>11 DEF Governed, TypeOK
  <2> HIDE DEF TypeOK
  <2> QED BY <1>2, <2>1, <2>2, <2>3, <2>4, <2>5, <2>6, <2>7, <2>8, <2>9, <2>10, <2>11, Zenon
      DEF Change
<1> QED BY <1>1, <1>2, NextChange, Zenon

(* The tables keep their types, whatever the bounds. *)
THEOREM TypeCorrect == Spec => []TypeOK
<1>1. Init => TypeOK
  BY TypeInit
<1>2. TypeOK /\ [Next]_vars => TypeOK'
  BY TypeNext
<1> QED BY <1>1, <1>2, PTL DEF Spec

-----------------------------------------------------------------------------
(* The counters are ahead of the rows: AUTOINCREMENT never gives an id     *)
(* twice, so that whoever was shown a ticket was not shown another's.      *)
Ahead ==
  /\ \A t \in TicketIds : t > last["tickets"] => ticket[t] = NoTicket
  /\ \A m \in MessageIds : m > last["messages"] => message[m] = NoMessage
SeenOwn ==
  \A shown \in seen :
    /\ shown[2] # TheQueue /\ shown[2] <= last["tickets"]
    /\ shown[2] \in Live => ticket[shown[2]].owner = shown[1]

LEMMA LiveHas ==
  ASSUME TypeOK, NEW t \in Live
  PROVE  t \in TicketIds /\ ticket[t] # NoTicket /\ ticket[t] \in TicketRows
  BY DEF Live, NoTicket, TypeOK

LEMMA LastIsNat ==
  ASSUME TypeOK
  PROVE  /\ last["tickets"] \in Nat /\ last["messages"] \in Nat
         /\ NextId("tickets") = last["tickets"] + 1 /\ NextId("messages") = last["messages"] + 1
  BY DEF TypeOK, Counters, Tables, NextId

LEMMA AheadNext ==
  ASSUME TypeOK, Ahead, Change
  PROVE  Ahead'
<1>0. TicketIds \subseteq Nat /\ MessageIds \subseteq Nat /\ TicketIds' = TicketIds
      /\ MessageIds' = MessageIds
  BY DEF TicketIds, MessageIds
<1>1. ASSUME NEW u \in Users, NEW s \in {"open", "in_progress"}, Opened(u, s)
      PROVE  Ahead'
  BY <1>0, <1>1, LastIsNat DEF Opened, Used, Ahead, TypeOK
<1>2. ASSUME NEW u \in Users, NEW t \in TicketIds, Answered(u, t)
      PROVE  Ahead'
  <2>1. ~(t > last["tickets"])
    BY <1>2, LiveHas DEF Answered, Ahead
  <2>2. \A x \in TicketIds : x # t => ticket'[x] = ticket[x]
    BY <1>2 DEF Answered, TypeOK
  <2>3. \A m \in MessageIds : m # NextId("messages") => message'[m] = message[m]
    BY <1>2 DEF Answered, TypeOK
  <2> QED BY <1>0, <1>2, <2>1, <2>2, <2>3, LastIsNat DEF Answered, Used, Ahead
<1>3. ASSUME NEW u \in Users, NEW t \in TicketIds, NEW new \in TicketStatus, Moved(u, t, new)
      PROVE  Ahead'
  <2>1. ~(t > last["tickets"])
    BY <1>3, LiveHas DEF Moved, Ahead
  <2>2. \A x \in TicketIds : x # t => ticket'[x] = ticket[x]
    BY <1>3 DEF Moved, TypeOK
  <2> QED BY <1>3, <2>1, <2>2 DEF Moved, Ahead
<1>4. ASSUME NEW u \in Users, Shown(u)
      PROVE  Ahead'
  BY <1>4 DEF Shown, Ahead
<1>5. ASSUME NEW u \in Users, Published(u)
      PROVE  Ahead'
  BY <1>5 DEF Published, Used, Ahead
<1>6. ASSUME NEW u \in Users, NEW a \in ApplicationIds, NEW new \in Reviews, Reviewed(u, a, new)
      PROVE  Ahead'
  BY <1>6 DEF Reviewed, Ahead
<1>7. ASSUME NEW S \in SUBSET Users, Gone(S)
      PROVE  Ahead'
  BY <1>7 DEF Gone, UsersGo, MessagesLeft, Ahead
<1>8. CASE Submitted
  BY <1>8 DEF Submitted, Used, Ahead
<1>9. CASE DeskCleared
  BY <1>9 DEF DeskCleared, Ahead
<1>10. CASE BlogCleared \/ Governed
  BY <1>10 DEF BlogCleared, Governed, Ahead
<1> QED BY <1>1, <1>2, <1>3, <1>4, <1>5, <1>6, <1>7, <1>8, <1>9, <1>10, Zenon DEF Change

LEMMA SeenNext ==
  ASSUME TypeOK, Ahead, SeenOwn, Change
  PROVE  SeenOwn'
<1>0. /\ TicketIds \subseteq Nat /\ TheQueue \notin TicketIds /\ TicketIds' = TicketIds
      /\ \A shown \in seen : shown[2] \in Nat /\ shown \in Users \X (TicketIds \cup {TheQueue})
      /\ NoTicket.status = "none"
  BY DEF TicketIds, TypeOK, TheQueue, NoTicket
<1>1. ASSUME NEW u \in Users, NEW s \in {"open", "in_progress"}, Opened(u, s)
      PROVE  SeenOwn'
  <2>1. ASSUME NEW shown \in seen
        PROVE  shown[2] \in Live' => shown[2] \in Live /\ ticket'[shown[2]] = ticket[shown[2]]
    <3>1. shown[2] # NextId("tickets")
      BY <1>0, LastIsNat DEF SeenOwn
    <3> QED BY <1>1, <3>1 DEF Opened, TypeOK, Live
  <2>2. last'["tickets"] = last["tickets"] + 1
    BY <1>1, LastIsNat DEF Opened, Used
  <2> QED BY <1>0, <1>1, <2>1, <2>2, LastIsNat DEF Opened, SeenOwn
<1>2. ASSUME NEW u \in Users, NEW t \in TicketIds, Answered(u, t)
      PROVE  SeenOwn'
  <2>1. \A x \in TicketIds : x \in Live' => x \in Live /\ ticket'[x].owner = ticket[x].owner
    BY <1>2 DEF Answered, TypeOK, Live
  <2> QED BY <1>0, <1>2, <2>1 DEF Answered, Used, SeenOwn, Live
<1>3. ASSUME NEW u \in Users, NEW t \in TicketIds, NEW new \in TicketStatus, Moved(u, t, new)
      PROVE  SeenOwn'
  <2>1. \A x \in TicketIds : x \in Live' => x \in Live /\ ticket'[x].owner = ticket[x].owner
    BY <1>3 DEF Moved, TypeOK, Live
  <2> QED BY <1>0, <1>3, <2>1 DEF Moved, SeenOwn, Live
<1>4. ASSUME NEW u \in Users, Shown(u)
      PROVE  SeenOwn'
  <2>1. Live' = Live /\ last' = last /\ ticket' = ticket
    BY <1>4 DEF Shown, Live
  <2>2. CASE seen' = seen
    BY <2>1, <2>2 DEF SeenOwn
  <2>3. ASSUME NEW things \in SUBSET Live, \A t \in things : ticket[t].owner = u,
               seen' = seen \cup {<<u, x>> : x \in things}
        PROVE  SeenOwn'
    <3>1. ASSUME NEW x \in things
          PROVE  x # TheQueue /\ x <= last["tickets"] /\ ticket[x].owner = u
      <4>1. x \in TicketIds /\ ticket[x] # NoTicket
        BY <2>3, LiveHas
      <4>2. ~(x > last["tickets"])
        BY <4>1 DEF Ahead
      <4>3. ticket[x].owner = u
        BY <2>3
      <4> QED BY <1>0, <4>1, <4>2, <4>3, LastIsNat
    <3> QED BY <2>1, <2>3, <3>1 DEF SeenOwn
  <2> QED BY <1>4, <2>2, <2>3, Zenon DEF Shown
<1>5. ASSUME NEW u \in Users, Published(u)
      PROVE  SeenOwn'
  BY <1>5 DEF Published, Used, SeenOwn, Live
<1>6. ASSUME NEW u \in Users, NEW a \in ApplicationIds, NEW new \in Reviews, Reviewed(u, a, new)
      PROVE  SeenOwn'
  BY <1>6 DEF Reviewed, SeenOwn, Live
<1>7. ASSUME NEW S \in SUBSET Users, Gone(S)
      PROVE  SeenOwn'
  <2>1. \A x \in TicketIds : x \in Live' => x \in Live /\ ticket'[x] = ticket[x]
    BY <1>0, <1>7 DEF Gone, UsersGo, Live
  <2> QED BY <1>7, <2>1 DEF Gone, SeenOwn, Live
<1>8. CASE Submitted
  BY <1>8 DEF Submitted, Used, SeenOwn, Live
<1>9. CASE DeskCleared
  <2>1. Live' = {}
    BY <1>0, <1>9 DEF DeskCleared, Live
  <2> QED BY <1>9, <2>1 DEF DeskCleared, SeenOwn
<1>10. CASE BlogCleared \/ Governed
  BY <1>10 DEF BlogCleared, Governed, SeenOwn, Live
<1> QED BY <1>1, <1>2, <1>3, <1>4, <1>5, <1>6, <1>7, <1>8, <1>9, <1>10, Zenon DEF Change

LEMMA OwnNext ==
  ASSUME TypeOK, Ahead, SeenOwn, [Next]_vars
  PROVE  TypeOK' /\ Ahead' /\ SeenOwn'
<1>1. TypeOK'
  BY TypeNext
<1>2. CASE Next
  BY <1>1, <1>2, NextChange, AheadNext, SeenNext
<1>3. CASE UNCHANGED vars
  BY <1>1, <1>3 DEF vars, Ahead, SeenOwn, Live
<1> QED BY <1>2, <1>3

LEMMA OwnInit ==
  ASSUME Init
  PROVE  Ahead /\ SeenOwn
  BY DEF Init, Ahead, SeenOwn

(* Accounts that were no administrators were shown tickets of theirs only, *)
(* and never the applications: whatever roles they were given meanwhile,   *)
(* and although ids are all that a later request names.                    *)
THEOREM OwnTicketsCorrect == Spec => []OwnTicketsOnly
<1>1. Init => TypeOK /\ Ahead /\ SeenOwn
  BY TypeInit, OwnInit
<1>2. TypeOK /\ Ahead /\ SeenOwn /\ [Next]_vars => TypeOK' /\ Ahead' /\ SeenOwn'
  BY OwnNext
<1>3. SeenOwn => OwnTicketsOnly
  BY DEF SeenOwn, OwnTicketsOnly
<1> QED BY <1>1, <1>2, <1>3, PTL DEF Spec

-----------------------------------------------------------------------------
(* The references, by table. *)
OwnersExist == \A t \in Live : Exists(ticket[t].owner)
MessagesHang ==
  \A m \in MessageIds : message[m].ticket # 0 => message[m].ticket \in Live /\ Exists(message[m].author)
ReviewersExist ==
  \A a \in ApplicationIds : application[a].reviewer # NoUser => Exists(application[a].reviewer)
AuthorsExist == \A p \in PostIds : post[p] # NoUser => Exists(post[p])
References == OwnersExist /\ MessagesHang /\ ReviewersExist /\ AuthorsExist /\ TicketKeepsItsQuestion

LEMMA ReferencesParts == References <=> ReferencesIntact
  BY Zenon DEF References, ReferencesIntact, OwnersExist, MessagesHang, ReviewersExist, AuthorsExist

(* Steps that leave tickets and messages alone and delete no account. *)
LEMMA DeskAlone ==
  ASSUME References, UNCHANGED <<ticket, message>>, \A v \in Users : Exists(v) => Exists(v)'
  PROVE  OwnersExist' /\ MessagesHang' /\ TicketKeepsItsQuestion'
<1>1. Live' = Live /\ MessageIds' = MessageIds
  BY DEF Live, TicketIds, MessageIds
<1>2. \A v : Exists(v) => Exists(v)'
  BY DEF Exists
<1> QED BY <1>1, <1>2, Zenon DEF References, OwnersExist, MessagesHang, TicketKeepsItsQuestion
LEMMA QueueAlone ==
  ASSUME References, UNCHANGED application, \A v \in Users : Exists(v) => Exists(v)'
  PROVE  ReviewersExist'
<1>1. \A v : Exists(v) => Exists(v)'
  BY DEF Exists
<1> QED BY <1>1 DEF References, ReviewersExist, ApplicationIds
LEMMA BlogAlone ==
  ASSUME References, UNCHANGED post, \A v \in Users : Exists(v) => Exists(v)'
  PROVE  AuthorsExist'
<1>1. \A v : Exists(v) => Exists(v)'
  BY DEF Exists
<1> QED BY <1>1 DEF References, AuthorsExist, PostIds

LEMMA OpenedReferences ==
  ASSUME TypeOK, Ahead, References, NEW u \in Users, NEW s \in {"open", "in_progress"}, Opened(u, s)
  PROVE  References'
<1> DEFINE new == NextId("tickets")  first == NextId("messages")
<1>1. /\ new \in TicketIds /\ first \in MessageIds
      /\ ticket[new] = NoTicket /\ message[first] = NoMessage
  BY LastIsNat DEF Opened, Ahead
<1>2. /\ ticket' = [ticket EXCEPT ![new] = [status |-> s, owner |-> u]]
      /\ message' = [message EXCEPT ![first] = [ticket |-> new, author |-> u]]
      /\ status[u] = "active"
      /\ UNCHANGED <<status, application, post>>
  BY DEF Opened
<1> HIDE DEF new, first
<1>3. new \notin Live
  BY <1>1 DEF Live, NoTicket
<1>4. \A v : Exists(v) => Exists(v)'
  BY <1>2 DEF Exists
<1>5. TicketIds' = TicketIds /\ MessageIds' = MessageIds
  BY DEF TicketIds, MessageIds
<1>6. Live' = Live \cup {new} /\ ticket'[new] = [status |-> s, owner |-> u]
      /\ \A t \in Live : ticket'[t] = ticket[t]
  BY <1>1, <1>2, <1>3, <1>5 DEF Live, TypeOK
<1>7. message'[first] = [ticket |-> new, author |-> u]
      /\ \A m \in MessageIds : m # first => message'[m] = message[m]
  BY <1>1, <1>2 DEF TypeOK
<1>8. Exists(u)'
  BY <1>2 DEF Exists
<1>9. OwnersExist'
  BY <1>4, <1>6, <1>8 DEF References, OwnersExist
<1>10. MessagesHang'
  BY <1>4, <1>5, <1>6, <1>7, <1>8 DEF References, MessagesHang
<1>11. TicketKeepsItsQuestion'
  <2> SUFFICES ASSUME NEW t \in Live'
               PROVE  \E m \in MessageIds : message'[m] = [ticket |-> t, author |-> ticket'[t].owner]
    BY <1>5 DEF TicketKeepsItsQuestion
  <2>1. CASE t = new
    BY <1>1, <1>6, <1>7, <2>1
  <2>2. CASE t # new
    <3>1. PICK m \in MessageIds : message[m] = [ticket |-> t, author |-> ticket[t].owner]
      BY <1>6, <2>2 DEF References, TicketKeepsItsQuestion
    <3>2. t # 0
      BY <1>6, <2>2 DEF Live, TicketIds
    <3>3. m # first
      BY <1>1, <3>1, <3>2 DEF NoMessage
    <3> QED BY <1>6, <1>7, <2>2, <3>1, <3>3
  <2> QED BY <2>1, <2>2
<1>12. ReviewersExist' /\ AuthorsExist'
  BY <1>2, <1>4, QueueAlone, BlogAlone
<1> QED BY <1>9, <1>10, <1>11, <1>12 DEF References

(* A row changes its state, and at most one message is new. *)
LEMMA MovedReferences ==
  ASSUME TypeOK, References, NEW t \in Live, NEW s \in TicketStatus,
         ticket' = [ticket EXCEPT ![t] = [status |-> s, owner |-> ticket[t].owner]],
         UNCHANGED <<status, application, post>>,
         \/ message' = message
         \/ \E m \in MessageIds, u \in Users :
              /\ message[m] = NoMessage /\ status[u] # "absent"
              /\ message' = [message EXCEPT ![m] = [ticket |-> t, author |-> u]]
  PROVE  References'
<1>1. \A v : Exists(v) => Exists(v)'
  BY DEF Exists
<1>2. TicketIds' = TicketIds /\ MessageIds' = MessageIds
  BY DEF TicketIds, MessageIds
<1>3. Live' = Live /\ \A x \in TicketIds : ticket'[x].owner = ticket[x].owner
  BY <1>2 DEF Live, TypeOK, TicketStatus
<1>4. OwnersExist'
  BY <1>1, <1>3 DEF References, OwnersExist, Live
<1>5. \A m \in MessageIds : \/ message'[m] = message[m]
                            \/ /\ message[m] = NoMessage
                               /\ message'[m].ticket = t /\ Exists(message'[m].author)
  BY DEF TypeOK, Exists
<1>6. MessagesHang'
  BY <1>1, <1>2, <1>3, <1>5 DEF References, MessagesHang, Exists
<1>7. TicketKeepsItsQuestion'
  <2> SUFFICES ASSUME NEW x \in Live
               PROVE  \E m \in MessageIds : message'[m] = [ticket |-> x, author |-> ticket'[x].owner]
    BY <1>2, <1>3 DEF TicketKeepsItsQuestion
  <2>1. PICK m \in MessageIds : message[m] = [ticket |-> x, author |-> ticket[x].owner]
    BY DEF References, TicketKeepsItsQuestion
  <2>2. x # 0 /\ x \in TicketIds
    BY DEF Live, TicketIds
  <2>3. message'[m] = message[m]
    BY <1>5, <2>1, <2>2 DEF NoMessage
  <2> QED BY <1>3, <2>1, <2>2, <2>3
<1>8. ReviewersExist' /\ AuthorsExist'
  BY <1>1, QueueAlone, BlogAlone
<1> QED BY <1>4, <1>6, <1>7, <1>8 DEF References

LEMMA GoneReferences ==
  ASSUME TypeOK, References, NEW S \in SUBSET Users, Gone(S)
  PROVE  References'
<1>1. TicketIds' = TicketIds /\ MessageIds' = MessageIds /\ ApplicationIds' = ApplicationIds
      /\ PostIds' = PostIds
  BY DEF TicketIds, MessageIds, ApplicationIds, PostIds
<1>2. \A v : Exists(v) /\ v \notin S => Exists(v)'
  BY DEF Gone, UsersGo, Exists
<1>3. \A t \in TicketIds : ticket'[t] = IF ticket[t].owner \in S THEN NoTicket ELSE ticket[t]
  BY DEF Gone, UsersGo
<1>4. Live' = {t \in Live : ticket[t].owner \notin S}
      /\ \A t \in Live' : ticket'[t] = ticket[t]
  BY <1>1, <1>3 DEF Live, NoTicket
<1>5. \A m \in MessageIds :
        message'[m] = IF \/ message[m].author \in S
                         \/ message[m].ticket # 0 /\ ticket[message[m].ticket].owner \in S
                      THEN NoMessage ELSE message[m]
  BY DEF Gone, UsersGo, MessagesLeft
<1>6. OwnersExist'
  BY <1>2, <1>4 DEF References, OwnersExist
<1>7. MessagesHang'
  BY <1>1, <1>2, <1>4, <1>5 DEF References, MessagesHang, NoMessage
<1>8. TicketKeepsItsQuestion'
  <2> SUFFICES ASSUME NEW x \in Live'
               PROVE  \E m \in MessageIds : message'[m] = [ticket |-> x, author |-> ticket'[x].owner]
    BY <1>1 DEF TicketKeepsItsQuestion
  <2>1. PICK m \in MessageIds : message[m] = [ticket |-> x, author |-> ticket[x].owner]
    BY <1>4 DEF References, TicketKeepsItsQuestion
  <2>2. message'[m] = message[m]
    BY <1>4, <1>5, <2>1
  <2> QED BY <1>4, <2>1, <2>2
<1>9. ReviewersExist'
  <2> SUFFICES ASSUME NEW a \in ApplicationIds, application'[a].reviewer # NoUser
               PROVE  Exists(application[a].reviewer)'
    BY <1>1 DEF ReviewersExist
  <2>1. application[a].reviewer \notin S /\ application'[a].reviewer = application[a].reviewer
    BY DEF Gone, NoApplication
  <2>2. Exists(application[a].reviewer)
    BY <2>1 DEF References, ReviewersExist
  <2> QED BY <1>2, <2>1, <2>2 DEF Exists
<1>10. AuthorsExist'
  BY <1>1, <1>2 DEF Gone, UsersGo, References, AuthorsExist
<1> QED BY <1>6, <1>7, <1>8, <1>9, <1>10 DEF References

LEMMA ReferencesNext ==
  ASSUME TypeOK, Ahead, References, Change
  PROVE  References'
<1>1. ASSUME NEW u \in Users, NEW t \in TicketIds, Answered(u, t)
      PROVE  References'
  <2>1. message[NextId("messages")] = NoMessage /\ NextId("messages") \in MessageIds
    BY <1>1, LastIsNat DEF Answered, Ahead
  <2>2. AfterReply(u, ticket[t].status) \in TicketStatus /\ t \in Live
    BY <1>1, ReplyState DEF Answered
  <2> QED BY <1>1, <2>1, <2>2, MovedReferences DEF Answered
<1>2. ASSUME NEW u \in Users, NEW t \in TicketIds, NEW new \in TicketStatus, Moved(u, t, new)
      PROVE  References'
  BY <1>2, MovedReferences DEF Moved
<1>3. ASSUME UNCHANGED <<ticket, message, application, post, status>>
      PROVE  References'
  <2>1. \A v \in Users : Exists(v) => Exists(v)'
    BY <1>3 DEF Exists
  <2> QED BY <1>3, <2>1, DeskAlone, QueueAlone, BlogAlone DEF References
<1>4. ASSUME NEW u \in Users, Published(u)
      PROVE  References'
  <2>1. \A v \in Users : Exists(v) => Exists(v)'
    BY <1>4 DEF Published, Exists
  <2>2. OwnersExist' /\ MessagesHang' /\ TicketKeepsItsQuestion' /\ ReviewersExist'
    BY <1>4, <2>1, DeskAlone, QueueAlone DEF Published
  <2>3. AuthorsExist'
    BY <1>4, <2>1 DEF Published, References, AuthorsExist, PostIds, TypeOK, Exists
  <2> QED BY <2>2, <2>3 DEF References
<1>5. ASSUME NEW u \in Users, NEW a \in ApplicationIds, NEW new \in Reviews, Reviewed(u, a, new)
      PROVE  References'
  <2>1. \A v \in Users : Exists(v) => Exists(v)'
    BY <1>5 DEF Reviewed, Exists
  <2>2. OwnersExist' /\ MessagesHang' /\ TicketKeepsItsQuestion' /\ AuthorsExist'
    BY <1>5, <2>1, DeskAlone, BlogAlone DEF Reviewed
  <2>3. ReviewersExist'
    BY <1>5, <2>1 DEF Reviewed, References, ReviewersExist, ApplicationIds, TypeOK, Exists
  <2> QED BY <2>2, <2>3 DEF References
<1>6. CASE Submitted
  <2>1. \A v \in Users : Exists(v) => Exists(v)'
    BY <1>6 DEF Submitted, Exists
  <2>2. OwnersExist' /\ MessagesHang' /\ TicketKeepsItsQuestion' /\ AuthorsExist'
    BY <1>6, <2>1, DeskAlone, BlogAlone DEF Submitted
  <2>3. ReviewersExist'
    BY <1>6, <2>1 DEF Submitted, References, ReviewersExist, ApplicationIds, TypeOK, Exists
  <2> QED BY <2>2, <2>3 DEF References
<1>7. CASE DeskCleared
  <2>1. \A v \in Users : Exists(v) => Exists(v)'
    BY <1>7 DEF DeskCleared, Exists
  <2>2. ReviewersExist' /\ AuthorsExist'
    BY <1>7, <2>1, QueueAlone, BlogAlone DEF DeskCleared
  <2>3. Live' = {}
    BY <1>7 DEF DeskCleared, Live, NoTicket
  <2>4. OwnersExist' /\ MessagesHang' /\ TicketKeepsItsQuestion'
    BY <1>7, <2>3 DEF DeskCleared, OwnersExist, MessagesHang, TicketKeepsItsQuestion, NoMessage,
       MessageIds
  <2> QED BY <2>2, <2>4 DEF References
<1>8. CASE BlogCleared
  <2>1. \A v \in Users : Exists(v) => Exists(v)'
    BY <1>8 DEF BlogCleared, Exists
  <2>2. OwnersExist' /\ MessagesHang' /\ TicketKeepsItsQuestion' /\ ReviewersExist'
    BY <1>8, <2>1, DeskAlone, QueueAlone DEF BlogCleared
  <2>3. AuthorsExist'
    BY <1>8 DEF BlogCleared, AuthorsExist, PostIds
  <2> QED BY <2>2, <2>3 DEF References
<1>9. CASE Governed
  <2>1. \A v \in Users : Exists(v) => Exists(v)'
    BY <1>9 DEF Governed, Exists
  <2> QED BY <1>9, <2>1, DeskAlone, QueueAlone, BlogAlone DEF Governed, References
<1>10. ASSUME NEW u \in Users, Shown(u)
       PROVE  References'
  BY <1>3, <1>10 DEF Shown
<1> QED BY <1>1, <1>2, <1>4, <1>5, <1>6, <1>7, <1>8, <1>9, <1>10, OpenedReferences,
           GoneReferences, Zenon DEF Change

LEMMA IndInit ==
  ASSUME Init
  PROVE  TypeOK /\ Ahead /\ References
<1>1. Live = {}
  BY DEF Init, Live, NoTicket
<1>2. References
  BY <1>1 DEF Init, References, OwnersExist, MessagesHang, ReviewersExist, AuthorsExist,
     TicketKeepsItsQuestion, NoMessage, NoApplication
<1> QED BY <1>2, TypeInit, OwnInit

LEMMA IndNext ==
  ASSUME TypeOK, Ahead, References, [Next]_vars
  PROVE  TypeOK' /\ Ahead' /\ References'
<1>1. TypeOK'
  BY TypeNext
<1>2. CASE Next
  BY <1>1, <1>2, NextChange, AheadNext, ReferencesNext
<1>3. CASE UNCHANGED vars
  <2>1. UNCHANGED <<status, ticket, message, application, post, last>>
    BY <1>3 DEF vars
  <2>2. \A v \in Users : Exists(v) => Exists(v)'
    BY <2>1 DEF Exists
  <2>3. References'
    BY <2>1, <2>2, DeskAlone, QueueAlone, BlogAlone DEF References
  <2> QED BY <1>1, <2>1, <2>3 DEF Ahead
<1> QED BY <1>2, <1>3

(* However many accounts are deleted, singly or all but one, by handlers   *)
(* that have the foreign keys enforced: no row names one that is gone, and *)
(* a ticket keeps the message it was opened with.                          *)
THEOREM ReferencesCorrect == Spec => []ReferencesIntact
<1>1. Init => TypeOK /\ Ahead /\ References
  BY IndInit
<1>2. TypeOK /\ Ahead /\ References /\ [Next]_vars => TypeOK' /\ Ahead' /\ References'
  BY IndNext
<1>3. References => ReferencesIntact
  BY ReferencesParts
<1> QED BY <1>1, <1>2, <1>3, PTL DEF Spec

-----------------------------------------------------------------------------
(* What TicketsFollowStaff says of one step. *)
FollowsStaff ==
  \A t \in TicketIds : Stays(t) =>
    /\ ticket'[t].status # ticket[t].status =>
         /\ by' # NoUser
         /\ IsAdmin(by') \/ (by' = ticket[t].owner /\ ticket'[t].status = "closed")
    /\ by' # NoUser /\ Replied(t) /\ IsAdmin(by') => ticket'[t].status # "open"

LEMMA StaffStep ==
  ASSUME TypeOK, Ahead, Change
  PROVE  FollowsStaff
<1>0. /\ TicketIds \subseteq Nat \ {0} /\ NoMessage.ticket = 0 /\ NoTicket.status = "none"
      /\ NoUser \notin Users
  BY DeskConstants DEF DeskConstants, TicketIds, NoMessage, NoTicket
<1>1. ASSUME NEW u \in Users, NEW s \in {"open", "in_progress"}, Opened(u, s)
      PROVE  FollowsStaff
  <2>1. NextId("tickets") \notin Live
    BY <1>0, <1>1, LastIsNat DEF Opened, Ahead, Live
  <2>2. \A t \in Live : ticket'[t] = ticket[t]
    BY <1>1, <2>1 DEF Opened, TypeOK, Live
  <2>3. \A m \in MessageIds : message[m] = NoMessage =>
          message'[m] = NoMessage \/ message'[m].ticket = NextId("tickets")
    BY <1>1 DEF Opened, TypeOK
  <2>4. \A t \in Live : ~Replied(t)
    BY <1>0, <2>1, <2>3 DEF Replied, Live
  <2> QED BY <2>2, <2>4 DEF FollowsStaff, Stays
<1>2. ASSUME NEW u \in Users, NEW t \in TicketIds, Answered(u, t)
      PROVE  FollowsStaff
  <2>1. \A x \in TicketIds : x # t => ticket'[x] = ticket[x]
    BY <1>2 DEF Answered, TypeOK
  <2>2. ticket'[t].status = AfterReply(u, ticket[t].status)
    BY <1>2 DEF Answered, TypeOK
  <2>3. \A m \in MessageIds : message[m] = NoMessage =>
          message'[m] = NoMessage \/ message'[m].ticket = t
    BY <1>2 DEF Answered, TypeOK
  <2>4. \A x \in TicketIds : Replied(x) => x = t
    BY <1>0, <2>3 DEF Replied
  <2>5. by' = u
    BY <1>2 DEF Answered
  <2> QED BY <1>0, <2>1, <2>2, <2>4, <2>5 DEF FollowsStaff, Stays, AfterReply
<1>3. ASSUME NEW u \in Users, NEW t \in TicketIds, NEW new \in TicketStatus, Moved(u, t, new)
      PROVE  FollowsStaff
  <2>1. \A x \in TicketIds : x # t => ticket'[x] = ticket[x]
    BY <1>3 DEF Moved, TypeOK
  <2>2. ticket'[t].status = new /\ by' = u /\ MaySet(u, t, new)
    BY <1>3 DEF Moved, TypeOK
  <2>3. \A x \in TicketIds : ~Replied(x)
    BY <1>0, <1>3 DEF Moved, Replied
  <2> QED BY <1>0, <2>1, <2>2, <2>3 DEF FollowsStaff, Stays, MaySet
<1>4. ASSUME UNCHANGED <<ticket, message>>
      PROVE  FollowsStaff
  <2>1. \A x \in TicketIds : ~Replied(x)
    BY <1>0, <1>4 DEF Replied
  <2> QED BY <1>4, <2>1 DEF FollowsStaff
<1>5. ASSUME NEW S \in SUBSET Users, Gone(S)
      PROVE  FollowsStaff
  BY <1>0, <1>5 DEF Gone, UsersGo, FollowsStaff, Stays
<1>6. CASE DeskCleared
  BY <1>0, <1>6 DEF DeskCleared, FollowsStaff, Stays
<1>7. ASSUME NEW u \in Users, Shown(u) \/ Published(u)
      PROVE  FollowsStaff
  BY <1>4, <1>7 DEF Shown, Published
<1>8. ASSUME NEW u \in Users, NEW a \in ApplicationIds, NEW new \in Reviews, Reviewed(u, a, new)
      PROVE  FollowsStaff
  BY <1>4, <1>8 DEF Reviewed
<1>9. CASE Submitted \/ BlogCleared \/ Governed
  BY <1>4, <1>9 DEF Submitted, BlogCleared, Governed
<1> QED BY <1>1, <1>2, <1>3, <1>5, <1>6, <1>7, <1>8, <1>9, Zenon DEF Change

(* By whichever route a request comes, a ticket that stays moves only by   *)
(* an administrator or to closed by its owner, and an administrator's      *)
(* reply never leaves it open.                                             *)
THEOREM StaffCorrect == Spec => TicketsFollowStaff
<1>1. Init => TypeOK /\ Ahead
  BY TypeInit, OwnInit
<1>2. TypeOK /\ Ahead /\ [Next]_vars => TypeOK' /\ Ahead'
  <2> SUFFICES ASSUME TypeOK, Ahead, [Next]_vars
               PROVE  TypeOK' /\ Ahead'
    OBVIOUS
  <2>1. TypeOK'
    BY TypeNext
  <2>2. Ahead'
    <3>1. CASE Next
      BY <3>1, NextChange, AheadNext
    <3>2. CASE UNCHANGED vars
      BY <3>2 DEF vars, Ahead
    <3> QED BY <3>1, <3>2
  <2> QED BY <2>1, <2>2
<1>3. TypeOK /\ Ahead /\ [Next]_vars => [FollowsStaff]_vars
  BY NextChange, StaffStep
<1> QED BY <1>1, <1>2, <1>3, PTL DEF Spec, TicketsFollowStaff, FollowsStaff
=============================================================================
