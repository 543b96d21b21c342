---------------------------------- MODULE Desk ----------------------------------
(***************************************************************************)
(* The support desk, the applications for an account and the blog: the     *)
(* tables support_tickets, support_messages, applications and blog_posts   *)
(* as SupportService, ApplicationService and BlogService change them, each *)
(* reached by two routers: its own (api/support.py, api/applications.py,   *)
(* api/blog.py) and the administrators' panel (api/admin/content.py).      *)
(*                                                                         *)
(* Every handler resolves the session, which reads the account again, and  *)
(* calls one service method, one transaction, and awaits nothing: a        *)
(* request is one step.  Refused requests change nothing and are not steps.*)
(* Attachments of messages are in module Media.                            *)
(***************************************************************************)
EXTENDS Naturals

CONSTANTS
  Users, Admins,
  Granted,          \* bound: the roles that staff grants
  NoUser,
  Reviews,          \* bound: the states a reviewer gives an application
  MaxTickets, MaxMessages, MaxApplications, MaxPosts  \* bound: ids given out

ASSUME DeskConstants ==
  /\ Admins \subseteq Users /\ NoUser \notin Users
  /\ Granted \subseteq {"user", "moderator", "guest", "admin"}
  /\ Reviews \subseteq {"pending", "in_review", "approved", "rejected"}
  /\ MaxTickets \in Nat /\ MaxMessages \in Nat /\ MaxApplications \in Nat /\ MaxPosts \in Nat

VARIABLES
  role, status,  \* of users; status "absent" stands for no row
  mode,          \* mode_state.access_mode
  ticket,        \* support_tickets, by id
  message,       \* support_messages, by id; ticket 0 stands for no row
  application,   \* applications, by id
  post,          \* blog_posts, by id: the author
  last,          \* the AUTOINCREMENT counters of the four tables
  by,            \* no column: whose request to the support desk the last step was
  seen           \* no column: what accounts that were no admins have been shown

vars == <<role, status, mode, ticket, message, application, post, last, by, seen>>

TicketIds == 1..MaxTickets
MessageIds == 1..MaxMessages
ApplicationIds == 1..MaxApplications
PostIds == 1..MaxPosts
TheQueue == 0  \* among what is shown: the applications
TicketStatus == {"open", "in_progress", "resolved", "closed"}

TicketRows == [status : TicketStatus \cup {"none"}, owner : Users \cup {NoUser}]
NoTicket == [status |-> "none", owner |-> NoUser]
MessageRows == [ticket : 0..MaxTickets, author : Users \cup {NoUser}]
NoMessage == [ticket |-> 0, author |-> NoUser]
ApplicationRows ==
  [status : {"none", "pending", "in_review", "approved", "rejected"},
   reviewer : Users \cup {NoUser}]
NoApplication == [status |-> "none", reviewer |-> NoUser]
Tables == {"tickets", "messages", "applications", "posts"}
Counters ==
  {c \in [Tables -> Nat] :
     /\ c["tickets"] <= MaxTickets /\ c["messages"] <= MaxMessages
     /\ c["applications"] <= MaxApplications /\ c["posts"] <= MaxPosts}

Init ==
  /\ role = [u \in Users |-> IF u \in Admins THEN "admin" ELSE "user"]
  /\ status = [u \in Users |-> "active"]
  /\ mode = "closed"
  /\ ticket = [t \in TicketIds |-> NoTicket]
  /\ message = [m \in MessageIds |-> NoMessage]
  /\ application = [a \in ApplicationIds |-> NoApplication]
  /\ post = [p \in PostIds |-> NoUser]
  /\ last = [table \in Tables |-> 0]
  /\ by = NoUser
  /\ seen = {}

-----------------------------------------------------------------------------
(* What get_session lets through: _resolve_user_id and the administrators' *)
(* checks of the panel, of the applications' router and of the cleanup     *)
(* routes.  Mutant: can_access_admin_features alone, which moderators pass.*)
Signed(u) == status[u] = "active"
IsAdmin(u) == role[u] = "admin"
CanAccessAdminFeatures(u) == Signed(u) /\ role[u] \in {"admin", "moderator"}
PanelForStaff(u) == CanAccessAdminFeatures(u)
Panel(u) == IsAdmin(u) /\ CanAccessAdminFeatures(u)
ApplicationsAdmin(u) == IsAdmin(u) /\ CanAccessAdminFeatures(u)
CleanupAdmin(u) == Signed(u) /\ IsAdmin(u)

(* _require_support_user, _require_ticket and _can_access_ticket. *)
SupportUser(u) == status[u] = "active" /\ role[u] # "guest"
Live == {t \in TicketIds : ticket[t].status # "none"}
CanAccess(u, t) == IsAdmin(u) \/ ticket[t].owner = u

(* A new row of a table takes the next id. *)
NextId(table) == last[table] + 1
Insert(tables) ==
  last' = [table \in Tables |-> IF table \in tables THEN NextId(table) ELSE last[table]]
Shows(u, things) ==
  seen' = IF IsAdmin(u) THEN seen ELSE seen \cup {<<u, x>> : x \in things}

-----------------------------------------------------------------------------
(* create_ticket: the ticket and its first message in one transaction, and *)
(* an administrator's ticket is in progress at once.                       *)
CreateTicket(u) ==
  /\ SupportUser(u)
  /\ NextId("tickets") \in TicketIds /\ NextId("messages") \in MessageIds
  /\ ticket' = [ticket EXCEPT ![NextId("tickets")] =
       [status |-> IF IsAdmin(u) THEN "in_progress" ELSE "open", owner |-> u]]
  /\ message' = [message EXCEPT ![NextId("messages")] =
       [ticket |-> NextId("tickets"), author |-> u]]
  /\ Insert({"tickets", "messages"})
  /\ UNCHANGED seen

(* send_message: a ticket takes messages in every state, and an            *)
(* administrator's reply moves an open one.                                *)
AfterReply(u, state) == IF IsAdmin(u) /\ state = "open" THEN "in_progress" ELSE state
SendMessage(u, t) ==
  /\ SupportUser(u) /\ t \in Live /\ CanAccess(u, t)
  /\ NextId("messages") \in MessageIds
  /\ message' = [message EXCEPT ![NextId("messages")] = [ticket |-> t, author |-> u]]
  /\ Insert({"messages"})
  /\ ticket' = [ticket EXCEPT ![t].status = AfterReply(u, @)]
  /\ UNCHANGED seen

(* set_ticket_status: administrators set any state, the owner closes.      *)
(* Mutant: the owner's restriction is asked of the role user only.         *)
MaySetByRole(u, t, new) ==
  \/ IsAdmin(u)
  \/ ticket[t].owner = u /\ (role[u] = "user" => new = "closed")
MaySet(u, t, new) ==
  \/ IsAdmin(u)
  \/ ticket[t].owner = u /\ new = "closed"
SetTicketStatus(u, t, new) ==
  /\ SupportUser(u) /\ t \in Live /\ MaySet(u, t, new)
  /\ ticket' = [ticket EXCEPT ![t].status = new]
  /\ UNCHANGED <<message, last, seen>>

(* list_tickets and list_messages. *)
Queue(u) == IF IsAdmin(u) THEN Live ELSE {t \in Live : ticket[t].owner = u}
ListTickets(u) ==
  /\ SupportUser(u)
  /\ Shows(u, Queue(u))
  /\ UNCHANGED <<ticket, message, last>>
ListMessages(u, t) ==
  /\ SupportUser(u) /\ t \in Live /\ CanAccess(u, t)
  /\ Shows(u, {t})
  /\ UNCHANGED <<ticket, message, last>>

(* The routes of api/support.py, and those of the panel to the same        *)
(* methods: a reply has no attachments, and that is the only difference.   *)
RouteCreate(u) == Signed(u) /\ CreateTicket(u)
RouteTickets(u) == Signed(u) /\ ListTickets(u)
RouteMessages(u, t) == Signed(u) /\ ListMessages(u, t)
RouteSend(u, t) == Signed(u) /\ SendMessage(u, t)
RouteStatus(u, t, new) == Signed(u) /\ SetTicketStatus(u, t, new)
PanelTickets(u) == Panel(u) /\ ListTickets(u)
PanelMessages(u, t) == Panel(u) /\ ListMessages(u, t)
PanelReply(u, t) == Panel(u) /\ SendMessage(u, t)
PanelStatus(u, t, new) == Panel(u) /\ SetTicketStatus(u, t, new)

SupportStep(u) ==
  /\ \/ RouteCreate(u) \/ RouteTickets(u) \/ PanelTickets(u)
     \/ \E t \in TicketIds :
          \/ RouteMessages(u, t) \/ PanelMessages(u, t)
          \/ RouteSend(u, t) \/ PanelReply(u, t)
          \/ \E new \in TicketStatus : RouteStatus(u, t, new) \/ PanelStatus(u, t, new)
  /\ by' = u
  /\ UNCHANGED <<role, status, mode, application, post>>

-----------------------------------------------------------------------------
(* submit, by anybody, without a session: _read_access_mode decides.       *)
ReadAccessMode == mode
Submit ==
  /\ ReadAccessMode = "closed"
  /\ NextId("applications") \in ApplicationIds
  /\ application' = [application EXCEPT ![NextId("applications")] =
       [status |-> "pending", reviewer |-> NoUser]]
  /\ Insert({"applications"})
SubmitRoute ==
  /\ Submit
  /\ by' = NoUser
  /\ UNCHANGED <<role, status, mode, ticket, message, post, seen>>

(* set_status: from any state to any, and signed by the reviewer. *)
SetStatus(u, a, new) ==
  /\ application[a].status # "none"
  /\ application' = [application EXCEPT ![a] = [status |-> new, reviewer |-> u]]
ReviewInQueue(u, a, new) == ApplicationsAdmin(u) /\ SetStatus(u, a, new) /\ UNCHANGED seen
ReviewInPanel(u, a, new) == Panel(u) /\ SetStatus(u, a, new) /\ UNCHANGED seen

(* list_queue shows personal data of all applicants. *)
ListQueue(u) == Shows(u, {TheQueue}) /\ UNCHANGED application
ListInQueue(u) == ApplicationsAdmin(u) /\ ListQueue(u)
ListInPanel(u) == Panel(u) /\ ListQueue(u)

ApplicationStep(u) ==
  /\ \/ ListInQueue(u) \/ ListInPanel(u)
     \/ \E a \in ApplicationIds, new \in Reviews :
          ReviewInQueue(u, a, new) \/ ReviewInPanel(u, a, new)
  /\ by' = NoUser
  /\ UNCHANGED <<role, status, mode, ticket, message, post, last>>

-----------------------------------------------------------------------------
(* publish_post: any signed-in account may ask, administrators succeed. *)
BlogAuthor(u) == status[u] = "active"
PublishPost(u) ==
  /\ BlogAuthor(u) /\ IsAdmin(u)
  /\ NextId("posts") \in PostIds
  /\ post' = [post EXCEPT ![NextId("posts")] = u]
  /\ Insert({"posts"})
PublishOnBlog(u) == Signed(u) /\ PublishPost(u)
PublishInPanel(u) == Panel(u) /\ PublishPost(u)

BlogStep(u) ==
  /\ PublishOnBlog(u) \/ PublishInPanel(u)
  /\ by' = NoUser
  /\ UNCHANGED <<role, status, mode, ticket, message, application, seen>>

-----------------------------------------------------------------------------
(* clear_support and clear_blog delete over a connection that does not     *)
(* enforce foreign keys.                                                   *)
ClearSupport(u) ==
  /\ CleanupAdmin(u)
  /\ ticket' = [t \in TicketIds |-> NoTicket]
  /\ message' = [m \in MessageIds |-> NoMessage]
  /\ UNCHANGED post
ClearBlog(u) ==
  /\ CleanupAdmin(u)
  /\ post' = [p \in PostIds |-> NoUser]
  /\ UNCHANGED <<ticket, message>>

CleanupStep(u) ==
  /\ ClearSupport(u) \/ ClearBlog(u)
  /\ by' = NoUser
  /\ UNCHANGED <<role, status, mode, application, last, seen>>

-----------------------------------------------------------------------------
(* The rows of S go: tickets and messages ON DELETE CASCADE, reviewers     *)
(* ON DELETE SET NULL, and a post's author ON DELETE RESTRICT refuses it.  *)
(* Mutant: the messages of the account's tickets stay.                     *)
OrphanedMessages(S) ==
  [m \in MessageIds |-> IF message[m].author \in S THEN NoMessage ELSE message[m]]
MessagesLeft(S) ==
  [m \in MessageIds |->
     IF \/ message[m].author \in S
        \/ message[m].ticket # 0 /\ ticket[message[m].ticket].owner \in S
     THEN NoMessage ELSE message[m]]
UsersGo(S) ==
  /\ \A p \in PostIds : post[p] \notin S
  /\ status' = [u \in Users |-> IF u \in S THEN "absent" ELSE status[u]]
  /\ ticket' = [t \in TicketIds |-> IF ticket[t].owner \in S THEN NoTicket ELSE ticket[t]]
  /\ message' = MessagesLeft(S)

(* What the accounts' handlers do, whoever may call them (module Access):  *)
(* registration, restrictions and their end, roles, deletion, the mode.    *)
Appear(u) ==
  /\ status[u] = "absent" /\ u \notin Admins
  /\ status' = [status EXCEPT ![u] = "active"]
  /\ \E new \in {"user", "guest"} : role' = [role EXCEPT ![u] = new]
  /\ UNCHANGED <<mode, ticket, message, application>>
Suspend(u) ==
  /\ status[u] = "active" /\ status' = [status EXCEPT ![u] = "off"]
  /\ UNCHANGED <<role, mode, ticket, message, application>>
Release(u) ==
  /\ status[u] = "off" /\ status' = [status EXCEPT ![u] = "active"]
  /\ UNCHANGED <<role, mode, ticket, message, application>>
SetRole(u, new) ==
  /\ status[u] # "absent" /\ role' = [role EXCEPT ![u] = new]
  /\ UNCHANGED <<status, mode, ticket, message, application>>
SetMode ==
  /\ mode' = IF mode = "closed" THEN "open" ELSE "closed"
  /\ UNCHANGED <<role, status, ticket, message, application>>
ReviewersGo(S) ==
  application' = [a \in ApplicationIds |->
    [application[a] EXCEPT !.reviewer = IF @ \in S THEN NoUser ELSE @]]
DeleteUser(u) ==
  /\ status[u] # "absent" /\ UsersGo({u}) /\ ReviewersGo({u})
  /\ UNCHANGED <<role, mode>>
DeleteAllUsers(u) ==
  /\ CleanupAdmin(u) /\ UsersGo(Users \ {u}) /\ ReviewersGo(Users \ {u})
  /\ UNCHANGED <<role, mode>>
FullReset(u) ==
  /\ CleanupAdmin(u)
  /\ UsersGo({v \in Users : ~IsAdmin(v)})
  /\ application' = [a \in ApplicationIds |-> NoApplication]
  /\ UNCHANGED <<role, mode>>

AccountStep ==
  /\ \/ \E u \in Users :
          \/ Appear(u) \/ Suspend(u) \/ Release(u)
          \/ DeleteUser(u) \/ DeleteAllUsers(u) \/ FullReset(u)
          \/ \E new \in Granted : SetRole(u, new)
     \/ SetMode
  /\ by' = NoUser
  /\ UNCHANGED <<post, last, seen>>

Next ==
  \/ SubmitRoute \/ AccountStep
  \/ \E u \in Users : SupportStep(u) \/ ApplicationStep(u) \/ BlogStep(u) \/ CleanupStep(u)

Spec == Init /\ [][Next]_vars

-----------------------------------------------------------------------------
(* The types of the tables. *)
TypeOK ==
  /\ role \in [Users -> {"admin", "moderator", "user", "guest"}]
  /\ status \in [Users -> {"absent", "active", "off"}]
  /\ mode \in {"open", "closed"}
  /\ ticket \in [TicketIds -> TicketRows]
  /\ message \in [MessageIds -> MessageRows]
  /\ application \in [ApplicationIds -> ApplicationRows]
  /\ post \in [PostIds -> Users \cup {NoUser}]
  /\ last \in Counters
  /\ by \in Users \cup {NoUser}
  /\ seen \subseteq Users \X (TicketIds \cup {TheQueue})

(* Every id that a row names is that of an account, or ticket, that        *)
(* exists, although some handlers delete with foreign keys enforced and    *)
(* some without; and a ticket keeps the message it was opened with,        *)
(* whichever accounts that wrote in it are deleted: there is one by its    *)
(* owner, as list_messages and the panel assume, which show a ticket by    *)
(* its messages.                                                           *)
Exists(u) == u \in Users /\ status[u] # "absent"
TicketKeepsItsQuestion ==
  \A t \in Live : \E m \in MessageIds : message[m] = [ticket |-> t, author |-> ticket[t].owner]
ReferencesIntact ==
  /\ \A t \in Live : Exists(ticket[t].owner)
  /\ \A m \in MessageIds : message[m].ticket # 0 =>
       message[m].ticket \in Live /\ Exists(message[m].author)
  /\ \A a \in ApplicationIds : application[a].reviewer # NoUser => Exists(application[a].reviewer)
  /\ \A p \in PostIds : post[p] # NoUser => Exists(post[p])
  /\ TicketKeepsItsQuestion

(* server/README.md, "user sees only own tickets, admin sees full queue",  *)
(* and nobody else sees the applications: of whatever has been shown to    *)
(* accounts while they were no administrators.                             *)
OwnTicketsOnly ==
  \A shown \in seen :
    /\ shown[2] # TheQueue
    /\ shown[2] \in Live => ticket[shown[2]].owner = shown[1]

(* "Only admin or ticket owner can change status" and "Ticket owner can    *)
(* only close the ticket" (services/support.py:291, :293), and "admin      *)
(* reply moves open ticket to in_progress" (server/README.md:160): through *)
(* both routers, for owners who become administrators and cease to be, no  *)
(* other request moves a ticket, among them replies and the deletion of    *)
(* other accounts, and no reply of an administrator leaves one open.       *)
Stays(t) == t \in Live /\ ticket'[t].status # "none"
Replied(t) ==
  \E m \in MessageIds : message[m] = NoMessage /\ message'[m].ticket = t /\ message'[m].author = by'
TicketsFollowStaff ==
  [][\A t \in TicketIds : Stays(t) =>
       /\ ticket'[t].status # ticket[t].status =>
            /\ by' # NoUser
            /\ IsAdmin(by') \/ (by' = ticket[t].owner /\ ticket'[t].status = "closed")
       /\ by' # NoUser /\ Replied(t) /\ IsAdmin(by') => ticket'[t].status # "open"]_vars

(* "Update status (admin)" and "status is changed by admin"                *)
(* (server/README.md:154, :160): whoever moves a ticket that there was and *)
(* still is, is an administrator.  The code lets the owner close it, so    *)
(* that no run has this as a property.                                     *)
StatusChangedByAdmin ==
  [][\A t \in TicketIds : Stays(t) /\ ticket'[t].status # ticket[t].status =>
       by' # NoUser /\ IsAdmin(by')]_vars
=============================================================================
