SPECIFICATION Spec
CONSTANTS
  root = root
  ann = ann
  Users = {root, ann}
  Admins = {root}
  Granted = {"moderator", "admin"}
  NoUser = NoUser
  Reviews = {"approved"}
  MaxTickets = 2
  MaxMessages = 2
  MaxApplications = 1
  MaxPosts = 1
INVARIANTS
  ReferencesIntact
  OwnTicketsOnly
PROPERTIES
  TicketsFollowStaff
