SPECIFICATION Spec
CONSTANTS
  alice = alice
  general = general
  side = side
  s1 = s1
  s2 = s2
  s3 = s3
  p1 = p1
  p2 = p2
  Conns = {s1, s2}
  Posts = {}
  Chats = {general}
  Users = {alice}
  UserOf <- AllAlice
  ChatOf <- OneRoom
  ClientIds = {}
  NoId = NoId
  NoUser = NoUser
  MaxConnections = 2
  FramesReadable = FALSE
  MaxMessages = 1
  MaxRetries = 1
  MaxCrashes = 0
INVARIANT
  FramesAreServed
CHECK_DEADLOCK FALSE
