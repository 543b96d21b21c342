SPECIFICATION Spec
CONSTANTS
  alice = alice
  general = general
  side = side
  s1 = s1
  s2 = s2
  s3 = s3
  p1 = p1
  p2 = p2
  Conns = {s1, s2}
  Posts = {p1}
  Chats = {general}
  Users = {alice}
  UserOf <- AllAlice
  ChatOf <- OneRoom
  ClientIds = {k1}
  NoId = NoId
  NoUser = NoUser
  MaxConnections = 2
  FramesReadable = TRUE
  MaxMessages = 2
  MaxRetries = 1
  MaxCrashes = 1
INVARIANTS
  NoGap
  OneRowPerClientId
PROPERTY
  AuthorHasAccess
SYMMETRY SocketsAlike
