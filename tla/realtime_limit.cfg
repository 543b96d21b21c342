SPECIFICATION FairSpec
CONSTANTS
  alice = alice
  general = general
  side = side
  s1 = s1
  s2 = s2
  s3 = s3
  p1 = p1
  p2 = p2
  Conns = {s1, s2, s3}
  Posts = {p2}
  Chats = {general, side}
  Users = {alice}
  UserOf <- AllAlice
  ChatOf <- TwoRooms
  ClientIds = {}
  NoId = NoId
  NoUser = NoUser
  MaxConnections = 2
  FramesReadable = TRUE
  MaxMessages = 1
  MaxRetries = 1
  MaxCrashes = 0
INVARIANTS
  TypeOK
  ConnectionLimit
  RosterMatchesRooms
  ServedIsRegistered
  DeadIsPruned
PROPERTIES
  SendsFinish
