SPECIFICATION MCSpec
SYMMETRY Interchangeable
CONSTANTS
  root = root
  ann = ann
  d1 = d1
  host = host
  reader = reader
  stamp = stamp
  esp = esp
  x1 = x1
  x2 = x2
  n1 = n1
  cardputer = cardputer
  stick = stick
  Users = {root, ann}
  Admins = {root}
  Granted = {"guest", "admin"}
  NoUser = NoUser
  Devices = {d1}
  LockAfter = 2
  MaxFailures = 4
  Modules = {host, reader, stamp, esp}
  Host = host
  Reader = reader
  EdgeModules = {stamp, esp}
  MaxEdge = 4
  NoModule = NoModule
  MaxDeployments = 3
  Uids = {x1, x2}
  MaxInside = 1
  MaxCards = 2
  MaxEvents = 4
  NodeIds = {n1}
  NodeTypes = {cardputer, stick}
  NoType = NoType
  t1 = t1
  t2 = t2
  Times = {t1, t2}
  MaxData = 2
  MaxIncidents = 2
  MaxRuns = 1
  s1 = s1
  Slugs = {s1}
  a1 = a1
  a2 = a2
  l1 = l1
  l2 = l2
  Addresses = {a1, a2}
  Logins = {l1, l2}
  LoginLimit = 2
  IpLimit = 3
  Window = 2
  Block = 2
  RateLimit <- MCRateLimit
  RateWindow <- MCRateWindow
  MaxTime = 2
  MaxWaiting = 1
INVARIANTS
  TypeOK
  GrantsAreExplained
  CapacityReachable
  BackupsRestore
  LimitsHold
PROPERTIES
  ImplementsRation
