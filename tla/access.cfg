SPECIFICATION Spec
CONSTANTS
  root = root
  deputy = deputy
  ann = ann
  d1 = d1
  t1 = t1
  t2 = t2
  Users = {root, deputy, ann}
  Admins = {root, deputy}
  Tokens = {t1, t2}
  Devices = {d1}
  Granted = {"moderator"}
  NoUser = NoUser
  NoDevice = NoDevice
INVARIANTS
  BlockedHasDeadline
  OneAccountPerDevice
  ReferencesIntact
PROPERTIES
  ImplementsPeople
  NoSelfRelease
  DeletionKeepsAdmin
SYMMETRY Interchangeable
