SPECIFICATION Spec
CONSTANTS
  root = root
  ann = ann
  bob = bob
  c1 = c1
  Users = {root, ann, bob}
  Admins = {root}
  Granted = {"moderator"}
  Codes = {c1}
  NoCode = NoCode
  NoUser = NoUser
  MaxCustom = 1
  MaxRooms = 3
INVARIANT
  DirectIsForTwo
SYMMETRY Interchangeable
