SPECIFICATION Spec
CONSTANTS
  root = root
  ann = ann
  all = all
  t1 = t1
  f1 = f1
  f2 = f2
  Users = {root, ann}
  Admins = {root}
  Granted = {"moderator"}
  Chats = {all}
  General = all
  Tickets = {t1}
  Files = {f1, f2}
  NoFile = NoFile
  NoUser = NoUser
  NoPlace = NoPlace
  MaxPerMessage = 1
  MaxMessages = 2
INVARIANTS
  DownloadsAreShared
  FilesExist
