SPECIFICATION FairSpec
CONSTANTS
  n1 = n1
  n2 = n2
  k1 = k1
  k2 = k2
  k3 = k3
  plain = plain
  marked = marked
  Nodes = {n1, n2}
  Keys = {k1, k2, k3}
  Contents = {plain, marked}
  NoContent = NoContent
  TargetOf <- MCTargetOf
  NoteOf <- MCNoteOf
  Marked = {marked}
  Limit = 2
INVARIANTS
  TypeOK
  HandedOnce
  ConflictHasResolution
PROPERTIES
  ImplementsOutbox
  PendingLeaves
