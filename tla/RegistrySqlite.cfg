SPECIFICATION Spec
CONSTANTS
  k1 = k1
  k2 = k2
  p1 = p1
  p2 = p2
  w1 = w1
  w2 = w2
  Key = {k1, k2}
  Pane = {p1, p2}
  Window = {w1, w2}
  Stamp = {1}
  NoEntry = NoEntry
  Thread = {t1, t2}
  LockFile = LockFile
  Nobody = Nobody
  NoOp = NoOp
  NoRow = NoRow
  NoPane = NoPane
  ActorKey = {k1}
  ActorDocs <- Documents
  Called <- AllCalls
  Aliases <- MCAliases
  Corrupt <- MCCorrupt
SYMMETRY MCSymmetry
PROPERTIES
  SaveSparesOthers
  PruneSparesBound
  LookupAgrees
