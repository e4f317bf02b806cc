SPECIFICATION Spec
CONSTANTS
  Key = {k1, k2}
  Pane = {p1, p2}
  Window = {w1, w2}
  Stamp = {1, 2}
  NoEntry = NoEntry
  Thread = {t1, t2}
  CliThread = {}
  ScopedThread = {}
  LockFile = LockFile
  Nobody = Nobody
  NoOp = NoOp
  Torn = Torn
  MaxFaults = 1
  TornWrites = FALSE
SYMMETRY MCSymmetry
INVARIANTS
  PruneIsThorough
  SavesAreCurrent
PROPERTIES
  ImplementsAtomic
