SPECIFICATION FairSpec
CONSTANTS
  Key = {k1, k2}
  Pane = {p1}
  Window = {w1}
  Stamp = {1}
  NoEntry = NoEntry
  Thread = {t1, t2}
  CliThread = {t1}
  ScopedThread = {t2}
  LockFile = LockFile
  Nobody = Nobody
  NoOp = NoOp
  Torn = Torn
  MaxFaults = 1
  TornWrites = TRUE
PROPERTIES
  OperationsReturn
