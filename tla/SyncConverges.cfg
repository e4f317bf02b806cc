SPECIFICATION FairSyncSpec
CONSTANTS
  a = a
  b = b
  c = c
  x = x
  Shell = Shell
  NoPane = NoPane
  Pane <- MCPane
  Window <- MCWindow
  Target = 1
  Foreign = {8}
  Scenarios <- RepeatedSyncs
  Heights = {8, 40}
  Roomy = 40
PROPERTIES
  SyncConverges
