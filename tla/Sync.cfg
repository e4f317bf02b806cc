SPECIFICATION SyncSpec
CONSTANTS
  a = a
  b = b
  c = c
  x = x
  Shell = Shell
  NoPane = NoPane
  Pane <- MCPane
  Window <- MCWindow
  Target = 1
  Foreign = {8}
  Scenarios <- SyncScenarios
  Heights = {8, 40}
  Roomy = 40
INVARIANTS
  SyncIsFocusNeutral
  FocusIsShown
  WindowSurvives
PROPERTIES
  StashStaysHidden
