SPECIFICATION Spec
CONSTANTS
  a = a
  b = b
  c = c
  x = x
  Shell = Shell
  NoPane = NoPane
  Pane <- MCPane
  Window <- MCWindow
  Target = 1
  Foreign = {8}
  Scenarios <- SafetyScenarios
INVARIANTS
  TargetKept
  LossIsReported
  EvictedAreStashed
  RegistryFollows
  FullRunSettles
PROPERTIES
  BusyStays
