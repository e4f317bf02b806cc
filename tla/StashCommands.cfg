SPECIFICATION Spec
CONSTANTS
  a = a
  b = b
  x = x
  Shell = Shell
  NoPane = NoPane
  NoCall = NoCall
  Pane <- MCPane
  Window <- MCWindow
  Target = 1
  Foreign = {}
  Caller = {c1, c2}
  Calls <- MCCalls
  Starts <- MCStarts
  May <- MCMay
SYMMETRY MCSymmetry
CHECK_DEADLOCK FALSE
PROPERTIES
  StashKeepsItsWord
  ActsAsOneStep
  GuardsHold
