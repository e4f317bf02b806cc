SPECIFICATION PolicySpec
CONSTANTS
  p1 = p1
  p2 = p2
  p3 = p3
  w1 = w1
  w2 = w2
  w3 = w3
  S = S
  T = T
  Pane <- MCPane
  Window <- MCWindow
  SessionOf <- MCSessionOf
  Gone = Gone
  Absent = Absent
  Unknown = Unknown
  NoListing = NoListing
  NoPane = NoPane
  MaxDepth = 2
SYMMETRY MCSymmetry
INVARIANTS
  FollowsOwnChanges
PROPERTIES
  OneView
  DeniedStaysHome
