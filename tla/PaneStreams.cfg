SPECIFICATION FairSpec
CONSTANTS
  Pane = {p1}
  Text <- MCText
  Utf8 <- MCUtf8
  Notice = {"end", "pane-died"}
  Reply = "end"
  Guard = {g1, g2}
  NoGuard = NoGuard
  NoPane = NoPane
  Timeout = 2
  MaxLines = 2
INVARIANTS
  OutputIsExact
  StreamIsWhole
PROPERTIES
  ErrorComesLast
  CallsReturn
