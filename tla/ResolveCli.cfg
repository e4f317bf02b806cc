SPECIFICATION Spec
CONSTANTS
  fa = fa
  fb = fb
  fc = fc
  p = p
  q = q
  r = r
  S = S
  T = T
  File = {fa, fb, fc}
  Pane = {p, q, r}
  Window = {1, 2, 3, 8, 9}
  Session = {S, T}
  SessionOf <- MCSessionOf
  StashOf <- MCStashOf
  Gone = 0
  None = None
  Inputs <- CliInputs
CHECK_DEADLOCK FALSE
INVARIANTS
  RegisteredAreFound
