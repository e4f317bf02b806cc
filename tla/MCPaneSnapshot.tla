---------------------------- MODULE MCPaneSnapshot ----------------------------
(***************************************************************************)
(* Instances of PaneSnapshot for TLC: three panes, two windows of session  *)
(* S and one of session T.                                                 *)
(***************************************************************************)
EXTENDS PanePolicy, TLC

CONSTANTS p1, p2, p3, w1, w2, w3, S, T

MCPane == {p1, p2, p3}
MCWindow == {w1, w2, w3}
MCSessionOf == w1 :> S @@ w2 :> S @@ w3 :> T

MCSymmetry == Permutations(MCPane) \union Permutations({w1, w2})
=============================================================================
