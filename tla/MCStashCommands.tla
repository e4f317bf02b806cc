--------------------------- MODULE MCStashCommands ---------------------------
(***************************************************************************)
(* Instances of StashCommands for TLC: two processes, panes a and b in     *)
(* Target = 1, pane x in a stash window 2, in a window 3 or dead.          *)
(***************************************************************************)
EXTENDS StashCommands, TLC

CONSTANTS a, b, x

MCPane == {a, b, x}
MCWindow == 1..6

ServerWith(loc, stash, shells) ==
  [loc |-> loc, stash |-> stash, shells |-> shells, cur |-> 1,
   sel |-> [w \in MCWindow |-> IF Occupants(loc, shells, w) \ {Shell} = {} THEN Shell
                               ELSE CHOOSE p \in Occupants(loc, shells, w) \ {Shell} : TRUE]]

\* No stash, and a stash of one pane.
MCStarts ==
  {ServerWith(a :> 1 @@ b :> 1 @@ x :> 2, stash, {}) : stash \in {{}, {2}}}

MCCalls ==
  {[op |-> "evict", pane |-> a], [op |-> "evict", pane |-> b], [op |-> "stash", pane |-> a],
   [op |-> "kill", pane |-> b]}

MCMay == 2

MCSymmetry == Permutations(Caller)

=============================================================================
