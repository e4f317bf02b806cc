---------------------------- MODULE MCPaneStreams ----------------------------
(***************************************************************************)
(* An instance of PaneStreams for TLC: one pane with two guards.  The pane *)
(* writes a newline, the characters of an escape, or half a character.     *)
(***************************************************************************)
EXTENDS PaneStreams

Newline == <<10>>
Literal == <<92, 49, 50, 51, 92>>   \* \123\
Half    == <<195>>

MCText == {Newline, Literal, Half}
MCUtf8 == {Newline, Literal}

=============================================================================
