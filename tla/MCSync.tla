------------------------------- MODULE MCSync -------------------------------
(***************************************************************************)
(* Instances of Sync for TLC: those of MCReconcile, in windows that hold   *)
(* one pane, two or all of them on top of each other.                      *)
(***************************************************************************)
EXTENDS Sync, MCReconcile

Rows2 == {cs \in GeometriesUpTo(2) : IsRow(cs) /\ c \notin PanesOf(cs)}

\* The operator watches: passive calls for two panes, seen from every window.
Watching ==
  [calls |-> CallsOf({Row2}, TRUE), starts |-> ViewsOf(Rows2), busy |-> {{}}, may |-> May(1, 0, 1)]

\* A document is opened: explicit calls for two panes.
Opening ==
  [calls |-> CallsOf({Row2}, FALSE), starts |-> StartsOf(Rows2), busy |-> {{}, {x}}, may |-> May(1, 0, 1)]

\* Room: stacks and rows that do not fit, and a busy pane.
Fitting ==
  [calls  |-> CallsOf({Hook3, Bank3}, FALSE) \union CallsOf({Row3, Hook3}, TRUE),
   starts |-> StartsOf({<< <<a>>, <<x>> >>, << <<a, c>> >>}),
   busy   |-> {{}, {x}},
   may    |-> May(0, 0, 0)]

\* Straying: the operator's pane a is to stand next to b, which is in the window
\* of another session, when the only pane of Target dies.
Straying ==
  [calls  |-> {cl \in CallsOf({<< <<b>>, <<a>> >>}, TRUE) : cl.focus = b},
   starts |-> {[start EXCEPT !.server.cur = OwnWindow[a]] :
                 start \in {s \in StraysOf({<< <<x>> >>}) : s.server.loc[a] = OwnWindow[a]}},
   busy   |-> {{}},
   may    |-> May(1, 0, 0)]

SyncScenarios == {Watching, Opening, Fitting, StashIsTarget, Straying}

\* Convergence: explicit and passive calls, a busy pane and a failing join.
Converging ==
  [calls  |-> {cl \in CallsOf({Row3}, FALSE) \union CallsOf({Row2}, TRUE) : cl.focus = b},
   starts |-> StartsOf({<< <<x>>, <<a>> >>, << <<x>> >>}),
   busy   |-> {{x}},
   may    |-> May(0, 1, 0)]

RepeatedSyncs == {Converging}
=============================================================================
