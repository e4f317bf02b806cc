----------------------------- MODULE MCReconcile ----------------------------
(***************************************************************************)
(* Instances of Reconcile for TLC: panes a, b, c of the documents and x of *)
(* something else, Target = 1, a stash window 2 and windows of a single    *)
(* pane 3 to 6, and a window 8 of another session.                         *)
(***************************************************************************)
EXTENDS Reconcile

CONSTANTS a, b, c, x

MCPane == {a, b, c, x}
MCWindow == 1..8

\* The columns of the calls: every shape of two or three panes.
Row2   == << <<a>>, <<b>> >>
Stack2 == << <<a, b>> >>
Row3   == << <<a>>, <<b>>, <<c>> >>
Hook3  == << <<a>>, <<b, c>> >>
Bank3  == << <<a, b>>, <<c>> >>

CallsOf(Shapes, passive) ==
  {[columns |-> cs, focus |-> f, passive |-> passive] :
     cs \in Shapes, f \in {NoPane, b}}

\* The server in which Target has the panes of cs, q selected, and "away" has
\* the windows of the other panes; a stash window is there if a pane is in it.
StartServer(cs, away, cur, q) ==
  LET loc == [p \in MCPane |-> IF p \in PanesOf(cs) THEN 1 ELSE away[p]]
      live == Live(loc, {}) \ {1}
  IN  [loc |-> loc, stash |-> live \intersect {2}, shells |-> {}, cur |-> cur,
       sel |-> [w \in MCWindow |-> IF w = 1 THEN q ELSE IF w \notin live THEN Shell
                                   ELSE CHOOSE p \in Occupants(loc, {}, w) : TRUE]]

OwnWindow == a :> 3 @@ b :> 4 @@ c :> 5 @@ x :> 6

\* The other panes are each in the stash or alone in a window.
AwayFrom(cs) ==
  {f \in [MCPane \ PanesOf(cs) -> MCWindow] : \A p \in DOMAIN f : f[p] \in {2, OwnWindow[p]}}

\* The starts whose Target shows one of the given geometries and is current,
\* with its first pane selected.
StartsOf(Gs) ==
  UNION {{[server |-> StartServer(cs, away, 1, cs[1][1]), cols |-> cs] : away \in AwayFrom(cs)} :
         cs \in Gs}

\* The same with any window of a single pane current, or any pane of Target
\* selected in it.
ViewsOf(Gs) ==
  UNION {UNION {{[server |-> StartServer(cs, away, cur, q), cols |-> cs] :
                   cur \in {1} \union ({away[p] : p \in DOMAIN away} \ {2}), q \in PanesOf(cs)} :
                away \in AwayFrom(cs)} :
         cs \in Gs}

\* The same with b in a window of another session.
StraysOf(Gs) ==
  UNION {{[server |-> StartServer(cs, [away EXCEPT ![b] = 8], 1, cs[1][1]), cols |-> cs] :
            away \in AwayFrom(cs)} :
         cs \in {g \in Gs : b \notin PanesOf(g)}}

GeometriesUpTo(n) ==
  UNION {Arrangements(P) : P \in {Q \in SUBSET MCPane : Cardinality(Q) \in 1..n}}

-----------------------------------------------------------------------------
(* The instances.                                                          *)

Shapes == {Row2, Stack2, Row3, Hook3, Bank3}

May(deaths, fails, moves) == [deaths |-> deaths, fails |-> fails, moves |-> moves, missed |-> 0]

\* Failures: a pane dies and a join fails, anywhere in explicit calls.
Failures ==
  [calls  |-> {cl \in CallsOf({Row2, Hook3}, FALSE) : cl.focus = b},
   starts |-> StartsOf(GeometriesUpTo(2)) \union StraysOf(GeometriesUpTo(2)),
   busy   |-> {{}, {x}},
   may    |-> May(1, 1, 0)]

\* Misses: a command fails, and the registry misses updates of a pane.
Misses ==
  [calls  |-> {cl \in CallsOf({Row2}, FALSE) : cl.focus = b},
   starts |-> StartsOf(GeometriesUpTo(2)),
   busy   |-> {{}},
   may    |-> [May(0, 1, 0) EXCEPT !.missed = 1]]

\* Geometries: every window of up to three panes, every shape, no failures.
Geometries ==
  [calls  |-> {cl \in CallsOf(Shapes, FALSE) : cl.focus = b},
   starts |-> StartsOf(GeometriesUpTo(3)),
   busy   |-> {{}, {x}},
   may    |-> May(0, 0, 0)]

\* Selections: the operator selects a pane once, anywhere in calls of both kinds.
Selections ==
  [calls  |-> {cl \in CallsOf({Row2}, FALSE) \union CallsOf({Row2}, TRUE) : cl.focus = b},
   starts |-> StartsOf(GeometriesUpTo(1)),
   busy   |-> {{}},
   may    |-> May(0, 0, 1)]

\* Stash: the target window is itself a stash window.
StashIsTarget ==
  [calls  |-> {cl \in CallsOf({Row2}, FALSE) : cl.focus = b},
   starts |-> {[start EXCEPT !.server.stash = @ \union {1}] : start \in StartsOf(GeometriesUpTo(2))},
   busy   |-> {{}},
   may    |-> May(0, 0, 0)]

SafetyScenarios == {Failures, Misses, Geometries, Selections, StashIsTarget}
=============================================================================
