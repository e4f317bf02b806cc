------------------------------ MODULE MCResolve -----------------------------
(***************************************************************************)
(* Instances of Resolve for TLC: three files, three panes, the windows 1   *)
(* and 2 of session S and 3 of session T, and a stash window of each.      *)
(***************************************************************************)
EXTENDS Resolve, TLC

CONSTANTS fa, fb, fc, p, q, r, S, T

MCSessionOf == 1 :> S @@ 2 :> S @@ 3 :> T @@ 8 :> S @@ 9 :> T
MCStashOf   == S :> 8 @@ T :> 9

Stacked  == << <<fa, fb>>, <<fc>> >>
Mixed    == << <<fa>>, <<fb, fc>> >>
Row      == << <<fa>>, <<fb>> >>
Repeated == << <<fa, fa>>, <<fb>> >>

Same(v)  == [o \in File |-> v]
AllIn1   == p :> 1 @@ q :> 1 @@ r :> 1
PDead    == p :> 0 @@ q :> 1 @@ r :> 2

\* Lending: files bound to live, shared, dead or no panes.
Lendings ==
  [layout : {Stacked, Mixed, Row, Repeated}, window : {None, 1}, focus : {None, fb},
   kind : {Same("registered")}, wish : {Same(None)},
   proven : {Same(None), [Same(None) EXCEPT ![fa] = q]},
   may : {Same(TRUE), [Same(TRUE) EXCEPT ![fb] = FALSE]}, busy : {{}},
   bound : [File -> {None, p, q}], loc : {AllIn1, PDead}, most : {0}]

\* The same while panes die and move and files are bound.
Races ==
  [layout : {Stacked, Repeated}, window : {None}, focus : {fa, fb},
   kind : {Same("registered")}, wish : {Same(None)}, proven : {Same(None)},
   may : {[Same(TRUE) EXCEPT ![fb] = FALSE]}, busy : {{}},
   bound : {fa :> p @@ fb :> None @@ fc :> q, fa :> None @@ fb :> q @@ fc :> None},
   loc : {AllIn1}, most : {2}]

\* Windows: wanted panes anywhere, every --window and every wish.
Windows(locs, most) ==
  [layout : {Row}, window : {None, 1, 2, 3}, focus : {None},
   kind : {Same("registered")}, wish : {Same(None), Same(S), [Same(None) EXCEPT ![fb] = T]},
   proven : {Same(None)}, may : {Same(TRUE)}, busy : {{}},
   bound : {fa :> p @@ fb :> q @@ fc :> None}, loc : locs, most : {most}]

\* Emptying: files of every kind without a pane.
Emptyings ==
  [layout : {Row}, window : {None, 1}, focus : {fb},
   kind : [File -> Kinds], wish : {Same(None)}, proven : {Same(None)}, may : {Same(FALSE)},
   busy : {{}, {q}, {p, q, r}}, bound : {Same(None)},
   loc : {AllIn1, PDead}, most : {0, 1}]

MCInputs ==
  Lendings \union Races \union Emptyings
    \union Windows([Pane -> {1, 2, 3}], 0)
    \union Windows({p :> 1 @@ q :> 3 @@ r :> 2}, 1)

\* The command line: files that were registered, in windows of their own.
Registered ==
  [layout : {Stacked, Row}, window : {None, 1}, focus : {None, fa},
   kind : [File -> Kinds], wish : {Same(None)}, proven : {Same(None)}, may : {Same(TRUE)},
   busy : {{}}, bound : [File -> {None, p, q}], loc : [Pane -> {1, 2}], most : {0}]

CliInputs == {in \in Registered : IsCliSync(in)}

=============================================================================
