----------------------------- MODULE TmuxLayout -----------------------------
(***************************************************************************)
(* The geometry of one tmux window, as list_panes_ordered (tmux.rs) sees   *)
(* it: the panes sorted by left edge, then by top edge.  A geometry is a   *)
(* sequence of columns, one per distinct left edge, each the sequence of   *)
(* the panes with that left edge from top to bottom.                       *)
(*                                                                         *)
(* tmux is an external program; its layout code is modelled by what the    *)
(* callers in sync.rs can observe.  Where the result depends on the tree   *)
(* of splits, which a geometry does not record, an operator returns every  *)
(* geometry the tree could give.                                           *)
(***************************************************************************)
EXTENDS Filter, FiniteSets

\* The panes in position order: what list_panes_ordered returns.
Order(cs) == FlattenSeq(cs)

PanesOf(cs) == UNION {ToSet(cs[k]) : k \in DOMAIN cs}

\* Columns of panes of P, none empty, and no pane twice.
IsGeometry(cs, P) ==
  /\ cs \in Seq(Seq(P) \ {<<>>})
  /\ \A k, j \in DOMAIN cs : \A r \in DOMAIN cs[k], q \in DOMAIN cs[j] :
       cs[k][r] = cs[j][q] => k = j /\ r = q

\* The column and the row of a pane of the geometry.
ColOf(cs, p) == CHOOSE k \in DOMAIN cs : p \in ToSet(cs[k])
RowOf(cs, p) == CHOOSE r \in DOMAIN cs[ColOf(cs, p)] : cs[ColOf(cs, p)][r] = p

\* Every pane stands alone in its column: one left-right split, no stacks.
IsRow(cs) == \A k \in DOMAIN cs : Len(cs[k]) = 1

\* The ways to cut a sequence into consecutive nonempty columns: S is the set
\* of the positions that start one.
Cuts(s, S) ==
  LET start == Retained([i \in DOMAIN s |-> i], S)
      end(i) == IF i = Len(start) THEN Len(s) ELSE start[i + 1] - 1
  IN  [i \in 1..Len(start) |-> SubSeq(s, start[i], end(i))]

Arrangements(P) ==
  IF P = {} THEN {<<>>}
  ELSE {Cuts(s, S \union {1}) : s \in SetToSeqs(P), S \in SUBSET (2..Cardinality(P))}

Before(cs, k) == SubSeq(cs, 1, k - 1)
After(cs, k)  == SubSeq(cs, k + 1, Len(cs))

\* p leaves the window and a neighbour grows into its place.  Panes move their
\* left edge when p was the first cell of a left-right split, which it cannot
\* be in the last column; in a row they never change places.  (In windows of
\* six panes or more, a widened subtree could also reorder earlier columns.)
Removals(cs, p) ==
  LET k    == ColOf(cs, p)
      rest == RemoveAt(cs[k], RowOf(cs, p))
      kept == IF rest = <<>> THEN <<>> ELSE <<rest>>
  IN  IF IsRow(cs) \/ k = Len(cs)
      THEN {Before(cs, k) \o kept \o After(cs, k)}
      ELSE {Before(cs, k) \o tail :
              tail \in Arrangements((ToSet(rest) \union PanesOf(After(cs, k))))}

\* p is split off to the right of column k: its left edge is beyond that of
\* column k and can be anywhere among the columns that follow, which are
\* those of other rows of splits.
RightOf(cs, k, p) ==
  IF IsRow(cs) \/ k = Len(cs)
  THEN {Before(cs, k + 1) \o << <<p>> >> \o After(cs, k)}
  ELSE {Before(cs, j + 1) \o << <<p>> >> \o After(cs, j) : j \in k..Len(cs)}
       \union UNION {{[cs EXCEPT ![j] = InsertAt(cs[j], r, p)] :
                        r \in 1..(Len(cs[j]) + 1)} : j \in (k + 1)..Len(cs)}

\* join-pane of p with the given flag, t being the pane that is split.
Joins(cs, p, t, flag) ==
  LET k == ColOf(cs, t)
      r == RowOf(cs, t)
  IN  CASE flag = "-dv"  -> {[cs EXCEPT ![k] = InsertAt(cs[k], r + 1, p)]}
        [] flag = "-dbv" -> {[cs EXCEPT ![k] = InsertAt(cs[k], r, p)]}
        [] flag = "-dh"  -> RightOf(cs, k, p)
        [] flag = "-dbh" -> RightOf([cs EXCEPT ![k][r] = p], k, t)

\* swap-pane: p takes the place of t.
Replaced(cs, t, p) ==
  [k \in DOMAIN cs |-> [r \in DOMAIN cs[k] |-> IF cs[k][r] = t THEN p ELSE cs[k][r]]]

=============================================================================
